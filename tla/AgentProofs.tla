---------------------------- MODULE AgentProofs ----------------------------
(***************************************************************************)
(* Theorems about Agent, for every set of pods and of secrets and every    *)
(* number of results, failed transmissions and restarts.                   *)
(***************************************************************************)
EXTENDS Agent, SequenceTheorems, TLAPS

-----------------------------------------------------------------------------
(* Types and the two records of the loop.                                  *)

\* Initially no pod has a process.
LEMMA TypeInit == Init => TypeOK /\ LoopAgrees
<1>1. <<>> \in Seq(Recorded) /\ Len(<<>>) = 0
  BY EmptySeq
<1>2. QED
  BY <1>1, BoundsAssumption DEF Init, TypeOK, LoopAgrees, PCs, Alive, Looping

\* A pod that has started can serialise its state.
LEMMA SnapshotIsState ==
    ASSUME TypeOK, LoopAgrees, NEW p \in Pods, pc[p] # "absent"
    PROVE  Snapshot(p) \in State
BY DEF TypeOK, LoopAgrees, Snapshot, State

\* One result is one node and, a step later, one finding.
LEMMA TypeStep ==
    TypeOK /\ LoopAgrees /\ EndAgrees /\ [Next]_vars => TypeOK' /\ LoopAgrees'
<1> SUFFICES ASSUME TypeOK, LoopAgrees, EndAgrees, [Next]_vars
             PROVE  TypeOK' /\ LoopAgrees'
  OBVIOUS
<1> DEFINE Goal == TypeOK' /\ LoopAgrees'
<1>a. \A p \in Pods, s \in Recorded :
         /\ Append(nodes[p], s) \in Seq(Recorded)
         /\ Len(Append(nodes[p], s)) = Len(nodes[p]) + 1
  BY AppendProperties DEF TypeOK
<1>s. \A p \in Pods : pc[p] # "absent" => Snapshot(p) \in State
  BY SnapshotIsState
<1> USE BoundsAssumption
<1> USE DEF TypeOK, LoopAgrees, PCs, Alive, Looping, process, post, budget
<1>1. ASSUME NEW p \in Pods, Start(p) PROVE Goal
  BY <1>1 DEF Start
<1>2. ASSUME NEW p \in Pods, Initialize(p) PROVE Goal
  BY <1>2 DEF Initialize
<1>3. ASSUME NEW p \in Pods, EnterDag(p) PROVE Goal
  BY <1>3 DEF EnterDag
<1>4. ASSUME NEW p \in Pods, UpdateDag(p) PROVE Goal
  BY <1>a, <1>4 DEF UpdateDag
<1>5. ASSUME NEW p \in Pods, EnterSemantic(p) PROVE Goal
  BY <1>5 DEF EnterSemantic
<1>6. ASSUME NEW p \in Pods, UpdateSemantic(p) PROVE Goal
  BY <1>6 DEF UpdateSemantic
<1>7. ASSUME NEW p \in Pods, Terminate(p) PROVE Goal
  BY <1>7 DEF Terminate
<1>8. ASSUME NEW p \in Pods, TakeSignal(p) PROVE Goal
  <2>1. pc[p] # "absent"
    BY <1>8 DEF TakeSignal, EndAgrees
  <2>2. /\ pc' = [pc EXCEPT ![p] = "stuck"] \/ pc' = [pc EXCEPT ![p] = "posting"]
        /\ signal' = [signal EXCEPT ![p] = "caught"]
        /\ \/ UNCHANGED post
           \/ /\ payload' = [payload EXCEPT ![p] = Snapshot(p)]
              /\ request' = [request EXCEPT ![p] = "sent"]
        /\ UNCHANGED <<key, nodes, findings, ingested, budget>>
    BY <1>8 DEF TakeSignal
  <2>3. TypeOK'
    <3>1. /\ pc' \in [Pods -> PCs]
          /\ signal' \in [Pods -> {"none", "pending", "dropped", "caught"}]
      BY <2>2
    <3>2. CASE UNCHANGED post
      BY <2>2, <3>1, <3>2
    <3>3. CASE /\ payload' = [payload EXCEPT ![p] = Snapshot(p)]
               /\ request' = [request EXCEPT ![p] = "sent"]
      <4>1. Snapshot(p) \in State
        BY <1>s, <2>1
      <4>2. /\ payload' \in [Pods -> State \cup {None}]
            /\ request' \in [Pods -> {"none", "sent", "accepted", "refused", "lost"}]
        BY <3>3, <4>1
      <4>3. QED
        BY <2>2, <3>1, <4>2
    <3>4. QED
      BY <2>2, <3>2, <3>3
  <2>4. LoopAgrees'
    BY <2>1, <2>2
  <2>5. QED
    BY <2>3, <2>4
<1>9. ASSUME NEW p \in Pods, HandlerRaises(p) PROVE Goal
  <2>1. pc[p] = "research"
    BY <1>9 DEF HandlerRaises
  <2>2. CASE pc' = pc
    BY <1>9, <2>2 DEF HandlerRaises
  <2>3. CASE pc' = [pc EXCEPT ![p] = "gone"]
    BY <1>9, <2>1, <2>3 DEF HandlerRaises
  <2>4. QED
    BY <1>9, <2>2, <2>3 DEF HandlerRaises
<1>10. ASSUME NEW p \in Pods, Answered(p) PROVE Goal
  BY <1>10 DEF Answered
<1>11. ASSUME NEW p \in Pods, TransmitFails(p) PROVE Goal
  BY <1>11 DEF TransmitFails
<1>12. ASSUME NEW p \in Pods, Kill(p) PROVE Goal
  BY <1>12 DEF Kill
<1>13. ASSUME NEW p \in Pods, Ingest(p) PROVE Goal
  <2>1. request[p] = "sent" /\ payload[p] \in State
    BY <1>13 DEF Ingest, EndAgrees, Sent
  <2>2. QED
    BY <2>1, <1>13 DEF Ingest
<1>14. CASE RestartController
  BY <1>14 DEF RestartController
<1>15. CASE UNCHANGED vars
  BY <1>15 DEF vars
<1>16. QED
  BY <1>1, <1>2, <1>3, <1>4, <1>5, <1>6, <1>7, <1>8, <1>9, <1>10, <1>11, <1>12,
     <1>13, <1>14, <1>15
     DEF Next, Handler

-----------------------------------------------------------------------------
(* The end of a pod.                                                       *)

\* Initially nothing has been signalled or sent.
LEMMA EndInit == Init => EndAgrees
BY DEF Init, EndAgrees, Sent

\* The signal is caught once, in the loop, and a handler that has sent the state
\* never returns to it.
LEMMA EndStep ==
    TypeOK /\ LoopAgrees /\ EndAgrees /\ [Next]_vars => EndAgrees'
<1> SUFFICES ASSUME TypeOK, LoopAgrees, EndAgrees, [Next]_vars
             PROVE  EndAgrees'
  OBVIOUS
<1>0. /\ pc \in [Pods -> PCs] /\ payload \in [Pods -> State \cup {None}]
      /\ request \in [Pods -> {"none", "sent", "accepted", "refused", "lost"}]
      /\ signal \in [Pods -> {"none", "pending", "dropped", "caught"}]
      /\ nodes \in [Pods -> Seq(Recorded)] /\ findings \in [Pods -> 0..MaxLoops]
  BY DEF TypeOK
<1>s. \A p \in Pods : pc[p] # "absent" => Snapshot(p) # None
  BY SnapshotIsState, NoneAssumption
<1> USE <1>0, NoneAssumption
<1> USE DEF EndAgrees, Sent, PCs, Alive, Looping, Holding, process, post, budget
<1>1. ASSUME NEW p \in Pods, Start(p) PROVE EndAgrees'
  BY <1>1 DEF Start
<1>2. ASSUME NEW p \in Pods, Initialize(p) PROVE EndAgrees'
  BY <1>2 DEF Initialize
<1>3. ASSUME NEW p \in Pods, EnterDag(p) PROVE EndAgrees'
  BY <1>3 DEF EnterDag
<1>4. ASSUME NEW p \in Pods, UpdateDag(p) PROVE EndAgrees'
  BY <1>4 DEF UpdateDag
<1>5. ASSUME NEW p \in Pods, EnterSemantic(p) PROVE EndAgrees'
  BY <1>5 DEF EnterSemantic
<1>6. ASSUME NEW p \in Pods, UpdateSemantic(p) PROVE EndAgrees'
  BY <1>6 DEF UpdateSemantic
<1>7. ASSUME NEW p \in Pods, Terminate(p) PROVE EndAgrees'
  BY <1>7 DEF Terminate
<1>8. ASSUME NEW p \in Pods, TakeSignal(p) PROVE EndAgrees'
  BY <1>s, <1>8 DEF TakeSignal
<1>9. ASSUME NEW p \in Pods, HandlerRaises(p) PROVE EndAgrees'
  BY <1>9 DEF HandlerRaises
<1>10. ASSUME NEW p \in Pods, Answered(p) PROVE EndAgrees'
  BY <1>10 DEF Answered
<1>11. ASSUME NEW p \in Pods, TransmitFails(p) PROVE EndAgrees'
  BY <1>11 DEF TransmitFails
<1>12. ASSUME NEW p \in Pods, Kill(p) PROVE EndAgrees'
  BY <1>12 DEF Kill
<1>13. ASSUME NEW p \in Pods, Ingest(p) PROVE EndAgrees'
  BY <1>13 DEF Ingest
<1>14. CASE RestartController
  BY <1>14 DEF RestartController
<1>15. CASE UNCHANGED vars
  BY <1>15 DEF vars
<1>16. QED
  BY <1>1, <1>2, <1>3, <1>4, <1>5, <1>6, <1>7, <1>8, <1>9, <1>10, <1>11, <1>12,
     <1>13, <1>14, <1>15
     DEF Next, Handler

-----------------------------------------------------------------------------
(* What is sent and what is held.                                          *)

\* After its snapshot a pod records nothing more: its main thread is in the
\* handler, or has exited.
LEMMA FinalStep ==
    TypeOK /\ EndAgrees /\ SnapshotIsFinal /\ [Next]_vars => SnapshotIsFinal'
<1> SUFFICES ASSUME TypeOK, EndAgrees, SnapshotIsFinal, [Next]_vars
             PROVE  SnapshotIsFinal'
  OBVIOUS
<1>0. /\ payload \in [Pods -> State \cup {None}]
      /\ nodes \in [Pods -> Seq(Recorded)] /\ findings \in [Pods -> 0..MaxLoops]
      /\ key \in [Pods -> Keys \cup {None}]
  BY DEF TypeOK
<1>e. \A p \in Pods : Sent(p) => pc[p] \in {"posting", "gone"}
  BY DEF EndAgrees
<1> USE <1>0, <1>e DEF SnapshotIsFinal, Snapshot, Sent, process, post, budget
<1>1. ASSUME NEW p \in Pods, Start(p) PROVE SnapshotIsFinal'
  BY <1>1 DEF Start
<1>2. ASSUME NEW p \in Pods, Initialize(p) PROVE SnapshotIsFinal'
  BY <1>2 DEF Initialize
<1>3. ASSUME NEW p \in Pods, EnterDag(p) PROVE SnapshotIsFinal'
  BY <1>3 DEF EnterDag
<1>4. ASSUME NEW p \in Pods, UpdateDag(p) PROVE SnapshotIsFinal'
  BY <1>4 DEF UpdateDag
<1>5. ASSUME NEW p \in Pods, EnterSemantic(p) PROVE SnapshotIsFinal'
  BY <1>5 DEF EnterSemantic
<1>6. ASSUME NEW p \in Pods, UpdateSemantic(p) PROVE SnapshotIsFinal'
  BY <1>6 DEF UpdateSemantic
<1>7. ASSUME NEW p \in Pods, Terminate(p) PROVE SnapshotIsFinal'
  BY <1>7 DEF Terminate
<1>8. ASSUME NEW p \in Pods, TakeSignal(p) PROVE SnapshotIsFinal'
  BY <1>8 DEF TakeSignal
<1>9. ASSUME NEW p \in Pods, HandlerRaises(p) PROVE SnapshotIsFinal'
  BY <1>9 DEF HandlerRaises
<1>10. ASSUME NEW p \in Pods, Answered(p) PROVE SnapshotIsFinal'
  BY <1>10 DEF Answered
<1>11. ASSUME NEW p \in Pods, TransmitFails(p) PROVE SnapshotIsFinal'
  BY <1>11 DEF TransmitFails
<1>12. ASSUME NEW p \in Pods, Kill(p) PROVE SnapshotIsFinal'
  BY <1>12 DEF Kill
<1>13. ASSUME NEW p \in Pods, Ingest(p) PROVE SnapshotIsFinal'
  BY <1>13 DEF Ingest
<1>14. CASE RestartController
  BY <1>14 DEF RestartController
<1>15. CASE UNCHANGED vars
  BY <1>15 DEF vars
<1>16. QED
  BY <1>1, <1>2, <1>3, <1>4, <1>5, <1>6, <1>7, <1>8, <1>9, <1>10, <1>11, <1>12,
     <1>13, <1>14, <1>15
     DEF Next, Handler

\* The daemon keeps what it accepts, and a pod sends only once.
LEMMA IngestStep ==
    TypeOK /\ EndAgrees /\ SnapshotIsFinal /\ IngestedIsGenuine /\ [Next]_vars
        => IngestedIsGenuine'
<1> SUFFICES ASSUME TypeOK, EndAgrees, SnapshotIsFinal, IngestedIsGenuine,
                    [Next]_vars
             PROVE  IngestedIsGenuine'
  OBVIOUS
<1>0. /\ payload \in [Pods -> State \cup {None}] /\ ingested \in State \cup {None}
      /\ request \in [Pods -> {"none", "sent", "accepted", "refused", "lost"}]
  BY DEF TypeOK
<1>f. ingested # None => ingested.from \in Pods
  BY <1>0 DEF State
<1>e. \A p \in Pods : /\ signal[p] = "pending" => request[p] = "none"
                      /\ request[p] = "sent" => payload[p] # None
  BY DEF EndAgrees, Sent, Looping
<1>s. \A p \in Pods : payload[p] # None => payload[p].from = p
  <2>1. \A p \in Pods : Snapshot(p).from = p
    BY DEF Snapshot
  <2>2. QED
    BY <2>1 DEF SnapshotIsFinal, Sent
<1> USE <1>0, <1>f, <1>e, <1>s DEF IngestedIsGenuine, process, post, budget
<1>1. ASSUME NEW p \in Pods, Start(p) PROVE IngestedIsGenuine'
  BY <1>1 DEF Start
<1>2. ASSUME NEW p \in Pods, Initialize(p) PROVE IngestedIsGenuine'
  BY <1>2 DEF Initialize
<1>3. ASSUME NEW p \in Pods, EnterDag(p) PROVE IngestedIsGenuine'
  BY <1>3 DEF EnterDag
<1>4. ASSUME NEW p \in Pods, UpdateDag(p) PROVE IngestedIsGenuine'
  BY <1>4 DEF UpdateDag
<1>5. ASSUME NEW p \in Pods, EnterSemantic(p) PROVE IngestedIsGenuine'
  BY <1>5 DEF EnterSemantic
<1>6. ASSUME NEW p \in Pods, UpdateSemantic(p) PROVE IngestedIsGenuine'
  BY <1>6 DEF UpdateSemantic
<1>7. ASSUME NEW p \in Pods, Terminate(p) PROVE IngestedIsGenuine'
  BY <1>7 DEF Terminate
<1>8. ASSUME NEW p \in Pods, TakeSignal(p) PROVE IngestedIsGenuine'
  BY <1>8 DEF TakeSignal
<1>9. ASSUME NEW p \in Pods, HandlerRaises(p) PROVE IngestedIsGenuine'
  BY <1>9 DEF HandlerRaises
<1>10. ASSUME NEW p \in Pods, Answered(p) PROVE IngestedIsGenuine'
  BY <1>10 DEF Answered
<1>11. ASSUME NEW p \in Pods, TransmitFails(p) PROVE IngestedIsGenuine'
  BY <1>11 DEF TransmitFails
<1>12. ASSUME NEW p \in Pods, Kill(p) PROVE IngestedIsGenuine'
  BY <1>12 DEF Kill
<1>13. ASSUME NEW p \in Pods, Ingest(p) PROVE IngestedIsGenuine'
  BY <1>13 DEF Ingest, SignatureMatches
<1>14. CASE RestartController
  BY <1>14 DEF RestartController
<1>15. CASE UNCHANGED vars
  BY <1>15 DEF vars
<1>16. QED
  BY <1>1, <1>2, <1>3, <1>4, <1>5, <1>6, <1>7, <1>8, <1>9, <1>10, <1>11, <1>12,
     <1>13, <1>14, <1>15
     DEF Next, Handler

-----------------------------------------------------------------------------
(* The theorems.                                                           *)

\* What every step of the pods and of the daemon preserves.
THEOREM InductiveInvariant == Spec => []Inductive
<1>1. Init => Inductive
  BY TypeInit, EndInit
     DEF Inductive, Init, SnapshotIsFinal, IngestedIsGenuine, Sent
<1>2. Inductive /\ [Next]_vars => Inductive'
  BY TypeStep, EndStep, FinalStep, IngestStep DEF Inductive
<1>3. QED
  BY <1>1, <1>2, PTL DEF Spec

\* Type correctness: in particular, what is sent and what the daemon holds are
\* signed states of pods.
THEOREM TypeCorrect == Spec => []TypeOK
<1>1. Inductive => TypeOK
  BY DEF Inductive
<1>2. QED
  BY <1>1, InductiveInvariant, PTL

\* What a pod sends is its last word.
THEOREM SnapshotFinal == Spec => []SnapshotIsFinal
<1>1. Inductive => SnapshotIsFinal
  BY DEF Inductive
<1>2. QED
  BY <1>1, InductiveInvariant, PTL

\* Wherever the signal interrupts the loop, the two records that are sent are at
\* most one result apart, and the DAG is the newer of them.
THEOREM SnapshotWhole == Spec => []SnapshotNearlyWhole
<1>1. Inductive => SnapshotNearlyWhole
  <2> SUFFICES ASSUME Inductive, NEW p \in Pods, Sent(p)
               PROVE  payload[p].findings
                         \in {Len(payload[p].nodes) - 1, Len(payload[p].nodes)}
    BY DEF SnapshotNearlyWhole
  <2>1. payload[p] = Snapshot(p)
    BY DEF Inductive, SnapshotIsFinal
  <2>2. Snapshot(p).findings = findings[p] /\ Snapshot(p).nodes = nodes[p]
    BY DEF Snapshot
  <2>3. findings[p] \in {Len(nodes[p]) - 1, Len(nodes[p])}
    BY DEF Inductive, LoopAgrees
  <2>4. QED
    BY <2>1, <2>2, <2>3
<1>2. QED
  BY <1>1, InductiveInvariant, PTL

\* The state the daemon holds was signed with its secret and is the one its pod
\* sent, and that pod's request was accepted.
THEOREM IngestedGenuine == Spec => []IngestedIsGenuine
<1>1. Inductive => IngestedIsGenuine
  BY DEF Inductive
<1>2. QED
  BY <1>1, InductiveInvariant, PTL
=============================================================================
