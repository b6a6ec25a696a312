-------------------------------- MODULE Agent --------------------------------
(***************************************************************************)
(* An agent pod: the research loop of src/shim/researcher.py, the SIGTERM  *)
(* handler of src/shim/shim.py that interrupts it, and the controller's    *)
(* POST /state/ingest (src/src/api.rs) that receives what it sends.        *)
(*                                                                         *)
(* Python runs a signal handler in the main thread, between two bytecodes  *)
(* of whatever the loop is doing: a step of the loop here is the code      *)
(* between two points where an interruption makes a difference, and the    *)
(* handler returns to the loop only by an exception.  The DAG and the semantic context    *)
(* are recorded in two critical sections of one lock, which is not         *)
(* reentrant.                                                              *)
(*                                                                         *)
(* An operator marked "Defect" is a variant no action uses: the operator   *)
(* below it with a mistake in it, which some property must notice.         *)
(***************************************************************************)
EXTENDS Integers, Sequences

CONSTANTS
    Pods,
    None,
    Keys,        \* signing secrets that pods may be given
    DaemonKey,   \* AppState::llm_api_key
    MaxLoops,    \* bound: results a pod records
    MaxFaults,   \* bound: transmissions that fail, handlers that raise
    MaxRestarts  \* bound: restarts of the controller

ASSUME KeyAssumption == DaemonKey \in Keys
ASSUME BoundsAssumption ==
    MaxLoops \in Nat /\ MaxFaults \in Nat /\ MaxRestarts \in Nat

VARIABLES
    pc,          \* where the main thread of each pod is
    key,         \* LLM_API_KEY of the pod
    nodes,       \* _dag_state["nodes"], by status
    findings,    \* _semantic_state["key_findings"], their number
    signal,      \* the SIGTERM of the kubelet
    payload,     \* what the handler serialised and sent
    request,     \* where its POST is
    ingested,    \* AppState::pending_state
    faults, restarts

process == <<pc, key, nodes, findings>>
post == <<payload, request>>
budget == <<faults, restarts>>
vars == <<process, signal, post, ingested, budget>>

\* The points of the main thread: before the handlers are installed; in the
\* loop with the lock free; in either critical section; between the two.
Looping == {"research", "dag", "between", "semantic"}
Holding == {"dag", "semantic"}
Alive == Looping \cup {"boot", "stuck", "posting"}
PCs == Alive \cup {"absent", "gone"}

\* serde's names of DagNodeStatus.
DagNodeStatus == {"pending", "running", "completed", "failed"}
\* The names researcher.py writes.
Recorded == {"Completed", "Failed"}

\* What a pod sends, and ingest_state keeps.
State == [pod : {"unknown-pod"}, from : Pods, key : Keys,
          nodes : Seq(Recorded), findings : 0..MaxLoops]

ASSUME NoneAssumption == None \notin State

Init ==
    /\ pc = [p \in Pods |-> "absent"]
    /\ key = [p \in Pods |-> None]
    /\ nodes = [p \in Pods |-> <<>>]
    /\ findings = [p \in Pods |-> 0]
    /\ signal = [p \in Pods |-> "none"]
    /\ payload = [p \in Pods |-> None]
    /\ request = [p \in Pods |-> "none"]
    /\ ingested = None
    /\ faults = 0 /\ restarts = 0

-----------------------------------------------------------------------------
(* The research loop.                                                      *)

\* The pod starts, with no INITIAL_STATE: the controller has none to inject.
Start(p) ==
    /\ pc[p] = "absent"
    /\ pc' = [pc EXCEPT ![p] = "boot"]
    /\ \E k \in Keys : key' = [key EXCEPT ![p] = k]
    /\ UNCHANGED <<nodes, findings, signal, post, ingested, budget>>

\* initialize(): the handlers are installed.
Initialize(p) ==
    /\ pc[p] = "boot"
    /\ pc' = [pc EXCEPT ![p] = "research"]
    /\ UNCHANGED <<key, nodes, findings, signal, post, ingested, budget>>

\* A round of the loop has a result, and update_dag takes the lock.
EnterDag(p) ==
    /\ pc[p] = "research" /\ Len(nodes[p]) < MaxLoops
    /\ pc' = [pc EXCEPT ![p] = "dag"]
    /\ UNCHANGED <<key, nodes, findings, signal, post, ingested, budget>>

\* A discovery that was not verified is a failure.
UpdateDag(p) ==
    /\ pc[p] = "dag"
    /\ \E status \in Recorded :
          nodes' = [nodes EXCEPT ![p] = Append(@, status)]
    /\ pc' = [pc EXCEPT ![p] = "between"]
    /\ UNCHANGED <<key, findings, signal, post, ingested, budget>>

EnterSemantic(p) ==
    /\ pc[p] = "between"
    /\ pc' = [pc EXCEPT ![p] = "semantic"]
    /\ UNCHANGED <<key, nodes, findings, signal, post, ingested, budget>>

\* Defect: only a verified result leaves a finding.
UpdateSemanticVerified(p) ==
    /\ pc[p] = "semantic"
    /\ findings' = [findings EXCEPT ![p] =
                       IF nodes[p][Len(nodes[p])] = "Completed" THEN @ + 1 ELSE @]
    /\ pc' = [pc EXCEPT ![p] = "research"]
    /\ UNCHANGED <<key, nodes, signal, post, ingested, budget>>

\* A result that was not verified leaves a finding too.
UpdateSemantic(p) ==
    /\ pc[p] = "semantic"
    /\ findings' = [findings EXCEPT ![p] = @ + 1]
    /\ pc' = [pc EXCEPT ![p] = "research"]
    /\ UNCHANGED <<key, nodes, signal, post, ingested, budget>>

-----------------------------------------------------------------------------
(* The end of a pod.                                                       *)

\* The kubelet sends SIGTERM once.  The agent is the first process of its
\* container: as long as it has no handler, the kernel drops the signal.
Terminate(p) ==
    /\ pc[p] \in Alive /\ signal[p] = "none"
    /\ signal' = [signal EXCEPT ![p] = IF pc[p] = "boot" THEN "dropped"
                                                        ELSE "pending"]
    /\ UNCHANGED <<process, post, ingested, budget>>

\* The signed snapshot.  No pod is told its name (build_agent_pod_manifest sets
\* no POD_NAME), so all sign with the default one.
Snapshot(p) == [pod |-> "unknown-pod", from |-> p, key |-> key[p],
                nodes |-> nodes[p], findings |-> findings[p]]

\* Defect: the snapshot is sent before it is signed.
TakeSignalUnsigned(p) ==
    /\ signal[p] = "pending"
    /\ signal' = [signal EXCEPT ![p] = "caught"]
    /\ IF pc[p] \in Holding
       THEN /\ pc' = [pc EXCEPT ![p] = "stuck"]
            /\ UNCHANGED post
       ELSE /\ payload' = [payload EXCEPT ![p] = [Snapshot(p) EXCEPT !.key = None]]
            /\ request' = [request EXCEPT ![p] = "sent"]
            /\ pc' = [pc EXCEPT ![p] = "posting"]
    /\ UNCHANGED <<key, nodes, findings, ingested, budget>>

\* _sigterm_handler, up to the POST: it waits for ever for the lock when it has
\* interrupted the very section that holds it.
TakeSignal(p) ==
    /\ signal[p] = "pending"
    /\ signal' = [signal EXCEPT ![p] = "caught"]
    /\ IF pc[p] \in Holding
       THEN /\ pc' = [pc EXCEPT ![p] = "stuck"]
            /\ UNCHANGED post
       ELSE /\ payload' = [payload EXCEPT ![p] = Snapshot(p)]
            /\ request' = [request EXCEPT ![p] = "sent"]
            /\ pc' = [pc EXCEPT ![p] = "posting"]
    /\ UNCHANGED <<key, nodes, findings, ingested, budget>>

\* Its first print raises RuntimeError, a reentrant call, if it has interrupted
\* a print of the loop.  That ends the process, but in query_gemini it is caught
\* like any failure of the query: the loop goes on, and the signal is spent.
HandlerRaises(p) ==
    /\ signal[p] = "pending" /\ pc[p] = "research" /\ faults < MaxFaults
    /\ faults' = faults + 1
    /\ signal' = [signal EXCEPT ![p] = "caught"]
    /\ pc' \in {pc, [pc EXCEPT ![p] = "gone"]}
    /\ UNCHANGED <<key, nodes, findings, post, ingested, restarts>>

\* Defect: a state that is refused is sent again.
AnsweredRetry(p) ==
    /\ pc[p] = "posting" /\ request[p] \in {"accepted", "refused"}
    /\ IF request[p] = "accepted"
       THEN pc' = [pc EXCEPT ![p] = "gone"] /\ UNCHANGED request
       ELSE request' = [request EXCEPT ![p] = "sent"] /\ UNCHANGED pc
    /\ UNCHANGED <<key, nodes, findings, signal, payload, ingested, budget>>

\* Defect: the handler returns, and the loop goes on.
AnsweredNoExit(p) ==
    /\ pc[p] = "posting" /\ request[p] \in {"accepted", "refused"}
    /\ pc' = [pc EXCEPT ![p] = "research"]
    /\ UNCHANGED <<key, nodes, findings, signal, post, ingested, budget>>

\* Whatever the answer, sys.exit(0).
Answered(p) ==
    /\ pc[p] = "posting" /\ request[p] \in {"accepted", "refused"}
    /\ pc' = [pc EXCEPT ![p] = "gone"]
    /\ UNCHANGED <<key, nodes, findings, signal, post, ingested, budget>>

\* No connection, a timeout, or a lost reply: it is printed, and the pod exits.
\* A request that was sent may still arrive.
TransmitFails(p) ==
    /\ pc[p] = "posting" /\ faults < MaxFaults
    /\ faults' = faults + 1
    /\ pc' = [pc EXCEPT ![p] = "gone"]
    /\ \/ UNCHANGED request
       \/ request[p] = "sent" /\ request' = [request EXCEPT ![p] = "lost"]
    /\ UNCHANGED <<key, nodes, findings, signal, payload, ingested, restarts>>

\* The grace period (30 s) is longer than the handler's two timeouts (10 s to
\* connect, 10 s to read), so SIGKILL meets only a process that is stuck or on
\* which the signal was lost.
Kill(p) ==
    /\ signal[p] \in {"dropped", "caught"} /\ pc[p] \in Alive \ {"posting"}
    /\ pc' = [pc EXCEPT ![p] = "gone"]
    /\ UNCHANGED <<key, nodes, findings, signal, post, ingested, budget>>

-----------------------------------------------------------------------------
(* POST /state/ingest.                                                     *)

Decodes(state) == \A i \in 1..Len(state.nodes) : state.nodes[i] \in DagNodeStatus

\* The code signs the agent, the pod's name, the epoch and the secret, and not
\* what is in the state.  Here a signature says which secret it was made with; a
\* state that somebody alters on its way is not in the model.
SignatureMatches(state) == state.key = DaemonKey

\* Defect: the signature is not compared.
IngestUnsigned(p) ==
    /\ request[p] = "sent"
    /\ IF Decodes(payload[p])
       THEN /\ ingested' = payload[p]
            /\ request' = [request EXCEPT ![p] = "accepted"]
       ELSE /\ request' = [request EXCEPT ![p] = "refused"]
            /\ UNCHANGED ingested
    /\ UNCHANGED <<process, signal, payload, budget>>

\* 422 from the extractor, 400 from the handler, or 202.
Ingest(p) ==
    /\ request[p] = "sent"
    /\ IF Decodes(payload[p]) /\ SignatureMatches(payload[p])
       THEN /\ ingested' = payload[p]
            /\ request' = [request EXCEPT ![p] = "accepted"]
       ELSE /\ request' = [request EXCEPT ![p] = "refused"]
            /\ UNCHANGED ingested
    /\ UNCHANGED <<process, signal, payload, budget>>

\* The state of the daemon is in memory only.
RestartController ==
    /\ restarts < MaxRestarts
    /\ restarts' = restarts + 1
    /\ ingested' = None
    /\ UNCHANGED <<process, signal, post, faults>>

-----------------------------------------------------------------------------
Handler(p) ==
    TakeSignal(p) \/ HandlerRaises(p) \/ Answered(p) \/ TransmitFails(p)

Next ==
    \/ \E p \in Pods :
          \/ Start(p) \/ Initialize(p)
          \/ EnterDag(p) \/ UpdateDag(p) \/ EnterSemantic(p) \/ UpdateSemantic(p)
          \/ Terminate(p) \/ Handler(p) \/ Kill(p)
          \/ Ingest(p)
    \/ RestartController

Spec == Init /\ [][Next]_vars

\* The interpreter runs a handler that is due, the daemon handles what it
\* receives, and the kubelet kills what outlives its grace period.
FairSpec ==
    /\ Spec
    /\ \A p \in Pods : WF_vars(Handler(p)) /\ WF_vars(Ingest(p)) /\ WF_vars(Kill(p))

-----------------------------------------------------------------------------
(* Properties.                                                             *)

TypeOK ==
    /\ pc \in [Pods -> PCs]
    /\ key \in [Pods -> Keys \cup {None}]
    /\ nodes \in [Pods -> Seq(Recorded)]
    /\ findings \in [Pods -> 0..MaxLoops]
    /\ signal \in [Pods -> {"none", "pending", "dropped", "caught"}]
    /\ payload \in [Pods -> State \cup {None}]
    /\ request \in [Pods -> {"none", "sent", "accepted", "refused", "lost"}]
    /\ ingested \in State \cup {None}
    /\ faults \in 0..MaxFaults /\ restarts \in 0..MaxRestarts

Sent(p) == payload[p] # None

\* A snapshot may fall between the two critical sections, but then its DAG is
\* the newer half, by one loop: the context it carries never speaks of a result
\* whose node is not in the DAG, and never lacks more than the newest.
SnapshotNearlyWhole ==
    \A p \in Pods : Sent(p) =>
        payload[p].findings \in {Len(payload[p].nodes) - 1, Len(payload[p].nodes)}

\* What a pod sends is its last word: no result comes after the snapshot, so
\* none is recorded and then lost between the snapshot and the exit.
SnapshotIsFinal ==
    \A p \in Pods : Sent(p) => payload[p] = Snapshot(p)

\* The state the daemon holds is what some pod was told, or will be unless the
\* reply is lost, that it accepted, and that pod had the daemon's secret.
IngestedIsGenuine ==
    ingested # None =>
        /\ ingested.key = DaemonKey
        /\ request[ingested.from] = "accepted"
        /\ payload[ingested.from] = ingested

\* A handler that has serialised the state ends its process, whatever becomes of
\* the request, and does not leave that to SIGKILL.
HandlerExits == \A p \in Pods : pc[p] = "posting" ~> pc[p] = "gone"

-----------------------------------------------------------------------------
(* The inductive invariant behind them (AgentProofs.tla).                  *)

\* Wherever the loop is, or was when the signal came, its two records are at
\* most one result apart.
LoopAgrees ==
    \A p \in Pods :
        /\ pc[p] # "absent" => key[p] \in Keys
        /\ findings[p] \in {Len(nodes[p]) - 1, Len(nodes[p])}
        /\ pc[p] \in {"absent", "boot", "research", "dag"} => findings[p] = Len(nodes[p])
        /\ pc[p] \in {"between", "semantic"} => findings[p] = Len(nodes[p]) - 1
        /\ Len(nodes[p]) \in 0..MaxLoops
        /\ pc[p] = "dag" => Len(nodes[p]) < MaxLoops

\* The handler runs once, and only its end is left to a pod that has sent.
EndAgrees ==
    \A p \in Pods :
        /\ signal[p] = "none" => pc[p] \in Looping \cup {"absent", "boot"}
        /\ signal[p] = "pending" => pc[p] \in Looping
        /\ Sent(p) => pc[p] \in {"posting", "gone"}
        /\ Sent(p) <=> request[p] # "none"

\* Together they are preserved by every step.
Inductive ==
    /\ TypeOK /\ LoopAgrees /\ EndAgrees
    /\ SnapshotIsFinal /\ IngestedIsGenuine

-----------------------------------------------------------------------------
(* What the documentation says and the code does not do.                   *)

\* shim.py:4-5, "Intercepts SIGTERM, serializes structural DAG + semantic
\* state, and POSTs signed payload to the external controller before container
\* exit".
CaughtIsSent == \A p \in Pods : signal[p] = "caught" => Sent(p)

\* README.md:19, "its execution DAG and semantic context are securely signed,
\* serialized, and passed": a state signed with the right secret is accepted.
SignedIsAccepted ==
    \A p \in Pods : Sent(p) /\ key[p] = DaemonKey => request[p] # "refused"
=============================================================================
