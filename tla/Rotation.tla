------------------------------ MODULE Rotation ------------------------------
(***************************************************************************)
(* The controller's pod rotation: src/src/controller.rs, the two tasks     *)
(* main.rs spawns around it, and the Kubernetes API as they use it.        *)
(*                                                                         *)
(* Two tasks share ControllerState behind an RwLock that no await on the   *)
(* API ever holds:                                                         *)
(*   - the epoch loop (pc), which waits for a tick or for the trigger and  *)
(*     runs rotate_active_pod.  Every API call and every acquisition of    *)
(*     the lock is a step of its own, and the values read earlier are      *)
(*     locals (snapActive, target, captured), as in the code;              *)
(*   - the warm-up task (setupLeft, setupPod), which provisions the pool   *)
(*     one pod after another while the epoch loop may already rotate.      *)
(* An API call and its reply are one step.  A call may fail; with          *)
(* LostReplies it may fail after the server has applied it.                *)
(*                                                                         *)
(* An operator marked "Defect" is a variant no action uses: the operator   *)
(* below it with a mistake in it, which some property must notice.         *)
(***************************************************************************)
EXTENDS Integers, Sequences, FiniteSets

CONSTANTS
    Pods,          \* pod names; a name is used again once nothing refers to it
    None,          \* Option::None, for pods and states alike
    WarmPoolSize,  \* Config::warm_pool_size
    Captures,      \* what a writer of ControllerState::pending_state may put
                   \* there: {} in the daemon, where nothing writes it
    Signed,        \* the captures whose signature rotate_active_pod accepts
    LostReplies,   \* may an API call that took effect still report an error?
    MaxTicks,      \* bound: epoch boundaries that can be due at once
    MaxFaults,     \* bound: API failures and out-of-band deletions
    MaxRestarts    \* bound: crashes of the controller

ASSUME NamesAssumption == None \notin Pods /\ None \notin Captures
ASSUME PoolSizeAssumption == WarmPoolSize \in Nat
ASSUME SignedAssumption == Signed \subseteq Captures
ASSUME LostRepliesAssumption == LostReplies \in BOOLEAN
ASSUME BoundsAssumption ==
    MaxTicks \in Nat /\ MaxFaults \in Nat /\ MaxRestarts \in Nat

VARIABLES
    \* ControllerState
    active,      \* active_pod_name
    warm,        \* warm_pod_names
    pending,     \* pending_state
    \* what wakes the epoch loop
    permit,      \* the permit the Notify trigger stores
    ticksDue,    \* ticks the interval owes (MissedTickBehavior::Burst)
    \* the locals of rotate_active_pod
    pc, snapActive, target, captured, promoted, fresh,
    \* the warm-up task
    setupLeft, setupPod,
    \* the cluster
    status, role, injected,
    \* history
    mine,        \* the pods this incarnation of the controller created
    stray,       \* those whose creation was reported as failed
    skipped,     \* warm pods dropped from the list without being promoted
    lost,        \* provisions that failed in this incarnation
    owed,        \* an immediate injection no rotation attempt has followed
    faults, restarts

state   == <<active, warm, pending>>
wakeup  == <<permit, ticksDue, owed>>
locals  == <<snapActive, target, captured, promoted, fresh>>
setup   == <<setupLeft, setupPod>>
cluster == <<status, role, injected, mine>>
history == <<stray, skipped, lost>>
budget  == <<faults, restarts>>
vars == <<state, wakeup, pc, locals, setup, cluster, history, budget>>

MaybePod == Pods \cup {None}
MaybeCapture == Captures \cup {None}

Rotating == {"delete", "read", "create", "patch", "drop", "commit"}
PCs == Rotating \cup {"select", "replenish", "push"}

-----------------------------------------------------------------------------
(* Helpers.                                                                *)

Entries(s) == {s[i] : i \in 1..Len(s)}
Distinct(s) == \A i, j \in 1..Len(s) : s[i] = s[j] => i = j

\* Vec::retain(|p| p != gone).  The names in the list are distinct
\* (NamesApart), so at most one element goes.
Without(s, i) == SubSeq(s, 1, i - 1) \o SubSeq(s, i + 1, Len(s))
Retain(s, gone) ==
    IF gone \in Entries(s)
    THEN Without(s, CHOOSE i \in 1..Len(s) : s[i] = gone)
    ELSE s

\* A name the uuid suffix makes new: no pod has it and no variable holds it.
Referenced ==
    {active, snapActive, target, promoted, fresh, setupPod} \cup Entries(warm)
FreshNames == {p \in Pods : status[p] = "absent"} \ Referenced

\* The pods that serve as the active agent of this incarnation, and of any.
Live(p) == status[p] = "live"
Actives == {p \in mine : Live(p) /\ role[p] = "active"}
ActivesEver == {p \in Pods : Live(p) /\ role[p] = "active"}

-----------------------------------------------------------------------------
(* The Kubernetes API, as the controller uses it.                          *)

\* create(): the manifest carries the role label and, perhaps, INITIAL_STATE.
Created(p, asRole, withState) ==
    /\ status' = [status EXCEPT ![p] = "live"]
    /\ role' = [role EXCEPT ![p] = asRole]
    /\ injected' = [injected EXCEPT ![p] = withState]
    /\ mine' = mine \cup {p}

\* delete() only starts the graceful termination: it answers at once.
Terminate(p) ==
    /\ status' = [status EXCEPT ![p] = IF @ = "live" THEN "terminating" ELSE @]
    /\ UNCHANGED <<role, injected, mine>>

Relabelled(p) ==
    /\ role' = [role EXCEPT ![p] = "active"]
    /\ UNCHANGED <<status, injected, mine>>

Fault == /\ faults < MaxFaults
         /\ faults' = faults + 1
         /\ UNCHANGED restarts

NoFault == UNCHANGED budget
\* A create() that reports an error.  When the reply was lost the pod exists
\* all the same, under a name nobody remembers.
CreateFails(asRole, withState) ==
    /\ Fault
    /\ \/ UNCHANGED <<cluster, stray>>
       \/ /\ LostReplies
          /\ \E p \in FreshNames :
                /\ Created(p, asRole, withState)
                /\ stray' = stray \cup {p}

-----------------------------------------------------------------------------
(* main(): the state every start of the program begins with.               *)

Init ==
    /\ active = None /\ warm = <<>> /\ pending = None
    /\ permit = FALSE /\ ticksDue = 0 /\ owed = FALSE
    /\ pc = "select"
    /\ snapActive = None /\ target = None /\ captured = None
    /\ promoted = None /\ fresh = None
    /\ setupLeft = WarmPoolSize /\ setupPod = None
    /\ status = [p \in Pods |-> "absent"]
    /\ role = [p \in Pods |-> "none"]
    /\ injected = [p \in Pods |-> None]
    /\ mine = {} /\ stray = {} /\ skipped = {} /\ lost = 0
    /\ faults = 0 /\ restarts = 0

\* A crash at any await, and the start that follows: Controller::new zeroes
\* the state, the trigger is a new Notify, and no pod is looked up or adopted.
Restart ==
    /\ restarts < MaxRestarts
    /\ restarts' = restarts + 1
    /\ active' = None /\ warm' = <<>> /\ pending' = None
    /\ permit' = FALSE /\ ticksDue' = 0 /\ owed' = FALSE
    /\ pc' = "select"
    /\ snapActive' = None /\ target' = None /\ captured' = None
    /\ promoted' = None /\ fresh' = None
    /\ setupLeft' = WarmPoolSize /\ setupPod' = None
    /\ mine' = {} /\ stray' = {} /\ skipped' = {} /\ lost' = 0
    /\ UNCHANGED <<status, role, injected, faults>>

-----------------------------------------------------------------------------
(* What happens around the loop.                                           *)

\* An epoch boundary falls due; the default MissedTickBehavior keeps them all.
Tick ==
    /\ ticksDue < MaxTicks
    /\ ticksDue' = ticksDue + 1
    /\ UNCHANGED <<state, permit, owed, pc, locals, setup, cluster, history,
                   budget>>

\* Defect: notify_waiters() wakes a waiting loop and stores nothing.
InjectNotifyWaiters ==
    /\ permit' = (permit \/ pc = "select")
    /\ owed' = TRUE
    /\ UNCHANGED <<state, ticksDue, pc, locals, setup, cluster, history,
                   budget>>

\* add_ground_vector with the immediate policy, after its save succeeded:
\* notify_one() wakes the loop or leaves one permit, however many calls.
InjectImmediate ==
    /\ permit' = TRUE
    /\ owed' = TRUE
    /\ UNCHANGED <<state, ticksDue, pc, locals, setup, cluster, history,
                   budget>>

\* Whoever owns the Controller captures a state for the next rotation.
CaptureState ==
    /\ \E s \in Captures : pending' = s
    /\ UNCHANGED <<active, warm, wakeup, pc, locals, setup, cluster, history,
                   budget>>

\* The kubelet ends a pod that is being terminated.
PodGone(p) ==
    /\ status[p] = "terminating"
    /\ status' = [status EXCEPT ![p] = "absent"]
    /\ role' = [role EXCEPT ![p] = "none"]
    /\ injected' = [injected EXCEPT ![p] = None]
    /\ mine' = mine \ {p}
    /\ stray' = stray \ {p}
    /\ skipped' = skipped \ {p}
    /\ UNCHANGED <<state, wakeup, pc, locals, setup, lost, budget>>

\* Somebody else deletes a pod: an operator, an eviction, a node drain.
Evict(p) ==
    /\ Live(p)
    /\ Fault
    /\ Terminate(p)
    /\ UNCHANGED <<state, wakeup, pc, locals, setup, history>>

-----------------------------------------------------------------------------
(* run_epoch_loop and rotate_active_pod.                                   *)

\* Either branch of select! wins when both are ready.  The trigger branch
\* takes the permit and resets the ticker.
WakeUp ==
    \/ /\ ticksDue > 0
       /\ ticksDue' = ticksDue - 1
       /\ UNCHANGED permit
    \/ /\ permit
       /\ permit' = FALSE
       /\ ticksDue' = 0

\* The attempt is over: `?`, `return`, or the end of rotate_active_pod.
BackToSelect ==
    /\ pc' = "select"
    /\ snapActive' = None /\ target' = None /\ captured' = None
    /\ promoted' = None /\ fresh' = None

\* The list of warm pods is empty: WarmPoolExhausted, before the delete.
RotateExhausted ==
    /\ pc = "select"
    /\ WakeUp
    /\ warm = <<>>
    /\ owed' = FALSE
    /\ BackToSelect
    /\ UNCHANGED <<state, setup, cluster, history, budget>>

\* Defect: the old active pod is left to its epoch's end.
RotateBeginNoDelete ==
    /\ pc = "select"
    /\ WakeUp
    /\ warm # <<>>
    /\ owed' = FALSE
    /\ snapActive' = active
    /\ target' = Head(warm)
    /\ pc' = "read"
    /\ UNCHANGED <<state, captured, promoted, fresh, setup, cluster, history,
                   budget>>

\* The snapshot of the state, and the choice of the next warm pod.
RotateBegin ==
    /\ pc = "select"
    /\ WakeUp
    /\ warm # <<>>
    /\ owed' = FALSE
    /\ snapActive' = active
    /\ target' = Head(warm)
    /\ pc' = IF active = None THEN "read" ELSE "delete"
    /\ UNCHANGED <<state, captured, promoted, fresh, setup, cluster, history,
                   budget>>

\* Defect: no arm for 404, so a pod deleted by others ends every attempt.
DeleteActiveNo404 ==
    /\ pc = "delete"
    /\ NoFault
    /\ Terminate(snapActive)
    /\ IF status[snapActive] = "absent"
       THEN BackToSelect
       ELSE pc' = "read" /\ UNCHANGED locals
    /\ UNCHANGED <<state, wakeup, setup, history>>

\* Whether the pod was there or not (404), the rotation goes on.
DeleteActive ==
    /\ pc = "delete"
    /\ NoFault
    /\ Terminate(snapActive)
    /\ pc' = "read"
    /\ UNCHANGED <<state, wakeup, locals, setup, history>>

\* Defect: the error is logged and the rotation goes on.
DeleteFailsIgnored ==
    /\ pc = "delete"
    /\ Fault
    /\ pc' = "read"
    /\ UNCHANGED <<state, wakeup, locals, setup, cluster, history>>

DeleteFails ==
    /\ pc = "delete"
    /\ Fault
    /\ \/ UNCHANGED cluster
       \/ LostReplies /\ Terminate(snapActive)
    /\ BackToSelect
    /\ UNCHANGED <<state, wakeup, setup, history>>

\* Defect: the signature is not compared.
ReadPendingUnchecked ==
    /\ pc = "read"
    /\ \/ /\ pending = None
          /\ pc' = "patch"
          /\ UNCHANGED locals
       \/ /\ pending \in Captures
          /\ pc' = "create"
          /\ captured' = pending
          /\ UNCHANGED <<snapActive, target, promoted, fresh>>
    /\ UNCHANGED <<state, wakeup, setup, cluster, history, budget>>

\* The second acquisition of the lock.  A capture whose signature does not
\* match ends the attempt, and stays where it is.
ReadPending ==
    /\ pc = "read"
    /\ \/ /\ pending = None
          /\ pc' = "patch"
          /\ UNCHANGED locals
       \/ /\ pending \in Signed
          /\ pc' = "create"
          /\ captured' = pending
          /\ UNCHANGED <<snapActive, target, promoted, fresh>>
       \/ /\ pending \in Captures \ Signed
          /\ BackToSelect
    /\ UNCHANGED <<state, wakeup, setup, cluster, history, budget>>

\* With a captured state the successor is a new pod, not the warm one.
CreateActive ==
    /\ pc = "create"
    /\ NoFault
    /\ \E p \in FreshNames :
          /\ Created(p, "active", captured)
          /\ promoted' = p
    /\ pc' = "commit"
    /\ UNCHANGED <<state, wakeup, snapActive, target, captured, fresh, setup,
                   history>>

CreateActiveFails ==
    /\ pc = "create"
    /\ CreateFails("active", captured)
    /\ BackToSelect
    /\ UNCHANGED <<state, wakeup, setup, skipped, lost>>

\* Defect: the patch reaches the pod but not its role label.
PatchWarmNoLabel ==
    /\ pc = "patch"
    /\ NoFault
    /\ promoted' = target
    /\ pc' = "commit"
    /\ UNCHANGED <<state, wakeup, snapActive, target, captured, fresh, setup,
                   cluster, history>>

\* Without one, the warm pod gets the label; 404 when it is no longer there.
PatchWarm ==
    /\ pc = "patch"
    /\ NoFault
    /\ \/ /\ status[target] # "absent"
          /\ Relabelled(target)
          /\ promoted' = target
          /\ pc' = "commit"
       \/ /\ status[target] = "absent"
          /\ pc' = "drop"
          /\ UNCHANGED <<cluster, promoted>>
    /\ UNCHANGED <<state, wakeup, snapActive, target, captured, fresh, setup,
                   history>>

\* Defect: any failure of the patch drops the pod from the list, not just 404.
PatchFailsDrops ==
    /\ pc = "patch"
    /\ Fault
    /\ warm' = Retain(warm, target)
    /\ pc' = "replenish"
    /\ UNCHANGED <<active, pending, wakeup, locals, setup, cluster, history>>

PatchFails ==
    /\ pc = "patch"
    /\ Fault
    /\ \/ UNCHANGED cluster
       \/ LostReplies /\ status[target] # "absent" /\ Relabelled(target)
    /\ BackToSelect
    /\ UNCHANGED <<state, wakeup, setup, history>>

\* Defect: the 404 branch returns before it provisions.
DropWarmOnly ==
    /\ pc = "drop"
    /\ warm' = Retain(warm, target)
    /\ BackToSelect
    /\ UNCHANGED <<active, pending, wakeup, setup, cluster, history, budget>>

\* The 404 branch forgets the pod and only provisions a replacement.
DropWarm ==
    /\ pc = "drop"
    /\ warm' = Retain(warm, target)
    /\ pc' = "replenish"
    /\ UNCHANGED <<active, pending, wakeup, locals, setup, cluster, history,
                   budget>>

\* Defect: the new name is not recorded.
CommitForgetsActive ==
    /\ pc = "commit"
    /\ warm' = Retain(warm, target)
    /\ pending' = None
    /\ skipped' = IF promoted = target THEN skipped
                  ELSE skipped \cup ({target} \cap mine)
    /\ pc' = "replenish"
    /\ UNCHANGED <<active, wakeup, locals, setup, cluster, stray, lost, budget>>

\* Defect: the rotation ends without provisioning a successor.
CommitOnly ==
    /\ pc = "commit"
    /\ active' = promoted
    /\ warm' = Retain(warm, target)
    /\ pending' = None
    /\ BackToSelect
    /\ UNCHANGED <<wakeup, setup, cluster, history, budget>>

\* Defect: the promoted pod stays in the list of warm pods.
CommitKeepsWarm ==
    /\ pc = "commit"
    /\ active' = promoted
    /\ pending' = None
    /\ pc' = "replenish"
    /\ UNCHANGED <<warm, wakeup, locals, setup, cluster, history, budget>>

\* The third acquisition: the outcome becomes visible in one step.
Commit ==
    /\ pc = "commit"
    /\ active' = promoted
    /\ warm' = Retain(warm, target)
    /\ pending' = None
    /\ skipped' = IF promoted = target THEN skipped
                  ELSE skipped \cup ({target} \cap mine)
    /\ pc' = "replenish"
    /\ UNCHANGED <<wakeup, locals, setup, cluster, stray, lost, budget>>

-----------------------------------------------------------------------------
(* provision_warm_pod, called by the rotation and by the warm-up task: the *)
(* create() and, under the lock, the push.                                 *)
\* Defect: the name is generated but not kept for the push.
ReplenishForgetsName ==
    /\ pc = "replenish"
    /\ NoFault
    /\ \E p \in FreshNames : Created(p, "warm", None)
    /\ pc' = "push"
    /\ UNCHANGED <<state, wakeup, locals, setup, history>>

Replenish ==
    /\ pc = "replenish"
    /\ NoFault
    /\ \E p \in FreshNames :
          /\ Created(p, "warm", None)
          /\ fresh' = p
    /\ pc' = "push"
    /\ UNCHANGED <<state, wakeup, snapActive, target, captured, promoted,
                   setup, history>>

ReplenishFails ==
    /\ pc = "replenish"
    /\ CreateFails("warm", None)
    /\ lost' = lost + 1
    /\ BackToSelect
    /\ UNCHANGED <<state, wakeup, setup, skipped>>

Push ==
    /\ pc = "push"
    /\ warm' = Append(warm, fresh)
    /\ BackToSelect
    /\ UNCHANGED <<active, pending, wakeup, setup, cluster, history, budget>>

WarmUpCreate ==
    /\ setupLeft > 0 /\ setupPod = None
    /\ NoFault
    /\ \E p \in FreshNames :
          /\ Created(p, "warm", None)
          /\ setupPod' = p
    /\ UNCHANGED <<state, wakeup, pc, locals, setupLeft, history>>

\* The error is logged and the loop goes on with the next pod.
WarmUpFails ==
    /\ setupLeft > 0 /\ setupPod = None
    /\ CreateFails("warm", None)
    /\ setupLeft' = setupLeft - 1
    /\ lost' = lost + 1
    /\ UNCHANGED <<state, wakeup, pc, locals, setupPod, skipped>>

\* Defect: the new pod goes to the head of the list.
WarmUpPushFront ==
    /\ setupPod # None
    /\ warm' = <<setupPod>> \o warm
    /\ setupLeft' = setupLeft - 1
    /\ setupPod' = None
    /\ UNCHANGED <<active, pending, wakeup, pc, locals, cluster, history,
                   budget>>

WarmUpPush ==
    /\ setupPod # None
    /\ warm' = Append(warm, setupPod)
    /\ setupLeft' = setupLeft - 1
    /\ setupPod' = None
    /\ UNCHANGED <<active, pending, wakeup, pc, locals, cluster, history,
                   budget>>

-----------------------------------------------------------------------------
RotationStep ==
    \/ RotateExhausted \/ RotateBegin
    \/ DeleteActive \/ DeleteFails
    \/ ReadPending
    \/ CreateActive \/ CreateActiveFails
    \/ PatchWarm \/ PatchFails
    \/ DropWarm \/ Commit
    \/ Replenish \/ ReplenishFails \/ Push

WarmUpStep == WarmUpCreate \/ WarmUpFails \/ WarmUpPush

Environment ==
    \/ Tick \/ InjectImmediate \/ CaptureState \/ Restart
    \/ \E p \in Pods : PodGone(p) \/ Evict(p)

Next == RotationStep \/ WarmUpStep \/ Environment

Spec == Init /\ [][Next]_vars

\* tokio runs every task that is ready, time passes, and the kubelet ends the
\* pods it was told to end.  Nothing obliges anybody to inject, to capture, to
\* evict or to crash, and no API call is obliged to fail.  The warm-up task is
\* always ready in the program; here it can be disabled for a while, when all
\* the names of Pods are taken, and strong fairness makes up for that bound.
Fairness ==
    /\ WF_vars(RotationStep)
    /\ SF_vars(WarmUpStep)
    /\ WF_vars(Tick)
    /\ \A p \in Pods : WF_vars(PodGone(p))

FairSpec == Spec /\ Fairness

-----------------------------------------------------------------------------
(* Safety.                                                                 *)

\* Every variable keeps to the values the code can give it.
TypeOK ==
    /\ active \in MaybePod /\ warm \in Seq(Pods) /\ pending \in MaybeCapture
    /\ permit \in BOOLEAN /\ ticksDue \in 0..MaxTicks /\ owed \in BOOLEAN
    /\ pc \in PCs
    /\ snapActive \in MaybePod /\ target \in MaybePod
    /\ captured \in MaybeCapture
    /\ promoted \in MaybePod /\ fresh \in MaybePod
    /\ setupLeft \in 0..WarmPoolSize /\ setupPod \in MaybePod
    /\ status \in [Pods -> {"absent", "live", "terminating"}]
    /\ role \in [Pods -> {"none", "warm", "active"}]
    /\ injected \in [Pods -> MaybeCapture]
    /\ mine \subseteq Pods /\ stray \subseteq Pods /\ skipped \subseteq Pods
    /\ lost \in Nat
    /\ faults \in 0..MaxFaults /\ restarts \in 0..MaxRestarts

\* No two pods of one incarnation serve as the active agent at a time, though
\* rotations stop half-way, the warm-up task interleaves with them and pods
\* disappear: the active pod is deleted before its successor gets the label,
\* and a half-finished promotion is taken up again by the next rotation.
AtMostOneActive == \A p, q \in Actives : p = q

\* A daemon that restarts neither finds the pods of the one before nor ends them:
\* they run on beside its own.  Whatever was going on when it died, among them is
\* one active agent at the most, so that no crash leaves more than one behind.
CrashLeavesOne == Cardinality(ActivesEver) <= restarts + 1

\* rotate_active_pod uses the warm list it read before three API calls.  What
\* it picked is still the first entry when it comes to use it: others append,
\* and only the loop itself removes.
SnapshotStillHead ==
    pc \in Rotating => warm # <<>> /\ target = Head(warm)

\* Every pod the pool should have is in the list, being provisioned, still to
\* be provisioned by the warm-up task, or was lost to a failed create().  The
\* two tasks never provision the same slot twice and never forget one.
PoolAccounting ==
    Len(warm) + setupLeft + lost + (IF pc \in {"replenish", "push"} THEN 1 ELSE 0)
        = WarmPoolSize

\* The pods the controller can still delete or promote.
Known == {active, promoted, fresh, setupPod} \cup Entries(warm)

\* A pod that runs is one the controller still knows: errors and early returns
\* leak none, except a create() whose reply was lost and the warm pod that the
\* capture branch of rotate_active_pod passes over.
NoLeak == \A p \in mine : Live(p) => p \in Known \cup stray \cup skipped

\* INITIAL_STATE only ever carries a state whose signature was checked, though
\* the pending state may be replaced between the check and the create().
InjectedIsSigned == \A p \in Pods : injected[p] \in Signed \cup {None}

\* An immediate injection is never missed by the loop: while no attempt to
\* rotate has followed it, the permit is there, whichever branch of select!
\* won and whatever the loop was doing when notify_one() was called.
NoLostTrigger == owed => permit

-----------------------------------------------------------------------------
(* The inductive invariants behind AtMostOneActive and NoLeak              *)
(* (RotationProofs.tla).                                                   *)

\* The names the controller holds in different places are different names.
NamesApart ==
    /\ Distinct(warm)
    /\ active \notin Entries(warm)
    /\ pc = "push" <=> fresh # None
    /\ fresh # None => fresh \notin {active} \cup Entries(warm)
    /\ setupPod # None =>
          setupPod \notin {active, promoted, fresh} \cup Entries(warm)
    /\ pc = "commit" => promoted = target \/ promoted \notin Entries(warm)

\* The locals of rotate_active_pod still agree with the state they were read
\* from, and the warm-up task is within its loop.
LocalsAgree ==
    /\ SnapshotStillHead
    /\ pc = "delete" => snapActive = active /\ active # None
    /\ pc = "create" => captured \in Signed
    /\ pc = "commit" => promoted # None
    /\ setupPod # None => setupLeft > 0

\* Where the one active pod can be.  A promotion that was reported as failed
\* leaves its label on the head of the list, where the next rotation finds it.
ActivePlace ==
    /\ \A p \in Actives : \/ p = active
                          \/ p \in Entries(warm) /\ p = warm[1]
                          \/ pc = "commit" /\ p = promoted
    /\ pc \in Rotating \ {"delete"} => active \notin Actives
    /\ active \in Actives /\ warm # <<>> => warm[1] \notin Actives
    /\ pc = "drop" => target \notin Actives
    /\ pc = "commit" /\ promoted # target => ~LostReplies
    /\ ~LostReplies /\ warm # <<>> /\ warm[1] \in Actives
          => pc = "commit" /\ promoted = target
    /\ fresh \notin Actives /\ setupPod \notin Actives

\* The names the loop is about to forget are those of pods that run no longer,
\* and a promoted pod is recorded before its local goes.
LetGo ==
    /\ pc \in Rotating \ {"delete"} /\ active # None => ~Live(active)
    /\ pc = "drop" => ~Live(target)
    /\ pc # "commit" => promoted \in {None, active}

\* Together with TypeOK they are preserved by every step.
Inductive == TypeOK /\ NamesApart /\ LocalsAgree /\ LetGo /\ ActivePlace

\* The pods the controller counts on: its pool, those it is about to add to it,
\* and the active one, which during a rotation is for a while neither the old
\* nor the new.
Relied ==
    Entries(warm) \cup ({fresh, setupPod} \ {None})
    \cup (IF pc = "commit" THEN {promoted}
          ELSE IF pc \in Rotating \ {"delete"} THEN {} ELSE {active} \ {None})

\* As long as no call fails, nobody else deletes a pod and no capture is refused,
\* they all run.
ReliedLive == faults = 0 /\ Captures = Signed => \A p \in Relied : Live(p)

-----------------------------------------------------------------------------
(* Refinement: the active role is a slot that is given up before it is     *)
(* taken (src/src/controller.rs deletes, then promotes).                   *)
Slot == INSTANCE PodSlot WITH holders <- Actives

\* Every step of the controller and of the cluster is a step of the slot.
SlotSpec == Slot!SlotSpec

-----------------------------------------------------------------------------
(* Liveness, under FairSpec.                                               *)

\* Replenishment: however the two tasks interleave and whichever branches fail,
\* the pool comes back, again and again, to all the pods it has not lost to a
\* failed create().
PoolRefills == []<>(Len(warm) + lost = WarmPoolSize)

\* Whatever failed or was deleted, there is again an active agent.
ServiceResumes == []<>(Actives # {})

\* The loop never gets stuck on a pod that is no longer there, nor on a
\* rotation that stopped half-way: it always comes to promote another one.
RotationContinues == []<>(pc = "commit")
=============================================================================
