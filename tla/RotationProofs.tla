--------------------------- MODULE RotationProofs ---------------------------
(***************************************************************************)
(* Theorems about Rotation, for every pool, every set of pods and captures *)
(* and every bound.                                                        *)
(***************************************************************************)
EXTENDS Rotation, FiniteSetTheorems, SequenceTheorems, TLAPS

-----------------------------------------------------------------------------
(* Lists.                                                                  *)

\* Removing one position keeps the others in their order.
LEMMA WithoutProperties ==
    ASSUME NEW S, NEW s \in Seq(S), NEW i \in 1..Len(s)
    PROVE  /\ Without(s, i) \in Seq(S)
           /\ Len(Without(s, i)) = Len(s) - 1
           /\ \A j \in 1..(Len(s) - 1) :
                 Without(s, i)[j] = IF j < i THEN s[j] ELSE s[j + 1]
<1> DEFINE l == SubSeq(s, 1, i - 1)
           r == SubSeq(s, i + 1, Len(s))
<1>1. l \in Seq(S) /\ Len(l) = i - 1 /\ \A j \in 1..(i - 1) : l[j] = s[j]
  BY SubSeqProperties
<1>2. /\ r \in Seq(S) /\ Len(r) = Len(s) - i
      /\ \A j \in 1..(Len(s) - i) : r[j] = s[i + j]
  BY SubSeqProperties
<1>3. /\ l \o r \in Seq(S) /\ Len(l \o r) = Len(l) + Len(r)
      /\ \A j \in 1..(Len(l) + Len(r)) :
            (l \o r)[j] = IF j <= Len(l) THEN l[j] ELSE r[j - Len(l)]
  BY <1>1, <1>2, ConcatProperties
<1>4. Without(s, i) = l \o r
  BY DEF Without
<1>. HIDE DEF l, r
<1>5. Len(s) \in Nat
  OBVIOUS
<1>6. \A j \in 1..(Len(s) - 1) :
         (l \o r)[j] = IF j < i THEN s[j] ELSE s[j + 1]
  <2>. SUFFICES ASSUME NEW j \in 1..(Len(s) - 1)
                PROVE  (l \o r)[j] = IF j < i THEN s[j] ELSE s[j + 1]
    OBVIOUS
  <2>1. CASE j < i
    BY <1>1, <1>2, <1>3, <1>5, <2>1
  <2>2. CASE ~(j < i)
    <3>1. j - Len(l) \in 1..(Len(s) - i) /\ i + (j - Len(l)) = j + 1
      BY <1>1, <1>5, <2>2
    <3>2. (l \o r)[j] = r[j - Len(l)]
      BY <1>1, <1>2, <1>3, <1>5, <2>2
    <3>3. QED
      BY <1>2, <2>2, <3>1, <3>2
  <2>3. QED
    BY <2>1, <2>2
<1>7. Len(l \o r) = Len(s) - 1
  BY <1>1, <1>2, <1>3, <1>5
<1>8. QED
  BY <1>3, <1>4, <1>6, <1>7, Zenon

\* The head of a list is one of its entries.
LEMMA HeadEntry ==
    ASSUME NEW S, NEW s \in Seq(S)
    PROVE  /\ Entries(s) \subseteq S
           /\ Len(s) \in Nat
           /\ s = <<>> => Entries(s) = {}
           /\ s # <<>> => Head(s) = s[1] /\ s[1] \in Entries(s) /\ Len(s) > 0
<1>1. Len(s) \in Nat /\ (s # <<>> => Len(s) > 0)
  BY EmptySeq
<1>2. \A i \in 1..Len(s) : s[i] \in S
  BY ElementOfSeq
<1>3. QED
  BY <1>1, <1>2 DEF Entries

\* push() adds the new name at the end.
LEMMA AppendFacts ==
    ASSUME NEW S, NEW s \in Seq(S), NEW e \in S
    PROVE  /\ Append(s, e) \in Seq(S)
           /\ Append(s, e) # <<>>
           /\ Len(Append(s, e)) = Len(s) + 1
           /\ Entries(Append(s, e)) = Entries(s) \cup {e}
           /\ s # <<>> => Append(s, e)[1] = s[1]
           /\ s = <<>> => Append(s, e)[1] = e
           /\ Distinct(s) /\ e \notin Entries(s) => Distinct(Append(s, e))
<1> DEFINE t == Append(s, e)
<1>1. /\ t \in Seq(S) /\ t # <<>> /\ Len(t) = Len(s) + 1
      /\ \A i \in 1..Len(s) : t[i] = s[i]
      /\ t[Len(s) + 1] = e
  BY AppendProperties
<1>2. Len(s) \in Nat /\ (s # <<>> => Len(s) > 0) /\ (s = <<>> => Len(s) = 0)
  BY EmptySeq
<1>. HIDE DEF t
<1>3. Entries(t) = Entries(s) \cup {e}
  BY <1>1, <1>2 DEF Entries
<1>4. Distinct(s) /\ e \notin Entries(s) => Distinct(t)
  BY <1>1, <1>2 DEF Entries, Distinct
<1>5. QED
  BY <1>1, <1>2, <1>3, <1>4 DEF t

\* retain() of the head of a list of distinct names leaves the rest.
LEMMA RetainFacts ==
    ASSUME NEW S, NEW s \in Seq(S), s # <<>>, Distinct(s)
    PROVE  /\ Retain(s, s[1]) \in Seq(S)
           /\ Len(Retain(s, s[1])) = Len(s) - 1
           /\ Entries(Retain(s, s[1])) = Entries(s) \ {s[1]}
           /\ Distinct(Retain(s, s[1]))
<1> DEFINE t == Retain(s, s[1])
<1>0. Len(s) \in Nat /\ Len(s) > 0
  BY EmptySeq
<1>1. 1 \in 1..Len(s)
  BY <1>0
<1>2. (CHOOSE i \in 1..Len(s) : s[i] = s[1]) = 1
  BY <1>1 DEF Distinct
<1>3. Retain(s, s[1]) = Without(s, 1)
  BY <1>1, <1>2 DEF Retain, Entries
<1>4. /\ t \in Seq(S) /\ Len(t) = Len(s) - 1
      /\ \A j \in 1..(Len(s) - 1) : t[j] = s[j + 1]
  BY <1>0, <1>1, <1>3, WithoutProperties
<1>. HIDE DEF t
<1>5. Entries(t) = Entries(s) \ {s[1]}
  <2>1. ASSUME NEW x \in Entries(t) PROVE x \in Entries(s) \ {s[1]}
    BY <1>0, <1>1, <1>4, <2>1 DEF Entries, Distinct
  <2>2. ASSUME NEW x \in Entries(s) \ {s[1]} PROVE x \in Entries(t)
    <3>1. PICK i \in 1..Len(s) : x = s[i] /\ i # 1
      BY DEF Entries
    <3>2. i - 1 \in 1..Len(t) /\ t[i - 1] = x
      BY <1>0, <1>4, <3>1
    <3>3. QED
      BY <3>2 DEF Entries
  <2>3. QED
    BY <2>1, <2>2
<1>6. Distinct(t)
  BY <1>0, <1>4 DEF Distinct
<1>7. QED
  BY <1>4, <1>5, <1>6 DEF t

-----------------------------------------------------------------------------
(* Types.                                                                  *)

\* The initial state has the types.
LEMMA TypeInit == Init => TypeOK
<1>1. <<>> \in Seq(Pods)
  BY EmptySeq
<1>2. /\ [p \in Pods |-> "absent"]
           \in [Pods -> {"absent", "live", "terminating"}]
      /\ [p \in Pods |-> "none"] \in [Pods -> {"none", "warm", "active"}]
      /\ [p \in Pods |-> None] \in [Pods -> MaybeCapture]
  BY DEF MaybeCapture
<1>3. /\ 0 \in Nat /\ 0 \in 0..MaxTicks /\ 0 \in 0..MaxFaults
      /\ 0 \in 0..MaxRestarts /\ WarmPoolSize \in 0..WarmPoolSize
  BY PoolSizeAssumption, BoundsAssumption
<1>4. QED
  BY <1>1, <1>2, <1>3, Zenon DEF Init, TypeOK, MaybePod, MaybeCapture, PCs

\* Every step keeps them.
LEMMA TypeStep ==
    TypeOK /\ NamesApart /\ LocalsAgree /\ [Next]_vars => TypeOK'
<1> SUFFICES ASSUME TypeOK, NamesApart, LocalsAgree, [Next]_vars
             PROVE  TypeOK'
  OBVIOUS
<1> USE BoundsAssumption, PoolSizeAssumption, SignedAssumption
<1> USE DEF TypeOK, MaybePod, MaybeCapture, PCs, Rotating, state, wakeup,
        locals, setup, cluster, history, budget
<1>a. warm # <<>> => Head(warm) \in Pods
  BY HeadEntry
<1>b. pc \in Rotating => Retain(warm, target) \in Seq(Pods)
  BY HeadEntry, RetainFacts DEF LocalsAgree, SnapshotStillHead, NamesApart
<1>c. \A p \in Pods : Append(warm, p) \in Seq(Pods)
  BY AppendFacts
<1>d. WakeUp => permit' \in BOOLEAN /\ ticksDue' \in 0..MaxTicks
  <2>1. WakeUp => permit' \in BOOLEAN
    BY Zenon DEF WakeUp
  <2>2. WakeUp => ticksDue' \in 0..MaxTicks
    BY DEF WakeUp
  <2>3. QED
    BY <2>1, <2>2
<1>1. CASE RotateExhausted
  <2>1. WakeUp /\ BackToSelect /\ owed' = FALSE
    BY <1>1 DEF RotateExhausted
  <2>2. UNCHANGED <<state, setup, cluster, history, budget>>
    BY <1>1 DEF RotateExhausted
  <2>3. QED
    BY <1>d, <2>1, <2>2 DEF BackToSelect
<1>2. CASE RotateBegin
  <2>1. /\ WakeUp /\ owed' = FALSE /\ pc' \in {"read", "delete"}
        /\ warm # <<>> /\ snapActive' = active /\ target' = Head(warm)
    BY <1>2 DEF RotateBegin
  <2>2. UNCHANGED <<state, captured, promoted, fresh, setup, cluster, history,
                    budget>>
    BY <1>2 DEF RotateBegin
  <2>3. QED
    BY <1>a, <1>d, <2>1, <2>2
<1>3. CASE DeleteActive
  <2>1. status' \in [Pods -> {"absent", "live", "terminating"}]
    BY <1>3 DEF DeleteActive, Terminate
  <2>2. /\ pc' = "read" /\ UNCHANGED <<role, injected, mine>>
        /\ UNCHANGED <<state, wakeup, locals, setup, history, budget>>
    BY <1>3 DEF DeleteActive, NoFault, Terminate
  <2>3. QED
    BY <2>1, <2>2
<1>4. CASE DeleteFails
  BY <1>4, SMTT(30) DEF DeleteFails, Fault, Terminate, BackToSelect
<1>5. CASE ReadPending
  BY <1>5 DEF ReadPending, BackToSelect
<1>6. CASE CreateActive
  <2>1. PICK p \in Pods : Created(p, "active", captured) /\ promoted' = p
    BY <1>6 DEF CreateActive, FreshNames
  <2>2. UNCHANGED <<state, wakeup, snapActive, target, captured, fresh, setup,
                    history, budget>> /\ pc' = "commit"
    BY <1>6 DEF CreateActive, NoFault
  <2>3. QED
    BY <2>1, <2>2 DEF Created
<1>7. CASE CreateActiveFails
  <2>1. /\ Fault /\ BackToSelect
        /\ UNCHANGED <<state, wakeup, setup, skipped, lost>>
    BY <1>7 DEF CreateActiveFails, CreateFails
  <2>2. CASE UNCHANGED <<cluster, stray>>
    BY <2>1, <2>2 DEF Fault, BackToSelect
  <2>3. CASE \E p \in Pods : /\ Created(p, "active", captured)
                            /\ stray' = stray \cup {p}
    BY <2>1, <2>3 DEF Fault, BackToSelect, Created
  <2>4. QED
    BY <1>7, <2>2, <2>3 DEF CreateActiveFails, CreateFails, FreshNames
<1>8. CASE PatchWarm
  BY <1>8 DEF PatchWarm, NoFault, Relabelled, LocalsAgree, SnapshotStillHead
<1>9. CASE PatchFails
  BY <1>9 DEF PatchFails, Fault, Relabelled, BackToSelect
<1>10. CASE DropWarm
  BY <1>b, <1>10 DEF DropWarm
<1>11. CASE Commit
  BY <1>b, <1>11 DEF Commit
<1>12. CASE Replenish
  BY <1>12 DEF Replenish, NoFault, Created, FreshNames
<1>13. CASE ReplenishFails
  BY <1>13 DEF ReplenishFails, CreateFails, Fault, Created, BackToSelect, FreshNames
<1>14. CASE Push
  BY <1>c, <1>14 DEF Push, BackToSelect, NamesApart
<1>15. CASE WarmUpCreate
  BY <1>15 DEF WarmUpCreate, NoFault, Created, FreshNames
<1>16. CASE WarmUpFails
  BY <1>16 DEF WarmUpFails, CreateFails, Fault, Created, FreshNames
<1>17. CASE WarmUpPush
  BY <1>c, <1>17 DEF WarmUpPush, LocalsAgree
<1>18. CASE Tick
  BY <1>18 DEF Tick
<1>19. CASE InjectImmediate
  BY <1>19 DEF InjectImmediate
<1>20. CASE CaptureState
  BY <1>20 DEF CaptureState
<1>21. CASE Restart
  <2>1. <<>> \in Seq(Pods)
    BY EmptySeq
  <2>2. /\ 0 \in 0..MaxTicks /\ WarmPoolSize \in 0..WarmPoolSize
        /\ restarts' \in 0..MaxRestarts
    BY <1>21 DEF Restart
  <2>3. QED
    BY <1>21, <2>1, <2>2, Zenon DEF Restart
<1>22. ASSUME NEW p \in Pods, PodGone(p) PROVE TypeOK'
  BY <1>22 DEF PodGone
<1>23. ASSUME NEW p \in Pods, Evict(p) PROVE TypeOK'
  BY <1>23 DEF Evict, Fault, Terminate, Live
<1>24. CASE UNCHANGED vars
  BY <1>24 DEF vars
<1>25. QED
  BY <1>1, <1>2, <1>3, <1>4, <1>5, <1>6, <1>7, <1>8, <1>9, <1>10, <1>11, <1>12,
     <1>13, <1>14, <1>15, <1>16, <1>17, <1>18, <1>19, <1>20, <1>21, <1>22, <1>23, <1>24
     DEF Next, RotationStep, WarmUpStep, Environment

-----------------------------------------------------------------------------
(* Names.                                                                  *)

\* Initially no name is held anywhere.
LEMMA NamesInit == Init => NamesApart
<1>1. Distinct(<<>>) /\ Entries(<<>>) = {}
  BY DEF Distinct, Entries
<1>2. QED
  BY <1>1 DEF Init, NamesApart

\* A name is created new, and moves from one place to the next.
LEMMA NamesStep ==
    TypeOK /\ NamesApart /\ LocalsAgree /\ [Next]_vars => NamesApart'
<1> SUFFICES ASSUME TypeOK, NamesApart, LocalsAgree, [Next]_vars
             PROVE  NamesApart'
  OBVIOUS
<1> USE DEF NamesApart, state, wakeup, locals, setup, cluster, history, budget
<1>0. warm \in Seq(Pods)
  BY DEF TypeOK
<1>a. pc \in Rotating => warm # <<>> /\ target = warm[1] /\ target \in Entries(warm)
  BY <1>0, HeadEntry DEF LocalsAgree, SnapshotStillHead
<1>b. pc \in Rotating => /\ Distinct(Retain(warm, target))
                         /\ Entries(Retain(warm, target)) = Entries(warm) \ {target}
  BY <1>0, <1>a, RetainFacts
<1>c. \A p \in Pods \ Entries(warm) :
         /\ Distinct(Append(warm, p))
         /\ Entries(Append(warm, p)) = Entries(warm) \cup {p}
  BY <1>0, AppendFacts
<1>d. (pc = "push" => fresh \in Pods) /\ (setupPod # None => setupPod \in Pods)
  BY DEF TypeOK, MaybePod
<1> USE <1>d DEF Rotating
<1>1. CASE RotateExhausted
  BY <1>1 DEF RotateExhausted, BackToSelect
<1>2. CASE RotateBegin
  BY <1>2 DEF RotateBegin
<1>3. CASE DeleteActive
  BY <1>3 DEF DeleteActive
<1>4. CASE DeleteFails
  BY <1>4 DEF DeleteFails, BackToSelect
<1>5. CASE ReadPending
  BY <1>5 DEF ReadPending, BackToSelect
<1>6. CASE CreateActive
  BY <1>6 DEF CreateActive, FreshNames, Referenced
<1>7. CASE CreateActiveFails
  BY <1>7 DEF CreateActiveFails, BackToSelect
<1>8. CASE PatchWarm
  BY <1>a, <1>8 DEF PatchWarm
<1>9. CASE PatchFails
  BY <1>9 DEF PatchFails, BackToSelect
<1>10. CASE DropWarm
  BY <1>a, <1>b, <1>10 DEF DropWarm
<1>11. CASE Commit
  BY <1>a, <1>b, <1>11 DEF Commit
<1>12. CASE Replenish
  BY NamesAssumption, <1>12 DEF Replenish, FreshNames, Referenced
<1>13. CASE ReplenishFails
  BY <1>13 DEF ReplenishFails, BackToSelect
<1>14. CASE Push
  BY <1>c, <1>14 DEF Push, BackToSelect
<1>15. CASE WarmUpCreate
  BY NamesAssumption, <1>15 DEF WarmUpCreate, FreshNames, Referenced
<1>16. CASE WarmUpFails
  BY <1>16 DEF WarmUpFails
<1>17. CASE WarmUpPush
  BY <1>c, <1>17 DEF WarmUpPush, LocalsAgree
<1>18. CASE Tick
  BY <1>18 DEF Tick
<1>19. CASE InjectImmediate
  BY <1>19 DEF InjectImmediate
<1>20. CASE CaptureState
  BY <1>20 DEF CaptureState
<1>21. CASE Restart
  <2>1. Distinct(<<>>) /\ Entries(<<>>) = {}
    BY DEF Distinct, Entries
  <2>2. QED
    BY <1>21, <2>1 DEF Restart
<1>22. ASSUME NEW p \in Pods, PodGone(p) PROVE NamesApart'
  BY <1>22 DEF PodGone
<1>23. ASSUME NEW p \in Pods, Evict(p) PROVE NamesApart'
  BY <1>23 DEF Evict
<1>24. CASE UNCHANGED vars
  BY <1>24 DEF vars
<1>25. QED
  BY <1>1, <1>2, <1>3, <1>4, <1>5, <1>6, <1>7, <1>8, <1>9, <1>10, <1>11, <1>12,
     <1>13, <1>14, <1>15, <1>16, <1>17, <1>18, <1>19, <1>20, <1>21, <1>22, <1>23, <1>24
     DEF Next, RotationStep, WarmUpStep, Environment

-----------------------------------------------------------------------------
(* Locals.                                                                 *)

\* Initially no rotation runs.
LEMMA LocalsInit == Init => LocalsAgree
BY DEF Init, LocalsAgree, SnapshotStillHead, Rotating

\* What the rotation read stays true while it runs: the warm-up task only
\* appends, and nobody else touches the active name.
LEMMA LocalsStep ==
    TypeOK /\ NamesApart /\ LocalsAgree /\ [Next]_vars => LocalsAgree'
<1> SUFFICES ASSUME TypeOK, NamesApart, LocalsAgree, [Next]_vars
             PROVE  LocalsAgree'
  OBVIOUS
<1> USE DEF LocalsAgree, SnapshotStillHead, Rotating, state, wakeup, locals,
        setup, cluster, history, budget
<1>0. warm \in Seq(Pods)
  BY DEF TypeOK
<1>a. pc \in Rotating => target \in Pods
  BY <1>0, HeadEntry
<1>c. \A p \in Pods : warm # <<>> =>
         Append(warm, p) # <<>> /\ Head(Append(warm, p)) = Head(warm)
  BY <1>0, AppendFacts, HeadEntry
<1>d. setupPod # None => setupPod \in Pods
  BY DEF TypeOK, MaybePod
<1> USE <1>d
<1>1. CASE RotateExhausted
  BY <1>1 DEF RotateExhausted, BackToSelect
<1>2. CASE RotateBegin
  BY <1>2 DEF RotateBegin
<1>3. CASE DeleteActive
  BY <1>3 DEF DeleteActive
<1>4. CASE DeleteFails
  BY <1>4 DEF DeleteFails, BackToSelect
<1>5. CASE ReadPending
  BY <1>5 DEF ReadPending, BackToSelect
<1>6. CASE CreateActive
  BY NamesAssumption, <1>6 DEF CreateActive, FreshNames
<1>7. CASE CreateActiveFails
  BY <1>7 DEF CreateActiveFails, BackToSelect
<1>8. CASE PatchWarm
  BY <1>a, NamesAssumption, <1>8 DEF PatchWarm
<1>9. CASE PatchFails
  BY <1>9 DEF PatchFails, BackToSelect
<1>10. CASE DropWarm
  BY <1>10 DEF DropWarm
<1>11. CASE Commit
  BY <1>11 DEF Commit
<1>12. CASE Replenish
  BY <1>12 DEF Replenish
<1>13. CASE ReplenishFails
  BY <1>13 DEF ReplenishFails, BackToSelect
<1>14. CASE Push
  BY <1>14 DEF Push, BackToSelect
<1>15. CASE WarmUpCreate
  BY <1>15 DEF WarmUpCreate
<1>16. CASE WarmUpFails
  BY <1>16 DEF WarmUpFails
<1>17. CASE WarmUpPush
  BY <1>c, <1>17 DEF WarmUpPush
<1>18. CASE Tick
  BY <1>18 DEF Tick
<1>19. CASE InjectImmediate
  BY <1>19 DEF InjectImmediate
<1>20. CASE CaptureState
  BY <1>20 DEF CaptureState
<1>21. CASE Restart
  BY <1>21 DEF Restart
<1>22. ASSUME NEW p \in Pods, PodGone(p) PROVE LocalsAgree'
  BY <1>22 DEF PodGone
<1>23. ASSUME NEW p \in Pods, Evict(p) PROVE LocalsAgree'
  BY <1>23 DEF Evict
<1>24. CASE UNCHANGED vars
  BY <1>24 DEF vars
<1>25. QED
  BY <1>1, <1>2, <1>3, <1>4, <1>5, <1>6, <1>7, <1>8, <1>9, <1>10, <1>11, <1>12,
     <1>13, <1>14, <1>15, <1>16, <1>17, <1>18, <1>19, <1>20, <1>21, <1>22, <1>23, <1>24
     DEF Next, RotationStep, WarmUpStep, Environment

-----------------------------------------------------------------------------
(* What the loop forgets.                                                  *)

\* Initially there is nothing to forget.
LEMMA LetGoInit == Init => LetGo
BY DEF Init, LetGo, Rotating

\* Nobody starts a pod under a name that a variable holds, so that the deleted
\* agent and the warm pod that was not found stay gone.
LEMMA LetGoStep ==
    TypeOK /\ NamesApart /\ LocalsAgree /\ LetGo /\ [Next]_vars => LetGo'
<1> SUFFICES ASSUME TypeOK, NamesApart, LocalsAgree, LetGo, [Next]_vars
             PROVE  LetGo'
  OBVIOUS
<1> USE DEF LetGo, Live, Rotating, state, wakeup, locals, setup, cluster,
        history, budget
<1>0. /\ status \in [Pods -> {"absent", "live", "terminating"}]
      /\ active \in Pods \cup {None}
  BY DEF TypeOK, MaybePod
<1>a. pc \in Rotating => target \in Pods
  BY HeadEntry DEF TypeOK, LocalsAgree, SnapshotStillHead
<1>b. pc = "delete" => snapActive = active /\ active # None
  BY DEF LocalsAgree
<1> USE <1>0, <1>a, <1>b
<1>1. CASE RotateExhausted
  BY <1>1 DEF RotateExhausted, BackToSelect
<1>2. CASE RotateBegin
  BY <1>2 DEF RotateBegin
<1>3. CASE DeleteActive
  BY <1>3 DEF DeleteActive, Terminate
<1>4. CASE DeleteFails
  BY <1>4 DEF DeleteFails, BackToSelect
<1>5. CASE ReadPending
  BY <1>5 DEF ReadPending, BackToSelect
<1>6. CASE CreateActive
  BY <1>6 DEF CreateActive, Created, FreshNames, Referenced
<1>7. CASE CreateActiveFails
  BY <1>7 DEF CreateActiveFails, BackToSelect
<1>8. CASE PatchWarm
  BY <1>8 DEF PatchWarm, Relabelled
<1>9. CASE PatchFails
  BY <1>9 DEF PatchFails, BackToSelect
<1>10. CASE DropWarm
  BY <1>10 DEF DropWarm
<1>11. CASE Commit
  BY <1>11 DEF Commit
<1>12. CASE Replenish
  BY <1>12 DEF Replenish, Created
<1>13. CASE ReplenishFails
  BY <1>13 DEF ReplenishFails, BackToSelect
<1>14. CASE Push
  BY <1>14 DEF Push, BackToSelect
<1>15. CASE WarmUpCreate
  BY <1>15 DEF WarmUpCreate, Created, FreshNames, Referenced
<1>16. CASE WarmUpFails
  BY <1>16 DEF WarmUpFails, CreateFails, Created, FreshNames, Referenced
<1>17. CASE WarmUpPush
  BY <1>17 DEF WarmUpPush
<1>18. CASE Tick
  BY <1>18 DEF Tick
<1>19. CASE InjectImmediate
  BY <1>19 DEF InjectImmediate
<1>20. CASE CaptureState
  BY <1>20 DEF CaptureState
<1>21. CASE Restart
  BY <1>21 DEF Restart
<1>22. ASSUME NEW p \in Pods, PodGone(p) PROVE LetGo'
  BY <1>22 DEF PodGone
<1>23. ASSUME NEW p \in Pods, Evict(p) PROVE LetGo'
  BY <1>23 DEF Evict, Terminate
<1>24. CASE UNCHANGED vars
  BY <1>24 DEF vars
<1>25. QED
  BY <1>1, <1>2, <1>3, <1>4, <1>5, <1>6, <1>7, <1>8, <1>9, <1>10, <1>11, <1>12,
     <1>13, <1>14, <1>15, <1>16, <1>17, <1>18, <1>19, <1>20, <1>21, <1>22, <1>23, <1>24
     DEF Next, RotationStep, WarmUpStep, Environment

-----------------------------------------------------------------------------
(* What the API calls do to the set of active pods.                        *)

\* A warm pod is not an active one.
LEMMA CreatedWarm ==
    ASSUME TypeOK, NEW p \in FreshNames, Created(p, "warm", None)
    PROVE  Actives' = Actives
BY DEF TypeOK, FreshNames, Created, Actives, Live

\* An active pod created under a new name is added.
LEMMA CreatedActive ==
    ASSUME TypeOK, NEW p \in FreshNames, NEW s, Created(p, "active", s)
    PROVE  Actives' = Actives \cup {p}
BY DEF TypeOK, FreshNames, Created, Actives, Live

\* Terminating a pod removes it.
LEMMA Terminated ==
    ASSUME TypeOK, NEW p, Terminate(p)
    PROVE  Actives' = Actives \ {p}
BY DEF TypeOK, Terminate, Actives, Live

\* The label may add the pod, if it runs.
LEMMA Labelled ==
    ASSUME TypeOK, NEW p \in Pods, Relabelled(p)
    PROVE  Actives \subseteq Actives' /\ Actives' \subseteq Actives \cup {p}
BY DEF TypeOK, Relabelled, Actives, Live

\* The end of a pod removes nothing else.
LEMMA Gone ==
    ASSUME TypeOK, NEW p \in Pods, PodGone(p)
    PROVE  Actives' \subseteq Actives
BY DEF TypeOK, PodGone, Actives, Live

\* A failed create() of a warm pod adds no active one, even if it took effect.
LEMMA WarmNotCreated ==
    ASSUME TypeOK, CreateFails("warm", None)
    PROVE  Actives' = Actives
<1>1. CASE UNCHANGED cluster
  BY <1>1 DEF cluster, Actives, Live
<1>2. QED
  BY <1>1, CreatedWarm DEF CreateFails

-----------------------------------------------------------------------------
(* The place of the active pod.  It needs one of: nothing is ever captured *)
(* (the daemon), or a reported error means that the call had no effect.    *)
(* With both, a lost reply to the create() of an active pod leaves a pod   *)
(* no later rotation knows of.                                             *)

OneActiveAssumption == Captures = {} \/ ~LostReplies

\* Initially there is no pod.
LEMMA ActiveInit == Init => ActivePlace
<1>1. Init => Actives = {}
  BY DEF Init, Actives
<1>2. QED
  BY <1>1 DEF Init, ActivePlace

\* The place implies the property.
LEMMA PlaceIsOne ==
    TypeOK /\ NamesApart /\ LocalsAgree /\ ActivePlace => AtMostOneActive
<1> SUFFICES ASSUME TypeOK, NamesApart, LocalsAgree, ActivePlace,
                    NEW p \in Actives, NEW q \in Actives
             PROVE  p = q
  BY DEF AtMostOneActive
<1>1. p \in Pods /\ q \in Pods
  BY DEF TypeOK, Actives
<1>2. warm \in Seq(Pods)
  BY DEF TypeOK
<1>3. pc = "commit" => warm # <<>> /\ target = warm[1]
  BY <1>2, HeadEntry DEF LocalsAgree, SnapshotStillHead, Rotating
<1>4. \A x \in Entries(warm) : warm # <<>>
  BY <1>2, HeadEntry
<1>5. QED
  BY <1>1, <1>3, <1>4 DEF ActivePlace, Rotating

\* Every step keeps the active pod in its place.
LEMMA ActiveStep ==
    ASSUME OneActiveAssumption
    PROVE  Inductive /\ [Next]_vars => ActivePlace'
<1> SUFFICES ASSUME Inductive, [Next]_vars
             PROVE  ActivePlace'
  OBVIOUS
<1> USE DEF ActivePlace, Rotating, state, wakeup, locals, setup, cluster,
        history, budget
<1>0. TypeOK /\ NamesApart /\ LocalsAgree /\ ActivePlace
  BY DEF Inductive
<1> USE <1>0
<1>1w. warm \in Seq(Pods) /\ None \notin Pods /\ Actives \subseteq Pods
  BY NamesAssumption DEF TypeOK, Actives
<1>a. pc \in Rotating => warm # <<>> /\ target = warm[1] /\ target \in Entries(warm)
                         /\ target \in Pods
  BY <1>1w, HeadEntry DEF LocalsAgree, SnapshotStillHead
<1>b. pc \in Rotating => /\ Entries(Retain(warm, target)) = Entries(warm) \ {target}
                         /\ Retain(warm, target) # <<>> =>
                               Retain(warm, target)[1] \in Entries(Retain(warm, target))
  BY <1>1w, <1>a, RetainFacts, HeadEntry DEF NamesApart
<1>c. \A p \in Pods : /\ Entries(Append(warm, p)) = Entries(warm) \cup {p}
                      /\ warm # <<>> => Append(warm, p)[1] = warm[1]
                      /\ warm = <<>> => Append(warm, p)[1] = p /\ Entries(warm) = {}
  BY <1>1w, AppendFacts, HeadEntry
<1>d. (pc = "push" => fresh \in Pods) /\ (setupPod # None => setupPod \in Pods)
  BY DEF TypeOK, MaybePod, NamesApart
<1>f. CreateFails("warm", None) => Actives' = Actives
  BY WarmNotCreated
<1>h. /\ active \notin Entries(warm)
      /\ setupPod # None => setupPod \notin {active, promoted} \cup Entries(warm)
      /\ fresh # None => pc = "push"
      /\ warm # <<>> => warm[1] \in Entries(warm)
  BY <1>1w, HeadEntry DEF NamesApart
<1>n. pc = "create" => ~LostReplies
  BY SignedAssumption DEF OneActiveAssumption, LocalsAgree
<1>one. \A p, q \in Actives : p = q
  BY PlaceIsOne DEF AtMostOneActive
<1>r. pc \in Rotating /\ Relabelled(target) =>
         Actives \subseteq Actives' /\ Actives' \subseteq Actives \cup {target}
  BY <1>a, Labelled
<1>s. UNCHANGED cluster => Actives' = Actives
  BY DEF Actives, Live
<1>t. Terminate(snapActive) => Actives' = Actives \ {snapActive}
  BY Terminated
<1> USE <1>1w, <1>d
<1>1. CASE RotateExhausted
  BY <1>s, <1>1 DEF RotateExhausted, BackToSelect
<1>2. CASE RotateBegin
  BY <1>s, <1>2 DEF RotateBegin
<1>3. CASE DeleteActive
  BY <1>t, <1>3 DEF DeleteActive, LocalsAgree, NoFault
<1>4. CASE DeleteFails
  BY <1>s, <1>t, <1>4 DEF DeleteFails, BackToSelect
<1>5. CASE ReadPending
  BY <1>s, <1>5 DEF ReadPending, BackToSelect
<1>6. CASE CreateActive
  <2>1. PICK p \in FreshNames : Created(p, "active", captured) /\ promoted' = p
    BY <1>6 DEF CreateActive
  <2>2. Actives' = Actives \cup {p}
    BY <2>1, CreatedActive
  <2>3. p \in Pods /\ p \notin Entries(warm) /\ p \notin {active, target, fresh, setupPod}
    BY DEF FreshNames, Referenced
  <2>4. ~LostReplies
    BY <1>6, <1>n DEF CreateActive
  <2>5. QED
    BY <1>6, <2>1, <2>2, <2>3, <2>4, <1>a, <1>h DEF CreateActive
<1>7. CASE CreateActiveFails
  <2>1. ~LostReplies
    BY <1>7, <1>n DEF CreateActiveFails
  <2>2. Actives' = Actives
    BY <1>7, <2>1, <1>s DEF CreateActiveFails, CreateFails
  <2>3. QED
    BY <1>7, <2>2 DEF CreateActiveFails, BackToSelect
<1>8. CASE PatchWarm
  <2>1. CASE Relabelled(target) /\ promoted' = target /\ pc' = "commit"
    BY <1>8, <2>1, <1>a, <1>h, <1>r DEF PatchWarm
  <2>2. CASE UNCHANGED <<cluster, promoted>> /\ pc' = "drop"
             /\ status[target] = "absent"
    <3>1. target \notin Actives
      BY <2>2 DEF Actives, Live
    <3>2. QED
      BY <1>8, <2>2, <3>1, <1>s DEF PatchWarm
  <2>3. QED
    BY <1>8, <2>1, <2>2 DEF PatchWarm
<1>9. CASE PatchFails
  <2>1. CASE UNCHANGED cluster
    BY <1>9, <2>1, <1>s DEF PatchFails, BackToSelect
  <2>2. CASE LostReplies /\ Relabelled(target)
    BY <1>9, <2>2, <1>a, <1>h, <1>r DEF PatchFails, BackToSelect
  <2>3. QED
    BY <1>9, <2>1, <2>2 DEF PatchFails
<1>10. CASE DropWarm
  <2>1. Actives' = Actives
    BY <1>10, <1>s DEF DropWarm
  <2>2. target \notin Actives
    BY <1>10 DEF DropWarm
  <2>3. QED
    BY <1>10, <2>1, <2>2, <1>a, <1>b, <1>h DEF DropWarm
<1>11. CASE Commit
  <2>1. Actives' = Actives
    BY <1>11, <1>s DEF Commit
  <2>2. \A p \in Actives : p = promoted
    BY <1>11, <1>a, <1>h, <1>one DEF Commit
  <2>3. promoted \notin Entries(warm')
    BY <1>11, <1>b DEF Commit, NamesApart
  <2>4. QED
    BY <1>11, <2>1, <2>2, <2>3, <1>b DEF Commit
<1>12. CASE Replenish
  BY CreatedWarm, <1>12 DEF Replenish, FreshNames, Referenced
<1>13. CASE ReplenishFails
  BY <1>f, <1>13 DEF ReplenishFails, BackToSelect
<1>14. CASE Push
  BY <1>s, <1>c, <1>14 DEF Push, BackToSelect, NamesApart
<1>15. CASE WarmUpCreate
  BY CreatedWarm, <1>15 DEF WarmUpCreate, FreshNames, Referenced
<1>16. CASE WarmUpFails
  BY <1>f, <1>16 DEF WarmUpFails
<1>17. CASE WarmUpPush
  BY <1>s, <1>c, <1>17 DEF WarmUpPush, NamesApart
<1>18. CASE Tick
  BY <1>s, <1>18 DEF Tick
<1>19. CASE InjectImmediate
  BY <1>s, <1>19 DEF InjectImmediate
<1>20. CASE CaptureState
  BY <1>s, <1>20 DEF CaptureState
<1>21. CASE Restart
  BY <1>21 DEF Restart, Actives, Entries
<1>22. ASSUME NEW p \in Pods, PodGone(p) PROVE ActivePlace'
  BY <1>22, Gone DEF PodGone
<1>23. ASSUME NEW p \in Pods, Evict(p) PROVE ActivePlace'
  BY <1>23, Terminated DEF Evict
<1>24. CASE UNCHANGED vars
  BY <1>24, <1>s DEF vars
<1>25. QED
  BY <1>1, <1>2, <1>3, <1>4, <1>5, <1>6, <1>7, <1>8, <1>9, <1>10, <1>11, <1>12,
     <1>13, <1>14, <1>15, <1>16, <1>17, <1>18, <1>19, <1>20, <1>21, <1>22, <1>23, <1>24
     DEF Next, RotationStep, WarmUpStep, Environment

-----------------------------------------------------------------------------
(* The theorems.                                                           *)

\* What holds in every configuration.
Common == TypeOK /\ NamesApart /\ LocalsAgree /\ LetGo

LEMMA CommonInvariant == Spec => []Common
<1>1. Init => Common
  BY TypeInit, NamesInit, LocalsInit, LetGoInit DEF Common
<1>2. Common /\ [Next]_vars => Common'
  BY TypeStep, NamesStep, LocalsStep, LetGoStep DEF Common
<1>3. QED
  BY <1>1, <1>2, PTL DEF Spec

\* Type correctness: every variable of the rotation keeps to the values the
\* code can give it, whatever fails, whoever interferes.
THEOREM TypeCorrect == Spec => []TypeOK
<1>1. Common => TypeOK
  BY DEF Common
<1>2. QED
  BY <1>1, CommonInvariant, PTL

\* rotate_active_pod may use the list it read before its API calls: the warm
\* pod it picked still heads the list when it is promoted and dropped.
THEOREM SnapshotValid == Spec => []SnapshotStillHead
<1>1. Common => SnapshotStillHead
  BY DEF Common, LocalsAgree
<1>2. QED
  BY <1>1, CommonInvariant, PTL

\* Every step accounts for the slots of the pool.
LEMMA PoolStep == Common /\ PoolAccounting /\ [Next]_vars => PoolAccounting'
<1> SUFFICES ASSUME Common, PoolAccounting, [Next]_vars
             PROVE  PoolAccounting'
  OBVIOUS
<1> USE DEF PoolAccounting, state, wakeup, locals, setup, cluster, history,
        budget
<1>0. /\ TypeOK /\ NamesApart /\ LocalsAgree
  BY DEF Common
<1>1w. /\ warm \in Seq(Pods) /\ Len(warm) \in Nat /\ lost \in Nat
       /\ setupLeft \in 0..WarmPoolSize /\ WarmPoolSize \in Nat
  BY <1>0, HeadEntry, PoolSizeAssumption DEF TypeOK
<1>b. pc \in {"drop", "commit"} => Len(Retain(warm, target)) = Len(warm) - 1
  BY <1>0, <1>1w, RetainFacts, HeadEntry
     DEF LocalsAgree, SnapshotStillHead, NamesApart, Rotating
<1>c. \A p \in Pods : Len(Append(warm, p)) = Len(warm) + 1
  BY <1>1w, AppendFacts
<1>d. (pc = "push" => fresh \in Pods) /\ (setupPod # None => setupPod \in Pods)
  BY <1>0 DEF TypeOK, MaybePod, NamesApart
<1> USE <1>1w, <1>d
<1>1. CASE RotateExhausted
  BY <1>1 DEF RotateExhausted, BackToSelect
<1>2. CASE RotateBegin
  BY <1>2 DEF RotateBegin
<1>3. CASE DeleteActive
  BY <1>3 DEF DeleteActive
<1>4. CASE DeleteFails
  BY <1>4 DEF DeleteFails, BackToSelect
<1>5. CASE ReadPending
  BY <1>5 DEF ReadPending, BackToSelect
<1>6. CASE CreateActive
  BY <1>6 DEF CreateActive
<1>7. CASE CreateActiveFails
  BY <1>7 DEF CreateActiveFails, BackToSelect
<1>8. CASE PatchWarm
  BY <1>8 DEF PatchWarm
<1>9. CASE PatchFails
  BY <1>9 DEF PatchFails, BackToSelect
<1>10. CASE DropWarm
  BY <1>b, <1>10 DEF DropWarm
<1>11. CASE Commit
  BY <1>b, <1>11 DEF Commit
<1>12. CASE Replenish
  BY <1>12 DEF Replenish
<1>13. CASE ReplenishFails
  BY <1>13 DEF ReplenishFails, BackToSelect
<1>14. CASE Push
  BY <1>c, <1>14 DEF Push, BackToSelect
<1>15. CASE WarmUpCreate
  BY <1>15 DEF WarmUpCreate
<1>16. CASE WarmUpFails
  BY <1>16 DEF WarmUpFails
<1>17. CASE WarmUpPush
  BY <1>c, <1>17 DEF WarmUpPush
<1>18. CASE Tick
  BY <1>18 DEF Tick
<1>19. CASE InjectImmediate
  BY <1>19 DEF InjectImmediate
<1>20. CASE CaptureState
  BY <1>20 DEF CaptureState
<1>21. CASE Restart
  BY EmptySeq, PoolSizeAssumption, <1>21 DEF Restart
<1>22. ASSUME NEW p \in Pods, PodGone(p) PROVE PoolAccounting'
  BY <1>22 DEF PodGone
<1>23. ASSUME NEW p \in Pods, Evict(p) PROVE PoolAccounting'
  BY <1>23 DEF Evict
<1>24. CASE UNCHANGED vars
  BY <1>24 DEF vars
<1>25. QED
  BY <1>1, <1>2, <1>3, <1>4, <1>5, <1>6, <1>7, <1>8, <1>9, <1>10, <1>11, <1>12,
     <1>13, <1>14, <1>15, <1>16, <1>17, <1>18, <1>19, <1>20, <1>21, <1>22, <1>23, <1>24
     DEF Next, RotationStep, WarmUpStep, Environment

\* The two tasks that provision pods fill every slot of the pool once: a slot
\* is only ever lost to a create() that failed.
THEOREM PoolAccounted == Spec => []PoolAccounting
<1>1. Init => PoolAccounting
  BY EmptySeq, PoolSizeAssumption DEF Init, PoolAccounting
<1>2. QED
  BY <1>1, PoolStep, CommonInvariant, PTL DEF Spec

\* Every step leaves only signed states in the pods.
LEMMA InjectStep ==
    Common /\ InjectedIsSigned /\ [Next]_vars => InjectedIsSigned'
<1> SUFFICES ASSUME Common, InjectedIsSigned, [Next]_vars
             PROVE  InjectedIsSigned'
  OBVIOUS
<1> USE DEF InjectedIsSigned, state, wakeup, locals, setup, cluster, history,
        budget
<1>0. injected \in [Pods -> MaybeCapture]
  BY DEF Common, TypeOK
<1>a. pc = "create" => captured \in Signed
  BY DEF Common, LocalsAgree
<1> USE <1>0
<1>1. CASE RotateExhausted
  BY <1>1 DEF RotateExhausted
<1>2. CASE RotateBegin
  BY <1>2 DEF RotateBegin
<1>3. CASE DeleteActive
  BY <1>3 DEF DeleteActive, Terminate
<1>4. CASE DeleteFails
  BY <1>4 DEF DeleteFails, Terminate
<1>5. CASE ReadPending
  BY <1>5 DEF ReadPending
<1>6. CASE CreateActive
  BY <1>a, <1>6 DEF CreateActive, Created
<1>7. CASE CreateActiveFails
  BY <1>a, <1>7 DEF CreateActiveFails, CreateFails, Created
<1>8. CASE PatchWarm
  BY <1>8 DEF PatchWarm, Relabelled
<1>9. CASE PatchFails
  BY <1>9 DEF PatchFails, Relabelled
<1>10. CASE DropWarm
  BY <1>10 DEF DropWarm
<1>11. CASE Commit
  BY <1>11 DEF Commit
<1>12. CASE Replenish
  BY <1>12 DEF Replenish, Created
<1>13. CASE ReplenishFails
  BY <1>13 DEF ReplenishFails, CreateFails, Created
<1>14. CASE Push
  BY <1>14 DEF Push
<1>15. CASE WarmUpCreate
  BY <1>15 DEF WarmUpCreate, Created
<1>16. CASE WarmUpFails
  BY <1>16 DEF WarmUpFails, CreateFails, Created
<1>17. CASE WarmUpPush
  BY <1>17 DEF WarmUpPush
<1>18. CASE Tick
  BY <1>18 DEF Tick
<1>19. CASE InjectImmediate
  BY <1>19 DEF InjectImmediate
<1>20. CASE CaptureState
  BY <1>20 DEF CaptureState
<1>21. CASE Restart
  BY <1>21 DEF Restart
<1>22. ASSUME NEW p \in Pods, PodGone(p) PROVE InjectedIsSigned'
  BY <1>22 DEF PodGone
<1>23. ASSUME NEW p \in Pods, Evict(p) PROVE InjectedIsSigned'
  BY <1>23 DEF Evict, Terminate
<1>24. CASE UNCHANGED vars
  BY <1>24 DEF vars
<1>25. QED
  BY <1>1, <1>2, <1>3, <1>4, <1>5, <1>6, <1>7, <1>8, <1>9, <1>10, <1>11, <1>12,
     <1>13, <1>14, <1>15, <1>16, <1>17, <1>18, <1>19, <1>20, <1>21, <1>22, <1>23, <1>24
     DEF Next, RotationStep, WarmUpStep, Environment

\* No pod ever gets an INITIAL_STATE whose signature was not checked, although
\* the pending state can be replaced between the check and the create().
THEOREM OnlySignedInjected == Spec => []InjectedIsSigned
<1>1. Init => InjectedIsSigned
  BY DEF Init, InjectedIsSigned
<1>2. QED
  BY <1>1, InjectStep, CommonInvariant, PTL DEF Spec

\* Every step hands each running pod from one name to another, and drops only
\* names of pods that run no longer.
LEMMA NoLeakStep == Common /\ NoLeak /\ [Next]_vars => NoLeak'
<1> SUFFICES ASSUME Common, NoLeak, [Next]_vars
             PROVE  NoLeak'
  OBVIOUS
<1> USE DEF NoLeak, Known, Live, state, wakeup, locals, setup, cluster,
        history, budget
<1>0. TypeOK /\ NamesApart /\ LocalsAgree /\ LetGo
  BY DEF Common
<1>s. /\ status \in [Pods -> {"absent", "live", "terminating"}]
      /\ mine \subseteq Pods /\ warm \in Seq(Pods)
  BY <1>0 DEF TypeOK
<1>a. pc \in Rotating => warm # <<>> /\ target = warm[1] /\ target \in Entries(warm)
  BY <1>0, <1>s, HeadEntry DEF LocalsAgree, SnapshotStillHead
<1>b. pc \in Rotating => Entries(Retain(warm, target)) = Entries(warm) \ {target}
  BY <1>0, <1>s, <1>a, RetainFacts DEF NamesApart
<1>c. /\ pc = "push" => Entries(Append(warm, fresh)) = Entries(warm) \cup {fresh}
      /\ setupPod # None =>
            Entries(Append(warm, setupPod)) = Entries(warm) \cup {setupPod}
  BY <1>0, <1>s, AppendFacts DEF TypeOK, MaybePod, NamesApart
<1>d. /\ pc # "push" => fresh = None
      /\ pc = "delete" => snapActive = active
      /\ pc # "commit" => promoted \in {None, active}
      /\ pc \in Rotating \ {"delete"} /\ active # None => ~Live(active)
      /\ pc = "drop" => ~Live(target)
      /\ None \notin mine
  BY <1>0, <1>s, NamesAssumption DEF NamesApart, LocalsAgree, LetGo
<1> HIDE <1>0
<1> USE <1>s, <1>d DEF Rotating
<1>1. CASE RotateExhausted
  BY <1>1 DEF RotateExhausted, BackToSelect
<1>2. CASE RotateBegin
  BY <1>2 DEF RotateBegin
<1>3. CASE DeleteActive
  BY <1>3 DEF DeleteActive, Terminate
<1>4. CASE DeleteFails
  BY <1>4 DEF DeleteFails, Terminate, BackToSelect
<1>5. CASE ReadPending
  BY <1>5 DEF ReadPending, BackToSelect
<1>6. CASE CreateActive
  BY <1>6 DEF CreateActive, Created
<1>7. CASE CreateActiveFails
  BY <1>7 DEF CreateActiveFails, CreateFails, Created, BackToSelect
<1>8. CASE PatchWarm
  BY <1>a, <1>8 DEF PatchWarm, Relabelled
<1>9. CASE PatchFails
  BY <1>9 DEF PatchFails, Relabelled, BackToSelect
<1>10. CASE DropWarm
  BY <1>a, <1>b, <1>10 DEF DropWarm
<1>11. CASE Commit
  BY <1>a, <1>b, <1>11 DEF Commit
<1>12. CASE Replenish
  BY <1>12 DEF Replenish, Created
<1>13. CASE ReplenishFails
  BY <1>13 DEF ReplenishFails, CreateFails, Created, BackToSelect
<1>14. CASE Push
  BY <1>c, <1>14 DEF Push, BackToSelect
<1>15. CASE WarmUpCreate
  BY <1>15 DEF WarmUpCreate, Created
<1>16. CASE WarmUpFails
  BY <1>16 DEF WarmUpFails, CreateFails, Created
<1>17. CASE WarmUpPush
  BY <1>c, <1>17 DEF WarmUpPush
<1>18. CASE Tick
  BY <1>18 DEF Tick
<1>19. CASE InjectImmediate
  BY <1>19 DEF InjectImmediate
<1>20. CASE CaptureState
  BY <1>20 DEF CaptureState
<1>21. CASE Restart
  BY <1>21 DEF Restart
<1>22. ASSUME NEW p \in Pods, PodGone(p) PROVE NoLeak'
  BY <1>22 DEF PodGone
<1>23. ASSUME NEW p \in Pods, Evict(p) PROVE NoLeak'
  BY <1>23 DEF Evict, Terminate
<1>24. CASE UNCHANGED vars
  BY <1>24 DEF vars
<1>25. QED
  BY <1>1, <1>2, <1>3, <1>4, <1>5, <1>6, <1>7, <1>8, <1>9, <1>10, <1>11, <1>12,
     <1>13, <1>14, <1>15, <1>16, <1>17, <1>18, <1>19, <1>20, <1>21, <1>22, <1>23, <1>24
     DEF Next, RotationStep, WarmUpStep, Environment

\* The controller never forgets a pod that runs: errors, early returns and the
\* two tasks leak none, except the pod of a create() whose reply was lost and
\* the warm pod that the capture branch passes over.
THEOREM NothingLeaks == Spec => []NoLeak
<1>1. Init => NoLeak
  BY DEF Init, NoLeak
<1>2. QED
  BY <1>1, NoLeakStep, CommonInvariant, PTL DEF Spec

\* An immediate injection is never missed by the epoch loop.
THEOREM TriggerKept == Spec => []NoLostTrigger
<1>1. Init => NoLostTrigger
  BY DEF Init, NoLostTrigger
<1>2. NoLostTrigger /\ [Next]_vars => NoLostTrigger'
  <2> SUFFICES ASSUME NoLostTrigger, [Next]_vars
               PROVE  NoLostTrigger'
    OBVIOUS
  <2>1. \/ owed' = FALSE \/ permit' = TRUE
        \/ UNCHANGED <<permit, owed>>
    BY Zenon DEF Next, RotationStep, WarmUpStep, Environment, vars, wakeup,
       RotateExhausted, RotateBegin, DeleteActive, DeleteFails, ReadPending,
       CreateActive, CreateActiveFails, PatchWarm, PatchFails, DropWarm,
       Commit, Replenish, ReplenishFails, Push, WarmUpCreate, WarmUpFails,
       WarmUpPush, Tick, InjectImmediate, CaptureState, Restart, PodGone, Evict
  <2>2. QED
    BY <2>1, Zenon DEF NoLostTrigger
<1>3. QED
  BY <1>1, <1>2, PTL DEF Spec

\* The names the controller holds stay apart, its locals agree with the state
\* they were read from, and the active pod is where the next rotation finds it:
\* the invariant that every step preserves.
THEOREM InductiveInvariant == ASSUME OneActiveAssumption PROVE Spec => []Inductive
<1>1. Init => Inductive
  BY TypeInit, NamesInit, LocalsInit, LetGoInit, ActiveInit DEF Inductive
<1>2. Inductive /\ [Next]_vars => Inductive'
  BY TypeStep, NamesStep, LocalsStep, LetGoStep, ActiveStep DEF Inductive
<1>3. QED
  BY <1>1, <1>2, PTL DEF Spec

\* At most one pod of an incarnation of the controller serves as the active
\* agent, whatever the tasks interleave, whichever call fails, whoever deletes
\* pods, and wherever the controller crashes.
THEOREM OneActive == ASSUME OneActiveAssumption PROVE Spec => []AtMostOneActive
<1>1. Inductive => AtMostOneActive
  BY PlaceIsOne DEF Inductive
<1>2. QED
  BY <1>1, InductiveInvariant, PTL

-----------------------------------------------------------------------------
(* What a crash leaves behind.                                             *)

\* The pods in the list, and those on their way to it, were created by this
\* incarnation, as long as they run.
HeldAreOwn ==
    \A p \in Pods : p \in Entries(warm) \cup {fresh, setupPod} /\ Live(p) => p \in mine

\* A name enters the list with the pod that is created, and only the pod's end
\* takes it from the incarnation's own.
LEMMA HeldStep == Common /\ HeldAreOwn /\ [Next]_vars => HeldAreOwn'
<1> SUFFICES ASSUME Common, HeldAreOwn, [Next]_vars
             PROVE  HeldAreOwn'
  OBVIOUS
<1> USE DEF HeldAreOwn, Live, state, wakeup, locals, setup, cluster, history,
        budget
<1>0. TypeOK /\ NamesApart /\ LocalsAgree
  BY DEF Common
<1>s. /\ status \in [Pods -> {"absent", "live", "terminating"}]
      /\ mine \subseteq Pods /\ warm \in Seq(Pods) /\ None \notin Pods
  BY <1>0, NamesAssumption DEF TypeOK
<1>a. pc \in Rotating => warm # <<>> /\ target = warm[1]
  BY <1>0, <1>s, HeadEntry DEF LocalsAgree, SnapshotStillHead
<1>b. pc \in Rotating => Entries(Retain(warm, target)) \subseteq Entries(warm)
  BY <1>0, <1>s, <1>a, RetainFacts DEF NamesApart
<1>c. /\ pc = "push" => Entries(Append(warm, fresh)) = Entries(warm) \cup {fresh}
      /\ setupPod # None =>
            Entries(Append(warm, setupPod)) = Entries(warm) \cup {setupPod}
  BY <1>0, <1>s, AppendFacts DEF TypeOK, MaybePod, NamesApart
<1> HIDE <1>0
<1> USE <1>s DEF Rotating
<1>1. CASE RotateExhausted
  BY <1>1 DEF RotateExhausted, BackToSelect
<1>2. CASE RotateBegin
  BY <1>2 DEF RotateBegin
<1>3. CASE DeleteActive
  BY <1>3 DEF DeleteActive, Terminate
<1>4. CASE DeleteFails
  BY <1>4 DEF DeleteFails, Terminate, BackToSelect
<1>5. CASE ReadPending
  BY <1>5 DEF ReadPending, BackToSelect
<1>6. CASE CreateActive
  BY <1>6 DEF CreateActive, Created
<1>7. CASE CreateActiveFails
  BY <1>7 DEF CreateActiveFails, CreateFails, Created, BackToSelect
<1>8. CASE PatchWarm
  BY <1>8 DEF PatchWarm, Relabelled
<1>9. CASE PatchFails
  BY <1>9 DEF PatchFails, Relabelled, BackToSelect
<1>10. CASE DropWarm
  BY <1>b, <1>10 DEF DropWarm
<1>11. CASE Commit
  BY <1>b, <1>11 DEF Commit
<1>12. CASE Replenish
  BY <1>12 DEF Replenish, Created
<1>13. CASE ReplenishFails
  BY <1>13 DEF ReplenishFails, CreateFails, Created, BackToSelect
<1>14. CASE Push
  BY <1>c, <1>14 DEF Push, BackToSelect
<1>15. CASE WarmUpCreate
  BY <1>15 DEF WarmUpCreate, Created
<1>16. CASE WarmUpFails
  BY <1>16 DEF WarmUpFails, CreateFails, Created
<1>17. CASE WarmUpPush
  BY <1>c, <1>17 DEF WarmUpPush
<1>18. CASE Tick
  BY <1>18 DEF Tick
<1>19. CASE InjectImmediate
  BY <1>19 DEF InjectImmediate
<1>20. CASE CaptureState
  BY <1>20 DEF CaptureState
<1>21. CASE Restart
  BY <1>21 DEF Restart, Entries
<1>22. ASSUME NEW p \in Pods, PodGone(p) PROVE HeldAreOwn'
  BY <1>22 DEF PodGone
<1>23. ASSUME NEW p \in Pods, Evict(p) PROVE HeldAreOwn'
  BY <1>23 DEF Evict, Terminate
<1>24. CASE UNCHANGED vars
  BY <1>24 DEF vars
<1>25. QED
  BY <1>1, <1>2, <1>3, <1>4, <1>5, <1>6, <1>7, <1>8, <1>9, <1>10, <1>11, <1>12,
     <1>13, <1>14, <1>15, <1>16, <1>17, <1>18, <1>19, <1>20, <1>21, <1>22, <1>23, <1>24
     DEF Next, RotationStep, WarmUpStep, Environment

\* The active agents of the daemons before this one, and how they come to be more.
Behind == {p \in Pods \ mine : Live(p) /\ role[p] = "active"}

LEMMA BehindStep ==
    ASSUME Common, HeldAreOwn, [Next]_vars
    PROVE  \/ UNCHANGED restarts /\ Behind' \subseteq Behind
           \/ restarts' = restarts + 1 /\ Behind' \subseteq Behind \cup Actives
<1> DEFINE Goal == \/ UNCHANGED restarts /\ Behind' \subseteq Behind
                   \/ restarts' = restarts + 1 /\ Behind' \subseteq Behind \cup Actives
<1> USE DEF Behind, Live, state, wakeup, locals, setup, cluster, history, budget,
        Fault, NoFault
<1>0. TypeOK /\ LocalsAgree
  BY DEF Common
<1>s. /\ status \in [Pods -> {"absent", "live", "terminating"}]
      /\ role \in [Pods -> {"none", "warm", "active"}]
      /\ mine \subseteq Pods /\ warm \in Seq(Pods)
  BY <1>0 DEF TypeOK
<1>a. pc \in Rotating => target \in Pods /\ (Live(target) => target \in mine)
  BY <1>0, <1>s, HeadEntry DEF LocalsAgree, SnapshotStillHead, HeldAreOwn
<1> HIDE <1>0
<1> USE <1>s DEF Rotating
<1>1. CASE RotateExhausted
  BY <1>1 DEF RotateExhausted
<1>2. CASE RotateBegin
  BY <1>2 DEF RotateBegin
<1>3. CASE DeleteActive
  BY <1>3 DEF DeleteActive, Terminate
<1>4. CASE DeleteFails
  BY <1>4 DEF DeleteFails, Terminate
<1>5. CASE ReadPending
  BY <1>5 DEF ReadPending
<1>6. CASE CreateActive
  BY <1>6 DEF CreateActive, Created
<1>7. CASE CreateActiveFails
  BY <1>7 DEF CreateActiveFails, CreateFails, Created
<1>8. CASE PatchWarm
  BY <1>a, <1>8 DEF PatchWarm, Relabelled
<1>9. CASE PatchFails
  BY <1>a, <1>9 DEF PatchFails, Relabelled
<1>10. CASE DropWarm
  BY <1>10 DEF DropWarm
<1>11. CASE Commit
  BY <1>11 DEF Commit
<1>12. CASE Replenish
  BY <1>12 DEF Replenish, Created
<1>13. CASE ReplenishFails
  BY <1>13 DEF ReplenishFails, CreateFails, Created
<1>14. CASE Push
  BY <1>14 DEF Push
<1>15. CASE WarmUpCreate
  BY <1>15 DEF WarmUpCreate, Created
<1>16. CASE WarmUpFails
  BY <1>16 DEF WarmUpFails, CreateFails, Created
<1>17. CASE WarmUpPush
  BY <1>17 DEF WarmUpPush
<1>18. CASE Tick
  BY <1>18 DEF Tick
<1>19. CASE InjectImmediate
  BY <1>19 DEF InjectImmediate
<1>20. CASE CaptureState
  BY <1>20 DEF CaptureState
<1>21. CASE Restart
  BY <1>21 DEF Restart, Actives
<1>22. ASSUME NEW p \in Pods, PodGone(p) PROVE Goal
  BY <1>22 DEF PodGone
<1>23. ASSUME NEW p \in Pods, Evict(p) PROVE Goal
  BY <1>23 DEF Evict, Terminate
<1>24. CASE UNCHANGED vars
  BY <1>24 DEF vars
<1>25. QED
  BY <1>1, <1>2, <1>3, <1>4, <1>5, <1>6, <1>7, <1>8, <1>9, <1>10, <1>11, <1>12,
     <1>13, <1>14, <1>15, <1>16, <1>17, <1>18, <1>19, <1>20, <1>21, <1>22, <1>23, <1>24
     DEF Next, RotationStep, WarmUpStep, Environment

\* The set of them is finite and no larger than the number of crashes.
LEMMA BehindInvariant ==
    ASSUME OneActiveAssumption
    PROVE  Spec => [](Inductive /\ IsFiniteSet(Behind) /\ Cardinality(Behind) <= restarts)
<1> DEFINE Inv == IsFiniteSet(Behind) /\ Cardinality(Behind) <= restarts
<1>1. Init => Inv /\ HeldAreOwn
  <2> SUFFICES ASSUME Init PROVE Inv /\ HeldAreOwn
    OBVIOUS
  <2>1. Behind = {} /\ HeldAreOwn
    BY DEF Init, Behind, HeldAreOwn, Live
  <2>2. QED
    BY <2>1, FS_EmptySet DEF Init
<1>2. Inductive /\ HeldAreOwn /\ Inv /\ [Next]_vars => Inv'
  <2> SUFFICES ASSUME Inductive, HeldAreOwn, Inv, [Next]_vars PROVE Inv'
    OBVIOUS
  <2>0. restarts \in Nat /\ Cardinality(Behind) \in Nat
    BY BoundsAssumption, FS_CardinalityType DEF Inductive, TypeOK
  <2>1. \/ UNCHANGED restarts /\ Behind' \subseteq Behind
        \/ restarts' = restarts + 1 /\ Behind' \subseteq Behind \cup Actives
    BY BehindStep DEF Inductive, Common
  <2>2. CASE UNCHANGED restarts /\ Behind' \subseteq Behind
    <3>1. IsFiniteSet(Behind') /\ Cardinality(Behind') <= Cardinality(Behind)
          /\ Cardinality(Behind') \in Nat
      BY <2>2, FS_Subset, FS_CardinalityType
    <3>2. QED
      BY <2>0, <2>2, <3>1
  <2>3. CASE restarts' = restarts + 1 /\ Behind' \subseteq Behind \cup Actives
    <3>1. \E x : Actives \subseteq {x}
      BY PlaceIsOne DEF Inductive, AtMostOneActive
    <3>2. PICK x : Behind' \subseteq Behind \cup {x}
      BY <2>3, <3>1
    <3>3. /\ IsFiniteSet(Behind \cup {x})
          /\ Cardinality(Behind \cup {x}) <= Cardinality(Behind) + 1
      <4>1. IsFiniteSet(Behind)
        OBVIOUS
      <4> HIDE DEF Behind, Inv
      <4>2. /\ IsFiniteSet(Behind \cup {x})
            /\ \/ Cardinality(Behind \cup {x}) = Cardinality(Behind)
               \/ Cardinality(Behind \cup {x}) = Cardinality(Behind) + 1
        BY <4>1, FS_AddElement
      <4>3. QED
        BY <2>0, <4>2
    <3>4. /\ IsFiniteSet(Behind') /\ Cardinality(Behind') <= Cardinality(Behind \cup {x})
          /\ Cardinality(Behind') \in Nat /\ Cardinality(Behind \cup {x}) \in Nat
      BY <3>2, <3>3, FS_Subset, FS_CardinalityType
    <3>5. QED
      BY <2>0, <2>3, <3>3, <3>4
  <2>4. QED
    BY <2>1, <2>2, <2>3
<1>3. QED
  BY <1>1, <1>2, HeldStep, CommonInvariant, InductiveInvariant, PTL DEF Spec

\* Whatever was going on when a daemon died, it left one active agent behind at
\* the most: with that of the daemon that runs there is one more than crashes.
THEOREM OneLeftBehind == ASSUME OneActiveAssumption PROVE Spec => []CrashLeavesOne
<1>1. Inductive /\ IsFiniteSet(Behind) /\ Cardinality(Behind) <= restarts => CrashLeavesOne
  <2> SUFFICES ASSUME Inductive, IsFiniteSet(Behind), Cardinality(Behind) <= restarts
               PROVE  CrashLeavesOne
    OBVIOUS
  <2>0. restarts \in Nat /\ Cardinality(Behind) \in Nat
    BY BoundsAssumption, FS_CardinalityType DEF Inductive, TypeOK
  <2>1. \E x : Actives \subseteq {x}
    BY PlaceIsOne DEF Inductive, AtMostOneActive
  <2>2. PICK x : ActivesEver \subseteq Behind \cup {x}
    BY <2>1 DEF ActivesEver, Actives, Behind
  <2>3. /\ IsFiniteSet(Behind \cup {x})
        /\ Cardinality(Behind \cup {x}) <= Cardinality(Behind) + 1
    <3>1. /\ IsFiniteSet(Behind \cup {x})
          /\ \/ Cardinality(Behind \cup {x}) = Cardinality(Behind)
             \/ Cardinality(Behind \cup {x}) = Cardinality(Behind) + 1
      BY FS_AddElement
    <3>2. QED
      BY <2>0, <3>1
  <2>4. /\ Cardinality(ActivesEver) <= Cardinality(Behind \cup {x})
        /\ Cardinality(ActivesEver) \in Nat /\ Cardinality(Behind \cup {x}) \in Nat
    BY <2>2, <2>3, FS_Subset, FS_CardinalityType
  <2>5. QED
    BY <2>0, <2>3, <2>4 DEF CrashLeavesOne
<1>2. QED
  BY <1>1, BehindInvariant, PTL

-----------------------------------------------------------------------------
(* What the controller counts on.                                          *)

\* The only pod a rotation deletes is the active one it has begun to replace, and
\* a pod that is created has a name nobody counts on.
LEMMA ReliedStep == Common /\ ReliedLive /\ [Next]_vars => ReliedLive'
<1> SUFFICES ASSUME Common, ReliedLive, [Next]_vars
             PROVE  ReliedLive'
  OBVIOUS
<1>0. TypeOK /\ NamesApart /\ LocalsAgree /\ LetGo
  BY DEF Common
<1>n. faults \in Nat /\ (Fault => faults' # 0)
  BY <1>0, BoundsAssumption DEF TypeOK, Fault
<1> USE DEF ReliedLive, Relied, Live, state, wakeup, locals, setup, cluster, history,
        budget, NoFault
<1>s. /\ status \in [Pods -> {"absent", "live", "terminating"}]
      /\ mine \subseteq Pods /\ warm \in Seq(Pods) /\ None \notin Pods
      /\ Entries(warm) \subseteq Pods /\ active \in Pods \cup {None}
      /\ fresh \in Pods \cup {None} /\ setupPod \in Pods \cup {None}
      /\ promoted \in Pods \cup {None}
  BY <1>0, NamesAssumption, HeadEntry DEF TypeOK, MaybePod
<1>a. pc \in Rotating => warm # <<>> /\ target = warm[1] /\ target \in Entries(warm)
  BY <1>0, <1>s, HeadEntry DEF LocalsAgree, SnapshotStillHead
<1>b. pc \in Rotating => Entries(Retain(warm, target)) = Entries(warm) \ {target}
  BY <1>0, <1>s, <1>a, RetainFacts DEF NamesApart
<1>c. /\ pc = "push" => Entries(Append(warm, fresh)) = Entries(warm) \cup {fresh}
      /\ setupPod # None =>
            Entries(Append(warm, setupPod)) = Entries(warm) \cup {setupPod}
  BY <1>0, <1>s, AppendFacts DEF NamesApart
<1>d. /\ pc = "push" <=> fresh # None
      /\ pc = "delete" => snapActive = active
      /\ pc = "commit" => promoted # None
      /\ active \notin Entries(warm)
      /\ fresh # None => fresh # active
      /\ setupPod # None => setupPod # active
  BY <1>0 DEF NamesApart, LocalsAgree
<1>e. pc = "drop" => ~Live(target)
  BY <1>0 DEF LetGo
<1> HIDE <1>0
<1> USE <1>s, <1>n, <1>d DEF Rotating
<1>1. CASE RotateExhausted
  BY <1>1 DEF RotateExhausted, BackToSelect
<1>2. CASE RotateBegin
  BY <1>2 DEF RotateBegin
<1>3. CASE DeleteActive
  BY <1>3 DEF DeleteActive, Terminate
<1>4. CASE DeleteFails
  BY <1>4 DEF DeleteFails, Terminate, BackToSelect
<1>5. CASE ReadPending
  <2>1. CASE pending \in Captures \ Signed
    BY <2>1
  <2>2. CASE pending \notin Captures \ Signed
    BY <1>5, <2>2 DEF ReadPending
  <2>3. QED
    BY <2>1, <2>2
<1>6. CASE CreateActive
  BY <1>6 DEF CreateActive, Created, FreshNames
<1>7. CASE CreateActiveFails
  BY <1>7 DEF CreateActiveFails, CreateFails, Created, BackToSelect
<1>8. CASE PatchWarm
  BY <1>a, <1>8 DEF PatchWarm, Relabelled
<1>9. CASE PatchFails
  BY <1>9 DEF PatchFails, Relabelled, BackToSelect
<1>10. CASE DropWarm
  BY <1>a, <1>e, <1>10 DEF DropWarm
<1>11. CASE Commit
  BY <1>a, <1>b, <1>11 DEF Commit
<1>12. CASE Replenish
  BY <1>12 DEF Replenish, Created, FreshNames
<1>13. CASE ReplenishFails
  BY <1>13 DEF ReplenishFails, CreateFails, Created, BackToSelect
<1>14. CASE Push
  BY <1>c, <1>14 DEF Push, BackToSelect
<1>15. CASE WarmUpCreate
  BY <1>15 DEF WarmUpCreate, Created, FreshNames
<1>16. CASE WarmUpFails
  BY <1>16 DEF WarmUpFails, CreateFails, Created
<1>17. CASE WarmUpPush
  BY <1>c, <1>17 DEF WarmUpPush
<1>18. CASE Tick
  BY <1>18 DEF Tick
<1>19. CASE InjectImmediate
  BY <1>19 DEF InjectImmediate
<1>20. CASE CaptureState
  BY <1>20 DEF CaptureState
<1>21. CASE Restart
  BY <1>21 DEF Restart, Entries
<1>22. ASSUME NEW p \in Pods, PodGone(p) PROVE ReliedLive'
  BY <1>22 DEF PodGone
<1>23. ASSUME NEW p \in Pods, Evict(p) PROVE ReliedLive'
  BY <1>23 DEF Evict, Terminate
<1>24. CASE UNCHANGED vars
  BY <1>24 DEF vars
<1>25. QED
  BY <1>1, <1>2, <1>3, <1>4, <1>5, <1>6, <1>7, <1>8, <1>9, <1>10, <1>11, <1>12,
     <1>13, <1>14, <1>15, <1>16, <1>17, <1>18, <1>19, <1>20, <1>21, <1>22, <1>23, <1>24
     DEF Next, RotationStep, WarmUpStep, Environment

\* No step of the rotation or of the warm-up ends a pod the controller counts on.
LEMMA ReliedInvariant == Spec => []ReliedLive
<1>1. Init => ReliedLive
  BY DEF Init, ReliedLive, Relied, Entries
<1>2. QED
  BY <1>1, ReliedStep, CommonInvariant, PTL DEF Spec

-----------------------------------------------------------------------------
(* The refinement.                                                         *)

\* The active role is only ever taken when nobody has it.
LEMMA TakenWhenFree ==
    ASSUME OneActiveAssumption, Inductive, [Next]_vars
    PROVE  Actives' \subseteq Actives \/ Actives = {}
<1> USE DEF cluster
<1>0. TypeOK /\ NamesApart /\ LocalsAgree /\ ActivePlace
  BY DEF Inductive
<1> USE <1>0
<1>w. warm \in Seq(Pods) /\ Actives \subseteq Pods
  BY DEF TypeOK, Actives
<1>a. pc \in Rotating => target = warm[1] /\ target \in Pods /\ warm # <<>>
  BY <1>w, HeadEntry DEF LocalsAgree, SnapshotStillHead
<1>e. pc = "create" => Actives = {}
  <2>1. pc = "create" => ~LostReplies
    BY SignedAssumption DEF OneActiveAssumption, LocalsAgree
  <2>2. pc = "create" => pc \in Rotating \ {"delete"} /\ warm # <<>>
    BY <1>a DEF Rotating
  <2>3. QED
    BY <2>1, <2>2, <1>a DEF ActivePlace
<1>r. pc = "patch" /\ Relabelled(target) => Actives' \subseteq Actives \/ Actives = {}
  <2> SUFFICES ASSUME pc = "patch", Relabelled(target), Actives # {}
               PROVE  Actives' \subseteq Actives
    OBVIOUS
  <2>1. pc \in Rotating \ {"delete"}
    BY DEF Rotating
  <2>2. \A p \in Actives : p = target
    BY <2>1, <1>a DEF ActivePlace
  <2>3. Actives' \subseteq Actives \cup {target}
    BY <2>1, <1>a, Labelled
  <2>4. QED
    BY <2>2, <2>3
<1>s. UNCHANGED cluster => Actives' = Actives
  BY DEF Actives, Live
<1>1. CASE RotateExhausted
  BY <1>s, <1>1 DEF RotateExhausted
<1>2. CASE RotateBegin
  BY <1>s, <1>2 DEF RotateBegin
<1>3. CASE DeleteActive
  BY Terminated, <1>3 DEF DeleteActive
<1>4. CASE DeleteFails
  BY <1>s, Terminated, <1>4 DEF DeleteFails
<1>5. CASE ReadPending
  BY <1>s, <1>5 DEF ReadPending
<1>6. CASE CreateActive
  BY <1>6, <1>e DEF CreateActive
<1>7. CASE CreateActiveFails
  BY <1>7, <1>e DEF CreateActiveFails
<1>8. CASE PatchWarm
  BY <1>r, <1>s, <1>8 DEF PatchWarm
<1>9. CASE PatchFails
  BY <1>r, <1>s, <1>9 DEF PatchFails
<1>10. CASE DropWarm
  BY <1>s, <1>10 DEF DropWarm
<1>11. CASE Commit
  BY <1>s, <1>11 DEF Commit
<1>12. CASE Replenish
  BY CreatedWarm, <1>12 DEF Replenish
<1>13. CASE ReplenishFails
  BY WarmNotCreated, <1>13 DEF ReplenishFails
<1>14. CASE Push
  BY <1>s, <1>14 DEF Push
<1>15. CASE WarmUpCreate
  BY CreatedWarm, <1>15 DEF WarmUpCreate
<1>16. CASE WarmUpFails
  BY WarmNotCreated, <1>16 DEF WarmUpFails
<1>17. CASE WarmUpPush
  BY <1>s, <1>17 DEF WarmUpPush
<1>18. CASE Tick
  BY <1>s, <1>18 DEF Tick
<1>19. CASE InjectImmediate
  BY <1>s, <1>19 DEF InjectImmediate
<1>20. CASE CaptureState
  BY <1>s, <1>20 DEF CaptureState
<1>21. CASE Restart
  BY <1>21 DEF Restart, Actives
<1>22. ASSUME NEW p \in Pods, PodGone(p) PROVE Actives' \subseteq Actives
  BY <1>22, Gone
<1>23. ASSUME NEW p \in Pods, Evict(p) PROVE Actives' \subseteq Actives
  BY <1>23, Terminated DEF Evict
<1>24. CASE UNCHANGED vars
  BY <1>24, <1>s DEF vars
<1>25. QED
  BY <1>1, <1>2, <1>3, <1>4, <1>5, <1>6, <1>7, <1>8, <1>9, <1>10, <1>11, <1>12,
     <1>13, <1>14, <1>15, <1>16, <1>17, <1>18, <1>19, <1>20, <1>21, <1>22, <1>23, <1>24
     DEF Next, RotationStep, WarmUpStep, Environment

\* The rotation implements the slot of PodSlot: every step of the controller,
\* of the warm-up task, of the cluster and every crash takes the free slot,
\* releases it, or leaves it alone.
THEOREM SlotRefined == ASSUME OneActiveAssumption PROVE Spec => SlotSpec
<1>1. Init => Slot!SlotInit
  BY DEF Init, Slot!SlotInit, Actives
<1>2. Inductive /\ Inductive' /\ AtMostOneActive /\ AtMostOneActive'
         /\ [Next]_vars => [Slot!SlotNext]_Actives
  <2> SUFFICES ASSUME Inductive, Inductive', AtMostOneActive, AtMostOneActive',
                      [Next]_vars
               PROVE  [Slot!SlotNext]_Actives
    OBVIOUS
  <2>1. Actives' \subseteq Actives \/ Actives = {}
    BY TakenWhenFree
  <2>4. Actives' \subseteq Pods
    BY DEF Inductive, TypeOK, Actives
  <2>5. CASE Actives = {}
    <3>1. CASE Actives' = {}
      BY <2>5, <3>1
    <3>2. CASE Actives' # {}
      <4>1. PICK p \in Pods : Actives' = {p}
        BY <2>4, <3>2 DEF AtMostOneActive
      <4>2. QED
        BY <2>5, <4>1 DEF Slot!SlotNext, Slot!Take
    <3>3. QED
      BY <3>1, <3>2
  <2>6. CASE Actives' \subseteq Actives /\ Actives # {}
    <3>1. Actives' = Actives \/ Actives' = {}
      BY <2>6 DEF AtMostOneActive
    <3>2. QED
      BY <2>6, <3>1 DEF Slot!SlotNext, Slot!Release
  <2>7. QED
    BY <2>1, <2>5, <2>6
<1>3. QED
  BY <1>1, <1>2, InductiveInvariant, OneActive, PTL
     DEF Spec, SlotSpec, Slot!SlotSpec
=============================================================================
