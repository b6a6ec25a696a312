--------------------------- MODULE FactStoreProofs ---------------------------
(***************************************************************************)
(* Theorems about FactStore, for every set of requests and payloads and    *)
(* every number of clients that leave, writes that fail and crashes.       *)
(***************************************************************************)
EXTENDS FactStore, TLAPS

-----------------------------------------------------------------------------
(* Types.                                                                  *)

\* The initial state has the types.
LEMMA TypeInit == Init => TypeOK
BY BoundsAssumption DEF Init, TypeOK, Writes, FileStates, Graph, EmptyGraph

\* Every step keeps them.
LEMMA TypeStep == TypeOK /\ [Next]_vars => TypeOK'
<1> SUFFICES ASSUME TypeOK, [Next]_vars
             PROVE  TypeOK'
  OBVIOUS
<1> USE BoundsAssumption, PayloadAssumption
<1> USE DEF TypeOK, Writes, Waiting, FileStates, Graph, handler, graph, store, budget
<1>1. ASSUME NEW r \in Requests, Submit(r) PROVE TypeOK'
  BY <1>1 DEF Submit, Answer
<1>2. ASSUME NEW r \in Requests, CannotStart(r) PROVE TypeOK'
  BY <1>2 DEF CannotStart, Answer
<1>3. ASSUME NEW r \in Requests, ChildExits(r) PROVE TypeOK'
  BY <1>3 DEF ChildExits
<1>4. ASSUME NEW r \in Requests, Verified(r) PROVE TypeOK'
  BY <1>4 DEF Verified, Answer
<1>5. ASSUME NEW r \in Requests, TimesOut(r) PROVE TypeOK'
  BY <1>5 DEF TimesOut, Answer, Orphaned
<1>6. ASSUME NEW r \in Requests, Log(r) PROVE TypeOK'
  BY <1>6 DEF Log, Save
<1>7. ASSUME NEW r \in Requests, Logged(r) PROVE TypeOK'
  BY <1>7 DEF Logged, Answer, Saved
<1>8. ASSUME NEW r \in Requests, CommitDuplicate(r) PROVE TypeOK'
  BY <1>8 DEF CommitDuplicate, Answer
<1>9. ASSUME NEW r \in Requests, Commit(r) PROVE TypeOK'
  BY <1>9 DEF Commit, Save
<1>10. ASSUME NEW r \in Requests, Committed(r) PROVE TypeOK'
  BY <1>10 DEF Committed, Answer, Saved
<1>11. ASSUME NEW r \in Requests, WriteOpens(r) PROVE TypeOK'
  BY <1>11 DEF WriteOpens, EmptyGraph
<1>12. ASSUME NEW r \in Requests, WriteEnds(r) PROVE TypeOK'
  BY <1>12 DEF WriteEnds, Overwrite, EmptyGraph
<1>13. ASSUME NEW r \in Requests, WriteFails(r) PROVE TypeOK'
  BY <1>13 DEF WriteFails, EmptyGraph
<1>14. ASSUME NEW r \in Requests, ClientGone(r) PROVE TypeOK'
  BY <1>14 DEF ClientGone, Saved, Orphaned
<1>15. CASE Crash
  <2>1. /\ pc' \in [Requests -> Waiting \cup {"idle", "done"}]
        /\ child' \in [Requests -> {"none", "running", "ended", "orphan"}]
        /\ up' \in BOOLEAN /\ lock' = None
    BY <1>15 DEF Crash, Orphaned
  <2>2. /\ write' = [r \in Requests |-> None]
        /\ attempts' = {} /\ facts' = {} /\ crashes' \in 0..MaxCrashes
        /\ UNCHANGED <<verdict, reply, store, cancels, saveFaults>>
    BY <1>15 DEF Crash
  <2>3. QED
    BY <2>1, <2>2
<1>16. CASE Start
  BY <1>16 DEF Start, Readable
<1>17. CASE UNCHANGED vars
  BY <1>17 DEF vars
<1>18. QED
  BY <1>1, <1>2, <1>3, <1>4, <1>5, <1>6, <1>7, <1>8, <1>9, <1>10, <1>11,
     <1>12, <1>13, <1>14, <1>15, <1>16, <1>17
     DEF Next, HandlerStep, WriteStep

-----------------------------------------------------------------------------
(* The lock.                                                               *)

\* Initially nobody holds it.
LEMMA LockInit == Init => LockWhileSaving
BY NoneAssumption DEF Init, LockWhileSaving

\* It is taken with the save, and released with it or with the request.
LEMMA LockStep == TypeOK /\ LockWhileSaving /\ [Next]_vars => LockWhileSaving'
<1> SUFFICES ASSUME TypeOK, LockWhileSaving, [Next]_vars
             PROVE  LockWhileSaving'
  OBVIOUS
<1>0. pc \in [Requests -> Waiting \cup {"idle", "done"}]
  BY DEF TypeOK
<1> USE <1>0, NoneAssumption DEF LockWhileSaving, Waiting, handler, graph, store, budget
<1>1. ASSUME NEW r \in Requests, Submit(r) PROVE LockWhileSaving'
  BY <1>1 DEF Submit, Answer
<1>2. ASSUME NEW r \in Requests, CannotStart(r) PROVE LockWhileSaving'
  BY <1>2 DEF CannotStart, Answer
<1>3. ASSUME NEW r \in Requests, ChildExits(r) PROVE LockWhileSaving'
  BY <1>3 DEF ChildExits
<1>4. ASSUME NEW r \in Requests, Verified(r) PROVE LockWhileSaving'
  BY <1>4 DEF Verified, Answer
<1>5. ASSUME NEW r \in Requests, TimesOut(r) PROVE LockWhileSaving'
  BY <1>5 DEF TimesOut, Answer, Orphaned
<1>6. ASSUME NEW r \in Requests, Log(r) PROVE LockWhileSaving'
  BY <1>6 DEF Log, Save
<1>7. ASSUME NEW r \in Requests, Logged(r) PROVE LockWhileSaving'
  BY <1>7 DEF Logged, Answer, Saved
<1>8. ASSUME NEW r \in Requests, CommitDuplicate(r) PROVE LockWhileSaving'
  BY <1>8 DEF CommitDuplicate, Answer
<1>9. ASSUME NEW r \in Requests, Commit(r) PROVE LockWhileSaving'
  BY <1>9 DEF Commit, Save
<1>10. ASSUME NEW r \in Requests, Committed(r) PROVE LockWhileSaving'
  BY <1>10 DEF Committed, Answer, Saved
<1>11. ASSUME NEW r \in Requests, WriteOpens(r) PROVE LockWhileSaving'
  BY <1>11 DEF WriteOpens
<1>12. ASSUME NEW r \in Requests, WriteEnds(r) PROVE LockWhileSaving'
  BY <1>12 DEF WriteEnds, Overwrite
<1>13. ASSUME NEW r \in Requests, WriteFails(r) PROVE LockWhileSaving'
  BY <1>13 DEF WriteFails
<1>14. ASSUME NEW r \in Requests, ClientGone(r) PROVE LockWhileSaving'
  BY <1>14 DEF ClientGone, Saved, Orphaned
<1>15. CASE Crash
  BY <1>15 DEF Crash, Orphaned
<1>16. CASE Start
  BY <1>16 DEF Start, Readable
<1>17. CASE UNCHANGED vars
  BY <1>17 DEF vars
<1>18. QED
  BY <1>1, <1>2, <1>3, <1>4, <1>5, <1>6, <1>7, <1>8, <1>9, <1>10, <1>11,
     <1>12, <1>13, <1>14, <1>15, <1>16, <1>17
     DEF Next, HandlerStep, WriteStep

-----------------------------------------------------------------------------
(* What a handler knows.                                                   *)

\* Initially no request has come.
LEMMA HandlersInit == Init => HandlersAgree
BY DEF Init, HandlersAgree, Waiting

\* The graph in memory only grows while handlers run, and a crash ends them all.
LEMMA HandlersStep ==
    TypeOK /\ LockWhileSaving /\ HandlersAgree /\ [Next]_vars => HandlersAgree'
<1> SUFFICES ASSUME TypeOK, LockWhileSaving, HandlersAgree, [Next]_vars
             PROVE  HandlersAgree'
  OBVIOUS
<1>0. /\ pc \in [Requests -> Waiting \cup {"idle", "done"}]
      /\ verdict \in [Requests -> {None, "success", "failure"}]
      /\ write \in [Requests -> Writes \cup {None}]
  BY DEF TypeOK
<1> USE <1>0, NoneAssumption DEF Writes, HandlersAgree, Waiting, handler, graph, store, budget
<1>1. ASSUME NEW r \in Requests, Submit(r) PROVE HandlersAgree'
  BY <1>1 DEF Submit, Answer
<1>2. ASSUME NEW r \in Requests, CannotStart(r) PROVE HandlersAgree'
  BY <1>2 DEF CannotStart, Answer
<1>3. ASSUME NEW r \in Requests, ChildExits(r) PROVE HandlersAgree'
  BY <1>3 DEF ChildExits
<1>4. ASSUME NEW r \in Requests, Verified(r) PROVE HandlersAgree'
  BY <1>4 DEF Verified, Answer
<1>5. ASSUME NEW r \in Requests, TimesOut(r) PROVE HandlersAgree'
  BY <1>5 DEF TimesOut, Answer, Orphaned
<1>6. ASSUME NEW r \in Requests, Log(r) PROVE HandlersAgree'
  BY <1>6 DEF Log, Save
<1>7. ASSUME NEW r \in Requests, Logged(r) PROVE HandlersAgree'
  BY <1>7 DEF Logged, Answer, Saved
<1>8. ASSUME NEW r \in Requests, CommitDuplicate(r) PROVE HandlersAgree'
  BY <1>8 DEF CommitDuplicate, Answer
<1>9. ASSUME NEW r \in Requests, Commit(r) PROVE HandlersAgree'
  BY <1>9 DEF Commit, Save
<1>10. ASSUME NEW r \in Requests, Committed(r) PROVE HandlersAgree'
  BY <1>10 DEF Committed, Answer, Saved
<1>11. ASSUME NEW r \in Requests, WriteOpens(r) PROVE HandlersAgree'
  BY <1>11 DEF WriteOpens
<1>12. ASSUME NEW r \in Requests, WriteEnds(r) PROVE HandlersAgree'
  BY <1>12 DEF WriteEnds, Overwrite
<1>13. ASSUME NEW r \in Requests, WriteFails(r) PROVE HandlersAgree'
  BY <1>13 DEF WriteFails
<1>14. ASSUME NEW r \in Requests, ClientGone(r) PROVE HandlersAgree'
  BY <1>14 DEF ClientGone, Saved, Orphaned
<1>15. CASE Crash
  BY <1>15 DEF Crash, Orphaned
<1>16. CASE Start
  BY <1>16 DEF Start, Readable
<1>17. CASE UNCHANGED vars
  BY <1>17 DEF vars
<1>18. QED
  BY <1>1, <1>2, <1>3, <1>4, <1>5, <1>6, <1>7, <1>8, <1>9, <1>10, <1>11,
     <1>12, <1>13, <1>14, <1>15, <1>16, <1>17
     DEF Next, HandlerStep, WriteStep

-----------------------------------------------------------------------------
(* Facts and attempts.                                                     *)

\* A verdict is given once: a success stays one.
LEMMA SuccessStays ==
    ASSUME TypeOK, HandlersAgree, [Next]_vars, NEW s \in Requests,
           verdict[s] = "success"
    PROVE  verdict'[s] = "success"
<1>1. verdict' = verdict \/ \E r \in Requests : Verified(r)
  BY DEF Next, HandlerStep, WriteStep, vars, handler, Submit, CannotStart,
     ChildExits, TimesOut, Log, Logged, CommitDuplicate, Commit, Committed,
     WriteOpens, WriteEnds, WriteFails, ClientGone, Crash, Start
<1>2. ASSUME NEW r \in Requests, Verified(r) PROVE verdict'[s] = "success"
  <2>1. r # s
    BY <1>2, NoneAssumption DEF Verified, HandlersAgree
  <2>2. QED
    BY <1>2, <2>1 DEF Verified, TypeOK
<1>3. QED
  BY <1>1, <1>2

\* Initially there are no facts.
LEMMA FoundedInit == Init => FactHasAttempt /\ WritesFounded
BY DEF Init, FactHasAttempt, WritesFounded, Founded, EmptyGraph

\* A fact enters the graph in memory when its attempt has been logged, and goes
\* to the file and back with it.
LEMMA FoundedStep ==
    TypeOK /\ HandlersAgree /\ FactHasAttempt /\ WritesFounded /\ [Next]_vars
        => FactHasAttempt' /\ WritesFounded'
<1> SUFFICES ASSUME TypeOK, HandlersAgree, FactHasAttempt, WritesFounded,
                    [Next]_vars
             PROVE  FactHasAttempt' /\ WritesFounded'
  OBVIOUS
<1> DEFINE Goal == FactHasAttempt' /\ WritesFounded'
<1>0. /\ write \in [Requests -> Writes \cup {None}] /\ disk \in Graph
      /\ attempts \subseteq Requests /\ facts \subseteq Payloads
  BY DEF TypeOK
<1>v. \A s \in Requests : verdict[s] = "success" => verdict'[s] = "success"
  BY SuccessStays
<1>f. /\ \A s \in Requests : pc[s] = "commit" =>
                s \in attempts /\ verdict[s] = "success"
  BY DEF HandlersAgree
<1> USE <1>0, <1>v
<1> USE DEF FactHasAttempt, WritesFounded, Founded, Writes, Graph, handler, graph, store, budget
<1>1. ASSUME NEW r \in Requests, Submit(r) PROVE Goal
  BY <1>1 DEF Submit, Answer
<1>2. ASSUME NEW r \in Requests, CannotStart(r) PROVE Goal
  BY <1>2 DEF CannotStart, Answer
<1>3. ASSUME NEW r \in Requests, ChildExits(r) PROVE Goal
  BY <1>3 DEF ChildExits
<1>4. ASSUME NEW r \in Requests, Verified(r) PROVE Goal
  BY <1>4 DEF Verified, Answer
<1>5. ASSUME NEW r \in Requests, TimesOut(r) PROVE Goal
  BY <1>5 DEF TimesOut, Answer, Orphaned
<1>6. ASSUME NEW r \in Requests, Log(r) PROVE Goal
  BY <1>6 DEF Log, Save
<1>7. ASSUME NEW r \in Requests, Logged(r) PROVE Goal
  BY <1>7 DEF Logged, Answer, Saved
<1>8. ASSUME NEW r \in Requests, CommitDuplicate(r) PROVE Goal
  BY <1>8 DEF CommitDuplicate, Answer
<1>9. ASSUME NEW r \in Requests, Commit(r) PROVE Goal
  BY <1>f, <1>9 DEF Commit, Save
<1>10. ASSUME NEW r \in Requests, Committed(r) PROVE Goal
  BY <1>10 DEF Committed, Answer, Saved
<1>11. ASSUME NEW r \in Requests, WriteOpens(r) PROVE Goal
  BY <1>11 DEF WriteOpens, EmptyGraph
<1>12. ASSUME NEW r \in Requests, WriteEnds(r) PROVE Goal
  BY <1>12 DEF WriteEnds, Overwrite, EmptyGraph
<1>13. ASSUME NEW r \in Requests, WriteFails(r) PROVE Goal
  BY <1>13 DEF WriteFails, EmptyGraph
<1>14. ASSUME NEW r \in Requests, ClientGone(r) PROVE Goal
  BY <1>14 DEF ClientGone, Saved, Orphaned
<1>15. CASE Crash
  BY <1>15 DEF Crash, Orphaned
<1>16. CASE Start
  BY <1>16 DEF Start, Readable
<1>17. CASE UNCHANGED vars
  BY <1>17 DEF vars
<1>18. QED
  BY <1>1, <1>2, <1>3, <1>4, <1>5, <1>6, <1>7, <1>8, <1>9, <1>10, <1>11,
     <1>12, <1>13, <1>14, <1>15, <1>16, <1>17
     DEF Next, HandlerStep, WriteStep

-----------------------------------------------------------------------------
(* The memory and the file.                                                *)

\* Clients that left and writes that failed are never forgotten.
LEMMA CalmBefore ==
    ASSUME TypeOK, [Next]_vars, cancels' = 0, saveFaults' = 0
    PROVE  cancels = 0 /\ saveFaults = 0
<1>1. /\ cancels' = cancels \/ cancels' = cancels + 1
      /\ saveFaults' = saveFaults \/ saveFaults' = saveFaults + 1
  BY DEF Next, HandlerStep, WriteStep, vars, budget, Submit, CannotStart,
     ChildExits, Verified, TimesOut, Log, Logged, CommitDuplicate, Commit,
     Committed, WriteOpens, WriteEnds, WriteFails, ClientGone, Crash, Start
<1>2. QED
  BY <1>1, BoundsAssumption DEF TypeOK

\* Initially memory and file are empty.
LEMMA StoreInit == Init => StoreAgrees
BY DEF Init, StoreAgrees, Awaited, Readable, EmptyGraph

\* A save begins when the lock was free, hence when no write was under way, and
\* nothing but its own stages happens to memory or file until it ends.
LEMMA StoreStep ==
    TypeOK /\ LockWhileSaving /\ HandlersAgree /\ StoreAgrees /\ [Next]_vars
        => StoreAgrees'
<1> SUFFICES ASSUME TypeOK, LockWhileSaving, HandlersAgree, StoreAgrees,
                    [Next]_vars, cancels' = 0, saveFaults' = 0
             PROVE  StoreAgrees'
  BY DEF StoreAgrees
<1>c. cancels = 0 /\ saveFaults = 0
  BY CalmBefore
<1>0. /\ write \in [Requests -> Writes \cup {None}] /\ disk \in Graph
      /\ pc \in [Requests -> Waiting \cup {"idle", "done"}]
      /\ attempts \subseteq Requests /\ facts \subseteq Payloads
      /\ lock \in Requests \cup {None}
  BY DEF TypeOK
<1>w. \A r \in Requests : Awaited(r) <=> lock = r
  BY DEF Awaited, LockWhileSaving
<1>l. lock = None => \A r \in Requests : write[r] = None
  BY <1>c, <1>w, NoneAssumption DEF StoreAgrees
<1>d. ~up => \A r \in Requests : pc[r] \notin Waiting /\ write[r] = None
  BY DEF HandlersAgree
<1> USE <1>c, <1>0, <1>l, <1>d, NoneAssumption, PayloadAssumption
<1> USE DEF StoreAgrees, Awaited, Readable, Within, Waiting, Writes, Graph,
        FileStates, handler, graph, store, budget
<1>1. ASSUME NEW r \in Requests, Submit(r) PROVE StoreAgrees'
  BY <1>1 DEF Submit, Answer
<1>2. ASSUME NEW r \in Requests, CannotStart(r) PROVE StoreAgrees'
  BY <1>2 DEF CannotStart, Answer
<1>3. ASSUME NEW r \in Requests, ChildExits(r) PROVE StoreAgrees'
  BY <1>3 DEF ChildExits
<1>4. ASSUME NEW r \in Requests, Verified(r) PROVE StoreAgrees'
  BY <1>4 DEF Verified, Answer
<1>5. ASSUME NEW r \in Requests, TimesOut(r) PROVE StoreAgrees'
  BY <1>5 DEF TimesOut, Answer, Orphaned
<1>6. ASSUME NEW r \in Requests, Log(r) PROVE StoreAgrees'
  BY <1>w, <1>6 DEF Log, Save
<1>7. ASSUME NEW r \in Requests, Logged(r) PROVE StoreAgrees'
  BY <1>w, <1>7 DEF Logged, Answer, Saved
<1>8. ASSUME NEW r \in Requests, CommitDuplicate(r) PROVE StoreAgrees'
  BY <1>8 DEF CommitDuplicate, Answer
<1>9. ASSUME NEW r \in Requests, Commit(r) PROVE StoreAgrees'
  BY <1>w, <1>9 DEF Commit, Save
<1>10. ASSUME NEW r \in Requests, Committed(r) PROVE StoreAgrees'
  BY <1>w, <1>10 DEF Committed, Answer, Saved
<1>11. ASSUME NEW r \in Requests, WriteOpens(r) PROVE StoreAgrees'
  BY <1>w, <1>11 DEF WriteOpens, EmptyGraph
<1>12. ASSUME NEW r \in Requests, WriteEnds(r) PROVE StoreAgrees'
  BY <1>w, <1>12 DEF WriteEnds, Overwrite, EmptyGraph
<1>13. ASSUME NEW r \in Requests, WriteFails(r) PROVE StoreAgrees'
  BY <1>13 DEF WriteFails, EmptyGraph
<1>14. ASSUME NEW r \in Requests, ClientGone(r) PROVE StoreAgrees'
  BY <1>14 DEF ClientGone
<1>15. CASE Crash
  BY <1>15 DEF Crash, Orphaned
<1>16. CASE Start
  BY <1>16 DEF Start, LockWhileSaving
<1>17. CASE UNCHANGED vars
  BY <1>17 DEF vars
<1>18. QED
  BY <1>1, <1>2, <1>3, <1>4, <1>5, <1>6, <1>7, <1>8, <1>9, <1>10, <1>11,
     <1>12, <1>13, <1>14, <1>15, <1>16, <1>17
     DEF Next, HandlerStep, WriteStep

\* Initially nobody has been told anything.
LEMMA ReportedInit == Init => ReportedIsKept
BY NoneAssumption DEF Init, ReportedIsKept

\* An answer is given when memory and file hold what it says; both only grow,
\* and a start reads the one from the other.
LEMMA ReportedStep ==
    TypeOK /\ HandlersAgree /\ StoreAgrees /\ ReportedIsKept /\ [Next]_vars
        => ReportedIsKept'
<1> SUFFICES ASSUME TypeOK, HandlersAgree, StoreAgrees, ReportedIsKept,
                    [Next]_vars, cancels' = 0, saveFaults' = 0
             PROVE  ReportedIsKept'
  BY DEF ReportedIsKept
<1>c. cancels = 0 /\ saveFaults = 0
  BY CalmBefore
<1>0. /\ write \in [Requests -> Writes \cup {None}] /\ disk \in Graph
      /\ pc \in [Requests -> Waiting \cup {"idle", "done"}]
      /\ reply \in [Requests -> {None, "error", "hash", "nohash"}]
  BY DEF TypeOK
<1>s. \A r \in Requests : write[r] # None =>
         /\ up
         /\ write[r].what = [attempts |-> attempts, facts |-> facts]
         /\ Saved(r) => Readable /\ disk = [attempts |-> attempts, facts |-> facts]
  BY <1>0, <1>c DEF StoreAgrees, Saved, Writes, HandlersAgree
<1>p. \A r \in Requests :
         /\ pc[r] = "logSave" => up /\ r \in attempts
         /\ pc[r] = "commit" => up /\ r \in attempts
         /\ pc[r] = "commitSave" => up /\ r \in attempts /\ PayloadOf[r] \in facts
  BY DEF HandlersAgree, Waiting
<1>d. up /\ lock = None =>
         Readable /\ disk = [attempts |-> attempts, facts |-> facts]
  BY <1>c DEF StoreAgrees
<1> USE <1>c, <1>0, NoneAssumption
<1> USE DEF ReportedIsKept, Readable, Writes, Graph, handler, graph, store, budget
<1>1. ASSUME NEW r \in Requests, Submit(r) PROVE ReportedIsKept'
  BY <1>1 DEF Submit, Answer
<1>2. ASSUME NEW r \in Requests, CannotStart(r) PROVE ReportedIsKept'
  BY <1>2 DEF CannotStart, Answer
<1>3. ASSUME NEW r \in Requests, ChildExits(r) PROVE ReportedIsKept'
  BY <1>3 DEF ChildExits
<1>4. ASSUME NEW r \in Requests, Verified(r) PROVE ReportedIsKept'
  BY <1>4 DEF Verified, Answer
<1>5. ASSUME NEW r \in Requests, TimesOut(r) PROVE ReportedIsKept'
  BY <1>5 DEF TimesOut, Answer, Orphaned
<1>6. ASSUME NEW r \in Requests, Log(r) PROVE ReportedIsKept'
  BY <1>6 DEF Log, Save
<1>7. ASSUME NEW r \in Requests, Logged(r) PROVE ReportedIsKept'
  <2>1. up /\ r \in attempts /\ Readable /\ r \in disk.attempts
    BY <1>s, <1>p, <1>7 DEF Logged, Saved
  <2>2. /\ reply' = reply \/ reply' = [reply EXCEPT ![r] = "nohash"]
        /\ UNCHANGED <<up, graph, store>>
    BY <1>7 DEF Logged, Answer
  <2>3. QED
    BY <2>1, <2>2
<1>8. ASSUME NEW r \in Requests, CommitDuplicate(r) PROVE ReportedIsKept'
  BY <1>d, <1>p, <1>8 DEF CommitDuplicate, Answer
<1>9. ASSUME NEW r \in Requests, Commit(r) PROVE ReportedIsKept'
  BY <1>9 DEF Commit, Save
<1>10. ASSUME NEW r \in Requests, Committed(r) PROVE ReportedIsKept'
  <2>1. /\ up /\ r \in attempts /\ PayloadOf[r] \in facts
        /\ Readable /\ r \in disk.attempts /\ PayloadOf[r] \in disk.facts
    BY <1>s, <1>p, <1>10 DEF Committed, Saved
  <2>2. /\ \E a \in {"hash", "nohash"} : reply' = [reply EXCEPT ![r] = a]
        /\ UNCHANGED <<up, graph, store>>
    BY <1>10 DEF Committed, Answer
  <2>3. QED
    BY <2>1, <2>2
<1>11. ASSUME NEW r \in Requests, WriteOpens(r) PROVE ReportedIsKept'
  BY <1>11 DEF WriteOpens, EmptyGraph
<1>12. ASSUME NEW r \in Requests, WriteEnds(r) PROVE ReportedIsKept'
  BY <1>s, <1>12 DEF WriteEnds, Overwrite, EmptyGraph
<1>13. ASSUME NEW r \in Requests, WriteFails(r) PROVE ReportedIsKept'
  BY <1>13 DEF WriteFails, EmptyGraph
<1>14. ASSUME NEW r \in Requests, ClientGone(r) PROVE ReportedIsKept'
  BY <1>14 DEF ClientGone
<1>15. CASE Crash
  BY <1>15 DEF Crash, Orphaned
<1>16. CASE Start
  BY <1>16 DEF Start
<1>17. CASE UNCHANGED vars
  BY <1>17 DEF vars
<1>18. QED
  BY <1>1, <1>2, <1>3, <1>4, <1>5, <1>6, <1>7, <1>8, <1>9, <1>10, <1>11,
     <1>12, <1>13, <1>14, <1>15, <1>16, <1>17
     DEF Next, HandlerStep, WriteStep

-----------------------------------------------------------------------------
(* The theorems.                                                           *)

\* What every step of the daemon preserves: the lock is with whoever saves, what
\* a handler relies on is there, no graph holds a fact without its attempt, and
\* memory and file agree as long as nobody leaves and no write fails.
THEOREM InductiveInvariant == Spec => []Inductive
<1>1. Init => Inductive
  BY TypeInit, LockInit, HandlersInit, FoundedInit, StoreInit, ReportedInit
     DEF Inductive
<1>2. Inductive /\ [Next]_vars => Inductive'
  BY TypeStep, LockStep, HandlersStep, FoundedStep, StoreStep, ReportedStep
     DEF Inductive
<1>3. QED
  BY <1>1, <1>2, PTL DEF Spec

\* Type correctness: every variable of the endpoint keeps to the values the code
\* can give it.
THEOREM TypeCorrect == Spec => []TypeOK
<1>1. Inductive => TypeOK
  BY DEF Inductive
<1>2. QED
  BY <1>1, InductiveInvariant, PTL

\* The fact graph's lock is held exactly while its owner waits for a save: a
\* client that leaves inside a critical section, a failed write and a crash all
\* release it, and nobody else ever has it meanwhile.
THEOREM LockKept == Spec => []LockWhileSaving
<1>1. Inductive => LockWhileSaving
  BY DEF Inductive
<1>2. QED
  BY <1>1, InductiveInvariant, PTL

\* Neither in memory nor in the file is there ever a fact without a successful
\* attempt of its own, whoever leaves, whatever fails, and across crashes.
THEOREM FactsFounded == Spec => []FactHasAttempt
<1>1. Inductive => FactHasAttempt
  BY DEF Inductive
<1>2. QED
  BY <1>1, InductiveInvariant, PTL

\* While no client has left and no write has failed, the file is the graph in
\* memory whenever no write is under way, and never holds more than it.
THEOREM FileFollows == Spec => []FileFollowsMemory
<1>1. Inductive => FileFollowsMemory
  <2> SUFFICES ASSUME Inductive, cancels = 0, saveFaults = 0
               PROVE  /\ Quiet => /\ Readable
                                  /\ disk = [attempts |-> attempts, facts |-> facts]
                      /\ up => Within(disk, [attempts |-> attempts, facts |-> facts])
    BY DEF FileFollowsMemory
  <2> DEFINE memory == [attempts |-> attempts, facts |-> facts]
  <2>1. /\ TypeOK /\ LockWhileSaving /\ StoreAgrees
    BY DEF Inductive
  <2>2. CASE lock = None
    BY <2>1, <2>2 DEF StoreAgrees, Quiet, Within
  <2>3. CASE lock \in Requests
    <3>1. write[lock] # None
      BY <2>1, <2>3 DEF LockWhileSaving, StoreAgrees, Awaited
    <3>2. write[lock].stage \in {"queued", "open", "stored"}
      BY <2>1, <2>3, <3>1 DEF StoreAgrees, TypeOK, Writes
    <3>3. /\ write[lock].what = memory
          /\ write[lock].stage = "queued" => Within(disk, memory)
          /\ write[lock].stage = "open" => disk = EmptyGraph
          /\ write[lock].stage = "stored" => Readable /\ disk = memory
      BY <2>1, <2>3, <3>1 DEF StoreAgrees
    <3>4. Within(disk, memory)
      BY <3>2, <3>3 DEF Within, EmptyGraph
    <3>5. Quiet => write[lock].stage = "stored"
      BY <2>3, <3>1, <3>2 DEF Quiet, Underway
    <3>6. QED
      BY <3>3, <3>4, <3>5
  <2>4. QED
    BY <2>1, <2>2, <2>3 DEF TypeOK
<1>2. QED
  BY <1>1, InductiveInvariant, PTL

\* While no client has left and no write has failed, every answer is found by
\* every query that answers at all, from the daemon or from its file.
THEOREM ReportedListed == Spec => []ReportedIsListed
<1>1. Inductive => ReportedIsListed
  BY DEF Inductive, ReportedIsKept, ReportedIsListed, Listings
<1>2. QED
  BY <1>1, InductiveInvariant, PTL
=============================================================================
