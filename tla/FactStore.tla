------------------------------ MODULE FactStore ------------------------------
(***************************************************************************)
(* POST /api/v1/verify: the handler of src/src/api.rs, the processes that  *)
(* src/src/verify.rs starts for it, and the fact graph of                  *)
(* src/src/fact_graph.rs with its file.                                    *)
(*                                                                         *)
(* A request runs through two critical sections of the fact graph's lock,  *)
(* log_attempt and commit_fact.  Each changes the graph in memory and then *)
(* saves all of it, and the lock is held across the await of the save.     *)
(* tokio::fs::write hands the bytes to the blocking pool: the write goes   *)
(* on when the request that awaits it is dropped, which happens when its   *)
(* client goes away.  A write first truncates the file.                    *)
(*                                                                         *)
(* An operator marked "Defect" is a variant no action uses: the operator   *)
(* below it with a mistake in it, which some property must notice.         *)
(***************************************************************************)
EXTENDS Integers, FiniteSets

CONSTANTS
    Requests,     \* the requests clients send, each once
    Payloads,     \* what they ask to verify, identified by its hash
    PayloadOf,    \* the payload of each request
    None,
    MaxCancels,   \* bound: clients that go away before the answer
    MaxSaveFaults,\* bound: writes of the file that fail
    MaxCrashes    \* bound: crashes of the daemon

ASSUME PayloadAssumption == PayloadOf \in [Requests -> Payloads]
ASSUME BoundsAssumption ==
    MaxCancels \in Nat /\ MaxSaveFaults \in Nat /\ MaxCrashes \in Nat

VARIABLES
    up,        \* the daemon runs
    pc,        \* where the handler of each request is
    verdict,   \* what verify() returned for it
    reply,     \* what its client was told
    child,     \* the process verify() started for it
    lock,      \* the writer of the RwLock around the fact graph
    attempts,  \* FactGraph::attempts, by request
    facts,     \* FactGraph::nodes, by payload
    file,      \* the state of the file, and
    disk,      \* what it holds when it is whole
    write,     \* the write to the file each request has caused
    cancels, saveFaults, crashes

handler == <<pc, verdict, reply>>
graph == <<attempts, facts>>
budget == <<cancels, saveFaults, crashes>>
store == <<file, disk>>
vars == <<up, handler, child, lock, graph, store, write, budget>>

Graph == [attempts : SUBSET Requests, facts : SUBSET Payloads]
EmptyGraph == [attempts |-> {}, facts |-> {}]

\* A write of the file: what it writes, and how far it is.
Writes == [what : Graph, stage : {"queued", "open", "stored", "failed"}]

ASSUME NoneAssumption ==
    /\ None \notin Requests \cup {"success", "failure", "error", "hash", "nohash"}
    /\ None \notin Writes

\* A file can also be truncated and not written yet, or garbled by a write that
\* failed half-way or by two that overlapped: serde_json accepts neither.
FileStates == {"whole", "truncated", "garbled"}
Readable == file = "whole"

Waiting == {"verifying", "log", "logSave", "commit", "commitSave"}

\* Everything the first graph holds is in the second: its JSON is no longer.
Within(g, h) == g.attempts \subseteq h.attempts /\ g.facts \subseteq h.facts

-----------------------------------------------------------------------------
(* main() with no file yet.                                                *)

Init ==
    /\ up = TRUE
    /\ pc = [r \in Requests |-> "idle"]
    /\ verdict = [r \in Requests |-> None]
    /\ reply = [r \in Requests |-> None]
    /\ child = [r \in Requests |-> "none"]
    /\ lock = None
    /\ attempts = {} /\ facts = {}
    /\ file = "whole" /\ disk = EmptyGraph
    /\ write = [r \in Requests |-> None]
    /\ cancels = 0 /\ saveFaults = 0 /\ crashes = 0

\* The answer, with which the handler ends.
Answer(r, what) ==
    /\ pc' = [pc EXCEPT ![r] = "done"]
    /\ reply' = [reply EXCEPT ![r] = what]

-----------------------------------------------------------------------------
(* verify(): a process per request, under a timeout.                       *)

\* An unknown backend is rejected; otherwise the process is started.
Submit(r) ==
    /\ up /\ pc[r] = "idle"
    /\ \/ /\ Answer(r, "error")
          /\ UNCHANGED child
       \/ /\ pc' = [pc EXCEPT ![r] = "verifying"]
          /\ child' = [child EXCEPT ![r] = "running"]
          /\ UNCHANGED reply
    /\ UNCHANGED <<up, verdict, lock, graph, store, write, budget>>

\* No scratch file, no binary, an unsupported language: `?`.
CannotStart(r) ==
    /\ up /\ pc[r] = "idle"
    /\ Answer(r, "error")
    /\ UNCHANGED <<up, verdict, child, lock, graph, store, write, budget>>

\* The process ends by itself.
ChildExits(r) ==
    /\ child[r] = "running"
    /\ child' = [child EXCEPT ![r] = "ended"]
    /\ UNCHANGED <<up, handler, lock, graph, store, write, budget>>

\* Defect: a success is committed right away, and logged never.
VerifiedCommitFirst(r) ==
    /\ pc[r] = "verifying" /\ child[r] = "ended"
    /\ \/ /\ \E v \in {"success", "failure"} :
                /\ verdict' = [verdict EXCEPT ![r] = v]
                /\ pc' = [pc EXCEPT ![r] = IF v = "success" THEN "commit" ELSE "log"]
          /\ UNCHANGED reply
       \/ /\ Answer(r, "error")
          /\ UNCHANGED verdict
    /\ UNCHANGED <<up, child, lock, graph, store, write, budget>>

\* The result is read; output that is not UTF-8 is an error.
Verified(r) ==
    /\ pc[r] = "verifying" /\ child[r] = "ended"
    /\ \/ /\ \E v \in {"success", "failure"} :
                verdict' = [verdict EXCEPT ![r] = v]
          /\ pc' = [pc EXCEPT ![r] = "log"]
          /\ UNCHANGED reply
       \/ /\ Answer(r, "error")
          /\ UNCHANGED verdict
    /\ UNCHANGED <<up, child, lock, graph, store, write, budget>>

\* Whoever waited for a running process no longer does.  Without kill_on_drop
\* it runs on, and nobody learns of its end.
Orphaned(c) == IF c = "running" THEN "orphan" ELSE c

\* The timeout drops the future of output(), and the `?` skips the log.
TimesOut(r) ==
    /\ pc[r] = "verifying" /\ child[r] = "running"
    /\ Answer(r, "error")
    /\ child' = [child EXCEPT ![r] = Orphaned(@)]
    /\ UNCHANGED <<up, verdict, lock, graph, store, write, budget>>

-----------------------------------------------------------------------------
(* The two critical sections.                                              *)

\* Defect: the graph is serialised before the change.
SaveStale(r) ==
    write' = [write EXCEPT ![r] = [what |-> [attempts |-> attempts,
                                             facts |-> facts],
                                   stage |-> "queued"]]

\* save_fact_graph: the graph as it is now goes to the blocking pool.
Save(r) ==
    write' = [write EXCEPT ![r] = [what |-> [attempts |-> attempts',
                                             facts |-> facts'],
                                   stage |-> "queued"]]

Saved(r) == write[r] # None /\ write[r].stage \in {"stored", "failed"}

\* Defect: attempts are kept by the hash of their payload, as facts are.
LogByHash(r) ==
    /\ pc[r] = "log" /\ lock = None
    /\ lock' = r
    /\ attempts' = attempts \cup {PayloadOf[r]}
    /\ UNCHANGED facts
    /\ Save(r)
    /\ pc' = [pc EXCEPT ![r] = "logSave"]
    /\ UNCHANGED <<up, verdict, reply, child, store, budget>>

Log(r) ==
    /\ pc[r] = "log" /\ lock = None
    /\ lock' = r
    /\ attempts' = attempts \cup {r}
    /\ UNCHANGED facts
    /\ Save(r)
    /\ pc' = [pc EXCEPT ![r] = "logSave"]
    /\ UNCHANGED <<up, verdict, reply, child, store, budget>>

\* A failure to log is only reported in the daemon's own log.
Logged(r) ==
    /\ pc[r] = "logSave" /\ Saved(r)
    /\ lock' = None
    /\ write' = [write EXCEPT ![r] = None]
    /\ \/ /\ verdict[r] = "success"
          /\ pc' = [pc EXCEPT ![r] = "commit"]
          /\ UNCHANGED reply
       \/ /\ verdict[r] = "failure"
          /\ Answer(r, "nohash")
    /\ UNCHANGED <<up, verdict, child, graph, store, budget>>

\* commit_fact of a payload the graph already has: Ok(None), and its hash.
CommitDuplicate(r) ==
    /\ pc[r] = "commit" /\ lock = None
    /\ PayloadOf[r] \in facts
    /\ Answer(r, "hash")
    /\ UNCHANGED <<up, verdict, child, lock, graph, store, write, budget>>

\* commit_fact of a new one: in memory first, and then in the file.
Commit(r) ==
    /\ pc[r] = "commit" /\ lock = None
    /\ PayloadOf[r] \notin facts
    /\ lock' = r
    /\ facts' = facts \cup {PayloadOf[r]}
    /\ UNCHANGED attempts
    /\ Save(r)
    /\ pc' = [pc EXCEPT ![r] = "commitSave"]
    /\ UNCHANGED <<up, verdict, reply, child, store, budget>>

\* When the save failed there is no hash in the answer, but the fact stays.
Committed(r) ==
    /\ pc[r] = "commitSave" /\ Saved(r)
    /\ lock' = None
    /\ Answer(r, IF write[r].stage = "stored" THEN "hash" ELSE "nohash")
    /\ write' = [write EXCEPT ![r] = None]
    /\ UNCHANGED <<up, verdict, child, graph, store, budget>>

-----------------------------------------------------------------------------
(* The blocking pool: std::fs::write opens and truncates, writes, closes.  *)

Awaited(r) == pc[r] \in {"logSave", "commitSave"}

WriteOpens(r) ==
    /\ up /\ write[r] # None /\ write[r].stage = "queued"
    /\ write' = [write EXCEPT ![r].stage = "open"]
    /\ file' = "truncated" /\ disk' = EmptyGraph
    /\ UNCHANGED <<up, handler, child, lock, graph, budget>>

\* What this write leaves in the file.  If another one has stored more since
\* the file was opened, its tail stays behind the shorter text.
Overwrite(what) ==
    \/ /\ file = "whole" => Within(disk, what)
       /\ file' = "whole" /\ disk' = what
    \/ /\ file = "garbled" \/ (file = "whole" /\ ~Within(disk, what))
       /\ file' = "garbled" /\ disk' = EmptyGraph

WriteEnds(r) ==
    /\ up /\ write[r] # None /\ write[r].stage = "open"
    /\ Overwrite(write[r].what)
    /\ write' = [write EXCEPT ![r] = IF Awaited(r)
                                     THEN [@ EXCEPT !.stage = "stored"]
                                     ELSE None]
    /\ UNCHANGED <<up, handler, child, lock, graph, budget>>

\* The file cannot be opened, or the disk is full half-way.
WriteFails(r) ==
    /\ up /\ write[r] # None /\ write[r].stage \in {"queued", "open"}
    /\ saveFaults < MaxSaveFaults
    /\ saveFaults' = saveFaults + 1
    /\ IF write[r].stage = "queued"
       THEN UNCHANGED store
       ELSE file' = "garbled" /\ disk' = EmptyGraph
    /\ write' = [write EXCEPT ![r] = IF Awaited(r)
                                     THEN [@ EXCEPT !.stage = "failed"]
                                     ELSE None]
    /\ UNCHANGED <<up, handler, child, lock, graph, cancels, crashes>>

-----------------------------------------------------------------------------
(* Failures.                                                               *)

\* Defect: the guard outlives the request.
ClientGoneKeepsLock(r) ==
    /\ pc[r] \in Waiting
    /\ cancels < MaxCancels
    /\ cancels' = cancels + 1
    /\ pc' = [pc EXCEPT ![r] = "done"]
    /\ child' = [child EXCEPT ![r] = Orphaned(@)]
    /\ UNCHANGED <<up, verdict, reply, lock, graph, store, write, saveFaults,
                   crashes>>

\* The client goes away (the shim waits 10 s, the CLI 5 s) and the handler is
\* dropped where it awaits: the guard is released, a write goes on unawaited,
\* and so does the process.
ClientGone(r) ==
    /\ pc[r] \in Waiting
    /\ cancels < MaxCancels
    /\ cancels' = cancels + 1
    /\ pc' = [pc EXCEPT ![r] = "done"]
    /\ lock' = IF lock = r THEN None ELSE lock
    /\ write' = IF Saved(r) THEN [write EXCEPT ![r] = None] ELSE write
    /\ child' = [child EXCEPT ![r] = Orphaned(@)]
    /\ UNCHANGED <<up, verdict, reply, graph, store, saveFaults, crashes>>

\* The daemon dies, and its writes with it.  The processes it started do not.
Crash ==
    /\ up
    /\ crashes < MaxCrashes
    /\ crashes' = crashes + 1
    /\ up' = FALSE
    /\ pc' = [r \in Requests |-> IF pc[r] \in Waiting THEN "done" ELSE pc[r]]
    /\ lock' = None
    /\ attempts' = {} /\ facts' = {}
    /\ write' = [r \in Requests |-> None]
    /\ child' = [r \in Requests |-> Orphaned(child[r])]
    /\ UNCHANGED <<verdict, reply, store, cancels, saveFaults>>

\* Defect: a file that cannot be parsed counts as a file that is not there.
StartOrEmpty ==
    /\ ~up
    /\ up' = TRUE
    /\ attempts' = disk.attempts
    /\ facts' = disk.facts
    /\ UNCHANGED <<handler, child, lock, store, write, budget>>

\* load_fact_graph: a file serde_json does not accept ends main() with `?`.
Start ==
    /\ ~up
    /\ Readable
    /\ up' = TRUE
    /\ attempts' = disk.attempts
    /\ facts' = disk.facts
    /\ UNCHANGED <<handler, child, lock, store, write, budget>>

-----------------------------------------------------------------------------
\* What query-facts, list-history and search may look through: the memory of a
\* daemon whose lock is free, or, on anything but a success in 5 s, the file.
Listings ==
    (IF up /\ lock = None THEN {[attempts |-> attempts, facts |-> facts]} ELSE {})
    \cup (IF Readable THEN {disk} ELSE {})

-----------------------------------------------------------------------------
HandlerStep(r) ==
    \/ Verified(r) \/ TimesOut(r)
    \/ Log(r) \/ Logged(r)
    \/ CommitDuplicate(r) \/ Commit(r) \/ Committed(r)

WriteStep(r) == WriteOpens(r) \/ WriteEnds(r) \/ WriteFails(r)

Next ==
    \/ \E r \in Requests :
          \/ Submit(r) \/ CannotStart(r) \/ ChildExits(r)
          \/ HandlerStep(r) \/ WriteStep(r) \/ ClientGone(r)
    \/ Crash \/ Start

Spec == Init /\ [][Next]_vars

\* tokio runs every handler that is ready, its RwLock is fair, and the
\* blocking pool gets to every write.  A process need not ever end, and no
\* client need send a request.
FairSpec ==
    /\ Spec
    /\ \A r \in Requests : SF_vars(HandlerStep(r)) /\ WF_vars(WriteStep(r))

-----------------------------------------------------------------------------
(* Properties.                                                             *)

TypeOK ==
    /\ up \in BOOLEAN
    /\ pc \in [Requests -> Waiting \cup {"idle", "done"}]
    /\ verdict \in [Requests -> {None, "success", "failure"}]
    /\ reply \in [Requests -> {None, "error", "hash", "nohash"}]
    /\ child \in [Requests -> {"none", "running", "ended", "orphan"}]
    /\ lock \in Requests \cup {None}
    /\ attempts \subseteq Requests /\ facts \subseteq Payloads
    /\ file \in FileStates /\ disk \in Graph
    /\ write \in [Requests -> Writes \cup {None}]
    /\ cancels \in 0..MaxCancels /\ saveFaults \in 0..MaxSaveFaults
    /\ crashes \in 0..MaxCrashes

\* Every fact stands on a logged attempt that succeeded.
Founded(as, fs) ==
    \A f \in fs : \E r \in as : PayloadOf[r] = f /\ verdict[r] = "success"

\* In memory and in the file, a fact never comes without the attempt that
\* established it: not when a client leaves between the two critical sections,
\* not when a save fails, not after a crash.  api_verify logs first, and every
\* save writes both.
FactHasAttempt ==
    /\ Founded(attempts, facts)
    /\ Founded(disk.attempts, disk.facts)

\* The lock is held exactly while its owner waits for a save, whoever leaves.
LockWhileSaving ==
    \A r \in Requests : lock = r <=> pc[r] \in {"logSave", "commitSave"}

Underway(r) == write[r] # None /\ write[r].stage \in {"queued", "open"}
Quiet == up /\ \A r \in Requests : ~Underway(r)

\* As long as no client has left and no write has failed, the file is exactly
\* the graph in memory whenever no write is under way, across crashes, and it
\* never holds more.
FileFollowsMemory ==
    cancels = 0 /\ saveFaults = 0 =>
        /\ Quiet => Readable /\ disk = [attempts |-> attempts, facts |-> facts]
        /\ up => Within(disk, [attempts |-> attempts, facts |-> facts])

\* Without failed writes and clients that leave, what a client was told is what
\* every query finds, whoever answers it and whenever: the attempt behind every
\* verdict, and the fact behind every hash, a duplicate's included.  The file may
\* be unreadable, but it is never behind.
ReportedIsListed ==
    cancels = 0 /\ saveFaults = 0 =>
        \A r \in Requests, g \in Listings :
            /\ reply[r] \in {"hash", "nohash"} => r \in g.attempts
            /\ reply[r] = "hash" => PayloadOf[r] \in g.facts

\* Every request that is being handled is answered in the end, or its client
\* has left, so that a time comes when none waits: clients that leave inside a
\* critical section, failed writes and crashes block nobody.
Answered == []<>(\A r \in Requests : pc[r] \notin Waiting)

-----------------------------------------------------------------------------
(* The inductive invariant behind them (FactStoreProofs.tla).              *)

\* A verdict is given once, before the attempt is logged; and what the commit
\* relies on is there: the logged attempt, and that it succeeded.
HandlersAgree ==
    /\ \A r \in Requests :
          /\ pc[r] \in {"idle", "verifying"} => verdict[r] = None
          /\ pc[r] \in {"logSave", "commit", "commitSave"} => r \in attempts
          /\ pc[r] \in {"commit", "commitSave"} => verdict[r] = "success"
          /\ pc[r] = "commitSave" => PayloadOf[r] \in facts
    /\ ~up => \A r \in Requests : pc[r] \notin Waiting /\ write[r] = None

\* Nor does a graph on its way to the file hold a fact without its attempt.
WritesFounded ==
    \A r \in Requests : write[r] # None =>
        Founded(write[r].what.attempts, write[r].what.facts)

\* Without failed writes and clients that leave, the one write there can be
\* carries the graph in memory, and the file is what its stage says.
StoreAgrees ==
    cancels = 0 /\ saveFaults = 0 =>
        /\ \A r \in Requests :
              /\ Awaited(r) <=> write[r] # None
              /\ write[r] # None =>
                    /\ write[r].what = [attempts |-> attempts, facts |-> facts]
                    /\ write[r].stage # "failed"
                    /\ write[r].stage = "queued" => Readable /\ Within(disk, write[r].what)
                    /\ write[r].stage = "open" => file = "truncated" /\ disk = EmptyGraph
                    /\ write[r].stage = "stored" => Readable /\ disk = write[r].what
        /\ up /\ lock = None =>
              Readable /\ disk = [attempts |-> attempts, facts |-> facts]

\* And what a client was told is in memory and in the file, if there are any.
ReportedIsKept ==
    cancels = 0 /\ saveFaults = 0 =>
        \A r \in Requests :
            /\ reply[r] \in {"hash", "nohash"} =>
                  (up => r \in attempts) /\ (Readable => r \in disk.attempts)
            /\ reply[r] = "hash" =>
                  /\ up => PayloadOf[r] \in facts
                  /\ Readable => PayloadOf[r] \in disk.facts

\* Together they are preserved by every step.
Inductive ==
    /\ TypeOK /\ LockWhileSaving /\ HandlersAgree
    /\ FactHasAttempt /\ WritesFounded
    /\ StoreAgrees /\ ReportedIsKept

-----------------------------------------------------------------------------
(* What the documentation says and the code does not do.                   *)

\* README.md:33, "permanently commits correct facts": even when clients leave, a
\* fact whose hash was reported is in the file.
FactsArePermanent ==
    Quiet => \A r \in Requests :
                 reply[r] = "hash" => Readable /\ PayloadOf[r] \in disk.facts
=============================================================================
