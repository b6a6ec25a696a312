----------------------------- MODULE LedgerStore -----------------------------
(***************************************************************************)
(* The ledger of ground vectors, src/src/ledger.rs, and everybody who      *)
(* writes its file: the handlers of src/src/api.rs, under the lock of the  *)
(* daemon's copy; main(), which adds the vectors of the command line at    *)
(* every start; and the subcommands add-vector and neutralize of           *)
(* src/src/main.rs, which ask the daemon and, on anything but a success in *)
(* 5 s, load the file, change it and write it back themselves.             *)
(*                                                                         *)
(* A ledger is the set of the changes made to it.  Nothing is ever taken   *)
(* out of one, so that of two ledgers the larger has the longer JSON.      *)
(* tokio::fs::write first truncates the file, and goes on when the handler *)
(* that awaits it is dropped.                                              *)
(*                                                                         *)
(* An operator marked "Defect" is a variant no action uses: the operator   *)
(* below it with a mistake in it, which some property must notice.         *)
(***************************************************************************)
EXTENDS Integers

CONSTANTS
    Commands,      \* runs of add-vector and of neutralize
    Adds,          \* those of add-vector, and of these
    Immediate,     \* the ones with the immediate policy
    Main,          \* main(), as the author of a vector
    StartVector,   \* is the daemon started with a --ground-vector?
    None,
    MaxStarts,     \* bound: starts of the daemon
    MaxTimeouts,   \* bound: commands that do not wait for the answer
    MaxSaveFaults  \* bound: writes of the file that fail

ASSUME AuthorsAssumption ==
    /\ Immediate \subseteq Adds /\ Adds \subseteq Commands
    /\ Main \notin Commands /\ None \notin Commands
ASSUME StartAssumption == StartVector \in BOOLEAN
ASSUME BoundsAssumption ==
    MaxStarts \in Nat /\ MaxTimeouts \in Nat /\ MaxSaveFaults \in Nat

\* A vector is known by its author and a number: a command adds number 0 through
\* the daemon and number 1 by itself, main() numbers its starts.  The two ways
\* of a command, and main(), are also the writers of the file.
ByDaemon(c) == <<c, 0>>
ByHand(c) == <<c, 1>>
AtStart == <<Main, 0>>
Vectors == (Adds \X {0, 1}) \cup ({Main} \X (1..MaxStarts))
Writers == (Commands \X {0, 1}) \cup {AtStart}

Changes == {"add", "neutralize"} \X Vectors
\* A write of the file: what it writes, and how far it is.
Writes == [what : SUBSET Changes, stage : {"queued", "open", "stored", "failed"}]
ASSUME NoneAssumption ==
    None \notin Vectors /\ None \notin Writes /\ None \notin {"ok", "error", "daemon", "disk"}

Added(l) == {x[2] : x \in {y \in l : y[1] = "add"}}

VARIABLES
    daemon,    \* main(): down, starting, or serving the API
    mem,       \* AppState::ledger
    lock,      \* the handler that holds its RwLock for writing
    handler,   \* where the handler of each command is
    reply,     \* what it answered
    client,    \* where each command is
    bad,       \* the authors whose weight is NaN or inf: it is saved as null
    target,    \* the vector a neutralize command names
    told,      \* what the command reported
    notified,  \* the commands whose handler called notify_one()
    file,      \* the state of the file, and
    disk,      \* what it holds when it is whole
    write,     \* the write of each writer
    listened,  \* history: the starts that came to serve
    shared,    \* history: two have worked on the file at a time
    starts, timeouts, saveFaults

memory == <<mem, lock, handler, reply, notified>>
command == <<client, target, told, bad>>
store == <<file, disk>>
past == <<listened, shared>>
budget == <<starts, timeouts, saveFaults>>
vars == <<daemon, memory, command, store, write, past, budget>>

Serving == {"locking", "saving"}

\* serde_json reads neither half a file nor null for a weight.
Readable == file = "whole" /\ \A v \in Added(disk) : v[1] \notin bad

Init ==
    /\ daemon = "down" /\ mem = {} /\ lock = None
    /\ handler = [c \in Commands |-> "none"]
    /\ reply = [c \in Commands |-> None]
    /\ client = [c \in Commands |-> "idle"]
    /\ target = [c \in Commands |-> None]
    /\ told = [c \in Commands |-> None]
    /\ bad \in SUBSET (Adds \cup {Main})
    /\ notified = {}
    /\ file = "whole" /\ disk = {}
    /\ write = [w \in Writers |-> None]
    /\ listened = {} /\ shared = FALSE
    /\ starts = 0 /\ timeouts = 0 /\ saveFaults = 0

Queued(w, ledger) ==
    write' = [write EXCEPT ![w] = [what |-> ledger, stage |-> "queued"]]
Saved(w) == write[w] # None /\ write[w].stage \in {"stored", "failed"}
Stored(w) == write[w].stage = "stored"

\* The commands that are between their load and the end of their save.
ByHandNow == {c \in Commands : client[c] = "writing"}

-----------------------------------------------------------------------------
(* The daemon.                                                             *)

\* main() loads the file, adds its vectors, and saves only if there are any.
\* A file it cannot load ends it.
Start ==
    /\ daemon = "down" /\ starts < MaxStarts
    /\ Readable
    /\ starts' = starts + 1
    /\ daemon' = "starting"
    /\ IF StartVector
       THEN /\ mem' = disk \cup {<<"add", <<Main, starts + 1>>>>}
            /\ Queued(AtStart, mem')
       ELSE /\ mem' = disk
            /\ UNCHANGED write
    /\ shared' = (shared \/ ByHandNow # {})
    /\ UNCHANGED <<lock, handler, reply, notified, command, store, listened,
                   timeouts, saveFaults>>

\* Defect: the address is bound while the save of the start is under way.
ListenEarly ==
    /\ daemon = "starting"
    /\ write[AtStart] # None => write[AtStart].stage # "failed"
    /\ daemon' = "up"
    /\ write' = [write EXCEPT ![AtStart] = None]
    /\ listened' = listened \cup {starts}
    /\ UNCHANGED <<memory, command, store, shared, budget>>

\* Only then does it bind its address.  Until then a command is refused.
Listen ==
    /\ daemon = "starting"
    /\ write[AtStart] # None => Saved(AtStart) /\ Stored(AtStart)
    /\ daemon' = "up"
    /\ write' = [write EXCEPT ![AtStart] = None]
    /\ listened' = listened \cup {starts}
    /\ UNCHANGED <<memory, command, store, shared, budget>>

\* The process ends: a save of main() failed, or a crash at any point.  Its
\* writes end with it and its connections are reset.
Die ==
    /\ daemon # "down"
    /\ daemon' = "down"
    /\ mem' = {} /\ lock' = None
    /\ handler' = [c \in Commands |-> IF handler[c] = "none" THEN "none" ELSE "done"]
    /\ reply' = [c \in Commands |-> IF client[c] = "waiting" THEN "error" ELSE reply[c]]
    /\ write' = [w \in Writers |-> IF w[2] = 1 THEN write[w] ELSE None]
    /\ UNCHANGED <<notified, command, store, past, budget>>

-----------------------------------------------------------------------------
(* add_ground_vector and neutralize_ground_vector: one critical section,   *)
(* with the save inside.                                                   *)

HandleAdd(c) ==
    /\ handler[c] = "locking" /\ lock = None /\ c \in Adds
    /\ mem' = mem \cup {<<"add", ByDaemon(c)>>}
    /\ lock' = c
    /\ Queued(ByDaemon(c), mem')
    /\ handler' = [handler EXCEPT ![c] = "saving"]
    /\ UNCHANGED <<daemon, reply, notified, command, store, past, budget>>

\* An unknown name is an error, and nothing is saved.
HandleNeutralize(c) ==
    /\ handler[c] = "locking" /\ lock = None /\ c \notin Adds
    /\ \/ /\ target[c] \in Added(mem)
          /\ mem' = mem \cup {<<"neutralize", target[c]>>}
          /\ lock' = c
          /\ Queued(ByDaemon(c), mem')
          /\ handler' = [handler EXCEPT ![c] = "saving"]
          /\ UNCHANGED reply
       \/ /\ target[c] \notin Added(mem)
          /\ handler' = [handler EXCEPT ![c] = "done"]
          /\ reply' = [reply EXCEPT ![c] = "error"]
          /\ UNCHANGED <<mem, lock, write>>
    /\ UNCHANGED <<daemon, notified, command, store, past, budget>>

\* Defect: a failed save is only logged.
AnswerAlways(c) ==
    /\ handler[c] = "saving" /\ Saved(ByDaemon(c))
    /\ lock' = None
    /\ handler' = [handler EXCEPT ![c] = "done"]
    /\ reply' = [reply EXCEPT ![c] = "ok"]
    /\ notified' = notified \cup ({c} \cap Immediate)
    /\ write' = [write EXCEPT ![ByDaemon(c)] = None]
    /\ UNCHANGED <<daemon, mem, command, store, past, budget>>

\* Defect: the policy is not looked at.
AnswerNotifies(c) ==
    /\ handler[c] = "saving" /\ Saved(ByDaemon(c))
    /\ lock' = None
    /\ handler' = [handler EXCEPT ![c] = "done"]
    /\ reply' = [reply EXCEPT ![c] = IF Stored(ByDaemon(c)) THEN "ok" ELSE "error"]
    /\ notified' = IF Stored(ByDaemon(c)) THEN notified \cup {c} ELSE notified
    /\ write' = [write EXCEPT ![ByDaemon(c)] = None]
    /\ UNCHANGED <<daemon, mem, command, store, past, budget>>

\* When the save failed the change stays in memory, the answer is an error, and
\* no rotation is triggered.
Answer(c) ==
    /\ handler[c] = "saving" /\ Saved(ByDaemon(c))
    /\ lock' = None
    /\ handler' = [handler EXCEPT ![c] = "done"]
    /\ \/ /\ Stored(ByDaemon(c))
          /\ reply' = [reply EXCEPT ![c] = "ok"]
          /\ notified' = notified \cup ({c} \cap Immediate)
       \/ /\ ~Stored(ByDaemon(c))
          /\ reply' = [reply EXCEPT ![c] = "error"]
          /\ UNCHANGED notified
    /\ write' = [write EXCEPT ![ByDaemon(c)] = None]
    /\ UNCHANGED <<daemon, mem, command, store, past, budget>>

\* Defect: the guard outlives the handler.
DropKeepsLock(c) ==
    /\ handler[c] \in Serving /\ client[c] # "waiting"
    /\ handler' = [handler EXCEPT ![c] = "done"]
    /\ write' = IF Saved(ByDaemon(c)) THEN [write EXCEPT ![ByDaemon(c)] = None]
                                      ELSE write
    /\ UNCHANGED <<daemon, mem, lock, reply, notified, command, store, past, budget>>

\* The connection of a command that has stopped waiting is closed: its handler
\* is dropped where it awaits, and a write goes on unawaited.
Drop(c) ==
    /\ handler[c] \in Serving /\ client[c] # "waiting"
    /\ handler' = [handler EXCEPT ![c] = "done"]
    /\ lock' = IF lock = c THEN None ELSE lock
    /\ write' = IF Saved(ByDaemon(c)) THEN [write EXCEPT ![ByDaemon(c)] = None]
                                      ELSE write
    /\ UNCHANGED <<daemon, mem, reply, notified, command, store, past, budget>>

-----------------------------------------------------------------------------
(* add-vector and neutralize (execute_subcommand).                         *)

\* The POST.  Without a listener it is refused, and so is a weight of null.
Send(c) ==
    /\ client[c] = "idle"
    /\ IF c \in Adds
       THEN UNCHANGED target
       ELSE \E v \in Added(mem \cup disk) : target' = [target EXCEPT ![c] = v]
    /\ \/ /\ daemon = "up" /\ c \notin bad
          /\ client' = [client EXCEPT ![c] = "waiting"]
          /\ handler' = [handler EXCEPT ![c] = "locking"]
       \/ /\ daemon # "up" \/ c \in bad
          /\ client' = [client EXCEPT ![c] = "fallback"]
          /\ UNCHANGED handler
    /\ UNCHANGED <<daemon, mem, lock, reply, told, bad, notified, store, write,
                   past, budget>>

\* Defect: a success whose body cannot be read is treated like no answer.
HearUnreadable(c) ==
    /\ client[c] = "waiting" /\ reply[c] # None
    /\ \/ /\ reply[c] = "ok"
          /\ client' = [client EXCEPT ![c] = "done"]
          /\ told' = [told EXCEPT ![c] = "daemon"]
       \/ /\ reply[c] = "error" \/ c \in Adds
          /\ client' = [client EXCEPT ![c] = "fallback"]
          /\ UNCHANGED told
    /\ UNCHANGED <<daemon, memory, target, bad, store, write, past, budget>>

\* Only a status of success keeps a command from the fallback.  add-vector then
\* reads the body, and if that fails it ends with an error, its vector stored.
Hear(c) ==
    /\ client[c] = "waiting" /\ reply[c] # None
    /\ \/ /\ reply[c] = "ok"
          /\ client' = [client EXCEPT ![c] = "done"]
          /\ \/ told' = [told EXCEPT ![c] = "daemon"]
             \/ c \in Adds /\ told' = [told EXCEPT ![c] = "error"]
       \/ /\ reply[c] = "error"
          /\ client' = [client EXCEPT ![c] = "fallback"]
          /\ UNCHANGED told
    /\ UNCHANGED <<daemon, memory, target, bad, store, write, past, budget>>

\* 5 s are over, or the answer is lost.
GiveUpWaiting(c) ==
    /\ client[c] = "waiting" /\ timeouts < MaxTimeouts
    /\ timeouts' = timeouts + 1
    /\ client' = [client EXCEPT ![c] = "fallback"]
    /\ UNCHANGED <<daemon, memory, target, told, bad, store, write, past,
                   starts, saveFaults>>

OwnChange(c) ==
    IF c \in Adds THEN <<"add", ByHand(c)>> ELSE <<"neutralize", target[c]>>

\* Load, change and save, whatever the reason the daemon did not help.  A file
\* that cannot be loaded, or does not have the vector, ends the command.
LoadFile(c) ==
    /\ client[c] = "fallback"
    /\ IF Readable /\ (c \notin Adds => target[c] \in Added(disk))
       THEN /\ client' = [client EXCEPT ![c] = "writing"]
            /\ Queued(ByHand(c), disk \cup {OwnChange(c)})
            /\ shared' = (shared \/ daemon # "down" \/ ByHandNow # {})
            /\ UNCHANGED told
       ELSE /\ client' = [client EXCEPT ![c] = "done"]
            /\ told' = [told EXCEPT ![c] = "error"]
            /\ UNCHANGED <<write, shared>>
    /\ UNCHANGED <<daemon, memory, target, bad, store, listened, budget>>

Report(c) ==
    /\ client[c] = "writing" /\ Saved(ByHand(c))
    /\ client' = [client EXCEPT ![c] = "done"]
    /\ told' = [told EXCEPT ![c] = IF Stored(ByHand(c)) THEN "disk" ELSE "error"]
    /\ write' = [write EXCEPT ![ByHand(c)] = None]
    /\ UNCHANGED <<daemon, memory, target, bad, store, past, budget>>

\* What list-vectors may list: the memory of a daemon whose lock is free, or, on
\* anything but a success in 5 s, the file.
Listings ==
    (IF daemon = "up" /\ lock = None THEN {mem} ELSE {})
    \cup (IF Readable THEN {disk} ELSE {})

-----------------------------------------------------------------------------
(* The file.                                                               *)

Awaited(w) ==
    \/ w = AtStart
    \/ w[2] = 0 /\ handler[w[1]] = "saving"
    \/ w[2] = 1

Finished(w, stage) ==
    write' = [write EXCEPT ![w] = IF Awaited(w) THEN [@ EXCEPT !.stage = stage]
                                                ELSE None]

WriteOpens(w) ==
    /\ write[w] # None /\ write[w].stage = "queued"
    /\ write' = [write EXCEPT ![w].stage = "open"]
    /\ file' = "truncated" /\ disk' = {}
    /\ UNCHANGED <<daemon, memory, command, past, budget>>

\* A shorter text leaves the tail of a longer one that came in between.
WriteEnds(w) ==
    /\ write[w] # None /\ write[w].stage = "open"
    /\ \/ /\ file # "garbled" /\ disk \subseteq write[w].what
          /\ file' = "whole" /\ disk' = write[w].what
       \/ /\ file = "garbled" \/ ~(disk \subseteq write[w].what)
          /\ file' = "garbled" /\ disk' = {}
    /\ Finished(w, "stored")
    /\ UNCHANGED <<daemon, memory, command, past, budget>>

WriteFails(w) ==
    /\ write[w] # None /\ write[w].stage \in {"queued", "open"}
    /\ saveFaults < MaxSaveFaults
    /\ saveFaults' = saveFaults + 1
    /\ IF write[w].stage = "queued"
       THEN UNCHANGED store
       ELSE file' = "garbled" /\ disk' = {}
    /\ Finished(w, "failed")
    /\ UNCHANGED <<daemon, memory, command, past, starts, timeouts>>

-----------------------------------------------------------------------------
HandlerStep(c) == HandleAdd(c) \/ HandleNeutralize(c) \/ Answer(c) \/ Drop(c)

CommandStep(c) ==
    Hear(c) \/ GiveUpWaiting(c) \/ LoadFile(c) \/ Report(c)

WriteStep(w) == WriteOpens(w) \/ WriteEnds(w) \/ WriteFails(w)

Next ==
    \/ Start \/ Listen \/ Die
    \/ \E c \in Commands : Send(c) \/ HandlerStep(c) \/ CommandStep(c)
    \/ \E w \in Writers : WriteStep(w)

Spec == Init /\ [][Next]_vars

\* The processes run, the lock goes to somebody who waits for it, and writes
\* end.  Nobody need send a command, start the daemon, or see it die.
FairSpec ==
    /\ Spec
    /\ WF_vars(\E c \in Commands : HandlerStep(c))
    /\ WF_vars(\E c \in Commands : CommandStep(c))
    /\ WF_vars(\E w \in Writers : WriteStep(w))

-----------------------------------------------------------------------------
(* Properties.                                                             *)

TypeOK ==
    /\ daemon \in {"down", "starting", "up"}
    /\ mem \subseteq Changes /\ lock \in Commands \cup {None}
    /\ handler \in [Commands -> Serving \cup {"none", "done"}]
    /\ reply \in [Commands -> {None, "ok", "error"}]
    /\ client \in [Commands -> {"idle", "waiting", "fallback", "writing", "done"}]
    /\ target \in [Commands -> Vectors \cup {None}]
    /\ told \in [Commands -> {None, "daemon", "disk", "error"}]
    /\ bad \subseteq Adds \cup {Main}
    /\ notified \subseteq Immediate
    /\ file \in {"whole", "truncated", "garbled"} /\ disk \subseteq Changes
    /\ write \in [Writers -> Writes \cup {None}]
    /\ listened \subseteq 1..MaxStarts /\ shared \in BOOLEAN
    /\ starts \in 0..MaxStarts /\ timeouts \in 0..MaxTimeouts
    /\ saveFaults \in 0..MaxSaveFaults

\* Every vector that is anywhere: in memory, in the file, in a write on its way.
Everywhere ==
    Added(mem) \cup Added(disk)
    \cup UNION {Added(write[w].what) : w \in {x \in Writers : write[x] # None}}

\* No command has stopped waiting, no save has failed, and the daemon has not died.
Undisturbed ==
    /\ timeouts = 0 /\ saveFaults = 0
    /\ starts <= 1 /\ (starts = 1 => daemon # "down")

\* A command that asks the daemon and then helps itself does not do both: unless
\* one of the three disturbances came in between, its vector is added once,
\* though it may have been sent before, during or after a start of the daemon.
AddedOnce ==
    Undisturbed => \A c \in Adds : ~({ByDaemon(c), ByHand(c)} \subseteq Everywhere)

\* The one who works on the ledger: the daemon or else a command by hand.
Alone == ~shared /\ timeouts = 0

\* The daemon answers "ok", and triggers an immediate rotation, only when all
\* it has in memory is in the file, also what an earlier save failed to write,
\* and can be loaded again, unless its own command line had a bad weight.
AnswerMeansStored ==
    [][\A c \in Commands :
          Alone /\ (\/ reply[c] = None /\ reply'[c] = "ok"
                    \/ c \in notified' \ notified)
              => /\ file = "whole" /\ disk = mem
                 /\ Main \notin bad => Readable]_vars

\* The acknowledged changes.
DaemonChange(c) ==
    IF c \in Adds THEN <<"add", ByDaemon(c)>> ELSE <<"neutralize", target[c]>>
Acknowledged ==
    {DaemonChange(c) : c \in {d \in Commands : told[d] = "daemon"}}
    \cup {OwnChange(c) : c \in {d \in Commands : told[d] = "disk"}}
    \cup {<<"add", <<Main, n>>>> : n \in IF StartVector THEN listened ELSE {}}

\* Whoever answers list-vectors, and whenever, an acknowledged change is listed:
\* the file may be unreadable, but it is never behind what was acknowledged.
ListedIsWhole == Alone => \A l \in Listings : Acknowledged \subseteq l

\* The ledger, wherever it is: in the daemon, in the file, or in the hands of a
\* command that has opened the file.
InHand == {c \in ByHandNow : write[ByHand(c)].stage = "open"}
Current ==
    IF daemon # "down" THEN mem
    ELSE IF file = "truncated" /\ InHand # {}
    THEN write[ByHand(CHOOSE c \in InHand : TRUE)].what
    ELSE disk

\* The file was left torn, with nobody at work on it.
Torn == daemon = "down" /\ (file = "garbled" \/ (file = "truncated" /\ InHand = {}))
Void == ~Alone \/ Torn

\* As long as daemon and commands do not work on the file at a time, no command
\* has stopped waiting and no write was torn, every acknowledged change is kept
\* from then on: across crashes, restarts, failed saves and offline commands.
\* In particular a vector stays, and stays neutralised.
Promise == INSTANCE LedgerPromise WITH
    entries <- IF Void THEN {} ELSE Current,
    promised <- IF Void THEN {} ELSE Acknowledged,
    void <- Void
KeepsPromise == Promise!PromiseSpec

\* No command waits for ever and the lock comes free, whoever leaves or dies and
\* whichever save fails: a time comes when none waits.
CommandsAnswered ==
    []<>(lock = None /\ \A c \in Commands : client[c] # "waiting")

-----------------------------------------------------------------------------
(* The inductive invariant behind them (LedgerStoreProofs.tla).            *)

\* The lock is with the handler that saves, what it saves has its change,
\* handlers only run in a daemon that serves, for weights that JSON can carry,
\* and a command ends once.
HandlersAgree ==
    /\ \A c \in Commands :
          /\ lock = c <=> handler[c] = "saving"
          /\ handler[c] = "saving" => DaemonChange(c) \in mem
          /\ handler[c] \in Serving =>
                daemon = "up" /\ c \notin bad /\ reply[c] = None
          /\ client[c] = "idle" =>
                handler[c] = "none" /\ reply[c] = None /\ told[c] = None
          /\ client[c] # "idle" /\ c \notin Adds => target[c] \in Vectors
          /\ told[c] # None => client[c] = "done"
    /\ daemon # "down" => starts > 0

\* While one works on the file at a time, there is a write exactly where one is
\* waited for.
OneWriter ==
    Alone =>
        /\ ByHandNow # {} => daemon = "down"
        /\ \A c, d \in ByHandNow : c = d
        /\ write[AtStart] # None <=> daemon = "starting" /\ StartVector
        /\ \A c \in Commands :
              /\ handler[c] \in Serving => client[c] = "waiting"
              /\ write[ByDaemon(c)] # None <=> handler[c] = "saving"
              /\ write[ByHand(c)] # None <=> client[c] = "writing"

\* Then the file is what the stage of that write says, the daemon writes all it
\* has in memory and a command what it found and its own change, and the file is
\* never ahead of the daemon.
StoreAgrees ==
    Alone =>
        /\ file # "whole" => disk = {}
        /\ daemon # "down" =>
              /\ disk \subseteq mem
              /\ \A v \in Added(mem) : v[1] \in bad => v[1] = Main
        /\ daemon = "starting" /\ StartVector => <<"add", <<Main, starts>>>> \in mem
        /\ \A w \in Writers : write[w] # None =>
              /\ write[w].stage = "open" => file = "truncated"
              /\ write[w].stage = "stored" => file = "whole" /\ disk = write[w].what
              /\ w[2] = 0 => write[w].what = mem
        /\ \A c \in ByHandNow :
              /\ OwnChange(c) \in write[ByHand(c)].what
              /\ write[ByHand(c)].stage = "queued" =>
                    file = "whole" /\ write[ByHand(c)].what = disk \cup {OwnChange(c)}

\* A change that is wherever the ledger is: no step can lose it.
Kept(x) ==
    /\ daemon # "down" => x \in mem
    /\ file = "whole" => x \in disk
    /\ \A w \in Writers : write[w] # None => x \in write[w].what

\* What was acknowledged, or was answered and may yet be heard, is kept.
AcknowledgedIsKept ==
    Alone =>
        /\ \A c \in Commands :
              /\ reply[c] = "ok" \/ told[c] = "daemon" => Kept(DaemonChange(c))
              /\ told[c] = "disk" => Kept(OwnChange(c))
        /\ StartVector => \A n \in listened : Kept(<<"add", <<Main, n>>>>)

\* Undisturbed, a command that was served is not refused, and the daemon has the
\* vectors of those it serves and no others.
OneWay ==
    Undisturbed =>
        /\ \A w \in Writers : write[w] # None => write[w].stage # "failed"
        /\ \A c \in Adds :
              /\ ByDaemon(c) \in Everywhere => handler[c] # "none"
              /\ ByHand(c) \in Everywhere => handler[c] = "none" /\ client[c] # "idle"
              /\ handler[c] # "none" => client[c] \in {"waiting", "done"}
              /\ handler[c] \in Serving => client[c] = "waiting"
              /\ client[c] = "waiting" => handler[c] # "none"
              /\ reply[c] # "error"

\* Together they are preserved by every step.
Inductive ==
    /\ TypeOK /\ HandlersAgree /\ OneWay
    /\ OneWriter /\ StoreAgrees /\ AcknowledgedIsKept

-----------------------------------------------------------------------------
(* What the documentation says and the code does not do.                   *)

\* README.md:114, "if the daemon is offline, they gracefully fall back to
\* reading and writing the JSON storage files directly": what a command says it
\* committed to the file is in it, when nobody writes.
Quiet == \A w \in Writers : write[w] = None
CommittedByHandStays ==
    Quiet /\ Readable =>
        \A c \in Commands : told[c] = "disk" => OwnChange(c) \in disk
=============================================================================
