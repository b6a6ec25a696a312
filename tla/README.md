# RAKET in TLA+

A verification project for the RAKET controller and its agents: TLA+
specifications of the parts that can go wrong in ways a test hardly reaches, TLC
configurations that check them on small instances, and TLAPS proofs of what
matters most. Paths are relative to the repository.

Run a check with `tlc -config Rotation_daemon.cfg MCRotation`, the proofs of a part with
`tlapm RotationProofs.tla` (of all parts: `for m in *Proofs.tla; do tlapm $m; done`). `PROJECT.json` lists every run, the source lines
each definition stands for, and the hazards the properties are for.

## The system

| Part | Code | State | Operations | Module |
|---|---|---|---|---|
| Controller | `src/controller.rs`, tasks in `src/main.rs` | `ControllerState` behind an `RwLock`: active name, warm names, pending state | `provision_warm_pod`, `rotate_active_pod`, `run_epoch_loop`, the warm-up task | `Rotation` |
| Verification endpoint | `src/api.rs` (`api_verify`) | a handler per request | verify, log, commit | `FactStore` |
| Fact graph | `src/fact_graph.rs` | facts and attempts, one JSON file | load, save, `commit_fact`, `log_attempt`; queries | `FactStore` |
| Verification backends | `src/verify.rs` | none; a process per request | Lean 4, Z3, sandboxed programs, with a timeout | `Verdict`, `FactStore` |
| Agent pod | `shim/shim.py`, `shim/researcher.py` | DAG and semantic context behind a lock | research loop, SIGTERM handler | `Agent` |
| State ingest | `src/api.rs` (`ingest_state`), `src/state.rs` | `AppState::pending_state` | check and store one state | `Agent` |
| Ledger | `src/ledger.rs`, `src/api.rs`, start of `src/main.rs` | ground vectors, one JSON file | load, save, `add_entry`, `neutralize_entry`, the vectors of the command line | `LedgerStore`, `LedgerPromise` |
| CLI | `src/cli.rs`, `src/main.rs` | none | queries and writes, through the daemon or on the files | `LedgerStore`, `FactStore` (what queries read) |
| Hand-over | what `src/api.rs`, `src/controller.rs` and the agent do together | two pending states | delete, SIGTERM, ingest, promotion | `Handoff` |
| Alignment gate | `src/alignment.rs` | threshold and vectors | score, gate, sign; called by tests only | `Alignment` |
| Rust shim | `src/shim.rs`, `src/shim_main.rs` | DAG and context nobody updates | serialise and transmit on SIGTERM | not modelled |
| Configuration, deployment | `src/config.rs`, `k8s/`, Dockerfiles, `install.sh` | none | none | constants |

How the parts interact. The epoch loop and the warm-up task call the Kubernetes
API and share `ControllerState`; no lock is held across an API call. The API
handlers share `AppState`, in which the locks of the fact graph and of the ledger
*are* held across the await of a save. One `Notify` leads from the API to the
epoch loop. Agents call `/api/v1/verify` with a timeout of 10 s and, when they
are terminated, `/state/ingest`, once. A rotation terminates an agent only
through the API server and the kubelet. The daemon persists nothing but its two
files; the CLI may write one of them while the daemon runs.

What is hard. Rotations are sequences of fallible remote calls with the lock
released in between; replies get lost; pods vanish; the daemon crashes and
forgets its pods; a client that leaves drops its handler in mid-await; a write
on the blocking pool outlives the request that caused it; a Python signal handler
runs inside whatever the main thread was doing.

What makes each part correct.

* Controller: one active agent at a time, and one left behind by a crash at the most; every pod of the pool accounted for;
  no pod forgotten; no trigger lost; rotations and refills go on after faults.
* Fact graph: no fact without a successful attempt, in memory and in the file;
  the file follows the memory; a reported fact stays and is found by every query; no request blocks another.
* Verdicts: success means the backend said so.
* Agent: the state that is sent is the last word of the pod, and of one piece;
  whatever moment the signal comes, it is sent; the controller takes it.
* Ledger: what was acknowledged survives crashes, restarts and failed saves, and a
  vector that was neutralised stays so; a success means stored.
* Hand-over: only a pod that is being deleted speaks to the daemon, and none the
  controller counts on is told to end; a successor gets what its predecessor said.
* Alignment: the objective is not outvoted by what users and earlier passes add.

## Modules

`Rotation.tla` - the controller. One action per await of `rotate_active_pod` and
of `provision_warm_pod`; `pc` says where the epoch loop is. The values the code
reads in one acquisition of the lock and uses after the next are variables
(`snapActive`, `target`, `captured`, `promoted`, `fresh`), so a stale snapshot is
expressible. The warm-up task (`setupLeft`, `setupPod`) interleaves with it. An
API call and its reply are one step; each may fail, and with `LostReplies` it may
fail after it took effect. `Restart` is a crash at any await followed by a start;
a request that is still on its way at the crash is not applied later. A pod name
is new each time (uuid); the model takes it from the names nothing refers to,
which makes the set finite without ever letting two live pods share one. The
pods of earlier incarnations stay in the cluster. `AtMostOneActive` and `NoLeak` are
about those of the present one (`mine`); `CrashLeavesOne` counts them all. `Captures` is what may be written to `pending_state`: nothing in
the daemon, because no code writes that field; any state, when the controller is
used as a library.

`PodSlot.tla` - the abstract specification of a rotation: the active role is a
slot that is given up before it is taken.

`FactStore.tla` - `api_verify` from the request to the answer, with its two
critical sections (`Log`/`Logged`, `Commit`/`Committed`) and the write each save
hands to the blocking pool (`WriteOpens`, which truncates, and `WriteEnds`). The
graph is the set of attempts (by request) and the set of facts (by payload). The
file is whole, truncated or garbled; only a whole one can be loaded, and `Start`
waits for it. `ClientGone` drops a handler wherever it awaits: hyper does that
when the connection closes, the guard of the lock goes with it, the write does
not. A process that is no longer awaited runs on (`Orphaned`), as no
`kill_on_drop` is set.

`Verdict.tla` - how the text of the two streams and the exit code become a
verdict. A line stands for all the lines the code cannot tell from it; what
matters is which lines contain which of the substrings the code looks for. The last
line of either stream may lack its newline, because a process may be killed as it
prints; the text of stdout then goes on with the first line of stderr, where the code
searches both together.

`Agent.tla` - the research loop at the grain of its critical sections, the
SIGTERM handler, the kubelet's two signals, and `/state/ingest`. Python runs the
handler in the main thread, so `TakeSignal` is a step from any point of the loop,
and it gets stuck when it interrupts the holder of the lock. When it interrupts another
`print`, its own raises a `RuntimeError` (`HandlerRaises`): that ends the process, or is
taken for an error of the model's API by `query_gemini`, and the signal is spent. A signal sent before
`initialize` is dropped by the kernel, as for any first process of a container
without a handler. `Kill` comes only to a process that cannot end by itself - one that is stuck, or lost
its signal: the handler's two timeouts of 10 s fit in the grace period of 30 s. The nodes of the
DAG are kept by status, because the status decides whether serde accepts them. The signature of a state is the
key it was made with: the text signed is `agent_id:pod_name:epoch` (`src/state.rs:57-66`),
so it says who sent a state, and nothing about what is in it.

`LedgerStore.tla` - the ledger in the daemon, its file, and everybody who writes
that file: the two handlers, whose save is inside their critical section; `main()`,
which loads, adds the vectors of the command line, saves, and only then binds its
address; and the commands `add-vector` and `neutralize`, which on anything but a
success within 5 s load the file, change it and save it themselves. A ledger is the
set of changes made to it, because entries are only ever added and neutralised; of
two of them the larger has the longer JSON, which decides whether two writes of one
file that overlap leave it whole. A vector is named by who added it and in which way,
so a command that falls back after the daemon did its work adds a second one. After a
success there is no fallback any more: `add-vector` may fail to read the body of the
answer, and ends with an error though its vector is stored (`Hear`). `bad`
are the weights that JSON cannot hold: a file with one is `Readable` no more.

`LedgerPromise.tla` - the abstract specification of the ledger: a growing set of
changes, some of them acknowledged; what was acknowledged is never lost. `LedgerStore`
implements it until the promise is void (`Void`): when the daemon and a command work on
the file at a time (`shared`), when a command has stopped waiting, or when a crash or an
error tears a write. What then happens is the subject of `ledger_byhand`. The mapping
takes the ledger from where it is: the memory of a daemon that runs, the file, or the
hands of a command that has opened the file.

`Handoff.tla` - `Rotation`, and `Agent` as an instance beside it. The kubelet connects
them: it starts the process of a pod that was created, sends SIGTERM to one that is
terminating, and removes a pod when its process has ended. `ingested` is
`AppState::pending_state`, `pending` is `ControllerState::pending_state`: the two fields
the code has. A restart of the daemon clears both. No code of the daemon captures, so `Captures`
is empty (`NoCaptureAssumption`). Injections are left out, as to an agent every rotation is alike; the
name of a pod that had a process is not used again.

`Alignment.tla` - the gate on integers. A new gate is empty, and the code never fills
it from the ledger, though its vectors have the same type; the model starts it with the
active vectors of some ledger, none among them, in any order, as a HashMap gives them. A
sum is a recursive function over the sequence. The embedding is a hash, so a similarity is any
number from 0 to `Scale`, and a score is an exact quotient, rounded down only as the
weight of the vector a pass leaves. `Huge` stands for the division by 1e-9 when the
weights sum to nothing or less. A weight that is not a number makes every score one.

`MCRotation.tla`, `MCFactStore.tla`, `MCJudgements.tla` - instances; the last joins
`Verdict` and `Alignment`, which share nothing, in one run: a behaviour is about one of
them.

`RotationProofs.tla`, `FactStoreProofs.tla`, `AgentProofs.tla`, `LedgerStoreProofs.tla`,
`HandoffProofs.tla`, `JudgementProofs.tla` (`Verdict` and `Alignment`) - the proofs.

A definition whose comment starts with "Defect" is used by no action. It is the
next operator with a plausible mistake in it, kept to show which property would
notice (`mutants` in `PROJECT.json`).

## Runs

| Run | Shows | Bounds |
|---|---|---|
| `rotation_daemon` | `AtMostOneActive`, `CrashLeavesOne`, `SnapshotStillHead`, `PoolAccounting`, `NoLeak`, `NoLostTrigger`, `InjectedIsSigned`, the inductive invariant, and `SlotSpec`, the refinement of `PodSlot`, with states captured at any time | pool of 2, 4 names, a good state and a forged one, 2 faults, 1 restart |
| `rotation_live` | `PoolRefills`, `ServiceResumes`, `RotationContinues`; `AtMostOneActive` and `NoLeak` when replies are lost | pool of 2, 4 names, 1 fault with lost replies, 2 ticks due at once |
| `facts_store` | `FactHasAttempt`, `LockWhileSaving`, `FileFollowsMemory`, `ReportedIsListed`, the inductive invariant, `Answered` | 3 requests, 2 for one payload; 1 client that leaves, 1 failed write, 1 crash |
| `facts_overlap` | violated: a reported fact is in the file | 3 requests, 1 client that leaves |
| `judgements` | `SandboxComparesText`; `ObjectiveKeepsHalf`, `VectorsStayProper` | 3 lines a stream, either of which may be cut; 2 vectors, 5 weights, 4 similarities, 2 states through the gate |
| `agent_shim` | `SnapshotNearlyWhole`, `SnapshotIsFinal`, `IngestedIsGenuine`, the inductive invariant, `HandlerExits` | 2 pods, 2 results each, 2 secrets, 1 failed transmission or handler that raises, 1 restart |
| `agent_stuck` | violated: a caught SIGTERM is sent | 1 pod, 1 result |
| `agent_refused` | violated: a signed state is accepted | 1 pod, 1 result |
| `ledger_store` | `AddedOnce`, `ListedIsWhole`, the inductive invariant, `AnswerMeansStored`, `KeepsPromise` (the refinement of `LedgerPromise`), `CommandsAnswered` | an add and a neutralize, a vector of the command line, 2 starts with a crash at any point, 1 command that stops waiting, 1 failed write |
| `ledger_byhand` | violated: what a command committed to the file stays there | the same, 1 start, no fault |
| `handoff_end` | `IngestedHasEnded`, `ReliedServe` | pool of 1, 2 names, 1 result a pod, 1 failed call or eviction, 1 restart, 1 failed transmission or handler that raises |
| `handoff_state` | violated: a successor gets the state the daemon holds of its predecessor | the same, no fault |

Why the bounds are enough. A rotation involves the active pod, the head of the
pool, a pod being provisioned by each task and a terminating one: with four names for
a pool of two any four of them exist at once (the run with
five names takes four minutes and finds nothing more). Two faults let an attempt fail at one
step and the next attempt at another, which is how half-done promotions meet; the
proofs have no such bound. Of two requests for one payload one is the duplicate,
the third makes the graphs differ in facts; overlapping writes, the loss of a
file and an answer given from memory each need two requests and one fault. Two
rounds of the research loop let the two halves of a state drift apart by more
than one if they could. Three lines on a stream are a line between two margins,
or an answer among two others. Of the ledger, one command that adds and one that
neutralises are the two kinds of change, each by two ways, and together with `main()`
make three writers of one file; two starts put a crash before, between and after them.
In `Handoff` two names are the pod that ends and its successor; a name serves once, so
the run sees one hand-over, and the model is about what can happen inside it; three
names take more than five minutes, and the proofs have no such bound. Two vectors let weights
cancel, two states let the vector of one pass weigh on the next. Symmetry is declared
for safety only.

`CHECK_DEADLOCK FALSE` is set where the system really stops: all requests
answered (`FactStore`), all commands done (`LedgerStore`), all pods gone (`Agent`) or all names
used (`Handoff`), the process ended or the states all judged (`MCJudgements`).
The rotation never stops and is checked for deadlock.

## Fairness

* `Rotation`: weak fairness of the epoch loop, of the clock and of the end of a
  terminating pod (tokio runs ready tasks, the kubelet ends what it was told to
  end). The warm-up task is always ready in the program; in the model it may wait
  for a free name, and strong fairness makes up for that bound. No call is
  obliged to fail, and nobody to inject, evict or crash. `rotation_live` has fewer
  faults than pool slots: with as many, the pool may be empty for ever, since
  nothing retries a failed provision.
* `FactStore`: strong fairness of each handler, because tokio's `RwLock` queues its
  waiters and the guard `lock = None` is not steadily true; weak fairness of each
  write. A process need not end: the timeout covers it.
* `Agent`: weak fairness of the handler, of the daemon's answer and of SIGKILL. A
  pod need not be terminated, nor have results.
* `LedgerStore`: weak fairness of the handlers, of the commands and of the writes, each
  taken together: as long as one of them can go on, one does. Which of two waiting
  handlers gets the lock is left open. Nobody need send a command, and the daemon may be
  down for ever.
* `Handoff`: none; its properties are safety.

## Proofs

Every safety invariant, every action property and both refinements that a passing run
checks are also theorems, for all values of the constants: any number of pods, requests, payloads,
commands, faults, crashes and restarts, pools and outputs of any size. Of a component,
`InductiveInvariant` says that every step preserves `Inductive`, the conjunction of the
type invariant, the properties and what had to be added; TLC checks the same
formula as an invariant of the run (smaller strengthenings are only proved: `GateInv`, `VerdictInv`,
`SignalledHasEnded`, `ReliedLive`, `HeldAreOwn` and the bound on `Behind`). A proof that a step preserves a
part of it has one step per action.

| Module | Theorems (the property each states) |
|---|---|
| `RotationProofs` | `TypeCorrect` (`TypeOK`), `SnapshotValid` (`SnapshotStillHead`), `PoolAccounted` (`PoolAccounting`), `OnlySignedInjected` (`InjectedIsSigned`), `TriggerKept` (`NoLostTrigger`), `NothingLeaks` (`NoLeak`); `OneActive` (`AtMostOneActive`), `OneLeftBehind` (`CrashLeavesOne`), `InductiveInvariant`, `SlotRefined` (`SlotSpec`) |
| `FactStoreProofs` | `InductiveInvariant`, `TypeCorrect`, `LockKept` (`LockWhileSaving`), `FactsFounded` (`FactHasAttempt`), `FileFollows` (`FileFollowsMemory`), `ReportedListed` (`ReportedIsListed`) |
| `AgentProofs` | `InductiveInvariant`, `TypeCorrect`, `SnapshotFinal` (`SnapshotIsFinal`), `SnapshotWhole` (`SnapshotNearlyWhole`), `IngestedGenuine` (`IngestedIsGenuine`) |
| `LedgerStoreProofs` | `InductiveInvariant`, `TypeCorrect`, `VectorsAddedOnce` (`AddedOnce`), `ListedWhole` (`ListedIsWhole`), `AnswerStored` (`AnswerMeansStored`), `PromiseKept` (`KeepsPromise`) |
| `HandoffProofs` | `RotationImplemented`, `AgentImplemented`, `SignalledEnded` (`SignalledHasEnded`), `IngestedEnded` (`IngestedHasEnded`), `ReliedServing` (`ReliedServe`) |
| `JudgementProofs` | `SandboxCompares` (`SandboxComparesText`), `HalfKept` (`ObjectiveKeepsHalf`), `VectorsProper` (`VectorsStayProper`) |

Assumptions. Those the modules state on their constants, which TLC evaluates in every run:
bounds are natural numbers; `None` is none of the values it stands apart from; the daemon's
key is a key; a weight is an integer or `NaN`; in `Handoff`, `AgentAssumption` is what
`Agent` assumes, and `NoCaptureAssumption` that the daemon captures nothing. The four theorems of `RotationProofs` after the semicolon add
`OneActiveAssumption`: nothing is captured, or no reply is lost. It is
needed: if the reply to the create() of a capturing rotation is lost, a pod with
the active label runs under a name nobody knows, and the next rotation makes
another. In the daemon nothing is captured.

Rotation. `AtMostOneActive` is not inductive: it does not say where the active
pod can be. `NamesApart` says that the list, the active name and the names in
flight are different pods, so that deleting, dropping or promoting one does not
touch another. `LocalsAgree` says that what a rotation read is still so when it is
used - above all that its target still heads the list. `LetGo` says that a name the loop
is about to forget is that of a pod that runs no longer, which is what `NoLeak` needs.
`ActivePlace` confines
the active pod to three places: the recorded name, the head of the list (a
promotion whose patch took effect and whose attempt failed), or the name about to
be committed; and it says that after the delete the recorded name holds the role no
more. `SlotRefined` follows: from the
invariant, each action either leaves the set of actives alone, empties it, or fills
the empty one. `OneLeftBehind` adds up the crashes: the pods in the list and in flight
are the incarnation's own (`HeldAreOwn`), so no promotion gives the label to a pod of an
earlier one; hence the active pods of earlier incarnations (`Behind`) only get more at a
restart, and then by the one that was active. `ReliedLive` is for the hand-over: as long
as no call fails and no capture is refused, the pool, the pods that are about to join it and
the active pod run. Lists are handled by three lemmas on `Without`, `Retain` and
`Entries`.

Fact graph. `HandlersAgree`: at each point of a handler the verdict, the attempt and the
fact it relies on are there. `WritesFounded`: the graphs on their way to the file have
their attempts as well, or a write that outlives its handler could bring in one that
has not. The two last properties need `StoreAgrees` - while nobody leaves and no write
fails there is a write exactly where one is awaited, it carries the graph in memory, and
its stage says what the file is - and `ReportedIsKept`: what was reported is in memory and
in a file that can be read, over crashes.

Agent. `LoopAgrees` is how far apart the two records are at each point of the loop, the
points a signal interrupts included; `EndAgrees` is the life of the handler: it runs once,
and only its end is left to a pod that has sent.

Ledger. Everything is about the time in which one works on the file (`Alone`). Then
`OneWriter` says that a write is where somebody waits for it, `StoreAgrees` what it
carries and that the file is never ahead of the daemon, and `AcknowledgedIsKept` that
each acknowledged change is `Kept`: in memory if the daemon is not down, in a file that
can be read, and in every write. That is why no step can lose it: whatever copy the next step takes
has it. `AddedOnce` needs `OneWay`: while nothing has disturbed them, a command the daemon
serves waits until it hears "ok", so the vector it would add by hand exists only if it was
never served. `PromiseKept` follows by cases: the abstract ledger is taken from a place
that the step leaves, or from one in which the acknowledged changes are as well. That the
set of the acknowledged only grows, and that a promise once void stays void, are lemmas of their own.

Hand-over. `RotationImplemented` and `AgentImplemented` say that a behaviour of the
composition is one of each part, under the substitution that `Handoff` makes; so every
theorem of `RotationProofs` and of `AgentProofs` holds of the composition, and
`HandoffProofs` cites them. `IngestedHasEnded` then takes two steps: the state the
daemon holds comes from a pod that has sent it, and so was signalled (from `Agent`); a
pod that was signalled is live no longer (`SignalledHasEnded`, from the kubelet's guard
and from `Rotation`, in which a pod never comes back to life). `ReliedServing` joins both
parts as well: the pods relied on are live (`ReliedLive`), so they were not signalled, and
an agent that was not signalled is in its loop or has not begun (`Agent`'s `EndAgrees`).

Verdicts and gate. A trimmed text, and the sum of a sequence, are about data of any size.
The lemma `Least` gives a non-empty set of numbers its least element; what a
sum is (`SumsExist`, `TotalFacts`, `TotalBounds`) is then proved from the least
length at which it would fail. `GateInv` adds to the two properties that the vectors are natural
numbers if the ledger's are.

Only model-checked: liveness (`PoolRefills`, `ServiceResumes`, `RotationContinues`,
`Answered`, `HandlerExits`, `CommandsAnswered`), which is out of the
prover's reach, as is ENABLED. The properties of the five runs that violate them are false.

## What the models show about the code

Violations with a run of their own (details in `PROJECT.json`, `findings`):

* when a client leaves during a save, overlapping writes can garble the file of a
  daemon that never crashed;
* a SIGTERM during `update_dag` or `update_semantic` deadlocks the handler;
* every state with a node is refused, for the spelling of its status;
* what a command reports as committed to the ledger's file is overwritten by a daemon
  that loaded the file before, one that is only starting included;
* a state that arrives in time is not handed over: it is stored in one field and sought
  in another.

Seen in the models, without a run. Rotation: an immediate injection that meets an empty
pool, as at the start of the daemon, is spent without a rotation; one failed create()
shrinks the pool for good; pods of a crashed daemon run on, one active at most for each crash; a
pod whose create() took effect while its reply was lost is known to nobody; all states are signed as `unknown-pod`, as no pod is told its
name. If the controller is used as a library, so that somebody writes its `pending_state`
(no code of the daemon does): the capture branch creates a new pod and forgets the warm
one it picked; a state captured between the read and the commit of a rotation is cleared;
a capture with a wrong signature makes every rotation fail after the delete. Agent: a
handler that raises loses the state, and the pod may go on until it is killed.
Verification: Z3's answer `unsat`, printed as a line, is not accepted, because it ends in `sat` and a
newline, and its error `unsat core is not available` is; an attempt whose verification
timed out is in no audit trail; a fact whose save failed is answered later with its hash, as a duplicate, whether it was stored or not. Files: a crash between the truncation and the write of a
file leaves a daemon that does not start, and so does a `--ground-vector` whose weight is
`NaN` or `inf`, at the second start, though the API answers "ok" until then. Ledger: the
vectors of the command line are there once more after every start; a command that times
out, or whose save the daemon could not finish, adds its vector a second time by itself.
Gate: the daemon has none
(`README.md:63` puts it between the ingest and the promotion); a negative weight can let a state pass that is far from the objective, and one that
is not a number lets every state pass from then on.

## Not modelled, and the plan

Open, in this order:

1. More to prove, from what there is: what is lost at most at a crash of the daemon, as a
   theorem about `FactStore` like `PromiseKept`.
2. The capture branch under liveness, for a controller used as a library: every rotation
   commits, or the pending state is a forged one for ever.
3. A second daemon during a rolling update (`k8s/manifests.yaml:88`): two rotation loops
   on the pods of one namespace. A second writer of a file is in `LedgerStore` already.

Not modelled: the filters of the CLI's queries, conjunctions over single records (the one
for `--status` ignores a word it does not know); of the queries the models have what they
read (`Listings`). Nor a process that ends without being told to, such as an agent without
`LLM_API_KEY`.

Left out for good: the text of manifests and messages, logging, HTTP routing, kubectl,
the embedding and the signatures as functions (a state is signed with a key, or is
not; a state whose content was altered under a good signature is not modelled), the scheduler and node affinity, `--epoch 0`, and the Rust shim, whose state
nothing updates and which the agent image does not run.
