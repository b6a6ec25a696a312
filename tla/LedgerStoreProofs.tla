-------------------------- MODULE LedgerStoreProofs --------------------------
(***************************************************************************)
(* Theorems about LedgerStore, for every set of commands, every choice of  *)
(* bad weights, and any number of starts, timeouts and failed writes.      *)
(***************************************************************************)
EXTENDS LedgerStore, TLAPS

-----------------------------------------------------------------------------
(* Names and changes.                                                      *)

\* The two ways of a command, and main(), are different writers.
LEMMA WriterNames ==
    /\ AtStart \in Writers /\ AtStart[2] = 0
    /\ \A c \in Commands :
          /\ ByDaemon(c) \in Writers /\ ByDaemon(c)[1] = c /\ ByDaemon(c)[2] = 0
          /\ ByHand(c) \in Writers /\ ByHand(c)[1] = c /\ ByHand(c)[2] = 1
          /\ ByDaemon(c) # AtStart /\ ByHand(c) # AtStart
    /\ \A c, d \in Commands :
          /\ ByDaemon(c) # ByHand(d)
          /\ ByDaemon(c) = ByDaemon(d) => c = d
          /\ ByHand(c) = ByHand(d) => c = d
    /\ \A w \in Writers :
          \/ w = AtStart
          \/ \E c \in Commands : w = ByDaemon(c) \/ w = ByHand(c)
BY AuthorsAssumption DEF Writers, AtStart, ByDaemon, ByHand

\* The vectors that are in a ledger.
LEMMA AddedFacts ==
    ASSUME NEW l \in SUBSET Changes
    PROVE  /\ Added(l) \subseteq Vectors
           /\ \A v \in Vectors : v \in Added(l) <=> <<"add", v>> \in l
<1>1. \A x \in l : x \in {"add", "neutralize"} \X Vectors
  BY DEF Changes
<1>2. Added(l) \subseteq Vectors
  BY <1>1 DEF Added
<1>3. ASSUME NEW v \in Vectors PROVE v \in Added(l) <=> <<"add", v>> \in l
  <2>1. ASSUME v \in Added(l) PROVE <<"add", v>> \in l
    <3>1. PICK y \in l : y[1] = "add" /\ y[2] = v
      BY <2>1 DEF Added
    <3>2. y = <<"add", v>>
      BY <1>1, <3>1
    <3>3. QED
      BY <3>1, <3>2
  <2>2. ASSUME <<"add", v>> \in l PROVE v \in Added(l)
    BY <2>2 DEF Added
  <2>3. QED
    BY <2>1, <2>2
<1>4. QED
  BY <1>2, <1>3

\* What commands and starts change.
LEMMA ChangeNames ==
    /\ \A c \in Adds : ByDaemon(c) \in Vectors /\ ByHand(c) \in Vectors
    /\ \A n \in 1..MaxStarts : <<Main, n>> \in Vectors
    /\ \A v \in Vectors : <<"add", v>> \in Changes /\ <<"neutralize", v>> \in Changes
BY DEF Vectors, Changes, ByDaemon, ByHand

-----------------------------------------------------------------------------
(* Types.                                                                  *)

\* The initial state has the types.
LEMMA TypeInit == Init => TypeOK
<1> SUFFICES ASSUME Init PROVE TypeOK
  OBVIOUS
<1>1. /\ handler \in [Commands -> Serving \cup {"none", "done"}]
      /\ reply \in [Commands -> {None, "ok", "error"}]
      /\ client \in [Commands -> {"idle", "waiting", "fallback", "writing", "done"}]
      /\ target \in [Commands -> Vectors \cup {None}]
      /\ told \in [Commands -> {None, "daemon", "disk", "error"}]
      /\ write \in [Writers -> Writes \cup {None}]
  BY DEF Init
<1>2. /\ starts \in 0..MaxStarts /\ timeouts \in 0..MaxTimeouts
      /\ saveFaults \in 0..MaxSaveFaults
  BY BoundsAssumption DEF Init
<1>3. QED
  BY <1>1, <1>2 DEF Init, TypeOK

\* A ledger on its way to the file is a write.
LEMMA QueuedType ==
    ASSUME TypeOK, NEW w \in Writers, NEW l \in SUBSET Changes, Queued(w, l)
    PROVE  /\ write' \in [Writers -> Writes \cup {None}]
           /\ write'[w] = [what |-> l, stage |-> "queued"] /\ write'[w] # None
           /\ \A u \in Writers : u # w => write'[u] = write[u]
BY NoneAssumption DEF TypeOK, Queued, Writes

\* What a command changes by itself is known when it has sent.
LEMMA OwnChangeType ==
    ASSUME HandlersAgree, NEW c \in Commands, client[c] # "idle"
    PROVE  OwnChange(c) \in Changes
BY ChangeNames DEF HandlersAgree, OwnChange

\* Every step keeps them.
LEMMA TypeStep == TypeOK /\ HandlersAgree /\ [Next]_vars => TypeOK'
<1> SUFFICES ASSUME TypeOK, HandlersAgree, [Next]_vars
             PROVE  TypeOK'
  OBVIOUS
<1>a. Added(mem) \subseteq Vectors /\ Added(disk) \subseteq Vectors
      /\ Added(mem \cup disk) \subseteq Vectors
  BY AddedFacts DEF TypeOK
<1>o. \A c \in Commands : client[c] # "idle" => OwnChange(c) \in Changes
  BY OwnChangeType
<1>w. /\ AtStart \in Writers
      /\ \A c \in Commands : ByDaemon(c) \in Writers /\ ByHand(c) \in Writers
  BY WriterNames
<1>i. Immediate \subseteq Commands
  BY AuthorsAssumption
<1> USE BoundsAssumption, <1>w, <1>i
<1> USE DEF TypeOK, Serving, memory, command, store, past, budget
<1>1. CASE Start
  <2>a. /\ starts + 1 \in 1..MaxStarts /\ starts' = starts + 1
        /\ mem' = disk \/ mem' = disk \cup {<<"add", <<Main, starts + 1>>>>}
    BY <1>1 DEF Start
  <2>b. <<"add", <<Main, starts + 1>>>> \in Changes
    BY <2>a, ChangeNames
  <2>1. mem' \subseteq Changes /\ starts' \in 0..MaxStarts
    BY <2>a, <2>b
  <2>2. write' \in [Writers -> Writes \cup {None}]
    BY <1>1, <2>1, QueuedType DEF Start
  <2>3. shared' \in BOOLEAN
    BY <1>1 DEF Start
  <2>4. QED
    BY <1>1, <2>1, <2>2, <2>3 DEF Start
<1>2. CASE Listen
  <2>1. starts \in 1..MaxStarts
    BY <1>2 DEF Listen, HandlersAgree
  <2>2. QED
    BY <1>2, <2>1 DEF Listen
<1>3. CASE Die
  BY <1>3 DEF Die
<1>4. ASSUME NEW c \in Commands, Send(c) PROVE TypeOK'
  <2>1. target' \in [Commands -> Vectors \cup {None}]
    <3>1. CASE c \in Adds
      BY <1>4, <3>1 DEF Send
    <3>2. CASE c \notin Adds
      BY <1>a, <1>4, <3>2 DEF Send
    <3>3. QED
      BY <3>1, <3>2
  <2>2. /\ client' \in [Commands -> {"idle", "waiting", "fallback", "writing", "done"}]
        /\ handler' \in [Commands -> Serving \cup {"none", "done"}]
    BY <1>4 DEF Send
  <2>3. UNCHANGED <<daemon, mem, lock, reply, told, bad, notified, store, write,
                    past, budget>>
    BY <1>4 DEF Send
  <2>4. QED
    BY <2>1, <2>2, <2>3
<1>5. ASSUME NEW c \in Commands, HandleAdd(c) PROVE TypeOK'
  <2>1. mem' \subseteq Changes
    BY <1>5, ChangeNames DEF HandleAdd
  <2>2. write' \in [Writers -> Writes \cup {None}]
    BY <1>5, <2>1, QueuedType DEF HandleAdd
  <2>3. QED
    BY <1>5, <2>1, <2>2 DEF HandleAdd
<1>6. ASSUME NEW c \in Commands, HandleNeutralize(c) PROVE TypeOK'
  <2>1. \/ mem' = mem
        \/ /\ mem' = mem \cup {<<"neutralize", target[c]>>}
           /\ target[c] \in Vectors
    BY <1>6, <1>a DEF HandleNeutralize
  <2>b. mem' \subseteq Changes
    BY <2>1, ChangeNames
  <2>2. write' \in [Writers -> Writes \cup {None}]
    BY <1>6, <2>b, QueuedType DEF HandleNeutralize
  <2>3. QED
    BY <1>6, <2>b, <2>2 DEF HandleNeutralize
<1>7. ASSUME NEW c \in Commands, Answer(c) PROVE TypeOK'
  BY <1>7 DEF Answer
<1>8. ASSUME NEW c \in Commands, Drop(c) PROVE TypeOK'
  BY <1>8 DEF Drop
<1>9. ASSUME NEW c \in Commands, Hear(c) PROVE TypeOK'
  BY <1>9 DEF Hear
<1>10. ASSUME NEW c \in Commands, GiveUpWaiting(c) PROVE TypeOK'
  BY <1>10 DEF GiveUpWaiting
<1>11. ASSUME NEW c \in Commands, LoadFile(c) PROVE TypeOK'
  <2>1. OwnChange(c) \in Changes
    BY <1>11, <1>o DEF LoadFile
  <2>2. write' \in [Writers -> Writes \cup {None}]
    BY <1>11, <2>1, QueuedType DEF LoadFile
  <2>3. shared' \in BOOLEAN
    BY <1>11 DEF LoadFile
  <2>4. QED
    BY <1>11, <2>2, <2>3 DEF LoadFile
<1>12. ASSUME NEW c \in Commands, Report(c) PROVE TypeOK'
  BY <1>12 DEF Report
<1>13. ASSUME NEW w \in Writers, WriteOpens(w) PROVE TypeOK'
  BY <1>13 DEF WriteOpens, Writes
<1>14. ASSUME NEW w \in Writers, WriteEnds(w) PROVE TypeOK'
  BY <1>14 DEF WriteEnds, Finished, Writes
<1>15. ASSUME NEW w \in Writers, WriteFails(w) PROVE TypeOK'
  BY <1>15 DEF WriteFails, Finished, Writes
<1>16. CASE UNCHANGED vars
  BY <1>16 DEF vars
<1>17. QED
  BY <1>1, <1>2, <1>3, <1>4, <1>5, <1>6, <1>7, <1>8, <1>9, <1>10, <1>11,
     <1>12, <1>13, <1>14, <1>15, <1>16
     DEF Next, HandlerStep, CommandStep, WriteStep

-----------------------------------------------------------------------------
(* The lock and the handlers.                                              *)

\* Initially nobody has sent anything.
LEMMA HandlersInit == Init => HandlersAgree
BY AuthorsAssumption DEF Init, HandlersAgree, Serving

\* The lock goes with the save, whoever leaves or dies, and a command sends once.
LEMMA HandlersStep == TypeOK /\ HandlersAgree /\ [Next]_vars => HandlersAgree'
<1> SUFFICES ASSUME TypeOK, HandlersAgree, [Next]_vars
             PROVE  HandlersAgree'
  OBVIOUS
<1>0. /\ handler \in [Commands -> Serving \cup {"none", "done"}]
      /\ reply \in [Commands -> {None, "ok", "error"}]
      /\ client \in [Commands -> {"idle", "waiting", "fallback", "writing", "done"}]
      /\ target \in [Commands -> Vectors \cup {None}]
      /\ told \in [Commands -> {None, "daemon", "disk", "error"}]
      /\ starts \in Nat /\ None \notin Commands
  BY BoundsAssumption, AuthorsAssumption DEF TypeOK
<1>a. Added(mem \cup disk) \subseteq Vectors
  BY AddedFacts DEF TypeOK
<1> USE <1>0 DEF HandlersAgree, DaemonChange, Serving, memory, command, store, past, budget
<1>1. CASE Start
  BY <1>1 DEF Start
<1>2. CASE Listen
  BY <1>2 DEF Listen
<1>3. CASE Die
  BY <1>3 DEF Die
<1>4. ASSUME NEW c \in Commands, Send(c) PROVE HandlersAgree'
  <2>1. client[c] = "idle" /\ (c \in Adds \/ target'[c] \in Vectors)
    BY <1>4, <1>a DEF Send
  <2>2. \A d \in Commands : d # c => target'[d] = target[d]
    BY <1>4 DEF Send
  <2>3. /\ client' = [client EXCEPT ![c] = client'[c]] /\ client'[c] # "idle"
        /\ client'[c] # "done" /\ told[c] = None
        /\ \/ UNCHANGED handler
           \/ /\ handler' = [handler EXCEPT ![c] = "locking"]
              /\ daemon = "up" /\ c \notin bad
        /\ UNCHANGED <<daemon, mem, lock, reply, told, bad, starts>>
    BY <1>4 DEF Send
  <2>4. \A d \in Commands : d # c =>
            /\ target'[d] = target[d] /\ handler'[d] = handler[d] /\ client'[d] = client[d]
            /\ DaemonChange(d)' = DaemonChange(d)
    BY <2>2, <2>3
  <2> HIDE DEF DaemonChange
  <2>5. /\ handler[c] = "none" /\ reply[c] = None /\ lock # c
        /\ handler'[c] \in {"none", "locking"} /\ client'[c] \notin {"idle", "done"}
        /\ handler'[c] = "locking" => daemon = "up" /\ c \notin bad
    BY <2>1, <2>3
  <2>6. QED
    BY <2>1, <2>3, <2>4, <2>5
<1>5. ASSUME NEW c \in Commands, HandleAdd(c) PROVE HandlersAgree'
  BY <1>5 DEF HandleAdd
<1>6. ASSUME NEW c \in Commands, HandleNeutralize(c) PROVE HandlersAgree'
  BY <1>6 DEF HandleNeutralize
<1>7. ASSUME NEW c \in Commands, Answer(c) PROVE HandlersAgree'
  <2>1. /\ handler[c] = "saving" /\ lock = c /\ lock' = None
        /\ handler' = [handler EXCEPT ![c] = "done"]
        /\ UNCHANGED <<daemon, mem, client, target, told, bad, starts>>
    BY <1>7 DEF Answer
  <2>2. \A d \in Commands : d # c => reply'[d] = reply[d]
    BY <1>7 DEF Answer
  <2>3. \A d \in Commands : DaemonChange(d)' = DaemonChange(d)
    BY <2>1
  <2> HIDE DEF DaemonChange
  <2>4. handler'[c] = "done" /\ client[c] # "idle"
    BY <2>1
  <2>5. \A d \in Commands : d # c => handler'[d] = handler[d] /\ handler[d] # "saving"
    BY <2>1
  <2>6. QED
    BY <2>1, <2>2, <2>3, <2>4, <2>5
<1>8. ASSUME NEW c \in Commands, Drop(c) PROVE HandlersAgree'
  BY <1>8 DEF Drop
<1>9. ASSUME NEW c \in Commands, Hear(c) PROVE HandlersAgree'
  BY <1>9 DEF Hear
<1>10. ASSUME NEW c \in Commands, GiveUpWaiting(c) PROVE HandlersAgree'
  BY <1>10 DEF GiveUpWaiting
<1>11. ASSUME NEW c \in Commands, LoadFile(c) PROVE HandlersAgree'
  BY <1>11 DEF LoadFile
<1>12. ASSUME NEW c \in Commands, Report(c) PROVE HandlersAgree'
  BY <1>12 DEF Report
<1>13. ASSUME NEW w \in Writers, WriteOpens(w) PROVE HandlersAgree'
  BY <1>13 DEF WriteOpens
<1>14. ASSUME NEW w \in Writers, WriteEnds(w) PROVE HandlersAgree'
  BY <1>14 DEF WriteEnds
<1>15. ASSUME NEW w \in Writers, WriteFails(w) PROVE HandlersAgree'
  BY <1>15 DEF WriteFails
<1>16. CASE UNCHANGED vars
  BY <1>16 DEF vars
<1>17. QED
  BY <1>1, <1>2, <1>3, <1>4, <1>5, <1>6, <1>7, <1>8, <1>9, <1>10, <1>11,
     <1>12, <1>13, <1>14, <1>15, <1>16
     DEF Next, HandlerStep, CommandStep, WriteStep

-----------------------------------------------------------------------------
(* A vector is added once.                                                 *)

\* A disturbance is not undone.
LEMMA UndisturbedBefore ==
    ASSUME TypeOK, [Next]_vars, Undisturbed' PROVE Undisturbed
<1>0. starts \in Nat /\ timeouts \in Nat /\ saveFaults \in Nat
  BY BoundsAssumption DEF TypeOK
<1> USE <1>0 DEF Undisturbed, memory, command, store, past, budget
<1>1. CASE Start
  BY <1>1 DEF Start
<1>2. CASE Listen
  BY <1>2 DEF Listen
<1>3. CASE Die
  BY <1>3 DEF Die
<1>4. ASSUME NEW c \in Commands, Send(c) PROVE Undisturbed
  BY <1>4 DEF Send
<1>5. ASSUME NEW c \in Commands, HandleAdd(c) PROVE Undisturbed
  BY <1>5 DEF HandleAdd
<1>6. ASSUME NEW c \in Commands, HandleNeutralize(c) PROVE Undisturbed
  BY <1>6 DEF HandleNeutralize
<1>7. ASSUME NEW c \in Commands, Answer(c) PROVE Undisturbed
  BY <1>7 DEF Answer
<1>8. ASSUME NEW c \in Commands, Drop(c) PROVE Undisturbed
  BY <1>8 DEF Drop
<1>9. ASSUME NEW c \in Commands, Hear(c) PROVE Undisturbed
  BY <1>9 DEF Hear
<1>10. ASSUME NEW c \in Commands, GiveUpWaiting(c) PROVE Undisturbed
  BY <1>10 DEF GiveUpWaiting
<1>11. ASSUME NEW c \in Commands, LoadFile(c) PROVE Undisturbed
  BY <1>11 DEF LoadFile
<1>12. ASSUME NEW c \in Commands, Report(c) PROVE Undisturbed
  BY <1>12 DEF Report
<1>13. ASSUME NEW w \in Writers, WriteOpens(w) PROVE Undisturbed
  BY <1>13 DEF WriteOpens
<1>14. ASSUME NEW w \in Writers, WriteEnds(w) PROVE Undisturbed
  BY <1>14 DEF WriteEnds
<1>15. ASSUME NEW w \in Writers, WriteFails(w) PROVE Undisturbed
  BY <1>15 DEF WriteFails
<1>16. CASE UNCHANGED vars
  BY <1>16 DEF vars
<1>17. QED
  BY <1>1, <1>2, <1>3, <1>4, <1>5, <1>6, <1>7, <1>8, <1>9, <1>10, <1>11,
     <1>12, <1>13, <1>14, <1>15, <1>16
     DEF Next, HandlerStep, CommandStep, WriteStep

\* What adding and neutralising do to the vectors of a ledger.
LEMMA AddedMore ==
    ASSUME NEW l, NEW v
    PROVE  /\ Added(l \cup {<<"add", v>>}) = Added(l) \cup {v}
           /\ Added(l \cup {<<"neutralize", v>>}) = Added(l)
<1>1. /\ <<"add", v>>[1] = "add" /\ <<"add", v>>[2] = v
      /\ <<"neutralize", v>>[1] # "add"
  OBVIOUS
<1>2. ASSUME NEW u PROVE u \in Added(l \cup {<<"add", v>>}) <=> u \in Added(l) \/ u = v
  BY <1>1, Zenon DEF Added
<1>3. ASSUME NEW u PROVE u \in Added(l \cup {<<"neutralize", v>>}) <=> u \in Added(l)
  BY <1>1, Zenon DEF Added
<1>4. QED
  BY <1>2, <1>3

\* The writes on their way are those that were, or fewer.
NoNewWrites ==
    \A w \in Writers : write'[w] # None =>
        write[w] # None /\ write'[w].what = write[w].what

\* A vector that is new somewhere is one of main(), or its command is adding it,
\* through the daemon or by hand.
Arrival(v) ==
    \/ v \in Everywhere
    \/ v[1] = Main
    \/ \E c \in Adds : v = ByDaemon(c) /\ handler[c] = "locking" /\ handler'[c] = "saving"
    \/ \E c \in Adds : v = ByHand(c) /\ client[c] = "fallback" /\ UNCHANGED handler

LEMMA ArrivalStep == ASSUME TypeOK, [Next]_vars PROVE \A v \in Everywhere' : Arrival(v)
<1> DEFINE Goal == \A v \in Everywhere' : Arrival(v)
<1>0. write \in [Writers -> Writes \cup {None}]
  BY DEF TypeOK
<1>w. /\ AtStart \in Writers
      /\ \A c \in Commands : ByDaemon(c) \in Writers /\ ByHand(c) \in Writers
  BY WriterNames
<1>e. /\ Added(mem) \subseteq Everywhere /\ Added(disk) \subseteq Everywhere
      /\ \A w \in Writers : write[w] # None => Added(write[w].what) \subseteq Everywhere
      /\ Added({}) = {}
  BY DEF Everywhere, Added
<1>g. ASSUME NEW S, \A v \in S : Arrival(v),
             Added(mem') \subseteq S, Added(disk') \subseteq S,
             \A w \in Writers : write'[w] # None => Added(write'[w].what) \subseteq S
      PROVE  Goal
  BY <1>g DEF Everywhere
<1>k. \A v \in Everywhere : Arrival(v)
  BY DEF Arrival
<1>n. ASSUME NoNewWrites, Added(mem') \subseteq Everywhere, Added(disk') \subseteq Everywhere
      PROVE  Goal
  BY <1>n, <1>e, <1>g, <1>k, Zenon DEF NoNewWrites
<1>q. ASSUME NEW w \in Writers, NEW l, Queued(w, l)
      PROVE  \A u \in Writers : write'[u] # None =>
                \/ u = w /\ write'[u].what = l
                \/ u # w /\ write[u] # None /\ write'[u].what = write[u].what
  BY <1>0, <1>q DEF Queued
<1>a. ASSUME NEW w \in Writers, NEW S, NEW l, Queued(w, l), \A v \in S : Arrival(v),
             Everywhere \subseteq S, Added(l) \subseteq S, Added(mem') \subseteq S,
             UNCHANGED disk
      PROVE  Goal
  <2>1. \A u \in Writers : write'[u] # None => Added(write'[u].what) \subseteq S
    BY <1>a, <1>q, <1>e
  <2>2. Added(disk') \subseteq S
    BY <1>a, <1>e
  <2>3. QED
    BY <1>a, <1>g, <2>1, <2>2, Zenon
<1> SUFFICES Goal
  OBVIOUS
<1> HIDE DEF Goal
<1> USE <1>0, <1>w DEF memory, command, store, past, budget
<1>1. CASE Start
  <2> DEFINE S == Everywhere \cup {<<Main, starts + 1>>}
  <2>1. Added(mem') \subseteq S
    <3>1. mem' \in {disk, disk \cup {<<"add", <<Main, starts + 1>>>>}}
      BY <1>1 DEF Start
    <3>2. Added(disk \cup {<<"add", <<Main, starts + 1>>>>})
             = Added(disk) \cup {<<Main, starts + 1>>}
      BY AddedMore, Zenon
    <3>3. QED
      BY <1>e, <3>1, <3>2
  <2>2. \A v \in S : Arrival(v)
    BY <1>k DEF Arrival
  <2>3. UNCHANGED disk /\ (Queued(AtStart, mem') \/ UNCHANGED write)
    BY <1>1 DEF Start
  <2>4. CASE Queued(AtStart, mem')
    <3>1. Everywhere \subseteq S
      OBVIOUS
    <3> HIDE DEF S
    <3>2. QED
      BY <1>a, <1>w, <2>1, <2>2, <2>3, <2>4, <3>1, Zenon
  <2>5. CASE UNCHANGED write
    <3>1. /\ Added(disk') \subseteq S
          /\ \A w \in Writers : write'[w] # None => Added(write'[w].what) \subseteq S
      BY <1>e, <2>3, <2>5
    <3> HIDE DEF S
    <3>2. QED
      BY <1>g, <2>1, <2>2, <3>1, Zenon
  <2>6. QED
    BY <2>3, <2>4, <2>5
<1>2. CASE Listen
  <2>1. NoNewWrites /\ UNCHANGED <<mem, disk>>
    BY <1>2 DEF Listen, NoNewWrites
  <2>2. QED
    BY <1>e, <1>n, <2>1
<1>3. CASE Die
  <2>1. NoNewWrites /\ mem' = {} /\ UNCHANGED disk
    BY <1>3 DEF Die, NoNewWrites
  <2>2. Added(mem') \subseteq Everywhere /\ Added(disk') \subseteq Everywhere
    BY <1>e, <2>1
  <2>3. QED
    BY <1>n, <2>1, <2>2, Zenon
<1>4. ASSUME NEW c \in Commands, Send(c) PROVE Goal
  <2>1. NoNewWrites /\ UNCHANGED <<mem, disk>>
    BY <1>4 DEF Send, NoNewWrites
  <2>2. QED
    BY <1>e, <1>n, <2>1
<1>5. ASSUME NEW c \in Commands, HandleAdd(c) PROVE Goal
  <2> DEFINE S == Everywhere \cup {ByDaemon(c)}
  <2>1. Added(mem') \subseteq S
    <3>1. mem' = mem \cup {<<"add", ByDaemon(c)>>}
      BY <1>5 DEF HandleAdd
    <3>2. Added(mem \cup {<<"add", ByDaemon(c)>>}) = Added(mem) \cup {ByDaemon(c)}
      BY AddedMore, Zenon
    <3>3. QED
      BY <1>e, <3>1, <3>2
  <2>2. c \in Adds /\ handler[c] = "locking" /\ handler'[c] = "saving"
    BY <1>5 DEF HandleAdd, TypeOK, Serving
  <2>3. \A v \in S : Arrival(v)
    BY <1>k, <2>2 DEF Arrival
  <2>4. UNCHANGED disk /\ Queued(ByDaemon(c), mem')
    BY <1>5 DEF HandleAdd
  <2>5. QED
    BY <1>a, <2>1, <2>3, <2>4
<1>6. ASSUME NEW c \in Commands, HandleNeutralize(c) PROVE Goal
  <2>1. Added(mem') \subseteq Everywhere
    <3>1. mem' \in {mem, mem \cup {<<"neutralize", target[c]>>}}
      BY <1>6 DEF HandleNeutralize
    <3>2. Added(mem \cup {<<"neutralize", target[c]>>}) = Added(mem)
      BY AddedMore, Zenon
    <3>3. QED
      BY <1>e, <3>1, <3>2
  <2>2. UNCHANGED disk /\ (Queued(ByDaemon(c), mem') \/ UNCHANGED write)
    BY <1>6 DEF HandleNeutralize
  <2>3. CASE Queued(ByDaemon(c), mem')
    BY <1>a, <1>k, <2>1, <2>2, <2>3
  <2>4. CASE UNCHANGED write
    BY <1>e, <1>g, <1>k, <2>1, <2>2, <2>4
  <2>5. QED
    BY <2>2, <2>3, <2>4
<1>7. ASSUME NEW c \in Commands, Answer(c) PROVE Goal
  <2>1. NoNewWrites /\ UNCHANGED <<mem, disk>>
    BY <1>7 DEF Answer, NoNewWrites
  <2>2. QED
    BY <1>e, <1>n, <2>1
<1>8. ASSUME NEW c \in Commands, Drop(c) PROVE Goal
  <2>1. NoNewWrites /\ UNCHANGED <<mem, disk>>
    BY <1>8 DEF Drop, NoNewWrites
  <2>2. QED
    BY <1>e, <1>n, <2>1
<1>9. ASSUME NEW c \in Commands, Hear(c) PROVE Goal
  <2>1. NoNewWrites /\ UNCHANGED <<mem, disk>>
    BY <1>9 DEF Hear, NoNewWrites
  <2>2. QED
    BY <1>e, <1>n, <2>1
<1>10. ASSUME NEW c \in Commands, GiveUpWaiting(c) PROVE Goal
  <2>1. NoNewWrites /\ UNCHANGED <<mem, disk>>
    BY <1>10 DEF GiveUpWaiting, NoNewWrites
  <2>2. QED
    BY <1>e, <1>n, <2>1
<1>11. ASSUME NEW c \in Commands, LoadFile(c) PROVE Goal
  <2> DEFINE S == IF c \in Adds THEN Everywhere \cup {ByHand(c)} ELSE Everywhere
  <2> DEFINE l == disk \cup {OwnChange(c)}
  <2>1. Added(l) \subseteq S
    <3>1. CASE c \in Adds
      <4>1. Added(disk \cup {<<"add", ByHand(c)>>}) = Added(disk) \cup {ByHand(c)}
        BY AddedMore, Zenon
      <4>2. QED
        BY <1>e, <3>1, <4>1 DEF OwnChange
    <3>2. CASE c \notin Adds
      <4>1. Added(disk \cup {<<"neutralize", target[c]>>}) = Added(disk)
        BY AddedMore, Zenon
      <4>2. QED
        BY <1>e, <3>2, <4>1 DEF OwnChange
    <3>3. QED
      BY <3>1, <3>2
  <2>2. client[c] = "fallback" /\ UNCHANGED <<handler, mem, disk>>
    BY <1>11 DEF LoadFile
  <2>3. \A v \in S : Arrival(v)
    BY <1>k, <2>2 DEF Arrival
  <2>4. Everywhere \subseteq S /\ Added(mem') \subseteq S
    BY <1>e, <2>2
  <2>5. Queued(ByHand(c), l) \/ UNCHANGED write
    BY <1>11 DEF LoadFile
  <2> HIDE DEF S, l
  <2>6. CASE Queued(ByHand(c), l)
    BY <1>a, <2>1, <2>2, <2>3, <2>4, <2>6
  <2>7. CASE UNCHANGED write
    BY <1>e, <1>n, <2>2, <2>7 DEF NoNewWrites
  <2>8. QED
    BY <2>5, <2>6, <2>7
<1>12. ASSUME NEW c \in Commands, Report(c) PROVE Goal
  <2>1. NoNewWrites /\ UNCHANGED <<mem, disk>>
    BY <1>12 DEF Report, NoNewWrites
  <2>2. QED
    BY <1>e, <1>n, <2>1
<1>13. ASSUME NEW w \in Writers, WriteOpens(w) PROVE Goal
  <2>1. NoNewWrites /\ disk' = {} /\ UNCHANGED mem
    BY <1>13 DEF WriteOpens, NoNewWrites, Writes
  <2>2. Added(mem') \subseteq Everywhere /\ Added(disk') \subseteq Everywhere
    BY <1>e, <2>1
  <2>3. QED
    BY <1>n, <2>1, <2>2, Zenon
<1>14. ASSUME NEW w \in Writers, WriteEnds(w) PROVE Goal
  <2>1. NoNewWrites /\ disk' \in {{}, write[w].what} /\ UNCHANGED mem /\ write[w] # None
    BY <1>14 DEF WriteEnds, Finished, NoNewWrites, Writes
  <2>2. Added(mem') \subseteq Everywhere /\ Added(disk') \subseteq Everywhere
    BY <1>e, <2>1
  <2>3. QED
    BY <1>n, <2>1, <2>2, Zenon
<1>15. ASSUME NEW w \in Writers, WriteFails(w) PROVE Goal
  <2>1. NoNewWrites /\ disk' \in {{}, disk} /\ UNCHANGED mem
    BY <1>15 DEF WriteFails, Finished, NoNewWrites, Writes
  <2>2. Added(mem') \subseteq Everywhere /\ Added(disk') \subseteq Everywhere
    BY <1>e, <2>1
  <2>3. QED
    BY <1>n, <2>1, <2>2, Zenon
<1>16. CASE UNCHANGED vars
  <2>1. NoNewWrites /\ UNCHANGED <<mem, disk>>
    BY <1>16 DEF vars, NoNewWrites
  <2>2. QED
    BY <1>e, <1>n, <2>1
<1>17. QED
  BY <1>1, <1>2, <1>3, <1>4, <1>5, <1>6, <1>7, <1>8, <1>9, <1>10, <1>11,
     <1>12, <1>13, <1>14, <1>15, <1>16
     DEF Next, HandlerStep, CommandStep, WriteStep

\* Initially there are no vectors.
LEMMA OneWayInit == Init => OneWay
<1>1. Init => Everywhere = {}
  BY DEF Init, Everywhere, Added
<1>2. QED
  BY <1>1, AuthorsAssumption, NoneAssumption DEF Init, OneWay, Serving

\* Whoever is served waits for the answer, and the answer is "ok".
LEMMA OneWayStep == TypeOK /\ HandlersAgree /\ OneWay /\ [Next]_vars => OneWay'
<1> SUFFICES ASSUME TypeOK, HandlersAgree, OneWay, [Next]_vars, Undisturbed'
             PROVE  OneWay'
  BY DEF OneWay
<1> DEFINE NoneFailed == \A w \in Writers : write[w] # None => write[w].stage # "failed"
<1> DEFINE Served(c) == /\ handler[c] # "none" => client[c] \in {"waiting", "done"}
                        /\ handler[c] \in Serving => client[c] = "waiting"
                        /\ client[c] = "waiting" => handler[c] # "none"
                        /\ reply[c] # "error"
<1> DEFINE Onward(c) == /\ handler[c] # "none" => handler'[c] # "none"
                        /\ client[c] # "idle" => client'[c] # "idle"
                        /\ client[c] # "idle" /\ handler[c] = "none" => handler'[c] = "none"
<1> DEFINE Goal == NoneFailed' /\ \A c \in Adds : Served(c)' /\ Onward(c)
<1>u. Undisturbed
  BY UndisturbedBefore
<1>0. /\ handler \in [Commands -> Serving \cup {"none", "done"}]
      /\ reply \in [Commands -> {None, "ok", "error"}]
      /\ client \in [Commands -> {"idle", "waiting", "fallback", "writing", "done"}]
      /\ write \in [Writers -> Writes \cup {None}]
      /\ Adds \subseteq Commands
      /\ timeouts \in Nat /\ saveFaults \in Nat /\ starts \in Nat
  BY BoundsAssumption, AuthorsAssumption DEF TypeOK
<1>s. NoneFailed /\ \A c \in Adds : Served(c)
  BY <1>u DEF OneWay
<1>h. /\ \A c \in Commands :
            /\ handler[c] \in Serving => reply[c] = None
            /\ client[c] = "idle" => handler[c] = "none" /\ reply[c] = None
      /\ daemon # "down" => starts > 0
  BY DEF HandlersAgree
<1>w. /\ AtStart \in Writers
      /\ \A c \in Commands : ByDaemon(c) \in Writers /\ ByHand(c) \in Writers
  BY WriterNames
<1>v. \A c \in Adds :
         /\ ByDaemon(c) \in Everywhere => handler[c] # "none"
         /\ ByHand(c) \in Everywhere => handler[c] = "none" /\ client[c] # "idle"
  BY <1>u DEF OneWay
<1>g. ASSUME Goal PROVE OneWay'
  <2>1. ASSUME NEW c \in Adds, ByDaemon(c) \in Everywhere' PROVE handler'[c] # "none"
    <3>1. /\ ByDaemon(c)[1] # Main
          /\ \A d \in Adds : ByDaemon(c) # ByHand(d) /\ (ByDaemon(c) = ByDaemon(d) => c = d)
      BY <1>0, AuthorsAssumption, WriterNames
    <3>2. ByDaemon(c) \in Everywhere \/ handler'[c] = "saving"
      BY <2>1, <3>1, ArrivalStep DEF Arrival
    <3>3. QED
      BY <1>g, <1>v, <3>2
  <2>2. ASSUME NEW c \in Adds, ByHand(c) \in Everywhere'
        PROVE  handler'[c] = "none" /\ client'[c] # "idle"
    <3>1. /\ ByHand(c)[1] # Main
          /\ \A d \in Adds : ByHand(c) # ByDaemon(d) /\ (ByHand(c) = ByHand(d) => c = d)
      BY <1>0, AuthorsAssumption, WriterNames
    <3>2. ByHand(c) \in Everywhere \/ (client[c] = "fallback" /\ UNCHANGED handler)
      <4>1. Arrival(ByHand(c))
        BY <2>2, ArrivalStep
      <4>2. QED
        BY <3>1, <4>1, Zenon DEF Arrival
    <3>3. handler[c] = "none" /\ client[c] # "idle"
      BY <1>s, <1>v, <3>2
    <3>4. QED
      BY <1>g, <3>3
  <2>3. QED
    BY <1>g, <2>1, <2>2 DEF OneWay
<1> SUFFICES Goal
  BY <1>g
<1> HIDE DEF OneWay, HandlersAgree, TypeOK
<1> USE <1>0, <1>s, <1>h, <1>w DEF Serving, Writes, memory, command, store, past, budget
<1>1. CASE Start
  BY <1>1 DEF Start, Queued
<1>2. CASE Listen
  BY <1>2 DEF Listen
<1>3. CASE Die
  BY <1>3, <1>u DEF Die, Undisturbed
<1>4. ASSUME NEW c \in Commands, Send(c) PROVE Goal
  BY <1>4 DEF Send
<1>5. ASSUME NEW c \in Commands, HandleAdd(c) PROVE Goal
  BY <1>5 DEF HandleAdd, Queued
<1>6. ASSUME NEW c \in Commands, HandleNeutralize(c) PROVE Goal
  BY <1>6 DEF HandleNeutralize, Queued
<1>7. ASSUME NEW c \in Commands, Answer(c) PROVE Goal
  BY <1>7 DEF Answer, Saved, Stored
<1>8. ASSUME NEW c \in Commands, Drop(c) PROVE Goal
  BY <1>8 DEF Drop
<1>9. ASSUME NEW c \in Commands, Hear(c) PROVE Goal
  BY <1>9 DEF Hear
<1>10. ASSUME NEW c \in Commands, GiveUpWaiting(c) PROVE Goal
  BY <1>10 DEF GiveUpWaiting, Undisturbed
<1>11. ASSUME NEW c \in Commands, LoadFile(c) PROVE Goal
  BY <1>11 DEF LoadFile, Queued
<1>12. ASSUME NEW c \in Commands, Report(c) PROVE Goal
  BY <1>12 DEF Report, Saved, Stored
<1>13. ASSUME NEW w \in Writers, WriteOpens(w) PROVE Goal
  BY <1>13 DEF WriteOpens
<1>14. ASSUME NEW w \in Writers, WriteEnds(w) PROVE Goal
  BY <1>14 DEF WriteEnds, Finished
<1>15. ASSUME NEW w \in Writers, WriteFails(w) PROVE Goal
  BY <1>15 DEF WriteFails, Undisturbed
<1>16. CASE UNCHANGED vars
  BY <1>16 DEF vars
<1>17. QED
  BY <1>1, <1>2, <1>3, <1>4, <1>5, <1>6, <1>7, <1>8, <1>9, <1>10, <1>11,
     <1>12, <1>13, <1>14, <1>15, <1>16
     DEF Next, HandlerStep, CommandStep, WriteStep

-----------------------------------------------------------------------------
(* One at a time.                                                          *)

\* Nobody forgets that two have met at the file, or that a command gave up.
LEMMA AloneBefore == ASSUME TypeOK, [Next]_vars, Alone' PROVE Alone
<1>1. /\ shared' = shared \/ shared' = TRUE \/ shared' = (shared \/ ByHandNow # {})
           \/ shared' = (shared \/ daemon # "down" \/ ByHandNow # {})
      /\ timeouts' = timeouts \/ timeouts' = timeouts + 1
  BY DEF Next, HandlerStep, CommandStep, WriteStep, vars, past, budget, Start,
     Listen, Die, Send, HandleAdd, HandleNeutralize, Answer, Drop, Hear,
     GiveUpWaiting, LoadFile, Report, WriteOpens, WriteEnds, WriteFails
<1>2. ~shared' /\ timeouts' = 0
  BY DEF Alone
<1>3. ~shared
  BY <1>1, <1>2, Zenon
<1>4. timeouts = 0
  BY <1>1, <1>2, BoundsAssumption DEF TypeOK
<1>5. QED
  BY <1>3, <1>4 DEF Alone

\* Initially nobody writes.
LEMMA OneWriterInit == Init => OneWriter
BY WriterNames DEF Init, OneWriter, ByHandNow, Serving

\* The daemon works on the file under its lock, or before it serves; a command
\* by hand only meets a daemon that is down.
LEMMA OneWriterStep ==
    TypeOK /\ HandlersAgree /\ OneWriter /\ [Next]_vars => OneWriter'
<1> SUFFICES ASSUME TypeOK, HandlersAgree, OneWriter, [Next]_vars, Alone'
             PROVE  OneWriter'
  BY DEF OneWriter
<1>0. /\ handler \in [Commands -> Serving \cup {"none", "done"}]
      /\ reply \in [Commands -> {None, "ok", "error"}]
      /\ client \in [Commands -> {"idle", "waiting", "fallback", "writing", "done"}]
      /\ write \in [Writers -> Writes \cup {None}]
      /\ daemon \in {"down", "starting", "up"}
  BY DEF TypeOK
<1>a. /\ Alone /\ timeouts' = 0 /\ ~shared'
      /\ timeouts = 0 /\ ~shared
  BY AloneBefore DEF Alone
<1>q. ASSUME NEW w \in Writers, NEW l \in SUBSET Changes, Queued(w, l)
      PROVE  /\ write'[w] # None
             /\ \A u \in Writers : u # w => write'[u] = write[u]
  BY <1>q, QueuedType
<1>m. mem' \subseteq Changes
  BY TypeStep DEF TypeOK
<1>h. /\ \A c \in Commands : lock = c <=> handler[c] = "saving"
      /\ \A c \in Commands :
            handler[c] \in Serving => daemon = "up" /\ reply[c] = None
      /\ \A c \in Commands : client[c] = "idle" => handler[c] = "none"
  BY DEF HandlersAgree
<1>n. None \notin Writes /\ None \notin Commands
  BY NoneAssumption, AuthorsAssumption
<1> USE <1>0, <1>a, <1>h, <1>n, WriterNames
<1> USE DEF OneWriter, ByHandNow, Serving, Writes, memory, command, store, past, budget
<1>1. CASE Start
  <2>1. \/ Queued(AtStart, mem') /\ StartVector
        \/ UNCHANGED write /\ ~StartVector
    BY <1>1 DEF Start
  <2>2. /\ daemon = "down" /\ daemon' = "starting" /\ ByHandNow = {}
        /\ UNCHANGED <<handler, client>>
    BY <1>1 DEF Start
  <2>3. QED
    BY <1>m, <1>q, <2>1, <2>2
<1>2. CASE Listen
  BY <1>2 DEF Listen, Saved
<1>3. CASE Die
  BY <1>3 DEF Die
<1>4. ASSUME NEW c \in Commands, Send(c) PROVE OneWriter'
  BY <1>4 DEF Send
<1>5. ASSUME NEW c \in Commands, HandleAdd(c) PROVE OneWriter'
  <2>1. Queued(ByDaemon(c), mem')
    BY <1>5 DEF HandleAdd
  <2>2. /\ handler[c] = "locking" /\ handler' = [handler EXCEPT ![c] = "saving"]
        /\ UNCHANGED <<daemon, client>>
    BY <1>5 DEF HandleAdd
  <2>3. QED
    BY <1>m, <1>q, <2>1, <2>2
<1>6. ASSUME NEW c \in Commands, HandleNeutralize(c) PROVE OneWriter'
  <2>1. CASE Queued(ByDaemon(c), mem') /\ handler' = [handler EXCEPT ![c] = "saving"]
    <3>1. handler[c] = "locking" /\ UNCHANGED <<daemon, client>>
      BY <1>6 DEF HandleNeutralize
    <3>2. QED
      BY <1>m, <1>q, <2>1, <3>1
  <2>2. CASE UNCHANGED write /\ handler' = [handler EXCEPT ![c] = "done"]
    BY <1>6, <2>2 DEF HandleNeutralize
  <2>3. QED
    BY <1>6, <2>1, <2>2 DEF HandleNeutralize
<1>7. ASSUME NEW c \in Commands, Answer(c) PROVE OneWriter'
  BY <1>7 DEF Answer, Saved
<1>8. ASSUME NEW c \in Commands, Drop(c) PROVE OneWriter'
  BY <1>8 DEF Drop, Saved
<1>9. ASSUME NEW c \in Commands, Hear(c) PROVE OneWriter'
  BY <1>9 DEF Hear
<1>10. ASSUME NEW c \in Commands, GiveUpWaiting(c) PROVE OneWriter'
  BY <1>10 DEF GiveUpWaiting
<1>11. ASSUME NEW c \in Commands, LoadFile(c) PROVE OneWriter'
  <2>1. CASE UNCHANGED write /\ client' = [client EXCEPT ![c] = "done"]
    BY <1>11, <2>1 DEF LoadFile
  <2>2. CASE /\ Queued(ByHand(c), disk \cup {OwnChange(c)})
             /\ client' = [client EXCEPT ![c] = "writing"]
             /\ shared' = (shared \/ daemon # "down" \/ ByHandNow # {})
    <3>1. daemon = "down" /\ ByHandNow = {} /\ client[c] = "fallback"
      BY <1>11, <2>2 DEF LoadFile
    <3>2. UNCHANGED <<daemon, handler>>
      BY <1>11 DEF LoadFile
    <3>3. disk \cup {OwnChange(c)} \in SUBSET Changes
      BY <3>1, OwnChangeType DEF TypeOK
    <3>4. QED
      BY <1>q, <2>2, <3>1, <3>2, <3>3
  <2>3. QED
    BY <1>11, <2>1, <2>2 DEF LoadFile
<1>12. ASSUME NEW c \in Commands, Report(c) PROVE OneWriter'
  BY <1>12 DEF Report, Saved
<1>13. ASSUME NEW w \in Writers, WriteOpens(w) PROVE OneWriter'
  BY <1>13 DEF WriteOpens
<1>14. ASSUME NEW w \in Writers, WriteEnds(w) PROVE OneWriter'
  BY <1>14 DEF WriteEnds, Finished, Awaited
<1>15. ASSUME NEW w \in Writers, WriteFails(w) PROVE OneWriter'
  BY <1>15 DEF WriteFails, Finished, Awaited
<1>16. CASE UNCHANGED vars
  BY <1>16 DEF vars
<1>17. QED
  BY <1>1, <1>2, <1>3, <1>4, <1>5, <1>6, <1>7, <1>8, <1>9, <1>10, <1>11,
     <1>12, <1>13, <1>14, <1>15, <1>16
     DEF Next, HandlerStep, CommandStep, WriteStep

-----------------------------------------------------------------------------
(* What no step can lose.                                                  *)

\* Kept, after the step.
KeptAfter(x) ==
    /\ daemon' # "down" => x \in mem'
    /\ file' = "whole" => x \in disk'
    /\ \A w \in Writers : write'[w] # None => x \in write'[w].what

\* A change that is everywhere stays everywhere, even when several write: what
\* is loaded has it, what is written has it, and a torn file is not read.
LEMMA KeptStep ==
    ASSUME TypeOK, HandlersAgree, [Next]_vars, NEW x, Kept(x)
    PROVE  KeptAfter(x)
<1>0. /\ write \in [Writers -> Writes \cup {None}]
      /\ \A w \in Writers : write[w] # None => write[w] \in Writes
      /\ mem \subseteq Changes /\ disk \subseteq Changes
  BY DEF TypeOK
<1>h. \A c \in Commands : handler[c] \in Serving => daemon = "up"
  BY DEF HandlersAgree
<1>m. mem' \subseteq Changes
  BY TypeStep DEF TypeOK
<1>q. ASSUME NEW w \in Writers, NEW l \in SUBSET Changes, Queued(w, l), x \in l
      PROVE  \A u \in Writers : write'[u] # None => x \in write'[u].what
  <2>1. /\ write'[w] = [what |-> l, stage |-> "queued"]
        /\ \A u \in Writers : u # w => write'[u] = write[u]
    BY <1>q, QueuedType
  <2>2. write'[w].what = l
    BY <2>1
  <2>3. QED
    BY <1>q, <2>1, <2>2 DEF Kept
<1> USE <1>0, <1>h, WriterNames
<1> USE DEF Kept, KeptAfter, Writes, Serving, memory, command, store, past, budget
<1>1. CASE Start
  <2>1. x \in disk /\ x \in mem' /\ UNCHANGED store
    BY <1>1 DEF Start, Readable
  <2>2. Queued(AtStart, mem') \/ UNCHANGED write
    BY <1>1 DEF Start
  <2>3. QED
    BY <1>m, <1>q, <2>1, <2>2
<1>2. CASE Listen
  BY <1>2 DEF Listen
<1>3. CASE Die
  BY <1>3 DEF Die
<1>4. ASSUME NEW c \in Commands, Send(c) PROVE KeptAfter(x)
  BY <1>4 DEF Send
<1>5. ASSUME NEW c \in Commands, HandleAdd(c) PROVE KeptAfter(x)
  <2>1. x \in mem' /\ Queued(ByDaemon(c), mem') /\ UNCHANGED store
    BY <1>5 DEF HandleAdd
  <2>2. QED
    BY <1>m, <1>q, <2>1
<1>6. ASSUME NEW c \in Commands, HandleNeutralize(c) PROVE KeptAfter(x)
  <2>1. x \in mem' /\ UNCHANGED store
    BY <1>6 DEF HandleNeutralize
  <2>2. Queued(ByDaemon(c), mem') \/ UNCHANGED write
    BY <1>6 DEF HandleNeutralize
  <2>3. QED
    BY <1>m, <1>q, <2>1, <2>2
<1>7. ASSUME NEW c \in Commands, Answer(c) PROVE KeptAfter(x)
  BY <1>7 DEF Answer
<1>8. ASSUME NEW c \in Commands, Drop(c) PROVE KeptAfter(x)
  BY <1>8 DEF Drop
<1>9. ASSUME NEW c \in Commands, Hear(c) PROVE KeptAfter(x)
  BY <1>9 DEF Hear
<1>10. ASSUME NEW c \in Commands, GiveUpWaiting(c) PROVE KeptAfter(x)
  BY <1>10 DEF GiveUpWaiting
<1>11. ASSUME NEW c \in Commands, LoadFile(c) PROVE KeptAfter(x)
  <2>1. client[c] # "idle" /\ UNCHANGED <<daemon, mem, store>>
    BY <1>11 DEF LoadFile
  <2>2. \/ UNCHANGED write
        \/ x \in disk /\ Queued(ByHand(c), disk \cup {OwnChange(c)})
    BY <1>11 DEF LoadFile, Readable
  <2>3. disk \cup {OwnChange(c)} \in SUBSET Changes
    BY <2>1, OwnChangeType
  <2>4. QED
    BY <1>q, <2>1, <2>2, <2>3
<1>12. ASSUME NEW c \in Commands, Report(c) PROVE KeptAfter(x)
  BY <1>12 DEF Report
<1>13. ASSUME NEW w \in Writers, WriteOpens(w) PROVE KeptAfter(x)
  BY <1>13 DEF WriteOpens
<1>14. ASSUME NEW w \in Writers, WriteEnds(w) PROVE KeptAfter(x)
  BY <1>14 DEF WriteEnds, Finished
<1>15. ASSUME NEW w \in Writers, WriteFails(w) PROVE KeptAfter(x)
  BY <1>15 DEF WriteFails, Finished
<1>16. CASE UNCHANGED vars
  BY <1>16 DEF vars
<1>17. QED
  BY <1>1, <1>2, <1>3, <1>4, <1>5, <1>6, <1>7, <1>8, <1>9, <1>10, <1>11,
     <1>12, <1>13, <1>14, <1>15, <1>16
     DEF Next, HandlerStep, CommandStep, WriteStep

-----------------------------------------------------------------------------
(* The file, while one works on it at a time.                              *)

\* There is at most one write, and it is the daemon's unless the daemon is down.
LEMMA OneWrite ==
    ASSUME TypeOK, HandlersAgree, OneWriter, Alone
    PROVE  /\ \A u, w \in Writers : write[u] # None /\ write[w] # None => u = w
           /\ \A w \in Writers : write[w] # None => (w[2] = 0 <=> daemon # "down")
           /\ \A w \in Writers : write[w] # None => Awaited(w)
<1>1. /\ daemon # "down" => ByHandNow = {}
      /\ \A c, d \in ByHandNow : c = d
      /\ write[AtStart] # None => daemon = "starting"
      /\ \A c \in Commands :
            /\ write[ByDaemon(c)] # None => handler[c] = "saving"
            /\ write[ByHand(c)] # None => c \in ByHandNow
  BY DEF OneWriter, ByHandNow
<1>2. \A c \in Commands :
          handler[c] = "saving" => daemon = "up" /\ lock = c
  BY DEF HandlersAgree, Serving
<1>3. \A w \in Writers : write[w] # None =>
          \/ w = AtStart /\ daemon = "starting"
          \/ \E c \in Commands : w = ByDaemon(c) /\ daemon = "up" /\ lock = c /\ handler[c] = "saving"
          \/ \E c \in ByHandNow : w = ByHand(c) /\ daemon = "down"
  BY <1>1, <1>2, WriterNames
<1>4. \A u, w \in Writers : write[u] # None /\ write[w] # None => u = w
  BY <1>1, <1>3
<1>5. \A w \in Writers : write[w] # None => (w[2] = 0 <=> daemon # "down")
  BY <1>3, WriterNames DEF ByHandNow
<1>6. \A w \in Writers : write[w] # None => Awaited(w)
  BY <1>3, WriterNames DEF Awaited, ByHandNow
<1>7. QED
  BY <1>4, <1>5, <1>6

\* Initially the file is whole and empty.
LEMMA StoreInit == Init => StoreAgrees
BY DEF Init, StoreAgrees, ByHandNow

\* The daemon has loaded all there is before it writes, and a command by hand
\* writes what it has loaded: with one at work, nothing comes in between.
LEMMA StoreStep ==
    TypeOK /\ HandlersAgree /\ OneWriter /\ StoreAgrees /\ [Next]_vars => StoreAgrees'
<1> SUFFICES ASSUME TypeOK, HandlersAgree, OneWriter, StoreAgrees, [Next]_vars, Alone'
             PROVE  StoreAgrees'
  BY DEF StoreAgrees
<1>0. /\ handler \in [Commands -> Serving \cup {"none", "done"}]
      /\ client \in [Commands -> {"idle", "waiting", "fallback", "writing", "done"}]
      /\ target \in [Commands -> Vectors \cup {None}]
      /\ write \in [Writers -> Writes \cup {None}]
      /\ mem \subseteq Changes /\ disk \subseteq Changes
      /\ daemon \in {"down", "starting", "up"}
  BY DEF TypeOK
<1>a. /\ Alone /\ timeouts' = 0 /\ ~shared'
      /\ timeouts = 0 /\ ~shared
  BY AloneBefore DEF Alone
<1>m. mem' \subseteq Changes
  BY TypeStep DEF TypeOK
<1>h. /\ \A c \in Commands : lock = c <=> handler[c] = "saving"
      /\ \A c \in Commands : handler[c] \in Serving => daemon = "up" /\ c \notin bad
  BY DEF HandlersAgree
<1>o. /\ daemon # "down" => ByHandNow = {}
      /\ \A c, d \in ByHandNow : c = d
      /\ write[AtStart] # None <=> daemon = "starting" /\ StartVector
      /\ \A c \in Commands :
            /\ handler[c] \in Serving => client[c] = "waiting"
            /\ write[ByDaemon(c)] # None <=> handler[c] = "saving"
            /\ write[ByHand(c)] # None <=> client[c] = "writing"
  BY <1>a DEF OneWriter
<1>u. /\ \A u, w \in Writers : write[u] # None /\ write[w] # None => u = w
      /\ \A w \in Writers : write[w] # None => (w[2] = 0 <=> daemon # "down")
      /\ \A w \in Writers : write[w] # None => Awaited(w)
  BY <1>a, OneWrite
<1>s. /\ file # "whole" => disk = {}
      /\ daemon # "down" => disk \subseteq mem
      /\ daemon # "down" => \A v \in Added(mem) : v[1] \in bad => v[1] = Main
      /\ daemon = "starting" /\ StartVector => <<"add", <<Main, starts>>>> \in mem
      /\ \A w \in Writers : write[w] # None =>
            /\ write[w].stage = "open" => file = "truncated"
            /\ write[w].stage = "stored" => file = "whole" /\ disk = write[w].what
            /\ w[2] = 0 => write[w].what = mem
      /\ \A c \in ByHandNow :
            /\ OwnChange(c) \in write[ByHand(c)].what
            /\ write[ByHand(c)].stage = "queued" =>
                  file = "whole" /\ write[ByHand(c)].what = disk \cup {OwnChange(c)}
  BY <1>a DEF StoreAgrees
<1>q. ASSUME NEW w \in Writers, NEW l \in SUBSET Changes, Queued(w, l)
      PROVE  /\ write'[w] # None /\ write'[w].what = l /\ write'[w].stage = "queued"
             /\ \A u \in Writers : u # w => write'[u] = write[u]
  <2>1. /\ write'[w] = [what |-> l, stage |-> "queued"] /\ write'[w] # None
        /\ \A u \in Writers : u # w => write'[u] = write[u]
    BY <1>q, QueuedType
  <2>2. write'[w].what = l /\ write'[w].stage = "queued"
    BY <2>1
  <2>3. QED
    BY <2>1, <2>2
<1>n. None \notin Writes /\ None \notin Commands
  BY NoneAssumption, AuthorsAssumption
<1>k. \A c \in Commands : OwnChange(c)' = OwnChange(c) \/ target'[c] # target[c]
  BY DEF OwnChange
<1> USE <1>0, <1>a, <1>n, WriterNames
<1> USE DEF Writes, memory, command, store, past, budget
<1>1. CASE Start
  <2>1. /\ daemon = "down" /\ daemon' = "starting" /\ ByHandNow = {} /\ ByHandNow' = {}
        /\ file = "whole" /\ \A v \in Added(disk) : v[1] \notin bad
        /\ UNCHANGED <<file, disk, bad, target>> /\ starts' = starts + 1
    BY <1>1 DEF Start, Readable, ByHandNow
  <2>2. \A w \in Writers : write[w] = None
    BY <1>o, <1>h, <2>1 DEF Serving, ByHandNow
  <2>3. \/ /\ mem' = disk \cup {<<"add", <<Main, starts'>>>>}
           /\ Queued(AtStart, mem')
        \/ /\ ~StartVector /\ mem' = disk /\ UNCHANGED write
    BY <1>1 DEF Start
  <2>4. disk' \subseteq mem'
    BY <2>1, <2>3
  <2>5. \A v \in Added(mem') : v \in Added(disk) \/ v = <<Main, starts'>>
    BY <2>3 DEF Added
  <2>6. \A v \in Added(mem') : v[1] \in bad' => v[1] = Main
    BY <2>1, <2>5
  <2>7. \A w \in Writers : write'[w] # None =>
            w = AtStart /\ write'[w].stage = "queued" /\ write'[w].what = mem'
    BY <1>m, <1>q, <2>2, <2>3
  <2>8. StartVector => <<"add", <<Main, starts'>>>> \in mem'
    BY <2>3
  <2>9. QED
    BY <2>1, <2>4, <2>6, <2>7, <2>8 DEF StoreAgrees
<1>2. CASE Listen
  <2>1. /\ UNCHANGED <<file, disk, mem, bad, target, client>> /\ daemon' = "up"
        /\ daemon = "starting"
        /\ write' = [write EXCEPT ![AtStart] = None]
    BY <1>2 DEF Listen
  <2>2. ByHandNow' = {}
    BY <1>o, <2>1 DEF ByHandNow
  <2>3. QED
    BY <1>s, <2>1, <2>2 DEF StoreAgrees
<1>3. CASE Die
  <2>1. /\ UNCHANGED <<file, disk, bad, target, client>> /\ daemon' = "down"
        /\ write' = [w \in Writers |-> IF w[2] = 1 THEN write[w] ELSE None]
        /\ daemon # "down"
    BY <1>3 DEF Die
  <2>2. ByHandNow' = {}
    BY <1>o, <2>1 DEF ByHandNow
  <2>3. \A w \in Writers : write'[w] = None
    BY <1>u, <2>1
  <2>4. QED
    BY <1>s, <2>1, <2>2, <2>3 DEF StoreAgrees
<1>4. ASSUME NEW c \in Commands, Send(c) PROVE StoreAgrees'
  <2>1. /\ UNCHANGED <<file, disk, mem, bad, write, daemon, starts>>
        /\ client[c] = "idle" /\ client'[c] # "writing"
        /\ \A d \in Commands : d # c => client'[d] = client[d] /\ target'[d] = target[d]
    BY <1>4 DEF Send
  <2>2. ByHandNow' = ByHandNow /\ \A d \in ByHandNow : OwnChange(d)' = OwnChange(d)
    BY <1>k, <2>1 DEF ByHandNow
  <2>3. QED
    BY <1>s, <2>1, <2>2 DEF StoreAgrees
<1>5. ASSUME NEW c \in Commands, HandleAdd(c) PROVE StoreAgrees'
  <2>1. /\ UNCHANGED <<file, disk, bad, daemon, client>>
        /\ handler[c] \in Serving /\ lock = None
        /\ mem' = mem \cup {<<"add", ByDaemon(c)>>}
        /\ Queued(ByDaemon(c), mem')
    BY <1>5 DEF HandleAdd, Serving
  <2>2. daemon = "up" /\ c \notin bad /\ ByHandNow = {} /\ ByHandNow' = {}
    BY <1>h, <1>o, <2>1 DEF ByHandNow
  <2>3. \A w \in Writers : write[w] = None
    BY <1>o, <1>h, <2>1, <2>2 DEF ByHandNow
  <2>4. \A v \in Added(mem') : v \in Added(mem) \/ v = ByDaemon(c)
    BY <2>1 DEF Added
  <2>a. /\ \A v \in Added(mem) : v[1] \in bad => v[1] = Main
        /\ ByDaemon(c)[1] = c /\ bad' = bad
    BY <1>s, <2>1, <2>2
  <2>5. \A v \in Added(mem') : v[1] \in bad' => v[1] = Main
    BY <2>2, <2>4, <2>a
  <2>6. \A w \in Writers : write'[w] # None =>
            write'[w].stage = "queued" /\ write'[w].what = mem'
    BY <1>m, <1>q, <2>1, <2>3
  <2>7. /\ file' # "whole" => disk' = {}
        /\ disk' \subseteq mem' /\ daemon' = "up"
    BY <1>s, <2>1, <2>2
  <2>8. QED
    BY <2>2, <2>5, <2>6, <2>7 DEF StoreAgrees
<1>6. ASSUME NEW c \in Commands, HandleNeutralize(c) PROVE StoreAgrees'
  <2>1. /\ UNCHANGED <<file, disk, bad, daemon, client>>
        /\ handler[c] \in Serving /\ lock = None
        /\ \/ /\ mem' = mem \cup {<<"neutralize", target[c]>>}
              /\ Queued(ByDaemon(c), mem')
           \/ UNCHANGED <<mem, write>>
    BY <1>6 DEF HandleNeutralize, Serving
  <2>2. daemon = "up" /\ ByHandNow = {} /\ ByHandNow' = {}
    BY <1>h, <1>o, <2>1 DEF ByHandNow
  <2>3. \A w \in Writers : write[w] = None
    BY <1>o, <1>h, <2>1, <2>2 DEF ByHandNow
  <2>4. \A v \in Added(mem') : v \in Added(mem)
    BY <2>1 DEF Added
  <2>5. \A v \in Added(mem') : v[1] \in bad' => v[1] = Main
    BY <1>s, <2>1, <2>2, <2>4
  <2>6. \A w \in Writers : write'[w] # None =>
            write'[w].stage = "queued" /\ write'[w].what = mem'
    BY <1>m, <1>q, <2>1, <2>3
  <2>7. /\ file' # "whole" => disk' = {}
        /\ disk' \subseteq mem' /\ daemon' = "up"
    BY <1>s, <2>1, <2>2
  <2>8. QED
    BY <2>2, <2>5, <2>6, <2>7 DEF StoreAgrees
<1>7. ASSUME NEW c \in Commands, Answer(c) PROVE StoreAgrees'
  <2>1. /\ UNCHANGED <<file, disk, mem, bad, target, client, daemon, starts>>
        /\ write' = [write EXCEPT ![ByDaemon(c)] = None]
    BY <1>7 DEF Answer
  <2>2. ByHandNow' = ByHandNow /\ \A d \in Commands : OwnChange(d)' = OwnChange(d)
    BY <2>1 DEF ByHandNow, OwnChange
  <2>3. QED
    BY <1>s, <2>1, <2>2 DEF StoreAgrees, ByHandNow
<1>8. ASSUME NEW c \in Commands, Drop(c) PROVE StoreAgrees'
  BY <1>8, <1>o DEF Drop
<1>9. ASSUME NEW c \in Commands, Hear(c) PROVE StoreAgrees'
  <2>1. /\ UNCHANGED <<file, disk, mem, bad, target, write, daemon, starts>>
        /\ client[c] = "waiting" /\ client'[c] # "writing"
        /\ \A d \in Commands : d # c => client'[d] = client[d]
    BY <1>9 DEF Hear
  <2>2. ByHandNow' = ByHandNow /\ \A d \in Commands : OwnChange(d)' = OwnChange(d)
    BY <2>1 DEF ByHandNow, OwnChange
  <2>3. QED
    BY <1>s, <2>1, <2>2 DEF StoreAgrees, ByHandNow
<1>10. ASSUME NEW c \in Commands, GiveUpWaiting(c) PROVE StoreAgrees'
  BY <1>10 DEF GiveUpWaiting
<1>11. ASSUME NEW c \in Commands, LoadFile(c) PROVE StoreAgrees'
  <2>1. /\ UNCHANGED <<file, disk, mem, bad, target, daemon, starts>>
        /\ client[c] = "fallback"
    BY <1>11 DEF LoadFile
  <2>o. \A d \in Commands : OwnChange(d)' = OwnChange(d)
    BY <2>1 DEF OwnChange
  <2>2. CASE UNCHANGED write /\ client' = [client EXCEPT ![c] = "done"]
    <3>1. ByHandNow' = ByHandNow
      BY <2>1, <2>2 DEF ByHandNow
    <3>2. QED
      BY <1>s, <2>1, <2>o, <2>2, <3>1 DEF StoreAgrees, ByHandNow
  <2>3. CASE /\ Queued(ByHand(c), disk \cup {OwnChange(c)})
             /\ client' = [client EXCEPT ![c] = "writing"]
             /\ shared' = (shared \/ daemon # "down" \/ ByHandNow # {})
             /\ file = "whole"
    <3>a. daemon = "down" /\ ByHandNow = {}
      BY <2>3
    <3>b. ByHandNow' = {c}
      BY <2>3, <3>a DEF ByHandNow
    <3>1. daemon = "down" /\ ByHandNow = {} /\ ByHandNow' = {c}
      BY <3>a, <3>b
    <3>2. \A w \in Writers : write[w] = None
      BY <1>o, <1>h, <3>1 DEF Serving, ByHandNow
    <3>3. disk \cup {OwnChange(c)} \in SUBSET Changes
      BY <2>1, OwnChangeType
    <3>4. /\ write'[ByHand(c)].what = disk \cup {OwnChange(c)}
          /\ write'[ByHand(c)].stage = "queued"
          /\ \A w \in Writers : w # ByHand(c) => write'[w] = None
      BY <1>q, <2>3, <3>2, <3>3
    <3>5. QED
      BY <1>s, <2>1, <2>o, <2>3, <3>1, <3>4 DEF StoreAgrees
  <2>4. QED
    BY <1>11, <2>2, <2>3 DEF LoadFile, Readable
<1>12. ASSUME NEW c \in Commands, Report(c) PROVE StoreAgrees'
  <2>1. /\ UNCHANGED <<file, disk, mem, bad, target, daemon, starts>>
        /\ c \in ByHandNow /\ client' = [client EXCEPT ![c] = "done"]
        /\ write' = [write EXCEPT ![ByHand(c)] = None]
    BY <1>12 DEF Report, ByHandNow
  <2>2. ByHandNow' = {}
    BY <1>o, <2>1 DEF ByHandNow
  <2>3. QED
    BY <1>s, <2>1, <2>2 DEF StoreAgrees
<1>13. ASSUME NEW w \in Writers, WriteOpens(w) PROVE StoreAgrees'
  <2>1. /\ UNCHANGED <<mem, bad, target, client, daemon, starts>>
        /\ write[w] # None /\ write' = [write EXCEPT ![w].stage = "open"]
        /\ file' = "truncated" /\ disk' = {}
    BY <1>13 DEF WriteOpens
  <2>2. ByHandNow' = ByHandNow /\ \A d \in Commands : OwnChange(d)' = OwnChange(d)
    BY <2>1 DEF ByHandNow, OwnChange
  <2>3. /\ write'[w].stage = "open" /\ write'[w].what = write[w].what
        /\ \A u \in Writers : u # w => write'[u] = None
    BY <1>u, <2>1
  <2>4. \A c \in ByHandNow : ByHand(c) = w
    BY <1>o, <1>u, <2>1 DEF ByHandNow
  <2>a. \A u \in Writers : write'[u] # None =>
            /\ write'[u].stage = "open" => file' = "truncated"
            /\ write'[u].stage = "stored" => file' = "whole" /\ disk' = write'[u].what
            /\ u[2] = 0 => write'[u].what = mem'
    BY <1>s, <2>1, <2>3
  <2>b. \A c \in ByHandNow' :
            /\ OwnChange(c)' \in write'[ByHand(c)].what
            /\ write'[ByHand(c)].stage # "queued"
    BY <1>s, <2>2, <2>3, <2>4 DEF ByHandNow
  <2>c. /\ file' # "whole" => disk' = {}
        /\ daemon # "down" => disk' \subseteq mem
    BY <1>s, <2>1
  <2>d. QED
    BY <1>s, <2>1, <2>a, <2>b, <2>c DEF StoreAgrees
<1>14. ASSUME NEW w \in Writers, WriteEnds(w) PROVE StoreAgrees'
  <2>1. /\ UNCHANGED <<mem, bad, target, client, daemon, starts>>
        /\ write[w] # None /\ Finished(w, "stored")
        /\ file' = "whole" /\ disk' = write[w].what
    BY <1>14, <1>s DEF WriteEnds
  <2>2. ByHandNow' = ByHandNow /\ \A d \in Commands : OwnChange(d)' = OwnChange(d)
    BY <2>1 DEF ByHandNow, OwnChange
  <2>3. /\ write'[w].stage = "stored" /\ write'[w].what = write[w].what
        /\ \A u \in Writers : u # w => write'[u] = None
    BY <1>u, <2>1 DEF Finished
  <2>4. \A c \in ByHandNow : ByHand(c) = w
    BY <1>o, <1>u, <2>1 DEF ByHandNow
  <2>5. daemon # "down" => write[w].what = mem
    BY <1>s, <1>u, <2>1
  <2>a. \A u \in Writers : write'[u] # None =>
            /\ write'[u].stage = "open" => file' = "truncated"
            /\ write'[u].stage = "stored" => file' = "whole" /\ disk' = write'[u].what
            /\ u[2] = 0 => write'[u].what = mem'
    BY <1>s, <2>1, <2>3
  <2>b. \A c \in ByHandNow' :
            /\ OwnChange(c)' \in write'[ByHand(c)].what
            /\ write'[ByHand(c)].stage # "queued"
    BY <1>s, <2>2, <2>3, <2>4 DEF ByHandNow
  <2>c. /\ file' # "whole" => disk' = {}
        /\ daemon # "down" => disk' \subseteq mem
    BY <1>s, <2>5, <2>1
  <2>d. QED
    BY <1>s, <2>1, <2>a, <2>b, <2>c DEF StoreAgrees
<1>15. ASSUME NEW w \in Writers, WriteFails(w) PROVE StoreAgrees'
  <2>1. /\ UNCHANGED <<mem, bad, target, client, daemon, starts>>
        /\ write[w] # None /\ Finished(w, "failed")
        /\ \/ UNCHANGED <<file, disk>>
           \/ file' = "garbled" /\ disk' = {}
    BY <1>15 DEF WriteFails
  <2>2. ByHandNow' = ByHandNow /\ \A d \in Commands : OwnChange(d)' = OwnChange(d)
    BY <2>1 DEF ByHandNow, OwnChange
  <2>3. /\ write'[w].stage = "failed" /\ write'[w].what = write[w].what
        /\ \A u \in Writers : u # w => write'[u] = None
    BY <1>u, <2>1 DEF Finished
  <2>4. \A c \in ByHandNow : ByHand(c) = w
    BY <1>o, <1>u, <2>1 DEF ByHandNow
  <2>a. \A u \in Writers : write'[u] # None =>
            /\ write'[u].stage = "open" => file' = "truncated"
            /\ write'[u].stage = "stored" => file' = "whole" /\ disk' = write'[u].what
            /\ u[2] = 0 => write'[u].what = mem'
    BY <1>s, <2>1, <2>3
  <2>b. \A c \in ByHandNow' :
            /\ OwnChange(c)' \in write'[ByHand(c)].what
            /\ write'[ByHand(c)].stage # "queued"
    BY <1>s, <2>2, <2>3, <2>4 DEF ByHandNow
  <2>c. /\ file' # "whole" => disk' = {}
        /\ daemon # "down" => disk' \subseteq mem
    BY <1>s, <2>1
  <2>d. QED
    BY <1>s, <2>1, <2>a, <2>b, <2>c DEF StoreAgrees
<1>16. CASE UNCHANGED vars
  BY <1>16, <1>s DEF vars, StoreAgrees, OwnChange, ByHandNow
<1>17. QED
  BY <1>1, <1>2, <1>3, <1>4, <1>5, <1>6, <1>7, <1>8, <1>9, <1>10, <1>11,
     <1>12, <1>13, <1>14, <1>15, <1>16
     DEF Next, HandlerStep, CommandStep, WriteStep

-----------------------------------------------------------------------------
(* What was acknowledged.                                                  *)

\* Initially nothing was.
LEMMA AcknowledgedInit == Init => AcknowledgedIsKept
BY NoneAssumption DEF Init, AcknowledgedIsKept

\* What a command has sent stays what it is about.
LEMMA ChangesStay ==
    ASSUME TypeOK, [Next]_vars, NEW c \in Commands, client[c] # "idle"
    PROVE  DaemonChange(c)' = DaemonChange(c) /\ OwnChange(c)' = OwnChange(c)
<1>1. target'[c] = target[c]
  <2>1. target \in [Commands -> Vectors \cup {None}]
    BY DEF TypeOK
  <2>2. \/ UNCHANGED target
        \/ \E d \in Commands : Send(d)
    BY DEF Next, HandlerStep, CommandStep, WriteStep, vars, command, Start, Listen,
       Die, HandleAdd, HandleNeutralize, Answer, Drop, Hear, GiveUpWaiting,
       LoadFile, Report, WriteOpens, WriteEnds, WriteFails
  <2>3. ASSUME NEW d \in Commands, Send(d) PROVE target'[c] = target[c]
    <3>1. client[d] = "idle" /\ c # d
      BY <2>3 DEF Send
    <3>2. \/ UNCHANGED target
          \/ \E v \in Added(mem \cup disk) : target' = [target EXCEPT ![d] = v]
      BY <2>3 DEF Send
    <3>3. QED
      BY <2>1, <3>1, <3>2
  <2>4. QED
    BY <2>2, <2>3
<1>2. QED
  BY <1>1 DEF DaemonChange, OwnChange

\* An answer, a report and a start that serves acknowledge what is in the file,
\* in memory and in no other write; and what was acknowledged is never lost.
LEMMA AcknowledgedStep ==
    ASSUME TypeOK, HandlersAgree, OneWriter, StoreAgrees, AcknowledgedIsKept, [Next]_vars
    PROVE  AcknowledgedIsKept'
<1> SUFFICES ASSUME Alone' PROVE AcknowledgedIsKept'
  BY DEF AcknowledgedIsKept
<1>0. /\ reply \in [Commands -> {None, "ok", "error"}]
      /\ told \in [Commands -> {None, "daemon", "disk", "error"}]
      /\ None \notin {"ok", "error", "daemon", "disk"}
  BY NoneAssumption DEF TypeOK
<1>a. Alone
  BY AloneBefore
<1>h. \A c \in Commands : reply[c] = "ok" \/ told[c] # None => client[c] # "idle"
  BY <1>0 DEF HandlersAgree
<1>k. /\ \A c \in Commands :
            /\ reply[c] = "ok" \/ told[c] = "daemon" => KeptAfter(DaemonChange(c)')
            /\ told[c] = "disk" => KeptAfter(OwnChange(c)')
      /\ StartVector => \A n \in listened : KeptAfter(<<"add", <<Main, n>>>>)
  <2>1. ASSUME NEW c \in Commands, reply[c] = "ok" \/ told[c] = "daemon"
        PROVE  KeptAfter(DaemonChange(c)')
    <3>1. Kept(DaemonChange(c))
      BY <1>a, <2>1 DEF AcknowledgedIsKept
    <3>2. DaemonChange(c)' = DaemonChange(c)
      BY <1>0, <1>h, <2>1, ChangesStay
    <3>3. QED
      BY <3>1, <3>2, KeptStep
  <2>2. ASSUME NEW c \in Commands, told[c] = "disk"
        PROVE  KeptAfter(OwnChange(c)')
    <3>1. Kept(OwnChange(c))
      BY <1>a, <2>2 DEF AcknowledgedIsKept
    <3>2. OwnChange(c)' = OwnChange(c)
      BY <1>0, <1>h, <2>2, ChangesStay
    <3>3. QED
      BY <3>1, <3>2, KeptStep
  <2>3. ASSUME StartVector, NEW n \in listened
        PROVE  KeptAfter(<<"add", <<Main, n>>>>)
    BY <1>a, <2>3, KeptStep DEF AcknowledgedIsKept
  <2>4. QED
    BY <2>1, <2>2, <2>3
<1>g. ASSUME \A c \in Commands :
                 /\ reply'[c] = "ok" \/ told'[c] = "daemon" =>
                       \/ reply[c] = "ok" \/ told[c] = "daemon"
                       \/ KeptAfter(DaemonChange(c)')
                 /\ told'[c] = "disk" => told[c] = "disk" \/ KeptAfter(OwnChange(c)'),
             StartVector => \A n \in listened' :
                                n \in listened \/ KeptAfter(<<"add", <<Main, n>>>>)
      PROVE  AcknowledgedIsKept'
  BY <1>k, <1>g DEF AcknowledgedIsKept, Kept, KeptAfter
<1>u. /\ \A u, w \in Writers : write[u] # None /\ write[w] # None => u = w
      /\ \A w \in Writers : write[w] # None => (w[2] = 0 <=> daemon # "down")
  BY <1>a, OneWrite
<1>s. \A w \in Writers : write[w] # None =>
          /\ write[w].stage = "stored" => file = "whole" /\ disk = write[w].what
          /\ w[2] = 0 => write[w].what = mem
  BY <1>a DEF StoreAgrees
<1>f. write \in [Writers -> Writes \cup {None}]
  BY DEF TypeOK
<1> USE <1>0, <1>g DEF memory, command, past, budget
<1>1. CASE Start
  BY <1>1 DEF Start
<1>2. CASE Listen
  <2>1. listened' = listened \cup {starts} /\ UNCHANGED <<reply, told>>
    BY <1>2 DEF Listen
  <2>2. ASSUME StartVector PROVE KeptAfter(<<"add", <<Main, starts>>>>)
    <3>1. /\ daemon = "starting" /\ UNCHANGED <<mem, file, disk>>
          /\ write' = [write EXCEPT ![AtStart] = None]
          /\ write[AtStart] # None => Saved(AtStart) /\ Stored(AtStart)
      BY <1>2 DEF Listen, store
    <3>2. write[AtStart] # None /\ <<"add", <<Main, starts>>>> \in mem
      BY <1>a, <2>2, <3>1 DEF OneWriter, StoreAgrees
    <3>3. file = "whole" /\ disk = mem
      BY <1>s, <3>1, <3>2, WriterNames DEF Stored
    <3>4. \A w \in Writers : write'[w] = None
      BY <1>u, <1>f, <3>1, <3>2, WriterNames
    <3>5. QED
      BY <3>1, <3>2, <3>3, <3>4 DEF KeptAfter
  <2>3. QED
    BY <2>1, <2>2
<1>3. CASE Die
  BY <1>3 DEF Die
<1>4. ASSUME NEW c \in Commands, Send(c) PROVE AcknowledgedIsKept'
  BY <1>4 DEF Send
<1>5. ASSUME NEW c \in Commands, HandleAdd(c) PROVE AcknowledgedIsKept'
  BY <1>5 DEF HandleAdd
<1>6. ASSUME NEW c \in Commands, HandleNeutralize(c) PROVE AcknowledgedIsKept'
  BY <1>6 DEF HandleNeutralize
<1>7. ASSUME NEW c \in Commands, Answer(c) PROVE AcknowledgedIsKept'
  <2>1. /\ UNCHANGED <<told, listened>>
        /\ \A d \in Commands : d # c => reply'[d] = reply[d]
        /\ reply'[c] = "ok" => Stored(ByDaemon(c))
    BY <1>7 DEF Answer
  <2>2. ASSUME Stored(ByDaemon(c)) PROVE KeptAfter(DaemonChange(c)')
    <3>1. /\ handler[c] = "saving" /\ UNCHANGED <<mem, file, disk, target>>
          /\ write' = [write EXCEPT ![ByDaemon(c)] = None]
          /\ write[ByDaemon(c)] # None
      BY <1>7 DEF Answer, store, Saved
    <3>2. DaemonChange(c) \in mem /\ DaemonChange(c)' = DaemonChange(c)
      BY <3>1 DEF HandlersAgree, DaemonChange
    <3>3. file = "whole" /\ disk = mem
      BY <1>s, <2>2, <3>1, WriterNames DEF Stored
    <3>4. \A w \in Writers : write'[w] = None
      BY <1>u, <1>f, <3>1, WriterNames
    <3>5. QED
      BY <3>1, <3>2, <3>3, <3>4 DEF KeptAfter
  <2>3. QED
    BY <2>1, <2>2
<1>8. ASSUME NEW c \in Commands, Drop(c) PROVE AcknowledgedIsKept'
  BY <1>8 DEF Drop
<1>9. ASSUME NEW c \in Commands, Hear(c) PROVE AcknowledgedIsKept'
  BY <1>9 DEF Hear
<1>10. ASSUME NEW c \in Commands, GiveUpWaiting(c) PROVE AcknowledgedIsKept'
  BY <1>10 DEF GiveUpWaiting
<1>11. ASSUME NEW c \in Commands, LoadFile(c) PROVE AcknowledgedIsKept'
  BY <1>11 DEF LoadFile
<1>12. ASSUME NEW c \in Commands, Report(c) PROVE AcknowledgedIsKept'
  <2>1. /\ UNCHANGED <<reply, listened>>
        /\ \A d \in Commands : d # c => told'[d] = told[d]
        /\ told'[c] # "daemon"
        /\ told'[c] = "disk" => Stored(ByHand(c))
    BY <1>12 DEF Report
  <2>2. ASSUME Stored(ByHand(c)) PROVE KeptAfter(OwnChange(c)')
    <3>1. /\ client[c] = "writing" /\ UNCHANGED <<daemon, file, disk, target>>
          /\ write' = [write EXCEPT ![ByHand(c)] = None]
          /\ write[ByHand(c)] # None
      BY <1>12 DEF Report, store, Saved
    <3>2. OwnChange(c) \in write[ByHand(c)].what /\ OwnChange(c)' = OwnChange(c)
      BY <1>a, <3>1 DEF StoreAgrees, OwnChange, ByHandNow
    <3>3. file = "whole" /\ disk = write[ByHand(c)].what /\ daemon = "down"
      BY <1>s, <1>u, <2>2, <3>1, WriterNames DEF Stored
    <3>4. \A w \in Writers : write'[w] = None
      BY <1>u, <1>f, <3>1, WriterNames
    <3>5. QED
      BY <3>1, <3>2, <3>3, <3>4 DEF KeptAfter
  <2>3. QED
    BY <2>1, <2>2
<1>13. ASSUME NEW w \in Writers, WriteOpens(w) PROVE AcknowledgedIsKept'
  BY <1>13 DEF WriteOpens
<1>14. ASSUME NEW w \in Writers, WriteEnds(w) PROVE AcknowledgedIsKept'
  BY <1>14 DEF WriteEnds
<1>15. ASSUME NEW w \in Writers, WriteFails(w) PROVE AcknowledgedIsKept'
  BY <1>15 DEF WriteFails
<1>16. CASE UNCHANGED vars
  BY <1>16 DEF vars
<1>17. QED
  BY <1>1, <1>2, <1>3, <1>4, <1>5, <1>6, <1>7, <1>8, <1>9, <1>10, <1>11,
     <1>12, <1>13, <1>14, <1>15, <1>16
     DEF Next, HandlerStep, CommandStep, WriteStep

-----------------------------------------------------------------------------
(* Theorems.                                                               *)

\* The invariant behind the theorems below: the lock is with the handler that
\* saves, one write is on its way at a time, and what was acknowledged is in all
\* of memory, file and writes (ledger.rs, api.rs and execute_subcommand).
THEOREM InductiveInvariant == Spec => []Inductive
<1>1. Init => Inductive
  BY TypeInit, HandlersInit, OneWayInit, OneWriterInit, StoreInit, AcknowledgedInit
     DEF Inductive
<1>2. Inductive /\ [Next]_vars => Inductive'
  BY TypeStep, HandlersStep, OneWayStep, OneWriterStep, StoreStep, AcknowledgedStep
     DEF Inductive
<1>3. QED
  BY <1>1, <1>2, PTL DEF Spec

\* Every variable has its type.
THEOREM TypeCorrect == Spec => []TypeOK
<1>1. Inductive => TypeOK
  BY DEF Inductive
<1>2. QED
  BY <1>1, InductiveInvariant, PTL

\* Unless a command stopped waiting, a save failed or the daemon died, no command
\* adds its vector through the daemon and by hand: it goes to the file only when
\* it was never served (OneWay).
THEOREM VectorsAddedOnce == Spec => []AddedOnce
<1>1. Inductive => AddedOnce
  BY DEF Inductive, OneWay, AddedOnce
<1>2. QED
  BY <1>1, InductiveInvariant, PTL

\* While one works on the file at a time, list-vectors lists every change that
\* was acknowledged, whether it reads the daemon's memory or the file.
THEOREM ListedWhole == Spec => []ListedIsWhole
<1>1. Inductive => ListedIsWhole
  <2> SUFFICES ASSUME Inductive, Alone, NEW l \in Listings, NEW x \in Acknowledged
               PROVE  x \in l
    BY DEF ListedIsWhole
  <2>1. Kept(x)
    BY DEF Inductive, AcknowledgedIsKept, Acknowledged
  <2>2. \/ daemon = "up" /\ l = mem
        \/ file = "whole" /\ l = disk
    BY DEF Listings, Readable
  <2>3. QED
    BY <2>1, <2>2 DEF Kept
<1>2. QED
  BY <1>1, InductiveInvariant, PTL

\* The daemon answers ok, and triggers an immediate rotation, only when all it
\* has in memory is in the file, and the file can be loaded again (the handlers
\* of api.rs answer after save(), inside the lock).
THEOREM AnswerStored == Spec => AnswerMeansStored
<1>1. ASSUME Inductive, [Next]_vars, NEW c \in Commands, Alone,
             \/ reply[c] = None /\ reply'[c] = "ok"
             \/ c \in notified' \ notified
      PROVE  /\ file = "whole" /\ disk = mem
             /\ Main \notin bad => Readable
  <2>0. /\ reply \in [Commands -> {None, "ok", "error"}]
        /\ None \notin {"ok", "error", "daemon", "disk"}
    BY <1>1, NoneAssumption DEF Inductive, TypeOK
  <2>1. Answer(c) /\ Stored(ByDaemon(c))
    <3>1. \/ UNCHANGED <<reply, notified>>
          \/ Die
          \/ \E d \in Commands : HandleNeutralize(d) \/ Answer(d)
      BY <1>1 DEF Next, HandlerStep, CommandStep, WriteStep, vars, memory, Start,
         Listen, Send, HandleAdd, Drop, Hear, GiveUpWaiting, LoadFile, Report,
         WriteOpens, WriteEnds, WriteFails
    <3>2. CASE UNCHANGED <<reply, notified>>
      BY <1>1, <2>0, <3>2
    <3>3. CASE Die
      BY <1>1, <2>0, <3>3 DEF Die
    <3>4. ASSUME NEW d \in Commands, HandleNeutralize(d)
          PROVE  Answer(c) /\ Stored(ByDaemon(c))
      BY <1>1, <2>0, <3>4 DEF HandleNeutralize
    <3>5. ASSUME NEW d \in Commands, Answer(d)
          PROVE  Answer(c) /\ Stored(ByDaemon(c))
      BY <1>1, <2>0, <3>5 DEF Answer
    <3>6. QED
      BY <3>1, <3>2, <3>3, <3>4, <3>5
  <2>2. handler[c] = "saving" /\ write[ByDaemon(c)] # None
    BY <2>1 DEF Answer, Saved
  <2>3. file = "whole" /\ disk = mem
    BY <1>1, <2>1, <2>2, WriterNames DEF Stored, Inductive, StoreAgrees
  <2>4. daemon = "up"
    BY <1>1, <2>2 DEF Inductive, HandlersAgree, Serving
  <2>5. \A v \in Added(mem) : v[1] \in bad => v[1] = Main
    BY <1>1, <2>4 DEF Inductive, StoreAgrees
  <2>6. QED
    BY <2>3, <2>5 DEF Readable
<1>2. Inductive /\ [Next]_vars =>
          [\A c \in Commands :
              Alone /\ (\/ reply[c] = None /\ reply'[c] = "ok"
                        \/ c \in notified' \ notified)
                  => /\ file = "whole" /\ disk = mem
                     /\ Main \notin bad => Readable]_vars
  BY <1>1
<1>3. QED
  BY <1>2, InductiveInvariant, PTL DEF Spec, AnswerMeansStored

-----------------------------------------------------------------------------
(* The promise of the ledger.                                              *)

\* Where the ledger is, when the file is not torn.
LEMMA CurrentFacts ==
    Inductive /\ ~Void =>
        /\ daemon # "down" => Current = mem /\ InHand = {}
        /\ daemon = "down" /\ InHand = {} => file = "whole" /\ Current = disk
        /\ \A c \in InHand :
              /\ daemon = "down" /\ file = "truncated"
              /\ Current = write[ByHand(c)].what
<1> SUFFICES ASSUME Inductive, Alone, ~Torn
             PROVE  /\ daemon # "down" => Current = mem /\ InHand = {}
                    /\ daemon = "down" /\ InHand = {} => file = "whole" /\ Current = disk
                    /\ \A c \in InHand :
                          /\ daemon = "down" /\ file = "truncated"
                          /\ Current = write[ByHand(c)].what
  BY DEF Void
<1>1. /\ InHand \subseteq ByHandNow /\ ByHandNow \subseteq Commands
      /\ \A c \in InHand : write[ByHand(c)].stage = "open"
  BY DEF InHand, ByHandNow
<1>2. /\ daemon # "down" => ByHandNow = {}
      /\ \A c, d \in ByHandNow : c = d
      /\ \A c \in ByHandNow : write[ByHand(c)] # None
  BY DEF Inductive, OneWriter, ByHandNow
<1>a. \A w \in Writers :
          write[w] # None /\ write[w].stage = "open" => file = "truncated"
  BY DEF Inductive, StoreAgrees
<1>3. ASSUME NEW c \in InHand PROVE daemon = "down" /\ file = "truncated"
  <2>1. c \in ByHandNow /\ c \in Commands /\ write[ByHand(c)].stage = "open"
    BY <1>1
  <2>2. ByHand(c) \in Writers
    BY <2>1, WriterNames
  <2>3. QED
    BY <1>2, <1>a, <2>1, <2>2
<1>4. daemon # "down" => Current = mem /\ InHand = {}
  BY <1>1, <1>2 DEF Current
<1>5. daemon = "down" /\ InHand = {} => file = "whole" /\ Current = disk
  BY DEF Torn, Current, Inductive, TypeOK
<1>6. ASSUME NEW c \in InHand PROVE Current = write[ByHand(c)].what
  <2>1. (CHOOSE d \in InHand : TRUE) = c
    BY <1>1, <1>2
  <2>2. QED
    BY <1>3, <2>1 DEF Current
<1>7. QED
  BY <1>3, <1>4, <1>5, <1>6

\* What was acknowledged.
LEMMA AcknowledgedFacts ==
    \A x : x \in Acknowledged <=>
              \/ \E c \in Commands : told[c] = "daemon" /\ x = DaemonChange(c)
              \/ \E c \in Commands : told[c] = "disk" /\ x = OwnChange(c)
              \/ StartVector /\ \E n \in listened : x = <<"add", <<Main, n>>>>
BY DEF Acknowledged

\* A change that is kept is where the ledger is.
LEMMA KeptIsCurrent ==
    ASSUME Inductive, ~Void, NEW x, Kept(x)
    PROVE  x \in Current
<1>1. \A c \in InHand : ByHand(c) \in Writers /\ write[ByHand(c)] # None
  BY WriterNames DEF InHand, ByHandNow, Inductive, OneWriter, Void
<1>2. QED
  BY <1>1, CurrentFacts DEF Kept

\* A step acknowledges only what it says, and takes nothing back.
LEMMA AcknowledgedGrows ==
    ASSUME Inductive, [Next]_vars
    PROVE  /\ told' = told /\ listened' = listened => Acknowledged' = Acknowledged
           /\ \A c \in Commands :
                 client[c] # "idle" /\ told[c] = None /\ listened' = listened =>
                    /\ told' = [told EXCEPT ![c] = "daemon"] =>
                          Acknowledged' = Acknowledged \cup {DaemonChange(c)}
                    /\ told' = [told EXCEPT ![c] = "disk"] =>
                          Acknowledged' = Acknowledged \cup {OwnChange(c)}
                    /\ told' = [told EXCEPT ![c] = "error"] =>
                          Acknowledged' = Acknowledged
<1>0. /\ told \in [Commands -> {None, "daemon", "disk", "error"}]
      /\ None \notin {"ok", "error", "daemon", "disk"}
  BY NoneAssumption DEF Inductive, TypeOK
<1>1. \A c \in Commands :
          client[c] # "idle" \/ told[c] # None =>
              DaemonChange(c)' = DaemonChange(c) /\ OwnChange(c)' = OwnChange(c)
  BY ChangesStay DEF Inductive, HandlersAgree
<1>2. \A x : x \in Acknowledged' <=>
              \/ \E c \in Commands : told'[c] = "daemon" /\ x = DaemonChange(c)'
              \/ \E c \in Commands : told'[c] = "disk" /\ x = OwnChange(c)'
              \/ StartVector /\ \E n \in listened' : x = <<"add", <<Main, n>>>>
  BY DEF Acknowledged
<1>3. ASSUME told' = told, listened' = listened PROVE Acknowledged' = Acknowledged
  <2>1. \A c \in Commands :
           /\ told'[c] = told[c]
           /\ told[c] # None =>
                 DaemonChange(c)' = DaemonChange(c) /\ OwnChange(c)' = OwnChange(c)
    BY <1>1, <1>3
  <2>2. ASSUME NEW x PROVE x \in Acknowledged' <=> x \in Acknowledged
    BY <1>0, <1>2, <1>3, <2>1, AcknowledgedFacts
  <2>3. QED
    BY <2>2
<1>4. ASSUME NEW c \in Commands, client[c] # "idle", told[c] = None, listened' = listened,
             told' = [told EXCEPT ![c] = "daemon"]
      PROVE  Acknowledged' = Acknowledged \cup {DaemonChange(c)}
  BY <1>0, <1>1, <1>2, <1>4, AcknowledgedFacts
<1>5. ASSUME NEW c \in Commands, client[c] # "idle", told[c] = None, listened' = listened,
             told' = [told EXCEPT ![c] = "disk"]
      PROVE  Acknowledged' = Acknowledged \cup {OwnChange(c)}
  BY <1>0, <1>1, <1>2, <1>5, AcknowledgedFacts
<1>6. ASSUME NEW c \in Commands, client[c] # "idle", told[c] = None, listened' = listened,
             told' = [told EXCEPT ![c] = "error"]
      PROVE  Acknowledged' = Acknowledged
  BY <1>0, <1>1, <1>2, <1>6, AcknowledgedFacts
<1>7. QED
  BY <1>3, <1>4, <1>5, <1>6

\* Once void, the promise stays void: a file that is torn is never read again.
LEMMA VoidStays == ASSUME Inductive, [Next]_vars, Void PROVE Void'
<1> SUFFICES ASSUME Alone' PROVE Torn'
  BY DEF Void
<1>a. Alone /\ Torn
  BY AloneBefore DEF Inductive, Void
<1>0. /\ daemon = "down" /\ file # "whole"
      /\ file = "truncated" => InHand = {}
      /\ client \in [Commands -> {"idle", "waiting", "fallback", "writing", "done"}]
      /\ write \in [Writers -> Writes \cup {None}]
  BY <1>a DEF Torn, Inductive, TypeOK
<1>h. \A c \in Commands : handler[c] \notin Serving
  BY <1>0 DEF Inductive, HandlersAgree
<1>n. ASSUME NEW w \in Writers, write[w] # None
      PROVE  write[w].stage \notin {"queued", "open"}
  <2>1. w[2] # 0
    BY <1>a, <1>0, <1>n, OneWrite DEF Inductive
  <2>2. PICK c \in Commands : w = ByHand(c)
    BY <2>1, WriterNames
  <2>3. c \in ByHandNow
    BY <1>a, <1>n, <2>2 DEF Inductive, OneWriter, ByHandNow
  <2>4. write[w].stage # "queued"
    BY <1>a, <1>0, <2>2, <2>3 DEF Inductive, StoreAgrees
  <2>5. write[w].stage = "open" => file = "truncated"
    BY <1>a, <1>n DEF Inductive, StoreAgrees
  <2>6. write[w].stage # "open"
    BY <1>0, <2>2, <2>3, <2>5 DEF InHand
  <2>7. QED
    BY <2>4, <2>6
<1>i. ASSUME daemon' = daemon, file' = file,
             \A c \in Commands : client'[c] = "writing" =>
                 client[c] = "writing" /\ write'[ByHand(c)] = write[ByHand(c)]
      PROVE  Torn'
  BY <1>a, <1>0, <1>i DEF Torn, InHand, ByHandNow
<1> USE <1>0, <1>i, WriterNames DEF memory, command, store
<1>1. CASE Start
  BY <1>1 DEF Start, Readable
<1>2. CASE Listen
  BY <1>2 DEF Listen
<1>3. CASE Die
  BY <1>3 DEF Die
<1>4. ASSUME NEW c \in Commands, Send(c) PROVE Torn'
  BY <1>4 DEF Send
<1>5. ASSUME NEW c \in Commands, HandlerStep(c) PROVE Torn'
  BY <1>h, <1>5 DEF HandlerStep, HandleAdd, HandleNeutralize, Answer, Drop, Serving
<1>6. ASSUME NEW c \in Commands, Hear(c) \/ GiveUpWaiting(c) PROVE Torn'
  BY <1>6 DEF Hear, GiveUpWaiting
<1>7. ASSUME NEW c \in Commands, LoadFile(c) PROVE Torn'
  BY <1>7 DEF LoadFile, Readable
<1>8. ASSUME NEW c \in Commands, Report(c) PROVE Torn'
  BY <1>8 DEF Report
<1>9. ASSUME NEW w \in Writers, WriteStep(w) PROVE Torn'
  BY <1>n, <1>9 DEF WriteStep, WriteOpens, WriteEnds, WriteFails
<1>10. CASE UNCHANGED vars
  BY <1>10 DEF vars
<1>11. QED
  BY <1>1, <1>2, <1>3, <1>4, <1>5, <1>6, <1>7, <1>8, <1>9, <1>10
     DEF Next, CommandStep

\* The steps of the promise, in terms of the ledger.
Steps ==
    \/ Current' = Current /\ Acknowledged' = Acknowledged
    \/ /\ Acknowledged' = Acknowledged
       /\ \E x \in Changes : Current' = Current \cup {x}
    \/ /\ Current' = Current
       /\ \E x \in Current : Acknowledged' = Acknowledged \cup {x}
    \/ /\ Acknowledged' = Acknowledged
       /\ Current' \subseteq Current /\ Acknowledged \subseteq Current'

\* Only a crash of the daemon loses changes, and none that was acknowledged.
LEMMA LedgerStep ==
    ASSUME Inductive, [Next]_vars, Inductive', ~Void, ~Void'
    PROVE  Steps
<1>a. /\ Alone /\ Alone' /\ ~Torn /\ ~Torn'
      /\ timeouts' = 0 /\ timeouts = 0 /\ ~shared'
  BY DEF Void, Alone
<1>0. /\ client \in [Commands -> {"idle", "waiting", "fallback", "writing", "done"}]
      /\ reply \in [Commands -> {None, "ok", "error"}]
      /\ told \in [Commands -> {None, "daemon", "disk", "error"}]
      /\ write \in [Writers -> Writes \cup {None}]
      /\ None \notin {"ok", "error", "daemon", "disk"}
      /\ listened \subseteq 1..MaxStarts /\ starts \in 0..MaxStarts
      /\ target \in [Commands -> Vectors \cup {None}]
      /\ daemon \in {"down", "starting", "up"}
  BY NoneAssumption DEF Inductive, TypeOK
<1>t. \A c \in Commands :
          told[c] # None => client[c] = "done"
  BY DEF Inductive, HandlersAgree
<1>v. Added(mem) \subseteq Vectors
  BY AddedFacts DEF Inductive, TypeOK
<1>c. /\ daemon # "down" => Current = mem /\ InHand = {}
      /\ daemon = "down" /\ InHand = {} => file = "whole" /\ Current = disk
      /\ \A c \in InHand :
            /\ daemon = "down" /\ file = "truncated"
            /\ Current = write[ByHand(c)].what
  BY CurrentFacts
<1>d. /\ daemon' # "down" => Current' = mem' /\ InHand' = {}
      /\ daemon' = "down" /\ InHand' = {} => file' = "whole" /\ Current' = disk'
      /\ \A c \in InHand' :
            /\ daemon' = "down" /\ file' = "truncated"
            /\ Current' = write'[ByHand(c)].what
  <2>1. (Inductive /\ ~Void =>
            /\ daemon # "down" => Current = mem /\ InHand = {}
            /\ daemon = "down" /\ InHand = {} => file = "whole" /\ Current = disk
            /\ \A c \in InHand :
                  /\ daemon = "down" /\ file = "truncated"
                  /\ Current = write[ByHand(c)].what)'
    BY CurrentFacts, PTL
  <2>2. QED
    BY <2>1
<1>i. \A c \in Commands : c \in InHand <=>
          client[c] = "writing" /\ write[ByHand(c)].stage = "open"
  BY DEF InHand, ByHandNow
<1>j. \A c \in Commands : c \in InHand' <=>
          client'[c] = "writing" /\ write'[ByHand(c)].stage = "open"
  BY DEF InHand, ByHandNow
<1>k. InHand \subseteq Commands /\ InHand' \subseteq Commands
  BY DEF InHand, ByHandNow
<1>o. /\ daemon # "down" => ByHandNow = {}
      /\ \A c, d \in ByHandNow : c = d
      /\ \A c \in Commands : handler[c] \in Serving => daemon = "up" /\ client[c] = "waiting"
  BY <1>a DEF Inductive, OneWriter, HandlersAgree
<1>g. told' = told /\ listened' = listened => Acknowledged' = Acknowledged
  BY AcknowledgedGrows
<1>q. ASSUME daemon' = daemon, mem' = mem, file' = file, disk' = disk,
             \A c \in Commands : client[c] = "writing" <=> client'[c] = "writing",
             \A c \in Commands : client[c] = "writing" => write'[ByHand(c)] = write[ByHand(c)]
      PROVE  Current' = Current
  <2>1. InHand' = InHand
    BY <1>i, <1>j, <1>k, <1>q
  <2>2. \A c \in InHand : write'[ByHand(c)] = write[ByHand(c)]
    BY <1>i, <1>k, <1>q
  <2>3. QED
    BY <1>c, <1>d, <1>q, <2>1, <2>2
<1> USE <1>a, <1>0, WriterNames DEF memory, command, store, past, budget
<1>1. CASE Start
  <2>1. /\ daemon = "down" /\ file = "whole" /\ daemon' = "starting"
        /\ UNCHANGED <<told, listened>>
        /\ starts + 1 \in 1..MaxStarts
    BY <1>1, BoundsAssumption DEF Start, Readable
  <2>2. Current = disk
    BY <1>c, <1>k, <2>1
  <2>3. Current' = mem'
    BY <1>d, <2>1
  <2>4. \/ mem' = disk
        \/ mem' = disk \cup {<<"add", <<Main, starts + 1>>>>}
    BY <1>1 DEF Start
  <2>5. <<"add", <<Main, starts + 1>>>> \in Changes
    BY <2>1, ChangeNames
  <2>6. QED
    BY <1>g, <2>1, <2>2, <2>3, <2>4, <2>5 DEF Steps
<1>2. CASE Listen
  <2>1. /\ daemon = "starting" /\ daemon' = "up" /\ UNCHANGED <<mem, told, target>>
        /\ listened' = listened \cup {starts}
    BY <1>2 DEF Listen
  <2>2. Current = mem /\ Current' = mem
    BY <1>c, <1>d, <2>1
  <2>3. \A c \in Commands :
            DaemonChange(c)' = DaemonChange(c) /\ OwnChange(c)' = OwnChange(c)
    BY <2>1 DEF DaemonChange, OwnChange
  <2>4. \A x : x \in Acknowledged' <=>
              \/ \E c \in Commands : told'[c] = "daemon" /\ x = DaemonChange(c)'
              \/ \E c \in Commands : told'[c] = "disk" /\ x = OwnChange(c)'
              \/ StartVector /\ \E n \in listened' : x = <<"add", <<Main, n>>>>
    BY DEF Acknowledged
  <2>5. \A x : x \in Acknowledged' <=>
              x \in Acknowledged \/ (StartVector /\ x = <<"add", <<Main, starts>>>>)
    BY <2>1, <2>3, <2>4, AcknowledgedFacts
  <2>6. CASE StartVector
    <3>1. Acknowledged' = Acknowledged \cup {<<"add", <<Main, starts>>>>}
      BY <2>5, <2>6
    <3>2. <<"add", <<Main, starts>>>> \in mem
      BY <2>1, <2>6 DEF Inductive, StoreAgrees
    <3>3. QED
      BY <2>2, <3>1, <3>2 DEF Steps
  <2>7. CASE ~StartVector
    <3>1. Acknowledged' = Acknowledged
      BY <2>5, <2>7
    <3>2. QED
      BY <2>2, <3>1 DEF Steps
  <2>8. QED
    BY <2>6, <2>7
<1>3. CASE Die
  <2>1. /\ daemon # "down" /\ daemon' = "down"
        /\ UNCHANGED <<file, disk, client, told, target, listened>>
    BY <1>3 DEF Die
  <2>2. Current = mem /\ InHand' = {}
    BY <1>c, <1>j, <1>k, <1>o, <2>1 DEF ByHandNow
  <2>3. file = "whole" /\ Current' = disk
    BY <1>d, <2>1, <2>2
  <2>4. disk \subseteq mem
    BY <2>1 DEF Inductive, StoreAgrees
  <2>5. ASSUME NEW x \in Acknowledged PROVE x \in disk
    <3>1. Kept(x)
      BY AcknowledgedFacts DEF Inductive, AcknowledgedIsKept
    <3>2. QED
      BY <2>3, <3>1 DEF Kept
  <2>6. QED
    BY <1>g, <2>1, <2>2, <2>3, <2>4, <2>5 DEF Steps
<1>4. ASSUME NEW c \in Commands, Send(c) PROVE Steps
  <2>1. /\ UNCHANGED <<daemon, mem, file, disk, write, told, listened>>
        /\ client[c] = "idle" /\ client'[c] # "writing"
        /\ \A d \in Commands : d # c => client'[d] = client[d]
    BY <1>4 DEF Send
  <2>2. QED
    BY <1>g, <1>q, <2>1 DEF Steps
<1>5. ASSUME NEW c \in Commands, HandleAdd(c) PROVE Steps
  <2>1. /\ UNCHANGED <<daemon, told, listened>> /\ daemon = "up"
        /\ mem' = mem \cup {<<"add", ByDaemon(c)>>}
        /\ <<"add", ByDaemon(c)>> \in Changes
    BY <1>5, <1>o, ChangeNames DEF HandleAdd, Serving
  <2>2. Current = mem /\ Current' = mem'
    BY <1>c, <1>d, <2>1
  <2>3. QED
    BY <1>g, <2>1, <2>2 DEF Steps
<1>6. ASSUME NEW c \in Commands, HandleNeutralize(c) PROVE Steps
  <2>1. UNCHANGED <<daemon, told, listened>> /\ daemon = "up"
    BY <1>6, <1>o DEF HandleNeutralize, Serving
  <2>2. \/ mem' = mem
        \/ /\ mem' = mem \cup {<<"neutralize", target[c]>>}
           /\ <<"neutralize", target[c]>> \in Changes
    BY <1>6, <1>v, ChangeNames DEF HandleNeutralize
  <2>3. Current = mem /\ Current' = mem'
    BY <1>c, <1>d, <2>1
  <2>4. QED
    BY <1>g, <2>1, <2>2, <2>3 DEF Steps
<1>7. ASSUME NEW c \in Commands, Answer(c) \/ Drop(c) PROVE Steps
  <2>1. UNCHANGED <<daemon, mem, told, listened>> /\ daemon = "up"
    BY <1>7, <1>o DEF Answer, Drop, Serving
  <2>2. Current = mem /\ Current' = mem'
    BY <1>c, <1>d, <2>1
  <2>3. QED
    BY <1>g, <2>1, <2>2 DEF Steps
<1>8. ASSUME NEW c \in Commands, Hear(c) PROVE Steps
  <2>1. /\ UNCHANGED <<daemon, mem, file, disk, write, listened>>
        /\ client[c] = "waiting" /\ client'[c] # "writing"
        /\ \A d \in Commands : d # c => client'[d] = client[d]
        /\ \/ reply[c] = "ok" /\ told' = [told EXCEPT ![c] = "daemon"]
           \/ told' = [told EXCEPT ![c] = "error"]
           \/ UNCHANGED told
    BY <1>8 DEF Hear
  <2>2. Current' = Current
    BY <1>q, <2>1
  <2>3. CASE UNCHANGED told
    BY <1>g, <2>1, <2>2, <2>3 DEF Steps
  <2>4. CASE reply[c] = "ok" /\ told' = [told EXCEPT ![c] = "daemon"]
    <3>1. Acknowledged' = Acknowledged \cup {DaemonChange(c)}
      BY <1>t, <2>1, <2>4, AcknowledgedGrows
    <3>2. DaemonChange(c) \in Current
      BY <2>4, KeptIsCurrent DEF Inductive, AcknowledgedIsKept
    <3>3. QED
      BY <2>2, <3>1, <3>2 DEF Steps
  <2>5. CASE told' = [told EXCEPT ![c] = "error"]
    <3>1. Acknowledged' = Acknowledged
      BY <1>t, <2>1, <2>5, AcknowledgedGrows
    <3>2. QED
      BY <2>2, <3>1 DEF Steps
  <2>6. QED
    BY <2>1, <2>3, <2>4, <2>5
<1>9. ASSUME NEW c \in Commands, GiveUpWaiting(c) PROVE Steps
  BY <1>9 DEF GiveUpWaiting
<1>10. ASSUME NEW c \in Commands, LoadFile(c) PROVE Steps
  <2>1. UNCHANGED <<daemon, mem, file, disk, listened>> /\ client[c] = "fallback"
    BY <1>10 DEF LoadFile
  <2>2. CASE /\ UNCHANGED write /\ client' = [client EXCEPT ![c] = "done"]
             /\ told' = [told EXCEPT ![c] = "error"]
    <3>1. Current' = Current
      BY <1>q, <2>1, <2>2
    <3>2. Acknowledged' = Acknowledged
      BY <1>t, <2>1, <2>2, AcknowledgedGrows
    <3>3. QED
      BY <3>1, <3>2 DEF Steps
  <2>3. CASE /\ Queued(ByHand(c), disk \cup {OwnChange(c)})
             /\ client' = [client EXCEPT ![c] = "writing"]
             /\ shared' = (shared \/ daemon # "down" \/ ByHandNow # {})
             /\ UNCHANGED told
    <3>1. daemon = "down" /\ ByHandNow = {}
      BY <2>3
    <3>2. write'[ByHand(c)].stage = "queued"
      BY <2>3 DEF Queued
    <3>3. InHand = {}
      BY <3>1 DEF InHand
    <3>4. InHand' = {}
      BY <1>j, <1>k, <2>3, <3>1, <3>2 DEF ByHandNow
    <3>5. QED
      BY <1>c, <1>d, <1>g, <2>1, <2>3, <3>1, <3>3, <3>4 DEF Steps
  <2>4. QED
    BY <1>10, <2>2, <2>3 DEF LoadFile
<1>11. ASSUME NEW c \in Commands, Report(c) PROVE Steps
  <2>1. /\ UNCHANGED <<daemon, mem, file, disk, listened, target>>
        /\ client[c] = "writing" /\ client' = [client EXCEPT ![c] = "done"]
        /\ write[ByHand(c)] # None /\ write[ByHand(c)].stage \in {"stored", "failed"}
        /\ told' = [told EXCEPT ![c] = IF Stored(ByHand(c)) THEN "disk" ELSE "error"]
    BY <1>11 DEF Report, Saved
  <2>2. ByHandNow = {c} /\ daemon = "down"
    BY <1>o, <2>1 DEF ByHandNow
  <2>3. InHand = {} /\ InHand' = {}
    BY <1>j, <1>k, <2>1, <2>2 DEF InHand, ByHandNow
  <2>4. Current = disk /\ Current' = disk
    BY <1>c, <1>d, <2>1, <2>2, <2>3
  <2>5. CASE Stored(ByHand(c))
    <3>1. Acknowledged' = Acknowledged \cup {OwnChange(c)}
      BY <1>t, <2>1, <2>5, AcknowledgedGrows
    <3>2. OwnChange(c) \in disk
      BY <2>1, <2>2, <2>5 DEF Inductive, StoreAgrees, Stored
    <3>3. QED
      BY <2>4, <3>1, <3>2 DEF Steps
  <2>6. CASE ~Stored(ByHand(c))
    <3>1. Acknowledged' = Acknowledged
      BY <1>t, <2>1, <2>6, AcknowledgedGrows
    <3>2. QED
      BY <2>4, <3>1 DEF Steps
  <2>7. QED
    BY <2>5, <2>6
<1>12. ASSUME NEW w \in Writers, WriteStep(w) PROVE Steps
  <2>1. UNCHANGED <<daemon, mem, client, target, told, listened>> /\ write[w] # None
    BY <1>12 DEF WriteStep, WriteOpens, WriteEnds, WriteFails
  <2>2. CASE daemon # "down"
    BY <1>c, <1>d, <1>g, <2>1, <2>2 DEF Steps
  <2>3. CASE daemon = "down"
    <3>1. PICK c \in Commands : w = ByHand(c)
      BY <2>1, <2>3, OneWrite DEF Inductive
    <3>2. client[c] = "writing" /\ c \in ByHandNow
      BY <2>1, <3>1 DEF Inductive, OneWriter, ByHandNow
    <3>3. /\ \A d \in InHand : d = c
          /\ \A d \in InHand' : d = c
      BY <1>i, <1>j, <1>k, <1>o, <2>1, <3>2 DEF ByHandNow
    <3>4. CASE WriteOpens(w)
      <4>1. /\ write[w].stage = "queued"
            /\ write' = [write EXCEPT ![w].stage = "open"]
        BY <3>4 DEF WriteOpens
      <4>2. InHand = {} /\ Current = disk
        BY <1>c, <1>i, <1>k, <2>3, <3>1, <3>3, <4>1
      <4>3. write'[w].stage = "open" /\ write'[w].what = write[w].what
        BY <2>1, <4>1 DEF Writes
      <4>4. c \in InHand'
        BY <1>j, <2>1, <3>1, <3>2, <4>3
      <4>5. Current' = write[w].what
        BY <1>d, <3>1, <4>3, <4>4
      <4>6. write[w].what = disk \cup {OwnChange(c)}
        BY <3>1, <3>2, <4>1 DEF Inductive, StoreAgrees
      <4>7. OwnChange(c) \in Changes
        BY <3>2, OwnChangeType DEF Inductive
      <4>8. QED
        BY <1>g, <2>1, <4>2, <4>5, <4>6, <4>7 DEF Steps
    <3>5. CASE WriteEnds(w)
      <4>1. write[w].stage = "open" /\ Finished(w, "stored")
        BY <3>5 DEF WriteEnds
      <4>2. c \in InHand /\ Current = write[w].what
        BY <1>c, <1>i, <3>1, <3>2, <4>1
      <4>3. file = "truncated" /\ disk = {}
        BY <1>c, <4>2 DEF Inductive, StoreAgrees
      <4>4. disk' = write[w].what
        BY <3>5, <4>3 DEF WriteEnds
      <4>5. write'[w].stage = "stored"
        BY <2>1, <3>1, <4>1 DEF Finished, Awaited, Writes
      <4>6. InHand' = {}
        BY <1>j, <1>k, <3>1, <3>3, <4>5
      <4>7. QED
        BY <1>d, <1>g, <2>1, <2>3, <4>2, <4>4, <4>6 DEF Steps
    <3>6. CASE WriteFails(w)
      <4>1. write[w].stage \in {"queued", "open"} /\ Finished(w, "failed")
        BY <3>6 DEF WriteFails
      <4>2. write'[w].stage = "failed"
        BY <2>1, <3>1, <4>1 DEF Finished, Awaited, Writes
      <4>3. InHand' = {}
        BY <1>j, <1>k, <3>1, <3>3, <4>2
      <4>4. file' = "whole"
        BY <1>d, <2>1, <2>3, <4>3
      <4>5. write[w].stage = "queued" /\ UNCHANGED <<file, disk>>
        BY <3>6, <4>4 DEF WriteFails
      <4>6. InHand = {}
        BY <1>i, <1>k, <3>1, <3>3, <4>5
      <4>7. QED
        BY <1>c, <1>d, <1>g, <2>1, <2>3, <4>3, <4>5, <4>6 DEF Steps
    <3>7. QED
      BY <1>12, <3>4, <3>5, <3>6 DEF WriteStep
  <2>4. QED
    BY <2>2, <2>3
<1>13. CASE UNCHANGED vars
  BY <1>13, <1>g, <1>q DEF vars, Steps
<1>14. QED
  BY <1>1, <1>2, <1>3, <1>4, <1>5, <1>6, <1>7, <1>8, <1>9, <1>10, <1>11, <1>12, <1>13
     DEF Next, HandlerStep, CommandStep

\* The ledger keeps what LedgerPromise promises: whatever was acknowledged, by an
\* answer, by a report of a command on its own or by a start that serves, stays,
\* over crashes, restarts, failed saves and offline commands, until two work on
\* the file at a time, a command stops waiting, or a write is torn.
THEOREM PromiseKept == Spec => KeepsPromise
<1>1. Init => Promise!PromiseInit
  <2> SUFFICES ASSUME Init PROVE Promise!PromiseInit
    OBVIOUS
  <2>1. ~Void /\ Current = {}
    BY DEF Init, Void, Alone, Torn, Current
  <2>2. Acknowledged = {}
    BY AcknowledgedFacts, NoneAssumption DEF Init
  <2>3. QED
    BY <2>1, <2>2 DEF Promise!PromiseInit
<1>2. Inductive /\ Inductive' /\ [Next]_vars =>
          [Promise!PromiseNext]_<<IF Void THEN {} ELSE Current,
                                  IF Void THEN {} ELSE Acknowledged, Void>>
  <2> SUFFICES ASSUME Inductive, Inductive', [Next]_vars
               PROVE  [Promise!PromiseNext]_<<IF Void THEN {} ELSE Current,
                                  IF Void THEN {} ELSE Acknowledged, Void>>
    OBVIOUS
  <2>b. Void \in BOOLEAN /\ Void' \in BOOLEAN
    BY DEF Void
  <2>1. CASE Void
    <3>1. Void'
      BY <2>1, VoidStays
    <3>2. QED
      BY <2>1, <2>b, <3>1
  <2>2. CASE ~Void /\ Void'
    BY <2>2 DEF Promise!PromiseNext, Promise!GiveUp
  <2>3. CASE ~Void /\ ~Void'
    <3>1. Steps
      BY <2>3, LedgerStep
    <3>2. /\ (IF Void THEN {} ELSE Current) = Current
          /\ (IF Void THEN {} ELSE Acknowledged) = Acknowledged
          /\ (IF Void THEN {} ELSE Current)' = Current'
          /\ (IF Void THEN {} ELSE Acknowledged)' = Acknowledged'
          /\ Void' = Void
      BY <2>3, <2>b
    <3>3. CASE Current' = Current /\ Acknowledged' = Acknowledged
      BY <3>2, <3>3
    <3>4. CASE /\ Acknowledged' = Acknowledged
               /\ \E x \in Changes : Current' = Current \cup {x}
      <4>1. PICK x \in Changes : Current' = Current \cup {x}
        BY <3>4
      <4>2. CASE x \in Current
        <5>1. Current' = Current
          BY <4>1, <4>2
        <5>2. QED
          BY <3>2, <3>4, <5>1
      <4>3. CASE x \notin Current
        BY <2>3, <3>2, <3>4, <4>1, <4>3 DEF Promise!PromiseNext, Promise!Change
      <4>4. QED
        BY <4>2, <4>3
    <3>5. CASE /\ Current' = Current
               /\ \E x \in Current : Acknowledged' = Acknowledged \cup {x}
      BY <2>3, <3>2, <3>5 DEF Promise!PromiseNext, Promise!Acknowledge
    <3>6. CASE /\ Acknowledged' = Acknowledged
               /\ Current' \subseteq Current /\ Acknowledged \subseteq Current'
      BY <2>3, <3>2, <3>6 DEF Promise!PromiseNext, Promise!Lose
    <3>7. QED
      BY <3>1, <3>3, <3>4, <3>5, <3>6 DEF Steps
  <2>4. QED
    BY <2>1, <2>2, <2>3
<1>3. QED
  BY <1>1, <1>2, InductiveInvariant, PTL DEF Spec, KeepsPromise, Promise!PromiseSpec

=============================================================================
