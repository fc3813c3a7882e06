----------------------- MODULE GatewayRoutingProofs -----------------------
(***************************************************************************)
(* Theorems about GatewayRouting, for every number of clients, nodes,      *)
(* workers and sockets.                                                    *)
(*                                                                         *)
(* IInv is inductive. The types, the clients, the locks, the sockets, the  *)
(* routes and the sources of the entries hold whatever happens. That every *)
(* entry has a connection of its own, that who sets one up finds its entry *)
(* again, and that answers go home, hold until a number is taken out of    *)
(* the table while its connection is being set up ("cut").                 *)
(*                                                                         *)
(* Next is first sorted into kinds of steps (Kinds), most of which leave   *)
(* the connections alone (Rests); then there is one lemma for each part of *)
(* the invariant that says that every step keeps it.                       *)
(*                                                                         *)
(* That nodes get whole messages has an invariant of its own, for nodes    *)
(* for which nothing has gone wrong. Whole(n) is what node n was sent and  *)
(* what is queued for it. ConnInv says that its route, its entry and who   *)
(* sets its connection up agree, so that a chunk is always added behind    *)
(* Whole(n) (Added) and nothing is taken away (Kept). TurnsInv says whose  *)
(* chunk is the next one, and for which nodes. Next is then sorted into    *)
(* steps of a thread that is at work on its chunk (Works), that takes one  *)
(* (Takes), messages that begin (Ask), and the others (Stands).            *)
(***************************************************************************)
EXTENDS GatewayRouting, Lemmas

Openers == {"net", "ipc"}    \* the threads that open connections
SetUpPcs == {"list", "route", "add", "fill", "activate"}
ChunkPcs == {"other", "send", "cache", "look", "direct", "store"} \cup SetUpPcs
Present(a) == ask[a].at \in {"idle", "first", "rest"}

\* Where a thread can be.
PcsOf(t) ==
    IF t \in Workers THEN {"loop", "look", "direct", "store"}
    ELSE {"loop", "other", "send", "cache", "remove", "crashed"} \cup SetUpPcs
         \cup (IF t = "ipc" THEN {"leave", "drop"} ELSE {})

\* What a thread has at hand, by where it is: a chunk and the nodes it is still for, or the
\* numbers of the connections to close.
JobIs(t, j) ==
    /\ j = [pc |-> j.pc, a |-> j.a, todo |-> j.todo, f |-> j.f]
    /\ j.pc \in PcsOf(t) /\ j.a \in Askers \cup {None} /\ j.f \in 0 .. MaxFd
    /\ j.pc = "loop" => j = Idle
    /\ j.pc \in ChunkPcs => j.a \in Askers /\ j.todo \in Seq(Nodes) /\ j.todo # <<>>
    /\ j.pc \in SetUpPcs \cup {"remove"} => j.f \in Fds
    /\ t = "ipc" /\ j.pc \in {"leave", "drop", "remove"} => j.a \in Equips
    /\ t = "ipc" /\ j.pc \in {"drop", "remove"} =>
          DOMAIN j.todo \subseteq Nat \ {0} /\ \A i \in DOMAIN j.todo : j.todo[i] \in Fds

JobsAre == job = [t \in Threads |-> job[t]] /\ \A t \in Threads : JobIs(t, job[t])

TableIsFinite == \E k \in Nat : DOMAIN table \subseteq 1 .. k
TableIs == DOMAIN table \subseteq Nat \ {0} /\ table \in [DOMAIN table -> Entry] /\ TableIsFinite

TypesInv == TypeOK /\ JobsAre /\ TableIsFinite

\* There is a chunk to handle.
HasChunk(a) ==
    /\ ask[a].to \in Targets /\ ask[a].msg \in 1 .. MaxAsked /\ ask[a].len \in Lengths
    /\ ask[a].next \in 1 .. ask[a].len

\* A client that is there has its number, and whoever handles a chunk does so for a client
\* whose turn it is, alone.
ClientsInv ==
    /\ \A a \in Askers : Present(a) => fd[a] \in Fds /\ open[fd[a]] = a
    /\ \A a \in Askers : ask[a].at \in {"first", "rest"} => HasChunk(a)
    /\ \A t \in Threads : job[t].pc \in ChunkPcs =>
          /\ HasChunk(job[t].a)
          /\ ask[job[t].a].at \in (IF t \in Workers THEN {"rest", "gone"} ELSE {"first"})
          /\ t \notin Workers => t = Reader(job[t].a)
    /\ \A v, w \in Workers : job[v].pc # "loop" /\ job[w].pc # "loop" /\ job[v].a = job[w].a => v = w
    /\ job["ipc"].pc \in {"leave", "drop", "remove"} => ask[job["ipc"].a].at = "gone"

\* Who holds a lock is at work.
LocksInv ==
    /\ lockI = "net" => job["net"].pc \in ChunkPcs \cup {"crashed"}
    /\ lockE # None => job[lockE].pc \in ChunkPcs \cup {"drop", "remove", "crashed"}
    /\ job["ipc"].pc \in {"drop", "remove"} => lockE = "ipc"

\* What is listed is a connection to a node, nothing waits on a number nobody answers at, a
\* number is not listed twice, and one that is listed while its old entry is taken out of the
\* table is being set up.
SocketsInv ==
    /\ \A f \in listed \cup hung : open[f] \in Nodes
    /\ \A f \in Fds : open[f] \notin Nodes \/ f \in hung => inbox[f] = <<>>
    /\ \A t \in Openers : job[t].pc = "list" => open[job[t].f] = Node(t) /\ job[t].f \notin listed
    /\ job["net"].pc = "list" /\ job["ipc"].pc = "list" => job["net"].f # job["ipc"].f
    /\ \A t \in Openers : job[t].pc = "remove" /\ job[t].f \in listed =>
          /\ t = "ipc" /\ job["net"].f = job[t].f /\ job["net"].pc \in {"route", "add"}
          /\ open[job[t].f] = Node("net")

\* A number is being taken out of the table.
Removing(f) == \E t \in Openers : job[t].pc = "remove" /\ job[t].f = f

\* As long as no connection was cut off while it was being set up: every entry is that of a
\* connection of its own, and has its queue once it was filled;
EntriesInv ==
    /\ \A i, j \in DOMAIN table : table[i].fd = table[j].fd => i = j
    /\ \A i \in DOMAIN table :
          /\ table[i].fd \in listed \/ Removing(table[i].fd)
          /\ table[i].queue = NoQueue => \E t \in Openers : job[t].pc = "fill" /\ job[t].f = table[i].fd

\* Entries of number f are left from the connection before.
LeftOver(t, f) ==
    \/ t = "net" /\ job["ipc"].pc = "remove" /\ job["ipc"].f = f
    \/ t = "ipc" /\ job["net"].pc = "remove" /\ job["net"].f = f /\ job[t].pc = "list"

\* and a thread that sets a connection up has it for itself, with no entry before it makes one
\* and with one afterwards, and nobody has asked for the activation.
SetUpInv ==
    /\ \A t \in Openers :
          /\ job[t].pc # "crashed"
          /\ job[t].pc \in {"list", "route", "add"} =>
                \A i \in DOMAIN table : table[i].fd = job[t].f => LeftOver(t, job[t].f)
          /\ job[t].pc = "fill" => \E i \in DOMAIN table : table[i].fd = job[t].f
          /\ job[t].pc \in SetUpPcs => open[job[t].f] = Node(t) \/ Removing(job[t].f)
          /\ job[t].pc \in SetUpPcs \ {"list"} => job[t].f \in listed \/ Removing(job[t].f)
          /\ job[t].pc \in SetUpPcs => inbox[job[t].f] \in Seq(Items)
    /\ job["net"].pc \in SetUpPcs /\ job["ipc"].pc \in SetUpPcs => job["net"].f # job["ipc"].f

\* A route leads to an entry or one that is about to be made; what is listed is routed or about
\* to be; who opens a connection to a node has found no route and is alone.
RouteInv ==
    /\ \A n \in Nodes : route[n] # 0 =>
          \/ \E i \in DOMAIN table : table[i].fd = route[n]
          \/ \E t \in Openers : job[t].pc = "add" /\ job[t].f = route[n]
    /\ \A f \in listed :
          \/ flaws[open[f]] \cap {"twice", "cut"} # {}
          \/ route[open[f]] = f
          \/ \E t \in Openers : job[t].pc = "route" /\ job[t].f = f /\ Node(t) = open[f]
    /\ \A t \in Openers : job[t].pc \in {"cache", "list", "route"} =>
          \/ flaws[Node(t)] \cap {"twice", "cut"} # {}
          \/ /\ route[Node(t)] = 0
             /\ \A u \in Openers : job[u].pc \in {"cache", "list", "route"} /\ Node(u) = Node(t) => u = t

\* An entry keeps the number of the client it was filled for.
SourcesInv ==
    \A i \in DOMAIN table :
        IF table[i].opener = None THEN table[i].source = 0
        ELSE table[i].source = fd[table[i].opener] /\ ask[table[i].opener].at # "away"

\* Number f is one that leaving equipment still has to close, or is closing.
Closes(f) ==
    \/ job["ipc"].pc = "leave"
    \/ job["ipc"].pc \in {"drop", "remove"} /\ \E p \in DOMAIN job["ipc"].todo : job["ipc"].todo[p] = f
    \/ job["ipc"].pc = "remove" /\ job["ipc"].f = f

Home(i) ==
    table[i].opener \in Equips =>
        \/ Present(table[i].opener)
        \/ job["net"].pc = "remove" /\ job["net"].f = table[i].fd
        \/ job["ipc"].a = table[i].opener /\ Closes(table[i].fd)

\* As long as no connection was cut off: an entry filled for local equipment that has left is
\* one that is still to be closed, or being taken out of the table.
HomeInv ==
    /\ \A i \in DOMAIN table : Home(i)
    /\ \A x \in astray : ~(x[1] \in Equips /\ x[3])

Clean == \A n \in Nodes : "cut" \notin flaws[n]

BasicInv == TypesInv /\ ClientsInv /\ LocksInv /\ SocketsInv
FreshInv == Clean => EntriesInv /\ SetUpInv
IInv == BasicInv /\ FreshInv /\ RouteInv /\ SourcesInv /\ (Clean => HomeInv)

-----------------------------------------------------------------------------
\* The constants.
LEMMA Constants ==
  /\ Testers \cap Equips = {} /\ Askers \cap Nodes = {} /\ Askers = Testers \cup Equips
  /\ None \notin Askers \cup Nodes \cup Threads /\ None \notin Items
  /\ "net" \notin Workers /\ "ipc" \notin Workers /\ Threads = Openers \cup Workers
  /\ MaxFd \in Nat /\ MaxAsked \in Nat /\ Lengths \subseteq Nat \ {0}
  /\ Fds = 1 .. MaxFd
BY GatewayAssumption DEF Askers, Threads, Openers, Fds

\* What a message is sent to are nodes, at least one.
LEMMA ToListIs ==
  ASSUME NEW to \in Targets
  PROVE  ToList(to) \in Seq(Nodes) /\ ToList(to) # <<>>
<1>1. CASE to = "group"
  BY <1>1, GatewayAssumption DEF ToList
<1>2. CASE to # "group"
  <2>1. to \in Nodes
    BY <1>2, GatewayAssumption
  <2>2. QED
    BY <1>2, <2>1 DEF ToList
<1>3. QED
  BY <1>1, <1>2

\* The place found first is the least one.
LEMMA FirstIs ==
  ASSUME NEW S, S \subseteq Nat \ {0}
  PROVE  /\ FirstOf(S) = 0 <=> S = {}
         /\ S # {} => FirstOf(S) \in S /\ \A j \in S : FirstOf(S) <= j
<1>1. CASE S = {}
  BY <1>1 DEF FirstOf
<1>2. CASE S # {}
  <2>1. PICK x \in S : \A y \in S : x <= y
    <3>1. S \subseteq Nat
      OBVIOUS
    <3>2. QED
      BY <1>2, <3>1, LeastNumber
  <2>2. FirstOf(S) = CHOOSE i \in S : \A j \in S : i <= j
    BY <1>2 DEF FirstOf
  <2>3. FirstOf(S) \in S /\ \A j \in S : FirstOf(S) <= j
    BY <2>1, <2>2
  <2>4. QED
    BY <1>2, <2>3
<1>3. QED
  BY <1>1, <1>2

\* The entry with a number, the place it has in the table.
LEMMA ByFdIs ==
  ASSUME TypeOK, NEW f
  PROVE  /\ ByFd(f) = 0 <=> \A i \in DOMAIN table : table[i].fd # f
         /\ ByFd(f) # 0 => ByFd(f) \in DOMAIN table /\ table[ByFd(f)].fd = f
<1>1. PICK S : S = {i \in DOMAIN table : table[i].fd = f}
  OBVIOUS
<1>2. S \subseteq Nat \ {0}
  BY <1>1 DEF TypeOK
<1>3. ByFd(f) = FirstOf(S)
  BY <1>1 DEF ByFd
<1>4. (FirstOf(S) = 0 <=> S = {}) /\ (S # {} => FirstOf(S) \in S)
  BY <1>2, FirstIs
<1>5. QED
  BY <1>1, <1>3, <1>4

\* The entry of a node.
LEMMA ByNodeIs ==
  ASSUME TypeOK, NEW n
  PROVE  ByNode(n) # 0 => ByNode(n) \in DOMAIN table /\ table[ByNode(n)].node = n
<1>1. PICK S : S = {i \in DOMAIN table : table[i].node = n}
  OBVIOUS
<1>2. S \subseteq Nat \ {0}
  BY <1>1 DEF TypeOK
<1>3. ByNode(n) = FirstOf(S)
  BY <1>1 DEF ByNode
<1>4. (FirstOf(S) = 0 <=> S = {}) /\ (S # {} => FirstOf(S) \in S)
  BY <1>2, FirstIs
<1>5. QED
  BY <1>1, <1>3, <1>4

\* A new entry comes behind the others.
LEMMA BehindIs ==
  ASSUME TypesInv
  PROVE  /\ Behind \in Nat \ {0} /\ Behind \notin DOMAIN table /\ \A j \in DOMAIN table : j < Behind
         /\ \E k \in Nat : DOMAIN table \cup {Behind} \subseteq 1 .. k
<1>1. PICK T : T = {k \in Nat : DOMAIN table \subseteq 1 .. k}
  OBVIOUS
<1>2. T \subseteq Nat /\ T # {}
  BY <1>1 DEF TypesInv, TableIsFinite
<1>3. PICK m \in T : \A k \in T : m <= k
  BY <1>2, LeastNumber
<1>4. m \in Nat /\ DOMAIN table \subseteq 1 .. m
  BY <1>1, <1>3
<1>5. PICK P : P = {1} \cup {j + 1 : j \in DOMAIN table}
  OBVIOUS
<1>6. \E i \in P : \A j \in DOMAIN table : j < i
  <2>1. CASE m = 0
    <3>1. \A j \in DOMAIN table : j \in 1 .. 0
      BY <1>4, <2>1
    <3>2. 1 \in P /\ \A j \in DOMAIN table : j < 1
      BY <1>5, <3>1
    <3>3. QED
      BY <3>2
  <2>2. CASE m # 0
    <3>1. m - 1 \in Nat /\ m - 1 \notin T
      BY <1>2, <1>3, <1>4, <2>2
    <3>2. ~(DOMAIN table \subseteq 1 .. m - 1)
      BY <1>1, <3>1
    <3>3. PICK j \in DOMAIN table : j \notin 1 .. m - 1
      BY <3>2
    <3>4. j = m
      BY <1>4, <3>3
    <3>5. m + 1 \in P /\ \A i \in DOMAIN table : i < m + 1
      BY <1>4, <1>5, <3>3, <3>4
    <3>6. QED
      BY <3>5
  <2>3. QED
    BY <2>1, <2>2
<1>7. Behind = CHOOSE i \in P : \A j \in DOMAIN table : j < i
  BY <1>5 DEF Behind
<1>8. Behind \in P /\ \A j \in DOMAIN table : j < Behind
  BY <1>6, <1>7
<1>9. DOMAIN table \subseteq Nat \ {0}
  BY DEF TypesInv, TypeOK
<1>10. Behind \in Nat \ {0} /\ Behind \notin DOMAIN table
  <2>1. Behind = 1 \/ \E j \in DOMAIN table : Behind = j + 1
    BY <1>5, <1>8
  <2>2. Behind \in Nat \ {0}
    BY <1>9, <2>1
  <2>3. Behind \notin DOMAIN table
    BY <1>8, <2>2
  <2>4. QED
    BY <2>2, <2>3
<1>11. DOMAIN table \cup {Behind} \subseteq 1 .. m + Behind /\ m + Behind \in Nat
  <2>1. \A i \in DOMAIN table : i \in 1 .. m + Behind
    BY <1>4, <1>10
  <2>2. Behind \in 1 .. m + Behind /\ m + Behind \in Nat
    BY <1>4, <1>10
  <2>3. QED
    BY <2>1, <2>2
<1>12. QED
  BY <1>8, <1>10, <1>11

\* The lowest free number.
LEMMA LowestIs ==
  ASSUME FreeFds # {}
  PROVE  LowestFree \in Fds /\ open[LowestFree] = None
<1>1. FreeFds \subseteq Nat /\ FreeFds \subseteq Fds
  BY Constants DEF FreeFds
<1>2. PICK x \in FreeFds : \A y \in FreeFds : x <= y
  BY <1>1, LeastNumber
<1>3. LowestFree \in FreeFds
  BY <1>2 DEF LowestFree
<1>4. QED
  BY <1>1, <1>3 DEF FreeFds

-----------------------------------------------------------------------------
\* What TypesInv says, without its definitions.
LEMMA Types ==
  ASSUME TypesInv
  PROVE  /\ open \in [Fds -> Askers \cup Nodes \cup {None}] /\ listed \subseteq Fds /\ hung \subseteq Fds
         /\ inbox \in [Fds -> Seq(Items \cup {Request})]
         /\ fd \in [Askers -> 0 .. MaxFd] /\ asked \in 0 .. MaxAsked
         /\ ask \in [Askers -> Question] /\ \A a \in Askers : ask[a].next \in 1 .. ask[a].len + 1
         /\ route \in [Nodes -> 0 .. MaxFd]
         /\ DOMAIN table \subseteq Nat \ {0} /\ table \in [DOMAIN table -> Entry]
         /\ lockI \in {None, "net"} /\ lockE \in {None, "ipc"} \cup Workers
         /\ got \in [Nodes -> Seq(Items)] /\ flaws \in [Nodes -> SUBSET Flaws]
         /\ astray \subseteq (Askers \X Askers \X BOOLEAN)
         /\ job = [t \in Threads |-> job[t]] /\ \A t \in Threads : JobIs(t, job[t])
         /\ TableIsFinite /\ TypeOK
BY DEF TypesInv, TypeOK, JobsAre

\* What is known of a thread by where it is.
LEMMA JobOf ==
  ASSUME TypesInv, NEW t \in Threads
  PROVE  /\ job[t].pc \in PcsOf(t) /\ job[t].a \in Askers \cup {None} /\ job[t].f \in 0 .. MaxFd
         /\ t \in Workers => job[t].pc \in {"loop", "look", "direct", "store"}
         /\ t \notin Workers => t \in Openers
         /\ job[t].pc \in {"leave", "drop"} => t = "ipc"
         /\ job[t].pc \in {"look", "direct", "store"} => t \in Workers
         /\ job[t].pc = "loop" => job[t] = Idle /\ job[t].a = None /\ job[t].todo = <<>> /\ job[t].f = 0
         /\ job[t].pc \in ChunkPcs => /\ job[t].a \in Askers /\ job[t].todo \in Seq(Nodes)
                                      /\ job[t].todo # <<>> /\ Node(t) \in Nodes
         /\ job[t].pc \in SetUpPcs \cup {"remove"} => job[t].f \in Fds
         /\ t = "ipc" /\ job[t].pc \in {"leave", "drop", "remove"} => job[t].a \in Equips
         /\ t = "ipc" /\ job[t].pc \in {"drop", "remove"} =>
               DOMAIN job[t].todo \subseteq Nat \ {0} /\ \A i \in DOMAIN job[t].todo : job[t].todo[i] \in Fds
<1>1. JobIs(t, job[t])
  BY Types
<1>2. job[t].pc = "loop" => job[t] = Idle
  BY <1>1 DEF JobIs
<1>3. job[t].pc = "loop" => job[t].a = None /\ job[t].todo = <<>> /\ job[t].f = 0
  BY <1>2 DEF Idle
<1>4. job[t].pc \in ChunkPcs => job[t].a \in Askers /\ job[t].todo \in Seq(Nodes) /\ job[t].todo # <<>>
  BY <1>1 DEF JobIs
<1>5. job[t].pc \in ChunkPcs => Node(t) \in Nodes
  BY <1>4 DEF Node
<1>6. job[t].pc \in PcsOf(t)
  BY <1>1 DEF JobIs
<1>7. /\ t \in Workers => job[t].pc \in {"loop", "look", "direct", "store"}
      /\ t \notin Workers => t \in Openers
      /\ job[t].pc \in {"leave", "drop"} => t = "ipc"
      /\ job[t].pc \in {"look", "direct", "store"} => t \in Workers
  BY <1>6, Constants DEF PcsOf, SetUpPcs, Openers
<1>8. QED
  BY <1>1, <1>2, <1>3, <1>4, <1>5, <1>6, <1>7 DEF JobIs

\* Thread t gets something else to do.
Becomes(t, r) == job' = [job EXCEPT ![t] = r]

\* Only thread t has something else to do.
LEMMA BecomesIs ==
  ASSUME TypesInv, NEW t \in Threads, NEW r, Becomes(t, r)
  PROVE  /\ job'[t] = r /\ \A u \in Threads \ {t} : job'[u] = job[u]
         /\ job' = [u \in Threads |-> job'[u]]
<1>1. job = [u \in Threads |-> job[u]]
  BY Types
<1>2. QED
  BY <1>1 DEF Becomes

\* Thread t goes to another place with what it has at hand.
Moves(t, pc, f) == Becomes(t, [pc |-> pc, a |-> job[t].a, todo |-> job[t].todo, f |-> f])

\* Goto and GotoWith write the whole of what the thread has at hand.
LEMMA MovesIs ==
  ASSUME TypesInv, NEW t \in Threads, NEW pc, NEW f
  PROVE  /\ Goto(t, pc) => Moves(t, pc, job[t].f)
         /\ GotoWith(t, pc, f) => Moves(t, pc, f)
<1>1. PICK j : j = job[t]
  OBVIOUS
<1>2. j = [pc |-> j.pc, a |-> j.a, todo |-> j.todo, f |-> j.f]
  BY <1>1, Types DEF JobIs
<1>3. [j EXCEPT !.pc = pc] = [pc |-> pc, a |-> j.a, todo |-> j.todo, f |-> j.f]
  BY <1>2
<1>4. [j EXCEPT !.pc = pc, !.f = f] = [pc |-> pc, a |-> j.a, todo |-> j.todo, f |-> f]
  <2>1. PICK k : k = [pc |-> pc, a |-> j.a, todo |-> j.todo, f |-> j.f]
    OBVIOUS
  <2>2. [j EXCEPT !.pc = pc, !.f = f] = [k EXCEPT !.f = f]
    BY <1>3, <2>1
  <2>3. [k EXCEPT !.f = f] = [pc |-> pc, a |-> j.a, todo |-> j.todo, f |-> f]
    BY <2>1
  <2>4. QED
    BY <2>2, <2>3
<1>5. Goto(t, pc) => Moves(t, pc, job[t].f)
  BY <1>1, <1>3 DEF Goto, Moves, Becomes
<1>6. GotoWith(t, pc, f) => Moves(t, pc, f)
  BY <1>1, <1>4 DEF GotoWith, Moves, Becomes
<1>7. QED
  BY <1>5, <1>6

\* After a chunk for one node the thread goes on with the next one, or it is done.
GoesOn(t) ==
    /\ Becomes(t, [pc |-> IF t \in Workers THEN "look" ELSE "other", a |-> job[t].a,
                   todo |-> Tail(job[t].todo), f |-> job[t].f])
    /\ Tail(job[t].todo) \in Seq(Nodes) /\ Tail(job[t].todo) # <<>>
    /\ UNCHANGED <<ask, lockI, lockE>>

IsDone(t) ==
    LET a == job[t].a IN
    /\ Becomes(t, Idle)
    /\ ask' = IF ask[a].at = "gone" THEN ask
              ELSE [ask EXCEPT ![a].next = @ + 1, ![a].at = IF LastOf(a) THEN "idle" ELSE "rest"]
    /\ lockI' = Released(lockI, t) /\ lockE' = Released(lockE, t)

\* That is what Next1 does.
LEMMA NextIs ==
  ASSUME TypesInv, NEW t \in Threads, job[t].pc \in ChunkPcs, Next1(t)
  PROVE  GoesOn(t) \/ IsDone(t)
<1>1. PICK j : j = job[t]
  OBVIOUS
<1>2. j = [pc |-> j.pc, a |-> j.a, todo |-> j.todo, f |-> j.f]
  BY <1>1, Types DEF JobIs
<1>3. j.todo \in Seq(Nodes) /\ j.todo # <<>>
  BY <1>1, JobOf
<1>4. CASE Len(job[t].todo) > 1
  <2>1. PICK p : p = IF t \in Workers THEN "look" ELSE "other"
    OBVIOUS
  <2>2. job' = [job EXCEPT ![t] = [j EXCEPT !.pc = p, !.todo = Tail(@)]] /\ UNCHANGED <<ask, lockI, lockE>>
    BY <1>1, <1>4, <2>1 DEF Next1
  <2>3. [j EXCEPT !.pc = p, !.todo = Tail(@)] = [pc |-> p, a |-> j.a, todo |-> Tail(j.todo), f |-> j.f]
    <3>1. PICK k : k = [pc |-> p, a |-> j.a, todo |-> j.todo, f |-> j.f]
      OBVIOUS
    <3>2. PICK s : s = Tail(j.todo)
      OBVIOUS
    <3>3. [j EXCEPT !.pc = p] = k
      BY <1>2, <3>1
    <3>4. [j EXCEPT !.pc = p, !.todo = Tail(@)] = [k EXCEPT !.todo = s]
      BY <3>1, <3>2, <3>3
    <3>5. [k EXCEPT !.todo = s] = [pc |-> p, a |-> j.a, todo |-> s, f |-> j.f]
      BY <3>1
    <3>6. QED
      BY <3>2, <3>4, <3>5
  <2>4. Tail(j.todo) \in Seq(Nodes) /\ Tail(j.todo) # <<>>
    <3>1. PICK s \in Seq(Nodes) : s = j.todo
      BY <1>3
    <3>2. Len(s) > 1 /\ Len(s) \in Nat
      BY <1>1, <1>4, <3>1
    <3>3. Tail(s) \in Seq(Nodes) /\ Len(Tail(s)) = Len(s) - 1
      BY <1>3, <3>1, <3>2
    <3>4. PICK r : r = Tail(s)
      OBVIOUS
    <3>5. r \in Seq(Nodes) /\ Len(r) > 0
      BY <3>2, <3>3, <3>4
    <3>6. r # <<>>
      BY <3>5
    <3>7. QED
      BY <3>1, <3>4, <3>5, <3>6
  <2>5. QED
    BY <1>1, <2>1, <2>2, <2>3, <2>4 DEF GoesOn, Becomes
<1>5. CASE ~(Len(job[t].todo) > 1)
  BY <1>5 DEF Next1, IsDone, Becomes
<1>6. QED
  BY <1>4, <1>5

-----------------------------------------------------------------------------
\* A chunk is an item, and a request for activation is none.
LEMMA ItemIs ==
  ASSUME NEW a \in Askers, HasChunk(a)
  PROVE  Item(a) \in Items
<1>1. Lengths \subseteq Nat \ {0} /\ MaxAsked \in Nat
  BY Constants
<1>2. ask[a].next \in Chunks
  BY <1>1 DEF HasChunk, Chunks
<1>3. QED
  BY <1>2 DEF HasChunk, Item, Items

\* A request for activation is no chunk, and a queue of chunks is not the missing one.
LEMMA RequestIsNone == Request \notin Items /\ NoQueue \notin Seq(Items) /\ NoQueue # <<>>
<1>1. Request \notin Items
  <2>1. \A x \in Items : Len(x) = 3
    BY DEF Items
  <2>2. Len(Request) = 1
    BY DEF Request
  <2>3. QED
    BY <2>1, <2>2
<1>2. NoQueue \notin Seq(Items)
  <2>1. 1 \in 1 .. Len(NoQueue) /\ NoQueue[1] = None
    BY DEF NoQueue
  <2>2. NoQueue \in Seq(Items) => NoQueue[1] \in Items
    BY <2>1
  <2>3. QED
    BY <2>1, <2>2, Constants
<1>3. QED
  BY <1>1, <1>2 DEF NoQueue

\* What has gone wrong stays on the account, and nothing is cut off but in RemoveEntry.
Worse == \A n \in Nodes : flaws[n] \subseteq flaws'[n]
NoCut == \A n \in Nodes : "cut" \in flaws'[n] => "cut" \in flaws[n]
AccountIs == got' \in [Nodes -> Seq(Items)] /\ flaws' \in [Nodes -> SUBSET Flaws] /\ Worse

\* The history after something went wrong.
LEMMA FlawIs ==
  ASSUME TypesInv, NEW N, NEW why \in Flaws, Flaw(N, why)
  PROVE  /\ AccountIs /\ \A n \in Nodes : n \in N => why \in flaws'[n]
         /\ why # "cut" => NoCut
<1>1. /\ flaws' = [n \in Nodes |-> IF n \in N THEN flaws[n] \cup {why} ELSE flaws[n]]
      /\ got' = [n \in Nodes |-> IF n \in N THEN <<>> ELSE got[n]]
  BY DEF Flaw
<1>2. got \in [Nodes -> Seq(Items)] /\ flaws \in [Nodes -> SUBSET Flaws]
  BY Types
<1>3. got' \in [Nodes -> Seq(Items)]
  BY <1>1, <1>2
<1>4. flaws' \in [Nodes -> SUBSET Flaws] /\ Worse
  BY <1>1, <1>2 DEF Worse
<1>5. /\ \A n \in Nodes : n \in N => why \in flaws'[n]
      /\ why # "cut" => NoCut
  BY <1>1 DEF NoCut
<1>6. QED
  BY <1>3, <1>4, <1>5 DEF AccountIs

\* The history of the nodes if nothing happened to them.
LEMMA AccountKept ==
  ASSUME TypesInv, UNCHANGED account
  PROVE  AccountIs /\ NoCut
<1>1. got' = got /\ flaws' = flaws
  BY DEF account
<1>2. QED
  BY <1>1, Types DEF AccountIs, NoCut, Worse

\* The history after a node was sent some chunks.
LEMMA AfterIs ==
  ASSUME TypesInv, NEW n, NEW items \in Seq(Items), got' = After(n, items), flaws' = flaws
  PROVE  AccountIs /\ NoCut
<1>1. got \in [Nodes -> Seq(Items)] /\ flaws \in [Nodes -> SUBSET Flaws]
  BY Types
<1>2. got' \in [Nodes -> Seq(Items)]
  <2>1. CASE flaws[n] = {}
    <3>1. got' = [got EXCEPT ![n] = @ \o items]
      BY <2>1 DEF After
    <3>2. n \in Nodes => got[n] \o items \in Seq(Items)
      BY <1>1
    <3>3. QED
      BY <1>1, <3>1, <3>2
  <2>2. CASE flaws[n] # {}
    BY <1>1, <2>2 DEF After
  <2>3. QED
    BY <2>1, <2>2
<1>3. QED
  BY <1>1, <1>2 DEF AccountIs, NoCut, Worse

\* A write ends up in the inbox of a node that is there, or nowhere.
WrittenTo(f, item) ==
    \A g \in Fds : \/ inbox'[g] = inbox[g]
                   \/ g = f /\ open[g] \in Nodes /\ g \notin hung /\ inbox'[g] = Append(inbox[g], item)

\* The history and the inboxes after a write.
LEMMA WrittenIs ==
  ASSUME TypesInv, NEW f \in 0 .. MaxFd, NEW n, NEW item \in Items \cup {Request}, Written(f, n, item)
  PROVE  AccountIs /\ NoCut /\ inbox' \in [Fds -> Seq(Items \cup {Request})] /\ WrittenTo(f, item)
<1>1. inbox \in [Fds -> Seq(Items \cup {Request})]
  BY Types
<1>2. CASE f # 0 /\ open[f] \in Nodes /\ f \notin hung
  <2>1. inbox' = [inbox EXCEPT ![f] = Append(@, item)]
    BY <1>2 DEF Written
  <2>2. f \in Fds
    BY <1>2, Constants
  <2>3. Append(inbox[f], item) \in Seq(Items \cup {Request})
    BY <1>1, <2>2
  <2>4. inbox' \in [Fds -> Seq(Items \cup {Request})] /\ WrittenTo(f, item)
    BY <1>1, <1>2, <2>1, <2>2, <2>3 DEF WrittenTo
  <2>5. AccountIs /\ NoCut
    <3>1. CASE open[f] # n
      <4>1. Flaw({n, open[f]}, "misled")
        BY <1>2, <3>1 DEF Written
      <4>2. QED
        BY <4>1, FlawIs DEF Flaws
    <3>2. CASE open[f] = n
      <4>1. PICK items : items = IF item = Request THEN <<>> ELSE <<item>>
        OBVIOUS
      <4>2. items \in Seq(Items)
        BY <4>1
      <4>3. got' = After(n, items) /\ flaws' = flaws
        BY <1>2, <3>2, <4>1 DEF Written
      <4>4. QED
        BY <4>2, <4>3, AfterIs
    <3>3. QED
      BY <3>1, <3>2
  <2>6. QED
    BY <2>4, <2>5
<1>3. CASE ~(f # 0 /\ open[f] \in Nodes /\ f \notin hung)
  <2>1. Flaw({n}, "broken") /\ inbox' = inbox
    BY <1>3 DEF Written
  <2>2. AccountIs /\ NoCut
    BY <2>1, FlawIs DEF Flaws
  <2>3. QED
    BY <1>1, <2>1, <2>2 DEF WrittenTo
<1>4. QED
  BY <1>2, <1>3

\* A client that was not cut off by the step was not cut off before.
LEMMA CleanBefore ==
  ASSUME Worse, Clean'
  PROVE  Clean
BY DEF Worse, Clean

-----------------------------------------------------------------------------
\* What every thread has at hand after one of them has got something else to do.
LEMMA JobsKept ==
  ASSUME TypesInv, NEW t \in Threads, NEW r, Becomes(t, r), JobIs(t, r)
  PROVE  JobsAre'
<1>1. /\ job'[t] = r /\ \A u \in Threads \ {t} : job'[u] = job[u]
      /\ job' = [u \in Threads |-> job'[u]]
  BY BecomesIs
<1>2. ASSUME NEW u \in Threads PROVE JobIs(u, job[u])'
  <2>1. CASE u = t
    <3>1. JobIs(u, job'[u])
      BY <1>1, <2>1
    <3>2. QED
      BY <3>1 DEF JobIs
  <2>2. CASE u # t
    <3>1. job'[u] = job[u] /\ JobIs(u, job[u])
      BY <1>1, <2>2, Types
    <3>2. QED
      BY <3>1 DEF JobIs
  <2>3. QED
    BY <2>1, <2>2
<1>3. QED
  BY <1>1, <1>2 DEF JobsAre

\* What every thread has at hand if none got something else to do.
LEMMA JobsUnchanged ==
  ASSUME TypesInv, job' = job
  PROVE  JobsAre'
BY Types DEF JobsAre, JobIs

\* A thread that has nothing to do.
LEMMA IdleFits ==
  ASSUME NEW t \in Threads
  PROVE  JobIs(t, Idle)
<1>1. /\ Idle.pc = "loop" /\ Idle.a = None /\ Idle.f = 0
      /\ Idle = [pc |-> Idle.pc, a |-> Idle.a, todo |-> Idle.todo, f |-> Idle.f]
  BY DEF Idle
<1>2. 0 \in 0 .. MaxFd
  BY Constants
<1>3. QED
  BY <1>1, <1>2 DEF JobIs, PcsOf, SetUpPcs, ChunkPcs

\* What every thread has at hand after one has gone to another place.
LEMMA MovesFit ==
  ASSUME TypesInv, NEW t \in Threads, NEW pc \in PcsOf(t), NEW f \in 0 .. MaxFd, Moves(t, pc, f),
         pc \in ChunkPcs => job[t].pc \in ChunkPcs, pc \in SetUpPcs \cup {"remove"} => f \in Fds,
         pc \notin {"loop", "leave", "drop"}, t = "ipc" => pc # "remove"
  PROVE  JobsAre'
<1>1. PICK r : r = [pc |-> pc, a |-> job[t].a, todo |-> job[t].todo, f |-> f]
  OBVIOUS
<1>2. JobIs(t, r)
  <2>1. r.pc = pc /\ r.a = job[t].a /\ r.todo = job[t].todo /\ r.f = f
    BY <1>1
  <2>2. r = [pc |-> r.pc, a |-> r.a, todo |-> r.todo, f |-> r.f]
    BY <1>1
  <2>3. job[t].a \in Askers \cup {None}
    BY JobOf
  <2>4. pc \in ChunkPcs => job[t].a \in Askers /\ job[t].todo \in Seq(Nodes) /\ job[t].todo # <<>>
    BY JobOf
  <2>5. QED
    BY <2>1, <2>2, <2>3, <2>4 DEF JobIs
<1>3. QED
  BY <1>1, <1>2, JobsKept DEF Moves

\* What every thread has at hand after a chunk was handled for one node.
LEMMA NextFit ==
  ASSUME TypesInv, NEW t \in Threads, job[t].pc \in ChunkPcs, GoesOn(t) \/ IsDone(t)
  PROVE  JobsAre'
<1>1. CASE IsDone(t)
  BY <1>1, IdleFits, JobsKept DEF IsDone
<1>2. CASE GoesOn(t)
  <2>1. PICK r : r = [pc |-> IF t \in Workers THEN "look" ELSE "other", a |-> job[t].a,
                      todo |-> Tail(job[t].todo), f |-> job[t].f]
    OBVIOUS
  <2>2. Becomes(t, r) /\ r.todo \in Seq(Nodes) /\ r.todo # <<>>
    BY <1>2, <2>1 DEF GoesOn
  <2>3. /\ r.pc \in PcsOf(t) /\ r.pc \in {"look", "other"} /\ r.a = job[t].a /\ r.f = job[t].f
        /\ r = [pc |-> r.pc, a |-> r.a, todo |-> r.todo, f |-> r.f]
    BY <2>1 DEF PcsOf
  <2>4. job[t].a \in Askers /\ job[t].f \in 0 .. MaxFd
    BY JobOf
  <2>5. JobIs(t, r)
    BY <2>2, <2>3, <2>4 DEF JobIs, SetUpPcs, ChunkPcs
  <2>6. QED
    BY <2>2, <2>5, JobsKept
<1>3. QED
  BY <1>1, <1>2

\* A client whose chunk was handled.
LEMMA AskIs ==
  ASSUME TypesInv, ClientsInv, NEW t \in Threads, job[t].pc \in ChunkPcs, GoesOn(t) \/ IsDone(t)
  PROVE  /\ ask' \in [Askers -> Question] /\ \A a \in Askers : (ask[a].next \in 1 .. ask[a].len + 1)'
         /\ lockI' \in {None, "net"} /\ lockE' \in {None, "ipc"} \cup Workers
<1>1. lockI \in {None, "net"} /\ lockE \in {None, "ipc"} \cup Workers
  BY Types
<1>2. lockI' \in {None, "net"} /\ lockE' \in {None, "ipc"} \cup Workers
  BY <1>1 DEF GoesOn, IsDone, Released
<1>3. ask \in [Askers -> Question] /\ \A a \in Askers : ask[a].next \in 1 .. ask[a].len + 1
  BY Types
<1>4. CASE ask' = ask
  BY <1>2, <1>3, <1>4
<1>5. CASE ask' # ask
  <2>1. PICK a : a = job[t].a
    OBVIOUS
  <2>2. a \in Askers /\ HasChunk(a)
    BY <2>1, JobOf DEF ClientsInv
  <2>3. PICK p : p = IF LastOf(a) THEN "idle" ELSE "rest"
    OBVIOUS
  <2>4. ask' = [ask EXCEPT ![a].next = @ + 1, ![a].at = p]
    BY <1>5, <2>1, <2>3 DEF GoesOn, IsDone
  <2>5. PICK q \in Question : q = ask[a]
    BY <1>3, <2>2
  <2>6. PICK r : r = [q EXCEPT !.next = @ + 1, !.at = p]
    OBVIOUS
  <2>7. ask' = [ask EXCEPT ![a] = r]
    BY <2>4, <2>5, <2>6
  <2>8. q.next \in 1 .. q.len /\ q.len \in Nat
    BY <2>2, <2>5, Constants DEF HasChunk
  <2>9. r \in Question /\ r.next = q.next + 1 /\ r.len = q.len
    <3>1. PICK k : k = [q EXCEPT !.next = @ + 1]
      OBVIOUS
    <3>2. k \in Question /\ k.next = q.next + 1 /\ k.len = q.len
      BY <2>8, <3>1 DEF Question
    <3>3. r = [k EXCEPT !.at = p] /\ p \in {"idle", "rest"}
      BY <2>3, <2>6, <3>1 DEF Question
    <3>4. QED
      BY <3>2, <3>3 DEF Question
  <2>10. r.next \in 1 .. r.len + 1
    BY <2>8, <2>9
  <2>11. QED
    BY <1>2, <1>3, <2>2, <2>7, <2>9, <2>10
<1>6. QED
  BY <1>4, <1>5

-----------------------------------------------------------------------------
\* A step that leaves the entries of the table where they are, with their numbers and clients.
SameEntries ==
    /\ DOMAIN table' = DOMAIN table
    /\ \A i \in DOMAIN table :
          /\ table'[i].fd = table[i].fd /\ table'[i].source = table[i].source
          /\ table'[i].opener = table[i].opener
          /\ table'[i].queue = NoQueue => table[i].queue = NoQueue

\* The table if it is left alone.
LEMMA TableUnchanged ==
  ASSUME TypesInv, table' = table
  PROVE  TableIs' /\ SameEntries
BY Types DEF TableIs, TableIsFinite, SameEntries

\* One entry is changed.
LEMMA EntryChanged ==
  ASSUME TypesInv, NEW i \in DOMAIN table, NEW e \in Entry, table' = [table EXCEPT ![i] = e]
  PROVE  TableIs' /\ DOMAIN table' = DOMAIN table /\ table'[i] = e
         /\ \A j \in DOMAIN table \ {i} : table'[j] = table[j]
BY Types DEF TableIs, TableIsFinite

\* The step or the queue of one entry is changed.
LEMMA EntryIs ==
  ASSUME TypesInv, NEW i \in DOMAIN table, NEW s \in {1, 2}, NEW q \in Seq(Items)
  PROVE  /\ table' = [table EXCEPT ![i].step = s] => TableIs' /\ SameEntries
         /\ table' = [table EXCEPT ![i].queue = q] => TableIs' /\ SameEntries
         /\ table' = [table EXCEPT ![i] = [@ EXCEPT !.queue = q, !.step = s]] => TableIs' /\ SameEntries
<1>1. PICK e \in Entry : e = table[i]
  BY Types
<1>2. q # NoQueue
  BY RequestIsNone
<1>3. ASSUME NEW d \in Entry, table' = [table EXCEPT ![i] = d], d.fd = e.fd, d.source = e.source,
             d.opener = e.opener, d.queue = e.queue \/ d.queue = q
      PROVE  TableIs' /\ SameEntries
  <2>1. TableIs' /\ DOMAIN table' = DOMAIN table /\ table'[i] = d
        /\ \A j \in DOMAIN table \ {i} : table'[j] = table[j]
    BY <1>3, EntryChanged
  <2>2. QED
    BY <1>1, <1>2, <1>3, <2>1 DEF SameEntries
<1>4. ASSUME table' = [table EXCEPT ![i].step = s] PROVE TableIs' /\ SameEntries
  <2>1. PICK d : d = [e EXCEPT !.step = s]
    OBVIOUS
  <2>2. d \in Entry /\ d.fd = e.fd /\ d.source = e.source /\ d.opener = e.opener /\ d.queue = e.queue
    BY <2>1 DEF Entry
  <2>3. table' = [table EXCEPT ![i] = d]
    BY <1>1, <1>4, <2>1
  <2>4. QED
    BY <1>3, <2>2, <2>3
<1>5. ASSUME table' = [table EXCEPT ![i].queue = q] PROVE TableIs' /\ SameEntries
  <2>1. PICK d : d = [e EXCEPT !.queue = q]
    OBVIOUS
  <2>2. d \in Entry /\ d.fd = e.fd /\ d.source = e.source /\ d.opener = e.opener /\ d.queue = q
    BY <2>1 DEF Entry
  <2>3. table' = [table EXCEPT ![i] = d]
    BY <1>1, <1>5, <2>1
  <2>4. QED
    BY <1>3, <2>2, <2>3
<1>6. ASSUME table' = [table EXCEPT ![i] = [@ EXCEPT !.queue = q, !.step = s]] PROVE TableIs' /\ SameEntries
  <2>1. PICK c : c = [e EXCEPT !.queue = q]
    OBVIOUS
  <2>2. c \in Entry /\ c.fd = e.fd /\ c.source = e.source /\ c.opener = e.opener /\ c.queue = q
    BY <2>1 DEF Entry
  <2>3. PICK d : d = [c EXCEPT !.step = s]
    OBVIOUS
  <2>4. d \in Entry /\ d.fd = e.fd /\ d.source = e.source /\ d.opener = e.opener /\ d.queue = q
    BY <2>2, <2>3 DEF Entry
  <2>5. d = [e EXCEPT !.queue = q, !.step = s]
    BY <2>1, <2>3
  <2>6. table' = [table EXCEPT ![i] = d]
    BY <1>1, <1>6, <2>5
  <2>7. QED
    BY <1>3, <2>4, <2>6
<1>7. QED
  BY <1>4, <1>5, <1>6

-----------------------------------------------------------------------------
\* Thread t decides how to go about its chunk.
Decides(t) ==
    /\ \/ job[t].pc = "other" /\ \E f \in Fds : Moves(t, "send", f)
       \/ /\ job[t].pc = "other" /\ Moves(t, "cache", job[t].f)
          /\ route[Node(t)] = 0 /\ (Making(Node(t)) # {} => "twice" \in flaws'[Node(t)])
       \/ job[t].pc = "look" /\ \E f \in Fds : \E pc \in {"direct", "store"} : Moves(t, pc, f)
    /\ UNCHANGED <<open, listed, hung, inbox, fd, ask, asked, route, lockI, lockE, astray>>
    /\ TableIs' /\ SameEntries /\ AccountIs /\ NoCut

\* Thread t has done with a chunk, without a word to a node.
Finishes(t) ==
    /\ job[t].pc \in {"cache", "look", "store"} /\ (GoesOn(t) \/ IsDone(t))
    /\ UNCHANGED <<open, listed, hung, inbox, fd, asked, route, astray>>
    /\ TableIs' /\ SameEntries /\ AccountIs /\ NoCut

\* Thread t has written a chunk, or a request for activation.
Writes(t) ==
    /\ \/ job[t].pc \in {"send", "direct"} /\ \E f \in 0 .. MaxFd : \E item \in Items : WrittenTo(f, item)
       \/ job[t].pc = "activate" /\ WrittenTo(job[t].f, Request)
    /\ GoesOn(t) \/ IsDone(t)
    /\ inbox' \in [Fds -> Seq(Items \cup {Request})]
    /\ UNCHANGED <<open, listed, hung, fd, asked, route, table, astray>>
    /\ AccountIs /\ NoCut

\* The net thread reads what a node sends.
Reads(f) ==
    /\ f \in listed \ hung /\ job["net"] = Idle /\ inbox[f] # <<>>
    /\ \E q \in Seq(Items) : inbox' = [inbox EXCEPT ![f] = Tail(@) \o q]
    /\ UNCHANGED <<open, listed, hung, fd, ask, asked, route, lockI, lockE, job>>
    /\ TableIs' /\ SameEntries /\ AccountIs /\ NoCut
    /\ astray' \subseteq (Askers \X Askers \X BOOLEAN) /\ (astray' = astray \/ Answer(f))

\* The first chunk of a message for a node.
LEMMA OtherDecides ==
  ASSUME TypesInv, NEW t \in Threads, Other(t)
  PROVE  Decides(t)
<1>1. job[t].pc = "other" /\ UNCHANGED <<open, listed, hung, inbox, fd, ask, asked, route, lockI, lockE, astray>>
  BY DEF Other, sockets
<1>2. Node(t) \in Nodes
  BY <1>1, JobOf DEF ChunkPcs
<1>3. PICK n \in Nodes : n = Node(t)
  BY <1>2
<1>4. route[n] \in 0 .. MaxFd /\ MaxFd \in Nat
  BY <1>3, Types, Constants
<1>5. CASE route[n] > 0
  <2>1. PICK i : i = ByFd(route[n])
    OBVIOUS
  <2>2. /\ table' = IF i = 0 THEN table ELSE [table EXCEPT ![i].step = 2]
        /\ GotoWith(t, "send", route[n])
        /\ Flaw({n, open[route[n]]}, "hurried") \/ UNCHANGED account
    BY <1>3, <1>5, <2>1 DEF Other
  <2>3. Moves(t, "send", route[n]) /\ route[n] \in Fds
    BY <1>4, <1>5, <2>2, MovesIs, Constants
  <2>4. AccountIs /\ NoCut
    BY <2>2, FlawIs, AccountKept DEF Flaws
  <2>5. TableIs' /\ SameEntries
    <3>1. CASE i = 0
      BY <2>2, <3>1, TableUnchanged
    <3>2. CASE i # 0
      <4>1. i \in DOMAIN table
        BY <2>1, <3>2, ByFdIs, Types
      <4>2. table' = [table EXCEPT ![i].step = 2] /\ <<>> \in Seq(Items)
        BY <2>2, <3>2
      <4>3. QED
        BY <4>1, <4>2, EntryIs
    <3>3. QED
      BY <3>1, <3>2
  <2>6. QED
    BY <1>1, <2>3, <2>4, <2>5 DEF Decides
<1>6. CASE ~(route[n] > 0)
  <2>1. /\ Goto(t, "cache") /\ table' = table
        /\ IF Making(n) # {} THEN Flaw({n}, "twice") ELSE UNCHANGED account
    BY <1>3, <1>6 DEF Other
  <2>2. Moves(t, "cache", job[t].f)
    BY <2>1, MovesIs
  <2>3. AccountIs /\ NoCut /\ (Making(n) # {} => "twice" \in flaws'[n])
    BY <2>1, FlawIs, AccountKept DEF Flaws
  <2>4. TableIs' /\ SameEntries
    BY <2>1, TableUnchanged
  <2>5. route[n] = 0
    BY <1>4, <1>6
  <2>6. QED
    BY <1>1, <1>3, <2>2, <2>3, <2>4, <2>5 DEF Decides
<1>7. QED
  BY <1>5, <1>6

\* A connection cannot be opened.
LEMMA UnreachableFinishes ==
  ASSUME TypesInv, NEW t \in Threads, Unreachable(t)
  PROVE  Finishes(t)
<1>1. /\ job[t].pc = "cache" /\ Flaw({Node(t)}, "dropped") /\ Next1(t)
      /\ UNCHANGED <<open, listed, hung, inbox, fd, asked, route, table, astray>>
  BY DEF Unreachable, sockets
<1>2. GoesOn(t) \/ IsDone(t)
  BY <1>1, NextIs DEF ChunkPcs
<1>3. AccountIs /\ NoCut
  BY <1>1, FlawIs DEF Flaws
<1>4. TableIs' /\ SameEntries
  BY <1>1, TableUnchanged
<1>5. QED
  BY <1>1, <1>2, <1>3, <1>4 DEF Finishes

\* A later chunk for a node.
LEMMA LookDecides ==
  ASSUME TypesInv, NEW w \in Workers, Look(w)
  PROVE  Decides(w) \/ Finishes(w)
<1>1. w \in Threads
  BY DEF Threads
<1>2. job[w].pc = "look" /\ UNCHANGED <<open, listed, hung, inbox, fd, asked, route, table, astray>>
  BY DEF Look, sockets
<1>3. TableIs' /\ SameEntries
  BY <1>2, TableUnchanged
<1>4. PICK i : i = Found(w)
  OBVIOUS
<1>5. CASE i = 0
  <2>1. Flaw({Node(w)}, "dropped") /\ Next1(w)
    BY <1>4, <1>5 DEF Look
  <2>2. GoesOn(w) \/ IsDone(w)
    BY <1>1, <1>2, <2>1, NextIs DEF ChunkPcs
  <2>3. AccountIs /\ NoCut
    BY <2>1, FlawIs DEF Flaws
  <2>4. QED
    BY <1>2, <1>3, <2>2, <2>3 DEF Finishes
<1>6. CASE i # 0
  <2>1. PICK pc \in {"direct", "store"} : /\ GotoWith(w, pc, table[i].fd)
                                          /\ UNCHANGED <<account, ask, lockI, lockE>>
    BY <1>4, <1>6 DEF Look
  <2>2. i \in DOMAIN table
    BY <1>4, <1>6, ByFdIs, ByNodeIs, Types DEF Found
  <2>3. table[i].fd \in Fds
    BY <2>2, Types DEF Entry
  <2>4. Moves(w, pc, table[i].fd)
    BY <1>1, <2>1, MovesIs
  <2>5. AccountIs /\ NoCut
    BY <2>1, AccountKept
  <2>6. QED
    BY <1>2, <1>3, <2>1, <2>3, <2>4, <2>5 DEF Decides
<1>7. QED
  BY <1>5, <1>6

\* A later chunk is queued.
LEMMA StoreFinishes ==
  ASSUME TypesInv, ClientsInv, NEW w \in Workers, Store(w)
  PROVE  Finishes(w)
<1>1. w \in Threads
  BY DEF Threads
<1>2. /\ job[w].pc = "store" /\ Next1(w)
      /\ UNCHANGED <<open, listed, hung, inbox, fd, asked, route, astray>>
  BY DEF Store, sockets
<1>3. GoesOn(w) \/ IsDone(w)
  BY <1>1, <1>2, NextIs DEF ChunkPcs
<1>4. PICK i : i = ByFd(Number(w))
  OBVIOUS
<1>5. CASE i = 0 \/ (i # 0 /\ table[i].queue = NoQueue)
  <2>1. Flaw({Node(w)}, "dropped") /\ table' = table
    BY <1>4, <1>5 DEF Store
  <2>2. AccountIs /\ NoCut /\ TableIs' /\ SameEntries
    BY <2>1, FlawIs, TableUnchanged DEF Flaws
  <2>3. QED
    BY <1>2, <1>3, <2>2 DEF Finishes
<1>6. CASE ~(i = 0 \/ (i # 0 /\ table[i].queue = NoQueue))
  <2>1. PICK a \in Askers : a = job[w].a /\ HasChunk(a)
    BY <1>1, <1>2, JobOf DEF ClientsInv, ChunkPcs
  <2>2. PICK x \in Items : x = Item(a)
    BY <2>1, ItemIs
  <2>3. i \in DOMAIN table
    BY <1>4, <1>6, ByFdIs, Types
  <2>4. PICK q \in Seq(Items) : q = table[i].queue
    <3>1. table[i].queue \in {NoQueue} \cup Seq(Items)
      BY <2>3, Types DEF Entry
    <3>2. QED
      BY <1>6, <3>1
  <2>5. table' = [table EXCEPT ![i].queue = Append(q, x)]
    BY <1>4, <1>6, <2>1, <2>2, <2>4 DEF Store, Inserted
  <2>6. Append(q, x) \in Seq(Items) /\ 1 \in {1, 2}
    BY <2>2, <2>4
  <2>7. TableIs' /\ SameEntries
    BY <2>3, <2>5, <2>6, EntryIs
  <2>8. \/ Flaw({Node(w), table[i].node}, "misled") \/ Flaw({Node(w)}, "stranded") \/ UNCHANGED account
    BY <1>4, <1>6 DEF Store
  <2>9. AccountIs /\ NoCut
    BY <2>8, FlawIs, AccountKept DEF Flaws
  <2>10. QED
    BY <1>2, <1>3, <2>7, <2>9 DEF Finishes
<1>7. QED
  BY <1>5, <1>6

\* What the threads write.
LEMMA SendWrites ==
  ASSUME TypesInv, ClientsInv, NEW t \in Threads,
         Send(t) \/ Activate(t) \/ (t \in Workers /\ Direct(t))
  PROVE  Writes(t)
<1>1. /\ job[t].pc \in {"send", "activate", "direct"} /\ Next1(t)
      /\ UNCHANGED <<open, listed, hung, fd, asked, route, table, astray>>
  BY DEF Send, Activate, Direct
<1>2. /\ GoesOn(t) \/ IsDone(t)
      /\ job[t].f \in 0 .. MaxFd /\ Node(t) \in Nodes /\ job[t].a \in Askers /\ HasChunk(job[t].a)
  BY <1>1, NextIs, JobOf DEF ChunkPcs, SetUpPcs, ClientsInv
<1>3. Item(job[t].a) \in Items
  BY <1>2, ItemIs
<1>4. CASE Send(t)
  <2>1. job[t].pc = "send" /\ Written(job[t].f, Node(t), Item(job[t].a))
    BY <1>4 DEF Send
  <2>2. /\ AccountIs /\ NoCut /\ inbox' \in [Fds -> Seq(Items \cup {Request})]
        /\ WrittenTo(job[t].f, Item(job[t].a))
    BY <1>2, <1>3, <2>1, WrittenIs
  <2>3. QED
    BY <1>1, <1>2, <1>3, <2>1, <2>2 DEF Writes
<1>5. CASE Activate(t)
  <2>1. job[t].pc = "activate" /\ Written(job[t].f, Node(t), Request)
    BY <1>5 DEF Activate
  <2>2. /\ AccountIs /\ NoCut /\ inbox' \in [Fds -> Seq(Items \cup {Request})]
        /\ WrittenTo(job[t].f, Request)
    BY <1>2, <2>1, WrittenIs
  <2>3. QED
    BY <1>1, <1>2, <2>1, <2>2 DEF Writes
<1>6. CASE Direct(t)
  <2>1. job[t].pc = "direct" /\ Written(Number(t), Node(t), Item(job[t].a))
    BY <1>6 DEF Direct
  <2>2. Number(t) \in 0 .. MaxFd
    BY <1>2, Types DEF Number
  <2>3. /\ AccountIs /\ NoCut /\ inbox' \in [Fds -> Seq(Items \cup {Request})]
        /\ WrittenTo(Number(t), Item(job[t].a))
    BY <1>3, <2>1, <2>2, WrittenIs
  <2>4. QED
    BY <1>1, <1>2, <1>3, <2>1, <2>2, <2>3 DEF Writes
<1>7. QED
  BY <1>4, <1>5, <1>6

\* An answer that is passed on.
LEMMA AnswerReads ==
  ASSUME TypesInv, NEW f \in Fds, Answer(f)
  PROVE  Reads(f)
<1>1. /\ f \in listed \ hung /\ job["net"] = Idle /\ inbox[f] # <<>> /\ Head(inbox[f]) # Request
      /\ inbox' = [inbox EXCEPT ![f] = Tail(@)]
      /\ UNCHANGED <<open, listed, hung, fd, ask, asked, route, table, lockI, lockE, job, got, flaws>>
  BY DEF Answer
<1>2. PICK s \in Seq(Items \cup {Request}) : s = inbox[f]
  BY Types
<1>3. inbox' = [inbox EXCEPT ![f] = Tail(@) \o <<>>] /\ <<>> \in Seq(Items)
  <2>1. Tail(s) \in Seq(Items \cup {Request})
    BY <1>1, <1>2
  <2>2. Tail(s) \o <<>> = Tail(s)
    BY <2>1
  <2>3. QED
    BY <1>1, <1>2, <2>2
<1>4. AccountIs /\ NoCut /\ TableIs' /\ SameEntries
  BY <1>1, AccountKept, TableUnchanged DEF account
<1>5. astray' \subseteq (Askers \X Askers \X BOOLEAN)
  <2>1. PICK a : a = Head(inbox[f])[1]
    OBVIOUS
  <2>2. a \in Askers
    <3>1. Head(s) \in Items
      BY <1>1, <1>2
    <3>2. QED
      BY <1>2, <2>1, <3>1 DEF Items
  <2>3. PICK i : i = ByFd(f)
    OBVIOUS
  <2>4. PICK b : b = IF i = 0 \/ Source(i) = 0 THEN None ELSE open[Source(i)]
    OBVIOUS
  <2>5. astray' = IF b \in Askers \ {a} THEN astray \cup {<<a, b, table[i].opener = a /\ job["ipc"].a # a>>} ELSE astray
    BY <2>1, <2>3, <2>4 DEF Answer
  <2>6. b \in Askers => <<a, b, table[i].opener = a /\ job["ipc"].a # a>> \in Askers \X Askers \X BOOLEAN
    BY <2>2, Zenon
  <2>7. astray \subseteq (Askers \X Askers \X BOOLEAN)
    BY Types
  <2>8. QED
    BY <2>5, <2>6, <2>7
<1>6. QED
  BY <1>1, <1>3, <1>4, <1>5 DEF Reads

\* The answer to a request for activation; a null pointer is used if the entry has no queue.
NullQueue(f) ==
    /\ f \in listed \ hung /\ job["net"] = Idle /\ inbox[f] # <<>> /\ Head(inbox[f]) = Request
    /\ \E i \in DOMAIN table : table[i].fd = f /\ table[i].queue = NoQueue
    /\ Moves("net", "crashed", 0)
    /\ inbox' = [inbox EXCEPT ![f] = Tail(@)]
    /\ UNCHANGED <<open, listed, hung, fd, ask, asked, route, table, lockI, lockE, got, flaws, astray>>

\* The answer to a request for activation is read, or a null pointer is used.
LEMMA ActivatedReads ==
  ASSUME TypesInv, NEW f \in Fds, NEW granted \in BOOLEAN, Activated(f, granted)
  PROVE  Reads(f) \/ NullQueue(f)
<1>1. /\ f \in listed \ hung /\ job["net"] = Idle /\ inbox[f] # <<>> /\ Head(inbox[f]) = Request
      /\ UNCHANGED <<open, listed, hung, fd, ask, asked, route, lockI, lockE, astray>>
  BY DEF Activated
<1>2. PICK s \in Seq(Items \cup {Request}) : s = inbox[f]
  BY Types
<1>3. Tail(s) \o <<>> = Tail(s) /\ <<>> \in Seq(Items)
  <2>1. Tail(s) \in Seq(Items \cup {Request})
    BY <1>1, <1>2
  <2>2. QED
    BY <2>1
<1>4. astray' \subseteq (Askers \X Askers \X BOOLEAN)
  BY <1>1, Types
<1>5. PICK i : i = ByFd(f)
  OBVIOUS
<1>6. i # 0 => i \in DOMAIN table /\ table[i].fd = f
  BY <1>5, ByFdIs, Types
<1>7. CASE i = 0
  <2>1. inbox' = [inbox EXCEPT ![f] = Tail(@)] /\ UNCHANGED <<table, got, flaws, job>>
    BY <1>5, <1>7 DEF Activated
  <2>2. AccountIs /\ NoCut /\ TableIs' /\ SameEntries
    BY <2>1, AccountKept, TableUnchanged DEF account
  <2>3. inbox' = [inbox EXCEPT ![f] = Tail(@) \o <<>>]
    BY <1>2, <1>3, <2>1
  <2>4. QED
    BY <1>1, <1>3, <1>4, <2>1, <2>2, <2>3 DEF Reads
<1>8. CASE i # 0 /\ table[i].queue = NoQueue
  <2>1. inbox' = [inbox EXCEPT ![f] = Tail(@)] /\ Goto("net", "crashed") /\ UNCHANGED <<table, got, flaws>>
    BY <1>5, <1>8 DEF Activated
  <2>2. Moves("net", "crashed", 0)
    <3>1. "net" \in Threads /\ job["net"].f = 0
      BY <1>1, Constants DEF Openers, Idle
    <3>2. QED
      BY <2>1, <3>1, MovesIs
  <2>3. QED
    BY <1>1, <1>6, <1>8, <2>1, <2>2 DEF NullQueue
<1>9. CASE i # 0 /\ table[i].queue # NoQueue
  <2>1. PICK q \in Seq(Items) : q = table[i].queue
    <3>1. table[i].queue \in {NoQueue} \cup Seq(Items)
      BY <1>6, <1>9, Types DEF Entry
    <3>2. QED
      BY <1>9, <3>1
  <2>2. CASE granted
    <3>1. /\ inbox' = [inbox EXCEPT ![f] = Tail(@) \o q]
          /\ Flaw({open[f], table[i].node}, "misled") \/ (got' = After(open[f], q) /\ flaws' = flaws)
          /\ table' = [table EXCEPT ![i] = [@ EXCEPT !.queue = <<>>, !.step = 2]]
          /\ job' = job
      BY <1>5, <1>9, <2>1, <2>2 DEF Activated, Unsent
    <3>2. AccountIs /\ NoCut
      BY <3>1, <2>1, FlawIs, AfterIs DEF Flaws
    <3>3. TableIs' /\ SameEntries
      BY <1>3, <1>6, <1>9, <3>1, EntryIs
    <3>4. QED
      BY <1>1, <1>4, <2>1, <3>1, <3>2, <3>3 DEF Reads
  <2>3. CASE ~granted
    <3>1. /\ inbox' = [inbox EXCEPT ![f] = Tail(@)]
          /\ table' = [table EXCEPT ![i].queue = <<>>]
          /\ Flaw({open[f]}, "refused") /\ job' = job
      BY <1>5, <1>9, <2>3 DEF Activated
    <3>2. AccountIs /\ NoCut
      BY <3>1, FlawIs DEF Flaws
    <3>3. TableIs' /\ SameEntries
      <4>1. 1 \in {1, 2}
        OBVIOUS
      <4>2. QED
        BY <1>3, <1>6, <1>9, <3>1, <4>1, EntryIs
    <3>4. inbox' = [inbox EXCEPT ![f] = Tail(@) \o <<>>]
      BY <1>2, <1>3, <3>1
    <3>5. QED
      BY <1>1, <1>3, <1>4, <3>1, <3>2, <3>3, <3>4 DEF Reads
  <2>4. QED
    BY <2>2, <2>3
<1>10. QED
  BY <1>7, <1>8, <1>9

-----------------------------------------------------------------------------
\* The types of the variables after a step, one by one.
LEMMA Typed ==
  ASSUME /\ open' \in [Fds -> Askers \cup Nodes \cup {None}] /\ listed' \subseteq Fds /\ hung' \subseteq Fds
         /\ inbox' \in [Fds -> Seq(Items \cup {Request})],
         /\ fd' \in [Askers -> 0 .. MaxFd] /\ asked' \in 0 .. MaxAsked
         /\ ask' \in [Askers -> Question] /\ \A a \in Askers : (ask[a].next \in 1 .. ask[a].len + 1)'
         /\ route' \in [Nodes -> 0 .. MaxFd],
         TableIs', JobsAre',
         /\ lockI' \in {None, "net"} /\ lockE' \in {None, "ipc"} \cup Workers
         /\ got' \in [Nodes -> Seq(Items)] /\ flaws' \in [Nodes -> SUBSET Flaws]
         /\ astray' \subseteq (Askers \X Askers \X BOOLEAN)
  PROVE  TypesInv'
<1>1. \A t \in Threads : JobIs(t, job'[t])
  BY DEF JobsAre
<1>2. \A t \in Threads :
        /\ job'[t].pc \in {"loop", "other", "send", "cache", "list", "route", "add", "fill", "activate",
                           "look", "direct", "store", "remove", "leave", "drop", "crashed"}
        /\ job'[t].a \in Askers \cup {None} /\ job'[t].f \in 0 .. MaxFd
  BY <1>1 DEF JobIs, PcsOf, SetUpPcs
<1>3. TypeOK'
  BY <1>2 DEF TypeOK, TableIs
<1>4. QED
  BY <1>3 DEF TypesInv, TableIs

\* A client is somewhere else.
LEMMA AtIs ==
  ASSUME TypesInv, NEW a \in Askers, NEW p \in {"idle", "gone"}, ask' = [ask EXCEPT ![a].at = p]
  PROVE  /\ ask' \in [Askers -> Question] /\ \A b \in Askers : (ask[b].next \in 1 .. ask[b].len + 1)'
         /\ \A b \in Askers : /\ ask'[b].to = ask[b].to /\ ask'[b].msg = ask[b].msg
                              /\ ask'[b].next = ask[b].next /\ ask'[b].len = ask[b].len
                              /\ ask'[b].at = IF b = a THEN p ELSE ask[b].at
<1>1. PICK q \in Question : q = ask[a]
  BY Types
<1>2. PICK r : r = [q EXCEPT !.at = p]
  OBVIOUS
<1>3. r \in Question /\ r.to = q.to /\ r.msg = q.msg /\ r.next = q.next /\ r.len = q.len /\ r.at = p
  BY <1>2 DEF Question
<1>4. ask' = [ask EXCEPT ![a] = r]
  BY <1>1, <1>2
<1>5. ask \in [Askers -> Question] /\ \A b \in Askers : ask[b].next \in 1 .. ask[b].len + 1
  BY Types
<1>6. QED
  BY <1>1, <1>3, <1>4, <1>5

\* The steps of the clients keep the types.
LEMMA ClientTypes ==
  ASSUME TypesInv, NEW a \in Askers,
         Connect(a) \/ TesterLeaves(a) \/ EquipLeaves(a) \/ \E to \in Targets, len \in Lengths : Ask(a, to, len)
  PROVE  TypesInv'
<1>1. TableIs' /\ got' \in [Nodes -> Seq(Items)] /\ flaws' \in [Nodes -> SUBSET Flaws]
  <2>1. UNCHANGED <<table, got, flaws>>
    BY DEF Connect, TesterLeaves, EquipLeaves, Ask, history
  <2>2. QED
    BY <2>1, Types, TableUnchanged
<1>2. open' \in [Fds -> Askers \cup Nodes \cup {None}]
  <2>1. open' = open \/ \E f, x : x \in Askers \cup {None} /\ open' = [open EXCEPT ![f] = x]
    BY DEF Connect, TesterLeaves, EquipLeaves, Ask, sockets
  <2>2. QED
    BY <2>1, Types
<1>3. CASE Connect(a)
  <2>1. /\ FreeFds # {} /\ fd' = [fd EXCEPT ![a] = LowestFree] /\ ask' = [ask EXCEPT ![a].at = "idle"]
        /\ UNCHANGED <<listed, hung, inbox, asked, route, table, lockI, lockE, job, astray>>
    BY <1>3 DEF Connect, history
  <2>2. LowestFree \in 0 .. MaxFd
    BY <2>1, LowestIs, Constants
  <2>3. fd' \in [Askers -> 0 .. MaxFd]
    BY <2>1, <2>2, Types
  <2>4. ask' \in [Askers -> Question] /\ \A b \in Askers : (ask[b].next \in 1 .. ask[b].len + 1)'
    BY <2>1, AtIs
  <2>5. JobsAre'
    BY <2>1, JobsUnchanged
  <2>6. QED
    BY <1>1, <1>2, <2>1, <2>3, <2>4, <2>5, Types, Typed
<1>4. ASSUME NEW to \in Targets, NEW len \in Lengths, Ask(a, to, len) PROVE TypesInv'
  <2>1. PICK q : q = [at |-> "first", to |-> to, msg |-> asked + 1, next |-> 1, len |-> len]
    OBVIOUS
  <2>2. /\ asked < MaxAsked /\ asked' = asked + 1 /\ ask' = [ask EXCEPT ![a] = q]
        /\ UNCHANGED <<listed, hung, inbox, fd, route, table, lockI, lockE, job, astray>>
    BY <1>4, <2>1 DEF Ask, history, sockets
  <2>3. asked' \in 0 .. MaxAsked
    BY <2>2, Types, Constants
  <2>4. len \in Nat \ {0} /\ asked + 1 \in 0 .. MaxAsked
    BY <2>2, <2>3, Constants
  <2>5. q \in Question /\ q.next \in 1 .. q.len + 1
    BY <2>1, <2>4 DEF Question
  <2>6. ask' \in [Askers -> Question] /\ \A b \in Askers : (ask[b].next \in 1 .. ask[b].len + 1)'
    <3>1. ask \in [Askers -> Question] /\ \A b \in Askers : ask[b].next \in 1 .. ask[b].len + 1
      BY Types
    <3>2. QED
      BY <2>2, <2>5, <3>1
  <2>7. JobsAre'
    BY <2>2, JobsUnchanged
  <2>8. QED
    BY <1>1, <1>2, <2>2, <2>3, <2>6, <2>7, Types, Typed
<1>5. CASE TesterLeaves(a)
  <2>1. /\ ask' = [ask EXCEPT ![a].at = "gone"]
        /\ UNCHANGED <<listed, hung, inbox, fd, asked, route, table, lockI, lockE, job, astray>>
    BY <1>5 DEF TesterLeaves, history
  <2>2. ask' \in [Askers -> Question] /\ \A b \in Askers : (ask[b].next \in 1 .. ask[b].len + 1)'
    BY <2>1, AtIs
  <2>3. JobsAre'
    BY <2>1, JobsUnchanged
  <2>4. QED
    BY <1>1, <1>2, <2>1, <2>2, <2>3, Types, Typed
<1>6. CASE EquipLeaves(a)
  <2>1. PICK r : r = [pc |-> "leave", a |-> a, todo |-> <<>>, f |-> 0]
    OBVIOUS
  <2>2. /\ a \in Equips /\ ask' = [ask EXCEPT ![a].at = "gone"]
        /\ UNCHANGED <<listed, hung, inbox, fd, asked, route, table, lockI, lockE, astray>>
    BY <1>6 DEF EquipLeaves, history
  <2>3. Becomes("ipc", r)
    <3>1. PICK k : k = [pc |-> "leave", a |-> None, todo |-> <<>>, f |-> 0]
      OBVIOUS
    <3>2. [Idle EXCEPT !.pc = "leave"] = k
      BY <3>1 DEF Idle
    <3>3. [k EXCEPT !.a = a] = r
      BY <2>1, <3>1
    <3>4. job' = [job EXCEPT !["ipc"] = [k EXCEPT !.a = a]]
      BY <1>6, <3>2 DEF EquipLeaves
    <3>5. QED
      BY <3>3, <3>4 DEF Becomes
  <2>4. JobIs("ipc", r) /\ "ipc" \in Threads
    <3>1. r.pc = "leave" /\ r.a = a /\ r.f = 0 /\ r = [pc |-> r.pc, a |-> r.a, todo |-> r.todo, f |-> r.f]
      BY <2>1
    <3>2. QED
      BY <2>2, <3>1, Constants DEF JobIs, PcsOf, SetUpPcs, ChunkPcs, Openers
  <2>5. JobsAre'
    BY <2>3, <2>4, JobsKept
  <2>6. ask' \in [Askers -> Question] /\ \A b \in Askers : (ask[b].next \in 1 .. ask[b].len + 1)'
    BY <2>2, AtIs
  <2>7. QED
    BY <1>1, <1>2, <2>2, <2>5, <2>6, Types, Typed
<1>7. QED
  BY <1>3, <1>4, <1>5, <1>6

\* The steps that decide, finish, write and read keep the types.
LEMMA ChunkTypes ==
  ASSUME TypesInv, ClientsInv,
         \/ \E t \in Threads : Decides(t) \/ Finishes(t) \/ Writes(t)
         \/ \E f \in Fds : Reads(f) \/ NullQueue(f)
  PROVE  TypesInv' /\ AccountIs
<1>1. ASSUME NEW t \in Threads, Decides(t) PROVE TypesInv' /\ AccountIs
  <2>1. JobsAre'
    <3>1. ASSUME NEW f \in Fds, job[t].pc = "other", Moves(t, "send", f) PROVE JobsAre'
      <4>1. f \in 0 .. MaxFd /\ "send" \in PcsOf(t)
        <5>1. "other" \in PcsOf(t)
          BY <3>1, JobOf
        <5>2. QED
          BY <5>1, Constants DEF PcsOf, SetUpPcs
      <4>2. QED
        BY <3>1, <4>1, MovesFit DEF ChunkPcs, SetUpPcs
    <3>2. ASSUME job[t].pc = "other", Moves(t, "cache", job[t].f) PROVE JobsAre'
      <4>1. job[t].f \in 0 .. MaxFd /\ "cache" \in PcsOf(t)
        <5>1. "other" \in PcsOf(t)
          BY <3>2, JobOf
        <5>2. QED
          BY <5>1, JobOf DEF PcsOf, SetUpPcs
      <4>2. QED
        BY <3>2, <4>1, MovesFit DEF ChunkPcs, SetUpPcs
    <3>3. ASSUME NEW f \in Fds, NEW pc \in {"direct", "store"}, job[t].pc = "look", Moves(t, pc, f) PROVE JobsAre'
      <4>1. f \in 0 .. MaxFd /\ pc \in PcsOf(t)
        <5>1. t \in Workers
          BY <3>3, JobOf
        <5>2. QED
          BY <5>1, Constants DEF PcsOf
      <4>2. QED
        BY <3>3, <4>1, MovesFit DEF ChunkPcs, SetUpPcs
    <3>4. QED
      BY <1>1, <3>1, <3>2, <3>3 DEF Decides
  <2>2. QED
    BY <1>1, <2>1, Types, Typed DEF Decides, AccountIs
<1>2. ASSUME NEW t \in Threads, Finishes(t) PROVE TypesInv' /\ AccountIs
  <2>1. job[t].pc \in ChunkPcs /\ (GoesOn(t) \/ IsDone(t))
    BY <1>2 DEF Finishes, ChunkPcs
  <2>2. JobsAre'
    BY <2>1, NextFit
  <2>3. /\ ask' \in [Askers -> Question] /\ \A a \in Askers : (ask[a].next \in 1 .. ask[a].len + 1)'
        /\ lockI' \in {None, "net"} /\ lockE' \in {None, "ipc"} \cup Workers
    BY <2>1, AskIs
  <2>4. QED
    BY <1>2, <2>2, <2>3, Types, Typed DEF Finishes, AccountIs
<1>3. ASSUME NEW t \in Threads, Writes(t) PROVE TypesInv' /\ AccountIs
  <2>1. job[t].pc \in ChunkPcs /\ (GoesOn(t) \/ IsDone(t))
    BY <1>3 DEF Writes, ChunkPcs, SetUpPcs
  <2>2. JobsAre'
    BY <2>1, NextFit
  <2>3. /\ ask' \in [Askers -> Question] /\ \A a \in Askers : (ask[a].next \in 1 .. ask[a].len + 1)'
        /\ lockI' \in {None, "net"} /\ lockE' \in {None, "ipc"} \cup Workers
    BY <2>1, AskIs
  <2>4. TableIs'
    BY <1>3, TableUnchanged DEF Writes
  <2>5. QED
    BY <1>3, <2>2, <2>3, <2>4, Types, Typed DEF Writes, AccountIs
<1>4. ASSUME NEW f \in Fds, Reads(f) \/ NullQueue(f)
      PROVE  \E q \in Seq(Items) : inbox' = [inbox EXCEPT ![f] = Tail(@) \o q] \/ inbox' = [inbox EXCEPT ![f] = Tail(@)]
  <2>1. <<>> \in Seq(Items)
    OBVIOUS
  <2>2. QED
    BY <1>4, <2>1 DEF Reads, NullQueue
<1>5. ASSUME NEW f \in Fds, Reads(f) \/ NullQueue(f) PROVE inbox' \in [Fds -> Seq(Items \cup {Request})]
  <2>1. PICK q \in Seq(Items) : inbox' = [inbox EXCEPT ![f] = Tail(@) \o q] \/ inbox' = [inbox EXCEPT ![f] = Tail(@)]
    BY <1>4, <1>5
  <2>2. inbox[f] # <<>> /\ inbox \in [Fds -> Seq(Items \cup {Request})]
    BY <1>5, Types DEF Reads, NullQueue
  <2>3. PICK s \in Seq(Items \cup {Request}) : s = Tail(inbox[f])
    <3>1. PICK x \in Seq(Items \cup {Request}) : x = inbox[f]
      BY <2>2
    <3>2. Tail(x) \in Seq(Items \cup {Request})
      BY <2>2, <3>1
    <3>3. QED
      BY <3>1, <3>2
  <2>4. s \o q \in Seq(Items \cup {Request})
    <3>1. q \in Seq(Items \cup {Request})
      OBVIOUS
    <3>2. QED
      BY <3>1
  <2>5. inbox' = [inbox EXCEPT ![f] = s \o q] \/ inbox' = [inbox EXCEPT ![f] = s]
    BY <2>1, <2>3
  <2>6. QED
    BY <2>2, <2>4, <2>5
<1>6. ASSUME NEW f \in Fds, Reads(f) PROVE TypesInv' /\ AccountIs
  <2>1. inbox' \in [Fds -> Seq(Items \cup {Request})]
    BY <1>5, <1>6
  <2>2. JobsAre'
    BY <1>6, JobsUnchanged DEF Reads
  <2>3. QED
    BY <1>6, <2>1, <2>2, Types, Typed DEF Reads, AccountIs
<1>7. ASSUME NEW f \in Fds, NullQueue(f) PROVE TypesInv' /\ AccountIs
  <2>1. inbox' \in [Fds -> Seq(Items \cup {Request})]
    BY <1>5, <1>7
  <2>2. JobsAre'
    <3>1. "net" \in Threads /\ "crashed" \in PcsOf("net") /\ 0 \in 0 .. MaxFd
      BY Constants DEF PcsOf, Openers
    <3>2. Moves("net", "crashed", 0)
      BY <1>7 DEF NullQueue
    <3>3. QED
      BY <3>1, <3>2, MovesFit DEF ChunkPcs, SetUpPcs
  <2>3. AccountIs /\ TableIs'
    BY <1>7, AccountKept, TableUnchanged DEF NullQueue, account
  <2>4. QED
    BY <1>7, <2>1, <2>2, <2>3, Types, Typed DEF NullQueue, AccountIs
<1>8. QED
  BY <1>1, <1>2, <1>3, <1>6, <1>7

-----------------------------------------------------------------------------
\* The numbers of the connections opened for the client that leaves.
LEMMA LeaveIs ==
  ASSUME TypesInv, Leave
  PROVE  /\ job["ipc"].pc = "leave" /\ lockE' = "ipc"
         /\ Becomes("ipc", [pc |-> "drop", a |-> job["ipc"].a, f |-> job["ipc"].f,
                            todo |-> [i \in SourceOf(job["ipc"].a) |-> table[i].fd]])
         /\ JobsAre'
<1>1. PICK j : j = job["ipc"]
  OBVIOUS
<1>2. PICK D : D = [i \in SourceOf(j.a) |-> table[i].fd]
  OBVIOUS
<1>3. j.pc = "leave" /\ lockE' = "ipc" /\ job' = [job EXCEPT !["ipc"] = [j EXCEPT !.pc = "drop", !.todo = D]]
  BY <1>1, <1>2 DEF Leave
<1>4. "ipc" \in Threads
  BY Constants DEF Openers
<1>5. j = [pc |-> j.pc, a |-> j.a, todo |-> j.todo, f |-> j.f] /\ j.a \in Equips /\ j.f \in 0 .. MaxFd
  BY <1>1, <1>3, <1>4, Types DEF JobIs
<1>6. PICK r : r = [pc |-> "drop", a |-> j.a, f |-> j.f, todo |-> D]
  OBVIOUS
<1>7. Becomes("ipc", r)
  <2>1. PICK k : k = [pc |-> "drop", a |-> j.a, todo |-> j.todo, f |-> j.f]
    OBVIOUS
  <2>2. [j EXCEPT !.pc = "drop"] = k
    BY <1>5, <2>1
  <2>3. [k EXCEPT !.todo = D] = r
    BY <1>6, <2>1
  <2>4. job' = [job EXCEPT !["ipc"] = [k EXCEPT !.todo = D]]
    BY <1>3, <2>2
  <2>5. QED
    BY <2>3, <2>4 DEF Becomes
<1>8. JobIs("ipc", r)
  <2>1. r.pc = "drop" /\ r.a = j.a /\ r.f = j.f /\ r.todo = D /\ r = [pc |-> r.pc, a |-> r.a, todo |-> r.todo, f |-> r.f]
    BY <1>6
  <2>2. DOMAIN D = SourceOf(j.a) /\ SourceOf(j.a) \subseteq DOMAIN table
    BY <1>2 DEF SourceOf
  <2>3. DOMAIN D \subseteq Nat \ {0} /\ \A i \in DOMAIN D : D[i] \in Fds
    BY <1>2, <2>2, Types DEF Entry
  <2>4. "drop" \in PcsOf("ipc")
    BY Constants DEF PcsOf
  <2>5. QED
    BY <1>5, <2>1, <2>3, <2>4, Constants DEF JobIs, SetUpPcs, ChunkPcs
<1>9. JobsAre'
  BY <1>4, <1>7, <1>8, JobsKept
<1>10. QED
  BY <1>1, <1>2, <1>3, <1>6, <1>7, <1>9

\* The connections are closed one by one: there is none left, it is closed already, or it is
\* closed now.
DropEnds ==
    /\ DOMAIN job["ipc"].todo = {} /\ Becomes("ipc", Idle) /\ lockE' = None
    /\ UNCHANGED <<open, listed, hung, inbox, got, flaws>>

Rest(p) == [j \in DOMAIN job["ipc"].todo \ {p} |-> job["ipc"].todo[j]]

DropSkips(p) ==
    /\ FreeX /\ job["ipc"].todo[p] \notin listed
    /\ Becomes("ipc", [pc |-> "drop", a |-> job["ipc"].a, todo |-> Rest(p), f |-> job["ipc"].f])
    /\ UNCHANGED <<open, listed, hung, inbox, lockE, got, flaws>>

DropCloses(p) ==
    LET f == job["ipc"].todo[p] IN
    /\ FreeX /\ f \in listed
    /\ open' = [open EXCEPT ![f] = None] /\ inbox' = [inbox EXCEPT ![f] = <<>>]
    /\ listed' = listed \ {f} /\ hung' = hung \ {f}
    /\ Becomes("ipc", [pc |-> "remove", a |-> job["ipc"].a, todo |-> Rest(p), f |-> f])
    /\ Flaw({open[f]}, "broken") /\ AccountIs /\ NoCut /\ lockE' = lockE

\* That is what Drop does.
LEMMA DropIs ==
  ASSUME TypesInv, Drop
  PROVE  /\ job["ipc"].pc = "drop" /\ JobsAre'
         /\ UNCHANGED <<fd, ask, asked, route, table, lockI, astray>>
         /\ AccountIs /\ NoCut
         /\ DropEnds \/ \E p \in DOMAIN job["ipc"].todo : DropSkips(p) \/ DropCloses(p)
<1>1. "ipc" \in Threads
  BY Constants DEF Openers
<1>2. job["ipc"].pc = "drop" /\ UNCHANGED <<fd, ask, asked, route, table, lockI, astray>>
  BY DEF Drop
<1>3. PICK j : j = job["ipc"]
  OBVIOUS
<1>4. /\ j = [pc |-> j.pc, a |-> j.a, todo |-> j.todo, f |-> j.f] /\ j.pc = "drop" /\ j.a \in Equips
      /\ j.f \in 0 .. MaxFd /\ DOMAIN j.todo \subseteq Nat \ {0} /\ \A i \in DOMAIN j.todo : j.todo[i] \in Fds
  BY <1>1, <1>2, <1>3, Types DEF JobIs
<1>5. PICK p : p = FirstOf(DOMAIN j.todo)
  OBVIOUS
<1>6. (p = 0 <=> DOMAIN j.todo = {}) /\ (p # 0 => p \in DOMAIN j.todo)
  BY <1>4, <1>5, FirstIs
<1>7. CASE p = 0
  <2>1. job' = [job EXCEPT !["ipc"] = Idle] /\ lockE' = None /\ UNCHANGED <<open, listed, hung, inbox, got, flaws>>
    BY <1>3, <1>5, <1>7 DEF Drop, sockets, account
  <2>2. Becomes("ipc", Idle)
    BY <2>1 DEF Becomes
  <2>3. JobsAre'
    BY <1>1, <2>2, IdleFits, JobsKept
  <2>4. AccountIs /\ NoCut
    BY <2>1, AccountKept DEF account
  <2>5. QED
    BY <1>2, <1>3, <1>6, <1>7, <2>1, <2>2, <2>3, <2>4 DEF DropEnds
<1>8. CASE p # 0
  <2>1. PICK R : R = [i \in DOMAIN j.todo \ {p} |-> j.todo[i]]
    OBVIOUS
  <2>2. PICK f \in Fds : f = j.todo[p]
    BY <1>4, <1>6, <1>8
  <2>3. \A i \in DOMAIN R : i \in DOMAIN j.todo /\ R[i] = j.todo[i]
    BY <2>1
  <2>4. DOMAIN R \subseteq Nat \ {0} /\ \A i \in DOMAIN R : R[i] \in Fds
    BY <1>4, <2>3
  <2>5. ASSUME NEW pc \in {"drop", "remove"}, NEW g \in Fds \cup {j.f}, pc = "remove" => g \in Fds
        PROVE  JobIs("ipc", [pc |-> pc, a |-> j.a, todo |-> R, f |-> g])
    <3>1. PICK r : r = [pc |-> pc, a |-> j.a, todo |-> R, f |-> g]
      OBVIOUS
    <3>2. r.pc = pc /\ r.a = j.a /\ r.todo = R /\ r.f = g /\ r = [pc |-> r.pc, a |-> r.a, todo |-> r.todo, f |-> r.f]
      BY <3>1
    <3>3. pc \in PcsOf("ipc") /\ g \in 0 .. MaxFd /\ j.a \in Askers
      BY <1>4, Constants DEF PcsOf
    <3>4. JobIs("ipc", r)
      BY <1>4, <2>4, <2>5, <3>2, <3>3 DEF JobIs, SetUpPcs, ChunkPcs
    <3>5. QED
      BY <3>1, <3>4
  <2>6. CASE f \notin listed
    <3>1. /\ FreeX /\ job' = [job EXCEPT !["ipc"].todo = R]
          /\ UNCHANGED <<open, listed, hung, inbox, lockE, got, flaws>>
      BY <1>3, <1>5, <1>8, <2>1, <2>2, <2>6 DEF Drop, sockets, account
    <3>2. [j EXCEPT !.todo = R] = [pc |-> "drop", a |-> j.a, todo |-> R, f |-> j.f]
      BY <1>4
    <3>3. Becomes("ipc", [pc |-> "drop", a |-> j.a, todo |-> R, f |-> j.f])
      BY <1>3, <3>1, <3>2 DEF Becomes
    <3>4. JobsAre'
      BY <1>1, <2>5, <3>3, JobsKept
    <3>5. AccountIs /\ NoCut
      BY <3>1, AccountKept DEF account
    <3>6. DropSkips(p)
      BY <1>3, <2>1, <2>2, <2>6, <3>1, <3>3 DEF DropSkips, Rest
    <3>7. QED
      BY <1>2, <1>3, <1>6, <1>8, <3>4, <3>5, <3>6
  <2>7. CASE f \in listed
    <3>1. /\ FreeX /\ open' = [open EXCEPT ![f] = None] /\ inbox' = [inbox EXCEPT ![f] = <<>>]
          /\ listed' = listed \ {f} /\ hung' = hung \ {f}
          /\ job' = [job EXCEPT !["ipc"] = [j EXCEPT !.pc = "remove", !.f = f, !.todo = R]]
          /\ Flaw({open[f]}, "broken") /\ lockE' = lockE
      BY <1>3, <1>5, <1>8, <2>1, <2>2, <2>7 DEF Drop
    <3>2. [j EXCEPT !.pc = "remove", !.f = f, !.todo = R] = [pc |-> "remove", a |-> j.a, todo |-> R, f |-> f]
      <4>1. PICK k : k = [pc |-> "remove", a |-> j.a, todo |-> j.todo, f |-> j.f]
        OBVIOUS
      <4>2. [j EXCEPT !.pc = "remove"] = k
        BY <1>4, <4>1
      <4>3. PICK l : l = [pc |-> "remove", a |-> j.a, todo |-> j.todo, f |-> f]
        OBVIOUS
      <4>4. [k EXCEPT !.f = f] = l
        BY <4>1, <4>3
      <4>5. [j EXCEPT !.pc = "remove", !.f = f, !.todo = R] = [l EXCEPT !.todo = R]
        BY <4>2, <4>4
      <4>6. [l EXCEPT !.todo = R] = [pc |-> "remove", a |-> j.a, todo |-> R, f |-> f]
        BY <4>3
      <4>7. QED
        BY <4>5, <4>6
    <3>3. Becomes("ipc", [pc |-> "remove", a |-> j.a, todo |-> R, f |-> f])
      BY <3>1, <3>2 DEF Becomes
    <3>4. JobsAre'
      BY <1>1, <2>5, <3>3, JobsKept
    <3>5. AccountIs /\ NoCut
      BY <3>1, FlawIs DEF Flaws
    <3>6. DropCloses(p)
      BY <1>3, <2>1, <2>2, <2>7, <3>1, <3>3, <3>5 DEF DropCloses, Rest
    <3>7. QED
      BY <1>2, <1>3, <1>6, <1>8, <3>4, <3>5, <3>6
  <2>8. QED
    BY <2>6, <2>7
<1>9. QED
  BY <1>7, <1>8

\* The old entries of a connection are gone, and the thread goes on.
LEMMA RemoveIs ==
  ASSUME TypesInv, NEW t \in Threads, RemoveEntry(t)
  PROVE  /\ t \in Openers /\ job[t].pc = "remove" /\ job[t].f \in Fds
         /\ table' = [i \in {j \in DOMAIN table : table[j].fd # job[t].f} |-> table[i]] /\ TableIs'
         /\ route' = [n \in Nodes |-> IF route[n] = job[t].f /\ ByFd(job[t].f) # 0 THEN 0 ELSE route[n]]
         /\ route' \in [Nodes -> 0 .. MaxFd]
         /\ t = "ipc" => Moves(t, "drop", job[t].f)
         /\ t = "net" => Becomes(t, Idle)
         /\ UNCHANGED <<open, listed, hung, inbox, fd, ask, asked, lockI, lockE, astray>>
         /\ JobsAre' /\ AccountIs
         /\ \A u \in SettingUp(job[t].f) : Node(u) \in Nodes => "cut" \in flaws'[Node(u)]
<1>1. PICK f : f = job[t].f
  OBVIOUS
<1>2. /\ job[t].pc = "remove"
      /\ table' = [i \in {j \in DOMAIN table : table[j].fd # f} |-> table[i]]
      /\ route' = [n \in Nodes |-> IF route[n] = f /\ ByFd(f) # 0 THEN 0 ELSE route[n]]
      /\ Flaw({Node(u) : u \in SettingUp(f)}, "cut")
      /\ IF t = "ipc" THEN Goto(t, "drop") ELSE job' = [job EXCEPT ![t] = Idle]
      /\ UNCHANGED <<open, listed, hung, inbox, fd, ask, asked, lockI, lockE, astray>>
  BY <1>1 DEF RemoveEntry, Unrouted, sockets
<1>3. t \in Openers /\ f \in Fds /\ (t = "ipc" => /\ job[t].a \in Equips /\ DOMAIN job[t].todo \subseteq Nat \ {0}
                                                 /\ \A i \in DOMAIN job[t].todo : job[t].todo[i] \in Fds)
  BY <1>1, <1>2, JobOf DEF SetUpPcs
<1>4. TableIs'
  <2>1. DOMAIN table' \subseteq DOMAIN table /\ \A i \in DOMAIN table' : table'[i] = table[i]
    BY <1>2
  <2>2. table' = [i \in DOMAIN table' |-> table'[i]]
    BY <1>2
  <2>3. table' \in [DOMAIN table' -> Entry]
    BY <2>1, <2>2, Types
  <2>4. QED
    BY <2>1, <2>3, Types DEF TableIs, TableIsFinite
<1>5. route' \in [Nodes -> 0 .. MaxFd]
  BY <1>2, Types, Constants
<1>6. AccountIs /\ \A u \in SettingUp(f) : Node(u) \in Nodes => "cut" \in flaws'[Node(u)]
  <2>1. PICK N : N = {Node(u) : u \in SettingUp(f)}
    OBVIOUS
  <2>2. AccountIs /\ \A n \in Nodes : n \in N => "cut" \in flaws'[n]
    BY <1>2, <2>1, FlawIs DEF Flaws
  <2>3. QED
    BY <2>1, <2>2
<1>7. CASE t = "ipc"
  <2>1. Moves(t, "drop", f)
    BY <1>1, <1>2, <1>7, MovesIs
  <2>2. JobsAre'
    <3>1. PICK r : r = [pc |-> "drop", a |-> job[t].a, todo |-> job[t].todo, f |-> f]
      OBVIOUS
    <3>2. /\ r.pc = "drop" /\ r.a = job[t].a /\ r.todo = job[t].todo /\ r.f = f
          /\ r = [pc |-> r.pc, a |-> r.a, todo |-> r.todo, f |-> r.f]
      BY <3>1
    <3>3. "drop" \in PcsOf("ipc")
      BY Constants DEF PcsOf
    <3>4. JobIs(t, r)
      BY <1>3, <1>7, <3>2, <3>3, Constants DEF JobIs, SetUpPcs, ChunkPcs
    <3>5. QED
      BY <2>1, <3>1, <3>4, JobsKept DEF Moves
  <2>3. QED
    BY <1>1, <1>2, <1>3, <1>4, <1>5, <1>6, <1>7, <2>1, <2>2
<1>8. CASE t = "net"
  <2>1. Becomes(t, Idle)
    BY <1>2, <1>8 DEF Becomes
  <2>2. JobsAre'
    BY <2>1, IdleFits, JobsKept
  <2>3. QED
    BY <1>1, <1>2, <1>3, <1>4, <1>5, <1>6, <1>8, <2>1, <2>2
<1>9. QED
  BY <1>3, <1>7, <1>8 DEF Openers

-----------------------------------------------------------------------------
\* Thread t gets the chunk of client a to handle.
Starts(t, a) ==
    \E todo \in Seq(Nodes) :
        /\ todo # <<>>
        /\ Becomes(t, [pc |-> IF t \in Workers THEN "look" ELSE "other", a |-> a, todo |-> todo, f |-> 0])

\* That is what First and Later do, when no one else has a chunk of the client.
LEMMA StartsIs ==
  ASSUME TypesInv, ClientsInv, NEW a \in Askers, NEW t \in Threads,
         (First(a) /\ t = Reader(a)) \/ (t \in Workers /\ Later(t, a))
  PROVE  /\ Starts(t, a) /\ JobsAre' /\ job[t].pc = "loop" /\ HasChunk(a)
         /\ ask[a].at = (IF t \in Workers THEN "rest" ELSE "first")
         /\ t \in Workers => \A v \in Workers : job[v].a # a
         /\ lockI' \in {lockI, t} \cap {None, "net"}
         /\ lockE' \in {lockE, t} \cap ({None, "ipc"} \cup Workers)
         /\ lockE' # lockE => lockE \in {None, t}
         /\ UNCHANGED <<open, listed, hung, inbox, fd, ask, asked, route, table, got, flaws, astray>>
<1>1. UNCHANGED <<open, listed, hung, inbox, fd, ask, asked, route, table, got, flaws, astray>>
  BY DEF First, Later, sockets, history
<1>2. lockI \in {None, "net"} /\ lockE \in {None, "ipc"} \cup Workers
  BY Types
<1>3. PICK p : p = IF t \in Workers THEN "look" ELSE "other"
  OBVIOUS
<1>4. job[t] = Idle /\ ask[a].at = (IF t \in Workers THEN "rest" ELSE "first")
  BY Constants DEF First, Later, Reader
<1>5. HasChunk(a) /\ job[t].pc = "loop"
  BY <1>4 DEF ClientsInv, Idle
<1>6. PICK todo \in Seq(Nodes) : todo = ToList(ask[a].to) /\ todo # <<>>
  BY <1>5, ToListIs DEF HasChunk
<1>7. PICK r : r = [pc |-> p, a |-> a, todo |-> todo, f |-> 0]
  OBVIOUS
<1>8. Becomes(t, r)
  BY <1>3, <1>6, <1>7, Constants DEF First, Later, Becomes, Reader
<1>9. JobIs(t, r)
  <2>1. r.pc = p /\ r.a = a /\ r.todo = todo /\ r.f = 0 /\ r = [pc |-> r.pc, a |-> r.a, todo |-> r.todo, f |-> r.f]
    BY <1>7
  <2>2. p \in PcsOf(t) /\ p \in {"look", "other"}
    BY <1>3 DEF PcsOf
  <2>3. QED
    BY <1>6, <2>1, <2>2, Constants DEF JobIs, SetUpPcs
<1>10. JobsAre'
  BY <1>8, <1>9, JobsKept
<1>11. /\ lockI' \in {lockI, t} \cap {None, "net"}
       /\ lockE' \in {lockE, t} \cap ({None, "ipc"} \cup Workers)
       /\ lockE' # lockE => lockE \in {None, t}
  <2>1. CASE First(a) /\ t = Reader(a)
    BY <1>2, <2>1, Constants DEF First, Reader, FreeE
  <2>2. CASE t \in Workers /\ Later(t, a)
    BY <1>2, <2>2 DEF Later, FreeE
  <2>3. QED
    BY <2>1, <2>2
<1>12. t \in Workers => \A v \in Workers : job[v].a # a
  BY Constants DEF Later, First, Reader
<1>13. QED
  BY <1>1, <1>3, <1>4, <1>5, <1>6, <1>7, <1>8, <1>10, <1>11, <1>12 DEF Starts

\* A connection is opened, listed and routed.
LEMMA CacheIs ==
  ASSUME TypesInv, NEW t \in Threads, Cache(t)
  PROVE  /\ t \in Openers /\ job[t].pc = "cache" /\ Node(t) \in Nodes
         /\ \E f \in Fds : open[f] = None /\ open' = [open EXCEPT ![f] = Node(t)] /\ Moves(t, "list", f)
         /\ UNCHANGED <<listed, hung, inbox, fd, ask, asked, route, table, lockI, lockE, got, flaws, astray>>
         /\ TypesInv'
<1>1. /\ job[t].pc = "cache" /\ FreeFds # {}
      /\ open' = [open EXCEPT ![LowestFree] = Node(t)] /\ GotoWith(t, "list", LowestFree)
      /\ UNCHANGED <<listed, hung, inbox, fd, ask, asked, route, table, lockI, lockE, got, flaws, astray>>
  BY DEF Cache, history
<1>2. t \in Openers /\ Node(t) \in Nodes
  BY <1>1, JobOf DEF ChunkPcs
<1>3. PICK f \in Fds : f = LowestFree /\ open[f] = None
  BY <1>1, LowestIs
<1>4. Moves(t, "list", f)
  BY <1>1, <1>3, MovesIs
<1>5. JobsAre'
  <2>1. "list" \in PcsOf(t) /\ f \in 0 .. MaxFd
    BY <1>2, Constants DEF PcsOf, SetUpPcs, Openers
  <2>2. QED
    BY <1>1, <1>4, <2>1, MovesFit DEF SetUpPcs, ChunkPcs
<1>6. open' \in [Fds -> Askers \cup Nodes \cup {None}]
  BY <1>1, <1>2, <1>3, Types
<1>7. TypesInv'
  BY <1>1, <1>5, <1>6, Types, TableUnchanged, Typed
<1>8. QED
  BY <1>1, <1>2, <1>3, <1>4, <1>7

\* What List does.
LEMMA ListIs ==
  ASSUME TypesInv, NEW t \in Threads, List(t)
  PROVE  /\ t \in Openers /\ job[t].pc = "list" /\ FreeX /\ job[t].f \in Fds /\ Node(t) \in Nodes
         /\ listed' = listed \cup {job[t].f} /\ Moves(t, "route", job[t].f)
         /\ UNCHANGED <<open, hung, inbox, fd, ask, asked, route, table, lockI, lockE, got, flaws, astray>>
         /\ TypesInv'
<1>1. /\ job[t].pc = "list" /\ FreeX /\ listed' = listed \cup {job[t].f} /\ Goto(t, "route")
      /\ UNCHANGED <<open, hung, inbox, fd, ask, asked, route, table, lockI, lockE, got, flaws, astray>>
  BY DEF List, history
<1>2. t \in Openers /\ Node(t) \in Nodes /\ job[t].f \in Fds
  BY <1>1, JobOf, Constants DEF ChunkPcs, SetUpPcs
<1>3. Moves(t, "route", job[t].f)
  BY <1>1, MovesIs
<1>4. JobsAre'
  <2>1. "route" \in PcsOf(t) /\ job[t].f \in 0 .. MaxFd
    BY <1>2, Constants DEF PcsOf, SetUpPcs, Openers
  <2>2. QED
    BY <1>1, <1>2, <1>3, <2>1, MovesFit DEF SetUpPcs, ChunkPcs
<1>5. TypesInv'
  BY <1>1, <1>2, <1>4, Types, TableUnchanged, Typed
<1>6. QED
  BY <1>1, <1>2, <1>3, <1>5

\* What SetRoute does.
LEMMA SetRouteIs ==
  ASSUME TypesInv, NEW t \in Threads, SetRoute(t)
  PROVE  /\ t \in Openers /\ job[t].pc = "route" /\ job[t].f \in Fds /\ Node(t) \in Nodes
         /\ route' = [route EXCEPT ![Node(t)] = job[t].f] /\ Moves(t, "add", job[t].f)
         /\ UNCHANGED <<open, listed, hung, inbox, fd, ask, asked, table, lockI, lockE, got, flaws, astray>>
         /\ TypesInv'
<1>1. /\ job[t].pc = "route" /\ route' = [route EXCEPT ![Node(t)] = job[t].f] /\ Goto(t, "add")
      /\ UNCHANGED <<open, listed, hung, inbox, fd, ask, asked, table, lockI, lockE, got, flaws, astray>>
  BY DEF SetRoute, history, sockets, Routed
<1>2. t \in Openers /\ Node(t) \in Nodes /\ job[t].f \in Fds
  BY <1>1, JobOf, Constants DEF ChunkPcs, SetUpPcs
<1>3. Moves(t, "add", job[t].f)
  BY <1>1, MovesIs
<1>4. JobsAre'
  <2>1. "add" \in PcsOf(t) /\ job[t].f \in 0 .. MaxFd
    BY <1>2, Constants DEF PcsOf, SetUpPcs, Openers
  <2>2. QED
    BY <1>1, <1>2, <1>3, <2>1, MovesFit DEF SetUpPcs, ChunkPcs
<1>5. route' \in [Nodes -> 0 .. MaxFd]
  BY <1>1, <1>2, Types, Constants
<1>6. TypesInv'
  BY <1>1, <1>4, <1>5, Types, TableUnchanged, Typed
<1>7. QED
  BY <1>1, <1>2, <1>3, <1>6

\* The entry of a connection is made and filled.
LEMMA AddIs ==
  ASSUME TypesInv, NEW t \in Threads, AddEntry(t)
  PROVE  /\ t \in Openers /\ job[t].pc = "add" /\ FreeE(t) /\ job[t].f \in Fds /\ Node(t) \in Nodes
         /\ Moves(t, "fill", job[t].f)
         /\ \E b \in Nat \ {0} :
               /\ b \notin DOMAIN table /\ DOMAIN table' = DOMAIN table \cup {b}
               /\ \A i \in DOMAIN table : table'[i] = table[i]
               /\ table'[b].fd = job[t].f /\ table'[b].opener = None /\ table'[b].source = 0
         /\ UNCHANGED <<open, listed, hung, inbox, fd, ask, asked, route, lockI, lockE, got, flaws, astray>>
         /\ TypesInv'
<1>1. /\ job[t].pc = "add" /\ FreeE(t) /\ Goto(t, "fill")
      /\ UNCHANGED <<open, listed, hung, inbox, fd, ask, asked, route, lockI, lockE, got, flaws, astray>>
  BY DEF AddEntry, history, sockets
<1>2. t \in Openers /\ Node(t) \in Nodes /\ job[t].f \in Fds
  BY <1>1, JobOf, Constants DEF ChunkPcs, SetUpPcs
<1>3. Moves(t, "fill", job[t].f)
  BY <1>1, MovesIs
<1>4. JobsAre'
  <2>1. "fill" \in PcsOf(t) /\ job[t].f \in 0 .. MaxFd
    BY <1>2, Constants DEF PcsOf, SetUpPcs, Openers
  <2>2. QED
    BY <1>1, <1>2, <1>3, <2>1, MovesFit DEF SetUpPcs, ChunkPcs
<1>5. PICK b : b = Behind
  OBVIOUS
<1>6. b \in Nat \ {0} /\ b \notin DOMAIN table /\ \E k \in Nat : DOMAIN table \cup {b} \subseteq 1 .. k
  BY <1>5, BehindIs
<1>7. PICK e : e = NewEntry(job[t].f)
  OBVIOUS
<1>8. e \in Entry /\ e.fd = job[t].f /\ e.opener = None /\ e.source = 0
  BY <1>2, <1>7, Constants DEF NewEntry, Entry
<1>9. table' = [i \in DOMAIN table \cup {b} |-> IF i = b THEN e ELSE table[i]]
  BY <1>5, <1>7 DEF AddEntry
<1>10. TableIs'
  <2>1. DOMAIN table' = DOMAIN table \cup {b} /\ DOMAIN table \subseteq Nat \ {0}
    BY <1>9, Types
  <2>2. table' \in [DOMAIN table' -> Entry]
    BY <1>8, <1>9, Types
  <2>3. QED
    BY <1>6, <2>1, <2>2 DEF TableIs, TableIsFinite
<1>11. TypesInv'
  BY <1>1, <1>4, <1>10, Types, Typed
<1>12. /\ DOMAIN table' = DOMAIN table \cup {b} /\ \A i \in DOMAIN table : table'[i] = table[i]
       /\ table'[b].fd = job[t].f /\ table'[b].opener = None /\ table'[b].source = 0
  BY <1>6, <1>8, <1>9
<1>13. QED
  BY <1>1, <1>2, <1>3, <1>6, <1>11, <1>12

\* What Fill does: it finds no entry, or fills one with the number.
LEMMA FillIs ==
  ASSUME TypesInv, ClientsInv, NEW t \in Threads, Fill(t)
  PROVE  /\ t \in Openers /\ job[t].pc = "fill" /\ job[t].f \in Fds /\ Node(t) \in Nodes /\ job[t].a \in Askers
         /\ \/ /\ \A i \in DOMAIN table : table[i].fd # job[t].f
               /\ Moves(t, "crashed", job[t].f) /\ table' = table
            \/ /\ Moves(t, "activate", job[t].f) /\ DOMAIN table' = DOMAIN table
               /\ \E i \in DOMAIN table :
                     /\ table[i].fd = job[t].f
                     /\ table'[i].fd = job[t].f /\ table'[i].queue \in Seq(Items)
                     /\ table'[i].opener = job[t].a /\ table'[i].source = fd[job[t].a]
                     /\ \A j \in DOMAIN table \ {i} : table'[j] = table[j]
         /\ UNCHANGED <<open, listed, hung, inbox, fd, ask, asked, route, lockI, lockE, astray>>
         /\ TypesInv' /\ AccountIs /\ NoCut
<1>1. /\ job[t].pc = "fill"
      /\ UNCHANGED <<open, listed, hung, inbox, fd, ask, asked, route, lockI, lockE, astray>>
  BY DEF Fill, sockets
<1>2. t \in Openers /\ Node(t) \in Nodes /\ job[t].f \in Fds /\ job[t].a \in Askers /\ HasChunk(job[t].a)
  BY <1>1, JobOf, Constants DEF ChunkPcs, SetUpPcs, ClientsInv
<1>3. job[t].f \in 0 .. MaxFd /\ {"activate", "crashed"} \subseteq PcsOf(t)
  BY <1>2, Constants DEF PcsOf, SetUpPcs, Openers
<1>4. PICK i : i = ByFd(job[t].f)
  OBVIOUS
<1>5. CASE i = 0
  <2>1. Goto(t, "crashed") /\ table' = table /\ UNCHANGED account
    BY <1>4, <1>5 DEF Fill
  <2>2. Moves(t, "crashed", job[t].f)
    BY <2>1, MovesIs
  <2>3. JobsAre'
    BY <1>3, <2>2, MovesFit DEF SetUpPcs, ChunkPcs
  <2>4. \A j \in DOMAIN table : table[j].fd # job[t].f
    BY <1>4, <1>5, ByFdIs, Types
  <2>5. TypesInv' /\ AccountIs /\ NoCut
    BY <1>1, <2>1, <2>3, AccountKept, Types, TableUnchanged, Typed DEF AccountIs
  <2>6. QED
    BY <1>1, <1>2, <2>1, <2>2, <2>4, <2>5
<1>6. CASE i # 0
  <2>1. i \in DOMAIN table /\ table[i].fd = job[t].f
    BY <1>4, <1>6, ByFdIs, Types
  <2>2. PICK a \in Askers : a = job[t].a
    BY <1>2
  <2>3. PICK e \in Entry : e = table[i]
    BY <2>1, Types
  <2>4. PICK n \in Nodes : n = Node(t)
    BY <1>2
  <2>5. PICK s \in 0 .. MaxFd : s = fd[a]
    BY Types
  <2>6. PICK q \in Seq(Items) : q = FirstQueued(a)
    <3>1. PICK x \in Items : x = Item(a)
      BY <1>2, <2>2, ItemIs
    <3>2. <<x>> \in Seq(Items)
      OBVIOUS
    <3>3. QED
      BY <3>1, <3>2 DEF FirstQueued
  <2>7. /\ table' = [table EXCEPT ![i] = [e EXCEPT !.source = s, !.opener = a, !.node = n, !.queue = q]]
        /\ Goto(t, "activate")
        /\ Flaw({n, table[i].node}, "misled") \/ UNCHANGED account
    BY <1>4, <1>6, <2>2, <2>3, <2>4, <2>5, <2>6 DEF Fill
  <2>8. PICK e1 : e1 = [e EXCEPT !.source = s]
    OBVIOUS
  <2>9. e1 \in Entry /\ e1.fd = e.fd /\ e1.source = s
    BY <2>8 DEF Entry
  <2>10. PICK e2 : e2 = [e1 EXCEPT !.opener = a]
    OBVIOUS
  <2>11. e2 \in Entry /\ e2.fd = e.fd /\ e2.source = s /\ e2.opener = a
    BY <2>9, <2>10 DEF Entry
  <2>12. PICK e3 : e3 = [e2 EXCEPT !.node = n]
    OBVIOUS
  <2>13. e3 \in Entry /\ e3.fd = e.fd /\ e3.source = s /\ e3.opener = a
    BY <2>11, <2>12 DEF Entry
  <2>14. PICK e4 : e4 = [e3 EXCEPT !.queue = q]
    OBVIOUS
  <2>15. e4 \in Entry /\ e4.fd = e.fd /\ e4.source = s /\ e4.opener = a /\ e4.queue = q
    BY <2>13, <2>14 DEF Entry
  <2>16. [e EXCEPT !.source = s, !.opener = a, !.node = n, !.queue = q] = e4
    BY <2>8, <2>10, <2>12, <2>14
  <2>17. table' = [table EXCEPT ![i] = e4]
    BY <2>7, <2>16
  <2>18. TableIs' /\ DOMAIN table' = DOMAIN table /\ table'[i] = e4 /\ \A j \in DOMAIN table \ {i} : table'[j] = table[j]
    BY <2>1, <2>15, <2>17, EntryChanged
  <2>19. Moves(t, "activate", job[t].f)
    BY <2>7, MovesIs
  <2>20. JobsAre'
    BY <1>1, <1>2, <1>3, <2>19, MovesFit DEF SetUpPcs, ChunkPcs
  <2>21. AccountIs /\ NoCut
    BY <2>7, FlawIs, AccountKept DEF Flaws
  <2>22. TypesInv'
    BY <1>1, <2>18, <2>20, <2>21, Types, Typed DEF AccountIs
  <2>23. QED
    BY <1>1, <1>2, <2>1, <2>2, <2>3, <2>5, <2>15, <2>18, <2>19, <2>21, <2>22
<1>7. QED
  BY <1>5, <1>6

\* A node closes a connection, and the net thread does.
LEMMA HangIs ==
  ASSUME TypesInv, NEW f \in Fds, Hang(f)
  PROVE  TypesInv' /\ AccountIs /\ NoCut
<1>1. /\ hung' = hung \cup {f} /\ inbox' = [inbox EXCEPT ![f] = <<>>] /\ Flaw({open[f]}, "broken")
      /\ UNCHANGED <<open, listed, fd, ask, asked, route, table, lockI, lockE, job, astray>>
  BY DEF Hang
<1>2. AccountIs /\ NoCut
  BY <1>1, FlawIs DEF Flaws
<1>3. inbox' \in [Fds -> Seq(Items \cup {Request})]
  <2>1. <<>> \in Seq(Items \cup {Request})
    OBVIOUS
  <2>2. QED
    BY <1>1, <2>1, Types
<1>4. JobsAre'
  BY <1>1, JobsUnchanged
<1>5. QED
  BY <1>1, <1>2, <1>3, <1>4, Types, TableUnchanged, Typed DEF AccountIs

\* What CloseTest does.
LEMMA CloseIs ==
  ASSUME TypesInv, NEW f \in Fds, CloseTest(f)
  PROVE  /\ Becomes("net", [pc |-> "remove", a |-> None, todo |-> <<>>, f |-> f])
         /\ TypesInv' /\ AccountIs /\ NoCut
<1>1. /\ job["net"] = Idle /\ open' = [open EXCEPT ![f] = None] /\ listed' = listed \ {f} /\ hung' = hung \ {f}
      /\ GotoWith("net", "remove", f)
      /\ UNCHANGED <<inbox, fd, ask, asked, route, table, lockI, lockE, got, flaws, astray>>
  BY DEF CloseTest
<1>2. "net" \in Threads /\ job["net"].a = None /\ job["net"].todo = <<>>
  BY <1>1, Constants DEF Openers, Idle
<1>3. Moves("net", "remove", f)
  BY <1>1, <1>2, MovesIs
<1>4. Becomes("net", [pc |-> "remove", a |-> None, todo |-> <<>>, f |-> f])
  BY <1>2, <1>3 DEF Moves
<1>5. JobsAre'
  <2>1. "remove" \in PcsOf("net") /\ f \in 0 .. MaxFd
    BY Constants DEF PcsOf
  <2>2. QED
    BY <1>2, <1>3, <2>1, MovesFit DEF SetUpPcs, ChunkPcs
<1>6. AccountIs /\ NoCut
  BY <1>1, AccountKept DEF account
<1>7. open' \in [Fds -> Askers \cup Nodes \cup {None}]
  BY <1>1, Types
<1>8. TypesInv'
  BY <1>1, <1>5, <1>7, Types, TableUnchanged, Typed
<1>9. QED
  BY <1>4, <1>6, <1>8

-----------------------------------------------------------------------------
\* What a step is, for the client, the thread or the socket that makes it.
LEMMA Kinds ==
  ASSUME TypesInv, ClientsInv, Next
  PROVE  \/ \E a \in Askers : Connect(a) \/ TesterLeaves(a) \/ EquipLeaves(a)
         \/ \E a \in Askers, to \in Targets, len \in Lengths : Ask(a, to, len)
         \/ \E a \in Askers, t \in Threads : (First(a) /\ t = Reader(a)) \/ (t \in Workers /\ Later(t, a))
         \/ \E t \in Threads : Decides(t) \/ Finishes(t) \/ Writes(t)
         \/ \E t \in Threads : Cache(t) \/ List(t) \/ SetRoute(t) \/ AddEntry(t) \/ Fill(t) \/ RemoveEntry(t)
         \/ Leave \/ Drop
         \/ \E f \in Fds : Reads(f) \/ NullQueue(f) \/ Hang(f) \/ CloseTest(f)
<1>1. ASSUME NEW t \in Threads, ThreadStep(t)
      PROVE  \/ Decides(t) \/ Finishes(t) \/ Writes(t)
             \/ Cache(t) \/ List(t) \/ SetRoute(t) \/ AddEntry(t) \/ Fill(t) \/ RemoveEntry(t)
             \/ Leave \/ Drop
  BY <1>1, OtherDecides, UnreachableFinishes, LookDecides, StoreFinishes, SendWrites DEF ThreadStep
<1>2. ASSUME NEW a \in Askers PROVE Reader(a) \in Threads
  BY Constants DEF Reader, Openers
<1>3. ASSUME NEW w \in Workers PROVE w \in Threads
  BY Constants
<1>4. CASE \E a \in Askers : Connect(a) \/ First(a) \/ TesterLeaves(a) \/ EquipLeaves(a)
  BY <1>2, <1>4
<1>5. CASE \E w \in Workers, a \in Askers : Later(w, a)
  BY <1>3, <1>5
<1>6. CASE \E t \in Threads : ThreadStep(t)
  BY <1>1, <1>6
<1>7. CASE \E f \in Fds : Hang(f) \/ CloseTest(f) \/ Answer(f)
  BY <1>7, AnswerReads
<1>8. CASE \E f \in Fds, granted \in BOOLEAN : Activated(f, granted)
  BY <1>8, ActivatedReads
<1>9. QED
  BY <1>4, <1>5, <1>6, <1>7, <1>8 DEF Next

\* Every step keeps the types, and what went wrong stays on the account.
LEMMA TypesStep ==
  ASSUME TypesInv, ClientsInv, Next
  PROVE  TypesInv' /\ Worse
<1>1. ASSUME UNCHANGED <<got, flaws>> PROVE Worse
  BY <1>1 DEF Worse
<1>2. ASSUME NEW a \in Askers, Connect(a) \/ TesterLeaves(a) \/ EquipLeaves(a) \/ \E to \in Targets, len \in Lengths : Ask(a, to, len)
      PROVE  TypesInv' /\ Worse
  <2>1. UNCHANGED <<got, flaws>>
    BY <1>2 DEF Connect, TesterLeaves, EquipLeaves, Ask, history
  <2>2. QED
    BY <1>1, <1>2, <2>1, ClientTypes
<1>3. ASSUME NEW a \in Askers, NEW t \in Threads, (First(a) /\ t = Reader(a)) \/ (t \in Workers /\ Later(t, a))
      PROVE  TypesInv' /\ Worse
  <2>1. /\ JobsAre' /\ lockI' \in {None, "net"} /\ lockE' \in {None, "ipc"} \cup Workers
        /\ UNCHANGED <<open, listed, hung, inbox, fd, ask, asked, route, table, got, flaws, astray>>
    BY <1>3, StartsIs
  <2>2. QED
    BY <1>1, <2>1, Types, TableUnchanged, Typed
<1>4. ASSUME NEW t \in Threads, Cache(t) \/ List(t) \/ SetRoute(t) \/ AddEntry(t) \/ Fill(t)
      PROVE  TypesInv' /\ Worse
  BY <1>1, <1>4, CacheIs, ListIs, SetRouteIs, AddIs, FillIs DEF AccountIs
<1>5. ASSUME NEW t \in Threads, RemoveEntry(t) PROVE TypesInv' /\ Worse
  BY <1>5, RemoveIs, Types, Typed DEF AccountIs
<1>6. CASE Leave
  <2>1. JobsAre' /\ lockE' = "ipc" /\ UNCHANGED <<open, listed, hung, inbox, fd, ask, asked, route, table, lockI, got, flaws, astray>>
    BY <1>6, LeaveIs DEF Leave, sockets, history
  <2>2. QED
    BY <1>1, <2>1, Types, TableUnchanged, Typed
<1>7. CASE Drop
  <2>1. /\ JobsAre' /\ AccountIs /\ UNCHANGED <<fd, ask, asked, route, table, lockI, astray>>
        /\ DropEnds \/ \E p \in DOMAIN job["ipc"].todo : DropSkips(p) \/ DropCloses(p)
    BY <1>7, DropIs
  <2>2. CASE DropEnds \/ \E p \in DOMAIN job["ipc"].todo : DropSkips(p)
    <3>1. UNCHANGED <<open, listed, hung, inbox>> /\ lockE' \in {lockE, None}
      BY <2>2 DEF DropEnds, DropSkips
    <3>2. QED
      BY <2>1, <3>1, Types, TableUnchanged, Typed DEF AccountIs
  <2>3. ASSUME NEW p \in DOMAIN job["ipc"].todo, DropCloses(p) PROVE TypesInv' /\ Worse
    <3>1. PICK f : f = job["ipc"].todo[p]
      OBVIOUS
    <3>2. /\ open' = [open EXCEPT ![f] = None] /\ inbox' = [inbox EXCEPT ![f] = <<>>]
          /\ listed' = listed \ {f} /\ hung' = hung \ {f} /\ lockE' = lockE
      BY <2>3, <3>1 DEF DropCloses
    <3>3. <<>> \in Seq(Items \cup {Request})
      OBVIOUS
    <3>4. open' \in [Fds -> Askers \cup Nodes \cup {None}] /\ inbox' \in [Fds -> Seq(Items \cup {Request})]
      BY <3>2, <3>3, Types
    <3>5. QED
      BY <2>1, <3>2, <3>4, Types, TableUnchanged, Typed DEF AccountIs
  <2>4. QED
    BY <2>1, <2>2, <2>3
<1>8. ASSUME NEW f \in Fds, Hang(f) \/ CloseTest(f) PROVE TypesInv' /\ Worse
  BY <1>8, HangIs, CloseIs DEF AccountIs
<1>9. CASE \/ \E t \in Threads : Decides(t) \/ Finishes(t) \/ Writes(t)
           \/ \E f \in Fds : Reads(f) \/ NullQueue(f)
  BY <1>9, ChunkTypes DEF AccountIs
<1>10. QED
  BY Kinds, <1>2, <1>3, <1>4, <1>5, <1>6, <1>7, <1>8, <1>9

-----------------------------------------------------------------------------
\* Thread t keeps the chunk it has, or has done with it.
Keeps(t) ==
    \/ job'[t] = job[t]
    \/ /\ job'[t].a = job[t].a /\ (job'[t].pc \in ChunkPcs => job[t].pc \in ChunkPcs)
       /\ t \in Workers => job[t].pc # "loop"
       /\ t = "ipc" /\ job'[t].pc \in {"leave", "drop", "remove"} => job[t].pc \in {"leave", "drop", "remove"}
    \/ job'[t].pc = "loop"
    \/ t = "net" /\ job'[t].pc \notin ChunkPcs

\* A number is taken from no client that is there.
KeepsClients == \A f \in Fds : open[f] \in Askers => open'[f] = open[f]

\* The clients after a step that takes no number and changes no chunk.
LEMMA ClientsKept ==
  ASSUME ClientsInv, UNCHANGED <<ask, fd>>, KeepsClients, \A t \in Threads : Keeps(t)
  PROVE  ClientsInv'
<1>1. ASSUME NEW a \in Askers, Present(a)' PROVE fd'[a] \in Fds /\ open'[fd'[a]] = a
  BY <1>1 DEF ClientsInv, Present, KeepsClients
<1>2. \A a \in Askers : HasChunk(a)' <=> HasChunk(a)
  BY DEF HasChunk
<1>3. ASSUME NEW t \in Threads, job'[t].pc \in ChunkPcs
      PROVE  /\ HasChunk(job[t].a)'
             /\ ask'[job'[t].a].at \in (IF t \in Workers THEN {"rest", "gone"} ELSE {"first"})
             /\ t \notin Workers => t = Reader(job'[t].a)
  <2>1. job[t].pc \in ChunkPcs /\ job'[t].a = job[t].a
    BY <1>3 DEF Keeps, ChunkPcs, SetUpPcs
  <2>2. HasChunk(job[t].a)
    BY <2>1 DEF ClientsInv
  <2>3. HasChunk(job[t].a)'
    BY <2>1, <2>2 DEF HasChunk
  <2>4. QED
    BY <2>1, <2>3 DEF ClientsInv
<1>4. ASSUME NEW v \in Workers, NEW w \in Workers, job'[v].pc # "loop", job'[w].pc # "loop", job'[v].a = job'[w].a
      PROVE  v = w
  <2>1. /\ job[v].pc # "loop" /\ job[v].a = job'[v].a /\ v \in Threads
    BY <1>4, Constants DEF Keeps
  <2>2. job[w].pc # "loop" /\ job[w].a = job'[w].a /\ w \in Threads
    BY <1>4, Constants DEF Keeps
  <2>3. QED
    BY <1>4, <2>1, <2>2 DEF ClientsInv
<1>5. job'["ipc"].pc \in {"leave", "drop", "remove"} => ask'[job'["ipc"].a].at = "gone"
  <2>1. "ipc" \in Threads
    BY Constants DEF Openers
  <2>2. QED
    BY <2>1 DEF ClientsInv, Keeps
<1>6. QED
  BY <1>1, <1>2, <1>3, <1>4, <1>5 DEF ClientsInv

\* The clients after the steps in which no chunk begins or ends.
LEMMA ClientsRest ==
  ASSUME TypesInv, ClientsInv,
         \/ \E t \in Threads : Decides(t) \/ Cache(t) \/ List(t) \/ SetRoute(t) \/ AddEntry(t) \/ Fill(t) \/ RemoveEntry(t)
         \/ Leave \/ Drop
         \/ \E f \in Fds : Reads(f) \/ NullQueue(f) \/ Hang(f) \/ CloseTest(f),
         SocketsInv
  PROVE  ClientsInv'
<1>1. ASSUME NEW t \in Threads, NEW pc, NEW f, Moves(t, pc, f), job[t].pc # "loop" \/ (t = "net" /\ pc \notin ChunkPcs),
             pc \in ChunkPcs => job[t].pc \in ChunkPcs,
             t = "ipc" /\ pc \in {"leave", "drop", "remove"} => job[t].pc \in {"leave", "drop", "remove"}
      PROVE  \A u \in Threads : Keeps(u)
  <2>1. job'[t] = [pc |-> pc, a |-> job[t].a, todo |-> job[t].todo, f |-> f] /\ \A u \in Threads \ {t} : job'[u] = job[u]
    BY <1>1, BecomesIs DEF Moves
  <2>2. job'[t].pc = pc /\ job'[t].a = job[t].a
    BY <2>1
  <2>3. QED
    BY <1>1, <2>1, <2>2 DEF Keeps
<1>2. ASSUME NEW t \in Threads, Becomes(t, Idle) PROVE \A u \in Threads : Keeps(u)
  <2>1. job'[t].pc = "loop" /\ \A u \in Threads \ {t} : job'[u] = job[u]
    BY <1>2, BecomesIs DEF Idle
  <2>2. QED
    BY <2>1 DEF Keeps
<1>3. ASSUME open' = open PROVE KeepsClients
  BY <1>3 DEF KeepsClients
<1>4. ASSUME NEW f, open[f] \notin Askers, NEW x, open' = [open EXCEPT ![f] = x] PROVE KeepsClients
  BY <1>4, Types DEF KeepsClients
<1>5. ASSUME NEW t \in Threads, NEW pc \in ChunkPcs \cup {"crashed"}, NEW f, Moves(t, pc, f), job[t].pc \in ChunkPcs
       PROVE  \A u \in Threads : Keeps(u)
  <2>1. job[t].pc # "loop" /\ pc \notin {"leave", "drop", "remove"}
    BY <1>5 DEF ChunkPcs, SetUpPcs
  <2>2. job'[t] = [pc |-> pc, a |-> job[t].a, todo |-> job[t].todo, f |-> f] /\ \A u \in Threads \ {t} : job'[u] = job[u]
    BY <1>5, BecomesIs DEF Moves
  <2>3. job'[t].pc = pc /\ job'[t].a = job[t].a
    BY <2>2
  <2>4. QED
    BY <1>5, <2>1, <2>2, <2>3 DEF Keeps
<1>6. ASSUME NEW t \in Threads, Decides(t) PROVE ClientsInv'
  <2>1. UNCHANGED <<open, ask, fd>>
    BY <1>6 DEF Decides
  <2>2. job[t].pc \in {"other", "look"} /\ \E pc \in {"send", "cache", "direct", "store"} : \E f : Moves(t, pc, f)
    <3>1. CASE \E f \in Fds : Moves(t, "send", f)
      BY <1>6, <3>1 DEF Decides
    <3>2. CASE Moves(t, "cache", job[t].f)
      BY <1>6, <3>2 DEF Decides
    <3>3. CASE \E f \in Fds : \E pc \in {"direct", "store"} : Moves(t, pc, f)
      BY <1>6, <3>3 DEF Decides
    <3>4. QED
      BY <1>6, <3>1, <3>2, <3>3 DEF Decides
  <2>4. PICK pc, f : pc \in {"send", "cache", "direct", "store"} /\ Moves(t, pc, f)
    BY <2>2
  <2>5. \A u \in Threads : Keeps(u)
    <3>1. job[t].pc \in ChunkPcs /\ pc \in ChunkPcs \cup {"crashed"}
      BY <2>2, <2>4 DEF ChunkPcs
    <3>2. QED
      BY <1>5, <2>4, <3>1
  <2>3. QED
    BY <1>3, <2>1, <2>5, ClientsKept
<1>7. ASSUME NEW t \in Threads, Cache(t) PROVE ClientsInv'
  <2>1. PICK f \in Fds : open[f] = None /\ open' = [open EXCEPT ![f] = Node(t)] /\ Moves(t, "list", f)
    BY <1>7, CacheIs
  <2>2. job[t].pc = "cache" /\ UNCHANGED <<ask, fd>> /\ None \notin Askers
    BY <1>7, CacheIs, Constants
  <2>3. KeepsClients
    BY <1>4, <2>1, <2>2
  <2>4. \A u \in Threads : Keeps(u)
    <3>1. job[t].pc \in ChunkPcs /\ "list" \in ChunkPcs \cup {"crashed"}
      BY <2>2 DEF ChunkPcs, SetUpPcs
    <3>2. QED
      BY <1>5, <2>1, <3>1
  <2>5. QED
    BY <2>2, <2>3, <2>4, ClientsKept
<1>8. ASSUME NEW t \in Threads, List(t) \/ SetRoute(t) \/ AddEntry(t) PROVE ClientsInv'
  <2>1. /\ job[t].pc \in {"list", "route", "add"} /\ UNCHANGED <<open, ask, fd>>
        /\ \E pc \in {"route", "add", "fill"} : Moves(t, pc, job[t].f)
    BY <1>8, ListIs, SetRouteIs, AddIs
  <2>2. \A u \in Threads : Keeps(u)
    <3>1. PICK pc \in {"route", "add", "fill"} : Moves(t, pc, job[t].f)
      BY <2>1
    <3>2. job[t].pc \in ChunkPcs /\ pc \in ChunkPcs \cup {"crashed"}
      BY <2>1 DEF ChunkPcs, SetUpPcs
    <3>3. QED
      BY <1>5, <3>1, <3>2
  <2>3. QED
    BY <1>3, <2>1, <2>2, ClientsKept
<1>9. ASSUME NEW t \in Threads, Fill(t) PROVE ClientsInv'
  <2>1. /\ job[t].pc = "fill" /\ UNCHANGED <<open, ask, fd>>
        /\ \E pc \in {"crashed", "activate"} : Moves(t, pc, job[t].f)
    BY <1>9, FillIs
  <2>2. \A u \in Threads : Keeps(u)
    <3>1. PICK pc \in {"crashed", "activate"} : Moves(t, pc, job[t].f)
      BY <2>1
    <3>2. job[t].pc \in ChunkPcs /\ pc \in ChunkPcs \cup {"crashed"}
      BY <2>1 DEF ChunkPcs, SetUpPcs
    <3>3. QED
      BY <1>5, <3>1, <3>2
  <2>3. QED
    BY <1>3, <2>1, <2>2, ClientsKept
<1>10. ASSUME NEW t \in Threads, RemoveEntry(t) PROVE ClientsInv'
  <2>1. /\ t \in {"net", "ipc"} /\ job[t].pc = "remove" /\ UNCHANGED <<open, ask, fd>>
        /\ t = "ipc" => Moves(t, "drop", job[t].f)
        /\ t = "net" => Becomes(t, Idle)
    BY <1>10, RemoveIs DEF Openers
  <2>2. \A u \in Threads : Keeps(u)
    BY <1>1, <1>2, <2>1 DEF ChunkPcs, SetUpPcs
  <2>3. QED
    BY <1>3, <2>1, <2>2, ClientsKept
<1>11. "ipc" \in Threads /\ "net" \in Threads /\ "ipc" \notin Workers
  BY Constants DEF Openers
<1>12. ASSUME NEW pc \in {"drop", "remove"}, NEW todo, NEW f, job["ipc"].pc \in {"leave", "drop"},
              Becomes("ipc", [pc |-> pc, a |-> job["ipc"].a, todo |-> todo, f |-> f])
       PROVE  \A u \in Threads : Keeps(u)
  <2>1. /\ job'["ipc"] = [pc |-> pc, a |-> job["ipc"].a, todo |-> todo, f |-> f]
        /\ \A u \in Threads \ {"ipc"} : job'[u] = job[u]
    BY <1>11, <1>12, BecomesIs
  <2>2. job'["ipc"].pc = pc /\ job'["ipc"].a = job["ipc"].a
    BY <2>1
  <2>3. QED
    BY <1>11, <1>12, <2>1, <2>2 DEF Keeps, ChunkPcs, SetUpPcs
<1>13. CASE Leave
  <2>1. UNCHANGED <<open, ask, fd>>
    BY <1>13 DEF Leave, sockets
  <2>2. /\ job["ipc"].pc = "leave"
        /\ Becomes("ipc", [pc |-> "drop", a |-> job["ipc"].a, f |-> job["ipc"].f,
                           todo |-> [i \in SourceOf(job["ipc"].a) |-> table[i].fd]])
    BY <1>13, LeaveIs
  <2>3. \A u \in Threads : Keeps(u)
    BY <1>12, <2>2
  <2>4. QED
    BY <1>3, <2>1, <2>3, ClientsKept
<1>14. CASE Drop
  <2>1. /\ job["ipc"].pc = "drop" /\ UNCHANGED <<fd, ask>>
        /\ DropEnds \/ \E p \in DOMAIN job["ipc"].todo : DropSkips(p) \/ DropCloses(p)
    BY <1>14, DropIs
  <2>2. CASE DropEnds
    BY <1>2, <1>3, <1>11, <2>1, <2>2, ClientsKept DEF DropEnds
  <2>3. ASSUME NEW p \in DOMAIN job["ipc"].todo, DropSkips(p) PROVE ClientsInv'
    <3>1. open' = open /\ Becomes("ipc", [pc |-> "drop", a |-> job["ipc"].a, todo |-> Rest(p), f |-> job["ipc"].f])
      BY <2>3 DEF DropSkips
    <3>2. \A u \in Threads : Keeps(u)
      BY <1>12, <2>1, <3>1
    <3>3. QED
      BY <1>3, <2>1, <3>1, <3>2, ClientsKept
  <2>4. ASSUME NEW p \in DOMAIN job["ipc"].todo, DropCloses(p) PROVE ClientsInv'
    <3>1. PICK f : f = job["ipc"].todo[p]
      OBVIOUS
    <3>2. /\ f \in listed /\ open' = [open EXCEPT ![f] = None]
          /\ Becomes("ipc", [pc |-> "remove", a |-> job["ipc"].a, todo |-> Rest(p), f |-> f])
      BY <2>4, <3>1 DEF DropCloses
    <3>3. open[f] \notin Askers
      BY <3>2, Constants DEF SocketsInv
    <3>4. KeepsClients
      BY <1>4, <3>2, <3>3
    <3>5. \A u \in Threads : Keeps(u)
      BY <1>12, <2>1, <3>2
    <3>6. QED
      BY <2>1, <3>4, <3>5, ClientsKept
  <2>5. QED
    BY <2>1, <2>2, <2>3, <2>4
<1>15. ASSUME NEW f \in Fds, Reads(f) \/ Hang(f) PROVE ClientsInv'
  <2>1. UNCHANGED <<open, ask, fd, job>>
    BY <1>15 DEF Reads, Hang
  <2>2. QED
    BY <1>3, <2>1, ClientsKept DEF Keeps
<1>16. ASSUME NEW f \in Fds, NullQueue(f) PROVE ClientsInv'
  <2>1. UNCHANGED <<open, ask, fd>> /\ Moves("net", "crashed", 0)
    BY <1>16 DEF NullQueue
  <2>2. \A u \in Threads : Keeps(u)
    BY <1>1, <1>11, <2>1 DEF ChunkPcs, SetUpPcs
  <2>3. QED
    BY <1>3, <2>1, <2>2, ClientsKept
<1>17. ASSUME NEW f \in Fds, CloseTest(f) PROVE ClientsInv'
  <2>1. UNCHANGED <<ask, fd>> /\ f \in listed /\ open' = [open EXCEPT ![f] = None]
    BY <1>17 DEF CloseTest
  <2>2. KeepsClients
    BY <1>4, <2>1, Constants DEF SocketsInv
  <2>3. job'["net"].pc = "remove" /\ \A u \in Threads \ {"net"} : job'[u] = job[u]
    <3>1. /\ job'["net"] = [pc |-> "remove", a |-> None, todo |-> <<>>, f |-> f]
          /\ \A u \in Threads \ {"net"} : job'[u] = job[u]
      BY <1>11, <1>17, CloseIs, BecomesIs
    <3>2. QED
      BY <3>1
  <2>4. \A u \in Threads : Keeps(u)
    BY <1>11, <2>3 DEF Keeps, ChunkPcs, SetUpPcs
  <2>5. QED
    BY <2>1, <2>2, <2>4, ClientsKept
<1>18. QED
  BY <1>6, <1>7, <1>8, <1>9, <1>10, <1>13, <1>14, <1>15, <1>16, <1>17

\* The clients after a chunk was handled.
LEMMA ClientsNext ==
  ASSUME TypesInv, ClientsInv, NEW t \in Threads, job[t].pc \in ChunkPcs, GoesOn(t) \/ IsDone(t),
         UNCHANGED <<open, fd>>
  PROVE  ClientsInv'
<1>1. KeepsClients
  BY DEF KeepsClients
<1>2. CASE GoesOn(t)
  <2>1. PICK p \in {"look", "other"} : Becomes(t, [pc |-> p, a |-> job[t].a, todo |-> Tail(job[t].todo), f |-> job[t].f])
    BY <1>2 DEF GoesOn
  <2>2. /\ job'[t] = [pc |-> p, a |-> job[t].a, todo |-> Tail(job[t].todo), f |-> job[t].f]
        /\ \A u \in Threads \ {t} : job'[u] = job[u]
    BY <2>1, BecomesIs
  <2>3. job'[t].pc = p /\ job'[t].a = job[t].a
    BY <2>2
  <2>4. \A u \in Threads : Keeps(u)
    BY <2>2, <2>3 DEF Keeps, ChunkPcs, SetUpPcs
  <2>5. ask' = ask
    BY <1>2 DEF GoesOn
  <2>6. QED
    BY <1>1, <2>4, <2>5, ClientsKept
<1>3. CASE IsDone(t)
  <2>1. job'[t].pc = "loop" /\ \A u \in Threads \ {t} : job'[u] = job[u]
    BY <1>3, BecomesIs DEF IsDone, Idle
  <2>2. PICK a \in Askers : a = job[t].a
    BY JobOf
  <2>3. CASE ask' = ask
    BY <1>1, <2>1, <2>3, ClientsKept DEF Keeps
  <2>4. CASE ask' # ask
    <3>1. PICK p : p = IF LastOf(a) THEN "idle" ELSE "rest"
      OBVIOUS
    <3>2. ask[a].at # "gone" /\ ask' = [ask EXCEPT ![a].next = @ + 1, ![a].at = p]
      BY <1>3, <2>2, <2>4, <3>1 DEF IsDone
    <3>3. PICK q \in Question : q = ask[a]
      BY Types
    <3>4. PICK k : k = [q EXCEPT !.next = @ + 1]
      OBVIOUS
    <3>5. PICK r : r = [k EXCEPT !.at = p]
      OBVIOUS
    <3>6. /\ k.next = q.next + 1 /\ k.to = q.to /\ k.len = q.len /\ k.msg = q.msg /\ k.at = q.at
          /\ r.next = k.next /\ r.to = k.to /\ r.len = k.len /\ r.msg = k.msg /\ r.at = p
      BY <3>4, <3>5 DEF Question
    <3>7. ask'[a] = r /\ \A b \in Askers \ {a} : ask'[b] = ask[b]
      BY <3>2, <3>3, <3>4, <3>5, Types
    <3>8. HasChunk(a) /\ ask[a].at \in (IF t \in Workers THEN {"rest", "gone"} ELSE {"first"})
          /\ (t \notin Workers => t = Reader(a))
      BY <2>2 DEF ClientsInv
    <3>9. Present(a) /\ p \in {"idle", "rest"}
      BY <3>1, <3>2, <3>8 DEF Present
    <3>10. HasChunk(a)' \/ p # "rest"
      <4>1. q.next \in Nat /\ q.len \in Nat /\ q.len \in Lengths
        <5>1. q.len \in Lengths
          BY <3>3, <3>8 DEF HasChunk
        <5>2. q.next \in Nat
          BY DEF Question
        <5>3. QED
          BY <5>1, <5>2, Constants
      <4>2. p = "rest" => q.next < q.len
        BY <3>1, <3>3, <4>1 DEF LastOf
      <4>3. p = "rest" => r.next \in 1 .. r.len
        BY <3>6, <4>1, <4>2
      <4>4. QED
        BY <3>3, <3>6, <3>7, <3>8, <4>3 DEF HasChunk
    <3>11. \A b \in Askers : Present(b)' => Present(b)
      BY <3>7, <3>9 DEF Present
    <3>12. \A b \in Askers \ {a} : HasChunk(b) => HasChunk(b)'
      BY <3>7 DEF HasChunk
    <3>13. \A b \in Askers : ask'[b].at \in {"first", "rest"} => HasChunk(b)'
      BY <3>6, <3>7, <3>9, <3>10, <3>12 DEF ClientsInv
    <3>14. ASSUME NEW u \in Threads, job'[u].pc \in ChunkPcs
           PROVE  /\ HasChunk(job[u].a)'
                  /\ ask'[job'[u].a].at \in (IF u \in Workers THEN {"rest", "gone"} ELSE {"first"})
                  /\ u \notin Workers => u = Reader(job'[u].a)
      <4>1. u # t /\ job'[u] = job[u]
        BY <2>1, <3>14 DEF ChunkPcs, SetUpPcs
      <4>2. job[u].a \in Askers
        BY <3>14, <4>1, JobOf
      <4>3. job[u].a # a
        <5>1. ASSUME job[u].a = a PROVE FALSE
          <6>1. ask[a].at \in (IF u \in Workers THEN {"rest", "gone"} ELSE {"first"})
                /\ (u \notin Workers => u = Reader(a))
            BY <3>14, <4>1, <5>1 DEF ClientsInv
          <6>2. u \in Workers <=> t \in Workers
            BY <3>2, <3>8, <6>1
          <6>3. u \in Workers /\ t \in Workers
            BY <3>8, <4>1, <6>1, <6>2
          <6>4. job[u].pc # "loop" /\ job[t].pc # "loop"
            BY <3>14, <4>1 DEF ChunkPcs, SetUpPcs
          <6>5. QED
            BY <2>2, <4>1, <5>1, <6>3, <6>4 DEF ClientsInv
        <5>2. QED
          BY <5>1
      <4>4. QED
        BY <3>7, <3>12, <3>14, <4>1, <4>2, <4>3 DEF ClientsInv
    <3>15. \A v, w \in Workers : job'[v].pc # "loop" /\ job'[w].pc # "loop" /\ job'[v].a = job'[w].a => v = w
      BY <2>1, Constants DEF ClientsInv
    <3>16. job'["ipc"].pc \in {"leave", "drop", "remove"} => ask'[job'["ipc"].a].at = "gone"
      <4>1. "ipc" \in Threads
        BY Constants DEF Openers
      <4>2. job'["ipc"].pc \in {"leave", "drop", "remove"} => job'["ipc"] = job["ipc"] /\ job["ipc"].a \in Equips
        BY <2>1, <4>1, JobOf
      <4>3. job["ipc"].pc \in {"leave", "drop", "remove"} => ask[job["ipc"].a].at = "gone"
        BY DEF ClientsInv
      <4>4. QED
        BY <3>2, <3>7, <4>2, <4>3, Constants
    <3>17. \A b \in Askers : Present(b)' => fd'[b] \in Fds /\ open'[fd'[b]] = b
      BY <3>11 DEF ClientsInv
    <3>18. QED
      BY <3>13, <3>14, <3>15, <3>16, <3>17 DEF ClientsInv
  <2>5. QED
    BY <2>3, <2>4
<1>4. QED
  BY <1>2, <1>3

\* The clients after one of them has come, asked or left.
LEMMA ClientsMove ==
  ASSUME TypesInv, ClientsInv, NEW a \in Askers,
         Connect(a) \/ TesterLeaves(a) \/ EquipLeaves(a) \/ \E to \in Targets, len \in Lengths : Ask(a, to, len)
  PROVE  ClientsInv'
<1>1. None \notin Askers /\ "ipc" \in Threads /\ "ipc" \notin Workers
  BY Constants DEF Openers
<1>2. ASSUME NEW p \in {"idle", "gone"}, ask' = [ask EXCEPT ![a].at = p]
      PROVE  /\ ask'[a].at = p /\ \A b \in Askers \ {a} : ask'[b].at = ask[b].at
             /\ \A b \in Askers : HasChunk(b) => HasChunk(b)'
  <2>1. \A b \in Askers : /\ ask'[b].to = ask[b].to /\ ask'[b].msg = ask[b].msg
                          /\ ask'[b].next = ask[b].next /\ ask'[b].len = ask[b].len
                          /\ ask'[b].at = IF b = a THEN p ELSE ask[b].at
    BY <1>2, AtIs
  <2>2. QED
    BY <2>1 DEF HasChunk
<1>3. ASSUME NEW t \in Threads, job[t].pc \in ChunkPcs
      PROVE  job[t].a \in Askers /\ ask[job[t].a].at \in {"first", "rest", "gone"}
  BY <1>3, JobOf DEF ClientsInv
<1>4. CASE Connect(a)
  <2>1. PICK f \in Fds : open[f] = None /\ open' = [open EXCEPT ![f] = a] /\ fd' = [fd EXCEPT ![a] = f]
    BY <1>4, LowestIs DEF Connect
  <2>2. ask[a].at = "away" /\ ask' = [ask EXCEPT ![a].at = "idle"] /\ job' = job
    BY <1>4 DEF Connect
  <2>3. /\ ask'[a].at = "idle" /\ \A b \in Askers \ {a} : ask'[b].at = ask[b].at
        /\ \A b \in Askers : HasChunk(b) => HasChunk(b)'
    BY <1>2, <2>2
  <2>4. \A b \in Askers : Present(b)' => fd'[b] \in Fds /\ open'[fd'[b]] = b
    <3>1. fd'[a] = f /\ open'[f] = a /\ \A b \in Askers \ {a} : fd'[b] = fd[b]
      BY <2>1, Types
    <3>2. \A g \in Fds \ {f} : open'[g] = open[g]
      BY <2>1, Types
    <3>3. \A b \in Askers \ {a} : Present(b)' => fd[b] \in Fds \ {f} /\ open[fd[b]] = b
      BY <1>1, <2>1, <2>3 DEF Present, ClientsInv
    <3>4. QED
      BY <3>1, <3>2, <3>3
  <2>5. \A b \in Askers : ask'[b].at \in {"first", "rest"} => HasChunk(b)'
    BY <2>3 DEF ClientsInv
  <2>6. ASSUME NEW t \in Threads, job'[t].pc \in ChunkPcs
        PROVE  /\ HasChunk(job[t].a)'
               /\ ask'[job'[t].a].at \in (IF t \in Workers THEN {"rest", "gone"} ELSE {"first"})
               /\ t \notin Workers => t = Reader(job'[t].a)
    <3>1. job[t].a \in Askers \ {a}
      BY <1>3, <2>2, <2>6
    <3>2. QED
      BY <2>2, <2>3, <2>6, <3>1 DEF ClientsInv
  <2>7. job'["ipc"].pc \in {"leave", "drop", "remove"} => ask'[job'["ipc"].a].at = "gone"
    BY <1>1, <2>2, <2>3, JobOf, Constants DEF ClientsInv
  <2>8. QED
    BY <2>2, <2>4, <2>5, <2>6, <2>7 DEF ClientsInv
<1>5. CASE TesterLeaves(a) \/ EquipLeaves(a)
  <2>1. /\ Present(a) /\ open' = [open EXCEPT ![fd[a]] = None] /\ fd' = fd /\ ask' = [ask EXCEPT ![a].at = "gone"]
        /\ \A t \in Threads : job'[t].pc \in ChunkPcs \cup {"look", "direct", "store"} => job'[t] = job[t]
        /\ \A t \in Workers : job'[t] = job[t]
        /\ job'["ipc"].pc \in {"leave", "drop", "remove"} => job'["ipc"].a = a \/ job'["ipc"] = job["ipc"]
    <3>1. CASE TesterLeaves(a)
      BY <3>1 DEF TesterLeaves, Present
    <3>2. CASE EquipLeaves(a)
      <4>1. /\ Present(a) /\ open' = [open EXCEPT ![fd[a]] = None] /\ fd' = fd /\ ask' = [ask EXCEPT ![a].at = "gone"]
            /\ Becomes("ipc", [Idle EXCEPT !.pc = "leave", !.a = a])
        BY <3>2 DEF EquipLeaves, Present, Becomes
      <4>2. job'["ipc"] = [Idle EXCEPT !.pc = "leave", !.a = a] /\ \A t \in Threads \ {"ipc"} : job'[t] = job[t]
        BY <1>1, <4>1, BecomesIs
      <4>3. job'["ipc"].pc = "leave" /\ job'["ipc"].a = a
        BY <4>2 DEF Idle
      <4>4. QED
        BY <1>1, <4>1, <4>2, <4>3, Constants DEF ChunkPcs, SetUpPcs
    <3>3. QED
      BY <1>5, <3>1, <3>2
  <2>2. /\ ask'[a].at = "gone" /\ \A b \in Askers \ {a} : ask'[b].at = ask[b].at
        /\ \A b \in Askers : HasChunk(b) => HasChunk(b)'
    BY <1>2, <2>1
  <2>3. \A b \in Askers : Present(b)' => fd'[b] \in Fds /\ open'[fd'[b]] = b
    <3>1. fd[a] \in Fds /\ open[fd[a]] = a
      BY <2>1 DEF ClientsInv
    <3>2. \A g \in Fds \ {fd[a]} : open'[g] = open[g]
      BY <2>1, Types
    <3>3. \A b \in Askers : Present(b)' => b # a /\ fd[b] \in Fds \ {fd[a]} /\ open[fd[b]] = b
      BY <2>2, <3>1 DEF Present, ClientsInv
    <3>4. QED
      BY <2>1, <3>2, <3>3
  <2>4. \A b \in Askers : ask'[b].at \in {"first", "rest"} => HasChunk(b)'
    BY <2>2 DEF ClientsInv
  <2>5. ASSUME NEW t \in Threads, job'[t].pc \in ChunkPcs
        PROVE  /\ HasChunk(job[t].a)'
               /\ ask'[job'[t].a].at \in (IF t \in Workers THEN {"rest", "gone"} ELSE {"first"})
               /\ t \notin Workers => t = Reader(job'[t].a)
    <3>1. job'[t] = job[t]
      BY <2>1, <2>5
    <3>2. job[t].a \in Askers
      BY <1>3, <2>5, <3>1
    <3>3. t \notin Workers => job[t].a # a
      <4>1. t \notin Workers => t = Reader(job[t].a)
        BY <2>5, <3>1 DEF ClientsInv
      <4>2. job[Reader(a)].pc = "loop"
        BY <1>5, Constants DEF TesterLeaves, EquipLeaves, Reader, Idle
      <4>3. QED
        BY <2>5, <3>1, <4>1, <4>2 DEF ChunkPcs, SetUpPcs
    <3>4. QED
      BY <2>2, <2>5, <3>1, <3>2, <3>3 DEF ClientsInv
  <2>6. job'["ipc"].pc \in {"leave", "drop", "remove"} => ask'[job'["ipc"].a].at = "gone"
    BY <1>1, <2>1, <2>2, JobOf, Constants DEF ClientsInv
  <2>7. QED
    BY <2>1, <2>3, <2>4, <2>5, <2>6 DEF ClientsInv
<1>6. ASSUME NEW to \in Targets, NEW len \in Lengths, Ask(a, to, len) PROVE ClientsInv'
  <2>1. PICK q : q = [at |-> "first", to |-> to, msg |-> asked + 1, next |-> 1, len |-> len]
    OBVIOUS
  <2>2. /\ ask[a].at = "idle" /\ asked < MaxAsked /\ ask' = [ask EXCEPT ![a] = q]
        /\ UNCHANGED <<open, fd, job>>
    BY <1>6, <2>1 DEF Ask, sockets
  <2>3. ask'[a] = q /\ \A b \in Askers \ {a} : ask'[b] = ask[b]
    BY <2>2, Types
  <2>4. HasChunk(a)'
    <3>1. q.to \in Targets /\ q.msg = asked + 1 /\ q.len \in Lengths /\ q.next = 1 /\ q.len = len
      BY <2>1
    <3>2. asked + 1 \in 1 .. MaxAsked /\ 1 \in 1 .. len
      BY <2>2, Types, Constants
    <3>3. QED
      BY <2>3, <3>1, <3>2 DEF HasChunk
  <2>5. \A b \in Askers \ {a} : HasChunk(b) => HasChunk(b)'
    BY <2>3 DEF HasChunk
  <2>6. \A b \in Askers : Present(b)' => fd'[b] \in Fds /\ open'[fd'[b]] = b
    <3>1. \A b \in Askers : Present(b)' => Present(b)
      BY <2>2, <2>3 DEF Present
    <3>2. QED
      BY <2>2, <3>1 DEF ClientsInv
  <2>7. \A b \in Askers : ask'[b].at \in {"first", "rest"} => HasChunk(b)'
    BY <2>3, <2>4, <2>5 DEF ClientsInv
  <2>8. ASSUME NEW t \in Threads, job'[t].pc \in ChunkPcs
        PROVE  /\ HasChunk(job[t].a)'
               /\ ask'[job'[t].a].at \in (IF t \in Workers THEN {"rest", "gone"} ELSE {"first"})
               /\ t \notin Workers => t = Reader(job'[t].a)
    <3>1. job[t].a \in Askers \ {a}
      BY <1>3, <2>2, <2>8
    <3>2. QED
      BY <2>2, <2>3, <2>5, <2>8, <3>1 DEF ClientsInv
  <2>9. job'["ipc"].pc \in {"leave", "drop", "remove"} => ask'[job'["ipc"].a].at = "gone"
    BY <1>1, <2>2, <2>3, JobOf, Constants DEF ClientsInv
  <2>10. QED
    BY <2>2, <2>6, <2>7, <2>8, <2>9 DEF ClientsInv
<1>7. QED
  BY <1>4, <1>5, <1>6

\* Every step keeps the clients.
LEMMA ClientsStep ==
  ASSUME TypesInv, ClientsInv, SocketsInv, Next
  PROVE  ClientsInv'
<1>1. ASSUME NEW a \in Askers, NEW t \in Threads, (First(a) /\ t = Reader(a)) \/ (t \in Workers /\ Later(t, a))
      PROVE  ClientsInv'
  <2>1. /\ Starts(t, a) /\ job[t].pc = "loop" /\ HasChunk(a)
        /\ ask[a].at = (IF t \in Workers THEN "rest" ELSE "first")
        /\ t \in Workers => \A v \in Workers : job[v].a # a
        /\ UNCHANGED <<open, fd, ask>>
    BY <1>1, StartsIs
  <2>2. PICK todo \in Seq(Nodes), p \in {"look", "other"} : Becomes(t, [pc |-> p, a |-> a, todo |-> todo, f |-> 0])
    BY <2>1 DEF Starts
  <2>3. /\ job'[t] = [pc |-> p, a |-> a, todo |-> todo, f |-> 0]
        /\ \A u \in Threads \ {t} : job'[u] = job[u]
    BY <2>2, BecomesIs
  <2>4. job'[t].pc = p /\ job'[t].a = a
    BY <2>3
  <2>5. \A b \in Askers : Present(b)' => fd'[b] \in Fds /\ open'[fd'[b]] = b
    BY <2>1 DEF ClientsInv, Present
  <2>6. \A b \in Askers : HasChunk(b) => HasChunk(b)'
    BY <2>1 DEF HasChunk
  <2>7. ASSUME NEW u \in Threads, job'[u].pc \in ChunkPcs
        PROVE  /\ HasChunk(job[u].a)'
               /\ ask'[job'[u].a].at \in (IF u \in Workers THEN {"rest", "gone"} ELSE {"first"})
               /\ u \notin Workers => u = Reader(job'[u].a)
    <3>1. CASE u = t
      <4>1. t \notin Workers => t = Reader(a)
        BY <1>1
      <4>2. HasChunk(job[u].a)'
        BY <2>1, <2>4, <3>1 DEF HasChunk
      <4>3. QED
        BY <2>1, <2>4, <3>1, <4>1, <4>2
    <3>2. CASE u # t
      <4>1. job'[u] = job[u] /\ job[u].a \in Askers
        BY <2>3, <2>7, <3>2, JobOf
      <4>2. QED
        BY <2>1, <2>6, <2>7, <4>1 DEF ClientsInv
    <3>3. QED
      BY <3>1, <3>2
  <2>8. \A v, w \in Workers : job'[v].pc # "loop" /\ job'[w].pc # "loop" /\ job'[v].a = job'[w].a => v = w
    <3>1. Workers \subseteq Threads
      BY Constants
    <3>2. QED
      BY <2>1, <2>3, <2>4, <3>1 DEF ClientsInv
  <2>9. job'["ipc"].pc \in {"leave", "drop", "remove"} => ask'[job'["ipc"].a].at = "gone"
    BY <2>1, <2>3, <2>4, Constants DEF ClientsInv, Openers
  <2>10. QED
    BY <2>1, <2>5, <2>6, <2>7, <2>8, <2>9 DEF ClientsInv
<1>2. ASSUME NEW t \in Threads, Finishes(t) \/ Writes(t) PROVE ClientsInv'
  <2>1. job[t].pc \in ChunkPcs /\ (GoesOn(t) \/ IsDone(t)) /\ UNCHANGED <<open, fd>>
    BY <1>2 DEF Finishes, Writes, ChunkPcs, SetUpPcs
  <2>2. QED
    BY <2>1, ClientsNext
<1>3. QED
  BY Kinds, <1>1, <1>2, ClientsMove, ClientsRest

-----------------------------------------------------------------------------
\* Thread t stays at work, or stays without.
StaysBusy(t) ==
    /\ job[t].pc \in ChunkPcs \cup {"crashed"} => job'[t].pc \in ChunkPcs \cup {"crashed"}
    /\ t = "ipc" => (job[t].pc \in {"drop", "remove"} <=> job'[t].pc \in {"drop", "remove"})

\* The locks after a step that leaves them alone and sends none of their holders to rest.
LEMMA LocksKept ==
  ASSUME TypesInv, LocksInv, UNCHANGED <<lockI, lockE>>, \A t \in Threads : StaysBusy(t)
  PROVE  LocksInv'
<1>1. "net" \in Threads /\ "ipc" \in Threads
  BY Constants DEF Openers
<1>2. lockI' = "net" => job'["net"].pc \in ChunkPcs \cup {"crashed"}
  BY <1>1 DEF LocksInv, StaysBusy
<1>3. lockE' # None => job'[lockE'].pc \in ChunkPcs \cup {"drop", "remove", "crashed"}
  <2>1. CASE lockE \in Workers
    <3>1. lockE \in Threads /\ lockE # None
      BY <2>1, Constants
    <3>2. job[lockE].pc \in ChunkPcs \cup {"crashed"}
      <4>1. job[lockE].pc \in {"loop", "look", "direct", "store"}
        BY <2>1, <3>1, JobOf
      <4>2. job[lockE].pc \in ChunkPcs \cup {"drop", "remove", "crashed"}
        BY <3>1 DEF LocksInv
      <4>3. QED
        BY <4>1, <4>2
    <3>3. QED
      BY <3>1, <3>2 DEF StaysBusy
  <2>2. CASE lockE = "ipc"
    BY <1>1, <2>2 DEF LocksInv, StaysBusy
  <2>3. QED
    BY <2>1, <2>2, Types
<1>4. job'["ipc"].pc \in {"drop", "remove"} => lockE' = "ipc"
  BY <1>1 DEF LocksInv, StaysBusy
<1>5. QED
  BY <1>2, <1>3, <1>4 DEF LocksInv

\* Every step keeps the locks.
LEMMA LocksStep ==
  ASSUME TypesInv, ClientsInv, LocksInv, Next
  PROVE  LocksInv'
<1>1. "net" \in Threads /\ "ipc" \in Threads /\ None \notin Threads /\ Threads = Openers \cup Workers
      /\ "net" \notin Workers /\ "ipc" \notin Workers
  BY Constants DEF Openers
<1>2. lockI \in {None, "net"} /\ lockE \in {None, "ipc"} \cup Workers
  BY Types
<1>3. ASSUME NEW t \in Threads, NEW pc \in ChunkPcs \cup {"crashed"}, NEW a, NEW todo, NEW f, UNCHANGED <<lockI, lockE>>,
             Becomes(t, [pc |-> pc, a |-> a, todo |-> todo, f |-> f]), job[t].pc \in ChunkPcs \cup {"loop"}
      PROVE  LocksInv'
  <2>1. /\ job'[t] = [pc |-> pc, a |-> a, todo |-> todo, f |-> f] /\ \A u \in Threads \ {t} : job'[u] = job[u]
    BY <1>3, BecomesIs
  <2>2. job'[t].pc = pc
    BY <2>1
  <2>3. \A u \in Threads : StaysBusy(u)
    BY <1>3, <2>1, <2>2 DEF StaysBusy, ChunkPcs, SetUpPcs
  <2>4. QED
    BY <1>3, <2>3, LocksKept
<1>4. ASSUME NEW a \in Askers, Connect(a) \/ TesterLeaves(a) \/ EquipLeaves(a) \/ \E to \in Targets, len \in Lengths : Ask(a, to, len)
      PROVE  LocksInv'
  <2>1. CASE job' = job
    <3>1. UNCHANGED <<lockI, lockE>>
      BY <1>4 DEF Connect, TesterLeaves, EquipLeaves, Ask
    <3>2. QED
      BY <2>1, <3>1, LocksKept DEF StaysBusy
  <2>2. CASE EquipLeaves(a)
    <3>1. UNCHANGED <<lockI, lockE>> /\ job["ipc"] = Idle /\ Becomes("ipc", [Idle EXCEPT !.pc = "leave", !.a = a])
      BY <2>2 DEF EquipLeaves, Becomes
    <3>2. job'["ipc"] = [Idle EXCEPT !.pc = "leave", !.a = a] /\ \A u \in Threads \ {"ipc"} : job'[u] = job[u]
      BY <1>1, <3>1, BecomesIs
    <3>3. job'["ipc"].pc = "leave" /\ job["ipc"].pc = "loop"
      BY <3>1, <3>2 DEF Idle
    <3>4. \A u \in Threads : StaysBusy(u)
      BY <3>2, <3>3 DEF StaysBusy, ChunkPcs, SetUpPcs
    <3>5. QED
      BY <3>1, <3>4, LocksKept
  <2>3. QED
    BY <1>4, <2>1, <2>2 DEF Connect, TesterLeaves, Ask
<1>5. ASSUME NEW a \in Askers, NEW t \in Threads, (First(a) /\ t = Reader(a)) \/ (t \in Workers /\ Later(t, a))
      PROVE  LocksInv'
  <2>1. /\ Starts(t, a) /\ job[t].pc = "loop" /\ lockI' \in {lockI, t} \cap {None, "net"}
        /\ lockE' \in {lockE, t}
    BY <1>5, StartsIs
  <2>2. PICK todo \in Seq(Nodes), p \in {"look", "other"} : Becomes(t, [pc |-> p, a |-> a, todo |-> todo, f |-> 0])
    BY <2>1 DEF Starts
  <2>3. /\ job'[t] = [pc |-> p, a |-> a, todo |-> todo, f |-> 0] /\ \A u \in Threads \ {t} : job'[u] = job[u]
    BY <2>2, BecomesIs
  <2>4. job'[t].pc = p
    BY <2>3
  <2>5. QED
    BY <1>1, <1>2, <2>1, <2>3, <2>4 DEF LocksInv, ChunkPcs, SetUpPcs
<1>6. ASSUME NEW t \in Threads, Finishes(t) \/ Writes(t) PROVE LocksInv'
  <2>1. job[t].pc \in ChunkPcs \ {"drop", "remove"} /\ (GoesOn(t) \/ IsDone(t))
    BY <1>6 DEF Finishes, Writes, ChunkPcs, SetUpPcs
  <2>2. CASE GoesOn(t)
    <3>1. PICK p \in {"look", "other"} : /\ Becomes(t, [pc |-> p, a |-> job[t].a, todo |-> Tail(job[t].todo), f |-> job[t].f])
                                         /\ UNCHANGED <<lockI, lockE>>
      BY <2>2 DEF GoesOn
    <3>2. p \in ChunkPcs \cup {"crashed"}
      BY DEF ChunkPcs
    <3>3. QED
      BY <1>3, <2>1, <3>1, <3>2
  <2>3. CASE IsDone(t)
    <3>1. /\ job'[t].pc = "loop" /\ \A u \in Threads \ {t} : job'[u] = job[u]
          /\ lockI' = Released(lockI, t) /\ lockE' = Released(lockE, t)
      BY <2>3, BecomesIs DEF IsDone, Idle
    <3>2. lockI' = (IF lockI = t THEN None ELSE lockI) /\ lockE' = (IF lockE = t THEN None ELSE lockE)
      BY <3>1 DEF Released
    <3>3. lockI' = "net" => job'["net"].pc \in ChunkPcs \cup {"crashed"}
      BY <1>1, <1>2, <3>1, <3>2 DEF LocksInv
    <3>4. lockE' # None => job'[lockE'].pc \in ChunkPcs \cup {"drop", "remove", "crashed"}
      BY <1>1, <1>2, <3>1, <3>2 DEF LocksInv
    <3>5. job'["ipc"].pc \in {"drop", "remove"} => lockE' = "ipc"
      BY <1>1, <1>2, <3>1, <3>2 DEF LocksInv
    <3>6. QED
      BY <3>3, <3>4, <3>5 DEF LocksInv
  <2>4. QED
    BY <2>1, <2>2, <2>3
<1>7. ASSUME NEW t \in Threads, Decides(t) PROVE LocksInv'
  <2>1. job[t].pc \in {"other", "look"} /\ UNCHANGED <<lockI, lockE>>
    BY <1>7 DEF Decides
  <2>2. \E pc \in {"send", "cache", "direct", "store"} : \E f : Moves(t, pc, f)
    <3>1. CASE \E f \in Fds : Moves(t, "send", f)
      BY <3>1
    <3>2. CASE Moves(t, "cache", job[t].f)
      BY <3>2
    <3>3. CASE \E f \in Fds : \E pc \in {"direct", "store"} : Moves(t, pc, f)
      BY <3>3
    <3>4. QED
      BY <1>7, <3>1, <3>2, <3>3 DEF Decides
  <2>3. PICK pc, f : pc \in {"send", "cache", "direct", "store"} /\ Moves(t, pc, f)
    BY <2>2
  <2>4. pc \in ChunkPcs \cup {"crashed"} /\ job[t].pc \in ChunkPcs \cup {"loop"}
    BY <2>1, <2>3 DEF ChunkPcs
  <2>5. QED
    BY <1>3, <2>1, <2>3, <2>4 DEF Moves
<1>8. ASSUME NEW t \in Threads, Cache(t) \/ List(t) \/ SetRoute(t) \/ AddEntry(t) \/ Fill(t) PROVE LocksInv'
  <2>1. /\ job[t].pc \in {"cache", "list", "route", "add", "fill"} /\ UNCHANGED <<lockI, lockE>>
        /\ \E pc \in {"list", "route", "add", "fill", "activate", "crashed"} : \E f : Moves(t, pc, f)
    BY <1>8, CacheIs, ListIs, SetRouteIs, AddIs, FillIs
  <2>2. PICK pc, f : pc \in {"list", "route", "add", "fill", "activate", "crashed"} /\ Moves(t, pc, f)
    BY <2>1
  <2>3. pc \in ChunkPcs \cup {"crashed"} /\ job[t].pc \in ChunkPcs \cup {"loop"}
    BY <2>1, <2>2 DEF ChunkPcs, SetUpPcs
  <2>4. QED
    BY <1>3, <2>1, <2>2, <2>3 DEF Moves
<1>9. ASSUME NEW t \in Threads, RemoveEntry(t) PROVE LocksInv'
  <2>1. /\ t \in Openers /\ job[t].pc = "remove" /\ UNCHANGED <<lockI, lockE>>
        /\ t = "ipc" => Moves(t, "drop", job[t].f)
        /\ t = "net" => Becomes(t, Idle)
    BY <1>9, RemoveIs
  <2>2. CASE t = "ipc"
    <3>1. /\ job'[t] = [pc |-> "drop", a |-> job[t].a, todo |-> job[t].todo, f |-> job[t].f]
          /\ \A u \in Threads \ {t} : job'[u] = job[u]
      BY <2>1, <2>2, BecomesIs DEF Moves
    <3>2. job'[t].pc = "drop"
      BY <3>1
    <3>3. \A u \in Threads : StaysBusy(u)
      BY <2>1, <2>2, <3>1, <3>2 DEF StaysBusy, ChunkPcs, SetUpPcs
    <3>4. QED
      BY <2>1, <3>3, LocksKept
  <2>3. CASE t = "net"
    <3>1. \A u \in Threads \ {t} : job'[u] = job[u]
      BY <2>1, <2>3, BecomesIs
    <3>2. \A u \in Threads : StaysBusy(u)
      BY <2>1, <2>3, <3>1 DEF StaysBusy, ChunkPcs, SetUpPcs
    <3>3. QED
      BY <2>1, <3>2, LocksKept
  <2>4. QED
    BY <2>1, <2>2, <2>3 DEF Openers
<1>10. CASE Leave
  <2>1. /\ lockE' = "ipc" /\ lockI' = lockI
        /\ Becomes("ipc", [pc |-> "drop", a |-> job["ipc"].a, f |-> job["ipc"].f,
                           todo |-> [i \in SourceOf(job["ipc"].a) |-> table[i].fd]])
    BY <1>10, LeaveIs DEF Leave
  <2>2. PICK r : r = [pc |-> "drop", a |-> job["ipc"].a, f |-> job["ipc"].f,
                      todo |-> [i \in SourceOf(job["ipc"].a) |-> table[i].fd]]
    OBVIOUS
  <2>3. job'["ipc"] = r /\ \A u \in Threads \ {"ipc"} : job'[u] = job[u]
    BY <1>1, <2>1, <2>2, BecomesIs
  <2>4. job'["ipc"].pc = "drop"
    BY <2>2, <2>3
  <2>5. QED
    BY <1>1, <2>1, <2>3, <2>4 DEF LocksInv
<1>11. CASE Drop
  <2>1. /\ job["ipc"].pc = "drop" /\ lockI' = lockI
        /\ DropEnds \/ \E p \in DOMAIN job["ipc"].todo : DropSkips(p) \/ DropCloses(p)
    BY <1>11, DropIs
  <2>2. CASE DropEnds
    <3>1. lockE' = None /\ job'["ipc"].pc = "loop" /\ \A u \in Threads \ {"ipc"} : job'[u] = job[u]
      BY <1>1, <2>2, BecomesIs DEF DropEnds, Idle
    <3>2. QED
      BY <1>1, <2>1, <3>1 DEF LocksInv
  <2>3. ASSUME NEW p, DropSkips(p) \/ DropCloses(p) PROVE LocksInv'
    <3>1. PICK pc, f : /\ pc \in {"drop", "remove"} /\ lockE' = lockE
                        /\ Becomes("ipc", [pc |-> pc, a |-> job["ipc"].a, todo |-> Rest(p), f |-> f])
      BY <2>3 DEF DropSkips, DropCloses
    <3>2. /\ job'["ipc"] = [pc |-> pc, a |-> job["ipc"].a, todo |-> Rest(p), f |-> f]
          /\ \A u \in Threads \ {"ipc"} : job'[u] = job[u]
      BY <1>1, <3>1, BecomesIs
    <3>3. job'["ipc"].pc = pc
      BY <3>2
    <3>4. \A u \in Threads : StaysBusy(u)
      BY <2>1, <3>1, <3>2, <3>3 DEF StaysBusy, ChunkPcs, SetUpPcs
    <3>5. QED
      BY <2>1, <3>1, <3>4, LocksKept
  <2>4. QED
    BY <2>1, <2>2, <2>3
<1>12. ASSUME NEW f \in Fds, Reads(f) \/ Hang(f) PROVE LocksInv'
  BY <1>12, LocksKept DEF Reads, Hang, StaysBusy
<1>13. ASSUME NEW f \in Fds, NullQueue(f) PROVE LocksInv'
  <2>1. Moves("net", "crashed", 0) /\ UNCHANGED <<lockI, lockE>> /\ job["net"].pc = "loop"
    BY <1>13 DEF NullQueue, Idle
  <2>2. QED
    BY <1>1, <1>3, <2>1 DEF Moves
<1>14. ASSUME NEW f \in Fds, CloseTest(f) PROVE LocksInv'
  <2>1. UNCHANGED <<lockI, lockE>> /\ job["net"].pc = "loop"
    BY <1>14 DEF CloseTest, Idle
  <2>2. \A u \in Threads \ {"net"} : job'[u] = job[u]
    BY <1>1, <1>14, CloseIs, BecomesIs
  <2>3. \A u \in Threads : StaysBusy(u)
    BY <2>1, <2>2 DEF StaysBusy, ChunkPcs, SetUpPcs
  <2>4. QED
    BY <2>1, <2>3, LocksKept
<1>15. QED
  BY Kinds, <1>4, <1>5, <1>6, <1>7, <1>8, <1>9, <1>10, <1>11, <1>12, <1>13, <1>14

-----------------------------------------------------------------------------
\* Thread t is about to open a connection to a node without one, and is alone.
Opens(t) ==
    /\ Head(job'[t].todo) = Node(t) /\ route[Node(t)] = 0
    /\ Making(Node(t)) # {} => "twice" \in flaws'[Node(t)]
    /\ \A u \in Openers \ {t} : job'[u] = job[u]

\* Thread t stays where it sets a connection up or takes one out of the table, or it is not
\* there before and after, but for a request for activation that it has written.
Quiet(t) ==
    \/ job'[t] = job[t]
    \/ /\ job[t].pc \notin (SetUpPcs \ {"activate"}) \cup {"remove"}
       /\ job'[t].pc \notin SetUpPcs \cup {"cache", "remove", "crashed"}
    \/ job[t].pc = "other" /\ job'[t].pc = "cache" /\ Opens(t)

\* A step in which no connection is opened, listed, routed, put into the table or closed.
Rests ==
    /\ UNCHANGED <<listed, route>> /\ SameEntries /\ Worse /\ NoCut
    /\ \A f \in Fds : open'[f] = open[f] \/ (open[f] \notin Nodes /\ open'[f] \notin Nodes)
    /\ \A f \in Fds : inbox'[f] = inbox[f] \/ (open[f] \in Nodes /\ f \notin hung') \/ inbox'[f] = <<>>
    /\ hung' \subseteq Fds /\ \A f \in hung' \ hung : open[f] \in Nodes /\ inbox'[f] = <<>>
    /\ \A t \in Openers : Quiet(t)

\* Thread t is at another place, with the nodes it had; the others are where they were.
LEMMA MovedIs ==
  ASSUME TypesInv, NEW t \in Openers, NEW pc, NEW f, Moves(t, pc, f)
  PROVE  /\ job'[t].pc = pc /\ job'[t].f = f /\ job'[t].a = job[t].a /\ Head(job'[t].todo) = Node(t)
         /\ \A u \in Threads \ {t} : job'[u] = job[u]
         /\ \A u \in Openers \ {t} : job'[u] = job[u] /\ Head(job'[u].todo) = Node(u)
<1>1. t \in Threads /\ Openers \subseteq Threads
  BY Constants
<1>2. job'[t] = [pc |-> pc, a |-> job[t].a, todo |-> job[t].todo, f |-> f] /\ \A u \in Threads \ {t} : job'[u] = job[u]
  BY <1>1, BecomesIs DEF Moves
<1>3. job'[t].pc = pc /\ job'[t].f = f /\ job'[t].a = job[t].a /\ job'[t].todo = job[t].todo
  BY <1>2
<1>4. QED
  BY <1>1, <1>2, <1>3 DEF Node

\* All the threads are quiet if the one that moves is.
LEMMA QuietIs ==
  ASSUME TypesInv, NEW t \in Threads, NEW r, Becomes(t, r),
         job[t].pc \notin (SetUpPcs \ {"activate"}) \cup {"remove"},
         r.pc \notin SetUpPcs \cup {"cache", "remove", "crashed"}
  PROVE  \A u \in Openers : Quiet(u)
<1>1. job'[t] = r /\ \A u \in Threads \ {t} : job'[u] = job[u]
  BY BecomesIs
<1>2. Openers \subseteq Threads
  BY Constants
<1>3. QED
  BY <1>1, <1>2 DEF Quiet

\* A thread that goes on or is done is quiet.
LEMMA QuietNext ==
  ASSUME TypesInv, NEW t \in Threads, GoesOn(t) \/ IsDone(t),
         job[t].pc \notin (SetUpPcs \ {"activate"}) \cup {"remove"}
  PROVE  \A u \in Openers : Quiet(u)
<1>1. CASE GoesOn(t)
  <2>1. PICK p : p = IF t \in Workers THEN "look" ELSE "other"
    OBVIOUS
  <2>2. PICK r : r = [pc |-> p, a |-> job[t].a, todo |-> Tail(job[t].todo), f |-> job[t].f]
    OBVIOUS
  <2>3. Becomes(t, r)
    BY <1>1, <2>1, <2>2 DEF GoesOn
  <2>4. r.pc = p /\ p \in {"look", "other"}
    BY <2>1, <2>2
  <2>5. QED
    BY <2>3, <2>4, QuietIs DEF SetUpPcs
<1>2. CASE IsDone(t)
  <2>1. Becomes(t, Idle) /\ Idle.pc = "loop"
    BY <1>2 DEF IsDone, Idle
  <2>2. QED
    BY <2>1, QuietIs DEF SetUpPcs
<1>3. QED
  BY <1>1, <1>2

\* A thread that takes a place outside of the setup of connections is quiet.
LEMMA QuietMove ==
  ASSUME TypesInv, NEW t \in Threads, NEW pc, NEW a, NEW todo, NEW f,
         Becomes(t, [pc |-> pc, a |-> a, todo |-> todo, f |-> f]),
         job[t].pc \notin (SetUpPcs \ {"activate"}) \cup {"remove"},
         pc \notin SetUpPcs \cup {"cache", "remove", "crashed"}
  PROVE  \A u \in Openers : Quiet(u)
<1>1. PICK r : r = [pc |-> pc, a |-> a, todo |-> todo, f |-> f]
  OBVIOUS
<1>2. r.pc = pc
  BY <1>1
<1>3. QED
  BY <1>1, <1>2, QuietIs

\* The steps of the clients are such steps.
LEMMA ClientRests ==
  ASSUME TypesInv, ClientsInv, NEW a \in Askers,
         Connect(a) \/ TesterLeaves(a) \/ EquipLeaves(a) \/ \E to \in Targets, len \in Lengths : Ask(a, to, len)
  PROVE  Rests
<1>1. UNCHANGED <<listed, hung, inbox, route, table, got, flaws>>
  BY DEF Connect, TesterLeaves, EquipLeaves, Ask, history, sockets
<1>2. SameEntries /\ Worse /\ NoCut
  BY <1>1, TableUnchanged, AccountKept DEF account, AccountIs
<1>3. \A f \in Fds : open'[f] = open[f] \/ (open[f] \notin Nodes /\ open'[f] \notin Nodes)
  <2>1. Askers \cap Nodes = {} /\ None \notin Nodes
    BY Constants
  <2>2. ASSUME NEW f \in Fds, open[f] \notin Nodes, NEW x, x \notin Nodes, open' = [open EXCEPT ![f] = x]
        PROVE  \A g \in Fds : open'[g] = open[g] \/ (open[g] \notin Nodes /\ open'[g] \notin Nodes)
    BY <2>2, Types
  <2>3. CASE Connect(a)
    <3>1. FreeFds # {} /\ open' = [open EXCEPT ![LowestFree] = a]
      BY <2>3 DEF Connect
    <3>2. LowestFree \in Fds /\ open[LowestFree] = None
      BY <3>1, LowestIs
    <3>3. QED
      BY <2>1, <2>2, <3>1, <3>2
  <2>4. CASE TesterLeaves(a) \/ EquipLeaves(a)
    <3>1. Present(a) /\ open' = [open EXCEPT ![fd[a]] = None]
      BY <2>4 DEF TesterLeaves, EquipLeaves, Present
    <3>2. fd[a] \in Fds /\ open[fd[a]] = a
      BY <3>1 DEF ClientsInv
    <3>3. QED
      BY <2>1, <2>2, <3>1, <3>2
  <2>5. CASE \E to \in Targets, len \in Lengths : Ask(a, to, len)
    BY <2>5 DEF Ask, sockets
  <2>6. QED
    BY <2>3, <2>4, <2>5
<1>4. \A t \in Openers : Quiet(t)
  <2>1. CASE job' = job
    BY <2>1 DEF Quiet
  <2>2. CASE EquipLeaves(a)
    <3>1. "ipc" \in Threads /\ job["ipc"].pc = "loop"
      BY <2>2, Constants DEF EquipLeaves, Idle, Openers
    <3>2. PICK r : r = [Idle EXCEPT !.pc = "leave", !.a = a]
      OBVIOUS
    <3>3. Becomes("ipc", r) /\ r.pc = "leave"
      BY <2>2, <3>2 DEF EquipLeaves, Becomes, Idle
    <3>4. QED
      BY <3>1, <3>3, QuietIs DEF SetUpPcs
  <2>3. QED
    BY <2>1, <2>2 DEF Connect, TesterLeaves, Ask
<1>5. hung' \subseteq Fds
  BY <1>1, Types
<1>6. QED
  BY <1>1, <1>2, <1>3, <1>4, <1>5 DEF Rests

\* So are those in which a chunk begins, is decided on or ends, and those of leaving equipment
\* but for the closing of a connection.
LEMMA ChunkRests ==
  ASSUME TypesInv, ClientsInv,
         \/ \E a \in Askers, t \in Threads : (First(a) /\ t = Reader(a)) \/ (t \in Workers /\ Later(t, a))
         \/ \E t \in Threads : Decides(t) \/ Finishes(t)
         \/ Leave \/ (Drop /\ ~\E p \in DOMAIN job["ipc"].todo : DropCloses(p))
  PROVE  Rests
<1>1. ASSUME UNCHANGED <<open, listed, hung, inbox, route>>, SameEntries, Worse, NoCut, \A t \in Openers : Quiet(t)
      PROVE  Rests
  BY <1>1, Types DEF Rests
<1>2. ASSUME UNCHANGED <<table, got, flaws>> PROVE SameEntries /\ Worse /\ NoCut
  BY <1>2, TableUnchanged, AccountKept DEF account, AccountIs
<1>3. ASSUME NEW a \in Askers, NEW t \in Threads, (First(a) /\ t = Reader(a)) \/ (t \in Workers /\ Later(t, a))
      PROVE  Rests
  <2>1. /\ Starts(t, a) /\ job[t].pc = "loop"
        /\ UNCHANGED <<open, listed, hung, inbox, route, table, got, flaws>>
    BY <1>3, StartsIs
  <2>2. PICK todo \in Seq(Nodes), p \in {"look", "other"} : Becomes(t, [pc |-> p, a |-> a, todo |-> todo, f |-> 0])
    BY <2>1 DEF Starts
  <2>3. p \notin SetUpPcs \cup {"cache", "remove", "crashed"} /\ job[t].pc \notin (SetUpPcs \ {"activate"}) \cup {"remove"}
    BY <2>1 DEF SetUpPcs
  <2>4. \A u \in Openers : Quiet(u)
    BY <2>2, <2>3, QuietMove
  <2>5. QED
    BY <1>1, <1>2, <2>1, <2>4
<1>4. ASSUME NEW t \in Threads, Decides(t) PROVE Rests
  <2>1. job[t].pc \in {"other", "look"} /\ job[t].pc \notin (SetUpPcs \ {"activate"}) \cup {"remove"}
    BY <1>4 DEF Decides, SetUpPcs
  <2>2. ASSUME \E f \in Fds : Moves(t, "send", f) PROVE \A u \in Openers : Quiet(u)
    <3>1. PICK r : Becomes(t, r) /\ r.pc = "send"
      BY <2>2 DEF Moves
    <3>2. r.pc \notin SetUpPcs \cup {"cache", "remove", "crashed"}
      BY <3>1 DEF SetUpPcs
    <3>3. QED
      BY <2>1, <3>1, <3>2, QuietIs
  <2>3. ASSUME \E f \in Fds : \E pc \in {"direct", "store"} : Moves(t, pc, f) PROVE \A u \in Openers : Quiet(u)
    <3>1. PICK r : Becomes(t, r) /\ r.pc \in {"direct", "store"}
      BY <2>3 DEF Moves
    <3>2. r.pc \notin SetUpPcs \cup {"cache", "remove", "crashed"}
      BY <3>1 DEF SetUpPcs
    <3>3. QED
      BY <2>1, <3>1, <3>2, QuietIs
  <2>4. Decides(t) => \/ \E f \in Fds : Moves(t, "send", f)
                      \/ \E f \in Fds : \E pc \in {"direct", "store"} : Moves(t, pc, f)
                      \/ /\ job[t].pc = "other" /\ Moves(t, "cache", job[t].f) /\ route[Node(t)] = 0
                         /\ Making(Node(t)) # {} => "twice" \in flaws'[Node(t)]
    BY DEF Decides
  <2>5. ASSUME job[t].pc = "other", Moves(t, "cache", job[t].f), route[Node(t)] = 0,
               Making(Node(t)) # {} => "twice" \in flaws'[Node(t)]
        PROVE  \A u \in Openers : Quiet(u)
    <3>1. t \in Openers
      BY <2>5, JobOf
    <3>2. /\ job'[t].pc = "cache" /\ Head(job'[t].todo) = Node(t)
          /\ \A u \in Openers \ {t} : job'[u] = job[u]
      BY <2>5, <3>1, MovedIs
    <3>3. QED
      BY <2>5, <3>2 DEF Quiet, Opens
  <2>6. \A u \in Openers : Quiet(u)
    <3>1. CASE job[t].pc = "other" /\ Moves(t, "cache", job[t].f) /\ route[Node(t)] = 0
               /\ (Making(Node(t)) # {} => "twice" \in flaws'[Node(t)])
      BY <2>5, <3>1
    <3>2. QED
      BY <1>4, <2>2, <2>3, <2>4, <3>1
  <2>7. QED
    BY <1>1, <1>4, <2>6 DEF Decides, AccountIs
<1>5. ASSUME NEW t \in Threads, Finishes(t) PROVE Rests
  <2>1. job[t].pc \in {"cache", "look", "store"} /\ (GoesOn(t) \/ IsDone(t))
    BY <1>5 DEF Finishes
  <2>2. job[t].pc \notin (SetUpPcs \ {"activate"}) \cup {"remove"}
    BY <2>1 DEF SetUpPcs
  <2>3. \A u \in Openers : Quiet(u)
    BY <2>1, <2>2, QuietNext
  <2>4. QED
    BY <1>1, <1>5, <2>3 DEF Finishes, AccountIs
<1>6. "ipc" \in Threads
  BY Constants DEF Openers
<1>7. CASE Leave
  <2>1. /\ UNCHANGED <<open, listed, hung, inbox, route, table, got, flaws>>
        /\ job["ipc"].pc = "leave"
        /\ \E todo : Becomes("ipc", [pc |-> "drop", a |-> job["ipc"].a, f |-> job["ipc"].f, todo |-> todo])
    BY <1>7, LeaveIs DEF Leave, sockets, history
  <2>2. PICK r : r.pc = "drop" /\ Becomes("ipc", r)
    BY <2>1
  <2>3. \A u \in Openers : Quiet(u)
    BY <1>6, <2>1, <2>2, QuietIs DEF SetUpPcs
  <2>4. QED
    BY <1>1, <1>2, <2>1, <2>3
<1>8. CASE Drop /\ ~\E p \in DOMAIN job["ipc"].todo : DropCloses(p)
  <2>1. job["ipc"].pc = "drop" /\ UNCHANGED <<route, table>> /\ (DropEnds \/ \E p : DropSkips(p))
    BY <1>8, DropIs
  <2>2. UNCHANGED <<open, listed, hung, inbox, got, flaws>>
    BY <2>1 DEF DropEnds, DropSkips
  <2>3. PICK r : r.pc \in {"drop", "loop"} /\ Becomes("ipc", r)
    <3>1. CASE DropEnds
      BY <3>1 DEF DropEnds, Idle
    <3>2. ASSUME NEW p, DropSkips(p) PROVE \E r : r.pc \in {"drop", "loop"} /\ Becomes("ipc", r)
      BY <3>2 DEF DropSkips
    <3>3. QED
      BY <2>1, <3>1, <3>2
  <2>4. \A u \in Openers : Quiet(u)
    BY <1>6, <2>1, <2>3, QuietIs DEF SetUpPcs
  <2>5. QED
    BY <1>1, <1>2, <2>1, <2>2, <2>4
<1>9. QED
  BY <1>3, <1>4, <1>5, <1>7, <1>8

\* And those in which something is written to a node or read from it.
LEMMA TrafficRests ==
  ASSUME TypesInv, SocketsInv,
         \/ \E t \in Threads : Writes(t)
         \/ \E f \in Fds : Reads(f) \/ Hang(f)
  PROVE  Rests
<1>1. ASSUME NEW t \in Threads, Writes(t) PROVE Rests
  <2>1. job[t].pc \notin (SetUpPcs \ {"activate"}) \cup {"remove"} /\ (GoesOn(t) \/ IsDone(t))
    BY <1>1 DEF Writes, SetUpPcs
  <2>2. \A u \in Openers : Quiet(u)
    BY <2>1, QuietNext
  <2>3. UNCHANGED <<open, listed, hung, route, table>> /\ Worse /\ NoCut
    BY <1>1 DEF Writes, AccountIs
  <2>4. \A f \in Fds : inbox'[f] = inbox[f] \/ (open[f] \in Nodes /\ f \notin hung')
    BY <1>1, <2>3 DEF Writes, WrittenTo
  <2>5. QED
    BY <2>2, <2>3, <2>4, TableUnchanged, Types DEF Rests
<1>2. ASSUME NEW f \in Fds, Reads(f) PROVE Rests
  <2>1. PICK x : inbox' = [inbox EXCEPT ![f] = x]
    BY <1>2 DEF Reads
  <2>2. f \in listed \ hung /\ UNCHANGED <<open, listed, hung, route, job>> /\ SameEntries /\ Worse /\ NoCut
    BY <1>2 DEF Reads, AccountIs
  <2>3. open[f] \in Nodes
    BY <2>2 DEF SocketsInv
  <2>4. QED
    BY <2>1, <2>2, <2>3, Types DEF Rests, Quiet
<1>3. ASSUME NEW f \in Fds, Hang(f) PROVE Rests
  <2>1. /\ open[f] \in Nodes /\ hung' = hung \cup {f} /\ inbox' = [inbox EXCEPT ![f] = <<>>]
        /\ UNCHANGED <<open, listed, route, table, job>>
    BY <1>3 DEF Hang
  <2>2. Worse /\ NoCut
    BY <1>3, HangIs DEF AccountIs
  <2>3. QED
    BY <2>1, <2>2, TableUnchanged, Types DEF Rests, Quiet
<1>4. QED
  BY <1>1, <1>2, <1>3

-----------------------------------------------------------------------------
\* The sockets after a step in which no connection is opened, listed or closed.
LEMMA SocketsRest ==
  ASSUME TypesInv, SocketsInv, Rests
  PROVE  SocketsInv'
<1>1. \A f \in listed' \cup hung' : open'[f] \in Nodes
  <2>1. listed \subseteq Fds /\ hung' \subseteq Fds
    BY Types DEF Rests
  <2>2. QED
    BY <2>1 DEF SocketsInv, Rests
<1>2. ASSUME NEW f \in Fds, open'[f] \notin Nodes \/ f \in hung' PROVE inbox'[f] = <<>>
  <2>1. CASE open'[f] \notin Nodes
    BY <2>1 DEF SocketsInv, Rests
  <2>2. CASE f \in hung'
    BY <2>2 DEF SocketsInv, Rests
  <2>3. QED
    BY <1>2, <2>1, <2>2
<1>3. ASSUME NEW t \in Openers, job'[t].pc \in {"list", "remove"} PROVE job'[t] = job[t]
  BY <1>3 DEF Rests, Quiet, SetUpPcs
<1>4. ASSUME NEW t \in Openers, job'[t].pc = "list" PROVE open'[job'[t].f] = Head(job'[t].todo) /\ job'[t].f \notin listed'
  <2>1. job'[t] = job[t]
    BY <1>3, <1>4
  <2>2. open[job[t].f] = Node(t) /\ job[t].f \notin listed
    BY <1>4, <2>1 DEF SocketsInv
  <2>3. t \in Threads /\ job[t].pc \in ChunkPcs /\ job[t].pc \in SetUpPcs
    BY <1>4, <2>1, Constants DEF ChunkPcs, SetUpPcs
  <2>4. Node(t) \in Nodes /\ job[t].f \in Fds
    BY <2>3, JobOf
  <2>5. open'[job[t].f] = open[job[t].f] /\ listed' = listed
    BY <2>2, <2>4 DEF Rests
  <2>6. QED
    BY <2>1, <2>2, <2>5 DEF Node
<1>5. "net" \in Openers /\ "ipc" \in Openers
  BY DEF Openers
<1>6. job'["net"].pc = "list" /\ job'["ipc"].pc = "list" => job'["net"].f # job'["ipc"].f
  BY <1>3, <1>5 DEF SocketsInv
<1>7. ASSUME NEW t \in Openers, job'[t].pc = "remove", job'[t].f \in listed'
      PROVE  /\ t = "ipc" /\ job'["net"].f = job'[t].f /\ job'["net"].pc \in {"route", "add"}
             /\ open'[job'[t].f] = Head(job'["net"].todo)
  <2>1. job'[t] = job[t] /\ listed' = listed
    BY <1>3, <1>7 DEF Rests
  <2>2. /\ t = "ipc" /\ job["net"].f = job[t].f /\ job["net"].pc \in {"route", "add"}
        /\ open[job[t].f] = Node("net") /\ open[job[t].f] \in Nodes /\ job[t].f \in Fds
    BY <1>7, <2>1, Types DEF SocketsInv
  <2>3. job'["net"] = job["net"]
    BY <1>5, <2>2 DEF Rests, Quiet, SetUpPcs
  <2>4. open'[job[t].f] = open[job[t].f]
    BY <2>2 DEF Rests
  <2>5. QED
    BY <2>1, <2>2, <2>3, <2>4 DEF Node
<1>8. QED
  BY <1>1, <1>2, <1>4, <1>6, <1>7 DEF SocketsInv, Node

\* The sockets after a connection was opened, listed, routed or put into the table.
LEMMA SocketsSetUp ==
  ASSUME TypesInv, ClientsInv, LocksInv, SocketsInv, NEW t \in Threads,
         Cache(t) \/ List(t) \/ SetRoute(t) \/ AddEntry(t) \/ Fill(t)
  PROVE  SocketsInv'
<1>1. t \in Openers /\ Node(t) \in Nodes /\ Openers \subseteq Threads /\ "net" \in Openers /\ "ipc" \in Openers
  BY CacheIs, ListIs, SetRouteIs, AddIs, FillIs, Constants DEF Openers
<1>2. listed \subseteq Fds /\ hung \subseteq Fds /\ open \in [Fds -> Askers \cup Nodes \cup {None}] /\ None \notin Nodes
  BY Types, Constants
<1>3. CASE Cache(t)
  <2>1. PICK f \in Fds : open[f] = None /\ open' = [open EXCEPT ![f] = Node(t)] /\ Moves(t, "list", f)
    BY <1>3, CacheIs
  <2>2. job[t].pc = "cache" /\ UNCHANGED <<listed, hung, inbox>>
    BY <1>3, CacheIs
  <2>3. /\ job'[t].pc = "list" /\ job'[t].f = f /\ Head(job'[t].todo) = Node(t)
        /\ \A u \in Openers \ {t} : job'[u] = job[u] /\ Head(job'[u].todo) = Node(u)
    BY <1>1, <2>1, MovedIs
  <2>4. open'[f] = Node(t) /\ \A g \in Fds \ {f} : open'[g] = open[g]
    BY <1>2, <2>1
  <2>5. f \notin listed \cup hung
    BY <1>2, <2>1 DEF SocketsInv
  <2>6. \A g \in listed' \cup hung' : open'[g] \in Nodes
    BY <1>2, <2>2, <2>4, <2>5 DEF SocketsInv
  <2>7. \A g \in Fds : open'[g] \notin Nodes \/ g \in hung' => inbox'[g] = <<>>
    BY <1>1, <2>2, <2>4, <2>5 DEF SocketsInv
  <2>8. ASSUME NEW u \in Openers \ {t}, job'[u].pc = "list"
        PROVE  open'[job'[u].f] = Head(job'[u].todo) /\ job'[u].f \notin listed' /\ job'[u].f # f
    <3>1. job'[u] = job[u] /\ job[u].pc \in SetUpPcs /\ job[u].pc \in ChunkPcs /\ u \in Threads
      BY <1>1, <2>3, <2>8 DEF SetUpPcs, ChunkPcs
    <3>2. Node(u) \in Nodes /\ job[u].f \in Fds /\ open[job[u].f] = Node(u) /\ job[u].f \notin listed
      BY <2>8, <3>1, JobOf DEF SocketsInv
    <3>3. QED
      BY <1>2, <2>1, <2>2, <2>3, <2>4, <3>1, <3>2
  <2>9. ASSUME NEW u \in Openers, job'[u].pc = "remove", job'[u].f \in listed'
        PROVE  /\ u = "ipc" /\ job'["net"].f = job'[u].f /\ job'["net"].pc \in {"route", "add"}
               /\ open'[job'[u].f] = Head(job'["net"].todo)
    <3>1. u # t /\ job'[u] = job[u] /\ job[u].f \in listed
      BY <2>2, <2>3, <2>9
    <3>2. /\ u = "ipc" /\ job["net"].f = job[u].f /\ job["net"].pc \in {"route", "add"}
          /\ open[job[u].f] = Node("net")
      BY <2>9, <3>1 DEF SocketsInv
    <3>3. "net" # t
      BY <2>2, <3>2
    <3>4. QED
      BY <1>1, <1>2, <2>3, <2>4, <2>5, <3>1, <3>2, <3>3
  <2>10. QED
    BY <1>1, <2>2, <2>3, <2>4, <2>5, <2>6, <2>7, <2>8, <2>9 DEF SocketsInv, Node, Openers
<1>4. CASE List(t)
  <2>1. /\ job[t].pc = "list" /\ FreeX /\ job[t].f \in Fds
        /\ listed' = listed \cup {job[t].f} /\ Moves(t, "route", job[t].f)
        /\ UNCHANGED <<open, hung, inbox>>
    BY <1>4, ListIs
  <2>2. /\ job'[t].pc = "route" /\ job'[t].f = job[t].f /\ Head(job'[t].todo) = Node(t)
        /\ \A u \in Openers \ {t} : job'[u] = job[u] /\ Head(job'[u].todo) = Node(u)
    BY <1>1, <2>1, MovedIs
  <2>3. open[job[t].f] = Node(t)
    BY <1>1, <2>1 DEF SocketsInv
  <2>4. \A g \in listed' \cup hung' : open'[g] \in Nodes
    BY <1>1, <2>1, <2>3 DEF SocketsInv
  <2>5. ASSUME NEW u \in Openers \ {t}, job'[u].pc = "list"
        PROVE  open'[job'[u].f] = Head(job'[u].todo) /\ job'[u].f \notin listed'
    <3>1. job[u].pc = "list" /\ job'[u] = job[u] /\ Head(job'[u].todo) = Node(u)
      BY <2>2, <2>5
    <3>2. job[u].f # job[t].f
      <4>1. {t, u} = {"net", "ipc"}
        BY <1>1 DEF Openers
      <4>2. job["net"].f # job["ipc"].f
        BY <2>1, <3>1, <4>1 DEF SocketsInv
      <4>3. QED
        BY <4>1, <4>2
    <3>3. QED
      BY <2>1, <2>2, <3>1, <3>2 DEF SocketsInv
  <2>6. ASSUME NEW u \in Openers, job'[u].pc = "remove", job'[u].f \in listed'
        PROVE  /\ u = "ipc" /\ job'["net"].f = job'[u].f /\ job'["net"].pc \in {"route", "add"}
               /\ open'[job'[u].f] = Head(job'["net"].todo)
    <3>1. u # t /\ job'[u] = job[u] /\ job[u].f \in listed \cup {job[t].f}
      BY <2>1, <2>2, <2>6
    <3>2. u = "ipc" /\ t = "net"
      BY <1>1, <2>1, <2>6, <3>1 DEF Openers, FreeX
    <3>3. job[u].f = job[t].f
      BY <2>1, <2>6, <3>1, <3>2 DEF SocketsInv
    <3>4. QED
      BY <2>1, <2>2, <2>3, <3>1, <3>2, <3>3
  <2>7. QED
    BY <2>1, <2>2, <2>4, <2>5, <2>6 DEF SocketsInv, Node, Openers
<1>5. CASE SetRoute(t) \/ AddEntry(t) \/ Fill(t)
  <2>1. PICK pc : /\ Moves(t, pc, job[t].f)
                  /\ \/ job[t].pc = "route" /\ pc = "add"
                     \/ job[t].pc = "add" /\ pc = "fill" /\ FreeE(t)
                     \/ job[t].pc = "fill" /\ pc \in {"activate", "crashed"}
    BY <1>5, SetRouteIs, AddIs, FillIs
  <2>2. UNCHANGED <<open, listed, hung, inbox>>
    BY <1>5, SetRouteIs, AddIs, FillIs
  <2>3. /\ job'[t].pc = pc /\ job'[t].f = job[t].f /\ Head(job'[t].todo) = Node(t)
        /\ \A u \in Openers \ {t} : job'[u] = job[u] /\ Head(job'[u].todo) = Node(u)
    BY <1>1, <2>1, MovedIs
  <2>4. ASSUME NEW u \in Openers, job'[u].pc = "remove", job'[u].f \in listed'
        PROVE  /\ u = "ipc" /\ job'["net"].f = job'[u].f /\ job'["net"].pc \in {"route", "add"}
               /\ open'[job'[u].f] = Head(job'["net"].todo)
    <3>1. u # t /\ job'[u] = job[u] /\ job[u].f \in listed
      BY <2>1, <2>2, <2>3, <2>4
    <3>2. /\ u = "ipc" /\ job["net"].f = job[u].f /\ job["net"].pc \in {"route", "add"}
          /\ open[job[u].f] = Node("net")
      BY <2>4, <3>1 DEF SocketsInv
    <3>3. lockE = "ipc" /\ "ipc" # None
      BY <2>4, <3>1, <3>2, Constants DEF LocksInv, Openers
    <3>4. t = "net"
      BY <1>1, <3>1, <3>2 DEF Openers
    <3>5. pc = "add"
      BY <2>1, <3>2, <3>3, <3>4 DEF FreeE
    <3>6. QED
      BY <2>2, <2>3, <3>1, <3>2, <3>4, <3>5
  <2>5. ASSUME NEW u \in Openers, job'[u].pc = "list" PROVE u # t /\ job'[u] = job[u] /\ Head(job'[u].todo) = Node(u)
    BY <2>1, <2>3, <2>5
  <2>6. QED
    BY <2>2, <2>4, <2>5 DEF SocketsInv, Node, Openers
<1>6. QED
  BY <1>3, <1>4, <1>5

\* The sockets after one was closed, or what is left of it was taken out of the table.
LEMMA SocketsClosed ==
  ASSUME TypesInv, ClientsInv, SocketsInv,
         \/ Drop /\ \E p \in DOMAIN job["ipc"].todo : DropCloses(p)
         \/ \E t \in Threads : RemoveEntry(t)
         \/ \E f \in Fds : NullQueue(f) \/ CloseTest(f)
  PROVE  SocketsInv'
<1>1. "net" \in Openers /\ "ipc" \in Openers /\ Openers \subseteq Threads
  BY Constants DEF Openers
<1>2. /\ listed \subseteq Fds /\ hung \subseteq Fds /\ open \in [Fds -> Askers \cup Nodes \cup {None}]
      /\ inbox \in [Fds -> Seq(Items \cup {Request})] /\ None \notin Nodes
  BY Types, Constants
<1>3. ASSUME NEW t \in Openers, NEW r, NEW f \in Fds, Becomes(t, r), r.pc = "remove", r.f = f,
             f \in listed, job[t].pc \in {"loop", "drop"},
             open' = [open EXCEPT ![f] = None], listed' = listed \ {f}, hung' = hung \ {f},
             inbox' = [inbox EXCEPT ![f] = <<>>] \/ (inbox' = inbox /\ f \in hung)
      PROVE  SocketsInv'
  <2>1. job'[t] = r /\ \A u \in Openers \ {t} : job'[u] = job[u]
    BY <1>1, <1>3, BecomesIs
  <2>2. \A g \in listed' \cup hung' : g # f /\ open'[g] = open[g] /\ open'[g] \in Nodes
    BY <1>2, <1>3 DEF SocketsInv
  <2>3. \A g \in Fds : open'[g] \notin Nodes \/ g \in hung' => inbox'[g] = <<>>
    BY <1>2, <1>3 DEF SocketsInv
  <2>4. ASSUME NEW u \in Openers, job'[u].pc = "list"
        PROVE  u # t /\ job'[u] = job[u] /\ open'[job'[u].f] = Head(job'[u].todo) /\ job'[u].f \notin listed'
    <3>1. u # t /\ job'[u] = job[u]
      BY <1>3, <2>1, <2>4
    <3>2. job[u].pc \in SetUpPcs
      BY <2>4, <3>1 DEF SetUpPcs
    <3>3. job[u].f \in Fds /\ open[job[u].f] = Node(u) /\ job[u].f \notin listed
      BY <1>1, <2>4, <3>1, <3>2, JobOf DEF SocketsInv
    <3>4. job[u].f # f
      BY <1>3, <3>3
    <3>5. QED
      BY <1>2, <1>3, <3>1, <3>3, <3>4 DEF Node
  <2>5. ASSUME NEW u \in Openers, job'[u].pc = "remove", job'[u].f \in listed'
        PROVE  /\ u = "ipc" /\ job'["net"].f = job'[u].f /\ job'["net"].pc \in {"route", "add"}
               /\ open'[job'[u].f] = Head(job'["net"].todo)
    <3>1. u # t /\ job'[u] = job[u] /\ job[u].f \in listed /\ job[u].f # f
      BY <1>3, <2>1, <2>5
    <3>2. /\ u = "ipc" /\ job["net"].f = job[u].f /\ job["net"].pc \in {"route", "add"}
          /\ open[job[u].f] = Node("net")
      BY <2>5, <3>1 DEF SocketsInv
    <3>3. "net" # t
      BY <1>3, <3>2
    <3>4. QED
      BY <1>1, <1>2, <1>3, <2>1, <3>1, <3>2, <3>3 DEF Node
  <2>6. ~(job'["net"].pc = "list" /\ job'["ipc"].pc = "list")
    BY <1>3, <2>1 DEF Openers
  <2>7. QED
    BY <2>2, <2>3, <2>4, <2>5, <2>6 DEF SocketsInv, Node
<1>4. ASSUME NEW t \in Openers, NEW r, Becomes(t, r), r.pc \notin {"list", "remove"},
             job[t].pc \notin {"route", "add"}, UNCHANGED <<open, listed, hung>>,
             \/ inbox' = inbox
             \/ \E f \in listed \ hung : \E x : inbox' = [inbox EXCEPT ![f] = x]
      PROVE  SocketsInv'
  <2>1. job'[t] = r /\ \A u \in Openers \ {t} : job'[u] = job[u]
    BY <1>1, <1>4, BecomesIs
  <2>2. \A g \in Fds : open'[g] \notin Nodes \/ g \in hung' => inbox'[g] = <<>>
    BY <1>2, <1>4 DEF SocketsInv
  <2>3. ASSUME NEW u \in Openers, job'[u].pc = "remove", job'[u].f \in listed'
        PROVE  /\ u = "ipc" /\ job'["net"].f = job'[u].f /\ job'["net"].pc \in {"route", "add"}
               /\ open'[job'[u].f] = Head(job'["net"].todo)
    <3>1. u # t /\ job'[u] = job[u] /\ job[u].f \in listed
      BY <1>4, <2>1, <2>3
    <3>2. /\ u = "ipc" /\ job["net"].f = job[u].f /\ job["net"].pc \in {"route", "add"}
          /\ open[job[u].f] = Node("net")
      BY <2>3, <3>1 DEF SocketsInv
    <3>3. QED
      BY <1>1, <1>4, <2>1, <3>1, <3>2 DEF Node
  <2>4. ASSUME NEW u \in Openers, job'[u].pc = "list" PROVE job'[u] = job[u]
    BY <1>4, <2>1, <2>4
  <2>5. QED
    BY <1>1, <1>4, <2>2, <2>3, <2>4 DEF SocketsInv, Node
<1>5. CASE Drop /\ \E p \in DOMAIN job["ipc"].todo : DropCloses(p)
  <2>1. PICK p \in DOMAIN job["ipc"].todo : DropCloses(p)
    BY <1>5
  <2>2. job["ipc"].pc = "drop"
    BY <1>5 DEF Drop
  <2>3. PICK f : f = job["ipc"].todo[p]
    OBVIOUS
  <2>4. PICK r : r = [pc |-> "remove", a |-> job["ipc"].a, todo |-> Rest(p), f |-> f]
    OBVIOUS
  <2>5. /\ f \in listed /\ open' = [open EXCEPT ![f] = None] /\ inbox' = [inbox EXCEPT ![f] = <<>>]
        /\ listed' = listed \ {f} /\ hung' = hung \ {f} /\ Becomes("ipc", r)
    BY <2>1, <2>3, <2>4 DEF DropCloses
  <2>6. r.pc = "remove" /\ r.f = f /\ f \in Fds
    BY <1>2, <2>4, <2>5
  <2>7. QED
    BY <1>1, <1>3, <2>2, <2>5, <2>6
<1>6. ASSUME NEW t \in Threads, RemoveEntry(t) PROVE SocketsInv'
  <2>1. /\ t \in Openers /\ job[t].pc = "remove" /\ UNCHANGED <<open, listed, hung, inbox>>
        /\ t = "ipc" => Moves(t, "drop", job[t].f)
        /\ t = "net" => Becomes(t, Idle)
    BY <1>6, RemoveIs
  <2>2. PICK r : Becomes(t, r) /\ r.pc \in {"drop", "loop"}
    <3>1. CASE t = "ipc"
      BY <2>1, <3>1 DEF Moves
    <3>2. CASE t = "net"
      BY <2>1, <3>2 DEF Idle
    <3>3. QED
      BY <2>1, <3>1, <3>2 DEF Openers
  <2>3. QED
    BY <1>4, <2>1, <2>2
<1>7. ASSUME NEW f \in Fds, NullQueue(f) PROVE SocketsInv'
  <2>1. /\ f \in listed \ hung /\ Moves("net", "crashed", 0) /\ inbox' = [inbox EXCEPT ![f] = Tail(@)]
        /\ UNCHANGED <<open, listed, hung>> /\ job["net"].pc = "loop"
    BY <1>7 DEF NullQueue, Idle
  <2>2. PICK r : Becomes("net", r) /\ r.pc = "crashed"
    BY <2>1 DEF Moves
  <2>3. QED
    BY <1>1, <1>4, <2>1, <2>2
<1>8. ASSUME NEW f \in Fds, CloseTest(f) PROVE SocketsInv'
  <2>1. PICK r : r = [pc |-> "remove", a |-> None, todo |-> <<>>, f |-> f]
    OBVIOUS
  <2>2. r.pc = "remove" /\ r.f = f /\ Becomes("net", r)
    BY <1>8, <2>1, CloseIs
  <2>3. /\ f \in hung \cap listed /\ job["net"].pc = "loop" /\ open' = [open EXCEPT ![f] = None]
        /\ listed' = listed \ {f} /\ hung' = hung \ {f} /\ inbox' = inbox
    BY <1>8 DEF CloseTest, Idle
  <2>4. QED
    BY <1>1, <1>3, <2>2, <2>3
<1>9. QED
  BY <1>5, <1>6, <1>7, <1>8

\* The steps that leave the connections alone, and the others.
LEMMA RestsOr ==
  ASSUME TypesInv, ClientsInv, SocketsInv, Next
  PROVE  \/ Rests
         \/ \E t \in Threads : Cache(t) \/ List(t) \/ SetRoute(t) \/ AddEntry(t) \/ Fill(t) \/ RemoveEntry(t)
         \/ Drop /\ \E p \in DOMAIN job["ipc"].todo : DropCloses(p)
         \/ \E f \in Fds : NullQueue(f) \/ CloseTest(f)
BY Kinds, ClientRests, ChunkRests, TrafficRests

\* Every step keeps the sockets.
LEMMA SocketsStep ==
  ASSUME TypesInv, ClientsInv, LocksInv, SocketsInv, Next
  PROVE  SocketsInv'
BY RestsOr, SocketsRest, SocketsSetUp, SocketsClosed

-----------------------------------------------------------------------------
\* Who sets a connection up finds no request for activation there after any step.
InboxKept ==
    \A t \in Openers :
        job'[t].pc \in SetUpPcs /\ inbox[job'[t].f] \in Seq(Items) => inbox'[job'[t].f] \in Seq(Items)

\* That is so for every step.
LEMMA InboxStep ==
  ASSUME TypesInv, ClientsInv, SetUpInv, Next
  PROVE  InboxKept
<1>1. inbox \in [Fds -> Seq(Items \cup {Request})] /\ Openers \subseteq Threads
  BY Types, Constants
<1>2. ASSUME NEW f, NEW x, inbox' = [inbox EXCEPT ![f] = x], inbox[f] \in Seq(Items) => x \in Seq(Items)
      PROVE  InboxKept
  <2>1. \A g : inbox[g] \in Seq(Items) /\ g \in Fds => inbox'[g] \in Seq(Items)
    BY <1>1, <1>2
  <2>2. \A g : inbox[g] \in Seq(Items) /\ g \notin Fds => inbox'[g] = inbox[g]
    BY <1>1, <1>2
  <2>3. QED
    BY <2>1, <2>2 DEF InboxKept
<1>3. ASSUME NEW t \in Threads, Writes(t) PROVE InboxKept
  <2>1. ASSUME NEW u \in Openers, job'[u].pc \in SetUpPcs, inbox[job'[u].f] \in Seq(Items)
        PROVE  inbox'[job'[u].f] \in Seq(Items)
    <3>1. \A v \in Openers : Quiet(v)
      <4>1. job[t].pc \notin (SetUpPcs \ {"activate"}) \cup {"remove"} /\ (GoesOn(t) \/ IsDone(t))
        BY <1>3 DEF Writes, SetUpPcs
      <4>2. QED
        BY <4>1, QuietNext
    <3>2. job'[u] = job[u]
      BY <2>1, <3>1 DEF Quiet, SetUpPcs
    <3>3. job[u].f \in Fds /\ job[u].pc \in SetUpPcs
      BY <1>1, <2>1, <3>2, JobOf
    <3>4. PICK g : g = job[u].f
      OBVIOUS
    <3>5. PICK s \in Seq(Items) : s = inbox[g]
      BY <2>1, <3>2, <3>4
    <3>6. CASE inbox'[g] = inbox[g]
      BY <3>2, <3>4, <3>5, <3>6
    <3>7. CASE \E item \in Items : inbox'[g] = Append(inbox[g], item)
      BY <3>2, <3>4, <3>5, <3>7
    <3>8. CASE job[t].pc = "activate" /\ WrittenTo(job[t].f, Request)
      <4>1. t # u
        <5>1. job'[t].pc # "activate"
          <6>1. t \in Openers
            BY <3>8, JobOf
          <6>2. CASE GoesOn(t)
            <7>1. PICK p : p = IF t \in Workers THEN "look" ELSE "other"
              OBVIOUS
            <7>2. job'[t].pc = p
              BY <6>2, <7>1, BecomesIs DEF GoesOn
            <7>3. QED
              BY <7>1, <7>2
          <6>3. CASE IsDone(t)
            <7>1. job'[t] = Idle
              BY <6>3, BecomesIs DEF IsDone
            <7>2. QED
              BY <7>1 DEF Idle
          <6>4. QED
            BY <1>3, <6>2, <6>3 DEF Writes
        <5>2. QED
          BY <3>2, <3>8, <5>1
      <4>2. t \in Openers /\ job[t].pc \in SetUpPcs
        BY <3>8, JobOf DEF SetUpPcs
      <4>3. job[t].f # g
        <5>1. {t, u} = {"net", "ipc"}
          BY <4>1, <4>2 DEF Openers
        <5>2. job["net"].f # job["ipc"].f
          BY <3>3, <4>2, <5>1 DEF SetUpInv
        <5>3. QED
          BY <3>4, <5>1, <5>2
      <4>4. inbox'[g] = inbox[g]
        BY <3>3, <3>4, <3>8, <4>3 DEF WrittenTo
      <4>5. QED
        BY <3>6, <4>4
    <3>9. QED
      BY <1>3, <3>3, <3>4, <3>6, <3>7, <3>8 DEF Writes, WrittenTo
  <2>2. QED
    BY <2>1 DEF InboxKept
<1>4. ASSUME NEW f \in Fds, Reads(f) \/ NullQueue(f) PROVE InboxKept
  <2>1. PICK q \in Seq(Items) : inbox' = [inbox EXCEPT ![f] = Tail(@) \o q] \/ inbox' = [inbox EXCEPT ![f] = Tail(@)]
    <3>1. <<>> \in Seq(Items)
      OBVIOUS
    <3>2. CASE Reads(f)
      BY <3>2 DEF Reads
    <3>3. CASE NullQueue(f)
      BY <3>1, <3>3 DEF NullQueue
    <3>4. QED
      BY <1>4, <3>2, <3>3
  <2>2. PICK s : s = inbox[f]
    OBVIOUS
  <2>3. s # <<>>
    BY <1>4, <2>2 DEF Reads, NullQueue
  <2>4. s \in Seq(Items) => Tail(s) \in Seq(Items) /\ Tail(s) \o q \in Seq(Items)
    BY <2>3
  <2>5. inbox' = [inbox EXCEPT ![f] = Tail(s) \o q] \/ inbox' = [inbox EXCEPT ![f] = Tail(s)]
    BY <2>1, <2>2
  <2>6. QED
    BY <1>2, <2>2, <2>4, <2>5
<1>5. ASSUME NEW f \in Fds, Hang(f) PROVE InboxKept
  <2>1. inbox' = [inbox EXCEPT ![f] = <<>>] /\ <<>> \in Seq(Items)
    BY <1>5 DEF Hang
  <2>2. QED
    BY <1>2, <2>1
<1>6. CASE Drop
  <2>1. CASE DropEnds \/ \E p \in DOMAIN job["ipc"].todo : DropSkips(p)
    BY <2>1 DEF DropEnds, DropSkips, InboxKept
  <2>2. ASSUME NEW p \in DOMAIN job["ipc"].todo, DropCloses(p) PROVE InboxKept
    <3>1. PICK f : f = job["ipc"].todo[p]
      OBVIOUS
    <3>2. inbox' = [inbox EXCEPT ![f] = <<>>] /\ <<>> \in Seq(Items)
      BY <2>2, <3>1 DEF DropCloses
    <3>3. QED
      BY <1>2, <3>2
  <2>3. QED
    BY <1>6, <2>1, <2>2, DropIs
<1>7. ASSUME inbox' = inbox PROVE InboxKept
  BY <1>7 DEF InboxKept
<1>8. ASSUME NEW a \in Askers, Connect(a) \/ TesterLeaves(a) \/ EquipLeaves(a) \/ \E to \in Targets, len \in Lengths : Ask(a, to, len)
      PROVE  InboxKept
  BY <1>7, <1>8 DEF Connect, TesterLeaves, EquipLeaves, Ask, sockets
<1>9. ASSUME NEW a \in Askers, NEW t \in Threads, (First(a) /\ t = Reader(a)) \/ (t \in Workers /\ Later(t, a))
      PROVE  InboxKept
  BY <1>7, <1>9, StartsIs
<1>10. ASSUME NEW t \in Threads, Decides(t) \/ Finishes(t) PROVE InboxKept
  BY <1>7, <1>10 DEF Decides, Finishes
<1>11. ASSUME NEW t \in Threads, Cache(t) \/ List(t) \/ SetRoute(t) \/ AddEntry(t) \/ Fill(t) \/ RemoveEntry(t)
       PROVE  InboxKept
  BY <1>7, <1>11, CacheIs, ListIs, SetRouteIs, AddIs, FillIs, RemoveIs
<1>12. ASSUME NEW f \in Fds, CloseTest(f) PROVE InboxKept
  BY <1>7, <1>12 DEF CloseTest
<1>13. CASE Leave
  BY <1>7, <1>13 DEF Leave, sockets
<1>14. QED
  BY Kinds, <1>3, <1>4, <1>5, <1>6, <1>8, <1>9, <1>10, <1>11, <1>12, <1>13

\* The entries and who sets connections up, after a step that leaves the connections alone.
LEMMA FreshRest ==
  ASSUME TypesInv, SocketsInv, EntriesInv, SetUpInv, Rests, InboxKept
  PROVE  EntriesInv' /\ SetUpInv'
<1>1. ASSUME NEW t \in Openers, job'[t].pc \in SetUpPcs \cup {"remove", "crashed"} PROVE job'[t] = job[t]
  BY <1>1 DEF Rests, Quiet, SetUpPcs
<1>2. ASSUME NEW t \in Openers, job[t].pc \in (SetUpPcs \ {"activate"}) \cup {"remove"} PROVE job'[t] = job[t]
  BY <1>2 DEF Rests, Quiet, SetUpPcs
<1>3. \A f : Removing(f) => Removing(f)'
  BY <1>2 DEF Removing
<1>4. /\ DOMAIN table' = DOMAIN table /\ listed' = listed
      /\ \A i \in DOMAIN table : table'[i].fd = table[i].fd /\ (table'[i].queue = NoQueue => table[i].queue = NoQueue)
  BY DEF Rests, SameEntries
<1>5. EntriesInv'
  <2>1. \A i \in DOMAIN table : table'[i].queue = NoQueue => \E t \in Openers : job'[t].pc = "fill" /\ job'[t].f = table'[i].fd
    <3>1. ASSUME NEW i \in DOMAIN table, table'[i].queue = NoQueue
          PROVE  \E t \in Openers : job'[t].pc = "fill" /\ job'[t].f = table'[i].fd
      <4>1. PICK t \in Openers : job[t].pc = "fill" /\ job[t].f = table[i].fd
        BY <1>4, <3>1 DEF EntriesInv
      <4>2. job'[t] = job[t]
        BY <1>2, <4>1 DEF SetUpPcs
      <4>3. QED
        BY <1>4, <4>1, <4>2
    <3>2. QED
      BY <3>1
  <2>2. \A i \in DOMAIN table : table'[i].fd \in listed' \/ Removing(table[i].fd)'
    BY <1>3, <1>4 DEF EntriesInv
  <2>3. ASSUME NEW i \in DOMAIN table' PROVE table'[i].fd \in listed' \/ Removing(table[i].fd)'
    BY <1>4, <2>2
  <2>4. ASSUME NEW i \in DOMAIN table' PROVE table'[i].fd \in listed' \/ \E t \in Openers : job'[t].pc = "remove" /\ job'[t].f = table'[i].fd
    BY <1>4, <2>3 DEF Removing
  <2>5. QED
    BY <1>4, <2>1, <2>4 DEF EntriesInv, Removing
<1>6. ASSUME NEW t \in Openers, job'[t].pc \in SetUpPcs \cup {"crashed"}
      PROVE  /\ job'[t].pc # "crashed"
             /\ job'[t].pc \in {"list", "route", "add"} =>
                   \A i \in DOMAIN table' : table'[i].fd = job'[t].f => LeftOver(t, job[t].f)'
             /\ job'[t].pc = "fill" => \E i \in DOMAIN table' : table'[i].fd = job'[t].f
             /\ open'[job'[t].f] = Head(job'[t].todo) \/ Removing(job[t].f)'
             /\ job'[t].pc # "list" => job'[t].f \in listed' \/ Removing(job[t].f)'
             /\ inbox'[job'[t].f] \in Seq(Items)
  <2>1. job'[t] = job[t]
    BY <1>1, <1>6
  <2>2. job[t].pc # "crashed" /\ job[t].pc \in SetUpPcs
    BY <1>6, <2>1 DEF SetUpInv
  <2>3. t \in Threads /\ job[t].f \in Fds /\ Node(t) \in Nodes
    <3>1. t \in Threads /\ job[t].pc \in ChunkPcs
      BY <2>2, Constants DEF ChunkPcs
    <3>2. QED
      BY <2>2, <3>1, JobOf
  <2>4. inbox'[job'[t].f] \in Seq(Items)
    <3>1. inbox[job[t].f] \in Seq(Items)
      BY <2>2 DEF SetUpInv
    <3>2. QED
      BY <2>1, <2>2, <3>1 DEF InboxKept
  <2>5. open'[job'[t].f] = Head(job'[t].todo) \/ Removing(job[t].f)'
    <3>1. open[job[t].f] = Node(t) \/ Removing(job[t].f)
      BY <2>2 DEF SetUpInv
    <3>2. open[job[t].f] = Node(t) => open'[job[t].f] = Node(t)
      BY <2>3 DEF Rests
    <3>3. Removing(job[t].f) => Removing(job[t].f)'
      <4>1. PICK g : g = job[t].f
        OBVIOUS
      <4>2. Removing(g) => \E u \in Openers : job'[u].pc = "remove" /\ job'[u].f = g
        BY <1>3 DEF Removing
      <4>3. QED
        BY <2>1, <4>1, <4>2 DEF Removing
    <3>4. QED
      BY <2>1, <3>1, <3>2, <3>3 DEF Node
  <2>6. job'[t].pc # "list" => job'[t].f \in listed' \/ Removing(job[t].f)'
    <3>1. job[t].pc # "list" => job[t].f \in listed \/ Removing(job[t].f)
      BY <2>2 DEF SetUpInv
    <3>2. Removing(job[t].f) => Removing(job[t].f)'
      <4>1. PICK g : g = job[t].f
        OBVIOUS
      <4>2. Removing(g) => \E u \in Openers : job'[u].pc = "remove" /\ job'[u].f = g
        BY <1>3 DEF Removing
      <4>3. QED
        BY <2>1, <4>1, <4>2 DEF Removing
    <3>3. QED
      BY <1>4, <2>1, <3>1, <3>2
  <2>7. ASSUME job[t].pc \in {"list", "route", "add"}, NEW i \in DOMAIN table', table'[i].fd = job'[t].f
        PROVE  LeftOver(t, job[t].f)'
    <3>1. LeftOver(t, job[t].f)
      BY <1>4, <2>1, <2>7 DEF SetUpInv
    <3>2. job["ipc"].pc = "remove" => job'["ipc"] = job["ipc"]
      BY <1>2 DEF Openers
    <3>3. job["net"].pc = "remove" => job'["net"] = job["net"]
      BY <1>2 DEF Openers
    <3>4. QED
      BY <2>1, <3>1, <3>2, <3>3 DEF LeftOver
  <2>8. job[t].pc = "fill" => \E i \in DOMAIN table : table[i].fd = job[t].f
    BY DEF SetUpInv
  <2>9. QED
    BY <1>4, <2>1, <2>2, <2>4, <2>5, <2>6, <2>7, <2>8
<1>7. job'["net"].pc \in SetUpPcs /\ job'["ipc"].pc \in SetUpPcs => job'["net"].f # job'["ipc"].f
  BY <1>1 DEF SetUpInv, Openers
<1>8. SetUpInv'
  BY <1>6, <1>7 DEF SetUpInv, Node, SetUpPcs
<1>9. QED
  BY <1>5, <1>8

\* A number is being taken out of the table after the step.
RemovingNext(f) == \E t \in Openers : job'[t].pc = "remove" /\ job'[t].f = f

\* What is to be shown of a thread that sets a connection up, after a step.
SetUpNext(t) ==
    /\ job'[t].pc # "crashed"
    /\ job'[t].pc \in {"list", "route", "add"} =>
          \A i \in DOMAIN table' : table'[i].fd = job'[t].f =>
              \/ t = "net" /\ job'["ipc"].pc = "remove" /\ job'["ipc"].f = job'[t].f
              \/ t = "ipc" /\ job'["net"].pc = "remove" /\ job'["net"].f = job'[t].f /\ job'[t].pc = "list"
    /\ job'[t].pc = "fill" => \E i \in DOMAIN table' : table'[i].fd = job'[t].f
    /\ job'[t].pc \in SetUpPcs => open'[job'[t].f] = Head(job'[t].todo) \/ RemovingNext(job'[t].f)
    /\ job'[t].pc \in SetUpPcs \ {"list"} => job'[t].f \in listed' \/ RemovingNext(job'[t].f)

\* From there follows SetUpInv.
LEMMA SetUpFrom ==
  ASSUME InboxKept, \A t \in Openers : SetUpNext(t),
         \A t \in Openers : job'[t].pc \in SetUpPcs => inbox[job'[t].f] \in Seq(Items),
         job'["net"].pc \in SetUpPcs /\ job'["ipc"].pc \in SetUpPcs => job'["net"].f # job'["ipc"].f
  PROVE  SetUpInv'
<1>1. \A t \in Openers : job'[t].pc \in SetUpPcs => inbox'[job'[t].f] \in Seq(Items)
  BY DEF InboxKept
<1>2. QED
  BY <1>1 DEF SetUpInv, SetUpNext, RemovingNext, Removing, LeftOver, Node

\* What is to be shown of an entry, after a step.
EntryNext(i) ==
    /\ table'[i].fd \in listed' \/ RemovingNext(table'[i].fd)
    /\ table'[i].queue = NoQueue => \E t \in Openers : job'[t].pc = "fill" /\ job'[t].f = table'[i].fd

\* From there follows EntriesInv.
LEMMA EntriesFrom ==
  ASSUME \A i, j \in DOMAIN table' : table'[i].fd = table'[j].fd => i = j, \A i \in DOMAIN table' : EntryNext(i)
  PROVE  EntriesInv'
BY DEF EntriesInv, EntryNext, RemovingNext, Removing

\* What is known of the threads that set connections up.
LEMMA SetUpIs ==
  ASSUME TypesInv, SetUpInv, NEW t \in Openers, job[t].pc \in SetUpPcs
  PROVE  /\ t \in Threads /\ job[t].f \in Fds /\ Node(t) \in Nodes /\ job[t].pc \in ChunkPcs
         /\ open[job[t].f] = Node(t) \/ Removing(job[t].f)
         /\ job[t].pc # "list" => job[t].f \in listed \/ Removing(job[t].f)
         /\ inbox[job[t].f] \in Seq(Items)
         /\ \A u \in Openers \ {t} : job[u].pc \in SetUpPcs => job[u].f # job[t].f
<1>1. t \in Threads /\ job[t].pc \in ChunkPcs
  BY Constants DEF ChunkPcs
<1>2. job[t].f \in Fds /\ Node(t) \in Nodes
  BY <1>1, JobOf
<1>3. /\ open[job[t].f] = Node(t) \/ Removing(job[t].f)
      /\ job[t].pc # "list" => job[t].f \in listed \/ Removing(job[t].f)
      /\ inbox[job[t].f] \in Seq(Items)
  BY DEF SetUpInv
<1>4. \A u \in Openers \ {t} : job[u].pc \in SetUpPcs => job[u].f # job[t].f
  BY DEF SetUpInv, Openers
<1>5. QED
  BY <1>1, <1>2, <1>3, <1>4

\* A thread that stays where it is while the other one goes to or stays at the setup of a
\* connection.
LEMMA OtherStays ==
  ASSUME TypesInv, SetUpInv, NEW t \in Openers, NEW u \in Openers \ {t}, job'[u] = job[u],
         job[t].pc \in SetUpPcs \cup {"cache"}, listed \subseteq listed',
         \A f \in Fds : open[f] # None => open'[f] = open[f],
         \A i \in DOMAIN table : i \in DOMAIN table' /\ table'[i].fd = table[i].fd,
         \A i \in DOMAIN table' \ DOMAIN table : job[u].pc \in SetUpPcs => table'[i].fd # job[u].f
  PROVE  SetUpNext(u) /\ (job'[u].pc \in SetUpPcs => job[u].f \in Fds /\ open[job[u].f] = Node(u))
<1>1. ~Removing(job[u].f) \/ job[u].pc = "remove"
  BY DEF Removing, Openers, SetUpPcs
<1>2. job[u].pc # "crashed"
  BY DEF SetUpInv
<1>3. ASSUME job[u].pc \in {"list", "route", "add"}, NEW i \in DOMAIN table', table'[i].fd = job[u].f PROVE FALSE
  <2>1. i \in DOMAIN table /\ table[i].fd = job[u].f
    BY <1>3 DEF SetUpPcs
  <2>2. LeftOver(u, job[u].f)
    BY <1>3, <2>1 DEF SetUpInv
  <2>3. job[t].pc = "remove"
    BY <2>2 DEF LeftOver, Openers
  <2>4. QED
    BY <2>3 DEF SetUpPcs
<1>4. job[u].pc = "fill" => \E i \in DOMAIN table' : table'[i].fd = job[u].f
  BY DEF SetUpInv
<1>5. ASSUME job[u].pc \in SetUpPcs
      PROVE  /\ open[job[u].f] = Node(u) /\ job[u].f \in Fds
             /\ open'[job[u].f] = Node(u) /\ (job[u].pc # "list" => job[u].f \in listed')
  <2>1. /\ job[u].f \in Fds /\ Node(u) \in Nodes /\ open[job[u].f] = Node(u)
        /\ job[u].pc # "list" => job[u].f \in listed
    BY <1>1, <1>5, SetUpIs DEF SetUpPcs
  <2>2. Node(u) # None
    BY <2>1, Constants
  <2>3. QED
    BY <2>1, <2>2
<1>6. QED
  BY <1>2, <1>3, <1>4, <1>5 DEF SetUpNext, Node

\* The entries after a connection was opened, listed or routed.
LEMMA EntriesListed ==
  ASSUME EntriesInv, NEW t \in Openers, job[t].pc \in {"cache", "list", "route"}, \A u \in Openers \ {t} : job'[u] = job[u],
         listed \subseteq listed', table' = table
  PROVE  EntriesInv'
<1>1. ASSUME NEW i \in DOMAIN table' PROVE EntryNext(i)
  <2>1. /\ table[i].fd \in listed \/ Removing(table[i].fd)
        /\ table[i].queue = NoQueue => \E u \in Openers : job[u].pc = "fill" /\ job[u].f = table[i].fd
    BY <1>1 DEF EntriesInv
  <2>2. Removing(table[i].fd) => RemovingNext(table[i].fd)
    BY DEF Removing, RemovingNext
  <2>3. ASSUME NEW u \in Openers, job[u].pc = "fill", job[u].f = table[i].fd PROVE job'[u].pc = "fill" /\ job'[u].f = table'[i].fd
    BY <2>3
  <2>4. table[i].queue = NoQueue => \E u \in Openers : job'[u].pc = "fill" /\ job'[u].f = table'[i].fd
    BY <2>1, <2>3
  <2>5. QED
    BY <2>1, <2>2, <2>4 DEF EntryNext
<1>2. \A i, j \in DOMAIN table' : table'[i].fd = table'[j].fd => i = j
  BY DEF EntriesInv
<1>3. QED
  BY <1>1, <1>2, EntriesFrom

\* A connection is opened with a number that no entry has but one that is being taken out.
LEMMA FreshCache ==
  ASSUME TypesInv, SocketsInv, EntriesInv, SetUpInv, InboxKept, NEW t \in Threads, Cache(t)
  PROVE  EntriesInv' /\ SetUpInv'
<1>1. t \in Openers /\ job[t].pc = "cache" /\ Node(t) \in Nodes /\ UNCHANGED <<listed, table, inbox>>
  BY CacheIs
<1>2. PICK f \in Fds : open[f] = None /\ open' = [open EXCEPT ![f] = Node(t)] /\ Moves(t, "list", f)
  BY CacheIs
<1>3. /\ job'[t].pc = "list" /\ job'[t].f = f /\ Head(job'[t].todo) = Node(t)
      /\ \A u \in Openers \ {t} : job'[u] = job[u]
  BY <1>1, <1>2, MovedIs
<1>4. /\ open \in [Fds -> Askers \cup Nodes \cup {None}] /\ inbox \in [Fds -> Seq(Items \cup {Request})] /\ None \notin Nodes
      /\ listed \subseteq Fds
  BY Types, Constants
<1>5. open'[f] = Node(t) /\ \A g \in Fds : open[g] # None => open'[g] = open[g]
  BY <1>2, <1>4
<1>6. EntriesInv'
  BY <1>1, <1>3, EntriesListed
<1>7. ASSUME NEW u \in Openers \ {t} PROVE SetUpNext(u) /\ (job'[u].pc \in SetUpPcs => job[u].f # f /\ inbox[job[u].f] \in Seq(Items))
  <2>1. SetUpNext(u) /\ (job'[u].pc \in SetUpPcs => job[u].f \in Fds /\ open[job[u].f] = Node(u))
    BY <1>1, <1>3, <1>5, OtherStays
  <2>2. job'[u].pc \in SetUpPcs => Node(u) # None /\ inbox[job[u].f] \in Seq(Items)
    BY <1>3, <1>4, SetUpIs
  <2>3. QED
    BY <1>2, <2>1, <2>2
<1>8. inbox[f] \in Seq(Items)
  BY <1>2, <1>4 DEF SocketsInv
<1>9. SetUpNext(t)
  <2>1. ASSUME NEW i \in DOMAIN table', table'[i].fd = f
        PROVE  \/ t = "net" /\ job'["ipc"].pc = "remove" /\ job'["ipc"].f = f
               \/ t = "ipc" /\ job'["net"].pc = "remove" /\ job'["net"].f = f
    <3>1. f \notin listed
      BY <1>2, <1>4 DEF SocketsInv
    <3>2. Removing(f)
      BY <1>1, <2>1, <3>1 DEF EntriesInv
    <3>3. PICK u \in Openers : job[u].pc = "remove" /\ job[u].f = f
      BY <3>2 DEF Removing
    <3>4. u # t /\ job'[u] = job[u]
      BY <1>1, <1>3, <3>3
    <3>5. QED
      BY <1>1, <3>3, <3>4 DEF Openers
  <2>2. QED
    BY <1>3, <1>5, <2>1 DEF SetUpNext
<1>10. SetUpInv'
  <2>1. \A u \in Openers : SetUpNext(u) /\ (job'[u].pc \in SetUpPcs => inbox[job'[u].f] \in Seq(Items))
    BY <1>3, <1>7, <1>8, <1>9
  <2>2. job'["net"].pc \in SetUpPcs /\ job'["ipc"].pc \in SetUpPcs => job'["net"].f # job'["ipc"].f
    BY <1>1, <1>3, <1>7 DEF Openers
  <2>3. QED
    BY <2>1, <2>2, SetUpFrom
<1>11. QED
  BY <1>6, <1>10

\* A thread that goes on setting its connection up while the other one stays.
LEMMA SetUpGoesOn ==
  ASSUME TypesInv, SetUpInv, InboxKept, NEW t \in Openers, NEW pc, Moves(t, pc, job[t].f), job[t].pc \in SetUpPcs,
         UNCHANGED open, listed \subseteq listed',
         \A i \in DOMAIN table : i \in DOMAIN table' /\ table'[i].fd = table[i].fd,
         \A i \in DOMAIN table' \ DOMAIN table : table'[i].fd = job[t].f,
         SetUpNext(t)
  PROVE  SetUpInv'
<1>1. /\ job'[t].pc = pc /\ job'[t].f = job[t].f /\ \A u \in Openers \ {t} : job'[u] = job[u]
  BY MovedIs
<1>2. inbox[job[t].f] \in Seq(Items) /\ \A u \in Openers \ {t} : job[u].pc \in SetUpPcs => job[u].f # job[t].f
  BY SetUpIs
<1>3. ASSUME NEW u \in Openers \ {t} PROVE SetUpNext(u) /\ (job'[u].pc \in SetUpPcs => inbox[job[u].f] \in Seq(Items))
  <2>1. \A i \in DOMAIN table' \ DOMAIN table : job[u].pc \in SetUpPcs => table'[i].fd # job[u].f
    BY <1>2
  <2>2. SetUpNext(u)
    BY <1>1, <2>1, OtherStays
  <2>3. QED
    BY <1>1, <2>2, SetUpIs
<1>4. \A u \in Openers : SetUpNext(u) /\ (job'[u].pc \in SetUpPcs => inbox[job'[u].f] \in Seq(Items))
  BY <1>1, <1>2, <1>3
<1>5. job'["net"].pc \in SetUpPcs /\ job'["ipc"].pc \in SetUpPcs => job'["net"].f # job'["ipc"].f
  BY <1>1, <1>2 DEF Openers
<1>6. QED
  BY <1>4, <1>5, SetUpFrom

\* A connection is listed, then routed.
LEMMA FreshList ==
  ASSUME TypesInv, SocketsInv, EntriesInv, SetUpInv, InboxKept, NEW t \in Threads, List(t) \/ SetRoute(t)
  PROVE  EntriesInv' /\ SetUpInv'
<1>1. PICK pc : /\ t \in Openers /\ Moves(t, pc, job[t].f) /\ UNCHANGED <<open, table>>
                /\ \/ job[t].pc = "list" /\ pc = "route" /\ FreeX /\ listed' = listed \cup {job[t].f}
                   \/ job[t].pc = "route" /\ pc = "add" /\ listed' = listed
  BY ListIs, SetRouteIs
<1>2. /\ job'[t].pc = pc /\ job'[t].f = job[t].f /\ Head(job'[t].todo) = Node(t)
      /\ \A u \in Openers \ {t} : job'[u] = job[u]
  BY <1>1, MovedIs
<1>3. EntriesInv'
  BY <1>1, <1>2, EntriesListed
<1>4. job[t].pc \in SetUpPcs
  BY <1>1 DEF SetUpPcs
<1>5. \A g : Removing(g) => RemovingNext(g)
  BY <1>1, <1>2 DEF Removing, RemovingNext
<1>6. open[job[t].f] = Node(t) \/ RemovingNext(job[t].f)
  BY <1>1, <1>4, <1>5, SetUpIs
<1>7. job[t].f \in listed' \/ RemovingNext(job[t].f)
  <2>1. CASE job[t].pc = "list"
    BY <1>1, <2>1
  <2>2. CASE job[t].pc = "route"
    BY <1>1, <1>4, <1>5, <2>2, SetUpIs
  <2>3. QED
    BY <1>1, <2>1, <2>2
<1>8. ASSUME NEW i \in DOMAIN table', table'[i].fd = job[t].f
      PROVE  t = "net" /\ job'["ipc"].pc = "remove" /\ job'["ipc"].f = job[t].f
  <2>1. LeftOver(t, job[t].f)
    BY <1>1, <1>8 DEF SetUpInv
  <2>2. t = "net"
    BY <1>1, <2>1 DEF LeftOver, FreeX
  <2>3. job'["ipc"] = job["ipc"]
    BY <1>2, <2>2 DEF Openers
  <2>4. QED
    BY <2>1, <2>2, <2>3 DEF LeftOver
<1>9. SetUpNext(t)
  BY <1>1, <1>2, <1>6, <1>7, <1>8 DEF SetUpNext
<1>10. QED
  BY <1>1, <1>3, <1>4, <1>9, SetUpGoesOn

\* The entry of a connection is made: there is none with its number.
LEMMA FreshAdd ==
  ASSUME TypesInv, LocksInv, EntriesInv, SetUpInv, InboxKept, NEW t \in Threads, AddEntry(t)
  PROVE  EntriesInv' /\ SetUpInv'
<1>1. /\ t \in Openers /\ job[t].pc = "add" /\ FreeE(t) /\ Moves(t, "fill", job[t].f)
      /\ UNCHANGED <<open, listed>> /\ job[t].pc \in SetUpPcs
  BY AddIs DEF SetUpPcs
<1>2. PICK b \in Nat \ {0} : /\ b \notin DOMAIN table /\ DOMAIN table' = DOMAIN table \cup {b}
                             /\ \A i \in DOMAIN table : table'[i] = table[i]
                             /\ table'[b].fd = job[t].f
  BY AddIs
<1>3. /\ job'[t].pc = "fill" /\ job'[t].f = job[t].f /\ Head(job'[t].todo) = Node(t)
      /\ \A u \in Openers \ {t} : job'[u] = job[u]
  BY <1>1, MovedIs
<1>4. \A g : Removing(g) => RemovingNext(g)
  BY <1>1, <1>3 DEF Removing, RemovingNext
<1>5. \A i \in DOMAIN table : table[i].fd # job[t].f
  <2>1. ~LeftOver(t, job[t].f)
    <3>1. CASE t = "net"
      <4>1. lockE \in {None, "net"} /\ None # "ipc"
        BY <1>1, <3>1, Constants DEF FreeE, Openers
      <4>2. lockE # "ipc"
        BY <4>1
      <4>3. job["ipc"].pc # "remove"
        BY <4>2 DEF LocksInv
      <4>4. QED
        BY <3>1, <4>3 DEF LeftOver
    <3>2. CASE t = "ipc"
      BY <1>1, <3>2 DEF LeftOver
    <3>3. QED
      BY <1>1, <3>1, <3>2 DEF Openers
  <2>2. QED
    BY <1>1, <2>1 DEF SetUpInv
<1>6. (open[job[t].f] = Node(t) \/ RemovingNext(job[t].f)) /\ (job[t].f \in listed \/ RemovingNext(job[t].f))
  BY <1>1, <1>4, SetUpIs
<1>7. ASSUME NEW i \in DOMAIN table' PROVE EntryNext(i)
  <2>1. CASE i = b
    BY <1>1, <1>2, <1>3, <1>6, <2>1 DEF EntryNext
  <2>2. CASE i # b
    <3>1. i \in DOMAIN table /\ table'[i] = table[i]
      BY <1>2, <2>2
    <3>2. /\ table[i].fd \in listed \/ Removing(table[i].fd)
          /\ table[i].queue = NoQueue => \E u \in Openers : job[u].pc = "fill" /\ job[u].f = table[i].fd
      BY <3>1 DEF EntriesInv
    <3>3. ASSUME NEW u \in Openers, job[u].pc = "fill", job[u].f = table[i].fd
          PROVE  job'[u].pc = "fill" /\ job'[u].f = table[i].fd
      BY <1>1, <1>3, <3>3
    <3>4. table[i].queue = NoQueue => \E u \in Openers : job'[u].pc = "fill" /\ job'[u].f = table[i].fd
      BY <3>2, <3>3
    <3>5. QED
      BY <1>1, <1>4, <3>1, <3>2, <3>4 DEF EntryNext
  <2>3. QED
    BY <2>1, <2>2
<1>8. \A i, j \in DOMAIN table' : table'[i].fd = table'[j].fd => i = j
  BY <1>2, <1>5 DEF EntriesInv
<1>9. EntriesInv'
  BY <1>7, <1>8, EntriesFrom
<1>10. SetUpNext(t)
  BY <1>1, <1>2, <1>3, <1>6 DEF SetUpNext
<1>11. SetUpInv'
  BY <1>1, <1>2, <1>10, SetUpGoesOn
<1>12. QED
  BY <1>9, <1>11

\* The entry is filled: it is there.
LEMMA FreshFill ==
  ASSUME TypesInv, ClientsInv, EntriesInv, SetUpInv, InboxKept, NEW t \in Threads, Fill(t)
  PROVE  EntriesInv' /\ SetUpInv'
<1>1. t \in Openers /\ job[t].pc = "fill" /\ UNCHANGED <<open, listed>> /\ job[t].pc \in SetUpPcs
  BY FillIs DEF SetUpPcs
<1>2. \E i \in DOMAIN table : table[i].fd = job[t].f
  BY <1>1 DEF SetUpInv
<1>3. /\ Moves(t, "activate", job[t].f) /\ DOMAIN table' = DOMAIN table
      /\ \E i \in DOMAIN table :
            /\ table[i].fd = job[t].f
            /\ table'[i].fd = job[t].f /\ table'[i].queue \in Seq(Items)
            /\ \A j \in DOMAIN table \ {i} : table'[j] = table[j]
  BY <1>2, FillIs
<1>4. PICK i \in DOMAIN table :
            /\ table[i].fd = job[t].f
            /\ table'[i].fd = job[t].f /\ table'[i].queue \in Seq(Items)
            /\ \A j \in DOMAIN table \ {i} : table'[j] = table[j]
  BY <1>3
<1>5. /\ job'[t].pc = "activate" /\ job'[t].f = job[t].f /\ Head(job'[t].todo) = Node(t)
      /\ \A u \in Openers \ {t} : job'[u] = job[u]
  BY <1>1, <1>3, MovedIs
<1>6. \A g : Removing(g) => RemovingNext(g)
  BY <1>1, <1>5 DEF Removing, RemovingNext
<1>7. (open[job[t].f] = Node(t) \/ RemovingNext(job[t].f)) /\ (job[t].f \in listed \/ RemovingNext(job[t].f))
  BY <1>1, <1>6, SetUpIs
<1>8. ASSUME NEW j \in DOMAIN table' PROVE EntryNext(j) /\ table'[j].fd = table[j].fd
  <2>1. /\ table[j].fd \in listed \/ Removing(table[j].fd)
        /\ table[j].queue = NoQueue => \E u \in Openers : job[u].pc = "fill" /\ job[u].f = table[j].fd
    BY <1>3, <1>8 DEF EntriesInv
  <2>2. table'[j].fd = table[j].fd
    BY <1>3, <1>4, <1>8
  <2>3. ASSUME table'[j].queue = NoQueue PROVE \E u \in Openers : job'[u].pc = "fill" /\ job'[u].f = table[j].fd
    <3>1. j # i
      BY <1>4, <2>3, RequestIsNone
    <3>2. PICK u \in Openers : job[u].pc = "fill" /\ job[u].f = table[j].fd
      BY <1>3, <1>4, <1>8, <2>1, <2>3, <3>1
    <3>3. u # t
      BY <1>3, <1>4, <1>8, <3>1, <3>2 DEF EntriesInv
    <3>4. QED
      BY <1>5, <3>2, <3>3
  <2>4. QED
    BY <1>1, <1>6, <2>1, <2>2, <2>3 DEF EntryNext
<1>9. EntriesInv'
  <2>1. \A j, k \in DOMAIN table' : table'[j].fd = table'[k].fd => j = k
    BY <1>3, <1>8 DEF EntriesInv
  <2>2. QED
    BY <1>8, <2>1, EntriesFrom
<1>10. SetUpNext(t)
  BY <1>1, <1>5, <1>7 DEF SetUpNext
<1>11. SetUpInv'
  BY <1>1, <1>3, <1>8, <1>10, SetUpGoesOn
<1>12. QED
  BY <1>9, <1>11

\* A listed connection is closed: its entry is to be taken out of the table.
LEMMA FreshClosed ==
  ASSUME TypesInv, SocketsInv, EntriesInv, SetUpInv, InboxKept, NEW t \in Openers, NEW r, NEW f \in listed, Becomes(t, r),
         r.pc = "remove", r.f = f, job[t].pc \in {"loop", "drop"},
         open' = [open EXCEPT ![f] = None], listed' = listed \ {f}, table' = table
  PROVE  EntriesInv' /\ SetUpInv'
<1>1. job'[t] = r /\ \A u \in Openers \ {t} : job'[u] = job[u]
  BY BecomesIs, Constants
<1>2. open \in [Fds -> Askers \cup Nodes \cup {None}] /\ f \in Fds /\ None \notin Nodes
  BY Types, Constants
<1>3. RemovingNext(f) /\ \A g : Removing(g) => RemovingNext(g)
  BY <1>1 DEF Removing, RemovingNext
<1>4. ASSUME NEW i \in DOMAIN table' PROVE EntryNext(i)
  <2>1. /\ table[i].fd \in listed \/ Removing(table[i].fd)
        /\ table[i].queue = NoQueue => \E u \in Openers : job[u].pc = "fill" /\ job[u].f = table[i].fd
    BY <1>4 DEF EntriesInv
  <2>2. table'[i].fd \in listed' \/ RemovingNext(table'[i].fd)
    BY <1>3, <2>1
  <2>3. ASSUME NEW u \in Openers, job[u].pc = "fill", job[u].f = table[i].fd
        PROVE  job'[u].pc = "fill" /\ job'[u].f = table[i].fd
    BY <1>1, <2>3
  <2>4. table[i].queue = NoQueue => \E u \in Openers : job'[u].pc = "fill" /\ job'[u].f = table[i].fd
    BY <2>1, <2>3
  <2>5. QED
    BY <2>2, <2>4 DEF EntryNext
<1>5. \A i, j \in DOMAIN table' : table'[i].fd = table'[j].fd => i = j
  BY DEF EntriesInv
<1>6. EntriesInv'
  BY <1>4, <1>5, EntriesFrom
<1>7. ASSUME NEW u \in Openers \ {t} PROVE SetUpNext(u) /\ (job'[u].pc \in SetUpPcs => inbox[job'[u].f] \in Seq(Items))
  <2>1. job'[u] = job[u] /\ job[u].pc # "crashed"
    BY <1>1 DEF SetUpInv
  <2>2. ASSUME job[u].pc \in {"list", "route", "add"}, NEW i \in DOMAIN table, table[i].fd = job[u].f PROVE FALSE
    <3>1. LeftOver(u, job[u].f)
      BY <2>2 DEF SetUpInv
    <3>2. job[t].pc = "remove"
      BY <3>1 DEF LeftOver, Openers
    <3>3. QED
      BY <3>2
  <2>3. job[u].pc = "fill" => \E i \in DOMAIN table : table[i].fd = job[u].f
    BY DEF SetUpInv
  <2>4. ASSUME job[u].pc \in SetUpPcs
        PROVE  /\ open'[job[u].f] = Node(u) \/ RemovingNext(job[u].f)
               /\ job[u].pc # "list" => job[u].f \in listed' \/ RemovingNext(job[u].f)
               /\ inbox[job[u].f] \in Seq(Items)
    BY <1>2, <1>3, <2>4, SetUpIs
  <2>5. QED
    BY <2>1, <2>2, <2>3, <2>4 DEF SetUpNext, Node
<1>8. SetUpNext(t)
  BY <1>1 DEF SetUpNext, SetUpPcs
<1>9. SetUpInv'
  <2>1. \A u \in Openers : SetUpNext(u) /\ (job'[u].pc \in SetUpPcs => inbox[job'[u].f] \in Seq(Items))
    BY <1>1, <1>7, <1>8 DEF SetUpPcs
  <2>2. ~(job'["net"].pc \in SetUpPcs /\ job'["ipc"].pc \in SetUpPcs)
    BY <1>1 DEF Openers, SetUpPcs
  <2>3. QED
    BY <2>1, <2>2, SetUpFrom
<1>10. QED
  BY <1>6, <1>9

\* The entry of a connection that was closed is taken out of the table; whoever has listed a
\* connection with this number is cut off.
LEMMA FreshRemoved ==
  ASSUME TypesInv, SocketsInv, EntriesInv, SetUpInv, InboxKept, NEW t \in Threads, RemoveEntry(t), Clean'
  PROVE  EntriesInv' /\ SetUpInv'
<1>1. PICK f : f = job[t].f
  OBVIOUS
<1>2. /\ t \in Openers /\ job[t].pc = "remove" /\ f \in Fds
      /\ table' = [i \in {j \in DOMAIN table : table[j].fd # f} |-> table[i]]
      /\ t = "ipc" => Moves(t, "drop", f)
      /\ t = "net" => Becomes(t, Idle)
      /\ UNCHANGED <<open, listed>>
      /\ \A u \in SettingUp(f) : Node(u) \in Nodes => "cut" \in flaws'[Node(u)]
  BY <1>1, RemoveIs
<1>3. PICK r : Becomes(t, r) /\ r.pc \in {"drop", "loop"}
  <2>1. CASE t = "ipc"
    BY <1>2, <2>1 DEF Moves
  <2>2. CASE t = "net"
    BY <1>2, <2>2 DEF Idle
  <2>3. QED
    BY <1>2, <2>1, <2>2 DEF Openers
<1>4. job'[t].pc \in {"drop", "loop"} /\ \A u \in Openers \ {t} : job'[u] = job[u]
  BY <1>3, BecomesIs, Constants
<1>5. ASSUME NEW u \in Openers, job[u].pc \in SetUpPcs \ {"list"} PROVE job[u].f # f
  <2>1. u \in Threads /\ Node(u) \in Nodes
    BY <1>5, SetUpIs
  <2>2. CASE job[u].f = f
    <3>1. u \in SettingUp(f)
      BY <1>5, <2>1, <2>2 DEF SettingUp, SetUpPcs
    <3>2. "cut" \in flaws'[Node(u)]
      BY <1>2, <2>1, <3>1
    <3>3. QED
      BY <2>1, <3>2 DEF Clean
  <2>3. QED
    BY <2>2
<1>6. ASSUME NEW g, g # f, Removing(g) PROVE RemovingNext(g)
  BY <1>1, <1>2, <1>4, <1>6 DEF Removing, RemovingNext
<1>7. \A i \in DOMAIN table' : i \in DOMAIN table /\ table'[i] = table[i] /\ table[i].fd # f
  BY <1>2
<1>8. ASSUME NEW i \in DOMAIN table' PROVE EntryNext(i)
  <2>1. /\ table[i].fd \in listed \/ Removing(table[i].fd)
        /\ table[i].queue = NoQueue => \E u \in Openers : job[u].pc = "fill" /\ job[u].f = table[i].fd
    BY <1>7, <1>8 DEF EntriesInv
  <2>2. table[i].fd \in listed' \/ RemovingNext(table[i].fd)
    BY <1>2, <1>6, <1>7, <1>8, <2>1
  <2>3. ASSUME NEW u \in Openers, job[u].pc = "fill", job[u].f = table[i].fd
        PROVE  job'[u].pc = "fill" /\ job'[u].f = table[i].fd
    BY <1>2, <1>4, <2>3
  <2>4. table[i].queue = NoQueue => \E u \in Openers : job'[u].pc = "fill" /\ job'[u].f = table[i].fd
    BY <2>1, <2>3
  <2>5. QED
    BY <1>7, <1>8, <2>2, <2>4 DEF EntryNext
<1>9. \A i, j \in DOMAIN table' : table'[i].fd = table'[j].fd => i = j
  BY <1>7 DEF EntriesInv
<1>10. EntriesInv'
  BY <1>8, <1>9, EntriesFrom
<1>11. ASSUME NEW u \in Openers \ {t} PROVE SetUpNext(u) /\ (job'[u].pc \in SetUpPcs => inbox[job'[u].f] \in Seq(Items))
  <2>1. job'[u] = job[u] /\ job[u].pc # "crashed"
    BY <1>4 DEF SetUpInv
  <2>2. ASSUME job[u].pc \in {"list", "route", "add"}, NEW i \in DOMAIN table', table'[i].fd = job[u].f PROVE FALSE
    <3>1. LeftOver(u, job[u].f)
      BY <1>7, <2>2 DEF SetUpInv
    <3>2. job[u].f = f
      BY <1>1, <1>2, <3>1 DEF LeftOver, Openers
    <3>3. QED
      BY <1>7, <2>2, <3>2
  <2>3. ASSUME job[u].pc = "fill" PROVE \E i \in DOMAIN table' : table'[i].fd = job[u].f
    <3>1. PICK i \in DOMAIN table : table[i].fd = job[u].f
      BY <2>3 DEF SetUpInv
    <3>2. job[u].f # f
      BY <1>5, <2>3 DEF SetUpPcs
    <3>3. i \in DOMAIN table' /\ table'[i] = table[i]
      BY <1>2, <3>1, <3>2
    <3>4. QED
      BY <3>1, <3>3
  <2>4. ASSUME job[u].pc \in SetUpPcs
        PROVE  /\ open[job[u].f] = Node(u) \/ RemovingNext(job[u].f)
               /\ job[u].pc # "list" => job[u].f \in listed \/ RemovingNext(job[u].f)
               /\ inbox[job[u].f] \in Seq(Items)
    <3>1. /\ open[job[u].f] = Node(u) \/ Removing(job[u].f)
          /\ job[u].pc # "list" => job[u].f \in listed \/ Removing(job[u].f)
          /\ inbox[job[u].f] \in Seq(Items)
      BY <2>4, SetUpIs
    <3>2. CASE job[u].pc = "list"
      BY <3>1, <3>2 DEF SocketsInv
    <3>3. CASE job[u].pc # "list"
      BY <1>5, <1>6, <2>4, <3>1, <3>3
    <3>4. QED
      BY <3>2, <3>3
  <2>5. QED
    BY <1>2, <2>1, <2>2, <2>3, <2>4 DEF SetUpNext, Node
<1>12. SetUpNext(t)
  BY <1>4 DEF SetUpNext, SetUpPcs
<1>13. SetUpInv'
  <2>1. \A u \in Openers : SetUpNext(u) /\ (job'[u].pc \in SetUpPcs => inbox[job'[u].f] \in Seq(Items))
    BY <1>4, <1>11, <1>12 DEF SetUpPcs
  <2>2. ~(job'["net"].pc \in SetUpPcs /\ job'["ipc"].pc \in SetUpPcs)
    BY <1>2, <1>4 DEF Openers, SetUpPcs
  <2>3. QED
    BY <2>1, <2>2, SetUpFrom
<1>14. QED
  BY <1>10, <1>13

\* No null pointer is used: an entry has its queue before the answer can come.
LEMMA FreshQueue ==
  ASSUME TypesInv, EntriesInv, SetUpInv, NEW f \in Fds, NullQueue(f)
  PROVE  FALSE
<1>1. PICK i \in DOMAIN table : table[i].fd = f /\ table[i].queue = NoQueue
  BY DEF NullQueue
<1>2. PICK t \in Openers : job[t].pc = "fill" /\ job[t].f = f
  BY <1>1 DEF EntriesInv
<1>3. inbox[f] \in Seq(Items)
  BY <1>2, SetUpIs DEF SetUpPcs
<1>4. PICK s \in Seq(Items) : s = inbox[f]
  BY <1>3
<1>5. s # <<>> /\ Head(s) = Request
  BY <1>4 DEF NullQueue
<1>6. Head(s) \in Items
  BY <1>5
<1>7. QED
  BY <1>5, <1>6, RequestIsNone

\* Every step keeps the entries and the threads that set connections up apart, as long as none
\* is cut off.
LEMMA FreshStep ==
  ASSUME TypesInv, ClientsInv, LocksInv, SocketsInv, FreshInv, Next
  PROVE  FreshInv'
<1>1. SUFFICES ASSUME Clean' PROVE EntriesInv' /\ SetUpInv'
  BY DEF FreshInv
<1>2. Worse
  BY TypesStep
<1>3. EntriesInv /\ SetUpInv
  BY <1>1, <1>2, CleanBefore DEF FreshInv
<1>4. InboxKept
  BY <1>3, InboxStep
<1>5. CASE Rests
  BY <1>3, <1>4, <1>5, FreshRest
<1>6. ASSUME NEW t \in Threads, Cache(t) \/ List(t) \/ SetRoute(t) \/ AddEntry(t) \/ Fill(t) \/ RemoveEntry(t)
      PROVE  EntriesInv' /\ SetUpInv'
  BY <1>1, <1>3, <1>4, <1>6, FreshCache, FreshList, FreshAdd, FreshFill, FreshRemoved
<1>7. CASE Drop /\ \E p \in DOMAIN job["ipc"].todo : DropCloses(p)
  <2>1. PICK p \in DOMAIN job["ipc"].todo : DropCloses(p)
    BY <1>7
  <2>2. job["ipc"].pc = "drop" /\ table' = table
    BY <1>7 DEF Drop
  <2>3. PICK f : f = job["ipc"].todo[p]
    OBVIOUS
  <2>4. PICK r : r = [pc |-> "remove", a |-> job["ipc"].a, todo |-> Rest(p), f |-> f]
    OBVIOUS
  <2>5. /\ f \in listed /\ open' = [open EXCEPT ![f] = None]
        /\ listed' = listed \ {f} /\ Becomes("ipc", r)
    BY <2>1, <2>3, <2>4 DEF DropCloses
  <2>6. r.pc = "remove" /\ r.f = f /\ "ipc" \in Openers
    BY <2>4 DEF Openers
  <2>7. QED
    BY <1>3, <1>4, <2>2, <2>5, <2>6, FreshClosed
<1>8. ASSUME NEW f \in Fds, CloseTest(f) PROVE EntriesInv' /\ SetUpInv'
  <2>1. PICK r : r = [pc |-> "remove", a |-> None, todo |-> <<>>, f |-> f]
    OBVIOUS
  <2>2. r.pc = "remove" /\ r.f = f /\ Becomes("net", r) /\ "net" \in Openers
    BY <1>8, <2>1, CloseIs DEF Openers
  <2>3. /\ f \in listed /\ job["net"].pc = "loop" /\ open' = [open EXCEPT ![f] = None]
        /\ listed' = listed \ {f} /\ table' = table
    BY <1>8 DEF CloseTest, Idle
  <2>4. QED
    BY <1>3, <1>4, <2>2, <2>3, FreshClosed
<1>9. ASSUME NEW f \in Fds, NullQueue(f) PROVE FALSE
  BY <1>3, <1>9, FreshQueue
<1>10. QED
  BY RestsOr, <1>5, <1>6, <1>7, <1>8, <1>9

-----------------------------------------------------------------------------
\* What is to be shown of the routes, of the listed connections and of the threads that open
\* some, after a step.
OpenPcs == {"cache", "list", "route"}
Wrong(n) == flaws[n] \cap {"twice", "cut"} # {}
WrongNext(n) == flaws'[n] \cap {"twice", "cut"} # {}

RoutedNext(n) ==
    route'[n] # 0 =>
        \/ \E i \in DOMAIN table' : table'[i].fd = route'[n]
        \/ \E t \in Openers : job'[t].pc = "add" /\ job'[t].f = route'[n]
ListedNext(f) ==
    \/ WrongNext(open'[f]) \/ route'[open'[f]] = f
    \/ \E t \in Openers : job'[t].pc = "route" /\ job'[t].f = f /\ Head(job'[t].todo) = open'[f]
AloneNext(t) ==
    job'[t].pc \in OpenPcs =>
        \/ WrongNext(Head(job'[t].todo))
        \/ /\ route'[Head(job'[t].todo)] = 0
           /\ \A u \in Openers : job'[u].pc \in OpenPcs /\ Head(job'[u].todo) = Head(job'[t].todo) => u = t

\* From there follows RouteInv.
LEMMA RouteFrom ==
  ASSUME \A n \in Nodes : RoutedNext(n), \A f \in listed' : ListedNext(f), \A t \in Openers : AloneNext(t)
  PROVE  RouteInv'
BY DEF RouteInv, RoutedNext, ListedNext, AloneNext, WrongNext, OpenPcs, Node

\* What is known of the routes and of a thread that opens a connection.
LEMMA RouteIs ==
  ASSUME TypesInv, RouteInv
  PROVE  /\ \A n \in Nodes : route[n] # 0 =>
              \/ \E i \in DOMAIN table : table[i].fd = route[n]
              \/ \E t \in Openers : job[t].pc = "add" /\ job[t].f = route[n]
         /\ \A f \in listed : Wrong(open[f]) \/ route[open[f]] = f
                              \/ \E t \in Openers : job[t].pc = "route" /\ job[t].f = f /\ Node(t) = open[f]
         /\ \A t \in Openers : job[t].pc \in OpenPcs =>
              /\ Node(t) \in Nodes
              /\ \/ Wrong(Node(t))
                 \/ /\ route[Node(t)] = 0
                    /\ \A u \in Openers : job[u].pc \in OpenPcs /\ Node(u) = Node(t) => u = t
<1>1. ASSUME NEW t \in Openers, job[t].pc \in OpenPcs PROVE Node(t) \in Nodes
  <2>1. t \in Threads /\ job[t].pc \in ChunkPcs
    BY <1>1, Constants DEF OpenPcs, ChunkPcs, SetUpPcs
  <2>2. QED
    BY <2>1, JobOf
<1>2. QED
  BY <1>1 DEF RouteInv, Wrong, OpenPcs

\* What was wrong for a node stays so.
LEMMA StaysWrong ==
  ASSUME Worse, NEW n \in Nodes, Wrong(n)
  PROVE  WrongNext(n)
BY DEF Worse, Wrong, WrongNext

\* The threads that open connections after a step in which none begins to.
LEMMA AloneKept ==
  ASSUME TypesInv, RouteInv, Worse,
         \A t \in Openers : job'[t].pc \in OpenPcs => job[t].pc \in OpenPcs /\ Head(job'[t].todo) = Node(t),
         \A n \in Nodes : route[n] = 0 => route'[n] = 0
  PROVE  \A t \in Openers : AloneNext(t)
<1>1. ASSUME NEW t \in Openers, job'[t].pc \in OpenPcs, ~WrongNext(Node(t))
      PROVE  /\ route'[Node(t)] = 0
             /\ \A u \in Openers : job'[u].pc \in OpenPcs /\ Head(job'[u].todo) = Node(t) => u = t
  <2>1. job[t].pc \in OpenPcs
    BY <1>1
  <2>2. Node(t) \in Nodes /\ ~Wrong(Node(t))
    BY <1>1, <2>1, RouteIs, StaysWrong
  <2>3. route[Node(t)] = 0 /\ \A u \in Openers : job[u].pc \in OpenPcs /\ Node(u) = Node(t) => u = t
    BY <2>1, <2>2, RouteIs
  <2>4. QED
    BY <2>2, <2>3
<1>2. QED
  BY <1>1 DEF AloneNext

\* The listed connections after a step in which no route changes.
LEMMA ListedKept ==
  ASSUME TypesInv, SocketsInv, RouteInv, Worse, listed' \subseteq listed, route' = route,
         \A f \in listed' : open'[f] = open[f],
         \A t \in Openers : job[t].pc = "route" => job'[t] = job[t]
  PROVE  \A f \in listed' : ListedNext(f)
<1>1. ASSUME NEW f \in listed' PROVE ListedNext(f)
  <2>1. f \in listed /\ open[f] \in Nodes /\ open'[f] = open[f]
    BY <1>1 DEF SocketsInv
  <2>2. CASE Wrong(open[f])
    BY <2>1, <2>2, StaysWrong DEF ListedNext
  <2>3. CASE route[open[f]] = f
    BY <2>1, <2>3 DEF ListedNext
  <2>4. CASE \E t \in Openers : job[t].pc = "route" /\ job[t].f = f /\ Node(t) = open[f]
    <3>1. PICK t \in Openers : job[t].pc = "route" /\ job[t].f = f /\ Node(t) = open[f]
      BY <2>4
    <3>2. job'[t].pc = "route" /\ job'[t].f = f /\ Head(job'[t].todo) = open[f]
      BY <3>1 DEF Node
    <3>3. QED
      BY <2>1, <3>2 DEF ListedNext
  <2>5. QED
    BY <2>1, <2>2, <2>3, <2>4, RouteIs
<1>2. QED
  BY <1>1

\* The routes after a step in which no entry goes.
LEMMA RoutedKept ==
  ASSUME TypesInv, RouteInv, route' = route,
         \A i \in DOMAIN table : i \in DOMAIN table' /\ table'[i].fd = table[i].fd,
         \A t \in Openers : job[t].pc = "add" => job'[t] = job[t] \/ \E i \in DOMAIN table' : table'[i].fd = job[t].f
  PROVE  \A n \in Nodes : RoutedNext(n)
<1>1. ASSUME NEW n \in Nodes, route[n] # 0 PROVE RoutedNext(n)
  <2>1. CASE \E i \in DOMAIN table : table[i].fd = route[n]
    BY <2>1 DEF RoutedNext
  <2>2. CASE \E t \in Openers : job[t].pc = "add" /\ job[t].f = route[n]
    BY <2>2 DEF RoutedNext
  <2>3. QED
    BY <1>1, <2>1, <2>2, RouteIs
<1>2. QED
  BY <1>1 DEF RoutedNext

\* The routes after a step that leaves the connections alone.
LEMMA RouteRest ==
  ASSUME TypesInv, SocketsInv, RouteInv, Rests
  PROVE  RouteInv'
<1>1. listed' = listed /\ route' = route /\ Worse /\ listed \subseteq Fds /\ \A t \in Openers : Quiet(t)
  BY Types DEF Rests
<1>2. \A i \in DOMAIN table : i \in DOMAIN table' /\ table'[i].fd = table[i].fd
  BY DEF Rests, SameEntries
<1>3. \A t \in Openers : job[t].pc \in {"add", "route"} => job'[t] = job[t]
  BY <1>1 DEF Quiet, SetUpPcs
<1>4. \A f \in listed' : open'[f] = open[f]
  BY <1>1 DEF Rests, SocketsInv
<1>5. ASSUME NEW t \in Openers, job'[t].pc \in OpenPcs, ~WrongNext(Head(job'[t].todo))
      PROVE  /\ route'[Head(job'[t].todo)] = 0
             /\ \A u \in Openers : job'[u].pc \in OpenPcs /\ Head(job'[u].todo) = Head(job'[t].todo) => u = t
  <2>1. \A u \in Openers : job'[u].pc \in OpenPcs =>
           job'[u] = job[u] \/ (job'[u].pc = "cache" /\ job[u].pc = "other" /\ Opens(u))
    BY <1>1 DEF Quiet, OpenPcs, SetUpPcs
  <2>2. ASSUME NEW u \in Openers, NEW v \in Openers \ {u}, Opens(u), job[v].pc \in OpenPcs, Node(v) = Node(u),
               job[u].pc = "other"
        PROVE  WrongNext(Node(u))
    <3>1. v \in Making(Node(u))
      BY <2>2 DEF Making, Openers, OpenPcs
    <3>2. "twice" \in flaws'[Node(u)]
      BY <2>2, <3>1 DEF Opens
    <3>3. QED
      BY <3>2 DEF WrongNext
  <2>3. CASE job'[t] = job[t]
    <3>1. Node(t) = Head(job'[t].todo) /\ job[t].pc \in OpenPcs
      BY <1>5, <2>3 DEF Node
    <3>2. route[Node(t)] = 0 /\ \A u \in Openers : job[u].pc \in OpenPcs /\ Node(u) = Node(t) => u = t
      BY <1>1, <1>5, <3>1, RouteIs, StaysWrong
    <3>3. ASSUME NEW u \in Openers, job'[u].pc \in OpenPcs, Head(job'[u].todo) = Node(t), u # t PROVE FALSE
      <4>1. CASE job'[u] = job[u]
        BY <3>2, <3>3, <4>1 DEF Node
      <4>2. CASE job[u].pc = "other" /\ Opens(u)
        <5>1. Node(u) = Node(t)
          BY <3>3, <4>2 DEF Opens
        <5>2. WrongNext(Node(u))
          BY <2>2, <3>1, <3>3, <4>2, <5>1
        <5>3. QED
          BY <1>5, <3>1, <5>1, <5>2
      <4>3. QED
        BY <2>1, <3>3, <4>1, <4>2
    <3>4. QED
      BY <1>1, <3>1, <3>2, <3>3
  <2>4. CASE job'[t].pc = "cache" /\ job[t].pc = "other" /\ Opens(t)
    <3>1. /\ Head(job'[t].todo) = Node(t) /\ route[Node(t)] = 0
          /\ \A u \in Openers \ {t} : job'[u] = job[u]
      BY <2>4 DEF Opens
    <3>2. ASSUME NEW u \in Openers, job'[u].pc \in OpenPcs, Head(job'[u].todo) = Node(t), u # t PROVE FALSE
      <4>1. job[u].pc \in OpenPcs /\ Node(u) = Node(t)
        BY <3>1, <3>2 DEF Node
      <4>2. WrongNext(Node(t))
        BY <2>2, <2>4, <3>2, <4>1
      <4>3. QED
        BY <1>5, <3>1, <4>2
    <3>3. QED
      BY <1>1, <3>1, <3>2
  <2>5. QED
    BY <1>5, <2>1, <2>3, <2>4
<1>6. \A t \in Openers : AloneNext(t)
  BY <1>5 DEF AloneNext
<1>7. \A f \in listed' : ListedNext(f)
  BY <1>1, <1>3, <1>4, ListedKept
<1>8. \A n \in Nodes : RoutedNext(n)
  BY <1>1, <1>2, <1>3, RoutedKept
<1>9. QED
  BY <1>6, <1>7, <1>8, RouteFrom

\* The routes after a connection was opened, listed, put into the table or filled, or closed.
LEMMA RouteMoved ==
  ASSUME TypesInv, ClientsInv, SocketsInv, RouteInv,
         \/ \E t \in Threads : Cache(t) \/ List(t) \/ AddEntry(t) \/ Fill(t)
         \/ Drop /\ \E p \in DOMAIN job["ipc"].todo : DropCloses(p)
         \/ \E f \in Fds : NullQueue(f) \/ CloseTest(f)
  PROVE  RouteInv'
<1>1. /\ open \in [Fds -> Askers \cup Nodes \cup {None}] /\ None \notin Nodes /\ listed \subseteq Fds
      /\ Openers \subseteq Threads
  BY Types, Constants
<1>2. ASSUME UNCHANGED <<got, flaws>> PROVE Worse
  BY <1>2 DEF Worse
<1>3. ASSUME NEW t \in Openers, NEW pc, NEW f, Moves(t, pc, f), pc \in OpenPcs => job[t].pc \in OpenPcs, Worse, route' = route
      PROVE  \A u \in Openers : AloneNext(u)
  <2>1. /\ job'[t].pc = pc /\ Head(job'[t].todo) = Node(t)
        /\ \A u \in Openers \ {t} : job'[u] = job[u] /\ Head(job'[u].todo) = Node(u)
    BY <1>3, MovedIs
  <2>2. QED
    BY <1>3, <2>1, AloneKept
<1>4. ASSUME NEW t \in Openers, NEW r, Becomes(t, r), r.pc \notin OpenPcs, job[t].pc \in {"loop", "drop"},
             Worse, listed' \subseteq listed, UNCHANGED <<route, table>>, \A f \in listed' : open'[f] = open[f]
      PROVE  RouteInv'
  <2>1. job'[t] = r /\ \A u \in Openers \ {t} : job'[u] = job[u]
    BY <1>1, <1>4, BecomesIs
  <2>2. \A u \in Openers : job'[u].pc \in OpenPcs => job[u].pc \in OpenPcs /\ Head(job'[u].todo) = Node(u)
    BY <1>4, <2>1 DEF Node
  <2>3. \A u \in Openers : job[u].pc \in {"route", "add"} => job'[u] = job[u]
    BY <1>4, <2>1
  <2>4. \A u \in Openers : AloneNext(u)
    BY <1>4, <2>2, AloneKept
  <2>5. \A f \in listed' : ListedNext(f)
    BY <1>4, <2>3, ListedKept
  <2>6. \A n \in Nodes : RoutedNext(n)
    BY <1>4, <2>3, RoutedKept
  <2>7. QED
    BY <2>4, <2>5, <2>6, RouteFrom
<1>5. ASSUME NEW t \in Threads, Cache(t) PROVE RouteInv'
  <2>1. PICK f \in Fds : open[f] = None /\ open' = [open EXCEPT ![f] = Node(t)] /\ Moves(t, "list", f)
    BY <1>5, CacheIs
  <2>2. t \in Openers /\ job[t].pc = "cache" /\ Worse /\ UNCHANGED <<listed, route, table>>
    BY <1>2, <1>5, CacheIs
  <2>3. \A u \in Openers \ {t} : job'[u] = job[u]
    BY <2>1, <2>2, MovedIs
  <2>4. \A u \in Openers : AloneNext(u)
    BY <1>3, <2>1, <2>2 DEF OpenPcs
  <2>5. \A g \in listed' : open'[g] = open[g]
    BY <1>1, <2>1, <2>2 DEF SocketsInv
  <2>6. \A g \in listed' : ListedNext(g)
    BY <2>2, <2>3, <2>5, ListedKept
  <2>7. \A n \in Nodes : RoutedNext(n)
    BY <2>2, <2>3, RoutedKept
  <2>8. QED
    BY <2>4, <2>6, <2>7, RouteFrom
<1>6. ASSUME NEW t \in Threads, List(t) PROVE RouteInv'
  <2>1. /\ t \in Openers /\ job[t].pc = "list" /\ Moves(t, "route", job[t].f) /\ listed' = listed \cup {job[t].f}
        /\ Worse /\ UNCHANGED <<open, route, table>>
    BY <1>2, <1>6, ListIs
  <2>2. /\ job'[t].pc = "route" /\ job'[t].f = job[t].f /\ Head(job'[t].todo) = Node(t)
        /\ \A u \in Openers \ {t} : job'[u] = job[u]
    BY <2>1, MovedIs
  <2>3. \A u \in Openers : AloneNext(u)
    BY <1>3, <2>1 DEF OpenPcs
  <2>4. ASSUME NEW g \in listed' PROVE ListedNext(g)
    <3>1. CASE g = job[t].f
      BY <2>1, <2>2, <3>1 DEF ListedNext, SocketsInv
    <3>2. CASE g # job[t].f
      <4>1. g \in listed /\ open[g] \in Nodes
        BY <2>1, <2>4, <3>2 DEF SocketsInv
      <4>2. CASE Wrong(open[g])
        BY <2>1, <4>1, <4>2, StaysWrong DEF ListedNext
      <4>3. CASE route[open[g]] = g
        BY <2>1, <4>3 DEF ListedNext
      <4>4. CASE \E u \in Openers : job[u].pc = "route" /\ job[u].f = g /\ Node(u) = open[g]
        <5>1. PICK u \in Openers : job[u].pc = "route" /\ job[u].f = g /\ Node(u) = open[g]
          BY <4>4
        <5>2. job'[u] = job[u]
          BY <2>1, <2>2, <5>1
        <5>3. QED
          BY <2>1, <5>1, <5>2 DEF ListedNext, Node
      <4>5. QED
        BY <4>1, <4>2, <4>3, <4>4, RouteIs
    <3>3. QED
      BY <3>1, <3>2
  <2>5. \A n \in Nodes : RoutedNext(n)
    BY <2>1, <2>2, RoutedKept
  <2>6. QED
    BY <2>3, <2>4, <2>5, RouteFrom
<1>7. ASSUME NEW t \in Threads, AddEntry(t) \/ Fill(t) PROVE RouteInv'
  <2>1. PICK pc : /\ t \in Openers /\ job[t].pc \in {"add", "fill"} /\ Moves(t, pc, job[t].f)
                  /\ pc \in {"fill", "activate", "crashed"}
    BY <1>7, AddIs, FillIs
  <2>2. Worse /\ UNCHANGED <<open, listed, route>>
    BY <1>2, <1>7, AddIs, FillIs DEF AccountIs
  <2>3. \A u \in Openers \ {t} : job'[u] = job[u]
    BY <2>1, MovedIs
  <2>4. pc \notin OpenPcs
    BY <2>1 DEF OpenPcs
  <2>5. \A u \in Openers : AloneNext(u)
    BY <1>3, <2>1, <2>2, <2>4
  <2>6. \A g \in listed' : ListedNext(g)
    BY <2>1, <2>2, <2>3, ListedKept
  <2>7. /\ \A i \in DOMAIN table : i \in DOMAIN table' /\ table'[i].fd = table[i].fd
        /\ job[t].pc = "add" => \E i \in DOMAIN table' : table'[i].fd = job[t].f
    <3>1. CASE AddEntry(t)
      BY <3>1, AddIs
    <3>2. CASE Fill(t)
      <4>1. job[t].pc = "fill"
        BY <3>2, FillIs
      <4>2. CASE table' = table
        BY <4>1, <4>2
      <4>3. CASE table' # table
        BY <3>2, <4>1, <4>3, FillIs
      <4>4. QED
        BY <4>2, <4>3
    <3>3. QED
      BY <1>7, <3>1, <3>2
  <2>8. \A n \in Nodes : RoutedNext(n)
    BY <2>1, <2>2, <2>3, <2>7, RoutedKept
  <2>9. QED
    BY <2>5, <2>6, <2>8, RouteFrom
<1>8. CASE Drop /\ \E p \in DOMAIN job["ipc"].todo : DropCloses(p)
  <2>1. PICK p \in DOMAIN job["ipc"].todo : DropCloses(p)
    BY <1>8
  <2>2. job["ipc"].pc = "drop" /\ UNCHANGED <<route, table>> /\ "ipc" \in Openers
    BY <1>8 DEF Drop, Openers
  <2>3. PICK f : f = job["ipc"].todo[p]
    OBVIOUS
  <2>4. /\ open' = [open EXCEPT ![f] = None] /\ listed' = listed \ {f} /\ Worse
        /\ \E r : Becomes("ipc", r) /\ r.pc = "remove"
    BY <2>1, <2>3 DEF DropCloses, AccountIs
  <2>5. PICK r : Becomes("ipc", r) /\ r.pc = "remove"
    BY <2>4
  <2>6. r.pc \notin OpenPcs /\ listed' \subseteq listed /\ \A g \in listed' : open'[g] = open[g]
    BY <1>1, <2>4, <2>5 DEF OpenPcs
  <2>7. QED
    BY <1>4, <2>2, <2>4, <2>5, <2>6
<1>9. ASSUME NEW f \in Fds, NullQueue(f) \/ CloseTest(f) PROVE RouteInv'
  <2>1. /\ job["net"].pc = "loop" /\ UNCHANGED <<route, table, got, flaws>> /\ "net" \in Openers
        /\ (open' = open /\ listed' = listed) \/ (open' = [open EXCEPT ![f] = None] /\ listed' = listed \ {f})
    BY <1>9 DEF NullQueue, CloseTest, Idle, Openers
  <2>2. PICK r : Becomes("net", r) /\ r.pc \in {"crashed", "remove"}
    <3>1. CASE NullQueue(f)
      BY <3>1 DEF NullQueue, Moves
    <3>2. CASE CloseTest(f)
      <4>1. PICK q : q = [pc |-> "remove", a |-> None, todo |-> <<>>, f |-> f]
        OBVIOUS
      <4>2. Becomes("net", q) /\ q.pc = "remove"
        BY <3>2, <4>1, CloseIs
      <4>3. QED
        BY <4>2
    <3>3. QED
      BY <1>9, <3>1, <3>2
  <2>3. r.pc \notin OpenPcs /\ listed' \subseteq listed /\ \A g \in listed' : open'[g] = open[g]
    BY <1>1, <2>1, <2>2 DEF OpenPcs
  <2>4. QED
    BY <1>2, <1>4, <2>1, <2>2, <2>3
<1>10. QED
  BY <1>5, <1>6, <1>7, <1>8, <1>9

\* The routes after one was set.
LEMMA RouteSet ==
  ASSUME TypesInv, SocketsInv, RouteInv, NEW t \in Threads, SetRoute(t)
  PROVE  RouteInv'
<1>1. PICK f : f = job[t].f
  OBVIOUS
<1>2. PICK n : n = Node(t)
  OBVIOUS
<1>3. /\ t \in Openers /\ job[t].pc = "route" /\ f \in Fds /\ n \in Nodes
      /\ route' = [route EXCEPT ![n] = f] /\ Moves(t, "add", f)
      /\ UNCHANGED <<open, listed, table, flaws>>
  BY <1>1, <1>2, SetRouteIs
<1>4. /\ job'[t].pc = "add" /\ job'[t].f = f
      /\ \A u \in Openers \ {t} : job'[u] = job[u] /\ Head(job'[u].todo) = Node(u)
  BY <1>3, MovedIs
<1>5. route'[n] = f /\ f # 0 /\ \A m \in Nodes \ {n} : route'[m] = route[m]
  BY <1>3, Types DEF Fds
<1>6. Worse
  BY <1>3 DEF Worse
<1>7. ASSUME NEW m \in Nodes PROVE RoutedNext(m)
  <2>1. CASE m = n
    BY <1>3, <1>4, <1>5, <2>1 DEF RoutedNext
  <2>2. CASE m # n
    <3>1. route'[m] = route[m]
      BY <1>5, <2>2
    <3>2. \A u \in Openers : job[u].pc = "add" => job'[u] = job[u]
      BY <1>3, <1>4
    <3>3. QED
      BY <1>3, <3>1, <3>2, RouteIs DEF RoutedNext
  <2>3. QED
    BY <2>1, <2>2
<1>8. ~Wrong(n) => route[n] = 0 /\ \A u \in Openers : job[u].pc \in OpenPcs /\ Node(u) = n => u = t
  BY <1>2, <1>3, RouteIs DEF OpenPcs
<1>9. ASSUME NEW g \in listed' PROVE ListedNext(g)
  <2>1. g \in listed /\ g \in Fds /\ g # 0 /\ open[g] \in Nodes /\ open' = open
    BY <1>3, <1>9, Types DEF SocketsInv, Fds
  <2>2. CASE Wrong(open[g])
    BY <1>6, <2>1, <2>2, StaysWrong DEF ListedNext
  <2>3. CASE ~Wrong(open[g]) /\ open[g] = n
    <3>1. route[n] # g
      BY <1>8, <2>1, <2>3
    <3>2. PICK u \in Openers : job[u].pc = "route" /\ job[u].f = g /\ Node(u) = n
      BY <2>1, <2>3, <3>1, RouteIs
    <3>3. g = f
      BY <1>1, <1>8, <2>3, <3>2 DEF OpenPcs
    <3>4. QED
      BY <1>5, <2>1, <2>3, <3>3 DEF ListedNext
  <2>4. CASE ~Wrong(open[g]) /\ open[g] # n
    <3>1. CASE route[open[g]] = g
      BY <1>5, <2>1, <2>4, <3>1 DEF ListedNext
    <3>2. CASE \E u \in Openers : job[u].pc = "route" /\ job[u].f = g /\ Node(u) = open[g]
      <4>1. PICK u \in Openers : job[u].pc = "route" /\ job[u].f = g /\ Node(u) = open[g]
        BY <3>2
      <4>2. u # t
        BY <1>2, <2>4, <4>1
      <4>3. job'[u].pc = "route" /\ job'[u].f = g /\ Head(job'[u].todo) = open[g]
        BY <1>4, <4>1, <4>2
      <4>4. QED
        BY <2>1, <4>3 DEF ListedNext
    <3>3. QED
      BY <2>1, <2>4, <3>1, <3>2, RouteIs
  <2>5. QED
    BY <2>2, <2>3, <2>4
<1>10. ASSUME NEW u \in Openers, job'[u].pc \in OpenPcs, ~WrongNext(Head(job'[u].todo))
       PROVE  /\ route'[Head(job'[u].todo)] = 0
              /\ \A v \in Openers : job'[v].pc \in OpenPcs /\ Head(job'[v].todo) = Head(job'[u].todo) => v = u
  <2>1. /\ \A v \in Openers : job'[v].pc \in OpenPcs =>
             v # t /\ job[v].pc \in OpenPcs /\ Head(job'[v].todo) = Node(v)
    BY <1>4 DEF OpenPcs
  <2>2. u # t /\ job[u].pc \in OpenPcs /\ Head(job'[u].todo) = Node(u)
    BY <1>10, <2>1
  <2>3. Node(u) \in Nodes
    BY <2>2, RouteIs
  <2>4. route[Node(u)] = 0 /\ \A v \in Openers : job[v].pc \in OpenPcs /\ Node(v) = Node(u) => v = u
    BY <1>6, <1>10, <2>2, <2>3, RouteIs, StaysWrong
  <2>5. Node(u) # n
    BY <1>2, <1>3, <2>2, <2>4 DEF OpenPcs
  <2>6. QED
    BY <1>5, <2>1, <2>2, <2>3, <2>4, <2>5
<1>11. \A u \in Openers : AloneNext(u)
  BY <1>10 DEF AloneNext
<1>12. QED
  BY <1>7, <1>9, <1>11, RouteFrom

\* The routes after the entries of a number have gone.
LEMMA RouteRemoved ==
  ASSUME TypesInv, SocketsInv, RouteInv, NEW t \in Threads, RemoveEntry(t)
  PROVE  RouteInv'
<1>1. PICK f : f = job[t].f
  OBVIOUS
<1>2. /\ t \in Openers /\ job[t].pc = "remove" /\ f \in Fds
      /\ table' = [i \in {j \in DOMAIN table : table[j].fd # f} |-> table[i]]
      /\ route' = [n \in Nodes |-> IF route[n] = f /\ ByFd(f) # 0 THEN 0 ELSE route[n]]
      /\ t = "ipc" => Moves(t, "drop", f)
      /\ t = "net" => Becomes(t, Idle)
      /\ UNCHANGED <<open, listed>> /\ Worse
      /\ \A u \in SettingUp(f) : Node(u) \in Nodes => "cut" \in flaws'[Node(u)]
  BY <1>1, RemoveIs DEF AccountIs
<1>3. /\ job'[t].pc \in {"drop", "loop"}
      /\ \A u \in Openers \ {t} : job'[u] = job[u]
  <2>1. CASE t = "ipc"
    BY <1>2, <2>1, MovedIs
  <2>2. CASE t = "net"
    <3>1. job'[t] = Idle /\ \A u \in Openers \ {t} : job'[u] = job[u]
      BY <1>2, <2>2, Constants, BecomesIs
    <3>2. QED
      BY <3>1 DEF Idle
  <2>3. QED
    BY <1>2, <2>1, <2>2 DEF Openers
<1>4. \A u \in Openers : job'[u].pc \in OpenPcs => job[u].pc \in OpenPcs /\ Head(job'[u].todo) = Node(u)
  BY <1>3 DEF OpenPcs, Node
<1>5. \A n \in Nodes : route[n] = 0 => route'[n] = 0
  BY <1>2
<1>6. \A u \in Openers : AloneNext(u)
  BY <1>2, <1>4, <1>5, AloneKept
<1>7. \A u \in Openers : job[u].pc \in {"add", "route"} => job'[u] = job[u]
  BY <1>2, <1>3
<1>8. ASSUME NEW n \in Nodes, route'[n] # 0 PROVE RoutedNext(n)
  <2>1. route'[n] = route[n] /\ (route[n] # f \/ ByFd(f) = 0)
    BY <1>2, <1>8
  <2>2. CASE \E i \in DOMAIN table : table[i].fd = route[n]
    <3>1. PICK i \in DOMAIN table : table[i].fd = route[n]
      BY <2>2
    <3>2. table[i].fd # f
      BY <2>1, <3>1, Types, ByFdIs
    <3>3. i \in DOMAIN table' /\ table'[i] = table[i]
      BY <1>2, <3>1, <3>2
    <3>4. QED
      BY <2>1, <3>1, <3>3 DEF RoutedNext
  <2>3. CASE \E u \in Openers : job[u].pc = "add" /\ job[u].f = route[n]
    BY <1>7, <2>1, <2>3 DEF RoutedNext
  <2>4. QED
    BY <1>8, <2>1, <2>2, <2>3, RouteIs
<1>9. ASSUME NEW g \in listed' PROVE ListedNext(g)
  <2>1. g \in listed /\ open[g] \in Nodes /\ open' = open
    BY <1>2, <1>9 DEF SocketsInv
  <2>2. CASE Wrong(open[g])
    BY <1>2, <2>1, <2>2, StaysWrong DEF ListedNext
  <2>3. CASE route[open[g]] = g /\ g # f
    BY <1>2, <2>1, <2>3 DEF ListedNext
  <2>4. CASE g = f
    <3>1. job["net"].f = f /\ job["net"].pc \in {"route", "add"} /\ open[f] = Node("net")
      BY <1>1, <1>2, <2>1, <2>4 DEF SocketsInv
    <3>2. "net" \in SettingUp(f)
      BY <3>1 DEF SettingUp, Threads
    <3>3. "cut" \in flaws'[open[f]]
      BY <1>2, <2>1, <2>4, <3>1, <3>2
    <3>4. QED
      BY <2>1, <2>4, <3>3 DEF ListedNext, WrongNext
  <2>5. CASE \E u \in Openers : job[u].pc = "route" /\ job[u].f = g /\ Node(u) = open[g]
    <3>1. PICK u \in Openers : job[u].pc = "route" /\ job[u].f = g /\ Node(u) = open[g]
      BY <2>5
    <3>2. job'[u].pc = "route" /\ job'[u].f = g /\ Head(job'[u].todo) = open[g]
      BY <1>7, <3>1 DEF Node
    <3>3. QED
      BY <2>1, <3>2 DEF ListedNext
  <2>6. QED
    BY <2>1, <2>2, <2>3, <2>4, <2>5, RouteIs
<1>10. \A n \in Nodes : RoutedNext(n)
  BY <1>8 DEF RoutedNext
<1>11. QED
  BY <1>6, <1>9, <1>10, RouteFrom

\* Every step keeps the routes.
LEMMA RouteStep ==
  ASSUME TypesInv, ClientsInv, SocketsInv, RouteInv, Next
  PROVE  RouteInv'
<1>1. CASE Rests
  BY <1>1, RouteRest
<1>2. ASSUME NEW t \in Threads, Cache(t) \/ List(t) \/ SetRoute(t) \/ AddEntry(t) \/ Fill(t) \/ RemoveEntry(t)
      PROVE  RouteInv'
  BY <1>2, RouteMoved, RouteSet, RouteRemoved
<1>3. CASE Drop /\ \E p \in DOMAIN job["ipc"].todo : DropCloses(p)
  BY <1>3, RouteMoved
<1>4. CASE \E f \in Fds : NullQueue(f) \/ CloseTest(f)
  BY <1>4, RouteMoved
<1>5. QED
  BY <1>1, <1>2, <1>3, <1>4, RestsOr

-----------------------------------------------------------------------------
\* A client that has come keeps its number, and is there until it leaves.
AskerNext(a) ==
    /\ ask[a].at # "away" => ask'[a].at # "away" /\ fd'[a] = fd[a]
    /\ Present(a) => Present(a)' \/ TesterLeaves(a) \/ EquipLeaves(a)

\* That is so for every step.
LEMMA AskerStep ==
  ASSUME TypesInv, ClientsInv, Next
  PROVE  \A a \in Askers : AskerNext(a)
<1>1. ASSUME UNCHANGED <<ask, fd>> PROVE \A a \in Askers : AskerNext(a)
  BY <1>1 DEF AskerNext, Present
<1>2. ASSUME NEW b \in Askers, Connect(b) \/ TesterLeaves(b) \/ EquipLeaves(b)
      PROVE  \A a \in Askers : AskerNext(a)
  <2>1. PICK p : p = IF Connect(b) THEN "idle" ELSE "gone"
    OBVIOUS
  <2>2. /\ p \in {"idle", "gone"} /\ ask' = [ask EXCEPT ![b].at = p]
        /\ Connect(b) => ask[b].at = "away" /\ fd' = [fd EXCEPT ![b] = LowestFree]
        /\ ~Connect(b) => fd' = fd
    BY <1>2, <2>1, Zenon DEF Connect, TesterLeaves, EquipLeaves
  <2>3. ask'[b].at = p /\ \A a \in Askers \ {b} : ask'[a].at = ask[a].at
    <3>1. \A a \in Askers : ask'[a].at = IF a = b THEN p ELSE ask[a].at
      BY <2>2, AtIs
    <3>2. QED
      BY <3>1
  <2>4. \A a \in Askers \ {b} : fd'[a] = fd[a] /\ (ask[b].at # "away" => fd'[b] = fd[b])
    BY <2>2, Types
  <2>5. AskerNext(b)
    <3>1. CASE Connect(b)
      BY <2>2, <3>1 DEF AskerNext, Present
    <3>2. CASE ~Connect(b)
      BY <1>2, <2>2, <2>3, <3>2 DEF AskerNext
    <3>3. QED
      BY <3>1, <3>2
  <2>6. QED
    BY <2>3, <2>4, <2>5 DEF AskerNext, Present
<1>3. ASSUME NEW b \in Askers, NEW to \in Targets, NEW len \in Lengths, Ask(b, to, len)
      PROVE  \A a \in Askers : AskerNext(a)
  <2>1. PICK q : q = [at |-> "first", to |-> to, msg |-> asked + 1, next |-> 1, len |-> len]
    OBVIOUS
  <2>2. q.at = "first" /\ fd' = fd /\ ask' = [ask EXCEPT ![b] = q]
    BY <1>3, <2>1 DEF Ask
  <2>3. ask'[b] = q /\ \A a \in Askers \ {b} : ask'[a] = ask[a]
    BY <2>2, Types
  <2>4. QED
    BY <2>2, <2>3 DEF AskerNext, Present
<1>4. ASSUME NEW t \in Threads, GoesOn(t) \/ IsDone(t), fd' = fd, job[t].pc \in ChunkPcs
      PROVE  \A a \in Askers : AskerNext(a)
  <2>1. PICK b \in Askers : b = job[t].a
    BY <1>4, JobOf
  <2>2. CASE ask' = ask
    BY <1>1, <1>4, <2>2
  <2>3. CASE ask' # ask
    <3>1. PICK p : p = IF LastOf(b) THEN "idle" ELSE "rest"
      OBVIOUS
    <3>2. ask' = [ask EXCEPT ![b].next = @ + 1, ![b].at = p]
      BY <1>4, <2>1, <2>3, <3>1 DEF IsDone, GoesOn
    <3>3. PICK q \in Question : q = ask[b]
      BY Types
    <3>4. PICK k : k = [q EXCEPT !.next = @ + 1]
      OBVIOUS
    <3>5. PICK r : r = [k EXCEPT !.at = p]
      OBVIOUS
    <3>6. r.at = p /\ p \in {"idle", "rest"}
      BY <3>1, <3>4, <3>5 DEF Question
    <3>7. ask'[b] = r /\ \A a \in Askers \ {b} : ask'[a] = ask[a]
      BY <3>2, <3>3, <3>4, <3>5, Types
    <3>8. QED
      BY <1>4, <3>6, <3>7 DEF AskerNext, Present
  <2>4. QED
    BY <2>2, <2>3
<1>5. ASSUME NEW t \in Threads, Finishes(t) \/ Writes(t) PROVE \A a \in Askers : AskerNext(a)
  <2>1. /\ GoesOn(t) \/ IsDone(t)
        /\ fd' = fd /\ job[t].pc \in ChunkPcs
    BY <1>5 DEF Finishes, Writes, ChunkPcs, SetUpPcs
  <2>2. QED
    BY <1>4, <2>1
<1>6. ASSUME NEW a \in Askers, NEW t \in Threads, (First(a) /\ t = Reader(a)) \/ (t \in Workers /\ Later(t, a))
      PROVE  UNCHANGED <<ask, fd>>
  BY <1>6, StartsIs
<1>7. ASSUME NEW t \in Threads,
             Decides(t) \/ Cache(t) \/ List(t) \/ SetRoute(t) \/ AddEntry(t) \/ Fill(t) \/ RemoveEntry(t)
      PROVE  UNCHANGED <<ask, fd>>
  BY <1>7 DEF Decides, Cache, List, SetRoute, AddEntry, Fill, RemoveEntry
<1>8. ASSUME Leave \/ Drop PROVE UNCHANGED <<ask, fd>>
  BY <1>8 DEF Leave, Drop
<1>9. ASSUME NEW f \in Fds, Reads(f) \/ NullQueue(f) \/ Hang(f) \/ CloseTest(f) PROVE UNCHANGED <<ask, fd>>
  BY <1>9 DEF Reads, NullQueue, Hang, CloseTest
<1>10. QED
  BY Kinds, <1>1, <1>2, <1>3, <1>5, <1>6, <1>7, <1>8, <1>9

\* The entries stay as they are, or one comes, is filled or goes.
LEMMA EntriesOr ==
  ASSUME TypesInv, ClientsInv, SocketsInv, Next
  PROVE  SameEntries \/ \E t \in Threads : AddEntry(t) \/ Fill(t) \/ RemoveEntry(t)
<1>1. ASSUME NEW t \in Threads, Cache(t) \/ List(t) \/ SetRoute(t) PROVE table' = table
  BY <1>1 DEF Cache, List, SetRoute
<1>2. ASSUME Drop PROVE table' = table
  BY <1>2 DEF Drop
<1>3. ASSUME NEW f \in Fds, NullQueue(f) \/ CloseTest(f) PROVE table' = table
  BY <1>3 DEF NullQueue, CloseTest
<1>4. Rests => SameEntries
  BY DEF Rests
<1>5. QED
  BY RestsOr, TableUnchanged, <1>1, <1>2, <1>3, <1>4

\* Every step keeps the sources.
LEMMA SourcesStep ==
  ASSUME TypesInv, ClientsInv, SocketsInv, SourcesInv, Next
  PROVE  SourcesInv'
<1>1. ASSUME NEW i \in DOMAIN table, i \in DOMAIN table',
             table'[i].source = table[i].source, table'[i].opener = table[i].opener
      PROVE  IF table'[i].opener = None THEN table'[i].source = 0
             ELSE table'[i].source = fd'[table'[i].opener] /\ ask'[table'[i].opener].at # "away"
  <2>1. table[i].opener \in Askers \cup {None}
    BY Types DEF Entry
  <2>2. QED
    BY <1>1, <2>1, AskerStep DEF SourcesInv, AskerNext
<1>2. CASE SameEntries
  BY <1>1, <1>2 DEF SameEntries, SourcesInv
<1>3. ASSUME NEW t \in Threads, AddEntry(t) PROVE SourcesInv'
  <2>1. \A i \in DOMAIN table' : \/ i \in DOMAIN table /\ table'[i] = table[i]
                                 \/ table'[i].opener = None /\ table'[i].source = 0
    BY <1>3, AddIs
  <2>2. QED
    BY <1>1, <2>1 DEF SourcesInv
<1>4. ASSUME NEW t \in Threads, Fill(t) PROVE SourcesInv'
  <2>1. PICK a \in Askers : a = job[t].a
    BY <1>4, FillIs, JobOf DEF ChunkPcs, SetUpPcs
  <2>2. ask[a].at = "first" /\ UNCHANGED <<ask, fd>>
    BY <1>4, <2>1, FillIs, Constants DEF ClientsInv, ChunkPcs, SetUpPcs, Openers
  <2>3. a # None
    BY Constants
  <2>4. \A i \in DOMAIN table' : \/ i \in DOMAIN table /\ table'[i] = table[i]
                                 \/ table'[i].opener = a /\ table'[i].source = fd[a]
    BY <1>4, <2>1, FillIs
  <2>5. QED
    BY <1>1, <2>2, <2>3, <2>4 DEF SourcesInv
<1>5. ASSUME NEW t \in Threads, RemoveEntry(t) PROVE SourcesInv'
  <2>1. \A i \in DOMAIN table' : i \in DOMAIN table /\ table'[i] = table[i]
    BY <1>5, RemoveIs
  <2>2. QED
    BY <1>1, <2>1 DEF SourcesInv
<1>6. QED
  BY <1>2, <1>3, <1>4, <1>5, EntriesOr

-----------------------------------------------------------------------------
\* A thread that closes connections goes on with it by steps of its own.
LEMMA ClosersStay ==
  ASSUME TypesInv, ClientsInv, Next, NEW t \in Openers, job[t].pc \in {"leave", "drop", "remove"}
  PROVE  job'[t] = job[t] \/ RemoveEntry(t) \/ (t = "ipc" /\ (Leave \/ Drop))
<1>1. Openers \subseteq Threads /\ t \in Threads
  BY Constants
<1>2. ASSUME NEW u \in Threads, NEW r, Becomes(u, r), job[u].pc \in ChunkPcs \cup {"loop"}
      PROVE  job'[t] = job[t]
  <2>1. u # t
    BY <1>2 DEF ChunkPcs, SetUpPcs
  <2>2. QED
    BY <1>1, <1>2, <2>1, BecomesIs
<1>3. ASSUME NEW u \in Threads, NEW pc, NEW f, Moves(u, pc, f), job[u].pc \in ChunkPcs
      PROVE  job'[t] = job[t]
  BY <1>2, <1>3 DEF Moves
<1>4. ASSUME NEW a \in Askers, EquipLeaves(a) PROVE job'[t] = job[t]
  <2>1. job["ipc"].pc = "loop" /\ Becomes("ipc", [Idle EXCEPT !.pc = "leave", !.a = a])
    BY <1>4 DEF EquipLeaves, Becomes, Idle
  <2>2. QED
    BY <1>1, <1>2, <2>1 DEF Openers
<1>5. ASSUME NEW a \in Askers, NEW u \in Threads, (First(a) /\ u = Reader(a)) \/ (u \in Workers /\ Later(u, a))
      PROVE  job'[t] = job[t]
  <2>1. Starts(u, a) /\ job[u].pc = "loop"
    BY <1>5, StartsIs
  <2>2. QED
    BY <1>2, <2>1 DEF Starts
<1>6. ASSUME NEW u \in Threads, Decides(u) PROVE job'[t] = job[t]
  <2>1. job[u].pc \in ChunkPcs /\ \E pc : \E f : Moves(u, pc, f)
    BY <1>6 DEF Decides, ChunkPcs
  <2>2. QED
    BY <1>3, <2>1
<1>7. ASSUME NEW u \in Threads, Finishes(u) \/ Writes(u) PROVE job'[t] = job[t]
  <2>1. job[u].pc \in ChunkPcs /\ (GoesOn(u) \/ IsDone(u))
    BY <1>7 DEF Finishes, Writes, ChunkPcs, SetUpPcs
  <2>2. QED
    BY <1>2, <2>1 DEF GoesOn, IsDone
<1>8. ASSUME NEW u \in Threads, Cache(u) \/ List(u) \/ SetRoute(u) \/ AddEntry(u) \/ Fill(u)
      PROVE  job'[t] = job[t]
  <2>1. job[u].pc \in ChunkPcs
    BY <1>8 DEF Cache, List, SetRoute, AddEntry, Fill, ChunkPcs, SetUpPcs
  <2>2. \E pc : \E f : Moves(u, pc, f)
    BY <1>8, CacheIs, ListIs, SetRouteIs, AddIs, FillIs
  <2>3. QED
    BY <1>3, <2>1, <2>2
<1>9. ASSUME NEW u \in Threads, RemoveEntry(u) PROVE job'[t] = job[t] \/ RemoveEntry(t)
  <2>1. CASE u = t
    BY <1>9, <2>1
  <2>2. CASE u # t
    <3>1. \E r : Becomes(u, r)
      BY <1>9, RemoveIs DEF Openers, Moves
    <3>2. QED
      BY <1>1, <2>2, <3>1, BecomesIs
  <2>3. QED
    BY <2>1, <2>2
<1>10. ASSUME Leave \/ Drop, t # "ipc" PROVE job'[t] = job[t]
  <2>1. \E r : Becomes("ipc", r)
    BY <1>10, LeaveIs, DropIs DEF DropEnds, DropSkips, DropCloses
  <2>2. QED
    BY <1>1, <1>10, <2>1, BecomesIs DEF Openers
<1>11. ASSUME NEW f \in Fds, NullQueue(f) \/ CloseTest(f) PROVE job'[t] = job[t]
  <2>1. job["net"].pc = "loop"
    BY <1>11 DEF NullQueue, CloseTest, Idle
  <2>2. \E r : Becomes("net", r)
    BY <1>11, CloseIs DEF NullQueue, Moves
  <2>3. QED
    BY <1>1, <1>2, <2>1, <2>2 DEF Openers
<1>12. ASSUME NEW a \in Askers, Connect(a) \/ TesterLeaves(a) PROVE job' = job
  BY <1>12 DEF Connect, TesterLeaves
<1>13. ASSUME NEW a \in Askers, NEW to \in Targets, NEW len \in Lengths, Ask(a, to, len) PROVE job' = job
  BY <1>13 DEF Ask
<1>14. ASSUME NEW f \in Fds, Reads(f) \/ Hang(f) PROVE job' = job
  BY <1>14 DEF Reads, Hang
<1>15. QED
  BY Kinds, <1>4, <1>5, <1>6, <1>7, <1>8, <1>9, <1>10, <1>11, <1>12, <1>13, <1>14

\* An entry that is left as it is, when the threads that close connections go on with it.
LEMMA HomeKept ==
  ASSUME TypesInv, HomeInv, \A a \in Askers : AskerNext(a),
         NEW i \in DOMAIN table, table'[i].fd = table[i].fd, table'[i].opener = table[i].opener,
         \A a \in Askers : ~EquipLeaves(a),
         \A t \in Openers : job[t].pc \in {"leave", "drop", "remove"} => job'[t] = job[t]
  PROVE  Home(i)'
<1>1. SUFFICES ASSUME table[i].opener \in Equips PROVE Home(i)'
  BY DEF Home
<1>2. PICK a \in Equips : a = table[i].opener
  BY <1>1
<1>3. PICK f : f = table[i].fd
  OBVIOUS
<1>4. a \in Askers /\ a \notin Testers
  BY Constants
<1>5. CASE Present(a)
  <2>1. Present(a)'
    BY <1>4, <1>5 DEF AskerNext, TesterLeaves
  <2>2. QED
    BY <1>2, <2>1 DEF Home, Present
<1>6. CASE job["net"].pc = "remove" /\ job["net"].f = f
  BY <1>2, <1>3, <1>6 DEF Home, Openers
<1>7. CASE job["ipc"].a = a /\ Closes(f)
  <2>1. job["ipc"].pc \in {"leave", "drop", "remove"}
    BY <1>7 DEF Closes
  <2>2. job'["ipc"] = job["ipc"]
    BY <2>1 DEF Openers
  <2>3. Closes(f)'
    BY <1>7, <2>2 DEF Closes
  <2>4. QED
    BY <1>2, <1>3, <1>7, <2>2, <2>3 DEF Home, Closes
<1>8. QED
  BY <1>2, <1>3, <1>5, <1>6, <1>7 DEF HomeInv, Home

\* The entries after equipment has left.
LEMMA HomeLeft ==
  ASSUME TypesInv, HomeInv, \A b \in Askers : AskerNext(b), NEW a \in Askers, EquipLeaves(a)
  PROVE  \A i \in DOMAIN table' : Home(i)'
<1>1. PICK r : r = [Idle EXCEPT !.pc = "leave", !.a = a]
  OBVIOUS
<1>2. /\ a \in Equips /\ job["ipc"].pc = "loop" /\ table' = table /\ Becomes("ipc", r) /\ r.pc = "leave" /\ r.a = a
      /\ ask' = [ask EXCEPT ![a].at = "gone"]
  BY <1>1 DEF EquipLeaves, Becomes, Idle
<1>3. "ipc" \in Threads /\ "net" \in Threads
  BY Constants DEF Openers
<1>4. job'["ipc"].pc = "leave" /\ job'["ipc"].a = a /\ job'["net"] = job["net"]
  BY <1>2, <1>3, BecomesIs
<1>5. \A b \in Askers \ {a} : ask'[b].at = ask[b].at
  <2>1. \A b \in Askers : ask'[b].at = IF b = a THEN "gone" ELSE ask[b].at
    BY <1>2, AtIs
  <2>2. QED
    BY <2>1
<1>6. ASSUME NEW i \in DOMAIN table, table[i].opener \in Equips PROVE Home(i)'
  <2>1. PICK b \in Equips : b = table[i].opener
    BY <1>6
  <2>2. CASE b = a
    BY <1>2, <1>4, <2>1, <2>2 DEF Home, Closes
  <2>3. CASE b # a
    <3>1. Present(b) \/ (job["net"].pc = "remove" /\ job["net"].f = table[i].fd)
      BY <1>2, <2>1 DEF HomeInv, Home, Closes
    <3>2. Present(b) => Present(b)'
      BY <1>5, <2>3, Constants DEF Present
    <3>3. QED
      BY <1>2, <1>4, <2>1, <3>1, <3>2 DEF Home, Present
  <2>4. QED
    BY <2>2, <2>3
<1>7. QED
  BY <1>2, <1>6 DEF Home

\* The entries after the connections to close were noted.
LEMMA HomeNoted ==
  ASSUME TypesInv, HomeInv, SourcesInv, Leave
  PROVE  \A i \in DOMAIN table' : Home(i)'
<1>1. PICK a : a = job["ipc"].a
  OBVIOUS
<1>2. PICK todo : todo = [i \in SourceOf(a) |-> table[i].fd]
  OBVIOUS
<1>3. PICK r : r = [pc |-> "drop", a |-> a, f |-> job["ipc"].f, todo |-> todo]
  OBVIOUS
<1>4. /\ job["ipc"].pc = "leave" /\ Becomes("ipc", r) /\ r.pc = "drop" /\ r.a = a /\ r.todo = todo
      /\ UNCHANGED <<table, ask>>
  BY <1>1, <1>2, <1>3, LeaveIs DEF Leave
<1>5. "ipc" \in Threads /\ "net" \in Threads
  BY Constants DEF Openers
<1>6. job'["ipc"] = r /\ job'["net"] = job["net"]
  BY <1>4, <1>5, BecomesIs
<1>7. ASSUME NEW i \in DOMAIN table, table[i].opener \in Equips PROVE Home(i)'
  <2>1. PICK b \in Equips : b = table[i].opener
    BY <1>7
  <2>2. CASE Present(b) \/ (job["net"].pc = "remove" /\ job["net"].f = table[i].fd)
    BY <1>4, <1>6, <2>1, <2>2 DEF Home, Present
  <2>3. CASE a = b
    <3>1. table[i].source = fd[a]
      BY <2>1, <2>3, Constants DEF SourcesInv
    <3>2. i \in DOMAIN todo /\ todo[i] = table[i].fd
      BY <1>2, <3>1 DEF SourceOf
    <3>3. Closes(table[i].fd)'
      BY <1>4, <1>6, <3>2 DEF Closes
    <3>4. QED
      BY <1>4, <1>6, <2>1, <2>3, <3>3 DEF Home, Closes
  <2>4. QED
    BY <1>1, <2>1, <2>2, <2>3 DEF HomeInv, Home
<1>8. QED
  BY <1>4, <1>7 DEF Home

\* The entries after one of the connections was looked up, and closed if it is listed.
LEMMA HomeDropped ==
  ASSUME TypesInv, HomeInv, EntriesInv, Drop
  PROVE  \A i \in DOMAIN table' : Home(i)'
<1>1. /\ job["ipc"].pc = "drop" /\ UNCHANGED <<table, ask>>
      /\ DropEnds \/ \E p \in DOMAIN job["ipc"].todo : DropSkips(p) \/ DropCloses(p)
  BY DropIs
<1>2. "ipc" \in Threads /\ "net" \in Threads
  BY Constants DEF Openers
<1>3. ASSUME NEW r, Becomes("ipc", r),
             \A i \in DOMAIN table : job["ipc"].a = table[i].opener /\ Closes(table[i].fd) =>
                (job["ipc"].a = table[i].opener /\ Closes(table[i].fd))'
      PROVE  \A i \in DOMAIN table' : Home(i)'
  <2>1. job'["ipc"] = r /\ job'["net"] = job["net"]
    BY <1>2, <1>3, BecomesIs
  <2>2. QED
    BY <1>1, <1>3, <2>1 DEF HomeInv, Home, Present
<1>4. CASE DropEnds
  <2>1. \A f : ~Closes(f)
    BY <1>1, <1>4 DEF DropEnds, Closes
  <2>2. QED
    BY <1>3, <1>4, <2>1 DEF DropEnds
<1>5. ASSUME NEW p \in DOMAIN job["ipc"].todo, DropSkips(p) PROVE \A i \in DOMAIN table' : Home(i)'
  <2>1. PICK r : r = [pc |-> "drop", a |-> job["ipc"].a, todo |-> Rest(p), f |-> job["ipc"].f]
    OBVIOUS
  <2>2. Becomes("ipc", r) /\ r.pc = "drop" /\ r.a = job["ipc"].a /\ r.todo = Rest(p)
        /\ job["net"].pc # "remove" /\ job["ipc"].todo[p] \notin listed
    BY <1>5, <2>1 DEF DropSkips, FreeX
  <2>3. job'["ipc"] = r
    BY <1>2, <2>2, BecomesIs
  <2>4. ASSUME NEW i \in DOMAIN table, Closes(table[i].fd) PROVE Closes(table[i].fd)'
    <3>1. table[i].fd \in listed
      BY <1>1, <2>2 DEF EntriesInv, Removing, Openers
    <3>2. PICK q \in DOMAIN job["ipc"].todo : job["ipc"].todo[q] = table[i].fd
      BY <1>1, <2>4 DEF Closes
    <3>3. q # p
      BY <2>2, <3>1, <3>2
    <3>4. q \in DOMAIN Rest(p) /\ Rest(p)[q] = table[i].fd
      BY <3>2, <3>3 DEF Rest
    <3>5. QED
      BY <1>1, <2>2, <2>3, <3>4 DEF Closes
  <2>5. QED
    BY <1>1, <1>3, <2>2, <2>3, <2>4
<1>6. ASSUME NEW p \in DOMAIN job["ipc"].todo, DropCloses(p) PROVE \A i \in DOMAIN table' : Home(i)'
  <2>1. PICK f : f = job["ipc"].todo[p]
    OBVIOUS
  <2>2. PICK r : r = [pc |-> "remove", a |-> job["ipc"].a, todo |-> Rest(p), f |-> f]
    OBVIOUS
  <2>3. Becomes("ipc", r) /\ r.pc = "remove" /\ r.a = job["ipc"].a /\ r.todo = Rest(p) /\ r.f = f
    BY <1>6, <2>1, <2>2 DEF DropCloses
  <2>4. job'["ipc"] = r
    BY <1>2, <2>3, BecomesIs
  <2>5. ASSUME NEW i \in DOMAIN table, Closes(table[i].fd) PROVE Closes(table[i].fd)'
    <3>1. PICK q \in DOMAIN job["ipc"].todo : job["ipc"].todo[q] = table[i].fd
      BY <1>1, <2>5 DEF Closes
    <3>2. CASE q = p
      BY <1>1, <2>1, <2>3, <2>4, <3>1, <3>2 DEF Closes
    <3>3. CASE q # p
      <4>1. q \in DOMAIN Rest(p) /\ Rest(p)[q] = table[i].fd
        BY <3>1, <3>3 DEF Rest
      <4>2. QED
        BY <1>1, <2>3, <2>4, <4>1 DEF Closes
    <3>4. QED
      BY <3>2, <3>3
  <2>6. QED
    BY <1>1, <1>3, <2>3, <2>4, <2>5
<1>7. QED
  BY <1>1, <1>4, <1>5, <1>6

\* The entries after those of a number were taken out of the table.
LEMMA HomeRemoved ==
  ASSUME TypesInv, HomeInv, NEW t \in Threads, RemoveEntry(t)
  PROVE  \A i \in DOMAIN table' : Home(i)'
<1>1. PICK f : f = job[t].f
  OBVIOUS
<1>2. /\ t \in Openers /\ job[t].pc = "remove" /\ ask' = ask
      /\ table' = [i \in {j \in DOMAIN table : table[j].fd # f} |-> table[i]]
      /\ t = "ipc" => Moves(t, "drop", f)
      /\ t = "net" => Becomes(t, Idle)
  BY <1>1, RemoveIs
<1>3. \A i \in DOMAIN table' : i \in DOMAIN table /\ table'[i] = table[i] /\ table[i].fd # f
  BY <1>2
<1>4. "ipc" \in Threads /\ "net" \in Threads
  BY Constants DEF Openers
<1>5. CASE t = "net"
  <2>1. job'["ipc"] = job["ipc"]
    BY <1>2, <1>4, <1>5, BecomesIs
  <2>2. \A i \in DOMAIN table' : Closes(table[i].fd) => Closes(table[i].fd)'
    BY <1>3, <2>1 DEF Closes
  <2>3. QED
    BY <1>1, <1>2, <1>3, <1>5, <2>1, <2>2 DEF HomeInv, Home, Present, Closes
<1>6. CASE t = "ipc"
  <2>1. PICK r : r = [pc |-> "drop", a |-> job[t].a, todo |-> job[t].todo, f |-> f]
    OBVIOUS
  <2>2. Becomes(t, r) /\ r.pc = "drop" /\ r.a = job[t].a /\ r.todo = job[t].todo
    BY <1>2, <1>6, <2>1 DEF Moves
  <2>3. job'["ipc"] = r /\ job'["net"] = job["net"]
    BY <1>4, <1>6, <2>2, BecomesIs
  <2>4. \A i \in DOMAIN table' : Closes(table[i].fd) => Closes(table[i].fd)'
    BY <1>1, <1>2, <1>3, <1>6, <2>2, <2>3 DEF Closes
  <2>5. ASSUME NEW i \in DOMAIN table' PROVE Home(i)'
    <3>1. i \in DOMAIN table /\ table'[i] = table[i] /\ Home(i)
      BY <1>3 DEF HomeInv
    <3>2. job'["ipc"].a = job["ipc"].a /\ (Closes(table[i].fd) => Closes(table[i].fd)')
      BY <1>6, <2>2, <2>3, <2>4
    <3>3. QED
      BY <1>2, <2>3, <3>1, <3>2 DEF Home, Present, Closes
  <2>6. QED
    BY <2>5
<1>7. QED
  BY <1>2, <1>5, <1>6 DEF Openers

\* The entries after one was made or filled.
LEMMA HomeMade ==
  ASSUME TypesInv, ClientsInv, HomeInv, NEW t \in Threads, AddEntry(t) \/ Fill(t)
  PROVE  \A i \in DOMAIN table' : Home(i)'
<1>1. /\ t \in Openers /\ job[t].pc \in {"add", "fill"} /\ UNCHANGED <<ask, fd>>
      /\ \E pc \in {"fill", "activate", "crashed"} : Moves(t, pc, job[t].f)
  BY AddIs, FillIs
<1>2. \A u \in Openers : job[u].pc \in {"leave", "drop", "remove"} => job'[u] = job[u]
  BY <1>1, MovedIs
<1>3. ASSUME NEW i \in DOMAIN table, table'[i] = table[i] PROVE Home(i)'
  <2>1. ASSUME Closes(table[i].fd) PROVE Closes(table[i].fd)' /\ job'["ipc"] = job["ipc"]
    <3>1. job["ipc"].pc \in {"leave", "drop", "remove"}
      BY <2>1 DEF Closes
    <3>2. job'["ipc"] = job["ipc"]
      BY <1>2, <3>1 DEF Openers
    <3>3. QED
      BY <1>3, <2>1, <3>2 DEF Closes
  <2>2. job["net"].pc = "remove" => job'["net"] = job["net"]
    BY <1>2 DEF Openers
  <2>3. QED
    BY <1>1, <1>3, <2>1, <2>2 DEF HomeInv, Home, Present, Closes
<1>4. CASE AddEntry(t)
  <2>1. \A i \in DOMAIN table' : (i \in DOMAIN table /\ table'[i] = table[i]) \/ table'[i].opener = None
    BY <1>4, AddIs
  <2>2. ASSUME NEW i \in DOMAIN table' PROVE Home(i)'
    BY <1>3, <2>1, Constants DEF Home
  <2>3. QED
    BY <2>2
<1>5. CASE Fill(t)
  <2>1. PICK a : a = job[t].a
    OBVIOUS
  <2>2. \A i \in DOMAIN table' : (i \in DOMAIN table /\ table'[i] = table[i]) \/ table'[i].opener = a
    BY <1>5, <2>1, FillIs
  <2>3. Present(a)'
    <3>1. job[t].pc \in ChunkPcs /\ t \notin Workers
      BY <1>1, Constants DEF ChunkPcs, SetUpPcs, Openers
    <3>2. ask[a].at = "first"
      BY <2>1, <3>1 DEF ClientsInv
    <3>3. QED
      BY <1>1, <3>2 DEF Present
  <2>4. ASSUME NEW i \in DOMAIN table' PROVE Home(i)'
    BY <1>3, <2>2, <2>3 DEF Home, Present
  <2>5. QED
    BY <2>4
<1>6. QED
  BY <1>4, <1>5

\* The answers after one was passed on.
LEMMA AnswerIs ==
  ASSUME TypesInv, ClientsInv, SourcesInv, HomeInv, NEW f \in Fds, Answer(f)
  PROVE  \A x \in astray' : ~(x[1] \in Equips /\ x[3])
<1>1. PICK i : i = ByFd(f)
  OBVIOUS
<1>2. PICK s : s = inbox[f]
  OBVIOUS
<1>3. PICK a : a = Head(s)[1]
  OBVIOUS
<1>4. PICK b : b = IF i = 0 \/ table[i].source = 0 THEN None ELSE open[table[i].source]
  OBVIOUS
<1>5. PICK home \in BOOLEAN : home <=> (table[i].opener = a /\ job["ipc"].a # a)
  OBVIOUS
<1>6. /\ job["net"].pc = "loop" /\ s # <<>> /\ Head(s) # Request
      /\ b \in Askers \ {a} \/ astray' = astray
  BY <1>1, <1>2, <1>3, <1>4 DEF Answer, Idle, Source
<1>7. a \in Askers
  <2>1. s \in Seq(Items \cup {Request})
    BY <1>2, Types
  <2>2. Head(s) \in Items
    BY <1>6, <2>1
  <2>3. QED
    BY <1>3, <2>2 DEF Items
<1>8. CASE b \notin Askers \ {a}
  BY <1>6, <1>8 DEF HomeInv
<1>9. CASE b \in Askers \ {a}
  <2>1. astray' = astray \cup {<<a, b, table[i].opener = a /\ job["ipc"].a # a>>}
    BY <1>1, <1>2, <1>3, <1>4, <1>9 DEF Answer, Source
  <2>2. astray' = astray \cup {<<a, b, home>>}
    BY <1>5, <2>1
  <2>3. i \in DOMAIN table /\ b = open[table[i].source]
    BY <1>1, <1>4, <1>9, ByFdIs, Types, Constants
  <2>4. ASSUME a \in Equips, table[i].opener = a, job["ipc"].a # a PROVE FALSE
    <3>1. table[i].source = fd[a]
      BY <1>7, <2>3, <2>4, Constants DEF SourcesInv
    <3>2. Present(a)
      BY <1>6, <2>3, <2>4 DEF HomeInv, Home
    <3>3. open[fd[a]] = a
      BY <1>7, <3>2 DEF ClientsInv
    <3>4. QED
      BY <1>9, <2>3, <3>1, <3>3
  <2>5. ~(a \in Equips /\ home)
    BY <1>5, <2>4
  <2>6. QED
    BY <2>2, <2>5 DEF HomeInv
<1>10. QED
  BY <1>8, <1>9

\* No other step passes on an answer.
LEMMA AstrayStep ==
  ASSUME TypesInv, ClientsInv, SourcesInv, HomeInv, Next
  PROVE  \A x \in astray' : ~(x[1] \in Equips /\ x[3])
<1>1. ASSUME NEW f \in Fds, Reads(f) \/ NullQueue(f) \/ Hang(f) \/ CloseTest(f)
      PROVE  astray' = astray \/ Answer(f)
  BY <1>1 DEF Reads, NullQueue, Hang, CloseTest
<1>2. ASSUME NEW a \in Askers, Connect(a) \/ TesterLeaves(a) \/ EquipLeaves(a) PROVE astray' = astray
  BY <1>2 DEF Connect, TesterLeaves, EquipLeaves, history
<1>3. ASSUME NEW a \in Askers, NEW to \in Targets, NEW len \in Lengths, Ask(a, to, len) PROVE astray' = astray
  BY <1>3 DEF Ask, history
<1>4. ASSUME NEW a \in Askers, NEW u \in Threads, (First(a) /\ u = Reader(a)) \/ (u \in Workers /\ Later(u, a))
      PROVE  astray' = astray
  BY <1>4, StartsIs
<1>5. ASSUME NEW t \in Threads, Decides(t) \/ Finishes(t) \/ Writes(t) PROVE astray' = astray
  BY <1>5 DEF Decides, Finishes, Writes
<1>6. ASSUME NEW t \in Threads, Cache(t) \/ List(t) \/ SetRoute(t) \/ AddEntry(t) \/ Fill(t) \/ RemoveEntry(t)
      PROVE  astray' = astray
  BY <1>6 DEF Cache, List, SetRoute, AddEntry, Fill, RemoveEntry, history
<1>7. ASSUME Leave \/ Drop PROVE astray' = astray
  BY <1>7 DEF Leave, Drop, history
<1>8. astray' = astray \/ \E f \in Fds : Answer(f)
  BY Kinds, <1>1, <1>2, <1>3, <1>4, <1>5, <1>6, <1>7
<1>9. QED
  BY <1>8, AnswerIs DEF HomeInv

\* Every step keeps the answers at home, as long as no connection was cut off.
LEMMA HomeStep ==
  ASSUME TypesInv, ClientsInv, SocketsInv, FreshInv, SourcesInv, Clean => HomeInv, Next
  PROVE  Clean' => HomeInv'
<1>1. SUFFICES ASSUME Clean' PROVE HomeInv'
  OBVIOUS
<1>2. HomeInv /\ EntriesInv
  BY <1>1, TypesStep, CleanBefore DEF FreshInv
<1>3. \A a \in Askers : AskerNext(a)
  BY AskerStep
<1>4. \A i \in DOMAIN table' : Home(i)'
  <2>1. CASE \E a \in Askers : EquipLeaves(a)
    BY <1>2, <1>3, <2>1, HomeLeft
  <2>2. CASE Leave \/ Drop
    BY <1>2, <2>2, HomeNoted, HomeDropped
  <2>3. CASE \E t \in Threads : RemoveEntry(t) \/ AddEntry(t) \/ Fill(t)
    BY <1>2, <2>3, HomeRemoved, HomeMade
  <2>4. CASE /\ ~\E a \in Askers : EquipLeaves(a)
             /\ ~(Leave \/ Drop)
             /\ ~\E t \in Threads : RemoveEntry(t) \/ AddEntry(t) \/ Fill(t)
    <3>1. SameEntries
      BY <2>4, EntriesOr
    <3>2. \A t \in Openers : job[t].pc \in {"leave", "drop", "remove"} => job'[t] = job[t]
      BY <2>4, ClosersStay, Constants
    <3>3. ASSUME NEW i \in DOMAIN table PROVE Home(i)'
      BY <1>2, <1>3, <2>4, <3>1, <3>2, HomeKept DEF SameEntries
    <3>4. QED
      BY <3>1, <3>3 DEF SameEntries
  <2>5. QED
    BY <2>1, <2>2, <2>3, <2>4
<1>5. QED
  BY <1>2, <1>4, AstrayStep DEF HomeInv

-----------------------------------------------------------------------------
\* It holds at the start.
LEMMA InitHolds ==
  ASSUME Init
  PROVE  IInv
<1>1. /\ open = [f \in Fds |-> None] /\ listed = {} /\ hung = {} /\ inbox = [f \in Fds |-> <<>>]
      /\ fd = [a \in Askers |-> 0] /\ asked = 0
      /\ route = [n \in Nodes |-> 0] /\ table = <<>> /\ lockI = None /\ lockE = None
      /\ job = [t \in Threads |-> Idle]
      /\ got = [n \in Nodes |-> <<>>] /\ flaws = [n \in Nodes |-> {}] /\ astray = {}
  BY DEF Init
<1>2. PICK q : q = [at |-> "away", to |-> None, msg |-> 0, next |-> 1, len |-> 0]
  OBVIOUS
<1>3. ask = [a \in Askers |-> q] /\ q.at = "away" /\ q.next = 1 /\ q.len = 0
  BY <1>2 DEF Init
<1>4. q \in Question
  BY <1>2, Constants DEF Question
<1>5. \A t \in Threads : job[t].pc = "loop" /\ job[t] = Idle /\ job[t].a = None /\ job[t].f = 0
  BY <1>1 DEF Idle
<1>6. DOMAIN table = {}
  BY <1>1
<1>7. TypeOK
  <2>1. /\ open \in [Fds -> Askers \cup Nodes \cup {None}] /\ listed \subseteq Fds /\ hung \subseteq Fds
        /\ inbox \in [Fds -> Seq(Items \cup {Request})]
        /\ fd \in [Askers -> 0 .. MaxFd] /\ asked \in 0 .. MaxAsked
    BY <1>1, Constants
  <2>2. ask \in [Askers -> Question] /\ \A a \in Askers : ask[a].next \in 1 .. ask[a].len + 1
    BY <1>3, <1>4
  <2>3. /\ route \in [Nodes -> 0 .. MaxFd]
        /\ DOMAIN table \subseteq Nat \ {0} /\ table \in [DOMAIN table -> Entry]
        /\ lockI \in {None, "net"} /\ lockE \in {None, "ipc"} \cup Workers
    BY <1>1, <1>6, Constants
  <2>4. \A t \in Threads :
           /\ job[t].pc \in {"loop", "other", "send", "cache", "list", "route", "add", "fill", "activate",
                             "look", "direct", "store", "remove", "leave", "drop", "crashed"}
           /\ job[t].a \in Askers \cup {None} /\ job[t].f \in 0 .. MaxFd
    BY <1>5, Constants
  <2>5. /\ got \in [Nodes -> Seq(Items)] /\ flaws \in [Nodes -> SUBSET Flaws]
        /\ astray \subseteq (Askers \X Askers \X BOOLEAN)
    BY <1>1
  <2>6. QED
    BY <2>1, <2>2, <2>3, <2>4, <2>5 DEF TypeOK
<1>8. JobsAre
  <2>1. \A t \in Threads : JobIs(t, Idle)
    <3>1. Idle = [pc |-> Idle.pc, a |-> Idle.a, todo |-> Idle.todo, f |-> Idle.f] /\ Idle.pc = "loop"
          /\ Idle.a = None /\ Idle.f = 0
      BY DEF Idle
    <3>2. \A t \in Threads : "loop" \in PcsOf(t)
      BY DEF PcsOf
    <3>3. QED
      BY <3>1, <3>2, Constants DEF JobIs, ChunkPcs, SetUpPcs
  <2>2. QED
    BY <1>1, <1>5, <2>1 DEF JobsAre
<1>9. TypesInv
  BY <1>6, <1>7, <1>8 DEF TypesInv, TableIsFinite
<1>10. Openers \subseteq Threads /\ Workers \subseteq Threads /\ "net" \in Threads /\ "ipc" \in Threads
  BY Constants DEF Openers
<1>11. ClientsInv
  BY <1>3, <1>5, <1>10 DEF ClientsInv, Present, ChunkPcs, SetUpPcs
<1>12. LocksInv
  BY <1>1, <1>5, <1>10, Constants DEF LocksInv
<1>13. SocketsInv
  BY <1>1, <1>5, <1>10 DEF SocketsInv
<1>14. EntriesInv /\ SetUpInv
  BY <1>5, <1>6, <1>10 DEF EntriesInv, SetUpInv, SetUpPcs
<1>15. RouteInv /\ SourcesInv /\ HomeInv
  BY <1>1, <1>5, <1>6, <1>10 DEF RouteInv, SourcesInv, HomeInv
<1>16. QED
  BY <1>9, <1>11, <1>12, <1>13, <1>14, <1>15 DEF IInv, BasicInv, FreshInv

\* Every step keeps it, one that changes nothing too.
LEMMA StepHolds ==
  ASSUME IInv, [Next]_vars
  PROVE  IInv'
<1>1. TypesInv /\ ClientsInv /\ LocksInv /\ SocketsInv /\ FreshInv /\ RouteInv /\ SourcesInv /\ (Clean => HomeInv)
  BY DEF IInv, BasicInv
<1>2. CASE Next
  <2>1. TypesInv' /\ ClientsInv' /\ LocksInv' /\ SocketsInv'
    BY <1>1, <1>2, TypesStep, ClientsStep, LocksStep, SocketsStep
  <2>2. FreshInv' /\ RouteInv' /\ SourcesInv'
    BY <1>1, <1>2, FreshStep, RouteStep, SourcesStep
  <2>3. Clean' => HomeInv'
    BY <1>1, <1>2, HomeStep
  <2>4. QED
    BY <2>1, <2>2, <2>3 DEF IInv, BasicInv
<1>3. CASE UNCHANGED vars
  <2>1. /\ open' = open /\ listed' = listed /\ hung' = hung /\ inbox' = inbox /\ fd' = fd /\ ask' = ask
        /\ asked' = asked /\ route' = route /\ table' = table /\ lockI' = lockI /\ lockE' = lockE /\ job' = job
        /\ got' = got /\ flaws' = flaws /\ astray' = astray
    BY <1>3 DEF vars
  <2>2. TypesInv'
    BY <1>1, <2>1 DEF TypesInv, TypeOK, JobsAre, TableIsFinite
  <2>3. ClientsInv'
    BY <1>1, <2>1 DEF ClientsInv, Present, HasChunk
  <2>4. LocksInv' /\ SocketsInv'
    BY <1>1, <2>1 DEF LocksInv, SocketsInv, Node
  <2>5. Clean' <=> Clean
    BY <2>1 DEF Clean
  <2>6. EntriesInv => EntriesInv'
    BY <2>1 DEF EntriesInv, Removing
  <2>7. SetUpInv => SetUpInv'
    BY <2>1 DEF SetUpInv, LeftOver, Removing, Node
  <2>8. RouteInv' /\ SourcesInv'
    BY <1>1, <2>1 DEF RouteInv, SourcesInv, Node
  <2>9. HomeInv => HomeInv'
    BY <2>1 DEF HomeInv, Home, Closes, Present
  <2>10. QED
    BY <1>1, <2>2, <2>3, <2>4, <2>5, <2>6, <2>7, <2>8, <2>9 DEF IInv, BasicInv, FreshInv
<1>4. QED
  BY <1>2, <1>3

\* The invariant holds in every behaviour.
LEMMA Inductive == Spec => []IInv
<1>1. Init => IInv
  BY InitHolds
<1>2. IInv /\ [Next]_vars => IInv'
  BY StepHolds
<1>3. QED
  BY <1>1, <1>2, PTL DEF Spec

\* The variables stay in their types.
THEOREM TypeCorrect == Spec => []TypeOK
<1>1. IInv => TypeOK
  BY DEF IInv, BasicInv, TypesInv
<1>2. QED
  BY <1>1, Inductive, PTL

\* A null pointer is used only after a connection was cut off while it was being set up.
LEMMA CrashIsKnown ==
  ASSUME IInv, Crashed
  PROVE  \E n \in Nodes : "cut" \in flaws[n]
<1>1. PICK t \in Threads : job[t].pc = "crashed"
  BY DEF Crashed
<1>2. TypesInv /\ (Clean => SetUpInv)
  BY DEF IInv, BasicInv, FreshInv
<1>3. t \in Openers
  BY <1>1, <1>2, JobOf
<1>4. ~Clean
  BY <1>1, <1>2, <1>3 DEF SetUpInv
<1>5. QED
  BY <1>4 DEF Clean

\* As long as a thread has work, one of them can go on or the halt is one of the two known.
LEMMA SomeoneGoesOn ==
  ASSUME IInv, Busy # {}, ~Crashed
  PROVE  HeldCrosswise \/ \E t \in Busy : ~Waits(t)
<1>1. SUFFICES ASSUME \A t \in Busy : Waits(t) PROVE HeldCrosswise
  OBVIOUS
<1>2. TypesInv /\ LocksInv
  BY DEF IInv, BasicInv
<1>3. /\ lockI \in {None, "net"} /\ lockE \in {None, "ipc"} \cup Workers
      /\ "net" \in Threads /\ "ipc" \in Threads /\ Workers \subseteq Threads /\ None \notin Threads
  BY <1>2, Types, Constants DEF Openers
<1>4. \A t \in Threads : job[t].pc # "loop" => Waits(t)
  BY <1>1 DEF Busy
<1>5. FreeX
  BY <1>3, <1>4 DEF FreeX, Waits
<1>6. ASSUME lockE # None
      PROVE  /\ lockE \in Threads /\ job[lockE].pc \in {"other", "send", "cache", "look"} /\ lockI # None
  <2>1. PICK u \in Threads : u = lockE
    BY <1>3, <1>6
  <2>2. job[u].pc \in ChunkPcs \cup {"drop", "remove", "crashed"}
    BY <1>2, <1>6, <2>1 DEF LocksInv
  <2>3. job[u].pc \notin {"loop", "leave", "crashed"}
    BY <2>2 DEF ChunkPcs, SetUpPcs, Crashed
  <2>4. Waits(u) /\ FreeE(u)
    BY <1>4, <2>1, <2>3 DEF FreeE
  <2>5. job[u].pc \in {"other", "send", "cache", "look"} /\ ~FreeI(u)
    BY <1>5, <2>3, <2>4 DEF Waits
  <2>6. QED
    BY <2>1, <2>5 DEF FreeI
<1>7. PICK t \in Busy : Waits(t)
  BY <1>1
<1>8. lockI # None
  <2>1. ASSUME lockI = None PROVE FALSE
    <3>1. lockE = None
      BY <1>6, <2>1
    <3>2. FreeI(t) /\ FreeE(t)
      BY <2>1, <3>1 DEF FreeI, FreeE
    <3>3. QED
      BY <1>5, <1>7, <3>2 DEF Waits
  <2>2. QED
    BY <2>1
<1>9. lockI = "net" /\ job["net"].pc \in ChunkPcs
  BY <1>2, <1>3, <1>8 DEF LocksInv, Crashed
<1>10. job["net"].pc \notin {"loop", "leave", "drop"} /\ FreeI("net")
  BY <1>9 DEF ChunkPcs, SetUpPcs, FreeI
<1>11. job["net"].pc = "add" /\ ~FreeE("net")
  BY <1>3, <1>4, <1>5, <1>10 DEF Waits
<1>12. QED
  BY <1>6, <1>9, <1>11 DEF HeldCrosswise, FreeE

\* No thread waits for good but with the two locks held crosswise or after a null pointer was
\* used, and that only after a connection was cut off while it was being set up.
THEOREM HaltsCorrect == Spec => []OnlyKnownHalts
<1>1. IInv => OnlyKnownHalts
  BY CrashIsKnown, SomeoneGoesOn DEF OnlyKnownHalts
<1>2. QED
  BY <1>1, Inductive, PTL

\* A route leads to an entry, and the gateway keeps one connection to a node.
THEOREM RoutesCorrect == Spec => []RoutesMatchTable
<1>1. ASSUME IInv PROVE RoutesMatchTable
  <2>1. TypesInv /\ SocketsInv /\ RouteInv /\ TypeOK
    BY <1>1 DEF IInv, BasicInv, TypesInv
  <2>2. ASSUME NEW n \in Nodes, route[n] # 0
        PROVE  ByFd(route[n]) # 0 \/ \E t \in Threads : job[t].pc = "add" /\ job[t].f = route[n]
    BY <2>1, <2>2, RouteIs, ByFdIs, Constants
  <2>3. ASSUME NEW f \in listed, NEW g \in listed, f # g, open[f] = open[g], ~Wrong(open[f]) PROVE FALSE
    <3>1. PICK n \in Nodes : n = open[f]
      BY <2>1 DEF SocketsInv
    <3>2. f # 0 /\ g # 0
      BY <2>1, Types DEF Fds
    <3>3. \A t \in Openers : job[t].pc = "route" /\ Node(t) = n =>
             /\ route[n] = 0
             /\ \A u \in Openers : job[u].pc = "route" /\ Node(u) = n => u = t
      BY <2>1, <2>3, <3>1, RouteIs DEF OpenPcs
    <3>4. /\ route[n] = f \/ \E t \in Openers : job[t].pc = "route" /\ job[t].f = f /\ Node(t) = n
          /\ route[n] = g \/ \E t \in Openers : job[t].pc = "route" /\ job[t].f = g /\ Node(t) = n
      BY <2>1, <2>3, <3>1, RouteIs
    <3>5. QED
      BY <2>3, <3>2, <3>3, <3>4
  <2>4. QED
    BY <2>2, <2>3 DEF RoutesMatchTable, Wrong
<1>2. QED
  BY <1>1, Inductive, PTL

\* An answer to local test equipment goes to it, as long as no connection was cut off.
THEOREM AnswersCorrect == Spec => []AnswersGoHome
<1>1. IInv => AnswersGoHome
  BY DEF IInv, HomeInv, Clean, AnswersGoHome
<1>2. QED
  BY <1>1, Inductive, PTL

-----------------------------------------------------------------------------
\* The chunks of message m among the first k of s, and among all of them.
UpTo(s, k, m) == {j \in 1 .. k : s[j][2] = m}
Count(s, m) == Cardinality(UpTo(s, Len(s), m))

\* Every chunk comes as the one it is of its message.
InOrder(s) == \A i \in DOMAIN s : Cardinality(UpTo(s, i, s[i][2])) = s[i][3]

\* How many chunks of a message there are is a number.
LEMMA CountIs ==
  ASSUME NEW s, NEW k \in Nat, NEW m
  PROVE  IsFiniteSet(UpTo(s, k, m)) /\ Cardinality(UpTo(s, k, m)) \in Nat
<1>1. IsFiniteSet(1 .. k)
  BY FS_Interval
<1>2. IsFiniteSet(UpTo(s, k, m))
  BY <1>1, FS_Subset DEF UpTo
<1>3. QED
  BY <1>2, FS_CardinalityType

\* What comes behind does not count.
LEMMA CountSame ==
  ASSUME NEW s \in Seq(Items), NEW q \in Seq(Items), NEW k \in 0 .. Len(s), NEW m
  PROVE  UpTo(s \o q, k, m) = UpTo(s, k, m)
<1>1. PICK n \in Nat : n = Len(s)
  OBVIOUS
<1>2. k \in 0 .. n /\ Len(q) \in Nat
  BY <1>1
<1>3. \A j \in 1 .. n + Len(q) : (s \o q)[j] = IF j <= n THEN s[j] ELSE q[j - n]
  BY <1>1, ConcatProperties
<1>4. \A j \in 1 .. k : j \in 1 .. n + Len(q) /\ j <= n
  BY <1>1, <1>2
<1>5. \A j \in 1 .. k : (s \o q)[j] = s[j]
  BY <1>3, <1>4
<1>6. QED
  BY <1>5 DEF UpTo

\* There is no chunk in an empty sequence.
LEMMA CountEmpty ==
  ASSUME NEW m
  PROVE  Count(<<>>, m) = 0 /\ InOrder(<<>>)
<1>1. UpTo(<<>>, Len(<<>>), m) = {}
  BY DEF UpTo
<1>2. QED
  BY <1>1, FS_EmptySet DEF Count, InOrder

\* One more chunk: its message has one more, and the order is kept if it is the one that comes next.
LEMMA CountAppend ==
  ASSUME NEW s \in Seq(Items), NEW x \in Items
  PROVE  /\ Append(s, x) \in Seq(Items)
         /\ \A m : Count(Append(s, x), m) = IF x[2] = m THEN Count(s, m) + 1 ELSE Count(s, m)
         /\ InOrder(s) /\ x[3] = Count(s, x[2]) + 1 => InOrder(Append(s, x))
<1>1. PICK r \in Seq(Items) : r = Append(s, x)
  <2>1. Append(s, x) \in Seq(Items)
    OBVIOUS
  <2>2. QED
    BY <2>1
<1>2. PICK k \in Nat : k = Len(s)
  OBVIOUS
<1>3. Len(r) = k + 1 /\ r[k + 1] = x /\ \A j \in 1 .. k : r[j] = s[j]
  BY <1>1, <1>2
<1>4. \A i \in 1 .. k : \A m : UpTo(r, i, m) = UpTo(s, i, m)
  BY <1>2, <1>3 DEF UpTo
<1>5. ASSUME NEW m PROVE Count(r, m) = IF x[2] = m THEN Count(s, m) + 1 ELSE Count(s, m)
  <2>1. PICK S : S = UpTo(s, k, m)
    OBVIOUS
  <2>2. IsFiniteSet(S) /\ k + 1 \notin S
    <3>1. k + 1 \notin 1 .. k /\ S \subseteq 1 .. k
      BY <1>2, <2>1 DEF UpTo
    <3>2. IsFiniteSet(S)
      BY <1>2, <2>1, CountIs
    <3>3. QED
      BY <3>1, <3>2
  <2>3. UpTo(r, k + 1, m) = IF x[2] = m THEN S \cup {k + 1} ELSE S
    BY <1>2, <1>3, <2>1 DEF UpTo
  <2>4. Cardinality(S \cup {k + 1}) = Cardinality(S) + 1
    BY <2>2, FS_AddElement
  <2>5. QED
    BY <1>2, <1>3, <2>1, <2>3, <2>4 DEF Count
<1>6. ASSUME InOrder(s), x[3] = Count(s, x[2]) + 1 PROVE InOrder(r)
  <2>1. ASSUME NEW i \in 1 .. k PROVE Cardinality(UpTo(r, i, r[i][2])) = r[i][3]
    <3>1. r[i] = s[i] /\ i \in DOMAIN s
      BY <1>2, <1>3
    <3>2. QED
      BY <1>4, <1>6, <3>1 DEF InOrder
  <2>2. Cardinality(UpTo(r, k + 1, r[k + 1][2])) = r[k + 1][3]
    <3>1. Count(r, x[2]) = Count(s, x[2]) + 1
      BY <1>5
    <3>2. QED
      BY <1>3, <1>6, <3>1 DEF Count
  <2>3. DOMAIN r = 1 .. k \cup {k + 1}
    BY <1>2, <1>3
  <2>4. QED
    BY <2>1, <2>2, <2>3 DEF InOrder
<1>7. QED
  BY <1>1, <1>5, <1>6

\* A beginning of what is in order is in order.
LEMMA OrderBefore ==
  ASSUME NEW s \in Seq(Items), NEW q \in Seq(Items), InOrder(s \o q)
  PROVE  InOrder(s)
<1>1. ASSUME NEW i \in DOMAIN s PROVE Cardinality(UpTo(s, i, s[i][2])) = s[i][3]
  <2>1. i \in DOMAIN (s \o q) /\ (s \o q)[i] = s[i] /\ i \in 0 .. Len(s)
    OBVIOUS
  <2>2. UpTo(s \o q, i, s[i][2]) = UpTo(s, i, s[i][2])
    BY <2>1, CountSame
  <2>3. QED
    BY <2>1, <2>2 DEF InOrder
<1>2. QED
  BY <1>1 DEF InOrder

\* How a chunk is put behind two sequences, and behind one and an empty one.
LEMMA Behinds ==
  ASSUME NEW s \in Seq(Items), NEW q \in Seq(Items), NEW x \in Items
  PROVE  /\ s \o Append(q, x) = Append(s \o q, x)
         /\ s \o <<x>> = Append(s, x)
         /\ s \o <<>> = s /\ (s \o q) \o <<>> = s \o q
         /\ s \o q \in Seq(Items)
<1>1. s \o Append(q, x) = Append(s \o q, x)
  <2>1. PICK y \in Seq(Items) : y = <<x>>
    <3>1. <<x>> \in Seq(Items)
      OBVIOUS
    <3>2. QED
      BY <3>1
  <2>2. Append(q, x) = q \o y /\ Append(s \o q, x) = (s \o q) \o y
    BY <2>1
  <2>3. (s \o q) \o y = s \o (q \o y)
    BY <2>1, ConcatAssociative
  <2>4. QED
    BY <2>2, <2>3
<1>2. s \o <<>> = s
  OBVIOUS
<1>3. (s \o q) \o <<>> = s \o q
  OBVIOUS
<1>4. s \o <<x>> = Append(s, x)
  OBVIOUS
<1>5. QED
  BY <1>1, <1>2, <1>3, <1>4

-----------------------------------------------------------------------------
\* Nothing has gone wrong for node n.
Sound(n) == flaws[n] = {}

\* Entry i is the first one with number f: the one that is found.
Leads(tab, i, f) == i \in DOMAIN tab /\ tab[i].fd = f /\ \A j \in DOMAIN tab : tab[j].fd = f => i <= j

\* What is queued for node n, and with that what it was sent or will be.
QueueIn(tab, n) ==
    IF \E i \in DOMAIN tab : tab[i].node = n THEN tab[CHOOSE i \in DOMAIN tab : tab[i].node = n].queue ELSE <<>>
Whole(n) == got[n] \o QueueIn(table, n)

\* The connection of a node for which nothing has gone wrong: its route leads to a listed
\* number that is the node's;
RouteOk(n) == route[n] # 0 => route[n] \in listed /\ open[route[n]] = n

\* its entry is the one that is found by the route, has a queue, and nothing waits in it when the
\* connection is active;
EntryOk(n) ==
    \A i \in DOMAIN table : table[i].node = n =>
        /\ Leads(table, i, route[n]) /\ table[i].queue # NoQueue
        /\ table[i].step = 2 => table[i].queue = <<>>

\* a thread that sets the connection up has the node's number, and the route leads there once it
\* is set;
SetUpOk(t, n) ==
    job[t].pc \in SetUpPcs /\ Node(t) = n =>
        /\ open[job[t].f] = n
        /\ job[t].pc # "list" => job[t].f \in listed
        /\ job[t].pc \in {"add", "fill", "activate"} => route[n] = job[t].f

\* and a thread that is about to send a chunk at once does so because the connection is active.
ReadyOk(t, n) ==
    job[t].pc \in {"send", "direct"} /\ Node(t) = n =>
        \E i \in DOMAIN table : Leads(table, i, route[n]) /\ table[i].step = 2

Conn(n) == RouteOk(n) /\ EntryOk(n) /\ \A t \in Threads : SetUpOk(t, n) /\ ReadyOk(t, n)

\* A connection that the node has closed is wrong for it.
HungInv == \A f \in hung : ~Sound(open[f])

ConnInv == HungInv /\ \A n \in Nodes : Sound(n) => Conn(n)

-----------------------------------------------------------------------------
\* The entry that is found by a number.
LEMMA LeadsIs ==
  ASSUME TypesInv, NEW f
  PROVE  /\ \A i : Leads(table, i, f) => i = ByFd(f) /\ i \in Nat \ {0}
         /\ ByFd(f) # 0 => Leads(table, ByFd(f), f)
<1>1. PICK S : S = {i \in DOMAIN table : table[i].fd = f}
  OBVIOUS
<1>2. S \subseteq Nat \ {0}
  BY <1>1, Types
<1>3. ByFd(f) = FirstOf(S)
  BY <1>1 DEF ByFd
<1>4. (FirstOf(S) = 0 <=> S = {}) /\ (S # {} => FirstOf(S) \in S /\ \A j \in S : FirstOf(S) <= j)
  BY <1>2, FirstIs
<1>5. ASSUME NEW i, Leads(table, i, f) PROVE i = ByFd(f) /\ i \in Nat \ {0}
  <2>1. i \in S /\ \A j \in S : i <= j
    BY <1>1, <1>5 DEF Leads
  <2>2. FirstOf(S) \in S /\ FirstOf(S) <= i /\ i <= FirstOf(S)
    BY <1>4, <2>1
  <2>3. PICK k \in Nat : k = FirstOf(S)
    BY <1>2, <2>2
  <2>4. i \in Nat /\ i = k
    BY <1>2, <2>1, <2>2, <2>3
  <2>5. QED
    BY <1>2, <1>3, <2>1, <2>3, <2>4
<1>6. ByFd(f) # 0 => Leads(table, ByFd(f), f)
  BY <1>1, <1>3, <1>4 DEF Leads
<1>7. QED
  BY <1>5, <1>6

\* An entry that is found stays so if no other one gets before it.
LEMMA LeadsKept ==
  ASSUME NEW i, NEW f, Leads(table, i, f),
         i \in DOMAIN table' /\ table'[i].fd = f,
         \A j \in DOMAIN table' : (j \in DOMAIN table /\ table'[j].fd = table[j].fd) \/ i <= j
  PROVE  Leads(table', i, f)
BY DEF Leads

\* What is queued for a node without an entry, and with one.
LEMMA QueueIs ==
  ASSUME NEW tab, NEW n
  PROVE  /\ (\A i \in DOMAIN tab : tab[i].node # n) => QueueIn(tab, n) = <<>>
         /\ \A i \in DOMAIN tab : tab[i].node = n /\ (\A j \in DOMAIN tab : tab[j].node = n => j = i)
                                    => QueueIn(tab, n) = tab[i].queue
<1>1. ASSUME \A i \in DOMAIN tab : tab[i].node # n PROVE QueueIn(tab, n) = <<>>
  BY <1>1 DEF QueueIn
<1>2. ASSUME NEW i \in DOMAIN tab, tab[i].node = n, \A j \in DOMAIN tab : tab[j].node = n => j = i
      PROVE  QueueIn(tab, n) = tab[i].queue
  <2>1. PICK c : c = CHOOSE j \in DOMAIN tab : tab[j].node = n
    OBVIOUS
  <2>2. c \in DOMAIN tab /\ tab[c].node = n
    BY <1>2, <2>1
  <2>3. c = i
    BY <1>2, <2>2
  <2>4. QED
    BY <1>2, <2>1, <2>3 DEF QueueIn
<1>3. QED
  BY <1>1, <1>2

\* The entries of a node whose connection is as it should be.
LEMMA EntryOf ==
  ASSUME TypesInv, NEW n \in Nodes, EntryOk(n)
  PROVE  /\ \A i \in DOMAIN table : table[i].node = n =>
               /\ Leads(table, i, route[n]) /\ i = ByFd(route[n]) /\ table[i].fd = route[n] /\ route[n] # 0
               /\ table[i].queue \in Seq(Items) /\ QueueIn(table, n) = table[i].queue
         /\ \A i, j \in DOMAIN table : table[i].node = n /\ table[j].node = n => i = j
         /\ QueueIn(table, n) \in Seq(Items) /\ got[n] \in Seq(Items) /\ Whole(n) \in Seq(Items)
<1>1. \A i \in DOMAIN table : table[i] \in Entry
  BY Types
<1>2. ASSUME NEW i \in DOMAIN table, table[i].node = n
      PROVE  /\ Leads(table, i, route[n]) /\ i = ByFd(route[n]) /\ table[i].fd = route[n] /\ route[n] # 0
             /\ table[i].queue \in Seq(Items)
  <2>1. Leads(table, i, route[n]) /\ table[i].queue # NoQueue
    BY <1>2 DEF EntryOk
  <2>2. table[i].fd \in Fds /\ table[i].queue \in {NoQueue} \cup Seq(Items)
    BY <1>1 DEF Entry
  <2>3. table[i].fd = route[n]
    BY <2>1 DEF Leads
  <2>4. route[n] # 0
    BY <2>2, <2>3, Constants
  <2>5. QED
    BY <2>1, <2>2, <2>3, <2>4, LeadsIs
<1>3. \A i, j \in DOMAIN table : table[i].node = n /\ table[j].node = n => i = j
  BY <1>2
<1>4. \A i \in DOMAIN table : table[i].node = n => QueueIn(table, n) = table[i].queue
  BY <1>3, QueueIs
<1>5. QueueIn(table, n) \in Seq(Items)
  <2>1. CASE \E i \in DOMAIN table : table[i].node = n
    BY <1>2, <1>4, <2>1
  <2>2. CASE \A i \in DOMAIN table : table[i].node # n
    <3>1. QueueIn(table, n) = <<>> /\ <<>> \in Seq(Items)
      BY <2>2, QueueIs
    <3>2. QED
      BY <3>1
  <2>3. QED
    BY <2>1, <2>2
<1>6. got[n] \in Seq(Items)
  BY Types
<1>7. Whole(n) \in Seq(Items)
  BY <1>5, <1>6, ConcatProperties DEF Whole
<1>8. QED
  BY <1>2, <1>3, <1>4, <1>5, <1>6, <1>7

\* The entry of a node is left alone.
LEMMA EntryKept ==
  ASSUME TypesInv, NEW n \in Nodes, EntryOk(n), route'[n] = route[n],
         \A i \in DOMAIN table' : table'[i].node = n => i \in DOMAIN table /\ table'[i] = table[i],
         \A i \in DOMAIN table : table[i].node = n => i \in DOMAIN table' /\ table'[i] = table[i],
         \A i \in DOMAIN table : Leads(table, i, route[n]) => Leads(table', i, route[n])
  PROVE  EntryOk(n)' /\ QueueIn(table', n) = QueueIn(table, n)
<1>1. ASSUME NEW i \in DOMAIN table', table'[i].node = n
      PROVE  /\ Leads(table', i, route'[n]) /\ table'[i].queue # NoQueue
             /\ table'[i].step = 2 => table'[i].queue = <<>>
  <2>1. i \in DOMAIN table /\ table[i].node = n /\ table'[i] = table[i]
    BY <1>1
  <2>2. QED
    BY <2>1 DEF EntryOk, Leads
<1>2. EntryOk(n)'
  BY <1>1 DEF EntryOk
<1>3. \A i, j \in DOMAIN table : table[i].node = n /\ table[j].node = n => i = j
  BY EntryOf
<1>4. CASE \E i \in DOMAIN table : table[i].node = n
  <2>1. PICK i \in DOMAIN table : table[i].node = n
    BY <1>4
  <2>2. i \in DOMAIN table' /\ table'[i] = table[i] /\ \A j \in DOMAIN table' : table'[j].node = n => j = i
    BY <1>3, <2>1
  <2>3. QueueIn(table, n) = table[i].queue
    BY <2>1, EntryOf
  <2>4. QueueIn(table', n) = table'[i].queue
    BY <2>1, <2>2, QueueIs
  <2>5. QED
    BY <1>2, <2>2, <2>3, <2>4
<1>5. CASE \A i \in DOMAIN table : table[i].node # n
  <2>1. \A i \in DOMAIN table' : table'[i].node # n
    BY <1>5
  <2>2. QED
    BY <1>2, <1>5, <2>1, QueueIs
<1>6. QED
  BY <1>2, <1>4, <1>5

\* The connection of a node is as it should be after a step that leaves it alone, but for what
\* the threads that do something else do.
LEMMA ConnKept ==
  ASSUME TypesInv, NEW n \in Nodes, Conn(n), EntryOk(n)', route'[n] = route[n],
         \A f \in Fds : open[f] = n => open'[f] = n /\ (f \in listed => f \in listed'),
         \A i \in DOMAIN table : Leads(table, i, route[n]) /\ table[i].step = 2 =>
                                     Leads(table', i, route[n]) /\ table'[i].step = 2,
         \A u \in Threads : job'[u] = job[u] \/ (SetUpOk(u, n)' /\ ReadyOk(u, n)')
  PROVE  Conn(n)'
<1>1. RouteOk(n)'
  <2>1. route[n] # 0 => route[n] \in Fds
    BY Types, Constants
  <2>2. QED
    BY <2>1 DEF Conn, RouteOk
<1>2. ASSUME NEW u \in Threads, job'[u] = job[u] PROVE SetUpOk(u, n)' /\ ReadyOk(u, n)'
  <2>1. job[u].pc \in SetUpPcs => job[u].f \in Fds
    BY JobOf
  <2>2. SetUpOk(u, n)'
    BY <1>2, <2>1 DEF Conn, SetUpOk, Node
  <2>3. ASSUME job[u].pc \in {"send", "direct"}, Node(u) = n
        PROVE  \E i \in DOMAIN table' : Leads(table', i, route'[n]) /\ table'[i].step = 2
    <3>1. PICK i \in DOMAIN table : Leads(table, i, route[n]) /\ table[i].step = 2
      BY <2>3 DEF Conn, ReadyOk
    <3>2. Leads(table', i, route[n]) /\ table'[i].step = 2
      BY <3>1
    <3>3. i \in DOMAIN table'
      BY <3>2 DEF Leads
    <3>4. QED
      BY <3>2, <3>3
  <2>4. ReadyOk(u, n)'
    BY <1>2, <2>3 DEF ReadyOk, Node
  <2>5. QED
    BY <2>2, <2>4
<1>3. QED
  BY <1>1, <1>2 DEF Conn

\* It is so after a step that changes nothing in the table.
LEMMA ConnStill ==
  ASSUME TypesInv, NEW n \in Nodes, Conn(n), route'[n] = route[n], table' = table,
         \A f \in Fds : open[f] = n => open'[f] = n /\ (f \in listed => f \in listed'),
         \A u \in Threads : job'[u] = job[u] \/ (SetUpOk(u, n)' /\ ReadyOk(u, n)')
  PROVE  Conn(n)' /\ QueueIn(table', n) = QueueIn(table, n)
<1>1. EntryOk(n)' /\ QueueIn(table', n) = QueueIn(table, n)
  BY EntryKept DEF Conn
<1>2. QED
  BY <1>1, ConnKept

\* A thread that does not set up a connection of the node, and does not send it a chunk.
LEMMA OneChanges ==
  ASSUME TypesInv, NEW t \in Threads, NEW r, Becomes(t, r), NEW n,
         r.pc \in SetUpPcs \cup {"send", "direct"} => Head(r.todo) # n
  PROVE  \A u \in Threads : job'[u] = job[u] \/ (SetUpOk(u, n)' /\ ReadyOk(u, n)')
<1>1. job'[t] = r /\ \A u \in Threads \ {t} : job'[u] = job[u]
  BY BecomesIs
<1>2. SetUpOk(t, n)' /\ ReadyOk(t, n)'
  BY <1>1 DEF SetUpOk, ReadyOk, Node
<1>3. QED
  BY <1>1, <1>2

\* A thread at another place, where what is asked of it is so.
LEMMA OneMoves ==
  ASSUME TypesInv, NEW t \in Threads, NEW pc, NEW f, Moves(t, pc, f), NEW n,
         pc \in SetUpPcs \cup {"send", "direct"} /\ Node(t) = n => SetUpOk(t, n)' /\ ReadyOk(t, n)'
  PROVE  /\ job'[t].pc = pc /\ job'[t].f = f /\ job'[t].a = job[t].a /\ job'[t].todo = job[t].todo
         /\ \A u \in Threads \ {t} : job'[u] = job[u]
         /\ \A u \in Threads : job'[u] = job[u] \/ (SetUpOk(u, n)' /\ ReadyOk(u, n)')
<1>1. PICK r : r = [pc |-> pc, a |-> job[t].a, todo |-> job[t].todo, f |-> f]
  OBVIOUS
<1>2. job'[t] = r /\ \A u \in Threads \ {t} : job'[u] = job[u]
  BY <1>1, BecomesIs DEF Moves
<1>3. /\ job'[t].pc = pc /\ job'[t].f = f /\ job'[t].a = job[t].a /\ job'[t].todo = job[t].todo
  BY <1>1, <1>2
<1>4. SetUpOk(t, n)' /\ ReadyOk(t, n)'
  <2>1. CASE pc \in SetUpPcs \cup {"send", "direct"} /\ Node(t) = n
    BY <2>1
  <2>2. CASE ~(pc \in SetUpPcs \cup {"send", "direct"} /\ Node(t) = n)
    BY <1>3, <2>2 DEF SetUpOk, ReadyOk, Node
  <2>3. QED
    BY <2>1, <2>2
<1>5. QED
  BY <1>2, <1>3, <1>4

\* A thread that goes on with the next node, or is done.
LEMMA NextChanges ==
  ASSUME TypesInv, NEW t \in Threads, GoesOn(t) \/ IsDone(t), NEW n
  PROVE  \A u \in Threads : job'[u] = job[u] \/ (SetUpOk(u, n)' /\ ReadyOk(u, n)')
<1>1. CASE GoesOn(t)
  <2>1. PICK p : p = IF t \in Workers THEN "look" ELSE "other"
    OBVIOUS
  <2>2. PICK r : r = [pc |-> p, a |-> job[t].a, todo |-> Tail(job[t].todo), f |-> job[t].f]
    OBVIOUS
  <2>3. Becomes(t, r) /\ r.pc = p /\ p \notin SetUpPcs \cup {"send", "direct"}
    BY <1>1, <2>1, <2>2 DEF GoesOn, SetUpPcs
  <2>4. QED
    BY <2>3, OneChanges
<1>2. CASE IsDone(t)
  <2>1. Becomes(t, Idle) /\ Idle.pc \notin SetUpPcs \cup {"send", "direct"}
    BY <1>2 DEF IsDone, Idle, SetUpPcs
  <2>2. QED
    BY <2>1, OneChanges
<1>3. QED
  BY <1>1, <1>2

\* What something that went wrong says of a node for which nothing did.
LEMMA FlawSpares ==
  ASSUME TypesInv, NEW N, NEW why, Flaw(N, why), NEW n \in Nodes, Sound(n)'
  PROVE  n \notin N /\ got'[n] = got[n] /\ Sound(n)
<1>1. /\ flaws' = [m \in Nodes |-> IF m \in N THEN flaws[m] \cup {why} ELSE flaws[m]]
      /\ got' = [m \in Nodes |-> IF m \in N THEN <<>> ELSE got[m]]
  BY DEF Flaw
<1>2. n \notin N
  BY <1>1 DEF Sound
<1>3. QED
  BY <1>1, <1>2 DEF Sound

\* What a write says of a node for which nothing went wrong: it went to the node's number, and
\* the node was sent what was written to it.
LEMMA WrittenSpares ==
  ASSUME TypesInv, NEW f, NEW m, NEW item, Written(f, m, item), NEW n \in Nodes, Sound(n)'
  PROVE  /\ Sound(n)
         /\ got'[n] = IF n = m /\ item # Request THEN got[n] \o <<item>> ELSE got[n] \o <<>>
<1>1. got \in [Nodes -> Seq(Items)]
  BY Types
<1>2. got[n] \o <<>> = got[n]
  <2>1. PICK s \in Seq(Items) : s = got[n]
    BY <1>1
  <2>2. s \o <<>> = s
    OBVIOUS
  <2>3. QED
    BY <2>1, <2>2
<1>3. CASE f # 0 /\ open[f] \in Nodes /\ f \notin hung
  <2>1. CASE open[f] # m
    <3>1. Flaw({m, open[f]}, "misled")
      BY <1>3, <2>1 DEF Written
    <3>2. n \notin {m, open[f]} /\ got'[n] = got[n] /\ Sound(n)
      BY <3>1, FlawSpares
    <3>3. QED
      BY <1>2, <3>2
  <2>2. CASE open[f] = m
    <3>1. got' = After(m, IF item = Request THEN <<>> ELSE <<item>>) /\ flaws' = flaws
      BY <1>3, <2>2 DEF Written
    <3>2. Sound(n)
      BY <3>1 DEF Sound
    <3>3. got'[n] = IF n = m THEN got[n] \o (IF item = Request THEN <<>> ELSE <<item>>) ELSE got[n]
      BY <1>1, <3>1, <3>2 DEF After, Sound
    <3>4. QED
      BY <1>2, <3>2, <3>3
  <2>3. QED
    BY <2>1, <2>2
<1>4. CASE ~(f # 0 /\ open[f] \in Nodes /\ f \notin hung)
  <2>1. Flaw({m}, "broken")
    BY <1>4 DEF Written
  <2>2. n \notin {m} /\ got'[n] = got[n] /\ Sound(n)
    BY <2>1, FlawSpares
  <2>3. QED
    BY <1>2, <2>2
<1>5. QED
  BY <1>3, <1>4

-----------------------------------------------------------------------------
\* The connection of node n stays as it should be, and nothing is added to what it was sent or
\* will be.
Kept(n) == Conn(n)' /\ Whole(n)' = Whole(n)

\* Thread t has added its chunk.
Added(n, t) == Conn(n)' /\ Whole(n)' = Append(Whole(n), Item(job[t].a))

\* What the clients do.
LEMMA ClientKeeps ==
  ASSUME TypesInv, ClientsInv, NEW n \in Nodes, Conn(n), NEW a \in Askers,
         \/ Connect(a) \/ TesterLeaves(a) \/ EquipLeaves(a) \/ \E to \in Targets, len \in Lengths : Ask(a, to, len)
         \/ \E t \in Threads : (First(a) /\ t = Reader(a)) \/ (t \in Workers /\ Later(t, a))
  PROVE  Kept(n)
<1>1. UNCHANGED <<listed, route, table, got>>
  BY DEF Connect, TesterLeaves, EquipLeaves, Ask, First, Later, sockets, history
<1>2. ASSUME NEW f \in Fds, open[f] = n PROVE open'[f] = n
  <2>1. open \in [Fds -> Askers \cup Nodes \cup {None}] /\ None \notin Nodes
    BY Types, Constants
  <2>2. CASE open' = open
    BY <1>2, <2>2
  <2>3. CASE Connect(a)
    <3>1. PICK g \in Fds : g = LowestFree /\ open[g] = None
      BY <2>3, LowestIs DEF Connect
    <3>2. open' = [open EXCEPT ![g] = a]
      BY <2>3, <3>1 DEF Connect
    <3>3. QED
      BY <1>2, <2>1, <3>1, <3>2
  <2>4. CASE TesterLeaves(a) \/ EquipLeaves(a)
    <3>1. Present(a) /\ open' = [open EXCEPT ![fd[a]] = None]
      BY <2>4 DEF TesterLeaves, EquipLeaves, Present
    <3>2. open[fd[a]] = a /\ a \notin Nodes
      BY <3>1, Constants DEF ClientsInv
    <3>3. QED
      BY <1>2, <2>1, <3>1, <3>2
  <2>5. QED
    BY <2>2, <2>3, <2>4 DEF Ask, First, Later, sockets
<1>3. \A u \in Threads : job'[u] = job[u] \/ (SetUpOk(u, n)' /\ ReadyOk(u, n)')
  <2>1. CASE job' = job
    BY <2>1
  <2>2. CASE EquipLeaves(a)
    <3>1. PICK r : r = [Idle EXCEPT !.pc = "leave", !.a = a]
      OBVIOUS
    <3>2. Becomes("ipc", r) /\ "ipc" \in Threads /\ r.pc = "leave"
      BY <2>2, <3>1, Constants DEF EquipLeaves, Becomes, Openers, Idle
    <3>3. QED
      BY <3>2, OneChanges DEF SetUpPcs
  <2>3. ASSUME NEW t \in Threads, (First(a) /\ t = Reader(a)) \/ (t \in Workers /\ Later(t, a))
        PROVE  \A u \in Threads : job'[u] = job[u] \/ (SetUpOk(u, n)' /\ ReadyOk(u, n)')
    <3>1. PICK p : p = IF t \in Workers THEN "look" ELSE "other"
      OBVIOUS
    <3>2. Starts(t, a)
      BY <2>3, StartsIs
    <3>3. PICK todo \in Seq(Nodes) : Becomes(t, [pc |-> p, a |-> a, todo |-> todo, f |-> 0])
      BY <3>1, <3>2 DEF Starts
    <3>4. PICK r : r = [pc |-> p, a |-> a, todo |-> todo, f |-> 0]
      OBVIOUS
    <3>5. Becomes(t, r) /\ r.pc = p /\ p \notin SetUpPcs \cup {"send", "direct"}
      BY <3>1, <3>3, <3>4 DEF SetUpPcs
    <3>6. QED
      BY <3>5, OneChanges
  <2>4. QED
    BY <2>1, <2>2, <2>3 DEF Connect, TesterLeaves, Ask
<1>4. Conn(n)' /\ QueueIn(table', n) = QueueIn(table, n)
  BY <1>1, <1>2, <1>3, ConnStill
<1>5. QED
  BY <1>1, <1>4 DEF Kept, Whole

\* The connections of a client that leaves are noted and closed.
LEMMA LeaveKeeps ==
  ASSUME TypesInv, NEW n \in Nodes, Conn(n), Sound(n)', Leave \/ Drop
  PROVE  Kept(n)
<1>1. UNCHANGED <<route, table>> /\ "ipc" \in Threads /\ open \in [Fds -> Askers \cup Nodes \cup {None}] /\ listed \subseteq Fds
  BY Types, Constants DEF Leave, Drop, Openers
<1>2. CASE Leave
  <2>1. UNCHANGED <<open, listed, got>>
    BY <1>2 DEF Leave, sockets, history
  <2>2. PICK D : D = [i \in SourceOf(job["ipc"].a) |-> table[i].fd]
    OBVIOUS
  <2>3. PICK r : r = [pc |-> "drop", a |-> job["ipc"].a, f |-> job["ipc"].f, todo |-> D]
    OBVIOUS
  <2>4. Becomes("ipc", r) /\ r.pc = "drop"
    BY <1>2, <2>2, <2>3, LeaveIs
  <2>5. \A u \in Threads : job'[u] = job[u] \/ (SetUpOk(u, n)' /\ ReadyOk(u, n)')
    BY <1>1, <2>4, OneChanges DEF SetUpPcs
  <2>6. Conn(n)' /\ QueueIn(table', n) = QueueIn(table, n)
    BY <1>1, <2>1, <2>5, ConnStill
  <2>7. QED
    BY <2>1, <2>6 DEF Kept, Whole
<1>3. CASE Drop
  <2>1. DropEnds \/ \E p \in DOMAIN job["ipc"].todo : DropSkips(p) \/ DropCloses(p)
    BY <1>3, DropIs
  <2>2. ASSUME DropEnds \/ \E p \in DOMAIN job["ipc"].todo : DropSkips(p)
        PROVE  Kept(n)
    <3>1. UNCHANGED <<open, listed, got>>
      BY <2>2 DEF DropEnds, DropSkips
    <3>2. PICK r : Becomes("ipc", r) /\ r.pc \in {"drop", "loop"}
      <4>1. CASE DropEnds
        BY <4>1 DEF DropEnds, Idle
      <4>2. CASE ~DropEnds
        <5>1. PICK p \in DOMAIN job["ipc"].todo : DropSkips(p)
          BY <2>2, <4>2
        <5>2. PICK r : r = [pc |-> "drop", a |-> job["ipc"].a, todo |-> Rest(p), f |-> job["ipc"].f]
          OBVIOUS
        <5>3. Becomes("ipc", r) /\ r.pc = "drop"
          BY <5>1, <5>2 DEF DropSkips
        <5>4. QED
          BY <5>3
      <4>3. QED
        BY <4>1, <4>2
    <3>3. \A u \in Threads : job'[u] = job[u] \/ (SetUpOk(u, n)' /\ ReadyOk(u, n)')
      BY <1>1, <3>2, OneChanges DEF SetUpPcs
    <3>4. Conn(n)' /\ QueueIn(table', n) = QueueIn(table, n)
      BY <1>1, <3>1, <3>3, ConnStill
    <3>5. QED
      BY <3>1, <3>4 DEF Kept, Whole
  <2>3. ASSUME NEW p \in DOMAIN job["ipc"].todo, DropCloses(p) PROVE Kept(n)
    <3>1. PICK f : f = job["ipc"].todo[p]
      OBVIOUS
    <3>2. /\ open' = [open EXCEPT ![f] = None] /\ listed' = listed \ {f}
          /\ Flaw({open[f]}, "broken")
      BY <2>3, <3>1 DEF DropCloses
    <3>3. n # open[f] /\ got'[n] = got[n]
      BY <3>2, FlawSpares
    <3>4. PICK r : r = [pc |-> "remove", a |-> job["ipc"].a, todo |-> Rest(p), f |-> f]
      OBVIOUS
    <3>5. Becomes("ipc", r) /\ r.pc = "remove"
      BY <2>3, <3>1, <3>4 DEF DropCloses
    <3>6. \A u \in Threads : job'[u] = job[u] \/ (SetUpOk(u, n)' /\ ReadyOk(u, n)')
      BY <1>1, <3>5, OneChanges DEF SetUpPcs
    <3>7. \A g \in Fds : open[g] = n => open'[g] = n /\ (g \in listed => g \in listed')
      BY <1>1, <3>2, <3>3
    <3>8. Conn(n)' /\ QueueIn(table', n) = QueueIn(table, n)
      BY <1>1, <3>6, <3>7, ConnStill
    <3>9. QED
      BY <3>3, <3>8 DEF Kept, Whole
  <2>4. QED
    BY <2>1, <2>2, <2>3
<1>4. QED
  BY <1>2, <1>3

\* A node closes a connection, the net thread does, or a node answers.
LEMMA SocketKeeps ==
  ASSUME TypesInv, HungInv, NEW n \in Nodes, Conn(n), Sound(n)', NEW f \in Fds,
         Hang(f) \/ CloseTest(f) \/ Answer(f) \/ NullQueue(f)
  PROVE  Kept(n)
<1>1. UNCHANGED <<route, table>> /\ open \in [Fds -> Askers \cup Nodes \cup {None}] /\ listed \subseteq Fds
      /\ "net" \in Threads
  BY Types, Constants DEF Hang, CloseTest, Answer, NullQueue, Openers
<1>2. CASE Hang(f) \/ Answer(f)
  <2>1. UNCHANGED <<open, listed, job>> /\ got'[n] = got[n]
    <3>1. CASE Hang(f)
      <4>1. Flaw({open[f]}, "broken")
        BY <3>1 DEF Hang
      <4>2. QED
        BY <3>1, <4>1, FlawSpares DEF Hang
    <3>2. CASE Answer(f)
      BY <3>2 DEF Answer
    <3>3. QED
      BY <1>2, <3>1, <3>2
  <2>2. Conn(n)' /\ QueueIn(table', n) = QueueIn(table, n)
    BY <1>1, <2>1, ConnStill
  <2>3. QED
    BY <2>1, <2>2 DEF Kept, Whole
<1>3. CASE CloseTest(f) \/ NullQueue(f)
  <2>1. UNCHANGED <<got, flaws>>
    BY <1>3 DEF CloseTest, NullQueue
  <2>2. PICK r : Becomes("net", r) /\ r.pc \in {"crashed", "remove"}
    <3>1. CASE NullQueue(f)
      <4>1. PICK r : r = [pc |-> "crashed", a |-> job["net"].a, todo |-> job["net"].todo, f |-> 0]
        OBVIOUS
      <4>2. Becomes("net", r) /\ r.pc = "crashed"
        BY <3>1, <4>1 DEF NullQueue, Moves
      <4>3. QED
        BY <4>2
    <3>2. CASE CloseTest(f)
      <4>1. PICK r : r = [pc |-> "remove", a |-> None, todo |-> <<>>, f |-> f]
        OBVIOUS
      <4>2. Becomes("net", r) /\ r.pc = "remove"
        BY <3>2, <4>1, CloseIs
      <4>3. QED
        BY <4>2
    <3>3. QED
      BY <1>3, <3>1, <3>2
  <2>3. \A u \in Threads : job'[u] = job[u] \/ (SetUpOk(u, n)' /\ ReadyOk(u, n)')
    BY <1>1, <2>2, OneChanges DEF SetUpPcs
  <2>4. \A g \in Fds : open[g] = n => open'[g] = n /\ (g \in listed => g \in listed')
    <3>1. CASE NullQueue(f)
      BY <3>1 DEF NullQueue
    <3>2. CASE CloseTest(f)
      <4>1. f \in hung /\ open' = [open EXCEPT ![f] = None] /\ listed' = listed \ {f}
        BY <3>2 DEF CloseTest
      <4>2. open[f] # n
        BY <2>1, <4>1 DEF HungInv, Sound
      <4>3. QED
        BY <1>1, <4>1, <4>2
    <3>3. QED
      BY <1>3, <3>1, <3>2
  <2>5. Conn(n)' /\ QueueIn(table', n) = QueueIn(table, n)
    BY <1>1, <2>3, <2>4, ConnStill
  <2>6. QED
    BY <2>1, <2>5 DEF Kept, Whole
<1>4. QED
  BY <1>2, <1>3

\* Nothing is queued for a node whose connection is active.
LEMMA QueueEmpty ==
  ASSUME TypesInv, NEW n \in Nodes, EntryOk(n), NEW i \in DOMAIN table, Leads(table, i, route[n]), table[i].step = 2
  PROVE  QueueIn(table, n) = <<>>
<1>1. CASE \E j \in DOMAIN table : table[j].node = n
  <2>1. PICK j \in DOMAIN table : table[j].node = n
    BY <1>1
  <2>2. j = i
    BY <2>1, EntryOf, LeadsIs
  <2>3. table[i].queue = <<>>
    BY <2>1, <2>2 DEF EntryOk
  <2>4. QED
    BY <2>1, <2>2, <2>3, EntryOf
<1>2. CASE \A j \in DOMAIN table : table[j].node # n
  BY <1>2, QueueIs
<1>3. QED
  BY <1>1, <1>2

\* A change to the step or the queue of an entry that is not the node's.
LEMMA OtherEntry ==
  ASSUME TypesInv, NEW n \in Nodes, Conn(n), NEW i \in DOMAIN table, NEW e, table' = [table EXCEPT ![i] = e],
         table[i].node # n, e.node # n, e.fd = table[i].fd, table[i].step = 2 => e.step = 2,
         route'[n] = route[n], UNCHANGED <<open, listed>>,
         \A u \in Threads : job'[u] = job[u] \/ (SetUpOk(u, n)' /\ ReadyOk(u, n)')
  PROVE  Conn(n)' /\ QueueIn(table', n) = QueueIn(table, n)
<1>1. DOMAIN table' = DOMAIN table /\ table'[i] = e /\ \A j \in DOMAIN table \ {i} : table'[j] = table[j]
  BY Types
<1>2. \A j \in DOMAIN table : table'[j].fd = table[j].fd
  BY <1>1
<1>3. \A j \in DOMAIN table : Leads(table, j, route[n]) => Leads(table', j, route[n])
  BY <1>1, <1>2 DEF Leads
<1>4. EntryOk(n)' /\ QueueIn(table', n) = QueueIn(table, n)
  BY <1>1, <1>3, EntryKept DEF Conn
<1>5. \A j \in DOMAIN table : table[j].step = 2 => table'[j].step = 2
  BY <1>1
<1>6. Conn(n)'
  BY <1>3, <1>4, <1>5, ConnKept
<1>7. QED
  BY <1>4, <1>6

\* The first chunk of a message: the connection is used, or one is to be opened.
LEMMA OtherKeeps ==
  ASSUME TypesInv, NEW n \in Nodes, Conn(n), Sound(n)', NEW t \in Threads, Other(t)
  PROVE  Kept(n)
<1>1. job[t].pc = "other" /\ UNCHANGED <<open, listed, route>> /\ job[t].pc \in ChunkPcs
  BY DEF Other, sockets, ChunkPcs
<1>2. PICK k \in Nodes : k = Node(t)
  BY <1>1, JobOf
<1>3. CASE route[k] > 0
  <2>1. PICK i : i = ByFd(route[k])
    OBVIOUS
  <2>2. /\ table' = IF i = 0 THEN table ELSE [table EXCEPT ![i].step = 2]
        /\ IF i = 0 \/ table[i].step # 2 THEN Flaw({k, open[route[k]]}, "hurried") ELSE UNCHANGED account
        /\ GotoWith(t, "send", route[k])
    BY <1>2, <1>3, <2>1 DEF Other
  <2>3. Moves(t, "send", route[k])
    BY <2>2, MovesIs
  <2>4. /\ got'[n] = got[n]
        /\ i = 0 \/ table[i].step # 2 => n # k /\ n # open[route[k]]
    <3>1. CASE i = 0 \/ table[i].step # 2
      BY <2>2, <3>1, FlawSpares
    <3>2. CASE ~(i = 0 \/ table[i].step # 2)
      BY <2>2, <3>2 DEF account
    <3>3. QED
      BY <3>1, <3>2
  <2>5. CASE i = 0
    <3>1. n # Node(t)
      BY <1>2, <2>4, <2>5
    <3>2. \A u \in Threads : job'[u] = job[u] \/ (SetUpOk(u, n)' /\ ReadyOk(u, n)')
      BY <2>3, <3>1, OneMoves
    <3>3. table' = table
      BY <2>2, <2>5
    <3>4. Conn(n)' /\ QueueIn(table', n) = QueueIn(table, n)
      BY <1>1, <3>2, <3>3, ConnStill
    <3>5. QED
      BY <2>4, <3>4 DEF Kept, Whole
  <2>6. CASE i # 0 /\ table[i].step = 2
    <3>1. Leads(table, i, route[k]) /\ i \in DOMAIN table
      BY <2>1, <2>6, LeadsIs DEF Leads
    <3>2. table' = table
      <4>1. PICK e \in Entry : e = table[i]
        BY <3>1, Types
      <4>2. [e EXCEPT !.step = 2] = e
        BY <2>6, <4>1 DEF Entry
      <4>3. table' = [table EXCEPT ![i] = [e EXCEPT !.step = 2]]
        BY <2>2, <2>6, <4>1
      <4>4. QED
        BY <3>1, <4>1, <4>2, <4>3, Types
    <3>3. Node(t) = n => SetUpOk(t, n)' /\ ReadyOk(t, n)'
      <4>1. job'[t].pc = "send"
        <5>1. PICK r : r = [pc |-> "send", a |-> job[t].a, todo |-> job[t].todo, f |-> route[k]]
          OBVIOUS
        <5>2. job'[t] = r
          BY <2>3, <5>1, BecomesIs DEF Moves
        <5>3. QED
          BY <5>1, <5>2
      <4>2. QED
        BY <1>1, <1>2, <2>6, <3>1, <3>2, <4>1 DEF SetUpOk, ReadyOk, SetUpPcs
    <3>4. \A u \in Threads : job'[u] = job[u] \/ (SetUpOk(u, n)' /\ ReadyOk(u, n)')
      BY <2>3, <3>3, OneMoves
    <3>5. Conn(n)' /\ QueueIn(table', n) = QueueIn(table, n)
      BY <1>1, <3>2, <3>4, ConnStill
    <3>6. QED
      BY <2>4, <3>5 DEF Kept, Whole
  <2>7. CASE i # 0 /\ table[i].step # 2
    <3>1. Leads(table, i, route[k]) /\ i \in DOMAIN table /\ table[i].fd = route[k]
      BY <2>1, <2>7, LeadsIs DEF Leads
    <3>2. n # k /\ n # open[route[k]]
      BY <2>4, <2>7
    <3>3. table[i].node # n
      <4>1. table[i].node = n => route[n] = route[k] /\ route[n] # 0 /\ open[route[n]] = n
        BY <3>1, EntryOf DEF Conn, RouteOk
      <4>2. QED
        BY <3>2, <4>1
    <3>4. PICK e \in Entry : e = table[i]
      BY <3>1, Types
    <3>5. PICK d : d = [e EXCEPT !.step = 2]
      OBVIOUS
    <3>6. d.node = e.node /\ d.fd = e.fd /\ d.step = 2
      BY <3>5 DEF Entry
    <3>7. table' = [table EXCEPT ![i] = d]
      BY <2>2, <2>7, <3>4, <3>5
    <3>8. \A u \in Threads : job'[u] = job[u] \/ (SetUpOk(u, n)' /\ ReadyOk(u, n)')
      BY <1>2, <2>3, <3>2, OneMoves
    <3>9. Conn(n)' /\ QueueIn(table', n) = QueueIn(table, n)
      BY <1>1, <3>1, <3>3, <3>4, <3>6, <3>7, <3>8, OtherEntry
    <3>10. QED
      BY <2>4, <3>9 DEF Kept, Whole
  <2>8. QED
    BY <2>5, <2>6, <2>7
<1>4. CASE ~(route[k] > 0)
  <2>1. /\ Goto(t, "cache") /\ table' = table
        /\ IF Making(k) # {} THEN Flaw({k}, "twice") ELSE UNCHANGED account
    BY <1>2, <1>4 DEF Other
  <2>2. got'[n] = got[n]
    <3>1. CASE Making(k) # {}
      BY <2>1, <3>1, FlawSpares
    <3>2. CASE Making(k) = {}
      BY <2>1, <3>2 DEF account
    <3>3. QED
      BY <3>1, <3>2
  <2>3. Moves(t, "cache", job[t].f) /\ "cache" \notin SetUpPcs \cup {"send", "direct"}
    BY <2>1, MovesIs DEF SetUpPcs
  <2>4. \A u \in Threads : job'[u] = job[u] \/ (SetUpOk(u, n)' /\ ReadyOk(u, n)')
    BY <2>3, OneMoves
  <2>5. Conn(n)' /\ QueueIn(table', n) = QueueIn(table, n)
    BY <1>1, <2>1, <2>4, ConnStill
  <2>6. QED
    BY <2>2, <2>5 DEF Kept, Whole
<1>5. QED
  BY <1>3, <1>4

\* A chunk is sent at once.
LEMMA SentAdds ==
  ASSUME TypesInv, ClientsInv, NEW n \in Nodes, Conn(n), Sound(n)', NEW t \in Threads,
         Send(t) \/ (t \in Workers /\ Direct(t))
  PROVE  (Node(t) = n => Added(n, t)) /\ (Node(t) # n => Kept(n))
<1>1. /\ job[t].pc \in {"send", "direct"} /\ Next1(t) /\ job[t].pc \in ChunkPcs
      /\ UNCHANGED <<open, listed, route, table>>
      /\ \E f : Written(f, Node(t), Item(job[t].a))
  BY DEF Send, Direct, ChunkPcs
<1>2. job[t].a \in Askers /\ HasChunk(job[t].a)
  BY <1>1, JobOf DEF ClientsInv
<1>3. PICK x \in Items : x = Item(job[t].a) /\ x # Request
  BY <1>2, ItemIs, RequestIsNone
<1>4. PICK f : Written(f, Node(t), x)
  BY <1>1, <1>3
<1>5. got'[n] = IF n = Node(t) THEN got[n] \o <<x>> ELSE got[n] \o <<>>
  BY <1>3, <1>4, WrittenSpares
<1>6. GoesOn(t) \/ IsDone(t)
  BY <1>1, NextIs
<1>7. \A u \in Threads : job'[u] = job[u] \/ (SetUpOk(u, n)' /\ ReadyOk(u, n)')
  BY <1>6, NextChanges
<1>8. Conn(n)' /\ QueueIn(table', n) = QueueIn(table, n)
  BY <1>1, <1>7, ConnStill
<1>9. PICK s \in Seq(Items) : s = got[n]
  BY Types
<1>10. PICK q \in Seq(Items) : q = QueueIn(table, n)
  BY EntryOf DEF Conn
<1>11. ASSUME Node(t) = n PROVE Added(n, t)
  <2>1. q = <<>>
    BY <1>1, <1>10, <1>11, QueueEmpty DEF Conn, ReadyOk
  <2>2. Whole(n) = s
    BY <1>9, <1>10, <2>1, Behinds DEF Whole
  <2>3. got'[n] = Append(s, x) /\ Append(s, x) \in Seq(Items)
    BY <1>5, <1>9, <1>11, Behinds
  <2>4. Whole(n)' = Append(s, x) \o <<>>
    BY <1>8, <1>10, <2>1, <2>3 DEF Whole
  <2>5. Whole(n)' = Append(s, x)
    BY <2>3, <2>4, ConcatEmptySeq
  <2>6. QED
    BY <1>3, <1>8, <2>2, <2>5 DEF Added
<1>12. ASSUME Node(t) # n PROVE Kept(n)
  <2>1. got'[n] = s
    BY <1>5, <1>9, <1>12, ConcatEmptySeq
  <2>2. QED
    BY <1>8, <1>9, <2>1 DEF Kept, Whole
<1>13. QED
  BY <1>11, <1>12

\* A request for activation is sent, or there is no connection and the chunk is dropped.
LEMMA AskedKeeps ==
  ASSUME TypesInv, NEW n \in Nodes, Conn(n), Sound(n)', NEW t \in Threads, Activate(t) \/ Unreachable(t)
  PROVE  Kept(n) /\ (Unreachable(t) => Node(t) # n)
<1>1. /\ job[t].pc \in {"activate", "cache"} /\ Next1(t) /\ job[t].pc \in ChunkPcs
      /\ UNCHANGED <<open, listed, route, table>>
  BY DEF Activate, Unreachable, ChunkPcs, SetUpPcs, sockets
<1>2. \A u \in Threads : job'[u] = job[u] \/ (SetUpOk(u, n)' /\ ReadyOk(u, n)')
  BY <1>1, NextIs, NextChanges
<1>3. Conn(n)' /\ QueueIn(table', n) = QueueIn(table, n)
  BY <1>1, <1>2, ConnStill
<1>4. got'[n] = got[n] /\ (Unreachable(t) => Node(t) # n)
  <2>1. CASE Unreachable(t)
    <3>1. Flaw({Node(t)}, "dropped")
      BY <2>1 DEF Unreachable
    <3>2. n \notin {Node(t)} /\ got'[n] = got[n]
      BY <3>1, FlawSpares
    <3>3. QED
      BY <3>2
  <2>2. CASE Activate(t)
    <3>1. Written(job[t].f, Node(t), Request) /\ ~Unreachable(t)
      BY <2>2 DEF Activate, Unreachable
    <3>2. got'[n] = got[n] \o <<>>
      BY <3>1, WrittenSpares
    <3>3. got[n] \in Seq(Items)
      BY Types
    <3>4. QED
      BY <3>1, <3>2, <3>3, ConcatEmptySeq
  <2>3. QED
    BY <2>1, <2>2
<1>5. QED
  BY <1>3, <1>4 DEF Kept, Whole

\* A later chunk is looked up: there is a connection, or the chunk is dropped.
LEMMA LookKeeps ==
  ASSUME TypesInv, NEW n \in Nodes, Conn(n), Sound(n)', NEW w \in Workers, Look(w)
  PROVE  /\ Kept(n)
         /\ \/ Next1(w) /\ Node(w) # n
            \/ ask' = ask /\ \E pc \in {"direct", "store"}, f \in Fds : Moves(w, pc, f)
<1>1. w \in Threads /\ job[w].pc = "look" /\ UNCHANGED <<open, listed, route, table>> /\ job[w].pc \in ChunkPcs
  BY Constants DEF Look, sockets, ChunkPcs
<1>2. PICK i : i = Found(w)
  OBVIOUS
<1>3. CASE i = 0
  <2>1. Flaw({Node(w)}, "dropped") /\ Next1(w)
    BY <1>2, <1>3 DEF Look
  <2>2. n \notin {Node(w)} /\ got'[n] = got[n]
    BY <2>1, FlawSpares
  <2>3. \A u \in Threads : job'[u] = job[u] \/ (SetUpOk(u, n)' /\ ReadyOk(u, n)')
    BY <1>1, <2>1, NextIs, NextChanges
  <2>4. Conn(n)' /\ QueueIn(table', n) = QueueIn(table, n)
    BY <1>1, <2>3, ConnStill
  <2>5. QED
    BY <2>1, <2>2, <2>4 DEF Kept, Whole
<1>4. CASE i # 0
  <2>1. PICK pc : /\ pc = (IF table[i].step = 2 THEN "direct" ELSE "store")
                  /\ GotoWith(w, pc, table[i].fd) /\ UNCHANGED <<account, ask>>
    BY <1>2, <1>4 DEF Look
  <2>2. i \in DOMAIN table
    BY <1>2, <1>4, ByFdIs, ByNodeIs, Types DEF Found
  <2>3. table[i].fd \in Fds /\ pc \in {"direct", "store"} /\ (pc = "direct" => table[i].step = 2)
    BY <2>1, <2>2, Types DEF Entry
  <2>4. Moves(w, pc, table[i].fd)
    BY <1>1, <2>1, MovesIs
  <2>5. Node(w) = n => Leads(table, i, route[n])
    <3>1. CASE ask[job[w].a].to = "group"
      BY <1>2, <1>4, <3>1, LeadsIs DEF Found
    <3>2. CASE ask[job[w].a].to # "group"
      <4>1. i = ByNode(Node(w))
        BY <1>2, <3>2 DEF Found
      <4>2. table[i].node = Node(w)
        BY <1>4, <4>1, ByNodeIs, Types
      <4>3. QED
        BY <2>2, <4>2 DEF Conn, EntryOk
    <3>3. QED
      BY <3>1, <3>2
  <2>6. pc \in SetUpPcs \cup {"send", "direct"} /\ Node(w) = n => SetUpOk(w, n)' /\ ReadyOk(w, n)'
    <3>1. job'[w].pc = pc
      <4>1. PICK r : r = [pc |-> pc, a |-> job[w].a, todo |-> job[w].todo, f |-> table[i].fd]
        OBVIOUS
      <4>2. job'[w] = r
        BY <1>1, <2>4, <4>1, BecomesIs DEF Moves
      <4>3. QED
        BY <4>1, <4>2
    <3>2. QED
      BY <1>1, <2>2, <2>3, <2>5, <3>1 DEF SetUpOk, ReadyOk, SetUpPcs
  <2>7. \A u \in Threads : job'[u] = job[u] \/ (SetUpOk(u, n)' /\ ReadyOk(u, n)')
    BY <1>1, <2>4, <2>6, OneMoves
  <2>8. Conn(n)' /\ QueueIn(table', n) = QueueIn(table, n)
    BY <1>1, <2>7, ConnStill
  <2>9. QED
    BY <2>1, <2>3, <2>4, <2>8 DEF Kept, Whole, account
<1>5. QED
  BY <1>3, <1>4

\* A later chunk is queued.
LEMMA StoreAdds ==
  ASSUME TypesInv, ClientsInv, NEW n \in Nodes, Conn(n), Sound(n)', NEW w \in Workers, Store(w)
  PROVE  (Node(w) = n => Added(n, w)) /\ (Node(w) # n => Kept(n))
<1>1. /\ w \in Threads /\ job[w].pc = "store" /\ Next1(w) /\ job[w].pc \in ChunkPcs
      /\ UNCHANGED <<open, listed, route>>
  BY Constants DEF Store, sockets, ChunkPcs
<1>2. PICK i : i = ByFd(Number(w))
  OBVIOUS
<1>3. \A u \in Threads : job'[u] = job[u] \/ (SetUpOk(u, n)' /\ ReadyOk(u, n)')
  BY <1>1, NextIs, NextChanges
<1>4. CASE i = 0 \/ (i # 0 /\ table[i].queue = NoQueue)
  <2>1. Flaw({Node(w)}, "dropped") /\ table' = table
    BY <1>2, <1>4 DEF Store
  <2>2. n \notin {Node(w)} /\ got'[n] = got[n]
    BY <2>1, FlawSpares
  <2>3. Conn(n)' /\ QueueIn(table', n) = QueueIn(table, n)
    BY <1>1, <1>3, <2>1, ConnStill
  <2>4. QED
    BY <2>2, <2>3 DEF Kept, Whole
<1>5. CASE ~(i = 0 \/ (i # 0 /\ table[i].queue = NoQueue))
  <2>1. i \in DOMAIN table
    BY <1>2, <1>5, ByFdIs, Types
  <2>2. PICK e \in Entry : e = table[i]
    BY <2>1, Types
  <2>3. job[w].a \in Askers /\ HasChunk(job[w].a)
    BY <1>1, JobOf DEF ClientsInv
  <2>4. PICK x \in Items : x = Item(job[w].a)
    BY <2>3, ItemIs
  <2>5. PICK q \in Seq(Items) : q = e.queue
    <3>1. e.queue \in Seq(Items)
      BY <1>5, <2>2 DEF Entry
    <3>2. QED
      BY <3>1
  <2>6. PICK d : d = [e EXCEPT !.queue = Append(q, x)]
    OBVIOUS
  <2>7. d.node = e.node /\ d.fd = e.fd /\ d.step = e.step /\ d.queue = Append(q, x) /\ e.step \in {1, 2}
    BY <2>6 DEF Entry
  <2>8. table' = [table EXCEPT ![i] = d]
    BY <1>2, <1>5, <2>2, <2>4, <2>5, <2>6 DEF Store, Inserted
  <2>9. CASE table[i].node # Node(w)
    <3>1. Flaw({Node(w), table[i].node}, "misled")
      BY <1>2, <1>5, <2>9 DEF Store
    <3>2. n \notin {Node(w), table[i].node} /\ got'[n] = got[n]
      BY <3>1, FlawSpares
    <3>3. Conn(n)' /\ QueueIn(table', n) = QueueIn(table, n)
      BY <1>1, <1>3, <2>1, <2>2, <2>7, <2>8, <3>2, OtherEntry
    <3>4. QED
      BY <3>2, <3>3 DEF Kept, Whole
  <2>10. CASE table[i].node = Node(w) /\ table[i].step = 2
    <3>1. Flaw({Node(w)}, "stranded")
      BY <1>2, <1>5, <2>10 DEF Store
    <3>2. n \notin {Node(w)} /\ got'[n] = got[n]
      BY <3>1, FlawSpares
    <3>3. Conn(n)' /\ QueueIn(table', n) = QueueIn(table, n)
      BY <1>1, <1>3, <2>1, <2>2, <2>7, <2>8, <2>10, <3>2, OtherEntry
    <3>4. QED
      BY <3>2, <3>3 DEF Kept, Whole
  <2>11. CASE table[i].node = Node(w) /\ table[i].step # 2
    <3>1. got' = got
      BY <1>2, <1>5, <2>11 DEF Store, account
    <3>2. ASSUME Node(w) # n PROVE Kept(n)
      <4>1. Conn(n)' /\ QueueIn(table', n) = QueueIn(table, n)
        BY <1>1, <1>3, <2>1, <2>2, <2>7, <2>8, <2>11, <3>2, OtherEntry
      <4>2. QED
        BY <3>1, <4>1 DEF Kept, Whole
    <3>3. ASSUME Node(w) = n PROVE Added(n, w)
      <4>1. DOMAIN table' = DOMAIN table /\ table'[i] = d /\ \A j \in DOMAIN table \ {i} : table'[j] = table[j]
        BY <2>1, <2>8, Types
      <4>2. \A j \in DOMAIN table : table[j].node = n <=> j = i
        BY <2>1, <2>11, <3>3, EntryOf DEF Conn
      <4>3. \A j \in DOMAIN table' : table'[j].node = n <=> j = i
        BY <2>2, <2>7, <4>1, <4>2
      <4>4. \A j \in DOMAIN table : table'[j].fd = table[j].fd /\ table'[j].step = table[j].step
        BY <2>2, <2>7, <4>1
      <4>5. \A j \in DOMAIN table : Leads(table, j, route[n]) => Leads(table', j, route[n])
        BY <4>1, <4>4 DEF Leads
      <4>6. Append(q, x) \in Seq(Items) /\ Append(q, x) # NoQueue
        BY RequestIsNone
      <4>7. EntryOk(n)'
        <5>1. Leads(table', i, route'[n])
          BY <1>1, <2>1, <4>2, <4>5 DEF Conn, EntryOk
        <5>2. table'[i].queue # NoQueue /\ table'[i].step # 2
          BY <2>1, <2>7, <2>11, <4>1, <4>4, <4>6
        <5>3. QED
          BY <4>3, <5>1, <5>2 DEF EntryOk
      <4>8. Conn(n)'
        BY <1>1, <1>3, <4>4, <4>5, <4>7, ConnKept
      <4>9. QueueIn(table', n) = Append(q, x) /\ QueueIn(table, n) = q
        BY <2>1, <2>2, <2>5, <2>7, <4>1, <4>2, <4>3, QueueIs
      <4>10. got[n] \in Seq(Items)
        BY Types
      <4>11. got[n] \o Append(q, x) = Append(got[n] \o q, x)
        BY <4>10, Behinds
      <4>12. QED
        BY <2>4, <3>1, <4>8, <4>9, <4>11 DEF Added, Whole
    <3>4. QED
      BY <3>2, <3>3
  <2>12. QED
    BY <2>9, <2>10, <2>11
<1>6. QED
  BY <1>4, <1>5

\* The answer to a request for activation.
LEMMA ActivatedKeeps ==
  ASSUME TypesInv, HungInv, NEW n \in Nodes, Conn(n), Sound(n)', NEW f \in Fds, NEW granted \in BOOLEAN,
         Activated(f, granted)
  PROVE  Kept(n)
<1>1. UNCHANGED <<open, listed, route>>
  BY DEF Activated
<1>2. PICK i : i = ByFd(f)
  OBVIOUS
<1>3. CASE NullQueue(f)
  BY <1>3, SocketKeeps
<1>4. CASE i = 0
  <2>1. UNCHANGED <<table, got, job>>
    BY <1>2, <1>4 DEF Activated
  <2>2. Conn(n)' /\ QueueIn(table', n) = QueueIn(table, n)
    BY <1>1, <2>1, ConnStill
  <2>3. QED
    BY <2>1, <2>2 DEF Kept, Whole
<1>5. CASE i # 0 /\ table[i].queue = NoQueue
  <2>1. i \in DOMAIN table /\ table[i].fd = f
    BY <1>2, <1>5, ByFdIs, Types
  <2>2. Goto("net", "crashed") /\ job["net"] = Idle /\ "net" \in Threads
    BY <1>2, <1>5, Constants DEF Activated, Openers
  <2>3. Moves("net", "crashed", 0)
    BY <2>2, MovesIs DEF Idle
  <2>4. NullQueue(f)
    BY <1>2, <1>5, <2>1, <2>3 DEF Activated, NullQueue
  <2>5. QED
    BY <2>4, <1>3
<1>6. CASE i # 0 /\ table[i].queue # NoQueue
  <2>1. i \in DOMAIN table /\ table[i].fd = f
    BY <1>2, <1>6, ByFdIs, Types
  <2>2. PICK e \in Entry : e = table[i]
    BY <2>1, Types
  <2>3. PICK q \in Seq(Items) : q = e.queue
    <3>1. e.queue \in Seq(Items)
      BY <1>6, <2>2 DEF Entry
    <3>2. QED
      BY <3>1
  <2>4. table[i].node = n => open[f] = n
    BY <2>1, EntryOf DEF Conn, RouteOk
  <2>5. CASE granted
    <3>1. /\ table' = [table EXCEPT ![i] = [e EXCEPT !.queue = <<>>, !.step = 2]]
          /\ IF table[i].node # open[f] THEN Flaw({open[f], table[i].node}, "misled")
             ELSE got' = After(open[f], q) /\ UNCHANGED flaws
          /\ job' = job
      BY <1>2, <1>6, <2>2, <2>3, <2>5 DEF Activated, Unsent
    <3>2. PICK c : c = [e EXCEPT !.queue = <<>>]
      OBVIOUS
    <3>3. c \in Entry /\ c.node = e.node /\ c.fd = e.fd /\ c.queue = <<>>
      <4>1. <<>> \in Seq(Items)
        OBVIOUS
      <4>2. QED
        BY <3>2, <4>1 DEF Entry
    <3>4. PICK d : d = [c EXCEPT !.step = 2]
      OBVIOUS
    <3>5. d.node = e.node /\ d.fd = e.fd /\ d.queue = <<>> /\ d.step = 2
      BY <3>3, <3>4 DEF Entry
    <3>6. table' = [table EXCEPT ![i] = d]
      BY <3>1, <3>2, <3>4
    <3>7. CASE table[i].node # n
      <4>1. got'[n] = got[n]
        <5>1. CASE table[i].node # open[f]
          BY <3>1, <5>1, FlawSpares
        <5>2. CASE table[i].node = open[f]
          BY <3>1, <3>7, <5>2, Types DEF After
        <5>3. QED
          BY <5>1, <5>2
      <4>2. \A u \in Threads : job'[u] = job[u]
        BY <3>1
      <4>3. Conn(n)' /\ QueueIn(table', n) = QueueIn(table, n)
        BY <1>1, <2>1, <2>2, <3>5, <3>6, <3>7, <4>2, OtherEntry
      <4>4. QED
        BY <4>1, <4>3 DEF Kept, Whole
    <3>8. CASE table[i].node = n
      <4>1. got' = After(n, q) /\ flaws' = flaws
        BY <2>4, <3>1, <3>8
      <4>2. got'[n] = got[n] \o q
        BY <4>1, Types DEF After, Sound
      <4>3. DOMAIN table' = DOMAIN table /\ table'[i] = d /\ \A j \in DOMAIN table \ {i} : table'[j] = table[j]
        BY <2>1, <3>6, Types
      <4>4. \A j \in DOMAIN table : table[j].node = n <=> j = i
        BY <2>1, <3>8, EntryOf DEF Conn
      <4>5. \A j \in DOMAIN table' : table'[j].node = n <=> j = i
        BY <2>2, <3>5, <4>3, <4>4
      <4>6. \A j \in DOMAIN table : table'[j].fd = table[j].fd /\ (table[j].step = 2 => table'[j].step = 2)
        BY <2>2, <3>5, <4>3
      <4>7. \A j \in DOMAIN table : Leads(table, j, route[n]) => Leads(table', j, route[n])
        BY <4>3, <4>6 DEF Leads
      <4>8. EntryOk(n)'
        <5>1. Leads(table', i, route'[n])
          BY <1>1, <2>1, <4>4, <4>7 DEF Conn, EntryOk
        <5>2. table'[i].queue # NoQueue /\ table'[i].queue = <<>>
          BY <3>5, <4>3, RequestIsNone
        <5>3. QED
          BY <4>5, <5>1, <5>2 DEF EntryOk
      <4>9. Conn(n)'
        BY <1>1, <3>1, <4>6, <4>7, <4>8, ConnKept
      <4>10. QueueIn(table', n) = <<>> /\ QueueIn(table, n) = q
        BY <2>1, <2>2, <2>3, <3>5, <4>3, <4>4, <4>5, QueueIs
      <4>11. got[n] \in Seq(Items)
        BY Types
      <4>12. (got[n] \o q) \o <<>> = got[n] \o q
        BY <4>11, Behinds
      <4>13. QED
        BY <4>2, <4>9, <4>10, <4>12 DEF Kept, Whole
    <3>9. QED
      BY <3>7, <3>8
  <2>6. CASE ~granted
    <3>1. table' = [table EXCEPT ![i].queue = <<>>] /\ Flaw({open[f]}, "refused") /\ job' = job
      BY <1>2, <1>6, <2>6 DEF Activated
    <3>2. n # open[f] /\ got'[n] = got[n]
      BY <3>1, FlawSpares
    <3>3. PICK d : d = [e EXCEPT !.queue = <<>>]
      OBVIOUS
    <3>4. d.node = e.node /\ d.fd = e.fd /\ d.step = e.step
      BY <3>3 DEF Entry
    <3>5. table' = [table EXCEPT ![i] = d]
      BY <2>2, <3>1, <3>3
    <3>6. \A u \in Threads : job'[u] = job[u]
      BY <3>1
    <3>7. Conn(n)' /\ QueueIn(table', n) = QueueIn(table, n)
      BY <1>1, <2>1, <2>2, <2>4, <3>2, <3>4, <3>5, <3>6, OtherEntry
    <3>8. QED
      BY <3>2, <3>7 DEF Kept, Whole
  <2>7. QED
    BY <2>5, <2>6
<1>7. QED
  BY <1>4, <1>5, <1>6

\* A connection is opened: socket and connect, and the client is listed.
LEMMA OpenedKeeps ==
  ASSUME TypesInv, NEW n \in Nodes, Conn(n), NEW t \in Threads, Cache(t) \/ List(t)
  PROVE  Kept(n)
<1>1. UNCHANGED <<route, table, got>>
  BY CacheIs, ListIs
<1>2. CASE Cache(t)
  <2>1. t \in Openers /\ listed' = listed
    BY <1>2, CacheIs
  <2>2. PICK f \in Fds : open[f] = None /\ open' = [open EXCEPT ![f] = Node(t)] /\ Moves(t, "list", f)
    BY <1>2, CacheIs
  <2>3. job'[t].pc = "list" /\ job'[t].f = f /\ Head(job'[t].todo) = Node(t)
    BY <2>1, <2>2, MovedIs
  <2>4. open'[f] = Node(t) /\ \A g \in Fds : open[g] = n => open'[g] = n
    BY <2>2, Types, Constants
  <2>5. Node(t) = n => SetUpOk(t, n)' /\ ReadyOk(t, n)'
    BY <2>3, <2>4 DEF SetUpOk, ReadyOk
  <2>6. \A u \in Threads : job'[u] = job[u] \/ (SetUpOk(u, n)' /\ ReadyOk(u, n)')
    BY <2>2, <2>5, OneMoves
  <2>7. Conn(n)' /\ QueueIn(table', n) = QueueIn(table, n)
    BY <1>1, <2>1, <2>4, <2>6, ConnStill
  <2>8. QED
    BY <1>1, <2>7 DEF Kept, Whole
<1>3. CASE List(t)
  <2>1. t \in Openers /\ job[t].pc = "list" /\ listed' = listed \cup {job[t].f} /\ open' = open /\ Moves(t, "route", job[t].f)
    BY <1>3, ListIs
  <2>2. job'[t].pc = "route" /\ job'[t].f = job[t].f /\ Head(job'[t].todo) = Node(t)
    BY <2>1, MovedIs
  <2>3. Node(t) = n => open[job[t].f] = n
    BY <2>1 DEF Conn, SetUpOk, SetUpPcs
  <2>4. Node(t) = n => SetUpOk(t, n)' /\ ReadyOk(t, n)'
    BY <2>1, <2>2, <2>3 DEF SetUpOk, ReadyOk
  <2>5. \A u \in Threads : job'[u] = job[u] \/ (SetUpOk(u, n)' /\ ReadyOk(u, n)')
    BY <2>1, <2>4, OneMoves
  <2>6. Conn(n)' /\ QueueIn(table', n) = QueueIn(table, n)
    BY <1>1, <2>1, <2>5, ConnStill
  <2>7. QED
    BY <1>1, <2>6 DEF Kept, Whole
<1>4. QED
  BY <1>2, <1>3

\* The route is set: it was not, and nobody else opens a connection to the node.
LEMMA RoutedKeeps ==
  ASSUME TypesInv, RouteInv, NEW n \in Nodes, Conn(n), Sound(n)', NEW t \in Threads, SetRoute(t)
  PROVE  Kept(n)
<1>1. /\ t \in Openers /\ job[t].pc = "route" /\ job[t].f \in Fds /\ Node(t) \in Nodes
      /\ route' = [route EXCEPT ![Node(t)] = job[t].f] /\ Moves(t, "add", job[t].f)
      /\ UNCHANGED <<open, listed, table, got, flaws>>
  BY SetRouteIs
<1>2. /\ job'[t].pc = "add" /\ job'[t].f = job[t].f /\ Head(job'[t].todo) = Node(t)
      /\ \A u \in Threads \ {t} : job'[u] = job[u]
  BY <1>1, MovedIs
<1>3. CASE Node(t) # n
  <2>1. route'[n] = route[n]
    BY <1>1, <1>3, Types
  <2>2. \A u \in Threads : job'[u] = job[u] \/ (SetUpOk(u, n)' /\ ReadyOk(u, n)')
    BY <1>1, <1>3, OneMoves
  <2>3. Conn(n)' /\ QueueIn(table', n) = QueueIn(table, n)
    BY <1>1, <2>1, <2>2, ConnStill
  <2>4. QED
    BY <1>1, <2>3 DEF Kept, Whole
<1>4. CASE Node(t) = n
  <2>1. route'[n] = job[t].f
    BY <1>1, <1>4, Types
  <2>2. open[job[t].f] = n /\ job[t].f \in listed
    BY <1>1, <1>4 DEF Conn, SetUpOk, SetUpPcs
  <2>3. route[n] = 0 /\ \A u \in Openers : job[u].pc \in OpenPcs /\ Node(u) = n => u = t
    <3>1. ~Wrong(n)
      BY <1>1 DEF Sound, Wrong
    <3>2. QED
      BY <1>1, <1>4, <3>1, RouteIs DEF OpenPcs
  <2>4. \A i \in DOMAIN table : table[i].node # n
    BY <2>3, EntryOf DEF Conn
  <2>5. ASSUME NEW u \in Threads \ {t} PROVE SetUpOk(u, n)' /\ ReadyOk(u, n)'
    <3>1. job'[u] = job[u]
      BY <1>2, <2>5
    <3>2. ~(job[u].pc \in SetUpPcs /\ Node(u) = n)
      <4>1. SUFFICES ASSUME job[u].pc \in SetUpPcs, Node(u) = n PROVE FALSE
        OBVIOUS
      <4>2. u \in Openers /\ job[u].f \in Fds
        BY <4>1, JobOf, Constants DEF SetUpPcs
      <4>3. job[u].pc \notin {"list", "route"}
        BY <2>3, <2>5, <4>1, <4>2 DEF OpenPcs
      <4>4. route[n] = job[u].f
        BY <4>1, <4>3 DEF Conn, SetUpOk, SetUpPcs
      <4>5. QED
        BY <2>3, <4>2, <4>4, Constants
    <3>3. ~(job[u].pc \in {"send", "direct"} /\ Node(u) = n)
      <4>1. SUFFICES ASSUME job[u].pc \in {"send", "direct"}, Node(u) = n PROVE FALSE
        OBVIOUS
      <4>2. PICK i \in DOMAIN table : Leads(table, i, route[n])
        BY <4>1 DEF Conn, ReadyOk
      <4>3. table[i].fd = 0 /\ table[i].fd \in Fds
        BY <2>3, <4>2, Types DEF Leads, Entry
      <4>4. QED
        BY <4>3, Constants
    <3>4. QED
      BY <3>1, <3>2, <3>3 DEF SetUpOk, ReadyOk, Node
  <2>6. SetUpOk(t, n)' /\ ReadyOk(t, n)'
    BY <1>1, <1>2, <2>1, <2>2 DEF SetUpOk, ReadyOk
  <2>7. Conn(n)'
    BY <1>1, <2>1, <2>2, <2>4, <2>5, <2>6 DEF Conn, RouteOk, EntryOk
  <2>8. QED
    BY <1>1, <2>7 DEF Kept, Whole
<1>5. QED
  BY <1>3, <1>4

\* An entry is made, behind all the others.
LEMMA AddKeeps ==
  ASSUME TypesInv, NEW n \in Nodes, Conn(n), NEW t \in Threads, AddEntry(t)
  PROVE  Kept(n)
<1>1. /\ t \in Openers /\ job[t].pc = "add" /\ job[t].f \in Fds /\ Moves(t, "fill", job[t].f)
      /\ UNCHANGED <<open, listed, route, got>>
  BY AddIs
<1>2. PICK b \in Nat \ {0} : b = Behind /\ \A j \in DOMAIN table : j < b
  BY BehindIs
<1>3. PICK e : e = NewEntry(job[t].f)
  OBVIOUS
<1>4. e.node = None /\ None # n
  BY <1>3, Constants DEF NewEntry
<1>5. table' = [i \in DOMAIN table \cup {b} |-> IF i = b THEN e ELSE table[i]]
  BY <1>2, <1>3 DEF AddEntry
<1>6. /\ DOMAIN table' = DOMAIN table \cup {b} /\ table'[b] = e /\ b \notin DOMAIN table
      /\ \A i \in DOMAIN table : table'[i] = table[i]
  BY <1>2, <1>5, Types
<1>7. ASSUME NEW i \in DOMAIN table, Leads(table, i, route[n]) PROVE Leads(table', i, route[n])
  <2>1. \A j \in DOMAIN table' : (j \in DOMAIN table /\ table'[j].fd = table[j].fd) \/ i <= j
    BY <1>2, <1>6, Types
  <2>2. i \in DOMAIN table' /\ table'[i].fd = route[n]
    BY <1>6, <1>7 DEF Leads
  <2>3. QED
    BY <1>7, <2>1, <2>2, LeadsKept
<1>8. EntryOk(n)' /\ QueueIn(table', n) = QueueIn(table, n)
  BY <1>1, <1>4, <1>6, <1>7, EntryKept DEF Conn
<1>9. Node(t) = n => SetUpOk(t, n)' /\ ReadyOk(t, n)'
  <2>1. job'[t].pc = "fill" /\ job'[t].f = job[t].f /\ Head(job'[t].todo) = Node(t)
    BY <1>1, MovedIs
  <2>2. Node(t) = n => open[job[t].f] = n /\ job[t].f \in listed /\ route[n] = job[t].f
    BY <1>1 DEF Conn, SetUpOk, SetUpPcs
  <2>3. QED
    BY <1>1, <2>1, <2>2 DEF SetUpOk, ReadyOk
<1>10. \A u \in Threads : job'[u] = job[u] \/ (SetUpOk(u, n)' /\ ReadyOk(u, n)')
  BY <1>1, <1>9, OneMoves
<1>11. Conn(n)'
  BY <1>1, <1>6, <1>7, <1>8, <1>10, ConnKept
<1>12. QED
  BY <1>1, <1>8, <1>11 DEF Kept, Whole

\* The entry is filled, and the first chunk queued; or it is missing.
LEMMA FillAdds ==
  ASSUME TypesInv, ClientsInv, NEW n \in Nodes, Conn(n), Sound(n)', NEW t \in Threads, Fill(t)
  PROVE  \/ Kept(n) /\ Moves(t, "crashed", job[t].f)
         \/ /\ Moves(t, "activate", job[t].f)
            /\ Node(t) = n => Added(n, t)
            /\ Node(t) # n => Kept(n)
<1>1. /\ job[t].pc = "fill" /\ job[t].f \in Fds /\ job[t].a \in Askers /\ job[t].pc \in ChunkPcs /\ t \in Openers
      /\ UNCHANGED <<open, listed, route>>
  BY FillIs DEF ChunkPcs, SetUpPcs
<1>2. PICK i : i = ByFd(job[t].f)
  OBVIOUS
<1>3. CASE i = 0
  <2>1. Goto(t, "crashed") /\ table' = table /\ got' = got
    BY <1>2, <1>3 DEF Fill, account
  <2>2. Moves(t, "crashed", job[t].f) /\ "crashed" \notin SetUpPcs \cup {"send", "direct"}
    BY <2>1, MovesIs DEF SetUpPcs
  <2>3. \A u \in Threads : job'[u] = job[u] \/ (SetUpOk(u, n)' /\ ReadyOk(u, n)')
    BY <2>2, OneMoves
  <2>4. Conn(n)' /\ QueueIn(table', n) = QueueIn(table, n)
    BY <1>1, <2>1, <2>3, ConnStill
  <2>5. QED
    BY <2>1, <2>2, <2>4 DEF Kept, Whole
<1>4. CASE i # 0
  <2>1. i \in DOMAIN table /\ table[i].fd = job[t].f /\ Leads(table, i, job[t].f)
    BY <1>2, <1>4, ByFdIs, LeadsIs, Types
  <2>2. PICK a \in Askers : a = job[t].a
    BY <1>1
  <2>3. PICK e \in Entry : e = table[i]
    BY <2>1, Types
  <2>4. PICK k \in Nodes : k = Node(t)
    BY <1>1, JobOf
  <2>5. PICK x \in Items : x = Item(a)
    <3>1. HasChunk(a)
      BY <1>1, <2>2 DEF ClientsInv
    <3>2. QED
      BY <3>1, ItemIs
  <2>6. PICK q \in Seq(Items) : q = <<x>>
    <3>1. <<x>> \in Seq(Items)
      OBVIOUS
    <3>2. QED
      BY <3>1
  <2>7. /\ table' = [table EXCEPT ![i] = [e EXCEPT !.source = fd[a], !.opener = a, !.node = k, !.queue = q]]
        /\ IF table[i] # NewEntry(job[t].f) THEN Flaw({k, table[i].node}, "misled") ELSE UNCHANGED account
        /\ Goto(t, "activate")
    BY <1>2, <1>4, <2>2, <2>3, <2>4, <2>5, <2>6 DEF Fill, FirstQueued
  <2>8. PICK d : d = [e EXCEPT !.source = fd[a], !.opener = a, !.node = k, !.queue = q]
    OBVIOUS
  <2>9. d.fd = e.fd /\ d.node = k /\ d.queue = q /\ d.step = e.step
    BY <2>8 DEF Entry
  <2>10. /\ DOMAIN table' = DOMAIN table /\ table'[i] = d /\ \A j \in DOMAIN table \ {i} : table'[j] = table[j]
         /\ table' = [table EXCEPT ![i] = d]
    BY <2>1, <2>7, <2>8, Types
  <2>11. Moves(t, "activate", job[t].f)
    BY <2>7, MovesIs
  <2>12. /\ got'[n] = got[n]
         /\ table[i] # NewEntry(job[t].f) => n # k /\ n # table[i].node
    <3>1. CASE table[i] # NewEntry(job[t].f)
      BY <2>7, <3>1, FlawSpares
    <3>2. CASE table[i] = NewEntry(job[t].f)
      BY <2>7, <3>2 DEF account
    <3>3. QED
      BY <3>1, <3>2
  <2>13. table[i] = NewEntry(job[t].f) => table[i].node = None /\ table[i].step = 1
    BY DEF NewEntry
  <2>14. table[i].node # n
    BY <2>12, <2>13, Constants
  <2>15. ASSUME k # n PROVE Kept(n)
    <3>1. \A u \in Threads : job'[u] = job[u] \/ (SetUpOk(u, n)' /\ ReadyOk(u, n)')
      BY <2>4, <2>11, <2>15, OneMoves
    <3>2. d.node # n /\ d.fd = table[i].fd /\ (table[i].step = 2 => d.step = 2) /\ table' = [table EXCEPT ![i] = d]
      BY <2>3, <2>9, <2>10, <2>15
    <3>3. UNCHANGED <<open, listed>> /\ route'[n] = route[n]
      BY <1>1
    <3>4. Conn(n)' /\ QueueIn(table', n) = QueueIn(table, n)
      BY <2>1, <2>14, <3>1, <3>2, <3>3, OtherEntry
    <3>5. QED
      BY <2>12, <3>4 DEF Kept, Whole
  <2>16. ASSUME k = n PROVE Added(n, t)
    <3>1. table[i].step = 1
      BY <2>12, <2>13, <2>16
    <3>2. open[job[t].f] = n /\ job[t].f \in listed /\ route[n] = job[t].f
      BY <1>1, <2>4, <2>16 DEF Conn, SetUpOk, SetUpPcs
    <3>3. \A j \in DOMAIN table : Leads(table, j, route[n]) => j = i
      BY <1>2, <3>2, LeadsIs
    <3>4. \A j \in DOMAIN table : table[j].node # n
      BY <2>14, <3>3 DEF Conn, EntryOk
    <3>5. \A j \in DOMAIN table' : table'[j].node = n <=> j = i
      BY <2>1, <2>9, <2>10, <2>16, <3>4
    <3>6. Leads(table', i, route[n])
      BY <2>1, <2>3, <2>9, <2>10, <3>2 DEF Leads
    <3>7. q # NoQueue
      BY RequestIsNone
    <3>8. EntryOk(n)'
      <4>1. Leads(table', i, route'[n]) /\ table'[i].queue # NoQueue /\ table'[i].step # 2
        BY <1>1, <2>3, <2>9, <2>10, <3>1, <3>6, <3>7
      <4>2. QED
        BY <3>5, <4>1 DEF EntryOk
    <3>9. SetUpOk(t, n)' /\ ReadyOk(t, n)'
      <4>1. job'[t].pc = "activate" /\ job'[t].f = job[t].f /\ Head(job'[t].todo) = Node(t)
        BY <1>1, <2>11, MovedIs
      <4>2. QED
        BY <1>1, <3>2, <4>1 DEF SetUpOk, ReadyOk
    <3>10. \A u \in Threads : job'[u] = job[u] \/ (SetUpOk(u, n)' /\ ReadyOk(u, n)')
      BY <2>11, <3>9, OneMoves
    <3>11. \A j \in DOMAIN table : ~(Leads(table, j, route[n]) /\ table[j].step = 2)
      BY <3>1, <3>3
    <3>12. Conn(n)'
      BY <1>1, <3>8, <3>10, <3>11, ConnKept
    <3>13. QueueIn(table, n) = <<>>
      BY <3>4, QueueIs
    <3>14. QueueIn(table', n) = q
      <4>1. i \in DOMAIN table' /\ table'[i].node = n /\ \A j \in DOMAIN table' : table'[j].node = n => j = i
        BY <2>1, <2>10, <3>5
      <4>2. table'[i].queue = q
        BY <2>9, <2>10
      <4>3. QED
        BY <4>1, <4>2, QueueIs
    <3>15. PICK s \in Seq(Items) : s = got[n]
      BY Types
    <3>16. Whole(n) = s /\ Whole(n)' = Append(s, x)
      BY <2>6, <2>12, <3>13, <3>14, <3>15, Behinds DEF Whole
    <3>17. QED
      BY <2>2, <2>5, <3>12, <3>16 DEF Added
  <2>17. QED
    BY <2>4, <2>11, <2>15, <2>16
<1>5. QED
  BY <1>3, <1>4

\* An entry is taken out of the table. It is not the node's: what is closed is not listed any more,
\* unless the number is in use for a node that is cut off.
LEMMA RemovedKeeps ==
  ASSUME TypesInv, SocketsInv, NEW n \in Nodes, Conn(n), Sound(n)', NEW t \in Threads, RemoveEntry(t)
  PROVE  Kept(n)
<1>1. PICK f : f = job[t].f
  OBVIOUS
<1>2. /\ t \in Openers /\ job[t].pc = "remove" /\ f \in Fds
      /\ table' = [i \in {j \in DOMAIN table : table[j].fd # f} |-> table[i]]
      /\ route' = [m \in Nodes |-> IF route[m] = f /\ ByFd(f) # 0 THEN 0 ELSE route[m]]
      /\ t = "ipc" => Moves(t, "drop", f)
      /\ t = "net" => Becomes(t, Idle)
      /\ UNCHANGED <<open, listed>>
  BY <1>1, RemoveIs
<1>3. PICK N : N = {Node(u) : u \in SettingUp(f)}
  OBVIOUS
<1>4. Flaw(N, "cut")
  BY <1>1, <1>3 DEF RemoveEntry
<1>5. n \notin N /\ got'[n] = got[n]
  BY <1>4, FlawSpares
<1>6. route[n] # f
  <2>1. SUFFICES ASSUME route[n] = f PROVE FALSE
    OBVIOUS
  <2>2. f \in listed /\ open[f] = n
    BY <1>2, <2>1, Constants DEF Conn, RouteOk
  <2>3. job["net"].f = f /\ job["net"].pc \in {"route", "add"} /\ Node("net") = n
    BY <1>1, <1>2, <2>2 DEF SocketsInv
  <2>4. "net" \in SettingUp(f)
    BY <2>3, Constants DEF SettingUp, Openers
  <2>5. QED
    BY <1>3, <1>5, <2>3, <2>4
<1>7. route'[n] = route[n]
  BY <1>2, <1>6
<1>8. /\ DOMAIN table' \subseteq DOMAIN table /\ \A i \in DOMAIN table' : table'[i] = table[i]
      /\ \A i \in DOMAIN table : table[i].fd # f => i \in DOMAIN table' /\ table'[i] = table[i]
  BY <1>2
<1>9. \A i \in DOMAIN table : Leads(table, i, route[n]) => Leads(table', i, route[n]) /\ table'[i] = table[i]
  BY <1>6, <1>8 DEF Leads
<1>10. \A i \in DOMAIN table : table[i].node = n => i \in DOMAIN table' /\ table'[i] = table[i]
  BY <1>6, <1>8, EntryOf DEF Conn
<1>11. EntryOk(n)' /\ QueueIn(table', n) = QueueIn(table, n)
  BY <1>7, <1>8, <1>9, <1>10, EntryKept DEF Conn
<1>12. \A u \in Threads : job'[u] = job[u] \/ (SetUpOk(u, n)' /\ ReadyOk(u, n)')
  <2>1. CASE t = "ipc"
    <3>1. "drop" \notin SetUpPcs \cup {"send", "direct"}
      BY DEF SetUpPcs
    <3>2. QED
      BY <1>2, <2>1, <3>1, OneMoves
  <2>2. CASE t = "net"
    <3>1. Idle.pc \notin SetUpPcs \cup {"send", "direct"}
      BY DEF Idle, SetUpPcs
    <3>2. QED
      BY <1>2, <2>2, <3>1, OneChanges
  <2>3. QED
    BY <1>2, <2>1, <2>2 DEF Openers
<1>13. Conn(n)'
  BY <1>2, <1>7, <1>9, <1>11, <1>12, ConnKept
<1>14. QED
  BY <1>5, <1>11, <1>13 DEF Kept, Whole

\* A number that was hung stays so, or is closed.
LEMMA HungKept ==
  ASSUME TypesInv, SocketsInv, HungInv, Worse, hung' \subseteq hung, \A f \in hung' : open'[f] = open[f]
  PROVE  HungInv'
<1>1. ASSUME NEW f \in hung' PROVE flaws'[open'[f]] # {}
  <2>1. f \in hung /\ open[f] \in Nodes /\ open'[f] = open[f]
    BY <1>1 DEF SocketsInv
  <2>2. ~Sound(open[f])
    BY <2>1 DEF HungInv
  <2>3. flaws[open[f]] # {} /\ flaws[open[f]] \subseteq flaws'[open[f]]
    BY <2>1, <2>2 DEF Sound, Worse
  <2>4. QED
    BY <2>1, <2>3 DEF Sound
<1>2. QED
  BY <1>1 DEF HungInv, Sound

\* Every step keeps the account of the connections that the nodes have closed.
LEMMA HungStep ==
  ASSUME TypesInv, ClientsInv, SocketsInv, HungInv, Next
  PROVE  HungInv'
<1>1. Worse
  BY TypesStep
<1>2. hung \subseteq Fds /\ listed \subseteq Fds /\ open \in [Fds -> Askers \cup Nodes \cup {None}] /\ None \notin Nodes
  BY Types, Constants
<1>3. ASSUME Rests, hung' = hung PROVE HungInv'
  <2>1. \A f \in hung' : open'[f] = open[f]
    BY <1>2, <1>3 DEF Rests, SocketsInv
  <2>2. QED
    BY <1>1, <1>3, <2>1, HungKept
<1>4. ASSUME hung' = hung, open' = open PROVE HungInv'
  BY <1>1, <1>4, HungKept
<1>5. ASSUME NEW f \in Fds, open' = [open EXCEPT ![f] = None], hung' = hung \ {f} PROVE HungInv'
  <2>1. \A g \in hung' : open'[g] = open[g]
    BY <1>2, <1>5
  <2>2. QED
    BY <1>1, <1>5, <2>1, HungKept
<1>6. ASSUME NEW a \in Askers,
             Connect(a) \/ TesterLeaves(a) \/ EquipLeaves(a) \/ \E to \in Targets, len \in Lengths : Ask(a, to, len)
      PROVE  HungInv'
  <2>1. Rests
    BY <1>6, ClientRests
  <2>2. hung' = hung
    BY <1>6 DEF Connect, TesterLeaves, EquipLeaves, Ask, sockets
  <2>3. QED
    BY <1>3, <2>1, <2>2
<1>7. ASSUME NEW a \in Askers, NEW t \in Threads, (First(a) /\ t = Reader(a)) \/ (t \in Workers /\ Later(t, a))
      PROVE  HungInv'
  BY <1>4, <1>7 DEF First, Later, sockets
<1>8. ASSUME NEW t \in Threads, Decides(t) \/ Finishes(t) \/ Writes(t) PROVE HungInv'
  BY <1>4, <1>8 DEF Decides, Finishes, Writes
<1>9. ASSUME NEW t \in Threads, List(t) \/ SetRoute(t) \/ AddEntry(t) \/ Fill(t) \/ RemoveEntry(t) PROVE HungInv'
  BY <1>4, <1>9, ListIs, SetRouteIs, AddIs, FillIs, RemoveIs
<1>10. ASSUME NEW t \in Threads, Cache(t) PROVE HungInv'
  <2>1. PICK f \in Fds : open[f] = None /\ open' = [open EXCEPT ![f] = Node(t)]
    BY <1>10, CacheIs
  <2>2. hung' = hung
    BY <1>10, CacheIs
  <2>3. \A g \in hung : g # f
    BY <1>2, <2>1 DEF SocketsInv
  <2>4. \A g \in hung' : open'[g] = open[g]
    BY <1>2, <2>1, <2>2, <2>3
  <2>5. QED
    BY <1>1, <2>2, <2>4, HungKept
<1>11. CASE Leave
  BY <1>4, <1>11 DEF Leave, sockets
<1>12. CASE Drop
  <2>1. DropEnds \/ \E p \in DOMAIN job["ipc"].todo : DropSkips(p) \/ DropCloses(p)
    BY <1>12, DropIs
  <2>2. ASSUME NEW p \in DOMAIN job["ipc"].todo, DropCloses(p) PROVE HungInv'
    <3>1. PICK f : f = job["ipc"].todo[p]
      OBVIOUS
    <3>2. f \in listed /\ open' = [open EXCEPT ![f] = None] /\ hung' = hung \ {f}
      BY <2>2, <3>1 DEF DropCloses
    <3>3. QED
      BY <1>2, <1>5, <3>2
  <2>3. QED
    BY <1>4, <2>1, <2>2 DEF DropEnds, DropSkips
<1>13. ASSUME NEW f \in Fds, Reads(f) \/ NullQueue(f) PROVE HungInv'
  BY <1>4, <1>13 DEF Reads, NullQueue
<1>14. ASSUME NEW f \in Fds, CloseTest(f) PROVE HungInv'
  BY <1>5, <1>14 DEF CloseTest
<1>15. ASSUME NEW f \in Fds, Hang(f) PROVE HungInv'
  <2>1. open[f] \in Nodes /\ hung' = hung \cup {f} /\ open' = open /\ Flaw({open[f]}, "broken")
    BY <1>15 DEF Hang
  <2>2. "broken" \in flaws'[open[f]]
    BY <2>1, FlawIs DEF Flaws
  <2>3. ASSUME NEW g \in hung' PROVE flaws'[open'[g]] # {}
    <3>1. CASE g = f
      BY <2>1, <2>2, <3>1 DEF Sound
    <3>2. CASE g # f
      <4>1. g \in hung /\ open[g] \in Nodes
        BY <2>1, <2>3, <3>2 DEF SocketsInv
      <4>2. flaws[open[g]] # {} /\ flaws[open[g]] \subseteq flaws'[open[g]]
        BY <1>1, <4>1 DEF HungInv, Sound, Worse
      <4>3. QED
        BY <2>1, <4>2 DEF Sound
    <3>3. QED
      BY <3>1, <3>2
  <2>4. QED
    BY <2>3 DEF HungInv, Sound
<1>16. QED
  BY Kinds, <1>6, <1>7, <1>8, <1>9, <1>10, <1>11, <1>12, <1>13, <1>14, <1>15

-----------------------------------------------------------------------------
\* Whose turn it is. What a sequence has, and that it has nothing twice.
Has(s) == {s[i] : i \in DOMAIN s}
Distinct(s) == \A i, j \in DOMAIN s : s[i] = s[j] => i = j

\* The first of a sequence, and the others.
LEMMA TailIs ==
  ASSUME NEW s \in Seq(Nodes), s # <<>>
  PROVE  /\ Head(s) \in Has(s) /\ Has(s) \subseteq Nodes /\ Tail(s) \in Seq(Nodes) /\ Has(Tail(s)) \subseteq Has(s)
         /\ Distinct(s) => Distinct(Tail(s)) /\ Has(Tail(s)) = Has(s) \ {Head(s)}
         /\ ~(Len(s) > 1) => Has(s) = {Head(s)} /\ Has(Tail(s)) = {}
<1>1. PICK k \in Nat : k = Len(s)
  OBVIOUS
<1>2. DOMAIN s = 1 .. k /\ k > 0 /\ Head(s) = s[1]
  BY <1>1
<1>3. PICK r \in Seq(Nodes) : r = Tail(s)
  <2>1. Tail(s) \in Seq(Nodes)
    BY <1>1, <1>2
  <2>2. QED
    BY <2>1
<1>4. DOMAIN r = 1 .. k - 1 /\ \A i \in 1 .. k - 1 : r[i] = s[i + 1]
  BY <1>1, <1>2, <1>3
<1>5. Head(s) \in Has(s) /\ Has(s) \subseteq Nodes
  BY <1>2 DEF Has
<1>6. \A i \in 2 .. k : i - 1 \in 1 .. k - 1 /\ r[i - 1] = s[i]
  BY <1>4
<1>7. \A i \in 1 .. k - 1 : i + 1 \in 2 .. k /\ i + 1 # 1
  OBVIOUS
<1>8. Has(r) = {s[i] : i \in 2 .. k}
  <2>1. Has(r) = {r[i] : i \in 1 .. k - 1}
    BY <1>4 DEF Has
  <2>2. {r[i] : i \in 1 .. k - 1} \subseteq {s[i] : i \in 2 .. k}
    BY <1>4, <1>7
  <2>3. {s[i] : i \in 2 .. k} \subseteq {r[i] : i \in 1 .. k - 1}
    BY <1>6
  <2>4. QED
    BY <2>1, <2>2, <2>3
<1>9. Has(s) = {s[1]} \cup {s[i] : i \in 2 .. k}
  <2>1. 1 .. k = {1} \cup 2 .. k
    BY <1>2
  <2>2. QED
    BY <1>2, <2>1 DEF Has
<1>10. ASSUME Distinct(s) PROVE Distinct(r) /\ Has(r) = Has(s) \ {s[1]}
  <2>1. \A i \in 2 .. k : s[i] # s[1]
    <3>1. \A i \in 2 .. k : i \in DOMAIN s /\ i # 1 /\ 1 \in DOMAIN s
      BY <1>2
    <3>2. QED
      BY <1>10, <3>1 DEF Distinct
  <2>2. ASSUME NEW i \in 1 .. k - 1, NEW j \in 1 .. k - 1, r[i] = r[j] PROVE i = j
    <3>1. s[i + 1] = s[j + 1] /\ i + 1 \in DOMAIN s /\ j + 1 \in DOMAIN s
      BY <1>2, <1>4, <2>2
    <3>2. i + 1 = j + 1
      BY <1>10, <3>1 DEF Distinct
    <3>3. QED
      BY <3>2
  <2>3. QED
    BY <1>4, <1>8, <1>9, <2>1, <2>2 DEF Distinct
<1>11. ASSUME ~(k > 1) PROVE Has(s) = {s[1]} /\ Has(r) = {}
  <2>1. 2 .. k = {}
    BY <1>11
  <2>2. QED
    BY <1>8, <1>9, <2>1
<1>12. QED
  BY <1>1, <1>2, <1>3, <1>5, <1>8, <1>9, <1>10, <1>11

\* The nodes that the chunk of a client is for, and those that have not got it from a thread with
\* something at hand.
Members(a) == Has(ToList(ask[a].to))
LeftOf(j) == Has(IF j.pc = "activate" THEN Tail(j.todo) ELSE j.todo)

\* A group has no node twice.
OncePerGroup == Distinct(Group)

\* A message has its number for itself.
NumbersInv ==
    /\ \A a \in Askers : ask[a].msg <= asked
    /\ \A a, b \in Askers : ask[a].msg = ask[b].msg /\ ask[a].msg # 0 => a = b

\* Who has something of a client at hand handles a chunk, closes the connections of equipment that
\* has left, or was stopped by a null pointer with the first chunk.
HandsInv ==
    \A t \in Threads : job[t].a # None =>
        \/ job[t].pc \in ChunkPcs
        \/ t = "ipc" /\ job[t].pc \in {"leave", "drop", "remove"}
        \/ job[t].pc = "crashed" /\ t = Reader(job[t].a) /\ ask[job[t].a].at = "first"

\* A chunk is still for some of its nodes, each once.
TodoInv ==
    \A t \in Threads : job[t].pc \in ChunkPcs => Has(job[t].todo) \subseteq Members(job[t].a) /\ Distinct(job[t].todo)

\* What a node gets is in order, and nothing of a message that there has not been yet.
OrderInv ==
    \A n \in Nodes : Sound(n) => InOrder(Whole(n)) /\ \A m \in asked + 1 .. MaxAsked : Count(Whole(n), m) = 0

\* A node gets as many chunks of the message that a client is at as have been handled: those before
\* the next one,
Waiting(a) == ask[a].at \in {"first", "rest"} /\ \A t \in Threads : job[t].a # a
WaitingInv ==
    \A a \in Askers : Waiting(a) =>
        \A n \in Members(a) : Sound(n) => Count(Whole(n), ask[a].msg) = ask[a].next - 1

\* and that one too, unless the thread that has it is still to give it to the node.
AtWorkInv ==
    \A t \in Threads : job[t].pc \in ChunkPcs =>
        \A n \in Members(job[t].a) : Sound(n) =>
            Count(Whole(n), ask[job[t].a].msg)
              = IF n \in LeftOf(job[t]) THEN ask[job[t].a].next - 1 ELSE ask[job[t].a].next

TurnsInv == HandsInv /\ TodoInv /\ NumbersInv /\ OrderInv /\ WaitingInv /\ AtWorkInv

-----------------------------------------------------------------------------
\* A step by which nothing is added to what any node gets.
AllKept == \A n \in Nodes : Sound(n)' => Kept(n)

\* A thread is at work on its chunk: it gives it to some nodes that it was left for, and goes on
\* with the others, is done, or was stopped by a null pointer.
Works(t) ==
    /\ job[t].pc \in ChunkPcs /\ asked' = asked /\ \A u \in Threads \ {t} : job'[u] = job[u]
    /\ \E G \in SUBSET LeftOf(job[t]) :
          /\ \A n \in Nodes : Sound(n)' => IF n \in G THEN Added(n, t) ELSE Kept(n)
          /\ \/ /\ ask' = ask /\ job'[t].a = job[t].a /\ job'[t].pc \in ChunkPcs
                /\ Distinct(job'[t].todo) /\ Has(job'[t].todo) \subseteq Has(job[t].todo)
                /\ LeftOf(job'[t]) = LeftOf(job[t]) \ G
             \/ ask' = ask /\ job'[t].a = job[t].a /\ job'[t].pc = "crashed" /\ t \notin Workers
             \/ IsDone(t) /\ LeftOf(job[t]) = G

\* A thread takes the chunk of a client to handle.
Takes(t, a) ==
    /\ Becomes(t, [pc |-> IF t \in Workers THEN "look" ELSE "other", a |-> a, todo |-> ToList(ask[a].to), f |-> 0])
    /\ Waiting(a) /\ job[t].pc = "loop" /\ UNCHANGED <<ask, asked>> /\ AllKept

\* No chunk is handled, and no message sent.
Stands ==
    /\ asked' = asked /\ AllKept
    /\ \A a \in Askers :
          /\ ask'[a].to = ask[a].to /\ ask'[a].msg = ask[a].msg /\ ask'[a].next = ask[a].next
          /\ ask'[a].at # ask[a].at => ask'[a].at \in {"idle", "gone"} /\ job[Reader(a)].pc = "loop"
    /\ \A t \in Threads : job'[t] # job[t] =>
          /\ job[t].pc \notin ChunkPcs /\ job'[t].pc \notin ChunkPcs
          /\ job'[t].a # None => t = "ipc" /\ job'[t].pc \in {"leave", "drop", "remove"}
          /\ job[t].a \in {None, job'[t].a} \/ ask[job[t].a].at = "gone"

\* The next node of a chunk, or the end of it.
LEMMA NextLeft ==
  ASSUME TypesInv, NEW t \in Threads, job[t].pc \in ChunkPcs, Next1(t)
  PROVE  GoesOn(t) \/ (IsDone(t) /\ ~(Len(job[t].todo) > 1))
<1>1. CASE ~(Len(job[t].todo) > 1)
  BY <1>1 DEF Next1, IsDone, Becomes
<1>2. CASE Len(job[t].todo) > 1
  <2>1. PICK j : j = job[t]
    OBVIOUS
  <2>2. j = [pc |-> j.pc, a |-> j.a, todo |-> j.todo, f |-> j.f]
    BY <2>1, Types DEF JobIs
  <2>3. PICK p : p = IF t \in Workers THEN "look" ELSE "other"
    OBVIOUS
  <2>4. job' = [job EXCEPT ![t] = [j EXCEPT !.pc = p, !.todo = Tail(@)]]
    BY <1>2, <2>1, <2>3 DEF Next1
  <2>5. [j EXCEPT !.pc = p, !.todo = Tail(@)].pc = p
    BY <2>2
  <2>6. job'[t].pc = p /\ p # "loop"
    <3>1. PICK r : r = [j EXCEPT !.pc = p, !.todo = Tail(@)]
      OBVIOUS
    <3>2. Becomes(t, r) /\ r.pc = p
      BY <2>4, <2>5, <3>1 DEF Becomes
    <3>3. QED
      BY <2>3, <3>2, BecomesIs
  <2>7. ~IsDone(t)
    <3>1. IsDone(t) => job'[t] = Idle
      BY BecomesIs DEF IsDone
    <3>2. QED
      BY <2>6, <3>1 DEF Idle
  <2>8. QED
    BY <2>7, NextIs
<1>3. QED
  BY <1>1, <1>2

\* A thread that has given its chunk to the first of its nodes, or to none because that one has it,
\* is at work.
LEMMA NextWorks ==
  ASSUME TypesInv, TodoInv, NEW t \in Threads, job[t].pc \in ChunkPcs, Next1(t), asked' = asked,
         \A n \in Nodes : Sound(n)' => IF n = Node(t) /\ job[t].pc # "activate" THEN Added(n, t) ELSE Kept(n)
  PROVE  Works(t)
<1>1. PICK s \in Seq(Nodes) : s = job[t].todo /\ s # <<>> /\ Head(s) = Node(t)
  BY JobOf DEF Node
<1>2. PICK G : G = IF job[t].pc = "activate" THEN {} ELSE {Node(t)}
  OBVIOUS
<1>3. Distinct(s)
  BY <1>1 DEF TodoInv
<1>4. LeftOf(job[t]) \ G = Has(Tail(s)) /\ G \subseteq LeftOf(job[t])
  BY <1>1, <1>2, <1>3, TailIs DEF LeftOf
<1>5. \A n \in Nodes : Sound(n)' => IF n \in G THEN Added(n, t) ELSE Kept(n)
  BY <1>2
<1>6. \A u \in Threads \ {t} : job'[u] = job[u]
  <2>1. \E r : Becomes(t, r)
    BY NextLeft DEF GoesOn, IsDone
  <2>2. QED
    BY <2>1, BecomesIs
<1>7. CASE GoesOn(t)
  <2>1. PICK p : p = IF t \in Workers THEN "look" ELSE "other"
    OBVIOUS
  <2>2. PICK r : r = [pc |-> p, a |-> job[t].a, todo |-> Tail(s), f |-> job[t].f]
    OBVIOUS
  <2>3. Becomes(t, r) /\ ask' = ask
    BY <1>1, <1>7, <2>1, <2>2 DEF GoesOn
  <2>4. job'[t] = r
    BY <2>3, BecomesIs
  <2>5. r.pc = p /\ r.a = job[t].a /\ r.todo = Tail(s) /\ p \in {"look", "other"}
    BY <2>1, <2>2
  <2>6. LeftOf(r) = Has(Tail(s))
    BY <2>5 DEF LeftOf
  <2>7. Distinct(r.todo) /\ Has(r.todo) \subseteq Has(job[t].todo)
    BY <1>1, <1>3, <2>5, TailIs
  <2>8. r.pc \in ChunkPcs
    BY <2>5 DEF ChunkPcs
  <2>9. QED
    BY <1>4, <1>5, <1>6, <2>3, <2>4, <2>5, <2>6, <2>7, <2>8 DEF Works
<1>8. CASE IsDone(t) /\ ~(Len(job[t].todo) > 1)
  <2>1. LeftOf(job[t]) = G
    BY <1>1, <1>2, <1>8, TailIs DEF LeftOf
  <2>2. QED
    BY <1>4, <1>5, <1>6, <1>8, <2>1 DEF Works
<1>9. QED
  BY <1>7, <1>8, NextLeft

\* A thread that goes to another place with its chunk, and one that queues it as the first of a
\* connection, is at work.
LEMMA MoveWorks ==
  ASSUME TypesInv, TodoInv, NEW t \in Threads, job[t].pc \in ChunkPcs \ {"activate"}, UNCHANGED <<ask, asked>>,
         NEW pc \in ChunkPcs, NEW f, Moves(t, pc, f),
         \A n \in Nodes : Sound(n)' => IF n = Node(t) /\ pc = "activate" THEN Added(n, t) ELSE Kept(n)
  PROVE  Works(t)
<1>1. PICK s \in Seq(Nodes) : s = job[t].todo /\ s # <<>> /\ Head(s) = Node(t)
  BY JobOf DEF Node
<1>2. PICK G : G = IF pc = "activate" THEN {Node(t)} ELSE {}
  OBVIOUS
<1>3. Distinct(s)
  BY <1>1 DEF TodoInv
<1>4. PICK r : r = [pc |-> pc, a |-> job[t].a, todo |-> s, f |-> f]
  OBVIOUS
<1>5. r.pc = pc /\ r.a = job[t].a /\ r.todo = s
  BY <1>4
<1>6. Becomes(t, r)
  BY <1>1, <1>4 DEF Moves
<1>7. job'[t] = r /\ \A u \in Threads \ {t} : job'[u] = job[u]
  BY <1>6, BecomesIs
<1>8. LeftOf(r) = LeftOf(job[t]) \ G /\ G \subseteq LeftOf(job[t])
  <2>1. LeftOf(job[t]) = Has(s) /\ LeftOf(r) = Has(IF pc = "activate" THEN Tail(s) ELSE s)
    BY <1>1, <1>5 DEF LeftOf
  <2>2. QED
    BY <1>1, <1>2, <1>3, <2>1, TailIs
<1>9. \A n \in Nodes : Sound(n)' => IF n \in G THEN Added(n, t) ELSE Kept(n)
  BY <1>2
<1>10. QED
  BY <1>1, <1>3, <1>5, <1>7, <1>8, <1>9 DEF Works

\* So is one that finds no entry to fill.
LEMMA CrashWorks ==
  ASSUME TypesInv, NEW t \in Openers, job[t].pc = "fill", UNCHANGED <<ask, asked>>, NEW f, Moves(t, "crashed", f),
         AllKept
  PROVE  Works(t)
<1>1. job'[t].pc = "crashed" /\ job'[t].a = job[t].a /\ \A u \in Threads \ {t} : job'[u] = job[u]
  BY MovedIs
<1>2. {} \in SUBSET LeftOf(job[t]) /\ \A n \in Nodes : Sound(n)' => IF n \in {} THEN Added(n, t) ELSE Kept(n)
  BY DEF AllKept
<1>3. t \notin Workers /\ job[t].pc \in ChunkPcs
  BY Constants DEF Openers, ChunkPcs, SetUpPcs
<1>4. QED
  BY <1>1, <1>2, <1>3 DEF Works

\* Nobody else has something of a client whose chunk is taken.
LEMMA TakesIs ==
  ASSUME TypesInv, ClientsInv, HandsInv, AllKept, NEW a \in Askers, NEW t \in Threads,
         (First(a) /\ t = Reader(a)) \/ (t \in Workers /\ Later(t, a))
  PROVE  Takes(t, a)
<1>1. /\ job[t].pc = "loop" /\ ask[a].at = (IF t \in Workers THEN "rest" ELSE "first")
      /\ t \in Workers => \A v \in Workers : job[v].a # a
      /\ UNCHANGED <<ask, asked>>
  BY StartsIs
<1>2. t \in Workers \/ t = Reader(a)
  OBVIOUS
<1>3. Reader(a) \notin Workers
  BY Constants DEF Reader, Openers
<1>4. Becomes(t, [pc |-> IF t \in Workers THEN "look" ELSE "other", a |-> a, todo |-> ToList(ask[a].to), f |-> 0])
  <2>1. CASE First(a) /\ t = Reader(a)
    BY <1>3, <2>1 DEF First, Becomes
  <2>2. CASE t \in Workers /\ Later(t, a)
    BY <2>2 DEF Later, Becomes
  <2>3. QED
    BY <2>1, <2>2
<1>5. ASSUME NEW u \in Threads, job[u].a = a PROVE FALSE
  <2>1. a # None
    BY Constants
  <2>2. CASE job[u].pc \in ChunkPcs
    <3>1. ask[a].at \in (IF u \in Workers THEN {"rest", "gone"} ELSE {"first"}) /\ (u \notin Workers => u = Reader(a))
      BY <1>5, <2>2 DEF ClientsInv
    <3>2. QED
      BY <1>1, <1>2, <1>3, <1>5, <2>2, <3>1 DEF ChunkPcs, SetUpPcs
  <2>3. CASE u = "ipc" /\ job[u].pc \in {"leave", "drop", "remove"}
    BY <1>1, <1>5, <2>3 DEF ClientsInv
  <2>4. CASE job[u].pc = "crashed" /\ u = Reader(job[u].a) /\ ask[job[u].a].at = "first"
    BY <1>1, <1>2, <1>5, <2>4
  <2>5. QED
    BY <1>5, <2>1, <2>2, <2>3, <2>4 DEF HandsInv
<1>6. Waiting(a)
  BY <1>1, <1>5 DEF Waiting
<1>7. QED
  BY <1>1, <1>4, <1>6 DEF Takes

\* A thread gets something else to do that is no chunk, and the clients are left alone.
LEMMA OneStands ==
  ASSUME TypesInv, UNCHANGED <<ask, asked>>, AllKept, NEW t \in Threads, NEW r, Becomes(t, r),
         job[t].pc \notin ChunkPcs, r.pc \notin ChunkPcs,
         r.a # None => t = "ipc" /\ r.pc \in {"leave", "drop", "remove"},
         job[t].a \in {None, r.a} \/ ask[job[t].a].at = "gone"
  PROVE  Stands
<1>1. job'[t] = r /\ \A u \in Threads \ {t} : job'[u] = job[u]
  BY BecomesIs
<1>2. QED
  BY <1>1 DEF Stands

\* The clients come and go.
LEMMA ClientStands ==
  ASSUME TypesInv, AllKept, NEW a \in Askers, Connect(a) \/ TesterLeaves(a) \/ EquipLeaves(a)
  PROVE  Stands
<1>1. PICK p \in {"idle", "gone"} : ask' = [ask EXCEPT ![a].at = p]
  BY DEF Connect, TesterLeaves, EquipLeaves
<1>2. asked' = asked /\ Idle.pc = "loop"
  BY DEF Connect, TesterLeaves, EquipLeaves, Idle
<1>3. job[Reader(a)].pc = "loop"
  <2>1. CASE Connect(a)
    BY <1>2, <2>1 DEF Connect
  <2>2. CASE TesterLeaves(a)
    BY <1>2, <2>2 DEF TesterLeaves, Reader
  <2>3. CASE EquipLeaves(a)
    BY <1>2, <2>3, Constants DEF EquipLeaves, Reader
  <2>4. QED
    BY <2>1, <2>2, <2>3
<1>4. \A b \in Askers :
          /\ ask'[b].to = ask[b].to /\ ask'[b].msg = ask[b].msg /\ ask'[b].next = ask[b].next
          /\ ask'[b].at # ask[b].at => ask'[b].at \in {"idle", "gone"} /\ job[Reader(b)].pc = "loop"
  BY <1>1, <1>3, AtIs
<1>5. ASSUME NEW t \in Threads, job'[t] # job[t]
      PROVE  /\ job[t].pc \notin ChunkPcs /\ job'[t].pc \notin ChunkPcs
             /\ job'[t].a # None => t = "ipc" /\ job'[t].pc \in {"leave", "drop", "remove"}
             /\ job[t].a \in {None, job'[t].a} \/ ask[job[t].a].at = "gone"
  <2>1. EquipLeaves(a)
    BY <1>5 DEF Connect, TesterLeaves
  <2>2. PICK r : r = [Idle EXCEPT !.pc = "leave", !.a = a]
    OBVIOUS
  <2>3. Becomes("ipc", r) /\ job["ipc"] = Idle /\ r.pc = "leave" /\ "ipc" \in Threads /\ Idle.a = None
    BY <2>1, <2>2, Constants DEF EquipLeaves, Becomes, Openers, Idle
  <2>4. job'["ipc"] = r /\ t = "ipc"
    BY <1>5, <2>3, BecomesIs
  <2>5. QED
    BY <1>2, <2>3, <2>4 DEF ChunkPcs, SetUpPcs
<1>6. QED
  BY <1>2, <1>4, <1>5 DEF Stands

\* The connections of equipment that has left are closed.
LEMMA LeaveStands ==
  ASSUME TypesInv, ClientsInv, AllKept, Leave \/ Drop
  PROVE  Stands
<1>1. UNCHANGED <<ask, asked>> /\ "ipc" \in Threads /\ job["ipc"].pc \in {"leave", "drop"}
  BY Constants DEF Leave, Drop, Openers
<1>2. ask[job["ipc"].a].at = "gone" /\ job["ipc"].pc \notin ChunkPcs
  BY <1>1 DEF ClientsInv, ChunkPcs, SetUpPcs
<1>3. PICK r : Becomes("ipc", r) /\ (r.pc \in {"drop", "remove"} \/ r = Idle)
  <2>1. CASE Leave
    <3>1. PICK D : D = [i \in SourceOf(job["ipc"].a) |-> table[i].fd]
      OBVIOUS
    <3>2. PICK r : r = [pc |-> "drop", a |-> job["ipc"].a, f |-> job["ipc"].f, todo |-> D]
      OBVIOUS
    <3>3. Becomes("ipc", r) /\ r.pc = "drop"
      BY <2>1, <3>1, <3>2, LeaveIs
    <3>4. QED
      BY <3>3
  <2>2. CASE Drop
    <3>1. CASE DropEnds
      BY <3>1 DEF DropEnds
    <3>2. ASSUME NEW p \in DOMAIN job["ipc"].todo, DropSkips(p)
          PROVE  \E r : Becomes("ipc", r) /\ r.pc \in {"drop", "remove"}
      <4>1. PICK r : r = [pc |-> "drop", a |-> job["ipc"].a, todo |-> Rest(p), f |-> job["ipc"].f]
        OBVIOUS
      <4>2. Becomes("ipc", r) /\ r.pc = "drop"
        BY <3>2, <4>1 DEF DropSkips
      <4>3. QED
        BY <4>2
    <3>3. ASSUME NEW p \in DOMAIN job["ipc"].todo, DropCloses(p)
          PROVE  \E r : Becomes("ipc", r) /\ r.pc \in {"drop", "remove"}
      <4>1. PICK r : r = [pc |-> "remove", a |-> job["ipc"].a, todo |-> Rest(p), f |-> job["ipc"].todo[p]]
        OBVIOUS
      <4>2. Becomes("ipc", r) /\ r.pc = "remove"
        BY <3>3, <4>1 DEF DropCloses
      <4>3. QED
        BY <4>2
    <3>4. QED
      BY <2>2, <3>1, <3>2, <3>3, DropIs
  <2>3. QED
    BY <2>1, <2>2
<1>4. r.pc \notin ChunkPcs /\ (r.a # None => r.pc \in {"leave", "drop", "remove"})
  BY <1>3 DEF Idle, ChunkPcs, SetUpPcs
<1>5. QED
  BY <1>1, <1>2, <1>3, <1>4, OneStands

\* A number is taken out of the table, a connection closed, or an answer read.
LEMMA SocketStands ==
  ASSUME TypesInv, ClientsInv, HandsInv, AllKept,
         (\E t \in Threads : RemoveEntry(t)) \/ (\E f \in Fds : Hang(f) \/ CloseTest(f) \/ Reads(f) \/ NullQueue(f))
  PROVE  Stands
<1>1. ASSUME UNCHANGED <<ask, asked, job>> PROVE Stands
  BY <1>1 DEF Stands
<1>2. {"loop", "remove", "drop", "crashed"} \cap ChunkPcs = {} /\ Idle.pc = "loop" /\ Idle.a = None
  BY DEF ChunkPcs, SetUpPcs, Idle
<1>3. ASSUME NEW t \in Threads, RemoveEntry(t) PROVE Stands
  <2>1. /\ t \in Openers /\ job[t].pc = "remove" /\ UNCHANGED <<ask, asked>>
        /\ t = "ipc" => Moves(t, "drop", job[t].f)
        /\ t = "net" => Becomes(t, Idle)
    BY <1>3, RemoveIs
  <2>2. CASE t = "ipc"
    <3>1. PICK r : r = [pc |-> "drop", a |-> job[t].a, todo |-> job[t].todo, f |-> job[t].f]
      OBVIOUS
    <3>2. Becomes(t, r) /\ r.pc = "drop" /\ r.a = job[t].a
      BY <2>1, <2>2, <3>1 DEF Moves
    <3>3. QED
      BY <1>2, <2>1, <2>2, <3>2, OneStands
  <2>3. CASE t = "net"
    <3>1. job[t].a = None
      BY <1>2, <2>1, <2>3 DEF HandsInv
    <3>2. QED
      BY <1>2, <2>1, <2>3, <3>1, OneStands
  <2>4. QED
    BY <2>1, <2>2, <2>3 DEF Openers
<1>4. ASSUME NEW f \in Fds, NEW r, Becomes("net", r), r.pc \in {"crashed", "remove"}, r.a = None, job["net"] = Idle,
             UNCHANGED <<ask, asked>>
      PROVE  Stands
  <2>1. "net" \in Threads
    BY Constants DEF Openers
  <2>2. QED
    BY <1>2, <1>4, <2>1, OneStands
<1>5. ASSUME NEW f \in Fds, CloseTest(f) PROVE Stands
  <2>1. PICK r : r = [pc |-> "remove", a |-> None, todo |-> <<>>, f |-> f]
    OBVIOUS
  <2>2. Becomes("net", r) /\ r.pc = "remove" /\ r.a = None
    BY <1>5, <2>1, CloseIs
  <2>3. QED
    BY <1>4, <1>5, <2>2 DEF CloseTest
<1>6. ASSUME NEW f \in Fds, NullQueue(f) PROVE Stands
  <2>1. PICK r : r = [pc |-> "crashed", a |-> job["net"].a, todo |-> job["net"].todo, f |-> 0]
    OBVIOUS
  <2>2. Becomes("net", r) /\ r.pc = "crashed" /\ job["net"] = Idle /\ UNCHANGED <<ask, asked>>
    BY <1>6, <2>1 DEF NullQueue, Moves
  <2>3. r.a = None
    BY <1>2, <2>1, <2>2
  <2>4. QED
    BY <1>4, <2>2, <2>3
<1>7. ASSUME NEW f \in Fds, Hang(f) \/ Reads(f) PROVE Stands
  BY <1>1, <1>7 DEF Hang, Reads
<1>8. QED
  BY <1>3, <1>5, <1>6, <1>7

\* What a step is, for the chunks that are handled and what the nodes get.
LEMMA StepIs ==
  ASSUME TypesInv, ClientsInv, SocketsInv, RouteInv, ConnInv, HandsInv, TodoInv, Next
  PROVE  \/ \E t \in Threads : Works(t)
         \/ \E a \in Askers, t \in Threads : Takes(t, a)
         \/ \E a \in Askers, to \in Targets, len \in Lengths : Ask(a, to, len) /\ AllKept
         \/ Stands
<1>1. HungInv /\ \A n \in Nodes : Sound(n)' => Sound(n) /\ Conn(n)
  BY TypesStep DEF ConnInv, Worse, Sound
<1>2. ASSUME NEW a \in Askers,
             \/ Connect(a) \/ TesterLeaves(a) \/ EquipLeaves(a) \/ \E to \in Targets, len \in Lengths : Ask(a, to, len)
             \/ \E t \in Threads : (First(a) /\ t = Reader(a)) \/ (t \in Workers /\ Later(t, a))
      PROVE  AllKept
  BY <1>1, <1>2, ClientKeeps DEF AllKept
<1>3. ASSUME NEW a \in Askers, Connect(a) \/ TesterLeaves(a) \/ EquipLeaves(a) PROVE Stands
  BY <1>2, <1>3, ClientStands
<1>4. ASSUME NEW a \in Askers, NEW t \in Threads, (First(a) /\ t = Reader(a)) \/ (t \in Workers /\ Later(t, a))
      PROVE  Takes(t, a)
  BY <1>2, <1>4, TakesIs
<1>5. ASSUME NEW a \in Askers, NEW to \in Targets, NEW len \in Lengths, Ask(a, to, len) PROVE AllKept
  BY <1>2, <1>5
<1>6. ASSUME Leave \/ Drop PROVE Stands
  <2>1. AllKept
    BY <1>1, <1>6, LeaveKeeps DEF AllKept
  <2>2. QED
    BY <1>6, <2>1, LeaveStands
<1>7. ASSUME NEW f \in Fds, Hang(f) \/ CloseTest(f) \/ Answer(f) \/ NullQueue(f) PROVE Stands
  <2>1. AllKept
    BY <1>1, <1>7, SocketKeeps DEF AllKept
  <2>2. Hang(f) \/ CloseTest(f) \/ Reads(f) \/ NullQueue(f)
    BY <1>7, AnswerReads
  <2>3. QED
    BY <2>1, <2>2, SocketStands
<1>8. ASSUME NEW f \in Fds, NEW granted \in BOOLEAN, Activated(f, granted) PROVE Stands
  <2>1. AllKept
    BY <1>1, <1>8, ActivatedKeeps DEF AllKept
  <2>2. Reads(f) \/ NullQueue(f)
    BY <1>8, ActivatedReads
  <2>3. QED
    BY <2>1, <2>2, SocketStands
<1>9. ASSUME NEW t \in Threads, RemoveEntry(t) PROVE Stands
  <2>1. AllKept
    BY <1>1, <1>9, RemovedKeeps DEF AllKept
  <2>2. QED
    BY <1>9, <2>1, SocketStands
<1>10. ASSUME NEW t \in Threads, Other(t) PROVE Works(t)
  <2>1. AllKept
    BY <1>1, <1>10, OtherKeeps DEF AllKept
  <2>2. job[t].pc = "other" /\ Decides(t)
    BY <1>10, OtherDecides DEF Other
  <2>3. UNCHANGED <<ask, asked>> /\ \E pc \in {"send", "cache"} : \E f : Moves(t, pc, f)
    BY <2>2 DEF Decides
  <2>4. QED
    BY <2>1, <2>2, <2>3, MoveWorks DEF AllKept, ChunkPcs
<1>11. ASSUME NEW t \in Threads, Cache(t) \/ List(t) \/ SetRoute(t) \/ AddEntry(t) PROVE Works(t)
  <2>1. AllKept
    BY <1>1, <1>11, OpenedKeeps, RoutedKeeps, AddKeeps DEF AllKept
  <2>2. /\ job[t].pc \in {"cache", "list", "route", "add"} /\ UNCHANGED <<ask, asked>>
        /\ \E pc \in {"list", "route", "add", "fill"} : \E f : Moves(t, pc, f)
    BY <1>11, CacheIs, ListIs, SetRouteIs, AddIs
  <2>3. QED
    BY <2>1, <2>2, MoveWorks DEF AllKept, ChunkPcs, SetUpPcs
<1>12. ASSUME NEW t \in Threads, Fill(t) PROVE Works(t)
  <2>1. /\ t \in Openers /\ job[t].pc = "fill" /\ UNCHANGED <<ask, asked>>
        /\ Moves(t, "crashed", job[t].f) \/ Moves(t, "activate", job[t].f)
    BY <1>12, FillIs
  <2>2. ~(Moves(t, "crashed", job[t].f) /\ Moves(t, "activate", job[t].f))
    <3>1. Moves(t, "crashed", job[t].f) => job'[t].pc = "crashed"
      BY <2>1, MovedIs
    <3>2. Moves(t, "activate", job[t].f) => job'[t].pc = "activate"
      BY <2>1, MovedIs
    <3>3. QED
      BY <3>1, <3>2
  <2>3. CASE Moves(t, "crashed", job[t].f)
    <3>1. AllKept
      BY <1>1, <1>12, <2>2, <2>3, FillAdds DEF AllKept
    <3>2. QED
      BY <2>1, <2>3, <3>1, CrashWorks
  <2>4. CASE Moves(t, "activate", job[t].f)
    <3>1. \A n \in Nodes : Sound(n)' => IF n = Node(t) /\ "activate" = "activate" THEN Added(n, t) ELSE Kept(n)
      BY <1>1, <1>12, <2>2, <2>4, FillAdds
    <3>2. QED
      BY <2>1, <2>4, <3>1, MoveWorks DEF ChunkPcs, SetUpPcs
  <2>5. QED
    BY <2>1, <2>3, <2>4
<1>13. ASSUME NEW t \in Threads, Send(t) \/ (t \in Workers /\ (Direct(t) \/ Store(t))) PROVE Works(t)
  <2>1. job[t].pc \in {"send", "direct", "store"} /\ Next1(t) /\ asked' = asked
    BY <1>13 DEF Send, Direct, Store
  <2>2. \A n \in Nodes : Sound(n)' => IF n = Node(t) THEN Added(n, t) ELSE Kept(n)
    BY <1>1, <1>13, SentAdds, StoreAdds
  <2>3. QED
    BY <2>1, <2>2, NextWorks DEF ChunkPcs
<1>14. ASSUME NEW t \in Threads, Activate(t) \/ Unreachable(t) PROVE Works(t)
  <2>1. job[t].pc \in {"activate", "cache"} /\ Next1(t) /\ asked' = asked
    BY <1>14 DEF Activate, Unreachable
  <2>2. \A n \in Nodes : Sound(n)' => Kept(n) /\ (Unreachable(t) => Node(t) # n)
    BY <1>1, <1>14, AskedKeeps
  <2>3. \A n \in Nodes : Sound(n)' => IF n = Node(t) /\ job[t].pc # "activate" THEN Added(n, t) ELSE Kept(n)
    BY <1>14, <2>2 DEF Activate
  <2>4. QED
    BY <2>1, <2>3, NextWorks DEF ChunkPcs, SetUpPcs
<1>15. ASSUME NEW w \in Workers, Look(w) PROVE Works(w)
  <2>1. w \in Threads /\ job[w].pc = "look" /\ asked' = asked
    BY <1>15, Constants DEF Look
  <2>2. \A n \in Nodes : Sound(n)' => Kept(n)
    BY <1>1, <1>15, LookKeeps
  <2>3. CASE Found(w) = 0
    <3>1. Flaw({Node(w)}, "dropped") /\ Next1(w)
      BY <1>15, <2>3 DEF Look
    <3>2. \A n \in Nodes : Sound(n)' => n \notin {Node(w)}
      BY <3>1, FlawSpares
    <3>3. QED
      BY <2>1, <2>2, <3>1, <3>2, NextWorks DEF ChunkPcs
  <2>4. CASE Found(w) # 0
    <3>1. PICK pc \in {"direct", "store"} :
              \E f : GotoWith(w, pc, f) /\ ask' = ask
      BY <1>15, <2>4 DEF Look
    <3>2. PICK f : GotoWith(w, pc, f) /\ ask' = ask
      BY <3>1
    <3>3. Moves(w, pc, f)
      BY <2>1, <3>2, MovesIs
    <3>4. QED
      BY <2>1, <2>2, <3>1, <3>3, MoveWorks DEF ChunkPcs
  <2>5. QED
    BY <2>3, <2>4
<1>16. ASSUME NEW t \in Threads, ThreadStep(t) PROVE Works(t) \/ Stands
  <2>1. CASE Other(t) \/ Send(t) \/ Cache(t) \/ Unreachable(t) \/ List(t) \/ SetRoute(t)
    BY <1>10, <1>11, <1>13, <1>14, <2>1
  <2>2. CASE AddEntry(t) \/ Fill(t) \/ Activate(t) \/ RemoveEntry(t)
    BY <1>9, <1>11, <1>12, <1>14, <2>2
  <2>3. CASE Leave \/ Drop
    BY <1>6, <2>3
  <2>4. CASE t \in Workers /\ (Look(t) \/ Direct(t) \/ Store(t))
    BY <1>13, <1>15, <2>4
  <2>5. QED
    BY <1>16, <2>1, <2>2, <2>3, <2>4 DEF ThreadStep
<1>17. ASSUME NEW a \in Askers PROVE Reader(a) \in Threads
  BY Constants DEF Reader, Openers
<1>18. ASSUME NEW w \in Workers PROVE w \in Threads
  BY Constants
<1>19. CASE \E a \in Askers : Connect(a) \/ First(a) \/ TesterLeaves(a) \/ EquipLeaves(a)
  BY <1>3, <1>4, <1>17, <1>19
<1>20. CASE \E w \in Workers, a \in Askers : Later(w, a)
  BY <1>4, <1>18, <1>20
<1>21. CASE \E a \in Askers, to \in Targets, len \in Lengths : Ask(a, to, len)
  BY <1>5, <1>21
<1>22. CASE \E t \in Threads : ThreadStep(t)
  BY <1>16, <1>22
<1>23. CASE \E f \in Fds : Hang(f) \/ CloseTest(f) \/ Answer(f)
  BY <1>7, <1>23
<1>24. CASE \E f \in Fds, granted \in BOOLEAN : Activated(f, granted)
  BY <1>8, <1>24
<1>25. QED
  BY <1>19, <1>20, <1>21, <1>22, <1>23, <1>24 DEF Next

\* Every step keeps the connections of the nodes for which nothing has gone wrong.
LEMMA ConnStep ==
  ASSUME TypesInv, ClientsInv, SocketsInv, RouteInv, ConnInv, HandsInv, TodoInv, Next
  PROVE  ConnInv'
<1>1. HungInv'
  BY HungStep DEF ConnInv
<1>2. ASSUME NEW n \in Nodes, Sound(n)' PROVE Conn(n)'
  BY <1>2, StepIs DEF Works, Takes, Stands, AllKept, Kept, Added
<1>3. QED
  BY <1>1, <1>2 DEF ConnInv, Conn, RouteOk, EntryOk, SetUpOk, ReadyOk, Sound, Node

-----------------------------------------------------------------------------
\* The end of a chunk: the client is at the next one, unless it has left.
LEMMA DoneIs ==
  ASSUME TypesInv, NEW t \in Threads, NEW a \in Askers, a = job[t].a, IsDone(t)
  PROVE  /\ \A b \in Askers \ {a} : ask'[b] = ask[b]
         /\ ask'[a].to = ask[a].to /\ ask'[a].msg = ask[a].msg
         /\ ask[a].at = "gone" => ask'[a] = ask[a]
         /\ ask[a].at # "gone" => ask'[a].next = ask[a].next + 1 /\ ask'[a].at \in {"idle", "rest"}
         /\ job'[t] = Idle
<1>1. job'[t] = Idle
  BY BecomesIs DEF IsDone
<1>2. CASE ask[a].at = "gone"
  BY <1>1, <1>2 DEF IsDone
<1>3. CASE ask[a].at # "gone"
  <2>1. PICK p \in {"idle", "rest"} : p = IF LastOf(a) THEN "idle" ELSE "rest"
    OBVIOUS
  <2>2. PICK q \in Question : q = ask[a]
    BY Types
  <2>3. PICK r : r = [q EXCEPT !.next = @ + 1, !.at = p]
    OBVIOUS
  <2>4. ask' = [ask EXCEPT ![a] = r]
    BY <1>3, <2>1, <2>2, <2>3 DEF IsDone
  <2>5. r.to = q.to /\ r.msg = q.msg /\ r.next = q.next + 1 /\ r.at = p
    BY <2>2, <2>3 DEF Question
  <2>6. ask'[a] = r /\ \A b \in Askers \ {a} : ask'[b] = ask[b]
    BY <2>4, Types
  <2>7. QED
    BY <1>1, <1>3, <2>1, <2>2, <2>5, <2>6
<1>4. QED
  BY <1>2, <1>3

\* One thread handles a chunk of a client.
LEMMA OnlyOne ==
  ASSUME TypesInv, ClientsInv, NEW t \in Threads, NEW u \in Threads, job[t].pc \in ChunkPcs, job[u].pc \in ChunkPcs,
         job[t].a = job[u].a
  PROVE  t = u
<1>1. \A v \in {t, u} : /\ ask[job[v].a].at \in (IF v \in Workers THEN {"rest", "gone"} ELSE {"first"})
                        /\ v \notin Workers => v = Reader(job[v].a)
  BY DEF ClientsInv
<1>2. job[t].pc # "loop" /\ job[u].pc # "loop"
  BY DEF ChunkPcs, SetUpPcs
<1>3. CASE t \in Workers /\ u \in Workers
  BY <1>2, <1>3 DEF ClientsInv
<1>4. CASE t \notin Workers /\ u \notin Workers
  BY <1>1, <1>4
<1>5. CASE t \in Workers /\ u \notin Workers
  BY <1>1, <1>5
<1>6. CASE t \notin Workers /\ u \in Workers
  BY <1>1, <1>6
<1>7. QED
  BY <1>3, <1>4, <1>5, <1>6

\* What a thread that is at work does to the clients.
LEMMA WorksAsk ==
  ASSUME TypesInv, ClientsInv, NEW t \in Threads, Works(t)
  PROVE  /\ job[t].a \in Askers /\ HasChunk(job[t].a)
         /\ \A b \in Askers : ask'[b].to = ask[b].to /\ ask'[b].msg = ask[b].msg
         /\ \A b \in Askers \ {job[t].a} : ask'[b] = ask[b]
<1>1. job[t].a \in Askers /\ HasChunk(job[t].a)
  BY JobOf DEF Works, ClientsInv
<1>2. ask' = ask \/ IsDone(t)
  BY DEF Works
<1>3. QED
  BY <1>1, <1>2, DoneIs

\* Every step keeps what the threads have at hand.
LEMMA HandsStep ==
  ASSUME TypesInv, ClientsInv, SocketsInv, RouteInv, ConnInv, TurnsInv, Next
  PROVE  HandsInv'
<1>1. HandsInv /\ TodoInv /\ None \notin Askers
  BY Constants DEF TurnsInv
<1>2. Idle.a = None /\ Idle.pc = "loop"
  BY DEF Idle
<1>3. ASSUME NEW t \in Threads, Works(t) PROVE HandsInv'
  <2>1. PICK a \in Askers : a = job[t].a
    BY <1>3, WorksAsk
  <2>2. job[t].pc \in ChunkPcs /\ \A u \in Threads \ {t} : job'[u] = job[u]
    BY <1>3 DEF Works
  <2>3. t \notin Workers => t = Reader(a) /\ ask[a].at = "first"
    BY <2>1, <2>2 DEF ClientsInv
  <2>4. t \in Workers => ask[a].at # "first"
    BY <2>1, <2>2 DEF ClientsInv
  <2>5. \A b \in Askers \ {a} : ask'[b] = ask[b]
    BY <1>3, <2>1, WorksAsk
  <2>6. ASSUME NEW u \in Threads \ {t}, job'[u].a # None
        PROVE  \/ job'[u].pc \in ChunkPcs
               \/ u = "ipc" /\ job'[u].pc \in {"leave", "drop", "remove"}
               \/ job'[u].pc = "crashed" /\ u = Reader(job'[u].a) /\ ask'[job'[u].a].at = "first"
    <3>1. job'[u] = job[u] /\ job[u].a \in Askers
      BY <2>2, <2>6, JobOf
    <3>2. job[u].pc = "crashed" /\ u = Reader(job[u].a) /\ ask[job[u].a].at = "first" => job[u].a # a
      BY <2>3, <2>4
    <3>3. QED
      BY <1>1, <2>5, <2>6, <3>1, <3>2 DEF HandsInv
  <2>7. CASE job'[t].pc \in ChunkPcs
    BY <2>6, <2>7 DEF HandsInv
  <2>8. CASE ask' = ask /\ job'[t].a = job[t].a /\ job'[t].pc = "crashed" /\ t \notin Workers
    BY <2>1, <2>3, <2>6, <2>8 DEF HandsInv
  <2>9. CASE IsDone(t)
    <3>1. job'[t].a = None
      BY <1>2, <2>1, <2>9, DoneIs
    <3>2. QED
      BY <2>6, <3>1 DEF HandsInv
  <2>10. QED
    BY <1>3, <2>7, <2>8, <2>9 DEF Works
<1>4. ASSUME NEW a \in Askers, NEW t \in Threads, Takes(t, a) PROVE HandsInv'
  <2>1. PICK p : p = IF t \in Workers THEN "look" ELSE "other"
    OBVIOUS
  <2>2. PICK r : r = [pc |-> p, a |-> a, todo |-> ToList(ask[a].to), f |-> 0]
    OBVIOUS
  <2>3. Becomes(t, r) /\ ask' = ask
    BY <1>4, <2>1, <2>2 DEF Takes
  <2>4. job'[t] = r /\ \A u \in Threads \ {t} : job'[u] = job[u]
    BY <2>3, BecomesIs
  <2>5. r.pc \in ChunkPcs
    BY <2>1, <2>2 DEF ChunkPcs
  <2>6. QED
    BY <1>1, <2>3, <2>4, <2>5 DEF HandsInv
<1>5. ASSUME NEW a \in Askers, NEW to \in Targets, NEW len \in Lengths, Ask(a, to, len) PROVE HandsInv'
  <2>1. job' = job /\ ask[a].at = "idle" /\ \A b \in Askers \ {a} : ask'[b] = ask[b]
    BY <1>5, Types DEF Ask
  <2>2. ASSUME NEW u \in Threads, job'[u].a # None
        PROVE  \/ job'[u].pc \in ChunkPcs
               \/ u = "ipc" /\ job'[u].pc \in {"leave", "drop", "remove"}
               \/ job'[u].pc = "crashed" /\ u = Reader(job'[u].a) /\ ask'[job'[u].a].at = "first"
    <3>1. job'[u] = job[u] /\ job[u].a \in Askers
      BY <2>1, <2>2, JobOf
    <3>2. ask[job[u].a].at = "first" => job[u].a # a
      BY <2>1
    <3>3. QED
      BY <1>1, <2>1, <2>2, <3>1, <3>2 DEF HandsInv
  <2>3. QED
    BY <2>2 DEF HandsInv
<1>6. CASE Stands
  <2>1. ASSUME NEW u \in Threads, job'[u].a # None
        PROVE  \/ job'[u].pc \in ChunkPcs
               \/ u = "ipc" /\ job'[u].pc \in {"leave", "drop", "remove"}
               \/ job'[u].pc = "crashed" /\ u = Reader(job'[u].a) /\ ask'[job'[u].a].at = "first"
    <3>1. CASE job'[u] # job[u]
      BY <1>6, <2>1, <3>1 DEF Stands
    <3>2. CASE job'[u] = job[u]
      <4>1. job[u].a \in Askers
        BY <2>1, <3>2, JobOf
      <4>2. job[u].pc = "crashed" /\ u = Reader(job[u].a) => ask'[job[u].a].at = ask[job[u].a].at
        BY <1>6, <4>1 DEF Stands
      <4>3. QED
        BY <1>1, <2>1, <3>2, <4>1, <4>2 DEF HandsInv
    <3>3. QED
      BY <3>1, <3>2
  <2>2. QED
    BY <2>1 DEF HandsInv
<1>7. QED
  BY <1>1, <1>3, <1>4, <1>5, <1>6, StepIs

\* The nodes that the chunk of a client is for, after a step.
MembersNext(a) == Has(ToList(ask'[a].to))

\* Every step keeps what is left of the chunks.
LEMMA TodoStep ==
  ASSUME OncePerGroup, TypesInv, ClientsInv, SocketsInv, RouteInv, ConnInv, TurnsInv, Next
  PROVE  TodoInv'
<1>1. HandsInv /\ TodoInv
  BY DEF TurnsInv
<1>2. ASSUME NEW u \in Threads, job'[u] = job[u], job[u].pc \in ChunkPcs, ask'[job[u].a].to = ask[job[u].a].to
      PROVE  Has(job'[u].todo) \subseteq MembersNext(job'[u].a) /\ Distinct(job'[u].todo)
  <2>1. MembersNext(job[u].a) = Members(job[u].a)
    BY <1>2 DEF Members, MembersNext
  <2>2. QED
    BY <1>1, <1>2, <2>1 DEF TodoInv
<1>3. ASSUME NEW t \in Threads, Works(t) PROVE TodoInv'
  <2>1. job[t].a \in Askers /\ job[t].pc \in ChunkPcs /\ \A u \in Threads \ {t} : job'[u] = job[u]
    BY <1>3, WorksAsk DEF Works
  <2>2. \A b \in Askers : ask'[b].to = ask[b].to
    BY <1>3, WorksAsk
  <2>3. ASSUME NEW u \in Threads \ {t}, job'[u].pc \in ChunkPcs
        PROVE  Has(job'[u].todo) \subseteq MembersNext(job'[u].a) /\ Distinct(job'[u].todo)
    BY <1>2, <2>1, <2>2, <2>3, JobOf
  <2>4. ASSUME job'[t].pc \in ChunkPcs
        PROVE  Has(job'[t].todo) \subseteq MembersNext(job'[t].a) /\ Distinct(job'[t].todo)
    <3>1. "crashed" \notin ChunkPcs /\ Idle.pc \notin ChunkPcs
      BY DEF ChunkPcs, SetUpPcs, Idle
    <3>2. ~IsDone(t)
      BY <2>1, <2>4, <3>1, DoneIs
    <3>3. job'[t].a = job[t].a /\ Distinct(job'[t].todo) /\ Has(job'[t].todo) \subseteq Has(job[t].todo)
      BY <1>3, <2>4, <3>1, <3>2 DEF Works
    <3>4. MembersNext(job[t].a) = Members(job[t].a)
      BY <2>1, <2>2 DEF Members, MembersNext
    <3>5. Has(job[t].todo) \subseteq Members(job[t].a)
      BY <1>1, <2>1 DEF TodoInv
    <3>6. QED
      BY <3>3, <3>4, <3>5
  <2>5. QED
    BY <2>3, <2>4 DEF TodoInv, Members, MembersNext
<1>4. ASSUME NEW a \in Askers, NEW t \in Threads, Takes(t, a) PROVE TodoInv'
  <2>1. PICK p : p = IF t \in Workers THEN "look" ELSE "other"
    OBVIOUS
  <2>2. PICK r : r = [pc |-> p, a |-> a, todo |-> ToList(ask[a].to), f |-> 0]
    OBVIOUS
  <2>3. Becomes(t, r) /\ ask' = ask
    BY <1>4, <2>1, <2>2 DEF Takes
  <2>4. job'[t] = r /\ \A u \in Threads \ {t} : job'[u] = job[u]
    BY <2>3, BecomesIs
  <2>5. r.a = a /\ r.todo = ToList(ask[a].to)
    BY <2>2
  <2>6. Distinct(r.todo)
    BY <2>5 DEF Distinct, OncePerGroup, ToList
  <2>7. Has(r.todo) = MembersNext(a)
    BY <2>3, <2>5 DEF MembersNext
  <2>8. ASSUME NEW u \in Threads, job'[u].pc \in ChunkPcs
        PROVE  Has(job'[u].todo) \subseteq MembersNext(job'[u].a) /\ Distinct(job'[u].todo)
    <3>1. CASE u = t
      BY <2>3, <2>4, <2>5, <2>6, <2>7, <3>1
    <3>2. CASE u # t
      BY <1>2, <2>3, <2>4, <2>8, <3>2
    <3>3. QED
      BY <3>1, <3>2
  <2>9. QED
    BY <2>8 DEF TodoInv, Members, MembersNext
<1>5. ASSUME NEW a \in Askers, NEW to \in Targets, NEW len \in Lengths, Ask(a, to, len) PROVE TodoInv'
  <2>1. job' = job /\ ask[a].at = "idle" /\ \A b \in Askers \ {a} : ask'[b] = ask[b]
    BY <1>5, Types DEF Ask
  <2>2. ASSUME NEW u \in Threads, job'[u].pc \in ChunkPcs
        PROVE  Has(job'[u].todo) \subseteq MembersNext(job'[u].a) /\ Distinct(job'[u].todo)
    <3>1. job'[u] = job[u] /\ job[u].a \in Askers /\ job[u].a # a
      BY <2>1, <2>2, JobOf DEF ClientsInv
    <3>2. QED
      BY <1>2, <2>1, <2>2, <3>1
  <2>3. QED
    BY <2>2 DEF TodoInv, Members, MembersNext
<1>6. CASE Stands
  <2>1. ASSUME NEW u \in Threads, job'[u].pc \in ChunkPcs
        PROVE  Has(job'[u].todo) \subseteq MembersNext(job'[u].a) /\ Distinct(job'[u].todo)
    <3>1. job'[u] = job[u]
      BY <1>6, <2>1 DEF Stands
    <3>2. job[u].a \in Askers /\ ask'[job[u].a].to = ask[job[u].a].to
      BY <1>6, <2>1, <3>1, JobOf DEF Stands
    <3>3. QED
      BY <1>2, <2>1, <3>1, <3>2
  <2>2. QED
    BY <2>1 DEF TodoInv, Members, MembersNext
<1>7. QED
  BY <1>1, <1>3, <1>4, <1>5, <1>6, StepIs

\* Every step keeps the numbers of the messages.
LEMMA NumbersStep ==
  ASSUME TypesInv, ClientsInv, SocketsInv, RouteInv, ConnInv, TurnsInv, Next
  PROVE  NumbersInv'
<1>1. HandsInv /\ TodoInv /\ NumbersInv
  BY DEF TurnsInv
<1>2. asked \in Nat /\ \A a \in Askers : ask[a].msg \in Nat
  BY Types, Constants DEF Question
<1>3. ASSUME asked' = asked, \A a \in Askers : ask'[a].msg = ask[a].msg PROVE NumbersInv'
  BY <1>1, <1>3 DEF NumbersInv
<1>4. ASSUME NEW t \in Threads, Works(t) PROVE NumbersInv'
  BY <1>3, <1>4, WorksAsk DEF Works
<1>5. ASSUME NEW a \in Askers, NEW t \in Threads, Takes(t, a) PROVE NumbersInv'
  BY <1>3, <1>5 DEF Takes
<1>6. CASE Stands
  BY <1>3, <1>6 DEF Stands
<1>7. ASSUME NEW a \in Askers, NEW to \in Targets, NEW len \in Lengths, Ask(a, to, len) PROVE NumbersInv'
  <2>1. asked' = asked + 1 /\ \A b \in Askers \ {a} : ask'[b] = ask[b]
    BY <1>7, Types DEF Ask
  <2>2. ask'[a].msg = asked + 1
    <3>1. PICK r : r = [at |-> "first", to |-> to, msg |-> asked + 1, next |-> 1, len |-> len]
      OBVIOUS
    <3>2. ask'[a] = r
      BY <1>7, <3>1, Types DEF Ask
    <3>3. QED
      BY <3>1, <3>2
  <2>3. \A b \in Askers \ {a} : ask'[b].msg \in Nat /\ ask'[b].msg <= asked
    BY <1>1, <1>2, <2>1 DEF NumbersInv
  <2>4. \A b \in Askers \ {a} : ask'[b].msg <= asked' /\ ask'[b].msg # ask'[a].msg
    BY <1>2, <2>1, <2>2, <2>3
  <2>5. ASSUME NEW b \in Askers, NEW c \in Askers, ask'[b].msg = ask'[c].msg, ask'[b].msg # 0 PROVE b = c
    <3>1. CASE b = a \/ c = a
      BY <2>4, <2>5, <3>1
    <3>2. CASE b # a /\ c # a
      BY <1>1, <2>1, <2>5, <3>2 DEF NumbersInv
    <3>3. QED
      BY <3>1, <3>2
  <2>6. QED
    BY <1>2, <2>1, <2>2, <2>4, <2>5 DEF NumbersInv
<1>8. QED
  BY <1>1, <1>4, <1>5, <1>6, <1>7, StepIs

\* Messages of two clients have different numbers.
LEMMA NumbersDiffer ==
  ASSUME TypesInv, NumbersInv, NEW a \in Askers, NEW b \in Askers, a # b, HasChunk(a)
  PROVE  ask[a].msg # ask[b].msg
<1>1. ask[a].msg # 0
  BY DEF HasChunk
<1>2. QED
  BY <1>1 DEF NumbersInv

\* The nodes a thread is still to give its chunk to are nodes that the chunk is for.
LEMMA LeftIs ==
  ASSUME TypesInv, TodoInv, NEW t \in Threads, job[t].pc \in ChunkPcs
  PROVE  LeftOf(job[t]) \subseteq Members(job[t].a)
<1>1. PICK s \in Seq(Nodes) : s = job[t].todo /\ s # <<>>
  BY JobOf
<1>2. LeftOf(job[t]) \subseteq Has(s)
  BY <1>1, TailIs DEF LeftOf
<1>3. QED
  BY <1>1, <1>2 DEF TodoInv

\* What a node has got after a thread has given its chunk to some.
LEMMA GivenCounts ==
  ASSUME TypesInv, ClientsInv, ConnInv, TurnsInv, NEW t \in Threads, job[t].pc \in ChunkPcs,
         NEW G \in SUBSET LeftOf(job[t]), NEW n \in Nodes, Sound(n), IF n \in G THEN Added(n, t) ELSE Kept(n)
  PROVE  /\ InOrder(Whole(n)')
         /\ \A m : /\ Count(Whole(n), m) \in Nat
                   /\ Count(Whole(n)', m) = IF n \in G /\ m = ask[job[t].a].msg THEN Count(Whole(n), m) + 1
                                            ELSE Count(Whole(n), m)
<1>1. EntryOk(n) /\ InOrder(Whole(n)) /\ TodoInv
  BY DEF ConnInv, Conn, TurnsInv, OrderInv
<1>2. PICK s \in Seq(Items) : s = Whole(n)
  BY <1>1, EntryOf
<1>3. \A m : Count(s, m) \in Nat
  <2>1. Len(s) \in Nat
    OBVIOUS
  <2>2. QED
    BY <2>1, CountIs DEF Count
<1>4. CASE n \notin G
  <2>1. Whole(n)' = s
    BY <1>2, <1>4 DEF Kept
  <2>2. QED
    BY <1>1, <1>2, <1>3, <1>4, <2>1
<1>5. CASE n \in G
  <2>1. PICK a \in Askers : a = job[t].a /\ HasChunk(a)
    BY JobOf DEF ClientsInv
  <2>2. PICK x \in Items : x = Item(a)
    BY <2>1, ItemIs
  <2>3. x[2] = ask[a].msg /\ x[3] = ask[a].next /\ ask[a].next \in Nat
    BY <2>1, <2>2, Types DEF Item, Question
  <2>4. n \in Members(a) /\ n \in LeftOf(job[t])
    BY <1>1, <1>5, <2>1, LeftIs
  <2>5. Count(s, x[2]) = x[3] - 1
    BY <1>2, <2>1, <2>3, <2>4 DEF TurnsInv, AtWorkInv
  <2>6. x[3] = Count(s, x[2]) + 1
    BY <2>3, <2>5
  <2>7. Whole(n)' = Append(s, x)
    BY <1>2, <1>5, <2>1, <2>2 DEF Added
  <2>8. InOrder(Append(s, x)) /\ \A m : Count(Append(s, x), m) = IF x[2] = m THEN Count(s, m) + 1 ELSE Count(s, m)
    BY <1>1, <1>2, <2>6, CountAppend
  <2>9. QED
    BY <1>2, <1>3, <1>5, <2>1, <2>3, <2>7, <2>8
<1>6. QED
  BY <1>4, <1>5

\* A node for which nothing has gone wrong after a step is one for which nothing had before.
LEMMA SoundBefore ==
  ASSUME TypesInv, ClientsInv, Next, NEW n \in Nodes, Sound(n)'
  PROVE  Sound(n)
BY TypesStep DEF Worse, Sound

\* What is beyond a greater number is beyond a smaller one.
LEMMA BeyondIs ==
  ASSUME NEW k \in Nat, NEW l \in Nat, NEW u \in Nat, k <= l
  PROVE  \A m \in l + 1 .. u : m \in k + 1 .. u
OBVIOUS

\* Every step keeps the order.
LEMMA OrderStep ==
  ASSUME TypesInv, ClientsInv, SocketsInv, RouteInv, ConnInv, TurnsInv, Next
  PROVE  OrderInv'
<1>1. HandsInv /\ TodoInv /\ NumbersInv /\ OrderInv
  BY DEF TurnsInv
<1>2. asked \in Nat /\ MaxAsked \in Nat
  BY Types, Constants
<1>3. ASSUME AllKept, asked' \in {asked, asked + 1} PROVE OrderInv'
  <2>1. ASSUME NEW n \in Nodes, Sound(n)'
        PROVE  InOrder(Whole(n)') /\ \A m \in asked' + 1 .. MaxAsked : Count(Whole(n)', m) = 0
    <3>1. Sound(n) /\ Whole(n)' = Whole(n)
      BY <1>3, <2>1, SoundBefore DEF AllKept, Kept
    <3>2. \A m \in asked' + 1 .. MaxAsked : m \in asked + 1 .. MaxAsked
      <4>1. asked' \in Nat /\ asked <= asked'
        BY <1>2, <1>3
      <4>2. QED
        BY <1>2, <4>1, BeyondIs
    <3>3. QED
      BY <1>1, <3>1, <3>2 DEF OrderInv
  <2>2. QED
    BY <2>1 DEF OrderInv, InOrder, Count
<1>4. ASSUME NEW t \in Threads, Works(t) PROVE OrderInv'
  <2>1. ASSUME NEW n \in Nodes, Sound(n)'
        PROVE  InOrder(Whole(n)') /\ \A m \in asked' + 1 .. MaxAsked : Count(Whole(n)', m) = 0
    <3>1. Sound(n) /\ job[t].pc \in ChunkPcs /\ asked' = asked
      BY <1>4, <2>1, SoundBefore DEF Works
    <3>2. PICK G \in SUBSET LeftOf(job[t]) : IF n \in G THEN Added(n, t) ELSE Kept(n)
      BY <1>4, <2>1 DEF Works
    <3>3. job[t].a \in Askers /\ ask[job[t].a].msg <= asked /\ ask[job[t].a].msg \in Nat
      BY <1>1, <1>4, WorksAsk, Types, Constants DEF NumbersInv, Question
    <3>4. \A m \in asked + 1 .. MaxAsked : m # ask[job[t].a].msg
      BY <1>2, <3>3
    <3>5. \A m \in asked + 1 .. MaxAsked : Count(Whole(n), m) = 0
      BY <1>1, <3>1 DEF OrderInv
    <3>6. QED
      BY <3>1, <3>2, <3>4, <3>5, GivenCounts
  <2>2. QED
    BY <2>1 DEF OrderInv, InOrder, Count
<1>5. ASSUME NEW a \in Askers, NEW t \in Threads, Takes(t, a) PROVE OrderInv'
  BY <1>3, <1>5 DEF Takes
<1>6. CASE Stands
  BY <1>3, <1>6 DEF Stands
<1>7. ASSUME NEW a \in Askers, NEW to \in Targets, NEW len \in Lengths, Ask(a, to, len), AllKept PROVE OrderInv'
  BY <1>3, <1>7 DEF Ask
<1>8. QED
  BY <1>1, <1>4, <1>5, <1>6, <1>7, StepIs

-----------------------------------------------------------------------------
\* The same of a client after a step.
WaitingNext(a) == ask'[a].at \in {"first", "rest"} /\ \A t \in Threads : job'[t].a # a

\* The nodes that a chunk is for are nodes.
LEMMA MembersAre ==
  ASSUME TypesInv, ClientsInv, SocketsInv, Next
  PROVE  /\ \A a \in Askers : HasChunk(a) => Members(a) \subseteq Nodes
         /\ \A a \in Askers : WaitingNext(a) => MembersNext(a) \subseteq Nodes
<1>1. ASSUME NEW to \in Targets PROVE Has(ToList(to)) \subseteq Nodes
  <2>1. PICK s \in Seq(Nodes) : s = ToList(to) /\ s # <<>>
    BY ToListIs
  <2>2. QED
    BY <2>1, TailIs
<1>2. \A a \in Askers : WaitingNext(a) => ask'[a].to \in Targets
  <2>1. ClientsInv'
    BY ClientsStep
  <2>2. QED
    BY <2>1 DEF ClientsInv, HasChunk, WaitingNext
<1>3. QED
  BY <1>1, <1>2 DEF HasChunk, Members, MembersNext

\* A client that is not concerned: what the nodes of its chunk get of its message stays the same
\* when a thread is at work on another client's.
LEMMA OthersCount ==
  ASSUME TypesInv, ClientsInv, ConnInv, TurnsInv, NEW t \in Threads, Works(t),
         NEW b \in Askers, b # job[t].a, NEW n \in Nodes, Sound(n), Sound(n)'
  PROVE  Count(Whole(n)', ask[b].msg) = Count(Whole(n), ask[b].msg)
<1>1. job[t].pc \in ChunkPcs
  BY DEF Works
<1>2. PICK G \in SUBSET LeftOf(job[t]) : IF n \in G THEN Added(n, t) ELSE Kept(n)
  BY DEF Works
<1>3. job[t].a \in Askers /\ HasChunk(job[t].a)
  BY WorksAsk
<1>4. ask[b].msg # ask[job[t].a].msg
  BY <1>3, NumbersDiffer DEF TurnsInv
<1>5. QED
  BY <1>1, <1>2, <1>4, GivenCounts

\* Every step keeps what is said of the clients whose next chunk nobody has yet.
LEMMA WaitingStep ==
  ASSUME TypesInv, ClientsInv, SocketsInv, RouteInv, ConnInv, TurnsInv, Next
  PROVE  WaitingInv'
<1>1. HandsInv /\ TodoInv /\ NumbersInv /\ OrderInv /\ WaitingInv /\ AtWorkInv
  BY DEF TurnsInv
<1>2. SUFFICES ASSUME NEW a \in Askers, WaitingNext(a), NEW n \in Nodes, n \in MembersNext(a), Sound(n)'
               PROVE  Count(Whole(n)', ask'[a].msg) = ask'[a].next - 1
  <2>1. ASSUME NEW a \in Askers, WaitingNext(a), NEW n \in MembersNext(a), Sound(n)' PROVE n \in Nodes
    BY <2>1, MembersAre
  <2>2. QED
    BY <2>1 DEF WaitingInv, Waiting, WaitingNext, Members, MembersNext, Count
<1>3. Sound(n)
  BY <1>2, SoundBefore
<1>4. ASSUME AllKept, ask'[a].to = ask[a].to, ask'[a].msg = ask[a].msg, ask'[a].next = ask[a].next, Waiting(a)
      PROVE  Count(Whole(n)', ask'[a].msg) = ask'[a].next - 1
  <2>1. Whole(n)' = Whole(n)
    BY <1>2, <1>4 DEF AllKept, Kept
  <2>2. n \in Members(a)
    BY <1>2, <1>4 DEF Members, MembersNext
  <2>3. QED
    BY <1>1, <1>3, <1>4, <2>1, <2>2 DEF WaitingInv
<1>5. ASSUME NEW t \in Threads, Works(t), job[t].a # a
      PROVE  Count(Whole(n)', ask'[a].msg) = ask'[a].next - 1
  <2>1. ask'[a] = ask[a]
    BY <1>5, WorksAsk
  <2>2. n \in Members(a)
    BY <1>2, <2>1 DEF Members, MembersNext
  <2>3. Waiting(a)
    <3>1. \A u \in Threads \ {t} : job'[u] = job[u]
      BY <1>5 DEF Works
    <3>2. QED
      BY <1>2, <1>5, <2>1, <3>1 DEF Waiting, WaitingNext
  <2>4. Count(Whole(n)', ask[a].msg) = Count(Whole(n), ask[a].msg)
    BY <1>2, <1>3, <1>5, OthersCount
  <2>5. QED
    BY <1>1, <1>3, <2>1, <2>2, <2>3, <2>4 DEF WaitingInv
<1>6. ASSUME NEW t \in Threads, Works(t), job[t].a = a
      PROVE  Count(Whole(n)', ask'[a].msg) = ask'[a].next - 1
  <2>1. PICK G \in SUBSET LeftOf(job[t]) :
            /\ IF n \in G THEN Added(n, t) ELSE Kept(n)
            /\ job'[t].a = job[t].a \/ (IsDone(t) /\ LeftOf(job[t]) = G)
    BY <1>2, <1>6 DEF Works
  <2>2. IsDone(t) /\ LeftOf(job[t]) = G
    BY <1>2, <1>6, <2>1 DEF WaitingNext
  <2>3. job[t].pc \in ChunkPcs /\ ask[a].next \in Nat
    BY <1>6, Types DEF Works, Question
  <2>4. ask[a].at # "gone" /\ ask'[a].next = ask[a].next + 1 /\ ask'[a].to = ask[a].to /\ ask'[a].msg = ask[a].msg
    BY <1>2, <1>6, <2>2, DoneIs DEF WaitingNext
  <2>5. n \in Members(a)
    BY <1>2, <2>4 DEF Members, MembersNext
  <2>6. Count(Whole(n), ask[a].msg) = IF n \in G THEN ask[a].next - 1 ELSE ask[a].next
    BY <1>1, <1>3, <1>6, <2>2, <2>3, <2>5 DEF AtWorkInv
  <2>7. Count(Whole(n)', ask[a].msg) = IF n \in G THEN Count(Whole(n), ask[a].msg) + 1 ELSE Count(Whole(n), ask[a].msg)
    BY <1>3, <1>6, <2>1, <2>3, GivenCounts
  <2>8. QED
    BY <2>3, <2>4, <2>6, <2>7
<1>7. ASSUME NEW b \in Askers, NEW t \in Threads, Takes(t, b)
      PROVE  Count(Whole(n)', ask'[a].msg) = ask'[a].next - 1
  <2>1. PICK p : p = IF t \in Workers THEN "look" ELSE "other"
    OBVIOUS
  <2>2. PICK r : r = [pc |-> p, a |-> b, todo |-> ToList(ask[b].to), f |-> 0]
    OBVIOUS
  <2>3. Becomes(t, r) /\ ask' = ask /\ AllKept /\ job[t].pc = "loop" /\ r.a = b
    BY <1>7, <2>1, <2>2 DEF Takes
  <2>4. job'[t] = r /\ \A u \in Threads \ {t} : job'[u] = job[u]
    BY <2>3, BecomesIs
  <2>5. job[t].a = None /\ None \notin Askers
    BY <2>3, JobOf, Constants
  <2>6. Waiting(a)
    BY <1>2, <2>3, <2>4, <2>5 DEF Waiting, WaitingNext
  <2>7. QED
    BY <1>4, <2>3, <2>6
<1>8. CASE Stands
  <2>1. /\ AllKept /\ ask'[a].to = ask[a].to /\ ask'[a].msg = ask[a].msg /\ ask'[a].next = ask[a].next
        /\ ask'[a].at = ask[a].at
    BY <1>2, <1>8 DEF Stands, WaitingNext
  <2>2. ASSUME NEW t \in Threads, job[t].a = a PROVE FALSE
    <3>1. job'[t] # job[t] /\ a # None /\ ask[a].at # "gone" /\ job'[t].a # a
      BY <1>2, <2>1, <2>2, Constants DEF WaitingNext
    <3>2. job[t].a \in {None, job'[t].a} \/ ask[job[t].a].at = "gone"
      BY <1>8, <3>1 DEF Stands
    <3>3. QED
      BY <2>2, <3>1, <3>2
  <2>3. Waiting(a)
    BY <1>2, <2>1, <2>2 DEF Waiting, WaitingNext
  <2>4. QED
    BY <1>4, <2>1, <2>3
<1>9. ASSUME NEW b \in Askers, NEW to \in Targets, NEW len \in Lengths, Ask(b, to, len), AllKept
      PROVE  Count(Whole(n)', ask'[a].msg) = ask'[a].next - 1
  <2>1. job' = job /\ ask[b].at = "idle" /\ asked < MaxAsked /\ \A c \in Askers \ {b} : ask'[c] = ask[c]
    BY <1>9, Types DEF Ask
  <2>2. CASE a # b
    <3>1. Waiting(a)
      BY <1>2, <2>1, <2>2 DEF Waiting, WaitingNext
    <3>2. QED
      BY <1>4, <1>9, <2>1, <2>2, <3>1
  <2>3. CASE a = b
    <3>1. PICK r : r = [at |-> "first", to |-> to, msg |-> asked + 1, next |-> 1, len |-> len]
      OBVIOUS
    <3>2. ask'[a] = r
      BY <1>9, <2>3, <3>1, Types DEF Ask
    <3>3. ask'[a].msg = asked + 1 /\ ask'[a].next = 1
      BY <3>1, <3>2
    <3>4. asked + 1 \in asked + 1 .. MaxAsked
      BY <2>1, Types, Constants
    <3>5. Count(Whole(n), asked + 1) = 0
      BY <1>1, <1>3, <3>4 DEF OrderInv
    <3>6. Whole(n)' = Whole(n)
      BY <1>2, <1>9 DEF AllKept, Kept
    <3>7. QED
      BY <3>3, <3>5, <3>6
  <2>4. QED
    BY <2>2, <2>3
<1>10. QED
  BY <1>1, <1>5, <1>6, <1>7, <1>8, <1>9, StepIs

\* Every step keeps what is said of the clients whose chunk a thread has.
LEMMA AtWorkStep ==
  ASSUME TypesInv, ClientsInv, SocketsInv, RouteInv, ConnInv, TurnsInv, Next
  PROVE  AtWorkInv'
<1>1. HandsInv /\ TodoInv /\ NumbersInv /\ OrderInv /\ WaitingInv /\ AtWorkInv
  BY DEF TurnsInv
<1>2. SUFFICES ASSUME NEW u \in Threads, job'[u].pc \in ChunkPcs, NEW n \in MembersNext(job'[u].a), Sound(n)'
               PROVE  Count(Whole(n)', ask'[job'[u].a].msg)
                        = IF n \in LeftOf(job'[u]) THEN ask'[job'[u].a].next - 1 ELSE ask'[job'[u].a].next
  BY DEF AtWorkInv, Members, MembersNext, Count
<1>3. TypesInv' /\ ClientsInv'
  BY TypesStep, ClientsStep
<1>4. PICK a \in Askers : a = job'[u].a /\ ask'[a].to \in Targets
  <2>1. \A v \in Threads : job'[v].pc \in ChunkPcs => job'[v].a \in Askers
    <3>1. \A v \in Threads : JobIs(v, job'[v])
      BY <1>3 DEF TypesInv, JobsAre, JobIs
    <3>2. QED
      BY <3>1 DEF JobIs
  <2>2. ask'[job'[u].a].to \in Targets
    BY <1>2, <1>3 DEF ClientsInv, HasChunk
  <2>3. QED
    BY <1>2, <2>1, <2>2
<1>5. n \in Nodes /\ Sound(n)
  <2>1. PICK s \in Seq(Nodes) : s = ToList(ask'[a].to) /\ s # <<>>
    BY <1>4, ToListIs
  <2>2. n \in Nodes
    BY <1>2, <1>4, <2>1, TailIs DEF MembersNext
  <2>3. QED
    BY <1>2, <2>2, SoundBefore
<1>6. ASSUME job'[u] = job[u], ask'[a].to = ask[a].to, ask'[a].msg = ask[a].msg, ask'[a].next = ask[a].next,
             Count(Whole(n)', ask[a].msg) = Count(Whole(n), ask[a].msg)
      PROVE  Count(Whole(n)', ask'[a].msg) = IF n \in LeftOf(job'[u]) THEN ask'[a].next - 1 ELSE ask'[a].next
  <2>1. n \in Members(a) /\ a = job[u].a /\ job[u].pc \in ChunkPcs
    BY <1>2, <1>4, <1>6 DEF Members, MembersNext
  <2>2. Count(Whole(n), ask[a].msg) = IF n \in LeftOf(job[u]) THEN ask[a].next - 1 ELSE ask[a].next
    BY <1>1, <1>5, <2>1 DEF AtWorkInv
  <2>3. QED
    BY <1>6, <2>2
<1>7. ASSUME NEW t \in Threads, Works(t), u # t
      PROVE  Count(Whole(n)', ask'[a].msg) = IF n \in LeftOf(job'[u]) THEN ask'[a].next - 1 ELSE ask'[a].next
  <2>1. job'[u] = job[u] /\ job[t].pc \in ChunkPcs
    BY <1>7 DEF Works
  <2>2. a # job[t].a
    BY <1>2, <1>4, <1>7, <2>1, OnlyOne
  <2>3. ask'[a] = ask[a]
    BY <1>7, <2>2, WorksAsk
  <2>4. Count(Whole(n)', ask[a].msg) = Count(Whole(n), ask[a].msg)
    BY <1>2, <1>5, <1>7, <2>2, OthersCount
  <2>5. QED
    BY <1>6, <2>1, <2>3, <2>4
<1>8. ASSUME Works(u)
      PROVE  Count(Whole(n)', ask'[a].msg) = IF n \in LeftOf(job'[u]) THEN ask'[a].next - 1 ELSE ask'[a].next
  <2>1. "crashed" \notin ChunkPcs /\ Idle.pc \notin ChunkPcs
    BY DEF ChunkPcs, SetUpPcs, Idle
  <2>2. ~IsDone(u)
    <3>1. job[u].a \in Askers
      BY <1>8, WorksAsk
    <3>2. QED
      BY <1>2, <2>1, <3>1, DoneIs
  <2>3. PICK G \in SUBSET LeftOf(job[u]) :
            /\ IF n \in G THEN Added(n, u) ELSE Kept(n)
            /\ ask' = ask /\ job'[u].a = job[u].a /\ LeftOf(job'[u]) = LeftOf(job[u]) \ G
    BY <1>2, <1>5, <1>8, <2>1, <2>2 DEF Works
  <2>4. job[u].pc \in ChunkPcs /\ job[u].a = a /\ n \in Members(a) /\ ask[a].next \in Nat
    BY <1>2, <1>4, <1>8, <2>3, Types DEF Works, Members, MembersNext, Question
  <2>5. Count(Whole(n), ask[a].msg) = IF n \in LeftOf(job[u]) THEN ask[a].next - 1 ELSE ask[a].next
    BY <1>1, <1>5, <2>4 DEF AtWorkInv
  <2>6. Count(Whole(n)', ask[a].msg) = IF n \in G THEN Count(Whole(n), ask[a].msg) + 1 ELSE Count(Whole(n), ask[a].msg)
    BY <1>5, <2>3, <2>4, GivenCounts
  <2>7. CASE n \in G
    BY <2>3, <2>4, <2>5, <2>6, <2>7
  <2>8. CASE n \notin G
    BY <2>3, <2>5, <2>6, <2>8
  <2>9. QED
    BY <2>7, <2>8
<1>9. ASSUME AllKept PROVE Whole(n)' = Whole(n) /\ Count(Whole(n)', ask[a].msg) = Count(Whole(n), ask[a].msg)
  <2>1. Whole(n)' = Whole(n)
    BY <1>2, <1>5, <1>9 DEF AllKept, Kept
  <2>2. QED
    BY <2>1
<1>10. ASSUME NEW b \in Askers, NEW t \in Threads, Takes(t, b)
      PROVE  Count(Whole(n)', ask'[a].msg) = IF n \in LeftOf(job'[u]) THEN ask'[a].next - 1 ELSE ask'[a].next
  <2>1. PICK p : p = IF t \in Workers THEN "look" ELSE "other"
    OBVIOUS
  <2>2. PICK r : r = [pc |-> p, a |-> b, todo |-> ToList(ask[b].to), f |-> 0]
    OBVIOUS
  <2>3. Becomes(t, r) /\ ask' = ask /\ AllKept /\ Waiting(b) /\ r.a = b /\ r.pc # "activate" /\ r.todo = ToList(ask[b].to)
    BY <1>10, <2>1, <2>2 DEF Takes
  <2>4. job'[t] = r /\ \A v \in Threads \ {t} : job'[v] = job[v]
    BY <2>3, BecomesIs
  <2>5. CASE u # t
    BY <1>6, <1>9, <2>3, <2>4, <2>5
  <2>6. CASE u = t
    <3>1. a = b /\ LeftOf(job'[u]) = Members(a)
      BY <1>4, <2>3, <2>4, <2>6 DEF LeftOf, Members
    <3>2. n \in Members(a)
      BY <1>2, <1>4, <2>3 DEF Members, MembersNext
    <3>3. Count(Whole(n), ask[a].msg) = ask[a].next - 1
      BY <1>1, <1>5, <2>3, <3>1, <3>2 DEF WaitingInv
    <3>4. QED
      BY <1>9, <2>3, <3>1, <3>2, <3>3
  <2>7. QED
    BY <2>5, <2>6
<1>11. ASSUME Stands
       PROVE  Count(Whole(n)', ask'[a].msg) = IF n \in LeftOf(job'[u]) THEN ask'[a].next - 1 ELSE ask'[a].next
  <2>1. /\ AllKept /\ ask'[a].to = ask[a].to /\ ask'[a].msg = ask[a].msg /\ ask'[a].next = ask[a].next
        /\ job'[u] = job[u]
    BY <1>2, <1>11 DEF Stands
  <2>2. Count(Whole(n)', ask[a].msg) = Count(Whole(n), ask[a].msg)
    BY <1>9, <2>1
  <2>3. QED
    BY <1>6, <2>1, <2>2
<1>12. ASSUME NEW b \in Askers, NEW to \in Targets, NEW len \in Lengths, Ask(b, to, len), AllKept
       PROVE  Count(Whole(n)', ask'[a].msg) = IF n \in LeftOf(job'[u]) THEN ask'[a].next - 1 ELSE ask'[a].next
  <2>1. job' = job /\ ask[b].at = "idle" /\ \A c \in Askers \ {b} : ask'[c] = ask[c]
    BY <1>12, Types DEF Ask
  <2>2. a # b
    BY <1>2, <1>4, <2>1 DEF ClientsInv
  <2>3. ask'[a] = ask[a] /\ job'[u] = job[u]
    BY <2>1, <2>2
  <2>4. Count(Whole(n)', ask[a].msg) = Count(Whole(n), ask[a].msg)
    BY <1>9, <1>12
  <2>5. QED
    BY <1>6, <2>3, <2>4
<1>13. Count(Whole(n)', ask'[a].msg) = IF n \in LeftOf(job'[u]) THEN ask'[a].next - 1 ELSE ask'[a].next
  BY <1>1, <1>7, <1>8, <1>10, <1>11, <1>12, StepIs
<1>14. QED
  BY <1>4, <1>13

\* What is said of the connections and of whose turn it is holds at the start,
LEMMA TurnsInit ==
  ASSUME Init
  PROVE  ConnInv /\ TurnsInv
<1>1. /\ hung = {} /\ route = [n \in Nodes |-> 0] /\ table = <<>> /\ asked = 0
      /\ job = [t \in Threads |-> Idle] /\ got = [n \in Nodes |-> <<>>]
  BY DEF Init
<1>2. PICK q : q = [at |-> "away", to |-> None, msg |-> 0, next |-> 1, len |-> 0]
  OBVIOUS
<1>3. ask = [a \in Askers |-> q] /\ q.at = "away" /\ q.msg = 0
  BY <1>2 DEF Init
<1>4. \A t \in Threads : job[t].pc = "loop" /\ job[t].a = None
  BY <1>1 DEF Idle
<1>5. DOMAIN table = {}
  BY <1>1
<1>6. ConnInv
  <2>1. \A n \in Nodes : RouteOk(n) /\ EntryOk(n)
    BY <1>1, <1>5 DEF RouteOk, EntryOk
  <2>2. \A n \in Nodes, t \in Threads : SetUpOk(t, n) /\ ReadyOk(t, n)
    BY <1>4 DEF SetUpOk, ReadyOk, SetUpPcs
  <2>3. QED
    BY <1>1, <2>1, <2>2 DEF ConnInv, HungInv, Conn
<1>7. \A n \in Nodes : Whole(n) = <<>>
  <2>1. \A n \in Nodes : QueueIn(table, n) = <<>>
    BY <1>5 DEF QueueIn
  <2>2. QED
    BY <1>1, <2>1 DEF Whole
<1>8. OrderInv
  BY <1>7, CountEmpty DEF OrderInv
<1>9. NumbersInv
  BY <1>1, <1>3 DEF NumbersInv
<1>10. HandsInv /\ TodoInv /\ AtWorkInv
  BY <1>4 DEF HandsInv, TodoInv, AtWorkInv, ChunkPcs, SetUpPcs
<1>11. WaitingInv
  BY <1>3 DEF WaitingInv, Waiting
<1>12. QED
  BY <1>6, <1>8, <1>9, <1>10, <1>11 DEF TurnsInv

\* and every step keeps it.
LEMMA TurnsStep ==
  ASSUME OncePerGroup, IInv, ConnInv, TurnsInv, [Next]_vars
  PROVE  ConnInv' /\ TurnsInv'
<1>1. TypesInv /\ ClientsInv /\ SocketsInv /\ RouteInv /\ HandsInv /\ TodoInv
  BY DEF IInv, BasicInv, TurnsInv
<1>2. CASE Next
  <2>1. ConnInv'
    BY <1>1, <1>2, ConnStep
  <2>2. HandsInv' /\ TodoInv' /\ NumbersInv'
    BY <1>1, <1>2, HandsStep, TodoStep, NumbersStep
  <2>3. OrderInv' /\ WaitingInv' /\ AtWorkInv'
    BY <1>1, <1>2, OrderStep, WaitingStep, AtWorkStep
  <2>4. QED
    BY <2>1, <2>2, <2>3 DEF TurnsInv
<1>3. CASE UNCHANGED vars
  <2>1. /\ open' = open /\ listed' = listed /\ hung' = hung /\ ask' = ask
        /\ asked' = asked /\ route' = route /\ table' = table /\ job' = job
        /\ got' = got /\ flaws' = flaws
    BY <1>3 DEF vars
  <2>2. ConnInv'
    BY <2>1 DEF ConnInv, HungInv, Conn, RouteOk, EntryOk, SetUpOk, ReadyOk, Sound, Node
  <2>3. HandsInv' /\ TodoInv' /\ NumbersInv'
    BY <2>1 DEF TurnsInv, HandsInv, TodoInv, NumbersInv, Members
  <2>4. \A n \in Nodes : Whole(n)' = Whole(n) /\ (Sound(n)' <=> Sound(n))
    BY <2>1 DEF Whole, QueueIn, Sound
  <2>5. OrderInv /\ WaitingInv /\ AtWorkInv
    BY DEF TurnsInv
  <2>6. OrderInv'
    <3>1. \A n \in Nodes : Sound(n)' => InOrder(Whole(n)') /\ \A m \in asked' + 1 .. MaxAsked : Count(Whole(n)', m) = 0
      BY <2>1, <2>4, <2>5 DEF OrderInv
    <3>2. QED
      BY <3>1 DEF OrderInv, InOrder, Count
  <2>7. \A a \in Askers : (WaitingNext(a) => Waiting(a)) /\ MembersNext(a) = Members(a)
    BY <2>1 DEF WaitingNext, Waiting, MembersNext, Members
  <2>8. WaitingInv'
    <3>1. \A a \in Askers : WaitingNext(a) =>
             \A n \in MembersNext(a) : Sound(n)' => Count(Whole(n)', ask'[a].msg) = ask'[a].next - 1
      <4>1. ASSUME NEW a \in Askers, WaitingNext(a), NEW n \in MembersNext(a), Sound(n)'
            PROVE  Count(Whole(n)', ask'[a].msg) = ask'[a].next - 1
        <5>1. Waiting(a) /\ n \in Members(a) /\ Whole(n)' = Whole(n) /\ Sound(n)
          BY <2>1, <2>7, <4>1 DEF Whole, QueueIn, Sound
        <5>2. Count(Whole(n), ask[a].msg) = ask[a].next - 1
          BY <2>5, <5>1 DEF WaitingInv
        <5>3. QED
          BY <2>1, <5>1, <5>2
      <4>2. QED
        BY <4>1
    <3>2. QED
      BY <3>1 DEF WaitingInv, Waiting, WaitingNext, Members, MembersNext, Count
  <2>9. AtWorkInv'
    <3>1. ASSUME NEW u \in Threads, job'[u].pc \in ChunkPcs, NEW n \in MembersNext(job'[u].a), Sound(n)'
          PROVE  Count(Whole(n)', ask'[job'[u].a].msg)
                   = IF n \in LeftOf(job'[u]) THEN ask'[job'[u].a].next - 1 ELSE ask'[job'[u].a].next
      <4>1. job'[u] = job[u] /\ Whole(n)' = Whole(n) /\ Sound(n) /\ n \in Members(job[u].a)
        BY <2>1, <3>1 DEF Whole, QueueIn, Sound, Members, MembersNext
      <4>2. Count(Whole(n), ask[job[u].a].msg) = IF n \in LeftOf(job[u]) THEN ask[job[u].a].next - 1 ELSE ask[job[u].a].next
        BY <2>5, <3>1, <4>1 DEF AtWorkInv
      <4>3. QED
        BY <2>1, <4>1, <4>2
    <3>2. QED
      BY <3>1 DEF AtWorkInv, Members, MembersNext, Count
  <2>10. QED
    BY <2>2, <2>3, <2>6, <2>8, <2>9 DEF TurnsInv
<1>4. QED
  BY <1>2, <1>3

\* So what a node was sent is in order: it is the beginning of what is.
LEMMA WholeIs ==
  ASSUME IInv, ConnInv, TurnsInv
  PROVE  MessagesWhole
<1>1. SUFFICES ASSUME NEW n \in Nodes, Sound(n), NEW i \in DOMAIN got[n]
               PROVE  Cardinality({j \in 1 .. i : got[n][j][2] = got[n][i][2]}) = got[n][i][3]
  BY DEF MessagesWhole, Sound
<1>2. TypesInv /\ EntryOk(n) /\ InOrder(Whole(n))
  BY <1>1 DEF IInv, BasicInv, ConnInv, Conn, TurnsInv, OrderInv
<1>3. PICK s \in Seq(Items) : s = got[n]
  BY <1>2, EntryOf
<1>4. PICK q \in Seq(Items) : q = QueueIn(table, n)
  BY <1>2, EntryOf
<1>5. InOrder(s)
  BY <1>2, <1>3, <1>4, OrderBefore DEF Whole
<1>6. QED
  BY <1>1, <1>3, <1>5 DEF InOrder, UpTo

\* A node for which nothing went wrong gets every message from its first chunk on, in order and
\* without a gap, if no group has a node twice.
THEOREM MessagesCorrect ==
  ASSUME OncePerGroup
  PROVE  Spec => []MessagesWhole
<1>1. Init => ConnInv /\ TurnsInv
  BY TurnsInit
<1>2. IInv /\ (ConnInv /\ TurnsInv) /\ [Next]_vars => (ConnInv /\ TurnsInv)'
  BY TurnsStep
<1>3. IInv /\ (ConnInv /\ TurnsInv) => MessagesWhole
  BY WholeIs
<1>4. QED
  BY <1>1, <1>2, <1>3, Inductive, PTL DEF Spec
=============================================================================
