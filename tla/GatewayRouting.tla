------------------------- MODULE GatewayRouting -------------------------
(***************************************************************************)
(* An edge gateway passes diagnostic messages on to the nodes behind it    *)
(* (ne_doip_server_manager.c, ne_doip_data_queue.c).                       *)
(*                                                                         *)
(* The first chunk of a message is handled by the thread that has read it. *)
(* If the gateway has no connection to the node, the thread opens one,     *)
(* puts the chunk into the connection's queue and asks the node for        *)
(* routing activation; the net thread sends what is queued when the answer *)
(* comes. Later chunks are handled by workers, which send or queue them.   *)
(* Answers of a node go to the socket number kept in the connection.       *)
(*                                                                         *)
(* Two locks are held over several steps here: node_ipc_list_sync by the   *)
(* net thread, equip_ipc_list_sync by whoever handles a chunk of local     *)
(* test equipment. equip_tcp_list_sync is held within a step only.         *)
(***************************************************************************)
EXTENDS Integers, Sequences, FiniteSets

CONSTANTS
    Testers,      \* external test equipment: TCP connections, active already
    Equips,       \* local test equipment: Unix sockets
    Nodes,        \* routing_list: the nodes behind the gateway
    Group,        \* func_group_list: a sequence of nodes, the members of the one group
    Targets,      \* what messages are sent to: nodes, or "group"
    Workers,
    None,
    MaxFd,        \* bound: socket numbers
    Lengths,      \* the numbers of chunks a message may have
    MaxAsked,     \* bound: messages of all clients
    Reliable      \* whether nodes keep their connections and grant activation

Askers  == Testers \cup Equips
Threads == {"net", "ipc"} \cup Workers
Fds     == 1 .. MaxFd
NoQueue == <<None>>     \* queue_manager before ne_doip_queue_init
Chunks  == UNION {1 .. l : l \in Lengths}
Items   == Askers \X (1 .. MaxAsked) \X Chunks
Request == <<"activate">>

ASSUME GatewayAssumption ==
    /\ Testers \cap Equips = {} /\ Askers \cap Nodes = {}
    /\ None \notin Askers \cup Nodes \cup Threads \cup Items
    /\ Workers \cap {"net", "ipc"} = {} /\ Group \in Seq(Nodes) /\ ("group" \in Targets => Group # <<>>)
    /\ Targets \subseteq Nodes \cup {"group"} /\ "group" \notin Nodes
    /\ MaxFd \in Nat /\ Lengths \subseteq Nat \ {0} /\ MaxAsked \in Nat /\ Reliable \in BOOLEAN

VARIABLES
    open,    \* who is behind a socket number
    listed,  \* numbers whose client is in test_client_list and in the selector
    hung,    \* numbers whose node has closed the connection
    inbox,   \* what the node behind a number has not answered yet
    fd,      \* the number of a client
    ask,     \* the message of a client that is being handled
    asked,   \* how many messages there have been
    route,   \* routing_table->fd
    table,   \* equip_tcp_list, by places; history: opener, the client a connection was opened for
    lockI, lockE,   \* the holders of node_ipc_list_sync and equip_ipc_list_sync
    job,     \* what the threads do
    got,     \* history: the chunks a node was sent, while nothing was wrong
    flaws,   \* history: what has gone wrong for a node
    astray   \* history: answers to a chunk of one client that another one got

vars == <<open, listed, hung, inbox, fd, ask, asked, route, table, lockI, lockE, job, got, flaws, astray>>
sockets == <<open, listed, hung, inbox>>
account == <<got, flaws>>
history == <<got, flaws, astray>>

Flaws == {"stranded", "hurried", "twice", "cut", "refused", "broken", "dropped", "misled"}
Idle  == [pc |-> "loop", a |-> None, todo |-> <<>>, f |-> 0]

Entry == [fd : Fds, node : Nodes \cup {None}, source : 0 .. MaxFd, opener : Askers \cup {None},
          step : {1, 2}, queue : {NoQueue} \cup Seq(Items)]
Question == [at : {"away", "idle", "first", "rest", "gone"}, to : Targets \cup {None},
             msg : 0 .. MaxAsked, next : Nat, len : Lengths \cup {0}]

\* The variables stay in their types, and an asker never passes the end of its message.
TypeOK ==
    /\ open \in [Fds -> Askers \cup Nodes \cup {None}] /\ listed \subseteq Fds /\ hung \subseteq Fds
    /\ inbox \in [Fds -> Seq(Items \cup {Request})]
    /\ fd \in [Askers -> 0 .. MaxFd] /\ asked \in 0 .. MaxAsked
    /\ ask \in [Askers -> Question] /\ \A a \in Askers : ask[a].next \in 1 .. ask[a].len + 1
    /\ route \in [Nodes -> 0 .. MaxFd]
    /\ DOMAIN table \subseteq Nat \ {0} /\ table \in [DOMAIN table -> Entry]
    /\ lockI \in {None, "net"} /\ lockE \in {None, "ipc"} \cup Workers
    /\ \A t \in Threads :
           /\ job[t].pc \in {"loop", "other", "send", "cache", "list", "route", "add", "fill", "activate",
                             "look", "direct", "store", "remove", "leave", "drop", "crashed"}
           /\ job[t].a \in Askers \cup {None} /\ job[t].f \in 0 .. MaxFd
    /\ got \in [Nodes -> Seq(Items)] /\ flaws \in [Nodes -> SUBSET Flaws]
    /\ astray \subseteq (Askers \X Askers \X BOOLEAN)

Init ==
    /\ open = [f \in Fds |-> None] /\ listed = {} /\ hung = {} /\ inbox = [f \in Fds |-> <<>>]
    /\ fd = [a \in Askers |-> 0]
    /\ ask = [a \in Askers |-> [at |-> "away", to |-> None, msg |-> 0, next |-> 1, len |-> 0]]
    /\ asked = 0
    /\ route = [n \in Nodes |-> 0] /\ table = <<>>
    /\ lockI = None /\ lockE = None
    /\ job = [t \in Threads |-> Idle]
    /\ got = [n \in Nodes |-> <<>>] /\ flaws = [n \in Nodes |-> {}]
    /\ astray = {}

-----------------------------------------------------------------------------
\* Helpers

Reader(a) == IF a \in Testers THEN "net" ELSE "ipc"
ToList(to) == IF to = "group" THEN Group ELSE <<to>>
Item(a)  == <<a, ask[a].msg, ask[a].next>>
Node(t)  == Head(job[t].todo)
Goto(t, pc) == job' = [job EXCEPT ![t].pc = pc]
GotoWith(t, pc, f) == job' = [job EXCEPT ![t].pc = pc, ![t].f = f]

\* something has gone wrong for some nodes: what they get from now on is of no interest
Flaw(N, why) ==
    /\ flaws' = [n \in Nodes |-> IF n \in N THEN flaws[n] \cup {why} ELSE flaws[n]]
    /\ got' = [n \in Nodes |-> IF n \in N THEN <<>> ELSE got[n]]

\* the free numbers; socket and accept take the lowest
FreeFds == {f \in Fds : open[f] = None}
LowestFree == CHOOSE f \in FreeFds : \A g \in FreeFds : f <= g

\* a lock is free for a thread if nobody else has it: both are recursive
FreeI(t) == lockI \in {None, t}
FreeE(t) == lockE \in {None, t}

\* test_list_sync: the net thread keeps it from closing a client to removing its entry,
\* ne_doip_server_disconnect gives it back before
FreeX == job["net"].pc # "remove"

\* the list is a function on places, a new entry comes behind the others; First of all the
\* entries for which something holds is found, at place 0 if there is none
FirstOf(S) == IF S = {} THEN 0 ELSE CHOOSE i \in S : \A j \in S : i <= j
ByFd(f)   == FirstOf({i \in DOMAIN table : table[i].fd = f})
ByNode(n) == FirstOf({i \in DOMAIN table : table[i].node = n})
Behind    == CHOOSE i \in {1} \cup {j + 1 : j \in DOMAIN table} : \A j \in DOMAIN table : j < i

\* threads that have listed the connection and not asked for its activation yet
SettingUp(f) == {t \in Threads : job[t].f = f /\ job[t].pc \in {"route", "add", "fill", "activate"}}

\* the history of node n with some more items
After(n, items) == IF flaws[n] = {} THEN [got EXCEPT ![n] = @ \o items] ELSE got

\* A write to a socket: a node that has closed does not get it; what is written to a number
\* nobody has, or a client has by now, is lost for node n; another node that has it by now
\* gets what is not for it
Written(f, n, item) ==
    IF f # 0 /\ open[f] \in Nodes /\ f \notin hung
    THEN /\ inbox' = [inbox EXCEPT ![f] = Append(@, item)]
         /\ IF open[f] # n THEN Flaw({n, open[f]}, "misled")
            ELSE got' = After(n, IF item = Request THEN <<>> ELSE <<item>>) /\ UNCHANGED flaws
    ELSE Flaw({n}, "broken") /\ UNCHANGED inbox

\* Thread t has handled its chunk for one node: the next node, or the end of the chunk,
\* when the locks are released
KeptLocked(lock, t) == lock
Released(lock, t) == IF lock = t THEN None ELSE lock
OneMore(a) == ask[a].next > ask[a].len
LastOf(a) == ask[a].next >= ask[a].len

Next1(t) ==
    LET a == job[t].a
    IN  IF Len(job[t].todo) > 1
        THEN /\ job' = [job EXCEPT ![t].pc = IF t \in Workers THEN "look" ELSE "other", ![t].todo = Tail(@)]
             /\ UNCHANGED <<ask, lockI, lockE>>
        ELSE /\ job' = [job EXCEPT ![t] = Idle]
             /\ ask' = IF ask[a].at = "gone" THEN ask
                       ELSE [ask EXCEPT ![a].next = @ + 1, ![a].at = IF LastOf(a) THEN "idle" ELSE "rest"]
             /\ lockI' = Released(lockI, t)
             /\ lockE' = Released(lockE, t)

-----------------------------------------------------------------------------
\* Clients

\* a tester or local test equipment is accepted (each once); a tester is activated
Connect(a) ==
    /\ ask[a].at = "away" /\ job[Reader(a)] = Idle /\ FreeFds # {}
    /\ open' = [open EXCEPT ![LowestFree] = a] /\ fd' = [fd EXCEPT ![a] = LowestFree]
    /\ ask' = [ask EXCEPT ![a].at = "idle"]
    /\ UNCHANGED <<listed, hung, inbox, asked, route, table, lockI, lockE, job, history>>

\* a client sends the next message when the last chunk of the one before was handled
Ask(a, to, len) ==
    /\ ask[a].at = "idle" /\ asked < MaxAsked
    /\ asked' = asked + 1
    /\ ask' = [ask EXCEPT ![a] = [at |-> "first", to |-> to, msg |-> asked + 1, next |-> 1, len |-> len]]
    /\ UNCHANGED <<sockets, fd, route, table, lockI, lockE, job, history>>

\* ne_doip_client_destroy for a tester, with its entry in node_tcp_list
TesterLeaves(a) ==
    /\ a \in Testers /\ ask[a].at \in {"idle", "first", "rest"} /\ job["net"] = Idle
    /\ open' = [open EXCEPT ![fd[a]] = None]
    /\ ask' = [ask EXCEPT ![a].at = "gone"]
    /\ UNCHANGED <<listed, hung, inbox, fd, asked, route, table, lockI, lockE, job, history>>

\* ne_doip_client_destroy for local test equipment: its socket is closed,
EquipLeaves(a) ==
    /\ a \in Equips /\ ask[a].at \in {"idle", "first", "rest"} /\ job["ipc"] = Idle
    /\ open' = [open EXCEPT ![fd[a]] = None]
    /\ ask' = [ask EXCEPT ![a].at = "gone"]
    /\ job' = [job EXCEPT !["ipc"] = [Idle EXCEPT !.pc = "leave", !.a = a]]
    /\ UNCHANGED <<listed, hung, inbox, fd, asked, route, table, lockI, lockE, history>>

\* the connections opened for it are noted,
ForgetsFirst(a) == {i \in DOMAIN table : table[i].source = fd[a] /\ \E j \in DOMAIN table : j < i /\ table[j].source = fd[a]}
SourceOf(a) == {i \in DOMAIN table : table[i].source = fd[a]}

Leave ==
    LET a == job["ipc"].a IN
    /\ job["ipc"].pc = "leave" /\ FreeI("ipc") /\ FreeE("ipc")
    /\ lockE' = "ipc"
    /\ job' = [job EXCEPT !["ipc"] = [@ EXCEPT !.pc = "drop", !.todo = [i \in SourceOf(a) |-> table[i].fd]]]
    /\ UNCHANGED <<sockets, fd, ask, asked, route, table, lockI, history>>

\* and closed one by one: ne_doip_server_disconnect finds the client by the number
Drop ==
    LET todo == job["ipc"].todo
        i == FirstOf(DOMAIN todo)
        f == todo[i]
        rest == [j \in DOMAIN todo \ {i} |-> todo[j]]
    IN
    /\ job["ipc"].pc = "drop"
    /\ \/ /\ i = 0
          /\ lockE' = None /\ job' = [job EXCEPT !["ipc"] = Idle]
          /\ UNCHANGED <<sockets, account>>
       \/ /\ i # 0 /\ FreeX /\ f \notin listed
          /\ job' = [job EXCEPT !["ipc"].todo = rest]
          /\ UNCHANGED <<sockets, lockE, account>>
       \/ /\ i # 0 /\ FreeX /\ f \in listed
          /\ open' = [open EXCEPT ![f] = None] /\ inbox' = [inbox EXCEPT ![f] = <<>>]
          /\ listed' = listed \ {f} /\ hung' = hung \ {f}
          /\ job' = [job EXCEPT !["ipc"] = [@ EXCEPT !.pc = "remove", !.f = f, !.todo = rest]]
          /\ Flaw({open[f]}, "broken")
          /\ UNCHANGED lockE
    /\ UNCHANGED <<fd, ask, asked, route, table, lockI, astray>>

-----------------------------------------------------------------------------
\* The first chunk of a message

\* ne_doip_unpack_diagnostic on the net thread, which holds node_ipc_list_sync over
\* the whole handling of a physical address;
\* ne_doip_pack_diagnostic_from_internal_equip on the ipc thread, which holds
\* equip_ipc_list_sync
First(a) ==
    LET t == Reader(a) IN
    /\ ask[a].at = "first" /\ job[t] = Idle
    /\ IF a \in Testers THEN lockI' = (IF ask[a].to \in Nodes THEN t ELSE lockI) /\ UNCHANGED lockE
       ELSE FreeE(t) /\ lockE' = t /\ UNCHANGED lockI
    /\ job' = [job EXCEPT ![t] = [pc |-> "other", a |-> a, todo |-> ToList(ask[a].to), f |-> 0]]
    /\ UNCHANGED <<sockets, fd, ask, asked, route, table, history>>

\* ne_doip_sub_diagnostic_to_other: with a connection to the node the step of its entry
\* becomes 2, whatever it was, and whoever has the number now; another thread may be about to
\* open one; for local equipment a node is looked up before
Making(n) == {u \in {"net", "ipc"} : job[u].pc \in {"cache", "list", "route"} /\ Node(u) = n}

Other(t) ==
    LET n == Node(t)
        i == ByFd(route[n])
    IN
    /\ job[t].pc = "other"
    /\ ask[job[t].a].to \in Nodes => FreeI(t)
    /\ IF route[n] > 0
       THEN /\ table' = IF i = 0 THEN table ELSE [table EXCEPT ![i].step = 2]
            /\ IF i = 0 \/ table[i].step # 2 THEN Flaw({n, open[route[n]]}, "hurried") ELSE UNCHANGED account
            /\ GotoWith(t, "send", route[n])
       ELSE /\ Goto(t, "cache") /\ UNCHANGED table
            /\ IF Making(n) # {} THEN Flaw({n}, "twice") ELSE UNCHANGED account
    /\ UNCHANGED <<sockets, fd, ask, asked, route, lockI, lockE, astray>>

\* the entity's address is looked up, then the chunk is sent
Send(t) ==
    /\ job[t].pc = "send" /\ FreeI(t)
    /\ Written(job[t].f, Node(t), Item(job[t].a))
    /\ Next1(t)
    /\ UNCHANGED <<open, listed, hung, fd, asked, route, table, astray>>

\* without a connection the entity's address is looked up and one is opened: socket and
\* connect; if that fails, the client gets a negative acknowledge
Cache(t) ==
    /\ job[t].pc = "cache" /\ FreeI(t) /\ FreeFds # {}
    /\ open' = [open EXCEPT ![LowestFree] = Node(t)]
    /\ GotoWith(t, "list", LowestFree)
    /\ UNCHANGED <<listed, hung, inbox, fd, ask, asked, route, table, lockI, lockE, history>>

Unreachable(t) ==
    /\ job[t].pc = "cache" /\ FreeI(t) /\ (Reliable => FreeFds = {})
    /\ Flaw({Node(t)}, "dropped")
    /\ Next1(t)
    /\ UNCHANGED <<sockets, fd, asked, route, table, astray>>

\* the end of ne_doip_test_tcp_create: the client is listed and its source added
List(t) ==
    /\ job[t].pc = "list" /\ FreeX
    /\ listed' = listed \cup {job[t].f}
    /\ Goto(t, "route")
    /\ UNCHANGED <<open, hung, inbox, fd, ask, asked, route, table, lockI, lockE, history>>

\* back in ne_doip_sub_diagnostic_to_other, step by step
Routed(n, f) == [route EXCEPT ![n] = f]

SetRoute(t) ==
    /\ job[t].pc = "route"
    /\ route' = Routed(Node(t), job[t].f)
    /\ Goto(t, "add")
    /\ UNCHANGED <<sockets, fd, ask, asked, table, lockI, lockE, history>>

\* equip_ipc_list_sync is taken, then ne_doip_add_connection_table
NewEntry(f) == [fd |-> f, node |-> None, source |-> 0, opener |-> None, step |-> 1, queue |-> NoQueue]

AddEntry(t) ==
    /\ job[t].pc = "add" /\ FreeE(t)
    /\ table' = [i \in DOMAIN table \cup {Behind} |-> IF i = Behind THEN NewEntry(job[t].f) ELSE table[i]]
    /\ Goto(t, "fill")
    /\ UNCHANGED <<sockets, fd, ask, asked, route, lockI, lockE, history>>

\* the queue is made and gets the chunk; without the entry a null pointer is used, and if the
\* number finds an older entry that is not removed yet, its source, node and queue are lost
FirstQueued(a) == <<Item(a)>>

Fill(t) ==
    LET i == ByFd(job[t].f)
        a == job[t].a
    IN
    /\ job[t].pc = "fill"
    /\ IF i = 0 THEN Goto(t, "crashed") /\ UNCHANGED <<table, account>>
       ELSE /\ table' = [table EXCEPT ![i] = [@ EXCEPT !.source = fd[a], !.opener = a, !.node = Node(t), !.queue = FirstQueued(a)]]
            /\ IF table[i] # NewEntry(job[t].f) THEN Flaw({Node(t), table[i].node}, "misled") ELSE UNCHANGED account
            /\ Goto(t, "activate")
    /\ UNCHANGED <<sockets, fd, ask, asked, route, lockI, lockE, astray>>

Activate(t) ==
    /\ job[t].pc = "activate"
    /\ Written(job[t].f, Node(t), Request)
    /\ Next1(t)
    /\ UNCHANGED <<open, listed, hung, fd, asked, route, table, astray>>

-----------------------------------------------------------------------------
\* Later chunks: ne_doip_thread_callback_func. Chunks of a client are handled one
\* after another.

Later(w, a) ==
    /\ ask[a].at = "rest" /\ job[w] = Idle /\ \A v \in Workers : job[v].a # a
    /\ IF a \in Equips THEN FreeE(w) /\ lockE' = w ELSE UNCHANGED lockE
    /\ job' = [job EXCEPT ![w] = [pc |-> "look", a |-> a, todo |-> ToList(ask[a].to), f |-> 0]]
    /\ UNCHANGED <<sockets, fd, ask, asked, route, table, lockI, history>>

\* ne_doip_egw_phys_routing finds the entry by the address, ne_doip_egw_func_routing by
\* the number in the routing table; the step decides
Found(w) == IF ask[job[w].a].to = "group" THEN ByFd(route[Node(w)]) ELSE ByNode(Node(w))

Look(w) ==
    LET i == Found(w) IN
    /\ job[w].pc = "look"
    /\ ask[job[w].a].to \in Nodes => FreeI(w)
    /\ \/ /\ i = 0
          /\ Flaw({Node(w)}, "dropped") /\ Next1(w)
       \/ /\ i # 0
          /\ GotoWith(w, IF table[i].step = 2 THEN "direct" ELSE "store", table[i].fd)
          /\ UNCHANGED <<account, ask, lockI, lockE>>
    /\ UNCHANGED <<sockets, fd, asked, route, table, astray>>

\* ne_doip_egw_func_routing reads the number again
Number(w) == IF ask[job[w].a].to = "group" THEN route[Node(w)] ELSE job[w].f

Direct(w) ==
    /\ job[w].pc = "direct"
    /\ Written(Number(w), Node(w), Item(job[w].a))
    /\ Next1(w)
    /\ UNCHANGED <<open, listed, hung, fd, asked, route, table, astray>>

\* ne_doip_egw_store_routing, ne_doip_inser_queue
InsertedInFront(q, x) == <<x>> \o q
Inserted(q, x) == Append(q, x)

Store(w) ==
    LET i == ByFd(Number(w)) IN
    /\ job[w].pc = "store"
    /\ IF i = 0 \/ (i # 0 /\ table[i].queue = NoQueue)
       THEN Flaw({Node(w)}, "dropped") /\ UNCHANGED table
       ELSE /\ table' = [table EXCEPT ![i].queue = Inserted(@, Item(job[w].a))]
            /\ CASE table[i].node # Node(w) -> Flaw({Node(w), table[i].node}, "misled")
                 [] table[i].node = Node(w) /\ table[i].step = 2 -> Flaw({Node(w)}, "stranded")
                 [] OTHER -> UNCHANGED account
    /\ Next1(w)
    /\ UNCHANGED <<sockets, fd, asked, route, astray>>

-----------------------------------------------------------------------------
\* What comes from the nodes: the net thread reads it

\* The node closes the connection.
Hang(f) ==
    /\ ~Reliable /\ open[f] \in Nodes /\ f \notin hung
    /\ hung' = hung \cup {f} /\ inbox' = [inbox EXCEPT ![f] = <<>>]
    /\ Flaw({open[f]}, "broken")
    /\ UNCHANGED <<open, listed, fd, ask, asked, route, table, lockI, lockE, job, astray>>

\* ne_doip_client_destroy of the connection,
CloseTest(f) ==
    /\ f \in hung \cap listed /\ job["net"] = Idle /\ FreeX
    /\ open' = [open EXCEPT ![f] = None]
    /\ listed' = listed \ {f} /\ hung' = hung \ {f}
    /\ GotoWith("net", "remove", f)
    /\ UNCHANGED <<inbox, fd, ask, asked, route, table, lockI, lockE, got, flaws, astray>>

\* ne_doip_remove_connection_table: every entry with the number goes, and if there
\* was one, every route to it. A connection that is being set up with the number, because
\* it was closed or the number is in use again, is cut off.
StillRouted(f) == route
Unrouted(f) == [n \in Nodes |-> IF route[n] = f /\ ByFd(f) # 0 THEN 0 ELSE route[n]]

RemoveEntry(t) ==
    LET f == job[t].f IN
    /\ job[t].pc = "remove"
    /\ table' = [i \in {j \in DOMAIN table : table[j].fd # f} |-> table[i]]
    /\ route' = Unrouted(f)
    /\ Flaw({Node(u) : u \in SettingUp(f)}, "cut")
    /\ IF t = "ipc" THEN Goto(t, "drop") ELSE job' = [job EXCEPT ![t] = Idle]
    /\ UNCHANGED <<sockets, fd, ask, asked, lockI, lockE, astray>>

\* ne_doip_unpack_routing_activation_res: the queue is sent or cleared
AllButFirst(q) == Tail(q)
Unsent(q) == <<>>

Activated(f, granted) ==
    LET i == ByFd(f) IN
    /\ f \in listed \ hung /\ job["net"] = Idle
    /\ inbox[f] # <<>> /\ Head(inbox[f]) = Request
    /\ Reliable => granted
    /\ CASE i = 0 ->
              inbox' = [inbox EXCEPT ![f] = Tail(@)] /\ UNCHANGED <<table, got, flaws, job>>
         [] i # 0 /\ table[i].queue = NoQueue ->
              inbox' = [inbox EXCEPT ![f] = Tail(@)] /\ Goto("net", "crashed") /\ UNCHANGED <<table, got, flaws>>
         [] i # 0 /\ table[i].queue # NoQueue /\ granted ->
              /\ inbox' = [inbox EXCEPT ![f] = Tail(@) \o table[i].queue]
              /\ IF table[i].node # open[f] THEN Flaw({open[f], table[i].node}, "misled")
                 ELSE got' = After(open[f], table[i].queue) /\ UNCHANGED flaws
              /\ table' = [table EXCEPT ![i] = [@ EXCEPT !.queue = Unsent(@), !.step = 2]]
              /\ UNCHANGED job
         [] OTHER ->
              /\ inbox' = [inbox EXCEPT ![f] = Tail(@)]
              /\ table' = [table EXCEPT ![i].queue = <<>>]
              /\ Flaw({open[f]}, "refused") /\ UNCHANGED job
    /\ UNCHANGED <<open, listed, hung, fd, ask, asked, route, lockI, lockE, astray>>

\* An answer: ne_doip_unpack_diagnostic, ne_doip_unpack_daig_positive_ack and
\* ne_doip_unpack_daig_negative_ack pass it on to the client that has the number which
\* the entry keeps as its source.
Source(i) == table[i].source

Answer(f) ==
    LET i == ByFd(f)
        a == Head(inbox[f])[1]
        b == IF i = 0 \/ Source(i) = 0 THEN None ELSE open[Source(i)]
    IN
    /\ f \in listed \ hung /\ job["net"] = Idle /\ FreeE("net")
    /\ inbox[f] # <<>> /\ Head(inbox[f]) # Request
    /\ inbox' = [inbox EXCEPT ![f] = Tail(@)]
    /\ astray' = IF b \in Askers \ {a} THEN astray \cup {<<a, b, table[i].opener = a /\ job["ipc"].a # a>>} ELSE astray
    /\ UNCHANGED <<open, listed, hung, fd, ask, asked, route, table, lockI, lockE, job, got, flaws>>

-----------------------------------------------------------------------------

ThreadStep(t) ==
    \/ Other(t) \/ Send(t) \/ Cache(t) \/ Unreachable(t) \/ List(t) \/ SetRoute(t)
    \/ AddEntry(t) \/ Fill(t) \/ Activate(t) \/ RemoveEntry(t)
    \/ t = "ipc" /\ (Leave \/ Drop)
    \/ t \in Workers /\ (Look(t) \/ Direct(t) \/ Store(t))

Next ==
    \/ \E a \in Askers : Connect(a) \/ First(a) \/ TesterLeaves(a) \/ EquipLeaves(a)
    \/ \E a \in Askers, to \in Targets, len \in Lengths : Ask(a, to, len)
    \/ \E w \in Workers, a \in Askers : Later(w, a)
    \/ \E t \in Threads : ThreadStep(t)
    \/ \E f \in Fds : Hang(f) \/ CloseTest(f) \/ Answer(f)
    \/ \E f \in Fds, granted \in BOOLEAN : Activated(f, granted)

Spec == Init /\ [][Next]_vars

\* The threads run; select serves every source that is readable, and nodes answer a
\* request for activation.
Fairness ==
    /\ \A t \in Threads : WF_vars(ThreadStep(t))
    /\ \A f \in Fds : SF_vars(\E granted \in BOOLEAN : Activated(f, granted))

FairSpec == Spec /\ Fairness

-----------------------------------------------------------------------------
\* Properties

\* The net thread waits for equip_ipc_list_sync (line 1715) with node_ipc_list_sync held,
\* and who holds the first waits for the second (lines 1457, 1570, 1627).
HeldCrosswise ==
    /\ lockI = "net" /\ job["net"].pc = "add" /\ lockE # None
    /\ job[lockE].pc \in {"other", "send", "cache", "look"}

Crashed == \E t \in Threads : job[t].pc = "crashed"

Busy == {t \in Threads : job[t].pc # "loop"}

Waits(t) ==
    LET pc == job[t].pc IN
    \/ pc \in {"send", "cache", "leave"} /\ ~FreeI(t)
    \/ pc \in {"other", "look"} /\ ask[job[t].a].to \in Nodes /\ ~FreeI(t)
    \/ pc \in {"add", "leave"} /\ ~FreeE(t)
    \/ pc \in {"list", "drop"} /\ ~FreeX

\* The null pointers of a connection in the making are met only if it ended meanwhile. And
\* as long as a thread has work one of them can go on, unless the two locks are held
\* crosswise or a null pointer was used: no early return leaves a lock taken, and there is
\* no other way to wait for each other.
OnlyKnownHalts ==
    /\ Crashed => \E n \in Nodes : "cut" \in flaws[n]
    /\ Busy # {} => HeldCrosswise \/ Crashed \/ (\E t \in Busy : ~Waits(t))

\* A node gets a message from its first chunk on, in order and without a gap, if none
\* of the known things went wrong for it: a worker queued a chunk after the queue was
\* sent (stranded), a message was sent on a connection that was not active (hurried),
\* two threads opened connections (twice), the number of its connection was taken out of
\* the table while it was being set up (cut), activation was refused, the connection
\* ended, a chunk was dropped, or a number, or the entry found by it, was another's (misled).
MessagesWhole ==
    \A n \in Nodes : flaws[n] = {} =>
        \A i \in DOMAIN got[n] :
            Cardinality({j \in 1 .. i : got[n][j][2] = got[n][i][2]}) = got[n][i][3]

\* A route leads to an entry of the table or one that is about to be made, and the gateway
\* keeps one connection to a node, unless two threads found none, or the number of its
\* connection was taken out of the table while it was being set up.
RoutesMatchTable ==
    /\ \A n \in Nodes : route[n] # 0 =>
          ByFd(route[n]) # 0 \/ \E t \in Threads : job[t].pc = "add" /\ job[t].f = route[n]
    /\ \A f, g \in listed : f # g /\ open[f] = open[g] => flaws[open[f]] \cap {"twice", "cut"} # {}

\* An answer to local test equipment that goes to the number the equipment had goes to the
\* equipment, not to who has the number now, except while the equipment is being removed,
\* and as long as no number was taken out of the table while its connection was being set up.
\* (A tester's connections are not closed when it leaves: its answers do go astray.)
AnswersGoHome ==
    (\E x \in astray : x[1] \in Equips /\ x[3]) => \E n \in Nodes : "cut" \in flaws[n]

\* Messages for the node wait in the queue of a connection in the table.
QueuedFor(n) == \E i \in DOMAIN table : table[i].node = n /\ table[i].queue \notin {NoQueue, <<>>}

\* What was queued is sent, if nothing went wrong for the node: the connection is in the
\* table with its queue before the answer to the request can be looked up there.
QueueDrains ==
    \A n \in Nodes : QueuedFor(n) ~> (~QueuedFor(n) \/ flaws[n] # {})

\* ne_doip_sub_diagnostic_to_other says "Routing activation has been performed, and fd is
\* valid, and data can be sent directly": what it sends directly finds an active connection.
DirectIsActive == \A n \in Nodes : "hurried" \notin flaws[n]
=============================================================================
