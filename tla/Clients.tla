---------------------------- MODULE Clients ----------------------------
(***************************************************************************)
(* Sockets, clients and the two event loops of the server                  *)
(* (ne_doip_server.c, ne_doip_event_loop.c, ne_doip_select.c).             *)
(*                                                                         *)
(* The net and the ipc thread each run a select loop. Workers, the timer   *)
(* thread and the main thread take clients down and create new ones while  *)
(* a loop holds pointers to them. A step is one hold of a lock, a system   *)
(* call, or a use of what a loop has noted before.                         *)
(***************************************************************************)
EXTENDS Naturals, FiniteSets

CONSTANTS NetClients,   \* connections of testers, accepted by the net thread
          TestClients,  \* connections the server opens itself for test equipment
          IpcClients,   \* connections of local clients, accepted by the ipc thread
          Workers,      \* pool workers and the timer thread
          None,
          MaxFd,        \* bound: socket numbers
          MaxEvents,    \* NE_DOIP_MAX_EVENT_SIZE
          MaxNotes,     \* what the buffer of the notify socket takes
          Mcts,
          Early         \* whether a client may be taken down before its source is added

Clients   == NetClients \cup TestClients \cup IpcClients
Listeners == {"unix", "tcp", "udp"}
Sources   == Clients \cup Listeners
Loops     == {"net", "ipc"}
Threads   == Loops \cup Workers \cup {"main"}
Fds       == 1 .. MaxFd
Notify    == 0          \* notify_fd[0]

ASSUME ClientsAssumption ==
    /\ IsFiniteSet(NetClients) /\ IsFiniteSet(TestClients) /\ IsFiniteSet(IpcClients)
    /\ NetClients \cap TestClients = {} /\ NetClients \cap IpcClients = {}
    /\ TestClients \cap IpcClients = {}
    /\ Clients \cap Listeners = {} /\ None \notin Fds /\ None \notin Sources \cup Threads
    /\ Workers \cap (Loops \cup {"main"}) = {}
    /\ MaxFd \in Nat \ {0} /\ MaxEvents \in Nat /\ MaxNotes \in Nat \ {0} /\ Mcts \in Nat
    /\ Early \in BOOLEAN

\* the three client lists; one lock each
Kinds == {"IPC", "NET", "TEST"}

KindOf(c) == IF c \in IpcClients THEN "IPC" ELSE IF c \in NetClients THEN "NET" ELSE "TEST"

\* the selector a source belongs to
LoopOf(s) == IF s \in IpcClients \cup {"unix"} THEN "ipc" ELSE "net"

VARIABLES
    open,       \* the kernel's table: who has a socket number
    src,        \* source->fd, None for -1
    num,        \* connection->fd, which is never reset
    place,      \* where a client is: not there yet, in its list, in the free list, freed
    events,     \* event_list of each selector, and with it the sets of select()
    notes,      \* bytes in the notify socket
    data,       \* what the peer has sent
    lock,       \* the holder of each list's lock
    pc, cur,    \* where a thread is, and the client or listener it is about
    seen,       \* the sets a loop has copied, or got from select()
    batch,      \* the events of a dispatch that are not handled yet
    run,        \* ipc_run, net_run
    line,       \* activation_line_flag of an edge gateway
    udpClient   \* udp_client is there

vars == <<open, src, num, place, events, notes, data, lock, pc, cur, seen, batch, run, line, udpClient>>
sockets == <<open, src, num, place>>

Places == {"unborn", "waiting", "refused", "creating", "listed", "doomed", "freed"}

\* where a thread may be: in its loop, with a client in its hands, in the main thread
Labels == {"top", "select", "collect", "next", "accept", "udp", "unpack", "free", "done", "crashed"}
          \cup {"read", "destroy", "drop", "close", "list", "add"}
          \cup {"idle", "openudp", "udpclient", "all", "notifyipc", "notifynet", "join", "ended"}

\* The variables stay in their types: no more notes than the buffer takes, no number beyond.
TypeOK ==
    /\ open \in [Fds -> Sources \cup {None}]
    /\ src \in [Clients -> Fds \cup {None}] /\ num \in [Clients -> Fds \cup {None}]
    /\ place \in [Clients -> Places]
    /\ events \in [Loops -> [Fds -> Sources \cup {None}]]
    /\ notes \in [Loops -> 0 .. MaxNotes]
    /\ data \in [Clients -> {"quiet", "data", "eof"}]
    /\ lock \in [Kinds -> Threads \cup {None}]
    /\ cur \in [Threads -> Sources \cup {None}]
    /\ pc \in [Threads -> Labels]
    /\ seen \in [Loops -> SUBSET (Fds \cup {Notify})]
    /\ batch \in [Loops -> SUBSET (Fds \X Sources)]
    /\ run \in BOOLEAN /\ line \in BOOLEAN /\ udpClient \in BOOLEAN

\* ne_doip_server_init and ne_doip_server_run: the Unix socket is in its selector, and
\* both threads have started and wait in select()
Init ==
    /\ open = [f \in Fds |-> IF f = 1 THEN "unix" ELSE None]
    /\ src = [c \in Clients |-> None] /\ num = [c \in Clients |-> None]
    /\ place = [c \in Clients |-> "unborn"]
    /\ events = [l \in Loops |-> [f \in Fds |-> IF l = "ipc" /\ f = 1 THEN "unix" ELSE None]]
    /\ notes = [l \in Loops |-> 0]
    /\ data = [c \in Clients |-> "quiet"]
    /\ lock = [k \in Kinds |-> None]
    /\ pc = [t \in Threads |-> IF t \in Loops THEN "select" ELSE "idle"]
    /\ cur = [t \in Threads |-> None]
    /\ seen = [l \in Loops |-> IF l = "ipc" THEN {Notify, 1} ELSE {Notify}]
    /\ batch = [l \in Loops |-> {}]
    /\ run = TRUE /\ line = TRUE /\ udpClient = FALSE

-----------------------------------------------------------------------------
\* Helpers

Goto(t, p) == pc' = [pc EXCEPT ![t] = p]

\* a thread goes on with client or listener s, or with none of them
GotoWith(t, p, s) == Goto(t, p) /\ cur' = [cur EXCEPT ![t] = s]

FreeFds   == {f \in Fds : open[f] = None}
LowestFree == CHOOSE f \in FreeFds : \A g \in FreeFds : f <= g

Listed(k) == {c \in Clients : place[c] = "listed" /\ KindOf(c) = k}

NotNoted(l) == notes

\* ne_doip_select_notify_internal: a write into a full socket fails and changes nothing
Noted(l) == [notes EXCEPT ![l] = IF @ < MaxNotes THEN @ + 1 ELSE @]

\* ne_doip_select_add keeps an entry that has the number; what the callers do then is
\* left out, as EventsMatchSockets shows that it does not happen
Registered(s, f) == [events EXCEPT ![LoopOf(s)][f] = IF @ = None THEN s ELSE @]

LeftInSelector(l, f) == events

\* ne_doip_select_del goes by the number
Unregistered(l, f) == [events EXCEPT ![l][f] = None]

ListenerOf(c) == IF c \in IpcClients THEN "unix" ELSE "tcp"

WaitingAt(s) == {c \in Clients : place[c] = "waiting" /\ ListenerOf(c) = s}

\* whether select() reports a socket; datagrams may come at any time
Readable(s) ==
    CASE s \in Clients -> data[s] # "quiet"
      [] s \in {"unix", "tcp"} -> WaitingAt(s) # {}
      [] OTHER -> TRUE

\* a thread goes on after it has created or taken down a client for somebody else
Resume(t) == IF t \in Loops THEN "unpack" ELSE "idle"

\* threads that may call ne_doip_server_disconnect and ne_doip_test_tcp_create
MayCall(t) == pc[t] = (IF t \in Loops THEN "unpack" ELSE "idle") /\ t # "main"

-----------------------------------------------------------------------------
\* The loop of the ipc and the net thread

\* ne_doip_ipc_run, ne_doip_net_run; ne_doip_select_dispatch copies the sets
Copy(l) ==
    /\ pc[l] = "top"
    /\ IF run
       THEN /\ Goto(l, "select")
            /\ seen' = [seen EXCEPT ![l] = {Notify} \cup {f \in Fds : events[l][f] # None}]
       ELSE Goto(l, "done") /\ UNCHANGED seen
    /\ UNCHANGED <<sockets, events, notes, data, lock, cur, batch, run, line, udpClient>>

\* select() runs without the lock and sees the sockets that have the numbers now
Reported(l) ==
    {f \in seen[l] : IF f = Notify THEN notes[l] > 0
                     ELSE open[f] # None /\ Readable(open[f])}

Select(l) ==
    /\ pc[l] = "select"
    /\ \E quiet \in SUBSET {f \in seen[l] \ {Notify} : open[f] = "udp"} :
          /\ Reported(l) \ quiet # {}
          /\ seen' = [seen EXCEPT ![l] = Reported(l) \ quiet]
    /\ Goto(l, "collect")
    /\ UNCHANGED <<sockets, events, notes, data, lock, cur, batch, run, line, udpClient>>

\* a number in the set was closed before select() was entered: EBADF, no event at all
SelectFails(l) ==
    /\ pc[l] = "select"
    /\ \E f \in seen[l] \ {Notify} : open[f] = None
    /\ seen' = [seen EXCEPT ![l] = {}]
    /\ Goto(l, "free")
    /\ UNCHANGED <<sockets, events, notes, data, lock, cur, batch, run, line, udpClient>>

DrainedAlways(l) == [notes EXCEPT ![l] = @ - 1]

\* ne_doip_select_response: one byte is read if select() reported the notify socket
Drained(l) == IF Notify \in seen[l] THEN [notes EXCEPT ![l] = @ - 1] ELSE notes

\* the second half of ne_doip_select_dispatch: the numbers are looked up in the list as
\* it is now; the number itself is compared with the length of the event array
Collect(l) ==
    /\ pc[l] = "collect"
    /\ batch' = [batch EXCEPT ![l] =
          {<<f, events[l][f]>> : f \in {g \in seen[l] \ {Notify} : g < MaxEvents /\ events[l][g] # None}}]
    /\ notes' = Drained(l)
    /\ seen' = [seen EXCEPT ![l] = {}]
    /\ Goto(l, "next")
    /\ UNCHANGED <<sockets, events, data, lock, cur, run, line, udpClient>>

\* ne_doip_event_loop_dispatch: the next source, unless its fd is -1 by now
Dispatch(l) ==
    /\ pc[l] = "next"
    /\ IF batch[l] = {}
       THEN Goto(l, "free") /\ UNCHANGED <<batch, cur>>
       ELSE LET e == CHOOSE p \in batch[l] : \A q \in batch[l] : p[1] <= q[1]
                s == e[2]
            IN  /\ batch' = [batch EXCEPT ![l] = @ \ {e}]
                /\ IF s \in Clients /\ src[s] = None
                   THEN UNCHANGED <<pc, cur>>
                   ELSE GotoWith(l, IF s \in Clients THEN "read" ELSE IF s = "udp" THEN "udp" ELSE "accept", s)
    /\ UNCHANGED <<sockets, events, notes, data, lock, seen, run, line, udpClient>>

AnyDoomed(l) == {c \in Clients : place[c] = "doomed"}

\* ne_doip_free_client: each loop frees the clients of its own
OwnDoomed(l) == {c \in Clients : place[c] = "doomed" /\ LoopOf(c) = l}

\* ne_doip_ipc_run, ne_doip_net_run: after each dispatch
Free(l) ==
    /\ pc[l] = "free"
    /\ place' = [c \in Clients |-> IF c \in OwnDoomed(l) THEN "freed" ELSE place[c]]
    /\ num' = [c \in Clients |-> IF c \in OwnDoomed(l) THEN None ELSE num[c]]
    /\ Goto(l, "top")
    /\ UNCHANGED <<open, src, events, notes, data, lock, cur, seen, batch, run, line, udpClient>>

-----------------------------------------------------------------------------
\* What the callbacks of the sources do

\* ne_doip_ipc_socket_data, ne_doip_tcp_socket_data up to ne_doip_client_create
NewClient(t, c) ==
    /\ open' = [open EXCEPT ![LowestFree] = c]
    /\ src' = [src EXCEPT ![c] = LowestFree] /\ num' = [num EXCEPT ![c] = LowestFree]
    /\ place' = [place EXCEPT ![c] = "creating"]
    /\ GotoWith(t, "list", c)

MayAccept == line /\ Cardinality(Listed("NET")) < Mcts + 1

Accept(l) ==
    /\ pc[l] = "accept" /\ FreeFds # {}
    /\ cur[l] = "tcp" => lock["NET"] = None /\ MayAccept
    /\ \E c \in WaitingAt(cur[l]) : NewClient(l, c)
    /\ UNCHANGED <<events, notes, data, lock, seen, batch, run, line, udpClient>>

\* the early returns, which leave the accepted socket open
Refuse(l) ==
    /\ pc[l] = "accept" /\ cur[l] = "tcp" /\ FreeFds # {}
    /\ lock["NET"] = None /\ ~MayAccept
    /\ \E c \in WaitingAt("tcp") :
          /\ open' = [open EXCEPT ![LowestFree] = c]
          /\ place' = [place EXCEPT ![c] = "refused"]
    /\ GotoWith(l, "next", None)
    /\ UNCHANGED <<src, num, events, notes, data, lock, seen, batch, run, line, udpClient>>

\* accept() fails: no number is left
AcceptFails(l) ==
    /\ pc[l] = "accept" /\ FreeFds = {}
    /\ GotoWith(l, "next", None)
    /\ UNCHANGED <<sockets, events, notes, data, lock, seen, batch, run, line, udpClient>>

\* a new client is put into its list, under the list's lock ...
List(t) ==
    /\ pc[t] = "list" /\ lock[KindOf(cur[t])] = None
    /\ place' = [place EXCEPT ![cur[t]] = "listed"]
    /\ Goto(t, "add")
    /\ UNCHANGED <<open, src, num, events, notes, data, lock, cur, seen, batch, run, line, udpClient>>

\* ... and then into the selector. If it was taken down in between, source->fd is -1: an
\* entry that belongs to no number, left out here
Add(t) ==
    /\ pc[t] = "add"
    /\ LET c == cur[t]
       IN  /\ events' = IF src[c] = None THEN events ELSE Registered(c, src[c])
           /\ notes' = Noted(LoopOf(c))
           /\ GotoWith(t, IF c \in TestClients THEN Resume(t) ELSE "next", None)
    /\ UNCHANGED <<sockets, data, lock, seen, batch, run, line, udpClient>>

\* ne_doip_udp_socket_data: server->udp_client is used unchecked
Datagram(l) ==
    /\ pc[l] = "udp"
    /\ GotoWith(l, IF udpClient THEN "unpack" ELSE "crashed", None)
    /\ UNCHANGED <<sockets, events, notes, data, lock, seen, batch, run, line, udpClient>>

\* ne_doip_client_connection reads from connection->fd, whoever has that number now;
\* the read waits when there is nothing. A number without a connection is an error
Read(l) ==
    /\ pc[l] = "read"
    /\ LET o == open[num[cur[l]]]
       IN  \/ /\ o \in Clients /\ data[o] = "data"
              /\ data' = [data EXCEPT ![o] = "quiet"]
              /\ GotoWith(l, "unpack", None)
           \/ /\ o \in Clients => data[o] = "eof"
              /\ Goto(l, "destroy")
              /\ UNCHANGED <<data, cur>>
    /\ UNCHANGED <<sockets, events, notes, lock, seen, batch, run, line, udpClient>>

\* the message is done with: ne_doip_net_unpack, ne_doip_ipc_unpack return
Unpacked(l) ==
    /\ pc[l] = "unpack"
    /\ Goto(l, "next")
    /\ UNCHANGED <<sockets, events, notes, data, lock, cur, seen, batch, run, line, udpClient>>

-----------------------------------------------------------------------------
\* Taking clients down: ne_doip_event_source_remove is the first step (the number leaves
\* the selector) and a part of the second (the socket is closed)

Unregister(t, c, p) ==
    /\ lock[KindOf(c)] = None
    /\ lock' = [lock EXCEPT ![KindOf(c)] = t]
    /\ IF src[c] # None /\ events[LoopOf(c)][src[c]] # None
       THEN events' = Unregistered(LoopOf(c), src[c]) /\ notes' = Noted(LoopOf(c))
       ELSE UNCHANGED <<events, notes>>
    /\ GotoWith(t, p, c)
    /\ UNCHANGED <<sockets, data, seen, batch, run, line, udpClient>>

\* ne_doip_client_destroy, by the loop that serves the client
Destroy(l) == pc[l] = "destroy" /\ Unregister(l, cur[l], "drop")

\* complete: no thread is about to add the source
Complete(c) == \A t \in Threads : ~(pc[t] = "add" /\ cur[t] = c)

\* ne_doip_server_disconnect finds a client of the two lists by its number. The number
\* may have been noted long before and be another client's by now (RoutingActivation)
Disconnect(t, n) ==
    /\ MayCall(t)
    /\ \E c \in Listed("NET") \cup Listed("TEST") :
          src[c] = n /\ (Complete(c) \/ Early) /\ Unregister(t, c, "close")

\* close(fd), source->fd = -1, to the free list, unlock
Close(t) ==
    /\ pc[t] \in {"drop", "close"}
    /\ LET c == cur[t]
       IN  /\ open' = IF src[c] = None THEN open ELSE [open EXCEPT ![src[c]] = None]
           /\ src' = [src EXCEPT ![c] = None]
           /\ place' = [place EXCEPT ![c] = "doomed"]
           /\ data' = [data EXCEPT ![c] = "quiet"]
           /\ lock' = [lock EXCEPT ![KindOf(c)] = None]
    /\ GotoWith(t, IF pc[t] = "drop" THEN "next" ELSE Resume(t), None)
    /\ UNCHANGED <<num, events, notes, seen, batch, run, line, udpClient>>

\* ne_doip_test_tcp_create, ne_doip_test_tcp6_create: by workers and by the loops
TestCreate(t, c) ==
    /\ MayCall(t) /\ FreeFds # {} /\ place[c] = "unborn"
    /\ NewClient(t, c)
    /\ UNCHANGED <<events, notes, data, lock, seen, batch, run, line, udpClient>>

-----------------------------------------------------------------------------
\* The main thread

Main(p, q) == pc["main"] = p /\ Goto("main", q)

OpenListener(s) ==
    /\ FreeFds # {}
    /\ open' = [open EXCEPT ![LowestFree] = s]
    /\ events' = Registered(s, LowestFree)
    /\ notes' = Noted("net")
    /\ UNCHANGED <<src, num, place, data, lock, cur, seen, batch, run, line, udpClient>>

\* ne_doip_request_ip_addr_assignment: the TCP socket, the UDP socket, and then
\* the client through which the UDP socket is read
OpenTcp == Main("idle", "openudp") /\ run /\ (\A f \in Fds : open[f] # "tcp") /\ OpenListener("tcp")

OpenUdp == Main("openudp", "udpclient") /\ OpenListener("udp")

SetUdpClient ==
    /\ Main("udpclient", "idle")
    /\ udpClient' = TRUE
    /\ UNCHANGED <<sockets, events, notes, data, lock, cur, seen, batch, run, line>>

\* ne_doip_activation_line_switch_active
SwitchActive ==
    /\ pc["main"] = "idle" /\ run /\ ~line
    /\ line' = TRUE
    /\ UNCHANGED <<sockets, events, notes, data, lock, pc, cur, seen, batch, run, udpClient>>

\* ne_doip_activation_line_switch_deactive
SwitchDeactive ==
    /\ Main("idle", "all") /\ run /\ line
    /\ line' = FALSE
    /\ UNCHANGED <<sockets, events, notes, data, lock, cur, seen, batch, run, udpClient>>

\* ne_doip_release_ip_addr_assignment: the listeners stay
ReleaseIp ==
    /\ Main("idle", "all") /\ run
    /\ UNCHANGED <<sockets, events, notes, data, lock, cur, seen, batch, run, line, udpClient>>

\* ne_doip_server_disconnect_all returns after one client; which one is first in the list
\* is left open
DisconnectAll ==
    /\ pc["main"] = "all"
    /\ \/ \E c \in Listed("NET") : (Complete(c) \/ Early) /\ Unregister("main", c, "close")
       \/ /\ Listed("NET") = {}
          /\ Goto("main", "idle")
          /\ UNCHANGED <<sockets, events, notes, data, lock, cur, seen, batch, run, line, udpClient>>

\* ne_doip_server_stop
Stop ==
    /\ Main("idle", "notifyipc") /\ run
    /\ run' = FALSE
    /\ UNCHANGED <<sockets, events, notes, data, lock, cur, seen, batch, line, udpClient>>

StopNotifies ==
    /\ \/ Main("notifyipc", "notifynet") /\ notes' = Noted("ipc")
       \/ Main("notifynet", "join") /\ notes' = Noted("net")
    /\ UNCHANGED <<sockets, events, data, lock, cur, seen, batch, run, line, udpClient>>

\* ne_doip_server_deinit after both loops have ended: the manager with its threads, the
\* listeners, the three lists and the free list
Deinit ==
    /\ Main("join", "ended")
    /\ \A l \in Loops : pc[l] = "done"
    /\ \A w \in Workers : pc[w] = "idle"
    /\ open' = [f \in Fds |-> IF open[f] \in Clients /\ place[open[f]] = "refused" THEN open[f] ELSE None]
    /\ src' = [c \in Clients |-> None]
    /\ place' = [c \in Clients |-> IF place[c] \in {"listed", "doomed"} THEN "freed" ELSE place[c]]
    /\ events' = [l \in Loops |-> [f \in Fds |-> None]]
    /\ data' = [c \in Clients |-> "quiet"]
    /\ udpClient' = FALSE
    /\ UNCHANGED <<num, notes, lock, cur, seen, batch, run, line>>

-----------------------------------------------------------------------------
\* The other ends

PeerConnects(c) ==
    /\ place[c] = "unborn" /\ c \notin TestClients
    /\ \E f \in Fds : open[f] = ListenerOf(c)
    /\ place' = [place EXCEPT ![c] = "waiting"]
    /\ UNCHANGED <<open, src, num, events, notes, data, lock, pc, cur, seen, batch, run, line, udpClient>>

PeerSends(c, d) ==
    /\ data[c] = "quiet" /\ d \in {"data", "eof"}
    /\ \E f \in Fds : open[f] = c /\ place[c] # "refused"
    /\ data' = [data EXCEPT ![c] = d]
    /\ UNCHANGED <<sockets, events, notes, lock, pc, cur, seen, batch, run, line, udpClient>>

LoopStep(l) ==
    \/ Copy(l) \/ Select(l) \/ SelectFails(l) \/ Collect(l) \/ Dispatch(l) \/ Free(l)
    \/ Accept(l) \/ Refuse(l) \/ AcceptFails(l) \/ Datagram(l) \/ Read(l) \/ Unpacked(l)
    \/ Destroy(l) \/ List(l) \/ Add(l) \/ Close(l)

CallerStep(t) == List(t) \/ Add(t) \/ Close(t)

MainStep == OpenUdp \/ SetUdpClient \/ DisconnectAll \/ Close("main") \/ StopNotifies \/ Deinit

Calls(t) == \/ \E n \in Fds : Disconnect(t, n)
            \/ \E c \in TestClients : TestCreate(t, c)

Next ==
    \/ \E l \in Loops : LoopStep(l) \/ Calls(l)
    \/ \E w \in Workers : CallerStep(w) \/ (pc["main"] # "ended" /\ Calls(w))
    \/ MainStep \/ OpenTcp \/ SwitchActive \/ SwitchDeactive \/ ReleaseIp \/ Stop
    \/ \E c \in Clients : PeerConnects(c) \/ \E d \in {"data", "eof"} : PeerSends(c, d)

Spec == Init /\ [][Next]_vars

\* Threads go on when they can. A loop that is about to return from its callback does
\* so even if it could call something first. Peers do nothing they need not do, except
\* that datagrams keep coming
FairSpec ==
    /\ Spec
    /\ \A l \in Loops : WF_vars(LoopStep(l))
    /\ \A w \in Workers : WF_vars(CallerStep(w))
    /\ WF_vars(MainStep)

-----------------------------------------------------------------------------
\* Properties

\* Which client a thread has in its hands
Holds(t) == pc[t] \in {"read", "destroy", "drop", "close", "list", "add"}

\* A loop finds the right client behind a number: an entry of the selector belongs to the
\* socket that has the number and to a client in its list, every such client has its entry
\* (unless the thread that creates it or takes it down is just about to change that), and
\* what a loop reads, as long as nobody has taken the client down, is the client's own
\* socket (ne_doip_select_add, ne_doip_event_source_remove, ne_doip_client_connection).
EventsMatchSockets ==
    /\ \A l \in Loops, f \in Fds :
          LET s == events[l][f]
          IN  s # None => /\ open[f] = s /\ LoopOf(s) = l
                          /\ s \in Clients => src[s] = f /\ place[s] = "listed"
    /\ \A c \in Clients :
          place[c] = "listed" =>
              \/ src[c] # None /\ events[LoopOf(c)][src[c]] = c
              \/ \E t \in Threads : cur[t] = c /\ pc[t] \in {"add", "drop", "close"}
    /\ \A l \in Loops :
          pc[l] = "read" /\ place[cur[l]] = "listed" => open[num[cur[l]]] = cur[l]

\* Memory and sockets of a client: no thread uses a client that was freed, though other
\* threads take clients down at any time and only the loops free them; a freed client has
\* no socket; and when the server has ended, nothing is open but the sockets that were
\* accepted and refused (ne_doip_free_client, ne_doip_client_destroy, ne_doip_server_destroy).
NoUseAfterFree ==
    /\ \A l \in Loops, c \in Clients, f \in Fds : <<f, c>> \in batch[l] => place[c] # "freed"
    /\ \A t \in Threads : Holds(t) => place[cur[t]] # "freed"
    /\ \A c \in Clients : place[c] = "freed" => src[c] = None /\ \A f \in Fds : open[f] # c
    /\ pc["main"] = "ended" =>
          \A f \in Fds : open[f] # None => open[f] \in Clients /\ place[open[f]] = "refused"

\* A loop that waits for data nobody has sent or a peer that does not come, in the read or
\* accept of a socket when another one was reported under the same number, or has crashed
Stuck(l) ==
    \/ pc[l] = "crashed"
    \/ pc[l] = "accept" /\ WaitingAt(cur[l]) = {}
    \/ pc[l] = "read" /\ open[num[cur[l]]] \in Clients /\ data[open[num[cur[l]]]] = "quiet"

Served(l, s) == \E f \in Fds : open[f] = s /\ events[l][f] = s /\ f < MaxEvents

\* its peer has sent something or waits to be accepted, and nothing hinders the loop
Due(c) ==
    \/ place[c] = "listed" /\ data[c] # "quiet" /\ Served(LoopOf(c), c)
    \/ place[c] = "waiting" /\ FreeFds # {} /\ Served(LoopOf(c), ListenerOf(c))

\* What a peer sends is read, or its connection taken down, and a peer that connects is
\* accepted or refused while numbers are left, whatever other threads add and remove
\* meanwhile; the number must be below the length of the event array. A server that is
\* told to stop does stop. Both unless a loop is stuck as above (ne_doip_select_add
\* notifies the loop, ne_doip_server_stop both).
LoopsServe ==
    /\ \A c \in Clients : (Due(c) /\ run) ~> (~Due(c) \/ ~run \/ Stuck(LoopOf(c)))
    /\ ~run ~> (pc["main"] = "ended" \/ \E l \in Loops : Stuck(l))

=============================================================================
