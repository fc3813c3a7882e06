--------------------------- MODULE ClientsProofs ---------------------------
(* Theorems about Clients, for every number of clients, workers and socket numbers. *)
EXTENDS Clients, Lemmas

\* A client has a socket number exactly while it is created or in its list, the number is the
\* one of its connection, and nobody else has it; only refused connections keep an open
\* socket that no client knows.
SocketsOwned ==
    /\ \A c \in Clients : src[c] # None <=> place[c] \in {"creating", "listed"}
    /\ \A c \in Clients : src[c] # None => num[c] = src[c] /\ open[src[c]] = c
    /\ \A c \in Clients, f \in Fds : open[f] = c => src[c] = f \/ place[c] = "refused"

\* An entry of a selector is of the socket that has the number, of the loop that serves it,
\* and of a client in its list whose source nobody is about to add.
Entries ==
    \A l \in Loops, f \in Fds :
        LET s == events[l][f]
        IN  s # None =>
                /\ open[f] = s /\ LoopOf(s) = l
                /\ s \in Clients => /\ src[s] = f /\ place[s] = "listed"
                                    /\ \A t \in Threads : ~(pc[t] = "add" /\ cur[t] = s)

\* A client in its list has its entry, but for the thread that creates it or takes it down.
ListedHaveEntry ==
    \A c \in Clients :
        place[c] = "listed" =>
            \/ src[c] # None /\ events[LoopOf(c)][src[c]] = c
            \/ \E t \in Threads : cur[t] = c /\ pc[t] \in {"add", "drop", "close"}

\* Where a client is while a thread has it in its hands: created, listed, or perhaps taken down
\* by another thread meanwhile. Only its own loop reads from it, and who takes it down holds
\* the lock of its list.
Hands ==
    /\ \A t \in Threads :
        /\ pc[t] = "list" => cur[t] \in Clients /\ place[cur[t]] = "creating"
        /\ pc[t] = "add" => cur[t] \in Clients /\ place[cur[t]] = "listed"
        /\ pc[t] = "close" => cur[t] \in Clients /\ place[cur[t]] = "listed"
        /\ pc[t] \in {"read", "destroy", "drop"} =>
              t \in Loops /\ cur[t] \in Clients /\ LoopOf(cur[t]) = t /\ place[cur[t]] \in {"listed", "doomed"}
        /\ pc[t] \in {"drop", "close"} => lock[KindOf(cur[t])] = t
    /\ \A c \in Clients : place[c] = "creating" => \E t \in Threads : pc[t] = "list" /\ cur[t] = c

\* One thread lists and adds a client, and nobody takes it down before that is done.
Alone ==
    \A t, u \in Threads :
        cur[t] = cur[u] =>
            /\ pc[t] \in {"list", "add"} /\ pc[u] \in {"list", "add"} => t = u
            /\ ~(pc[t] \in {"read", "destroy", "drop", "close"} /\ pc[u] = "add")

\* The events of a dispatch are of clients of the loop that are in their list or the free list;
\* between two dispatches there are none, so that the free list can be freed.
Batches ==
    \A l \in Loops :
        /\ pc[l] \in {"top", "select", "collect", "free", "done"} => batch[l] = {}
        /\ \A f \in Fds, c \in Clients :
              <<f, c>> \in batch[l] =>
                  /\ LoopOf(c) = l /\ place[c] \in {"listed", "doomed"}
                  /\ \A t \in Threads : ~(pc[t] = "add" /\ cur[t] = c)

\* When the server has ended, so have its threads, and only refused sockets are open.
Ended ==
    pc["main"] = "ended" =>
        /\ \A l \in Loops : pc[l] = "done"
        /\ \A w \in Workers : pc[w] = "idle"
        /\ \A f \in Fds : open[f] # None => open[f] \in Clients /\ place[open[f]] = "refused"

\* A client that is being taken down has no entry any more.
Gone ==
    \A t \in Threads : pc[t] \in {"drop", "close"} => \A l \in Loops, f \in Fds : events[l][f] # cur[t]

\* A loop that has seen a note finds it: nobody else reads the notify socket.
NotesThere == \A l \in Loops : pc[l] = "collect" /\ Notify \in seen[l] => notes[l] > 0

\* What a thread has in its hands is a client.
HandsClients == \A t \in Threads : Holds(t) => cur[t] \in Clients

\* What the types rest on.
TypeInv == TypeOK /\ NotesThere /\ HandsClients

-----------------------------------------------------------------------------
\* socket() and accept() return the lowest number that is free.
LEMMA LowestFreeType == FreeFds # {} => LowestFree \in Fds /\ open[LowestFree] = None
<1> SUFFICES ASSUME FreeFds # {} PROVE LowestFree \in FreeFds
  BY DEF FreeFds
<1>1. FreeFds \subseteq Nat
  BY DEF FreeFds, Fds
<1>2. \E f \in FreeFds : \A g \in FreeFds : f <= g
  BY <1>1, LeastNumber
<1>3. QED
  BY <1>2 DEF LowestFree

\* The next event of a dispatch is one of the batch.
LEMMA NextEvent ==
  ASSUME NEW B, B \subseteq Fds \X Sources, B # {}
  PROVE  (CHOOSE p \in B : \A q \in B : p[1] <= q[1]) \in B
<1> DEFINE N == {p[1] : p \in B}
<1>1. N \subseteq Nat /\ N # {}
  BY DEF Fds
<1>2. PICK n \in N : \A m \in N : n <= m
  BY <1>1, LeastNumber
<1>3. PICK p \in B : \A q \in B : p[1] <= q[1]
  BY <1>2
<1>4. QED
  BY <1>3


\* The labels that the actions go to.
LEMMA LabelsAre == \A p \in {"top", "select", "collect", "next", "accept", "udp", "unpack", "free", "done", "crashed",
    "read", "destroy", "drop", "close", "list", "add", "idle", "openudp", "udpclient", "all", "notifyipc",
    "notifynet", "join", "ended"} : p \in Labels
BY DEF Labels

\* The loops, the workers and the main thread are the threads.
LEMMA LoopThreads == Loops \subseteq Threads /\ "main" \in Threads /\ Workers \subseteq Threads
BY DEF Threads

\* The server starts in its types.
LEMMA TypeInit == Init => TypeInv
<1> SUFFICES ASSUME Init PROVE TypeInv
  OBVIOUS
<1>1. pc \in [Threads -> Labels] /\ cur \in [Threads -> Sources \cup {None}]
  BY DEF Init, Labels
<1>2. seen \in [Loops -> SUBSET (Fds \cup {Notify})] /\ notes \in [Loops -> 0 .. MaxNotes]
  BY ClientsAssumption DEF Init, Fds
<1>3. open \in [Fds -> Sources \cup {None}] /\ events \in [Loops -> [Fds -> Sources \cup {None}]]
  BY DEF Init, Sources, Listeners
<1>4. batch \in [Loops -> SUBSET (Fds \X Sources)] /\ place \in [Clients -> Places]
  BY DEF Init, Places
<1>5. \A t \in Threads : pc[t] \in {"select", "idle"}
  BY DEF Init
<1>0. Loops \subseteq Threads
  BY DEF Threads
<1>6. TypeOK
  BY <1>1, <1>2, <1>3, <1>4, ClientsAssumption DEF Init, TypeOK
<1>7. QED
  BY <1>5, <1>6, LoopThreads DEF TypeInv, NotesThere, HandsClients, Holds

\* Control goes from label to label, and what a thread is about is a client or a listener.
LEMMA ControlTypes ==
  ASSUME TypeOK, NEW t \in Threads, NEW p \in Labels, NEW s \in Sources \cup {None}
  PROVE  /\ [pc EXCEPT ![t] = p] \in [Threads -> Labels]
         /\ [cur EXCEPT ![t] = s] \in [Threads -> Sources \cup {None}]
BY DEF TypeOK

\* A note that does not fit into the notify socket is dropped; none is lost.
LEMMA NotesTypes ==
  ASSUME TypeOK, NEW l \in Loops
  PROVE  Noted(l) \in [Loops -> 0 .. MaxNotes] /\ \A k \in Loops : Noted(l)[k] >= notes[k]
BY ClientsAssumption DEF TypeOK, Noted

\* Adding and removing an entry leave a selector a table of sources.
LEMMA EventsTypes ==
  ASSUME TypeOK
  PROVE  /\ \A s \in Sources, f \in Fds : Registered(s, f) \in [Loops -> [Fds -> Sources \cup {None}]]
         /\ \A l \in Loops, f \in Fds : Unregistered(l, f) \in [Loops -> [Fds -> Sources \cup {None}]]
BY DEF TypeOK, Registered, Unregistered, LoopOf, Loops

\* Creating a client and taking one down, whoever does it.
LEMMA NewClientTypes ==
  ASSUME TypeOK, FreeFds # {}, NEW t \in Threads, NEW c \in Clients, NewClient(t, c)
  PROVE  /\ open' \in [Fds -> Sources \cup {None}]
         /\ src' \in [Clients -> Fds \cup {None}] /\ num' \in [Clients -> Fds \cup {None}]
         /\ place' \in [Clients -> Places]
         /\ pc' \in [Threads -> Labels] /\ cur' \in [Threads -> Sources \cup {None}]
<1>1. LowestFree \in Fds /\ c \in Sources
  BY LowestFreeType DEF Sources
<1>2. pc' \in [Threads -> Labels] /\ cur' \in [Threads -> Sources \cup {None}]
  BY <1>1, ControlTypes, LabelsAre DEF NewClient, GotoWith, Goto
<1>3. QED
  BY <1>1, <1>2 DEF NewClient, TypeOK, Places

\* The first step of taking a client down.
LEMMA UnregisterTypes ==
  ASSUME TypeOK, NEW t \in Threads, NEW c \in Clients, NEW p \in Labels, Unregister(t, c, p)
  PROVE  TypeOK'
<1>1. c \in Sources /\ LoopOf(c) \in Loops /\ KindOf(c) \in Kinds
  BY DEF Sources, LoopOf, Loops, KindOf, Kinds
<1>2. pc' \in [Threads -> Labels] /\ cur' \in [Threads -> Sources \cup {None}]
  BY <1>1, ControlTypes DEF Unregister, GotoWith, Goto
<1>3. events' \in [Loops -> [Fds -> Sources \cup {None}]] /\ notes' \in [Loops -> 0 .. MaxNotes]
  BY <1>1, EventsTypes, NotesTypes DEF Unregister, TypeOK
<1>4. lock' \in [Kinds -> Threads \cup {None}]
  BY <1>1 DEF Unregister, TypeOK
<1>5. QED
  BY <1>2, <1>3, <1>4 DEF Unregister, TypeOK, sockets

\* Opening the TCP or the UDP socket.
LEMMA OpenListenerTypes ==
  ASSUME TypeOK, NEW p \in Labels, NEW s \in {"tcp", "udp"}, Goto("main", p), OpenListener(s)
  PROVE  TypeOK'
<1>1. s \in Sources /\ LowestFree \in Fds /\ "net" \in Loops
  BY LowestFreeType DEF Sources, Listeners, Loops, OpenListener
<1>2. pc' \in [Threads -> Labels]
  BY ControlTypes, LoopThreads DEF Goto
<1>3. events' \in [Loops -> [Fds -> Sources \cup {None}]] /\ notes' \in [Loops -> 0 .. MaxNotes]
  BY <1>1, EventsTypes, NotesTypes DEF OpenListener
<1>4. QED
  BY <1>1, <1>2, <1>3 DEF OpenListener, TypeOK

\* The steps of the select loop itself.
LEMMA LoopTypes ==
  ASSUME TypeInv, NEW l \in Loops,
         Copy(l) \/ Select(l) \/ SelectFails(l) \/ Collect(l) \/ Dispatch(l) \/ Free(l)
  PROVE  TypeOK'
<1> USE DEF TypeInv, sockets, Goto, GotoWith
<1>0. l \in Threads
  BY LoopThreads
<1>1. CASE Copy(l)
  <2>1. pc' \in [Threads -> Labels]
    BY <1>1, <1>0, LabelsAre, ControlTypes DEF Copy
  <2>2. seen' \in [Loops -> SUBSET (Fds \cup {Notify})]
    BY <1>1 DEF Copy, TypeOK
  <2>3. QED
    BY <1>1, <2>1, <2>2 DEF Copy, TypeOK
<1>2. CASE Select(l)
  <2>1. pc' \in [Threads -> Labels]
    BY <1>2, <1>0, LabelsAre, ControlTypes DEF Select
  <2>2. seen' \in [Loops -> SUBSET (Fds \cup {Notify})]
    BY <1>2 DEF Select, Reported, TypeOK
  <2>3. QED
    BY <1>2, <2>1, <2>2 DEF Select, TypeOK
<1>3. CASE SelectFails(l)
  <2>1. pc' \in [Threads -> Labels]
    BY <1>3, <1>0, LabelsAre, ControlTypes DEF SelectFails
  <2>2. QED
    BY <1>3, <2>1 DEF SelectFails, TypeOK
<1>4. CASE Collect(l)
  <2>1. pc' \in [Threads -> Labels]
    BY <1>4, <1>0, LabelsAre, ControlTypes DEF Collect
  <2>2. batch' \in [Loops -> SUBSET (Fds \X Sources)]
    BY <1>4 DEF Collect, TypeOK
  <2>3. notes' \in [Loops -> 0 .. MaxNotes]
    BY <1>4, ClientsAssumption, LoopThreads DEF Collect, Drained, TypeOK, NotesThere
  <2>4. QED
    BY <1>4, <2>1, <2>2, <2>3 DEF Collect, TypeOK
<1>5. CASE Dispatch(l)
  <2>1. CASE batch[l] = {}
    <3>1. pc' \in [Threads -> Labels]
      BY <1>5, <2>1, <1>0, LabelsAre, ControlTypes DEF Dispatch
    <3>2. QED
      BY <1>5, <2>1, <3>1 DEF Dispatch, TypeOK
  <2>2. CASE batch[l] # {}
    <3> DEFINE e == CHOOSE p \in batch[l] : \A q \in batch[l] : p[1] <= q[1]
    <3>1. e \in batch[l] /\ e[2] \in Sources
      <4>1. batch[l] \subseteq Fds \X Sources
        BY DEF TypeOK
      <4>2. e \in batch[l]
        BY <2>2, <4>1, NextEvent
      <4>3. QED
        BY <4>1, <4>2
    <3> HIDE DEF e
    <3>2. batch' = [batch EXCEPT ![l] = @ \ {e}] /\ \/ UNCHANGED <<pc, cur>>
                                                    \/ \E p \in {"read", "udp", "accept"} : GotoWith(l, p, e[2])
      BY <1>5, <2>2 DEF Dispatch, e
    <3>3. batch' \in [Loops -> SUBSET (Fds \X Sources)]
      BY <3>2 DEF TypeOK
    <3>4. pc' \in [Threads -> Labels] /\ cur' \in [Threads -> Sources \cup {None}]
      <4>1. CASE UNCHANGED <<pc, cur>>
        BY <4>1 DEF TypeOK
      <4>2. ASSUME NEW p \in {"read", "udp", "accept"}, GotoWith(l, p, e[2])
            PROVE  pc' \in [Threads -> Labels] /\ cur' \in [Threads -> Sources \cup {None}]
        <5>1. p \in Labels
          BY LabelsAre
        <5>2. QED
          BY <3>1, <4>2, <5>1, <1>0, ControlTypes
      <4>3. QED
        BY <3>2, <4>1, <4>2
    <3>5. QED
      BY <1>5, <3>3, <3>4 DEF Dispatch, TypeOK
  <2>3. QED
    BY <2>1, <2>2
<1>6. CASE Free(l)
  <2>1. pc' \in [Threads -> Labels]
    BY <1>6, <1>0, LabelsAre, ControlTypes DEF Free
  <2>2. QED
    BY <1>6, <2>1 DEF Free, TypeOK, Places
<1>7. QED
  BY <1>1, <1>2, <1>3, <1>4, <1>5, <1>6

\* What the callbacks of a loop do.
LEMMA CallbackTypes ==
  ASSUME TypeInv, NEW l \in Loops,
         Accept(l) \/ Refuse(l) \/ AcceptFails(l) \/ Datagram(l) \/ Read(l) \/ Unpacked(l)
  PROVE  TypeOK'
<1> USE DEF TypeInv, sockets
<1>0. l \in Threads
  BY LoopThreads
<1>1. CASE Accept(l)
  <2>1. PICK c \in Clients : FreeFds # {} /\ NewClient(l, c)
    BY <1>1 DEF Accept, WaitingAt
  <2>2. QED
    BY <1>0, <1>1, <2>1, NewClientTypes DEF Accept, TypeOK
<1>2. CASE Refuse(l)
  <2>1. PICK c \in Clients : /\ FreeFds # {} /\ open' = [open EXCEPT ![LowestFree] = c]
                             /\ place' = [place EXCEPT ![c] = "refused"]
    BY <1>2 DEF Refuse, WaitingAt
  <2>2. open' \in [Fds -> Sources \cup {None}] /\ place' \in [Clients -> Places]
    BY <2>1, LowestFreeType DEF TypeOK, Places, Sources
  <2>3. pc' \in [Threads -> Labels] /\ cur' \in [Threads -> Sources \cup {None}]
    BY <1>0, <1>2, LabelsAre, ControlTypes DEF Refuse, Goto, GotoWith
  <2>4. QED
    BY <1>2, <2>2, <2>3 DEF Refuse, TypeOK
<1>3. CASE AcceptFails(l) \/ Datagram(l) \/ Unpacked(l)
  <2>1. pc' \in [Threads -> Labels]
    BY <1>0, <1>3, LabelsAre, ControlTypes DEF AcceptFails, Datagram, Unpacked, Goto, GotoWith
  <2>0. cur' \in [Threads -> Sources \cup {None}]
    BY <1>0, <1>3, LabelsAre, ControlTypes DEF AcceptFails, Datagram, Unpacked, TypeOK, Goto, GotoWith
  <2>2. QED
    BY <1>3, <2>0, <2>1 DEF AcceptFails, Datagram, Unpacked, TypeOK
<1>4. CASE Read(l)
  <2>1. pc' \in [Threads -> Labels] /\ cur' \in [Threads -> Sources \cup {None}]
    <3>1. \/ GotoWith(l, "unpack", None)
          \/ Goto(l, "destroy") /\ UNCHANGED cur
      BY <1>4 DEF Read
    <3>2. "unpack" \in Labels /\ "destroy" \in Labels
      BY LabelsAre
    <3>3. QED
      BY <1>0, <3>1, <3>2, ControlTypes DEF TypeOK, Goto, GotoWith
  <2>2. data' \in [Clients -> {"quiet", "data", "eof"}]
    BY <1>4 DEF Read, TypeOK
  <2>3. QED
    BY <1>4, <2>1, <2>2 DEF Read, TypeOK
<1>5. QED
  BY <1>1, <1>2, <1>3, <1>4

\* Listing, adding and taking down a client, by the thread that has it in its hands.
LEMMA HandTypes ==
  ASSUME TypeOK, NEW t \in Threads,
         Holds(t) => cur[t] \in Clients,
         List(t) \/ Add(t) \/ Close(t)
  PROVE  TypeOK'
<1> USE DEF sockets
<1> DEFINE c == cur[t]
<1>0. c \in Clients /\ c \in Sources /\ LoopOf(c) \in Loops /\ KindOf(c) \in Kinds
  BY DEF List, Add, Close, Holds, Sources, LoopOf, Loops, KindOf, Kinds
<1>1. CASE List(t)
  <2>1. pc' \in [Threads -> Labels]
    BY <1>1, LabelsAre, ControlTypes DEF List, Goto
  <2>2. QED
    BY <1>0, <1>1, <2>1 DEF List, TypeOK, Places
<1>2. CASE Add(t)
  <2>1. pc' \in [Threads -> Labels] /\ cur' \in [Threads -> Sources \cup {None}]
    BY <1>2, LabelsAre, ControlTypes DEF Add, GotoWith, Goto, Resume
  <2>2. events' \in [Loops -> [Fds -> Sources \cup {None}]] /\ notes' \in [Loops -> 0 .. MaxNotes]
    BY <1>0, <1>2, EventsTypes, NotesTypes DEF Add, TypeOK
  <2>3. QED
    BY <1>2, <2>1, <2>2 DEF Add, TypeOK
<1>3. CASE Close(t)
  <2>1. pc' \in [Threads -> Labels] /\ cur' \in [Threads -> Sources \cup {None}]
    BY <1>3, LabelsAre, ControlTypes DEF Close, GotoWith, Goto, Resume
  <2>2. open' \in [Fds -> Sources \cup {None}] /\ lock' \in [Kinds -> Threads \cup {None}]
    BY <1>0, <1>3 DEF Close, TypeOK
  <2>3. QED
    BY <1>0, <1>3, <2>1, <2>2 DEF Close, TypeOK, Places
<1>4. QED
  BY <1>1, <1>2, <1>3

\* Taking down and creating clients for others.
LEMMA CallTypes ==
  ASSUME TypeInv, NEW t \in Threads,
         Destroy(t) \/ Calls(t) \/ DisconnectAll
  PROVE  TypeOK'
<1>1. CASE Destroy(t)
  BY <1>1, LabelsAre, UnregisterTypes DEF Destroy, TypeInv, HandsClients, Holds
<1>2. ASSUME NEW n \in Fds, Disconnect(t, n)
      PROVE  TypeOK'
  BY <1>2, LabelsAre, UnregisterTypes DEF Disconnect, TypeInv, Listed
<1>3. ASSUME NEW c \in TestClients, TestCreate(t, c)
      PROVE  TypeOK'
  <2>1. c \in Clients /\ FreeFds # {} /\ NewClient(t, c)
    BY <1>3 DEF TestCreate, Clients
  <2>2. QED
    BY <1>3, <2>1, NewClientTypes DEF TestCreate, TypeInv, TypeOK
<1>4. CASE DisconnectAll
  <2>1. ASSUME NEW c \in Listed("NET"), Unregister("main", c, "close")
        PROVE  TypeOK'
    BY <2>1, LabelsAre, LoopThreads, UnregisterTypes DEF TypeInv, Listed
  <2>2. ASSUME Goto("main", "idle"),
               UNCHANGED <<sockets, events, notes, data, lock, cur, seen, batch, run, line, udpClient>>
        PROVE  TypeOK'
    BY <2>2, LabelsAre, LoopThreads, ControlTypes DEF TypeInv, TypeOK, Goto, sockets
  <2>3. QED
    BY <1>4, <2>1, <2>2 DEF DisconnectAll
<1>5. QED
  BY <1>1, <1>2, <1>3, <1>4 DEF Calls

\* The steps of the main thread.
LEMMA MainTypes ==
  ASSUME TypeOK,
         \/ OpenTcp \/ OpenUdp \/ SetUdpClient \/ SwitchActive \/ SwitchDeactive \/ ReleaseIp
         \/ Stop \/ StopNotifies \/ Deinit
  PROVE  TypeOK'
<1> USE DEF sockets, Main
<1>1. CASE OpenTcp
  BY <1>1, LabelsAre, OpenListenerTypes DEF OpenTcp
<1>2. CASE OpenUdp
  BY <1>2, LabelsAre, OpenListenerTypes DEF OpenUdp
<1>3. CASE SetUdpClient \/ SwitchActive \/ SwitchDeactive \/ ReleaseIp \/ Stop
  <2>1. pc' \in [Threads -> Labels]
    BY <1>3, LabelsAre, LoopThreads, ControlTypes
       DEF SetUdpClient, SwitchActive, SwitchDeactive, ReleaseIp, Stop, Goto, TypeOK
  <2>2. QED
    BY <1>3, <2>1 DEF SetUdpClient, SwitchActive, SwitchDeactive, ReleaseIp, Stop, TypeOK
<1>4. CASE StopNotifies
  <2>1. pc' \in [Threads -> Labels]
    BY <1>4, LabelsAre, LoopThreads, ControlTypes DEF StopNotifies, Goto
  <2>2. notes' \in [Loops -> 0 .. MaxNotes]
    BY <1>4, NotesTypes DEF StopNotifies, Loops
  <2>3. QED
    BY <1>4, <2>1, <2>2 DEF StopNotifies, TypeOK
<1>5. CASE Deinit
  <2>1. pc' \in [Threads -> Labels]
    BY <1>5, LabelsAre, LoopThreads, ControlTypes DEF Deinit, Goto
  <2>2. open' \in [Fds -> Sources \cup {None}] /\ place' \in [Clients -> Places]
    BY <1>5 DEF Deinit, TypeOK, Places
  <2>3. QED
    BY <1>5, <2>1, <2>2 DEF Deinit, TypeOK
<1>6. QED
  BY <1>1, <1>2, <1>3, <1>4, <1>5

\* The steps of the peers.
LEMMA PeerTypes ==
  ASSUME TypeOK, NEW c \in Clients,
         PeerConnects(c) \/ \E d \in {"data", "eof"} : PeerSends(c, d)
  PROVE  TypeOK'
BY DEF PeerConnects, PeerSends, TypeOK, sockets, Places

\* Nobody but a loop that drains it takes a note away, and Select(l) has seen it before.
LEMMA NotesThereStep ==
  ASSUME TypeInv, Next
  PROVE  NotesThere'
<1> USE LoopThreads DEF TypeInv, NotesThere, sockets, Goto, GotoWith
<1>0. \A l, k \in Loops : Noted(l)[k] >= notes[k] /\ notes[k] \in Nat /\ Noted(l)[k] \in Nat
  BY NotesTypes DEF TypeOK
<1>a. ASSUME NEW t \in Threads, NEW p, p # "collect", Goto(t, p), seen' = seen,
             notes' = notes \/ \E l \in Loops : notes' = Noted(l)
      PROVE  NotesThere'
  BY <1>0, <1>a DEF TypeOK
<1>l. \A s \in Sources : LoopOf(s) \in Loops
  BY DEF LoopOf, Loops
<1>c. Clients \subseteq Sources
  BY DEF Sources
<1>n. ASSUME NEW t \in Threads, NEW c \in Clients, NEW p, p # "collect", Unregister(t, c, p)
      PROVE  NotesThere'
  BY <1>a, <1>l, <1>c, <1>n DEF Unregister
<1>1. ASSUME NEW l \in Loops, LoopStep(l)
      PROVE  NotesThere'
  <2>1. CASE Copy(l)
    BY <2>1 DEF Copy, TypeOK
  <2>2. CASE Select(l)
    BY <2>2 DEF Select, Reported, TypeOK
  <2>3. CASE SelectFails(l) \/ Collect(l)
    BY <2>3 DEF SelectFails, Collect, Drained, TypeOK
  <2>4. CASE Dispatch(l)
    BY <2>4 DEF Dispatch, TypeOK
  <2>5. CASE Free(l) \/ Refuse(l) \/ AcceptFails(l) \/ Datagram(l) \/ Unpacked(l)
    BY <2>5, <1>a DEF Free, Refuse, AcceptFails, Datagram, Unpacked
  <2>6. CASE Accept(l)
    BY <2>6, <1>a DEF Accept, NewClient
  <2>7. CASE Read(l)
    BY <2>7, <1>a DEF Read
  <2>8. CASE Destroy(l)
    BY <2>8, <1>n DEF Destroy, HandsClients, Holds
  <2>9. CASE CallerStep(l)
    BY <2>9, <1>a, <1>l, <1>c DEF CallerStep, List, Add, Close, Resume, HandsClients, Holds
  <2>10. QED
    BY <1>1, <2>1, <2>2, <2>3, <2>4, <2>5, <2>6, <2>7, <2>8, <2>9 DEF LoopStep, CallerStep
<1>2. ASSUME NEW t \in Threads, CallerStep(t)
      PROVE  NotesThere'
  BY <1>2, <1>a, <1>l, <1>c DEF CallerStep, List, Add, Close, Resume, HandsClients, Holds
<1>3. ASSUME NEW t \in Threads, Calls(t)
      PROVE  NotesThere'
  <2>1. ASSUME NEW n \in Fds, Disconnect(t, n)
        PROVE  NotesThere'
    BY <2>1, <1>n DEF Disconnect, Listed
  <2>2. ASSUME NEW c \in TestClients, TestCreate(t, c)
        PROVE  NotesThere'
    BY <2>2, <1>a DEF TestCreate, NewClient
  <2>3. QED
    BY <1>3, <2>1, <2>2 DEF Calls
<1>4. CASE MainStep \/ OpenTcp \/ SwitchActive \/ SwitchDeactive \/ ReleaseIp \/ Stop
  <2>1. CASE OpenTcp \/ OpenUdp \/ StopNotifies
    BY <2>1, <1>a DEF OpenTcp, OpenUdp, OpenListener, StopNotifies, Main, Loops
  <2>2. CASE SetUdpClient \/ Deinit \/ SwitchDeactive \/ ReleaseIp \/ Stop
    BY <2>2, <1>a DEF SetUdpClient, Deinit, SwitchDeactive, ReleaseIp, Stop, Main
  <2>3. CASE SwitchActive
    BY <2>3 DEF SwitchActive
  <2>4. CASE DisconnectAll
    BY <2>4, <1>a, <1>n DEF DisconnectAll, Listed
  <2>5. CASE Close("main")
    BY <2>5, <1>2 DEF CallerStep
  <2>6. QED
    BY <1>4, <2>1, <2>2, <2>3, <2>4, <2>5 DEF MainStep
<1>5. CASE \E c \in Clients : PeerConnects(c) \/ \E d \in {"data", "eof"} : PeerSends(c, d)
  BY <1>5 DEF PeerConnects, PeerSends
<1>6. QED
  BY <1>1, <1>2, <1>3, <1>4, <1>5 DEF Next

\* Only clients come into the hands of a thread.
LEMMA HandsClientsStep ==
  ASSUME TypeInv, Next
  PROVE  HandsClients'
<1> USE LoopThreads DEF TypeInv, HandsClients, Holds, sockets, Goto, GotoWith
<1>a. ASSUME NEW t \in Threads, NEW p, NEW s, GotoWith(t, p, s) \/ (Goto(t, p) /\ s = cur[t] /\ UNCHANGED cur),
             s \in Clients \/ p \notin {"read", "destroy", "drop", "close", "list", "add"}
      PROVE  HandsClients'
  BY <1>a DEF TypeOK
<1>1. ASSUME NEW l \in Loops, LoopStep(l)
      PROVE  HandsClients'
  <2>1. CASE Copy(l) \/ Select(l) \/ SelectFails(l) \/ Collect(l) \/ Free(l) \/ Unpacked(l)
    BY <2>1, <1>a DEF Copy, Select, SelectFails, Collect, Free, Unpacked
  <2>2. CASE Dispatch(l)
    <3>1. \/ GotoWith(l, "free", cur[l])
          \/ Goto(l, "free") /\ UNCHANGED cur
          \/ UNCHANGED <<pc, cur>>
          \/ \E s \in Clients : GotoWith(l, "read", s)
          \/ \E s : GotoWith(l, "udp", s) \/ GotoWith(l, "accept", s)
      BY <2>2 DEF Dispatch
    <3>2. CASE UNCHANGED <<pc, cur>>
      BY <3>2
    <3>3. QED
      BY <3>1, <3>2, <1>a
  <2>3. CASE Accept(l)
    BY <2>3, <1>a DEF Accept, NewClient, WaitingAt
  <2>4. CASE Refuse(l) \/ AcceptFails(l) \/ Datagram(l) \/ Unpacked(l)
    BY <2>4, <1>a DEF Refuse, AcceptFails, Datagram, Unpacked
  <2>5. CASE Read(l)
    BY <2>5, <1>a DEF Read
  <2>6. CASE Destroy(l)
    BY <2>6, <1>a DEF Destroy, Unregister
  <2>7. CASE CallerStep(l)
    BY <2>7, <1>a DEF CallerStep, List, Add, Close, Resume
  <2>8. QED
    BY <1>1, <2>1, <2>2, <2>3, <2>4, <2>5, <2>6, <2>7 DEF LoopStep, CallerStep
<1>2. ASSUME NEW t \in Threads, CallerStep(t)
      PROVE  HandsClients'
  BY <1>2, <1>a DEF CallerStep, List, Add, Close, Resume
<1>3. ASSUME NEW t \in Threads, Calls(t)
      PROVE  HandsClients'
  BY <1>3, <1>a DEF Calls, Disconnect, Listed, Unregister, TestCreate, NewClient, Clients
<1>4. CASE MainStep \/ OpenTcp \/ SwitchActive \/ SwitchDeactive \/ ReleaseIp \/ Stop
  <2>1. CASE OpenTcp \/ OpenUdp \/ StopNotifies
    BY <2>1, <1>a DEF OpenTcp, OpenUdp, OpenListener, StopNotifies, Main, Loops
  <2>2. CASE SetUdpClient \/ Deinit \/ SwitchDeactive \/ ReleaseIp \/ Stop
    BY <2>2, <1>a DEF SetUdpClient, Deinit, SwitchDeactive, ReleaseIp, Stop, Main
  <2>3. CASE SwitchActive
    BY <2>3 DEF SwitchActive
  <2>4. CASE DisconnectAll
    BY <2>4, <1>a DEF DisconnectAll, Listed, Unregister
  <2>5. CASE Close("main")
    BY <2>5, <1>2 DEF CallerStep
  <2>6. QED
    BY <1>4, <2>1, <2>2, <2>3, <2>4, <2>5 DEF MainStep
<1>5. CASE \E c \in Clients : PeerConnects(c) \/ \E d \in {"data", "eof"} : PeerSends(c, d)
  BY <1>5 DEF PeerConnects, PeerSends
<1>6. QED
  BY <1>1, <1>2, <1>3, <1>4, <1>5 DEF Next

\* Every step keeps the types.
LEMMA TypeStep == TypeInv /\ [Next]_vars => TypeInv'
<1> SUFFICES ASSUME TypeInv, [Next]_vars PROVE TypeInv'
  OBVIOUS
<1> USE LoopThreads
<1>0. TypeOK /\ HandsClients
  BY DEF TypeInv
<1>1. CASE Next
  <2>1. ASSUME NEW l \in Loops, LoopStep(l)
        PROVE  TypeOK'
    BY <1>0, <2>1, LoopTypes, CallbackTypes, HandTypes, CallTypes DEF LoopStep, HandsClients
  <2>2. ASSUME NEW t \in Threads, CallerStep(t)
        PROVE  TypeOK'
    BY <1>0, <2>2, HandTypes DEF CallerStep, HandsClients
  <2>3. TypeOK'
    BY <1>0, <1>1, <2>1, <2>2, CallTypes, MainTypes, PeerTypes DEF Next, MainStep, CallerStep
  <2>4. QED
    BY <1>1, <2>3, NotesThereStep, HandsClientsStep DEF TypeInv
<1>2. CASE UNCHANGED vars
  BY <1>2 DEF vars, TypeInv, TypeOK, NotesThere, HandsClients, Holds
<1>3. QED
  BY <1>1, <1>2

\* The variables of sockets, clients and loops always have their types: in particular the notify
\* socket never holds more than it takes nor is read when empty, and no thread works on a
\* listener, or on nothing, as if it were a client. Clients may also be taken down early.
THEOREM TypeCorrect == Spec => []TypeOK
<1>1. TypeInv => TypeOK
  BY DEF TypeInv
<1>2. QED
  BY <1>1, TypeInit, TypeStep, PTL DEF Spec

-----------------------------------------------------------------------------
\* The inductive invariant of the clients.
IInv == TypeInv /\ SocketsOwned /\ Entries /\ ListedHaveEntry /\ Hands /\ Alone /\ Gone /\ Batches /\ Ended

\* The variables that the inductive invariant is about, but for the control state.
core == <<open, src, num, place, events, lock, batch>>

\* Labels of threads that have more to do with a client than reading, or have ended.
Working == {"list", "add", "drop", "close", "done", "ended"}
\* Labels of a loop between two dispatches.
Resting == {"top", "select", "collect", "free", "done"}

\* A thread that has no client in its hands, or only reads from one, goes on.
Quiet(t) ==
    /\ \E p \in Labels \ {"list", "add", "read", "drop", "close", "ended"}, s \in Sources \cup {None} :
          /\ GotoWith(t, p, s)
          /\ p = "destroy" => pc[t] = "read" /\ s = cur[t]
          /\ t \in Loops /\ p \in Resting => pc[t] \in Resting \/ batch[t] = {}
    /\ pc[t] \notin Working \cup {"destroy"}
    /\ pc[t] = "idle" => t = "main"
    /\ t \in Workers => pc[t] = "idle"
    /\ UNCHANGED core

\* None is neither a socket number nor a source nor a thread.
LEMMA NoneIsNobody == None \notin Fds /\ None \notin Sources /\ None \notin Clients /\ None \notin Threads
BY ClientsAssumption DEF Sources

\* The server starts with the Unix socket only.
LEMMA InitInd == Init => IInv
<1> SUFFICES ASSUME Init PROVE IInv
  OBVIOUS
<1>1. TypeInv
  BY TypeInit
<1>2. \A t \in Threads : pc[t] \in {"select", "idle"}
  BY DEF Init
<1>3. \A f \in Fds : open[f] \notin Clients /\ \A l \in Loops : events[l][f] \notin Clients
  BY ClientsAssumption DEF Init, Listeners, Sources
<1>4. SocketsOwned /\ ListedHaveEntry
  BY <1>3 DEF Init, SocketsOwned, ListedHaveEntry
<1>5. Entries
  BY <1>3, ClientsAssumption DEF Init, Entries, LoopOf, Loops
<1>6. Hands /\ Alone /\ Gone
  BY <1>2 DEF Hands, Alone, Gone, Init
<1>7. Batches /\ Ended
  BY <1>2, LoopThreads DEF Batches, Ended, Init
<1>8. QED
  BY <1>1, <1>4, <1>5, <1>6, <1>7 DEF IInv

\* Such a step leaves everything as it is.
LEMMA QuietInd ==
  ASSUME IInv, TypeInv', NEW t \in Threads, Quiet(t)
  PROVE  IInv'
<1> USE LoopThreads DEF Quiet, core, GotoWith, Goto, Working, IInv, TypeInv, TypeOK
<1>1. SocketsOwned'
  BY DEF SocketsOwned
<1>2. Entries'
  BY DEF Entries
<1>3. ListedHaveEntry'
  BY DEF ListedHaveEntry
<1>4. Hands'
  BY DEF Hands
<1>5. Alone'
  BY DEF Alone
<1>6. Gone'
  BY DEF Gone
<1>7. Batches'
  BY DEF Batches, Resting
<1>8. Ended'
  BY DEF Ended
<1>9. QED
  BY <1>1, <1>2, <1>3, <1>4, <1>5, <1>6, <1>7, <1>8

\* A dispatch collects clients that are in their list, as the entries are.
LEMMA CollectInd ==
  ASSUME IInv, TypeInv', NEW l \in Loops, Collect(l)
  PROVE  IInv'
<1> USE LoopThreads DEF Collect, sockets, Goto, IInv, TypeInv, TypeOK
<1>1. SocketsOwned'
  BY DEF SocketsOwned
<1>2a. Entries'
  BY DEF Entries
<1>2b. ListedHaveEntry'
  BY DEF ListedHaveEntry
<1>2c. Gone'
  BY DEF Gone
<1>3. Hands' /\ Alone'
  BY DEF Hands, Alone
<1>4. Batches'
  <2>1. \A f \in Fds, c \in Clients : <<f, c>> \in batch'[l] => events[l][f] = c
    BY ClientsAssumption
  <2>2. QED
    BY <2>1 DEF Batches, Entries
<1>5. Ended'
  BY DEF Ended
<1>6. QED
  BY <1>1, <1>2a, <1>2b, <1>2c, <1>3, <1>4, <1>5

\* The next event brings a client of this loop into its hands, or none.
LEMMA DispatchInd ==
  ASSUME IInv, TypeInv', NEW l \in Loops, Dispatch(l), batch[l] # {}
  PROVE  IInv'
<1> DEFINE e == CHOOSE p \in batch[l] : \A q \in batch[l] : p[1] <= q[1]
<1>0. e \in batch[l] /\ batch[l] \subseteq Fds \X Sources
  <2>1. batch[l] \subseteq Fds \X Sources
    BY DEF IInv, TypeInv, TypeOK
  <2>2. QED
    BY <2>1, NextEvent
<1>a. /\ batch' = [batch EXCEPT ![l] = @ \ {e}] /\ pc[l] = "next"
      /\ IF e[2] \in Clients /\ src[e[2]] = None
         THEN UNCHANGED <<pc, cur>>
         ELSE GotoWith(l, IF e[2] \in Clients THEN "read" ELSE IF e[2] = "udp" THEN "udp" ELSE "accept", e[2])
  BY DEF Dispatch
<1>b. UNCHANGED <<open, src, num, place, events, lock>>
  BY DEF Dispatch, sockets
<1> HIDE DEF e
<1>1. PICK f \in Fds, s \in Sources : e = <<f, s>>
  BY <1>0
<1>c. pc[l] = "next" /\ \A k \in Loops : batch'[k] \subseteq batch[k] /\ (k # l => batch'[k] = batch[k])
  BY <1>a DEF IInv, TypeInv, TypeOK
<1>2. s \in Clients => LoopOf(s) = l /\ place[s] \in {"listed", "doomed"} /\ \A t \in Threads : ~(pc[t] = "add" /\ cur[t] = s)
  BY <1>0, <1>1 DEF IInv, Batches
<1>3. CASE UNCHANGED <<pc, cur>>
  <2>1. SocketsOwned' /\ Hands' /\ Alone'
    BY <1>b, <1>3 DEF IInv, SocketsOwned, Hands, Alone
  <2>2. Entries' /\ ListedHaveEntry' /\ Gone'
    BY <1>b, <1>3 DEF IInv, Entries, ListedHaveEntry, Gone
  <2>3. Batches' /\ Ended'
    BY <1>b, <1>c, <1>3 DEF IInv, Batches, Ended
  <2>4. QED
    BY <2>1, <2>2, <2>3 DEF IInv
<1>4. ASSUME NEW p \in {"read", "udp", "accept"}, p = "read" => s \in Clients, GotoWith(l, p, s)
      PROVE  IInv'
  <2> USE LoopThreads
  <2>0. /\ pc \in [Threads -> Labels] /\ cur \in [Threads -> Sources \cup {None}]
        /\ pc' = [pc EXCEPT ![l] = p] /\ cur' = [cur EXCEPT ![l] = s]
    BY <1>4 DEF IInv, TypeInv, TypeOK, Goto, GotoWith
  <2>1. SocketsOwned'
    BY <1>b DEF IInv, SocketsOwned
  <2>2. Entries'
    BY <1>b, <1>c, <2>0 DEF IInv, Entries
  <2>3. ListedHaveEntry'
    BY <1>b, <1>c, <2>0 DEF IInv, ListedHaveEntry
  <2>4. Gone'
    BY <1>b, <1>c, <2>0 DEF IInv, Gone
  <2>5. Hands'
    BY <1>b, <1>c, <1>2, <1>4, <2>0 DEF IInv, Hands
  <2>6. Alone'
    BY <1>b, <1>c, <1>2, <1>4, <2>0 DEF IInv, Alone
  <2>7. Batches'
    BY <1>b, <1>c, <2>0 DEF IInv, Batches
  <2>8. Ended'
    BY <1>b, <1>c, <2>0 DEF IInv, Ended
  <2>9. QED
    BY <2>1, <2>2, <2>3, <2>4, <2>5, <2>6, <2>7, <2>8 DEF IInv
<1>5. \/ UNCHANGED <<pc, cur>>
      \/ \E p \in {"read", "udp", "accept"} : (p = "read" => s \in Clients) /\ GotoWith(l, p, s)
  BY <1>1, <1>a
<1>6. QED
  BY <1>3, <1>4, <1>5

\* A loop frees clients that are taken down and that no loop has noted: only it could have.
LEMMA FreeInd ==
  ASSUME IInv, TypeInv', NEW l \in Loops, Free(l)
  PROVE  IInv'
<1> USE LoopThreads DEF Free, OwnDoomed, Goto, IInv, TypeInv, TypeOK
<1>1. SocketsOwned'
  <2>1. \A c \in Clients : place[c] \in {"creating", "listed"} <=> place'[c] \in {"creating", "listed"}
    OBVIOUS
  <2>2. \A c \in Clients : src[c] # None => num'[c] = num[c]
    BY DEF SocketsOwned
  <2>3. \A c \in Clients : place[c] = "refused" => place'[c] = "refused"
    OBVIOUS
  <2>4. UNCHANGED <<open, src>>
    OBVIOUS
  <2>5. QED
    BY <2>1, <2>2, <2>3, <2>4 DEF SocketsOwned
<1>2a. Entries'
  BY DEF Entries
<1>2b. ListedHaveEntry'
  BY DEF ListedHaveEntry
<1>2c. Gone'
  BY DEF Gone
<1>3. Hands'
  BY DEF Hands
<1>4. Alone'
  BY DEF Alone
<1>5. Batches'
  BY DEF Batches
<1>6. Ended'
  BY DEF Ended
<1>7. QED
  BY <1>1, <1>2a, <1>2b, <1>2c, <1>3, <1>4, <1>5, <1>6

\* A new client gets a number that nobody has, and is in the hands of one thread.
LEMMA NewClientInd ==
  ASSUME IInv, TypeInv', NEW t \in Threads, NEW c \in Clients, FreeFds # {}, NewClient(t, c),
         place[c] \in {"unborn", "waiting"}, pc[t] \in {"accept", "unpack", "idle"},
         pc["main"] # "ended" \/ t \in Loops, UNCHANGED <<events, lock, batch>>
  PROVE  IInv'
<1> DEFINE f == LowestFree
<1>0. f \in Fds /\ open[f] = None
  BY LowestFreeType
<1>1. \A u \in Threads : Holds(u) => cur[u] # c
  BY DEF IInv, Hands, Holds
<1>2. /\ open' = [open EXCEPT ![f] = c] /\ src' = [src EXCEPT ![c] = f] /\ num' = [num EXCEPT ![c] = f]
      /\ place' = [place EXCEPT ![c] = "creating"]
      /\ GotoWith(t, "list", c)
  BY DEF NewClient
<1>3. src[c] = None /\ \A g \in Fds : open[g] # c
  <2>1. src[c] = None
    BY DEF IInv, SocketsOwned
  <2>2. QED
    BY <2>1, NoneIsNobody DEF IInv, SocketsOwned
<1> HIDE DEF f
<1> USE LoopThreads, <1>0, <1>1, <1>2, <1>3 DEF Goto, GotoWith, Holds, IInv, TypeInv, TypeOK
<1>4. SocketsOwned'
  BY NoneIsNobody DEF SocketsOwned
<1>5a. Entries'
  BY NoneIsNobody DEF Entries
<1>5b. ListedHaveEntry'
  BY NoneIsNobody DEF ListedHaveEntry
<1>5c. Gone'
  BY NoneIsNobody DEF Gone
<1>6. Hands'
  BY DEF Hands
<1>7. Alone'
  BY DEF Alone
<1>8. Batches'
  BY DEF Batches
<1>9. Ended'
  BY DEF Ended
<1>10. QED
  BY <1>4, <1>5a, <1>5b, <1>5c, <1>6, <1>7, <1>8, <1>9

\* A refused connection keeps its number, and no selector has it.
LEMMA RefuseInd ==
  ASSUME IInv, TypeInv', NEW l \in Loops, Refuse(l)
  PROVE  IInv'
<1> DEFINE f == LowestFree
<1>0. f \in Fds /\ open[f] = None
  BY LowestFreeType DEF Refuse
<1>1. PICK c \in Clients : /\ open' = [open EXCEPT ![f] = c] /\ place[c] = "waiting"
                           /\ place' = [place EXCEPT ![c] = "refused"]
  BY DEF Refuse, WaitingAt
<1>2. pc[l] = "accept" /\ GotoWith(l, "next", None) /\ UNCHANGED <<src, num, events, lock, batch>>
  BY DEF Refuse
<1> HIDE DEF f
<1> USE LoopThreads, <1>0, <1>1, <1>2 DEF Goto, GotoWith, IInv, TypeInv, TypeOK
<1>4. SocketsOwned'
  BY NoneIsNobody DEF SocketsOwned
<1>5a. Entries'
  BY NoneIsNobody DEF Entries
<1>5b. ListedHaveEntry'
  <2>1. \A t \in Threads : pc[t] \in {"add", "drop", "close"} => pc'[t] = pc[t] /\ cur'[t] = cur[t]
    OBVIOUS
  <2>2. \A d \in Clients : place'[d] = "listed" => place[d] = "listed"
    OBVIOUS
  <2>3. QED
    BY <2>1, <2>2 DEF ListedHaveEntry
<1>5c. Gone'
  BY NoneIsNobody DEF Gone
<1>6. Hands'
  BY DEF Hands
<1>7. Alone'
  BY DEF Alone
<1>8. Batches'
  BY DEF Batches
<1>9. Ended'
  BY DEF Ended
<1>10. QED
  BY <1>4, <1>5a, <1>5b, <1>5c, <1>6, <1>7, <1>8, <1>9

\* The types that the steps below use.
LEMMA ControlIs ==
  ASSUME IInv
  PROVE  /\ pc \in [Threads -> Labels] /\ cur \in [Threads -> Sources \cup {None}]
         /\ lock \in [Kinds -> Threads \cup {None}] /\ place \in [Clients -> Places]
         /\ open \in [Fds -> Sources \cup {None}] /\ events \in [Loops -> [Fds -> Sources \cup {None}]]
         /\ src \in [Clients -> Fds \cup {None}] /\ num \in [Clients -> Fds \cup {None}]
BY DEF IInv, TypeInv, TypeOK

\* A client enters its list in the hands of the thread that created it.
LEMMA ListInd ==
  ASSUME IInv, TypeInv', NEW t \in Threads, List(t)
  PROVE  IInv'
<1> DEFINE c == cur[t]
<1>1. c \in Clients /\ place[c] = "creating" /\ pc[t] = "list"
  BY DEF List, IInv, Hands
<1>2. /\ place' = [place EXCEPT ![c] = "listed"] /\ pc' = [pc EXCEPT ![t] = "add"]
      /\ UNCHANGED <<open, src, num, events, lock, cur, batch>>
  BY DEF List, Goto
<1> HIDE DEF c
<1>3. cur[t] = c
  BY DEF c
<1> USE LoopThreads, ControlIs, <1>1, <1>2, <1>3 DEF IInv
<1>4. SocketsOwned'
  BY DEF SocketsOwned
<1>5. Entries'
  BY DEF Entries
<1>6. ListedHaveEntry'
  BY DEF ListedHaveEntry
<1>7. Gone'
  BY DEF Gone
<1>8. Hands'
  BY DEF Hands, Alone
<1>9. Alone'
  BY DEF Alone, Hands
<1>10. Batches'
  BY DEF Batches
<1>11. Ended'
  BY DEF Ended
<1>12. QED
  BY <1>4, <1>5, <1>6, <1>7, <1>8, <1>9, <1>10, <1>11

\* Nobody has an entry under the number of a client whose source is added.
LEMMA AddInd ==
  ASSUME IInv, TypeInv', NEW t \in Threads, Add(t)
  PROVE  IInv'
<1> DEFINE c == cur[t]
           f == src[c]
           l == LoopOf(c)
<1>1. c \in Clients /\ place[c] = "listed" /\ pc[t] = "add"
  BY DEF Add, IInv, Hands
<1>2. f \in Fds /\ l \in Loops /\ open[f] = c
  BY <1>1, ControlIs DEF IInv, SocketsOwned, LoopOf, Loops
<1>3. events[l][f] = None
  BY <1>1, <1>2 DEF IInv, Entries
<1>4. events' = [events EXCEPT ![l][f] = c]
  BY <1>1, <1>2, <1>3, NoneIsNobody, ControlIs DEF Add, Registered
<1>5. PICK p \in {"next", "unpack", "idle"} : pc' = [pc EXCEPT ![t] = p]
  BY DEF Add, Resume, GotoWith, Goto
<1>6. cur' = [cur EXCEPT ![t] = None] /\ UNCHANGED <<open, src, num, place, lock, batch>>
  BY DEF Add, sockets, GotoWith
<1>7. cur[t] = c /\ src[c] = f /\ LoopOf(c) = l
  OBVIOUS
<1> HIDE DEF c, f, l
<1> USE LoopThreads, ControlIs, NoneIsNobody, <1>1, <1>2, <1>3, <1>4, <1>5, <1>6, <1>7 DEF IInv
<1>8. SocketsOwned'
  BY DEF SocketsOwned
<1>9. Entries'
  BY DEF Entries, Alone
<1>10. ListedHaveEntry'
  <2>1. \A d \in Clients : place[d] = "listed" /\ src[d] # None /\ events[LoopOf(d)][src[d]] = d
                               => events'[LoopOf(d)][src[d]] = d
    BY DEF LoopOf, Loops
  <2>2. QED
    BY <2>1 DEF ListedHaveEntry
<1>11. Gone'
  BY DEF Gone, Alone
<1>12. Hands'
  BY DEF Hands
<1>13. Alone'
  BY DEF Alone, Hands
<1>14. Batches'
  BY DEF Batches
<1>15. Ended'
  BY DEF Ended, Threads
<1>16. QED
  BY <1>8, <1>9, <1>10, <1>11, <1>12, <1>13, <1>14, <1>15

\* The first step of taking a client down: its entry goes and no other.
LEMMA UnregisterInd ==
  ASSUME IInv, TypeInv', NEW t \in Threads, NEW c \in Clients, NEW p \in {"drop", "close"},
         Unregister(t, c, p), Complete(c),
         IF p = "drop" THEN t \in Loops /\ LoopOf(c) = t /\ place[c] \in {"listed", "doomed"} /\ pc[t] = "destroy"
                       ELSE place[c] = "listed" /\ pc[t] \in {"unpack", "idle", "all"} /\ pc["main"] # "ended"
  PROVE  IInv'
<1>1. /\ lock[KindOf(c)] = None /\ lock' = [lock EXCEPT ![KindOf(c)] = t] /\ KindOf(c) \in Kinds
      /\ pc' = [pc EXCEPT ![t] = p] /\ cur' = [cur EXCEPT ![t] = c]
      /\ UNCHANGED <<open, src, num, place, batch>>
  BY DEF Unregister, KindOf, Kinds, GotoWith, Goto, sockets
<1>2. \A k \in Loops, g \in Fds : events'[k][g] = IF events[k][g] = c THEN None ELSE events[k][g]
  <2>1. \A k \in Loops, g \in Fds : events[k][g] = c => src[c] = g /\ LoopOf(c) = k
    BY NoneIsNobody DEF IInv, Entries
  <2>2. LoopOf(c) \in Loops
    BY DEF LoopOf, Loops
  <2>3. CASE src[c] # None /\ events[LoopOf(c)][src[c]] # None
    <3>1. src[c] \in Fds /\ open[src[c]] = c
      BY <2>3, ControlIs DEF IInv, SocketsOwned
    <3>2. events[LoopOf(c)][src[c]] = c
      BY <2>2, <2>3, <3>1 DEF IInv, Entries
    <3>3. events' = [events EXCEPT ![LoopOf(c)][src[c]] = None]
      BY <2>3 DEF Unregister, Unregistered
    <3>4. QED
      BY <2>1, <2>2, <3>1, <3>2, <3>3, ControlIs
  <2>4. CASE ~(src[c] # None /\ events[LoopOf(c)][src[c]] # None)
    <3>1. events' = events
      BY <2>4 DEF Unregister
    <3>2. QED
      BY <2>1, <2>4, <3>1, NoneIsNobody
  <2>5. QED
    BY <2>3, <2>4
<1> USE LoopThreads, ControlIs, NoneIsNobody, <1>1, <1>2 DEF IInv
<1>3. SocketsOwned'
  BY DEF SocketsOwned
<1>4. Entries'
  BY DEF Entries
<1>5. ListedHaveEntry'
  <2>1. ASSUME NEW d \in Clients, d # c, place[d] = "listed"
        PROVE  \/ src[d] # None /\ events'[LoopOf(d)][src[d]] = d
               \/ \E u \in Threads : cur'[u] = d /\ pc'[u] \in {"add", "drop", "close"}
    <3>1. CASE src[d] # None /\ events[LoopOf(d)][src[d]] = d
      BY <2>1, <3>1 DEF LoopOf, Loops
    <3>2. CASE \E u \in Threads : cur[u] = d /\ pc[u] \in {"add", "drop", "close"}
      BY <2>1, <3>2
    <3>3. QED
      BY <2>1, <3>1, <3>2 DEF ListedHaveEntry
  <2>2. QED
    BY <2>1 DEF ListedHaveEntry
<1>6. Gone'
  BY DEF Gone, Hands
<1>7. Hands'
  BY DEF Hands
<1>8. Alone'
  BY DEF Alone, Hands, Complete
<1>9. Batches'
  BY DEF Batches
<1>10. Ended'
  BY DEF Ended
<1>11. QED
  BY <1>3, <1>4, <1>5, <1>6, <1>7, <1>8, <1>9, <1>10

\* The second step: its socket is closed and goes to nobody else until then.
LEMMA CloseInd ==
  ASSUME IInv, TypeInv', NEW t \in Threads, Close(t)
  PROVE  IInv'
<1> DEFINE c == cur[t]
<1>1. /\ pc[t] \in {"drop", "close"} /\ c \in Clients /\ place[c] \in {"listed", "doomed"}
      /\ lock[KindOf(c)] = t
  BY DEF Close, IInv, Hands
<1>2. /\ open' = IF src[c] = None THEN open ELSE [open EXCEPT ![src[c]] = None]
      /\ src' = [src EXCEPT ![c] = None] /\ place' = [place EXCEPT ![c] = "doomed"]
      /\ lock' = [lock EXCEPT ![KindOf(c)] = None] /\ KindOf(c) \in Kinds
      /\ UNCHANGED <<num, events, batch>>
  BY DEF Close, KindOf, Kinds
<1>3. PICK p \in {"next", "unpack", "idle"} : pc' = [pc EXCEPT ![t] = p] /\ cur' = [cur EXCEPT ![t] = None]
  BY DEF Close, Resume, GotoWith, Goto
<1>4. cur[t] = c
  OBVIOUS
<1> HIDE DEF c
<1>5. \A u \in Threads : u # t /\ cur[u] = c => pc[u] \notin {"list", "add", "drop", "close"}
  BY <1>1, <1>4 DEF IInv, Hands, Alone
<1>6. \A f \in Fds : open[f] # c => open'[f] = open[f]
  <2>1. src[c] # None => open[src[c]] = c
    BY <1>1 DEF IInv, SocketsOwned
  <2>2. QED
    BY <1>2, <2>1, ControlIs
<1>7. \A f \in Fds : open'[f] # c
  BY <1>1, <1>2, ControlIs, NoneIsNobody DEF IInv, SocketsOwned
<1>8. \A l \in Loops, f \in Fds : events[l][f] # c
  BY <1>1, <1>4 DEF IInv, Gone
<1> USE LoopThreads, ControlIs, NoneIsNobody, <1>1, <1>2, <1>3, <1>4, <1>5 DEF IInv
<1>9. SocketsOwned'
  BY <1>6, <1>7 DEF SocketsOwned
<1>10. Entries'
  BY <1>6, <1>8 DEF Entries
<1>11. ListedHaveEntry'
  BY DEF ListedHaveEntry
<1>12. Gone'
  BY DEF Gone
<1>13. Hands'
  BY DEF Hands
<1>14. Alone'
  BY DEF Alone
<1>15. Batches'
  BY DEF Batches
<1>16. Ended'
  BY DEF Ended, Threads
<1>17. QED
  BY <1>9, <1>10, <1>11, <1>12, <1>13, <1>14, <1>15, <1>16

\* A listener gets a number that nobody has, and its entry.
LEMMA OpenListenerInd ==
  ASSUME IInv, TypeInv', NEW s \in {"tcp", "udp"}, NEW p \in Labels \ {"ended"}, p \notin {"list", "add", "read", "destroy", "drop", "close"},
         pc["main"] \in {"idle", "openudp"}, Goto("main", p), OpenListener(s)
  PROVE  IInv'
<1> DEFINE f == LowestFree
<1>1. f \in Fds /\ open[f] = None
  BY LowestFreeType DEF OpenListener
<1>2. s \in Sources /\ s \notin Clients /\ LoopOf(s) = "net" /\ "net" \in Loops
  BY ClientsAssumption DEF Sources, Listeners, LoopOf, Loops, Clients
<1>3. \A l \in Loops : events[l][f] = None
  BY <1>1 DEF IInv, Entries
<1>4. events' = [events EXCEPT !["net"][f] = s] /\ open' = [open EXCEPT ![f] = s]
  BY <1>1, <1>2, <1>3, ControlIs DEF OpenListener, Registered
<1>5. pc' = [pc EXCEPT !["main"] = p] /\ UNCHANGED <<src, num, place, lock, cur, batch>>
  BY DEF OpenListener, Goto
<1> HIDE DEF f
<1> USE LoopThreads, ControlIs, NoneIsNobody, <1>1, <1>2, <1>3, <1>4, <1>5 DEF IInv
<1>6. SocketsOwned'
  BY DEF SocketsOwned
<1>7. Entries'
  BY DEF Entries
<1>8. ListedHaveEntry'
  <2>1. \A d \in Clients : src[d] # None /\ events[LoopOf(d)][src[d]] = d => events'[LoopOf(d)][src[d]] = d
    BY DEF LoopOf, Loops
  <2>2. QED
    BY <2>1 DEF ListedHaveEntry
<1>9. Gone'
  BY DEF Gone, Hands
<1>10. Hands'
  BY DEF Hands
<1>11. Alone'
  BY DEF Alone
<1>12. Batches'
  BY ClientsAssumption DEF Batches, Loops
<1>13. Ended'
  BY DEF Ended
<1>14. QED
  BY <1>6, <1>7, <1>8, <1>9, <1>10, <1>11, <1>12, <1>13

\* The server ends with nothing in anybody's hands.
LEMMA DeinitInd ==
  ASSUME IInv, TypeInv', Deinit
  PROVE  IInv'
<1>1. /\ \A t \in Threads : ~Holds(t)
      /\ \A c \in Clients : place[c] # "creating"
  BY DEF Deinit, Main, Threads, Holds, IInv, Hands
<1>2. \A l \in Loops : batch[l] = {}
  BY DEF Deinit, IInv, Batches
<1>3. /\ open' = [f \in Fds |-> IF open[f] \in Clients /\ place[open[f]] = "refused" THEN open[f] ELSE None]
      /\ src' = [c \in Clients |-> None]
      /\ place' = [c \in Clients |-> IF place[c] \in {"listed", "doomed"} THEN "freed" ELSE place[c]]
      /\ events' = [l \in Loops |-> [f \in Fds |-> None]]
      /\ pc["main"] = "join" /\ pc' = [pc EXCEPT !["main"] = "ended"]
      /\ UNCHANGED <<num, cur, batch, lock>>
  BY DEF Deinit, Main, Goto
<1>4. (\A l \in Loops : pc[l] = "done") /\ (\A w \in Workers : pc[w] = "idle")
  BY DEF Deinit
<1> USE LoopThreads, ControlIs, NoneIsNobody, <1>1, <1>2, <1>3 DEF IInv
<1>5. SocketsOwned'
  BY DEF SocketsOwned
<1>6. Entries' /\ Gone'
  BY DEF Entries, Gone, Holds
<1>7. ListedHaveEntry'
  BY DEF ListedHaveEntry
<1>8. Hands'
  BY DEF Hands, Holds
<1>9. Alone'
  BY DEF Alone, Holds
<1>10. Batches'
  BY DEF Batches
<1>11. Ended'
  BY <1>4, ClientsAssumption DEF Ended, Loops
<1>12. QED
  BY <1>5, <1>6, <1>7, <1>8, <1>9, <1>10, <1>11

\* Peers do not touch what the server keeps.
LEMMA PeerInd ==
  ASSUME IInv, TypeInv', NEW c \in Clients, PeerConnects(c) \/ \E d \in {"data", "eof"} : PeerSends(c, d)
  PROVE  IInv'
<1>1. \/ UNCHANGED place
      \/ place[c] = "unborn" /\ place' = [place EXCEPT ![c] = "waiting"]
  BY DEF PeerConnects, PeerSends, sockets
<1>2. UNCHANGED <<open, src, num, events, lock, pc, cur, batch>>
  BY DEF PeerConnects, PeerSends, sockets
<1> USE ControlIs, NoneIsNobody, <1>1, <1>2 DEF IInv
<1>3. SocketsOwned'
  BY DEF SocketsOwned
<1>4. Entries' /\ Gone'
  BY DEF Entries, Gone
<1>5. ListedHaveEntry'
  BY DEF ListedHaveEntry
<1>6. Hands' /\ Alone'
  BY DEF Hands, Alone
<1>7. Batches'
  BY DEF Batches
<1>8. Ended'
  BY DEF Ended
<1>9. QED
  BY <1>3, <1>4, <1>5, <1>6, <1>7, <1>8

\* Steps that change nothing the invariant is about.
LEMMA StutterInd ==
  ASSUME IInv, TypeInv', UNCHANGED <<core, pc, cur>>
  PROVE  IInv'
<1> USE DEF core, IInv
<1>1. SocketsOwned' /\ Entries' /\ ListedHaveEntry'
  BY DEF SocketsOwned, Entries, ListedHaveEntry
<1>2. Hands' /\ Alone' /\ Gone'
  BY DEF Hands, Alone, Gone
<1>3. Batches' /\ Ended'
  BY DEF Batches, Ended
<1>4. QED
  BY <1>1, <1>2, <1>3

\* A thread goes on from one label to another.
LEMMA Moves ==
  ASSUME IInv, NEW t \in Threads, NEW p \in Labels, Goto(t, p),
         UNCHANGED cur \/ \E s \in Sources \cup {None} : GotoWith(t, p, s),
         p \notin {"list", "add", "read", "destroy", "drop", "close", "ended"},
         pc[t] \notin Working \cup {"destroy"}, pc[t] = "idle" => t = "main", t \in Workers => pc[t] = "idle",
         t \in Loops /\ p \in Resting => pc[t] \in Resting \/ batch[t] = {},
         UNCHANGED core
  PROVE  Quiet(t)
<1>1. PICK s \in Sources \cup {None} : GotoWith(t, p, s)
  BY ControlIs DEF GotoWith
<1>2. QED
  BY <1>1 DEF Quiet

\* A thread is a loop, a worker or the main thread.
LEMMA Roles == Loops \cap Workers = {} /\ "main" \notin Workers /\ "main" \notin Loops
BY ClientsAssumption DEF Loops

\* Workers and loops take clients of others down, and create clients for test equipment.
LEMMA CallsInd ==
  ASSUME ~Early, IInv, TypeInv', NEW t \in Threads \ {"main"}, Calls(t), pc["main"] # "ended" \/ t \in Loops
  PROVE  IInv'
<1>1. pc[t] = (IF t \in Loops THEN "unpack" ELSE "idle")
  BY DEF Calls, Disconnect, TestCreate, MayCall
<1>2. pc["main"] # "ended"
  BY <1>1 DEF IInv, Ended
<1>3. ASSUME NEW n \in Fds, Disconnect(t, n)
      PROVE  IInv'
  <2>1. PICK c \in Listed("NET") \cup Listed("TEST") : Complete(c) /\ Unregister(t, c, "close")
    BY <1>3 DEF Disconnect
  <2>2. c \in Clients /\ place[c] = "listed"
    BY DEF Listed
  <2>3. QED
    BY <1>1, <1>2, <2>1, <2>2, UnregisterInd
<1>4. ASSUME NEW c \in TestClients, TestCreate(t, c)
      PROVE  IInv'
  <2>1. /\ c \in Clients /\ FreeFds # {} /\ NewClient(t, c) /\ place[c] = "unborn"
        /\ UNCHANGED <<events, lock, batch>>
    BY <1>4 DEF TestCreate, Clients
  <2>2. QED
    BY <1>1, <1>2, <2>1, NewClientInd
<1>5. QED
  BY <1>3, <1>4 DEF Calls

\* Every step of a loop keeps the invariant.
LEMMA LoopInd ==
  ASSUME IInv, TypeInv', NEW l \in Loops, LoopStep(l)
  PROVE  IInv'
<1> USE LoopThreads, LabelsAre, Roles
<1>1. CASE Copy(l)
  <2>1. \E p \in {"select", "done"} : Goto(l, p) /\ pc[l] = "top" /\ UNCHANGED cur /\ UNCHANGED core
    BY <1>1 DEF Copy, core, sockets
  <2>2. QED
    BY <2>1, Moves, QuietInd DEF Resting, Working
<1>2. CASE Select(l) \/ SelectFails(l)
  <2>1. \E p \in {"collect", "free"} : Goto(l, p) /\ pc[l] = "select" /\ UNCHANGED cur /\ UNCHANGED core
    BY <1>2 DEF Select, SelectFails, core, sockets
  <2>2. QED
    BY <2>1, Moves, QuietInd DEF Resting, Working
<1>3. CASE Dispatch(l)
  <2>1. CASE batch[l] = {}
    <3>1. Goto(l, "free") /\ pc[l] = "next" /\ UNCHANGED cur /\ UNCHANGED core
      BY <1>3, <2>1 DEF Dispatch, core, sockets
    <3>2. QED
      BY <2>1, <3>1, Moves, QuietInd DEF Resting, Working
  <2>2. QED
    BY <1>3, <2>1, DispatchInd
<1>4. CASE AcceptFails(l)
  <2>1. GotoWith(l, "next", None) /\ pc[l] = "accept" /\ UNCHANGED core
    BY <1>4 DEF AcceptFails, core, sockets
  <2>2. QED
    BY <2>1, Moves, QuietInd DEF Resting, Working, GotoWith
<1>5. CASE Datagram(l)
  <2>1. \E p \in {"unpack", "crashed"} : GotoWith(l, p, None) /\ pc[l] = "udp" /\ UNCHANGED core
    BY <1>5 DEF Datagram, core, sockets
  <2>2. QED
    BY <2>1, Moves, QuietInd DEF Resting, Working, GotoWith
<1>6. CASE Unpacked(l)
  <2>1. Goto(l, "next") /\ pc[l] = "unpack" /\ UNCHANGED cur /\ UNCHANGED core
    BY <1>6 DEF Unpacked, core, sockets
  <2>2. QED
    BY <2>1, Moves, QuietInd DEF Resting, Working
<1>7. CASE Read(l)
  <2>1. pc[l] = "read" /\ UNCHANGED core /\ \/ GotoWith(l, "unpack", None)
                                            \/ Goto(l, "destroy") /\ UNCHANGED cur
    BY <1>7 DEF Read, core, sockets
  <2>2. CASE GotoWith(l, "unpack", None)
    BY <2>1, <2>2, Moves, QuietInd DEF Resting, Working, GotoWith
  <2>3. CASE Goto(l, "destroy") /\ UNCHANGED cur
    <3>1. GotoWith(l, "destroy", cur[l])
      BY <2>3, ControlIs DEF GotoWith
    <3>2. Quiet(l)
      BY <2>1, <3>1, ControlIs DEF Quiet, Resting, Working
    <3>3. QED
      BY <3>2, QuietInd
  <2>4. QED
    BY <2>1, <2>2, <2>3
<1>8. CASE Accept(l)
  <2>1. PICK c \in Clients : place[c] = "waiting" /\ NewClient(l, c)
    BY <1>8 DEF Accept, WaitingAt
  <2>2. FreeFds # {} /\ pc[l] = "accept" /\ UNCHANGED <<events, lock, batch>>
    BY <1>8 DEF Accept
  <2>3. QED
    BY <2>1, <2>2, NewClientInd
<1>9. CASE Destroy(l)
  <2>1. pc[l] = "destroy" /\ Unregister(l, cur[l], "drop")
    BY <1>9 DEF Destroy
  <2>2. cur[l] \in Clients /\ LoopOf(cur[l]) = l /\ place[cur[l]] \in {"listed", "doomed"}
    BY <2>1 DEF IInv, Hands
  <2>3. Complete(cur[l])
    BY <2>1 DEF IInv, Alone, Complete
  <2>4. QED
    BY <2>1, <2>2, <2>3, UnregisterInd
<1>10. QED
  BY <1>1, <1>2, <1>3, <1>4, <1>5, <1>6, <1>7, <1>8, <1>9, CollectInd, FreeInd, RefuseInd, ListInd, AddInd, CloseInd
     DEF LoopStep

\* Every step of the main thread does.
LEMMA MainInd ==
  ASSUME ~Early, IInv, TypeInv',
         MainStep \/ OpenTcp \/ SwitchActive \/ SwitchDeactive \/ ReleaseIp \/ Stop
  PROVE  IInv'
<1> USE LoopThreads, LabelsAre, Roles
<1>1. CASE OpenTcp \/ OpenUdp
  <2>1. \E s \in {"tcp", "udp"}, p \in {"openudp", "udpclient"} :
           pc["main"] \in {"idle", "openudp"} /\ Goto("main", p) /\ OpenListener(s)
    BY <1>1 DEF OpenTcp, OpenUdp, Main
  <2>2. QED
    BY <2>1, OpenListenerInd
<1>2. CASE SetUdpClient \/ SwitchDeactive \/ ReleaseIp \/ Stop \/ StopNotifies
  <2>1. \E p \in {"idle", "all", "notifyipc", "notifynet", "join"} :
           /\ Goto("main", p) /\ UNCHANGED cur /\ UNCHANGED core
           /\ pc["main"] \in {"udpclient", "idle", "notifyipc", "notifynet"}
    BY <1>2 DEF SetUdpClient, SwitchDeactive, ReleaseIp, Stop, StopNotifies, Main, core, sockets
  <2>2. QED
    BY <2>1, Moves, QuietInd DEF Resting, Working
<1>3. CASE SwitchActive
  BY <1>3, StutterInd DEF SwitchActive, core, sockets
<1>4. CASE DisconnectAll
  <2>1. ASSUME NEW c \in Listed("NET"), Complete(c) \/ Early, Unregister("main", c, "close")
        PROVE  IInv'
    <3>1. c \in Clients /\ place[c] = "listed" /\ pc["main"] = "all"
      BY <1>4 DEF Listed, DisconnectAll
    <3>2. QED
      BY <2>1, <3>1, UnregisterInd
  <2>2. ASSUME Goto("main", "idle"), UNCHANGED cur, UNCHANGED core
        PROVE  IInv'
    <3>1. pc["main"] = "all"
      BY <1>4 DEF DisconnectAll
    <3>2. QED
      BY <2>2, <3>1, Moves, QuietInd DEF Resting, Working
  <2>3. QED
    BY <1>4, <2>1, <2>2 DEF DisconnectAll, core, sockets
<1>5. QED
  BY <1>1, <1>2, <1>3, <1>4, CloseInd, DeinitInd DEF MainStep

\* The invariant is inductive.
LEMMA StepInd ==
  ASSUME ~Early, IInv, [Next]_vars
  PROVE  IInv'
<1> USE LoopThreads, Roles
<1>1. TypeInv'
  BY TypeStep DEF IInv
<1>2. CASE UNCHANGED vars
  BY <1>1, <1>2, StutterInd DEF vars, core
<1>3. ASSUME NEW l \in Loops, LoopStep(l) \/ Calls(l)
      PROVE  IInv'
  BY <1>1, <1>3, LoopInd, CallsInd
<1>4. ASSUME NEW w \in Workers, CallerStep(w) \/ (pc["main"] # "ended" /\ Calls(w))
      PROVE  IInv'
  BY <1>1, <1>4, CallsInd, ListInd, AddInd, CloseInd DEF CallerStep
<1>5. QED
  BY <1>1, <1>2, <1>3, <1>4, MainInd, PeerInd DEF Next

\* The invariant says that events match sockets.
LEMMA EventsFollow == IInv => EventsMatchSockets
<1> SUFFICES ASSUME IInv PROVE EventsMatchSockets
  OBVIOUS
<1>1. \A l \in Loops : pc[l] = "read" /\ place[cur[l]] = "listed" => open[num[cur[l]]] = cur[l]
  BY LoopThreads DEF IInv, Hands, SocketsOwned
<1>2. QED
  BY <1>1 DEF IInv, Entries, ListedHaveEntry, EventsMatchSockets

\* The invariant says that nothing is used after it was freed.
LEMMA FreeFollows == IInv => NoUseAfterFree
<1> SUFFICES ASSUME IInv PROVE NoUseAfterFree
  OBVIOUS
<1>1. \A l \in Loops, c \in Clients, f \in Fds : <<f, c>> \in batch[l] => place[c] # "freed"
  BY DEF IInv, Batches
<1>2. \A t \in Threads : Holds(t) => place[cur[t]] # "freed"
  BY DEF IInv, Hands, Holds
<1>3. \A c \in Clients : place[c] = "freed" => src[c] = None /\ \A f \in Fds : open[f] # c
  <2>1. ASSUME NEW c \in Clients, place[c] = "freed"
        PROVE  src[c] = None /\ \A f \in Fds : open[f] # c
    <3>1. src[c] = None
      BY <2>1 DEF IInv, SocketsOwned
    <3>2. QED
      BY <2>1, <3>1, NoneIsNobody DEF IInv, SocketsOwned
  <2>2. QED
    BY <2>1
<1>4. QED
  BY <1>1, <1>2, <1>3 DEF IInv, Ended, NoUseAfterFree

\* Unless clients are taken down before their source is added, a loop always finds the right
\* client behind the number of an event, and reads from that client's own socket.
THEOREM EventsCorrect == ASSUME ~Early PROVE Spec => []EventsMatchSockets
<1>1. Init => IInv
  BY InitInd
<1>2. IInv /\ [Next]_vars => IInv'
  BY StepInd
<1>3. QED
  BY <1>1, <1>2, EventsFollow, PTL DEF Spec

\* Unless clients are taken down before their source is added, no thread ever uses a client that
\* was freed, and no socket of a freed client, or of a server that has ended, stays open,
\* refused ones apart.
THEOREM FreesCorrect == ASSUME ~Early PROVE Spec => []NoUseAfterFree
<1>1. Init => IInv
  BY InitInd
<1>2. IInv /\ [Next]_vars => IInv'
  BY StepInd
<1>3. QED
  BY <1>1, <1>2, FreeFollows, PTL DEF Spec
=============================================================================
