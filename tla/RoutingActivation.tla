-------------------------- MODULE RoutingActivation --------------------------
(***************************************************************************)
(* The connection table of the DoIP server (node_tcp_list of               *)
(* ne_doip_server_manager.c): testers connect over TCP, ask for routing    *)
(* activation with a source address (SA) and are registered, checked for   *)
(* being alive, activated or closed.                                       *)
(*                                                                         *)
(* Three threads work on the table.  The net thread accepts sockets and    *)
(* handles messages, the timer thread runs the callbacks of the inactivity *)
(* and alive-check timers, the ipc thread delivers the user's              *)
(* confirmations.  A step is what a thread does under one hold of          *)
(* node_tcp_list_sync; npc and tpc say what the net and the timer thread   *)
(* do next without it.                                                     *)
(*                                                                         *)
(* The timer thread holds the timer manager's lock for a whole callback.   *)
(* A step of the net thread that starts or stops a timer therefore happens *)
(* between callbacks (TimerLockFree).  That the net thread takes the two   *)
(* locks in the other order, and may never get there, is not modelled here.*)
(***************************************************************************)
EXTENDS Integers, Sequences, FiniteSets, SequencesExt

CONSTANTS
  Fds,          \* socket numbers; the kernel reuses a closed one
  SAs,          \* source addresses of testers
  NoFd, NoSA,   \* the value 0 of a field
  mcts,         \* config->mcts
  TimerIds,     \* 1 .. NE_DOIP_TIMER_MAX_NUM
  MayBeVisible, \* the values that visible may have
  NeedAuth,     \* config->authen_info # 0
  MaxConns      \* bound on the number of accepted connections

ASSUME mctsAssumption == mcts \in 1 .. 255
ASSUME TimerIdsAssumption == TimerIds \subseteq Nat \ {0}
ASSUME NoneAssumption == NoFd \notin Fds /\ NoSA \notin SAs
ASSUME MaxConnsAssumption == MaxConns \in Nat
ASSUME FlagAssumption == MayBeVisible \in SUBSET BOOLEAN /\ NeedAuth \in BOOLEAN

VARIABLES
  table,        \* node_tcp_list
  open,         \* net_client_list: open sockets, each with its connection (ghost)
  timers,       \* timer_head: the running timers
  used,         \* the ids marked in timer_table
  ncts,         \* alive_check_ncts
  visible,      \* config: no edge gateway, and egw_control is set
  entity,       \* the entity in node_ipc_list, and its confirmation_flag
  npc,          \* what the net thread does next
  tpc,          \* what the timer thread does next
  conns         \* history: how many connections were accepted

vars == <<table, open, timers, used, ncts, visible, entity, npc, tpc, conns>>

-----------------------------------------------------------------------------
\* ne_doip_node_tcp_table_t.  conn is a ghost that names the entry itself, as
\* a pointer does; ok says whether authen_info is the configured one.
Entry(fd, conn) ==
  [fd |-> fd, conn |-> conn, regist |-> FALSE, sa |-> NoSA, state |-> "init",
   ok |-> ~NeedAuth, single |-> FALSE, all |-> FALSE, routing_fd |-> NoFd,
   routing_sa |-> NoSA, initial |-> 0, general |-> 0, alive |-> 0]

Idle == [at |-> "idle"]

\* The open sockets, and what is left of them when one is closed.
Open == DOMAIN open
AllBut(fd) == [f \in Open \ {fd} |-> open[f]]

\* The lookup functions return the first entry that matches; 0 is NULL.
First(M) == IF M = {} THEN 0 ELSE CHOOSE i \in M : \A j \in M : i <= j

FindByFd(fd) == First({i \in DOMAIN table : table[i].fd = fd})
FindByTimerId(id) ==
  First({i \in DOMAIN table : id \in {table[i].initial, table[i].general, table[i].alive}})
FindBySA(sa, t) == First({i \in DOMAIN t : t[i].sa = sa})
Pointer(conn) == First({i \in DOMAIN table : table[i].conn = conn})

Registered == {i \in DOMAIN table : table[i].regist}

-----------------------------------------------------------------------------
\* The timer manager.  TS and US are the running timers and the marked ids.

TimerLockFree == tpc = Idle

FreeIds(US) == TimerIds \ US
IdAbove(US) == IF US = {} THEN 1 ELSE 1 + CHOOSE i \in US : \A j \in US : i >= j
LowestId(US) == CHOOSE i \in TimerIds : \A j \in TimerIds : i <= j
NextId(US) ==
  IF FreeIds(US) = {} THEN 0 ELSE CHOOSE i \in FreeIds(US) : \A j \in FreeIds(US) : i <= j

Timer(id, kind) == [id |-> id, kind |-> kind]

\* ne_doip_timer_start that took id: with id 0 nothing is started.
Started(id, kind) == IF id = 0 THEN {} ELSE {Timer(id, kind)}

StartOne(kind) ==
  /\ timers' = timers \cup Started(NextId(used), kind)
  /\ used' = used \cup ({NextId(used)} \ {0})

\* ne_doip_timer_stop; id 0 is ignored.
StillRunning(TS, ids) == TS
Without(TS, ids) == {t \in TS : t.id \notin ids}

StopIds(ids) ==
  /\ timers' = Without(timers, ids)
  /\ used' = used \ ids

-----------------------------------------------------------------------------
Init ==
  /\ table = <<>> /\ open = <<>> /\ timers = {} /\ used = {}
  /\ ncts = 0 /\ entity = "none" /\ visible \in MayBeVisible
  /\ npc = Idle /\ tpc = Idle
  /\ conns = 0

\* The ipc thread: the entity registers, and announces that it confirms.
RegistEntity ==
  /\ entity = "none"
  /\ entity' = "plain"
  /\ UNCHANGED <<table, open, timers, used, ncts, npc, tpc, conns, visible>>

RegistUserConf ==
  /\ entity = "plain"
  /\ entity' = "confirm"
  /\ UNCHANGED <<table, open, timers, used, ncts, npc, tpc, conns, visible>>

-----------------------------------------------------------------------------
\* ne_doip_tcp_socket_data and ne_doip_add_connection_table.  With mcts + 1
\* sockets open the new one is dropped.

HasSlot == Cardinality(Open) < mcts + 1

Accept(fd) ==
  /\ npc = Idle
  /\ fd \notin Open
  /\ HasSlot
  /\ conns < MaxConns
  /\ conns' = conns + 1
  /\ open' = [f \in Open \cup {fd} |-> IF f = fd THEN conns' ELSE open[f]]
  /\ table' = Append(table, Entry(fd, conns'))
  /\ npc' = [at |-> "accepted", conn |-> conns']
  /\ UNCHANGED <<timers, used, ncts, entity, tpc, visible>>

\* The initial inactivity timer is started when the entry is in the list.
StartInitial ==
  /\ npc.at = "accepted" /\ TimerLockFree
  /\ StartOne("initial")
  /\ LET p == Pointer(npc.conn)
     IN  table' = IF p = 0 THEN table ELSE [table EXCEPT ![p].initial = NextId(used)]
  /\ npc' = Idle
  /\ UNCHANGED <<open, ncts, entity, tpc, conns, visible>>

-----------------------------------------------------------------------------
\* ne_doip_net_unpack: every message (one per chunk of data) restarts the
\* general inactivity timer of its socket, or starts it.  A restart with a stale id restarts nothing, or
\* the timer of somebody else; which timers run does not change.

Receives(fd) ==
  /\ npc = Idle /\ TimerLockFree
  /\ fd \in Open /\ FindByFd(fd) # 0

\* The table, timers and marked ids after the message has touched entry p.
Touch(p) ==
  IF table[p].general # 0
  THEN [t |-> table, ts |-> timers, us |-> used]
  ELSE LET id == NextId(used)
       IN  [t |-> [table EXCEPT ![p].general = id],
            ts |-> timers \cup Started(id, "general"),
            us |-> used \cup ({id} \ {0})]

\* Any other message that the table has no part in.
OtherMessage(fd) ==
  /\ Receives(fd)
  /\ LET new == Touch(FindByFd(fd))
     IN  table' = new.t /\ timers' = new.ts /\ used' = new.us
  /\ UNCHANGED <<open, ncts, entity, npc, tpc, conns, visible>>

\* A request with a wrong length, an unknown SA or an unsupported type, or
\* another message that is answered by a header nack that closes.
BadMessage(fd) ==
  /\ Receives(fd)
  /\ LET new == Touch(FindByFd(fd))
     IN  table' = new.t /\ timers' = new.ts /\ used' = new.us
  /\ npc' = [at |-> "close", fd |-> fd, reset |-> FALSE]
  /\ UNCHANGED <<open, ncts, entity, tpc, conns, visible>>

-----------------------------------------------------------------------------
\* ne_doip_unpack_routing_activation_req, up to the end of its critical section

\* Off by one in the count of registered sockets.
FullAtNext(reg) == Cardinality(reg) = mcts + 1
Full(reg) == Cardinality(reg) = mcts

\* What the request does with the entry, after Figure 13 of ISO 13400-2.
Slot(t, p, sa) ==
  LET reg == {i \in DOMAIN t : t[i].regist}
  IN  CASE reg = {}                                     -> "register"
        [] reg # {} /\ t[p].regist /\ t[p].sa = sa      -> "same"
        [] reg # {} /\ t[p].regist /\ t[p].sa # sa      -> "other_sa"
        [] reg # {} /\ ~t[p].regist /\ FindBySA(sa, t) # 0 -> "taken"
        [] OTHER -> IF Full(reg) THEN "full" ELSE "register"

AfterRequest(slot, t, p, sa) ==
  CASE slot \in {"register", "same"} -> [at |-> "auth", fd |-> t[p].fd]
    [] slot = "other_sa" -> [at |-> "close", fd |-> t[p].fd, reset |-> FALSE]
    [] slot = "taken" /\ ~visible ->
         [at |-> "single", fd |-> t[p].fd, conn |-> t[FindBySA(sa, t)].conn]
    [] slot = "taken" /\ visible -> [at |-> "direct", conn |-> t[p].conn, sa |-> sa]
    [] slot = "full" -> [at |-> "all", conn |-> t[p].conn, sa |-> sa]

RequestedSAs == IF visible THEN SAs \cup {NoSA} ELSE SAs

\* The id of the initial timer stays in the entry when the timer is stopped.
RoutingRequest(fd, sa, ok) ==
  /\ Receives(fd)
  /\ sa \in RequestedSAs
  /\ NeedAuth \/ ok
  /\ LET p == FindByFd(fd)
         new == Touch(p)
         t == [new.t EXCEPT ![p].ok = ok]
         slot == Slot(t, p, sa)
     IN  /\ timers' = Without(new.ts, {table[p].initial})
         /\ used' = new.us \ {table[p].initial}
         /\ table' = IF slot = "register"
                     THEN [t EXCEPT ![p].regist = TRUE, ![p].sa = sa] ELSE t
         /\ npc' = AfterRequest(slot, t, p, sa)
  /\ UNCHANGED <<open, ncts, entity, tpc, conns, visible>>

-----------------------------------------------------------------------------
\* The rest of the request, without the lock.

\* ne_doip_routing_activation_check_authentication and _check_confirmation:
\* what becomes of the entry.  Without a registered entity it stays pending.
PassesAlways(e) == entity # "none"
PassesAuth(e) == entity # "none" /\ e.ok

Checked(e) ==
  IF ~PassesAuth(e) THEN [e EXCEPT !.state = "auth"]
  ELSE IF entity = "confirm" THEN [e EXCEPT !.state = "conf"]
  ELSE [e EXCEPT !.state = "active", !.regist = TRUE]

CheckAuthentication ==
  /\ npc.at = "auth"
  /\ LET p == FindByFd(npc.fd)
     IN  table' = IF p = 0 THEN table ELSE [table EXCEPT ![p] = Checked(@)]
  /\ npc' = Idle
  /\ UNCHANGED <<open, timers, used, ncts, entity, tpc, conns, visible>>

\* The SA belongs to another entry, which is asked whether it is alive.  A new
\* timer overwrites the id of an older one.
AliveCheckSingle ==
  /\ npc.at = "single" /\ TimerLockFree
  /\ StartOne("alive")
  /\ LET p == Pointer(npc.conn)
     IN  table' = IF p = 0 THEN table
                  ELSE [table EXCEPT ![p].routing_fd = npc.fd, ![p].single = TRUE,
                                     ![p].alive = NextId(used)]
  /\ npc' = Idle
  /\ UNCHANGED <<open, ncts, entity, tpc, conns, visible>>

\* A visible node takes the SA over at once.
ActivateDirectly ==
  /\ npc.at = "direct"
  /\ LET p == Pointer(npc.conn)
     IN  table' = IF p = 0 THEN table
                  ELSE [table EXCEPT ![p].state = "active", ![p].regist = TRUE, ![p].sa = npc.sa]
  /\ npc' = Idle
  /\ UNCHANGED <<open, timers, used, ncts, entity, tpc, conns, visible>>

\* mcts sockets are registered: all of them are asked.  The free ids go to them
\* in the order of the list, the lowest first, as far as there are any.
RankOf(i, S) == Cardinality({j \in S : j <= i})

NewIds ==
  [i \in Registered |->
     LET fits == {id \in FreeIds(used) : RankOf(id, FreeIds(used)) = RankOf(i, Registered)}
     IN  IF fits = {} THEN 0 ELSE CHOOSE id \in fits : TRUE]

AliveCheckAll ==
  /\ npc.at = "all" /\ TimerLockFree
  /\ timers' = timers \cup UNION {Started(NewIds[i], "alive") : i \in Registered}
  /\ used' = used \cup ({NewIds[i] : i \in Registered} \ {0})
  /\ table' = [i \in DOMAIN table |->
                 IF i \in Registered
                 THEN [table[i] EXCEPT !.all = TRUE, !.routing_sa = npc.sa, !.alive = NewIds[i]]
                 ELSE IF table[i].conn = npc.conn THEN [table[i] EXCEPT !.sa = npc.sa]
                 ELSE table[i]]
  /\ npc' = Idle
  /\ UNCHANGED <<open, ncts, entity, tpc, conns, visible>>

-----------------------------------------------------------------------------
\* ne_doip_unpack_alive_check_res.  The entry is found by the SA in the
\* message, whoever sent it.

\* The requester is refused when all mcts sockets have answered.
Refused(t, sa) ==
  LET r == FindBySA(sa, t)
  IN  IF r # 0 /\ ~t[r].regist
      THEN [at |-> "close", fd |-> t[r].fd, reset |-> TRUE] ELSE Idle

AnswerAll(t, p) ==
  /\ table' = [t EXCEPT ![p].all = FALSE]
  /\ IF ncts + 1 = mcts
     THEN /\ npc' = Refused(t, t[p].routing_sa)
          /\ ncts' = IF npc' = Idle THEN 0 ELSE ncts + 1
     ELSE /\ npc' = Idle
          /\ ncts' = ncts + 1

AnswerSingle(t, p) ==
  /\ table' = [t EXCEPT ![p].single = FALSE]
  /\ npc' = [at |-> "close", fd |-> t[p].routing_fd, reset |-> FALSE]
  /\ UNCHANGED ncts

AliveResponse(fd, sa) ==
  /\ Receives(fd)
  /\ LET new == Touch(FindByFd(fd))
         p == FindBySA(sa, new.t)
         stopped == IF p = 0 THEN {} ELSE {table[p].alive} \ {0}
     IN  /\ timers' = Without(new.ts, stopped)
         /\ used' = new.us \ stopped
         /\ IF p # 0 /\ new.t[p].all THEN AnswerAll(new.t, p)
            ELSE IF p # 0 /\ new.t[p].single THEN AnswerSingle(new.t, p)
            ELSE /\ table' = new.t
                 /\ UNCHANGED <<ncts, npc>>
  /\ UNCHANGED <<open, entity, tpc, conns, visible>>

-----------------------------------------------------------------------------
\* ne_doip_server_disconnect and ne_doip_client_destroy

\* ne_doip_remove_connection_table: the three ids of the entry are stopped.
LastWithFd(fd) ==
  LET M == {i \in DOMAIN table : table[i].fd = fd}
  IN  IF M = {} THEN 0 ELSE CHOOSE i \in M : \A j \in M : i >= j
FirstWithFd(fd) == FindByFd(fd)

RemoveEntry(fd) ==
  LET p == FirstWithFd(fd)
  IN  IF p = 0 THEN UNCHANGED <<table, timers, used>>
      ELSE /\ StopIds({table[p].initial, table[p].general, table[p].alive})
           /\ table' = RemoveAt(table, p)

\* The socket is closed under net_list_sync, its entry removed later.
ClosingOnly(pc) == Idle
Closing(pc) == IF pc.fd \in Open THEN [pc EXCEPT !.at = "remove"] ELSE Idle

NetClose ==
  /\ npc.at = "close"
  /\ open' = AllBut(npc.fd)
  /\ npc' = Closing(npc)
  /\ ncts' = IF npc.fd \notin Open /\ npc.reset THEN 0 ELSE ncts
  /\ UNCHANGED <<table, timers, used, entity, tpc, conns, visible>>

NetRemove ==
  /\ npc.at = "remove" /\ TimerLockFree
  /\ RemoveEntry(npc.fd)
  /\ npc' = Idle
  /\ ncts' = IF npc.reset THEN 0 ELSE ncts
  /\ UNCHANGED <<open, entity, tpc, conns, visible>>

\* End of file or an error on a socket: both under net_list_sync.
ClientDestroy(fd) ==
  /\ npc = Idle /\ TimerLockFree
  /\ fd \in Open
  /\ open' = AllBut(fd)
  /\ RemoveEntry(fd)
  /\ UNCHANGED <<ncts, entity, npc, tpc, conns, visible>>

-----------------------------------------------------------------------------
\* NE_DOIP_IN_PAYLOADTYPE_USER_CONF_RESULT on the ipc thread.  A rejection is
\* only reported.
UserConfirms(sa) ==
  /\ entity # "none"
  /\ LET p == FindBySA(sa, table)
     IN  /\ p # 0 /\ table[p].state = "conf"
         /\ table' = [table EXCEPT ![p].state = "active", ![p].regist = TRUE]
  /\ UNCHANGED <<open, timers, used, ncts, entity, npc, tpc, conns, visible>>

-----------------------------------------------------------------------------
\* The callbacks of the timers.  The callback finds an entry by the timer's id.

Fires(t) ==
  /\ tpc = Idle
  /\ t \in timers
  /\ timers' = timers \ {t}
  /\ used' = used \ {t.id}

ThenClose(p, t) ==
  tpc' = IF p = 0 THEN Idle ELSE [at |-> "close", fd |-> table[p].fd, timer |-> t]

\* ne_doip_initial_timer_callback and ne_doip_general_timer_callback
Inactivity(t) ==
  /\ t.kind \in {"initial", "general"}
  /\ Fires(t)
  /\ ThenClose(FindByTimerId(t.id), t)
  /\ UNCHANGED <<table, open, ncts, entity, npc, conns, visible>>

\* ne_doip_alive_check_timer_callback: the requester takes the place of the
\* socket that did not answer, which is closed.
TakesOver(r, sa) ==
  table' = [table EXCEPT ![r] = Checked([@ EXCEPT !.sa = sa, !.regist = TRUE])]

NoAnswer(t) ==
  /\ t.kind = "alive"
  /\ Fires(t)
  /\ LET p == FindByTimerId(t.id)
     IN  /\ ThenClose(p, t)
         /\ IF p = 0 THEN UNCHANGED <<table, ncts>>
            ELSE IF table[p].single
            THEN LET r == FindByFd(table[p].routing_fd)
                 IN  /\ IF r = 0 THEN UNCHANGED table ELSE TakesOver(r, table[p].sa)
                     /\ UNCHANGED ncts
            ELSE LET sa == table[p].routing_sa
                     r == FindBySA(sa, table)
                 IN  /\ IF r = 0 \/ table[r].regist THEN UNCHANGED table ELSE TakesOver(r, sa)
                     /\ ncts' = IF ncts + 1 = mcts THEN 0 ELSE ncts + 1
  /\ UNCHANGED <<open, entity, npc, conns, visible>>

TimerClose ==
  /\ tpc # Idle /\ tpc.at = "close"
  /\ open' = AllBut(tpc.fd)
  /\ tpc' = Closing(tpc)
  /\ UNCHANGED <<table, timers, used, ncts, entity, npc, conns, visible>>

TimerRemove ==
  /\ tpc # Idle /\ tpc.at = "remove"
  /\ RemoveEntry(tpc.fd)
  /\ tpc' = Idle
  /\ UNCHANGED <<open, ncts, entity, npc, conns, visible>>

-----------------------------------------------------------------------------

Net ==
  \/ \E fd \in Fds :
       \/ Accept(fd) \/ OtherMessage(fd) \/ BadMessage(fd) \/ ClientDestroy(fd)
       \/ \E sa \in SAs \cup {NoSA}, ok \in BOOLEAN : RoutingRequest(fd, sa, ok)
       \/ \E sa \in SAs \cup {NoSA} : AliveResponse(fd, sa)
  \/ StartInitial \/ CheckAuthentication \/ ActivateDirectly
  \/ AliveCheckSingle \/ AliveCheckAll
  \/ NetClose \/ NetRemove

Ipc == RegistEntity \/ RegistUserConf \/ \E sa \in SAs \cup {NoSA} : UserConfirms(sa)

TimerThread ==
  \/ \E t \in timers : Inactivity(t) \/ NoAnswer(t)
  \/ TimerClose \/ TimerRemove

Next == Net \/ Ipc \/ TimerThread

Spec == Init /\ [][Next]_vars
-----------------------------------------------------------------------------
(* Properties *)

EntryType ==
  [fd : Fds, conn : 1 .. MaxConns, regist : BOOLEAN, sa : SAs \cup {NoSA},
   state : {"init", "auth", "conf", "active"}, ok : BOOLEAN, single : BOOLEAN, all : BOOLEAN,
   routing_fd : Fds \cup {NoFd}, routing_sa : SAs \cup {NoSA},
   initial : TimerIds \cup {0}, general : TimerIds \cup {0}, alive : TimerIds \cup {0}]

TimerType == [id : TimerIds, kind : {"initial", "general", "alive"}]

\* The variables stay in their types.
TypeOK ==
  /\ table \in Seq(EntryType)
  /\ Open \subseteq Fds /\ \A fd \in Open : open[fd] \in 1 .. MaxConns
  /\ timers \subseteq TimerType
  /\ used \subseteq TimerIds
  /\ ncts \in Nat /\ visible \in BOOLEAN
  /\ entity \in {"none", "plain", "confirm"}
  /\ npc.at \in {"idle", "accepted", "auth", "single", "direct", "all", "close", "remove"}
  /\ tpc.at \in {"idle", "close", "remove"}
  /\ conns \in 0 .. MaxConns

Removing(fd) ==
  \/ npc.at = "remove" /\ npc.fd = fd
  \/ tpc.at = "remove" /\ tpc.fd = fd

\* The connection table and the list of open sockets, which are kept under
\* different locks and changed by two threads, agree: every open socket has the
\* entry of its own connection, not one left by an older connection with the
\* same number, and every entry without an open socket is about to be removed.
TableMatchesSockets ==
  /\ \A fd \in Open : \E i \in DOMAIN table : table[i].fd = fd /\ table[i].conn = open[fd]
  /\ \A i \in DOMAIN table :
       (table[i].fd \in Open /\ open[table[i].fd] = table[i].conn) \/ Removing(table[i].fd)

\* The ids that timer_table marks are exactly those of the running timers, and
\* no two running timers share an id, although entries keep the ids of timers
\* that were stopped long ago and stop them again.
TimersAccounted ==
  /\ used = {t.id : t \in timers}
  /\ \A t, u \in timers : t.id = u.id => t = u

\* A thread is closing the socket of entry i.
Doomed(i) ==
  \/ Removing(table[i].fd) \/ (tpc.at = "close" /\ tpc.fd = table[i].fd)
  \/ (npc.at = "close" /\ npc.fd = table[i].fd)

\* Except on a visible node, a socket is active only when its last authentication
\* information was right and an entity is registered; a repeated request is the
\* exception while the net thread is about to check it, or to close the socket.
ActiveIsAuthorized ==
  ~visible => \A i \in DOMAIN table :
    table[i].state = "active" =>
      /\ entity # "none"
      /\ table[i].ok \/ Doomed(i) \/ (npc.at = "auth" /\ npc.fd = table[i].fd)

\* An entry that left its initial state is registered, and a registered entry
\* has left it, unless the net thread is about to check it.
RegisteredIsPending ==
  \A i \in DOMAIN table :
    /\ table[i].state # "init" => table[i].regist
    /\ table[i].regist /\ table[i].state = "init" => npc.at = "auth" /\ npc.fd = table[i].fd

\* What an entry's state says of its socket was earned: activation by the checks,
\* pending by a registration, whatever repeated requests, late answers, timeouts of an
\* alive check and the user's answer come in between.
StateEarned == ActiveIsAuthorized /\ RegisteredIsPending

\* MCTS is the maximum number of concurrent TCP_DATA sockets: no more than mcts
\* sockets are registered, not counting those that a thread is closing.  A visible
\* node is excepted: it activates the requester of a known SA without counting.
WithinMcts == ~visible => Cardinality({i \in Registered : ~Doomed(i)}) <= mcts

\* The initial inactivity timer is stopped when a socket asks for activation,
\* so its timeout closes no socket that is active.
InitialSparesActive ==
  tpc.at = "close" /\ tpc.timer.kind = "initial" =>
    \A i \in DOMAIN table : table[i].fd = tpc.fd => table[i].state # "active"
=============================================================================
