-------------------------- MODULE Announcement --------------------------
(***************************************************************************)
(* Vehicle announcement and identification (ne_doip_server_manager.c).     *)
(*                                                                         *)
(* When an interface has an address and an entity is registered, a timer   *)
(* of a random period starts; its callback announces the vehicle and       *)
(* starts an interval timer, whose callback announces it twice more.       *)
(* Requests for identification are answered by a timer of their own.       *)
(*                                                                         *)
(* The application reports addresses, the ipc thread registers entities,   *)
(* the net thread gets requests, the timer thread runs the callbacks. The  *)
(* fields of an interface are read and written without any lock. The timer *)
(* thread holds the lock of the timer manager in a callback; every other   *)
(* start or stop of a timer waits for it, some of them with another lock.  *)
(* How long a period is does not matter: a timer may expire at any time.   *)
(***************************************************************************)
EXTENDS Integers, FiniteSets

CONSTANTS
    NumIfs,      \* net_source_list has this many interfaces
    Testers,     \* senders of identification requests
    MaxId,       \* NE_DOIP_TIMER_MAX_NUM
    MaxNodes,    \* bound: how often an entity registers
    MaxCalls,    \* bound: how often the application reports or releases an address
    MaxAsks,     \* bound: requests for identification
    None

Ifs == 1 .. NumIfs
Ids == 1 .. MaxId
IpcLocks == {"app", "ipc"}      \* who holds node_ipc_list_sync for more than a step

ASSUME AnnouncementAssumption ==
    /\ NumIfs \in Nat \ {0} /\ MaxId \in Nat \ {0} /\ MaxNodes \in Nat /\ MaxCalls \in Nat /\ MaxAsks \in Nat
    /\ IsFiniteSet(Testers) /\ None \notin Nat \cup Testers \cup IpcLocks

VARIABLES
    net,        \* net_source_list: announce_state, announce_count, the two timer ids
    ifname,     \* config->ifname
    entities,   \* the entities in node_ipc_list, by the number of their registration
    born,       \* registrations so far
    udp,        \* node_udp_list: vehicle_identify_wait_timeid, 0 without a timer
    timers,     \* the timers in the timer manager
    marked,     \* its timer_table
    ipcLock,    \* node_ipc_list_sync
    app, ipc, netThread, clock,     \* where the four threads are
    calls, asks,    \* addresses reported and requests made so far
    sent,       \* history: messages of the current announcement of an interface
    mixed,      \* history: whether something else came into that announcement
    news,       \* history: interfaces of which nothing was said since they have an address and an entity
    missed,     \* history: whether a wait timer expired for nothing, or got no id
    spent       \* history: ids of wait timers that expired

manager == <<timers, marked>>
history == <<sent, mixed, news, missed, spent>>
vars == <<net, ifname, entities, born, udp, manager, ipcLock, app, ipc, netThread, clock, calls, asks, history>>

Idle == [pc |-> "idle"]
States == {"down", "configured", "announced"}
Fresh == [state |-> "down", count |-> 0, wait |-> 0, interval |-> 0]

Running == IF clock = Idle THEN {} ELSE {clock.timer.id}

\* The count never passes 2 between callbacks, and the only ids that stay marked without a
\* timer are those of wait timers: their callback does not stop them, and a timer that
\* fires once is freed without a word to the table.
TypeOK ==
    /\ net \in [Ifs -> [state : States, count : 0 .. 2, wait : 0 .. MaxId, interval : 0 .. MaxId]]
    /\ ifname \in Ifs \cup {None} /\ born \in 0 .. MaxNodes /\ entities \subseteq 1 .. born
    /\ udp \in [Testers -> 0 .. MaxId]
    /\ timers \subseteq [id : Ids, kind : {"wait", "interval", "identify"}]
    /\ marked \subseteq Ids /\ spent \subseteq marked
    /\ \A t, u \in timers : t.id = u.id => t = u
    /\ {t.id : t \in timers} \cap spent = {}
    /\ {t.id : t \in timers} \cup spent \subseteq marked
    /\ marked \subseteq {t.id : t \in timers} \cup spent \cup Running
    /\ ipcLock \in IpcLocks \cup {None}
    /\ app.pc \in {"idle", "announce", "start", "note"}
    /\ ipc.pc \in {"idle", "next", "start", "note", "disconnect"}
    /\ netThread.pc \in {"idle", "start"}
    /\ clock.pc \in {"idle", "entity", "send", "request"}

Init ==
    /\ net = [i \in Ifs |-> Fresh] /\ ifname = None
    /\ entities = {} /\ born = 0
    /\ udp = [r \in Testers |-> 0]
    /\ timers = {} /\ marked = {} /\ ipcLock = None
    /\ app = Idle /\ ipc = Idle /\ netThread = Idle /\ clock = Idle
    /\ calls = 0 /\ asks = 0
    /\ sent = [i \in Ifs |-> 0] /\ mixed = FALSE /\ news = {}
    /\ missed = FALSE /\ spent = {}

-----------------------------------------------------------------------------
\* The timer manager: see Timers for its own races

\* the k-th id that is not marked, 0 if there is none (ne_doip_nextID)
FreeId(k) ==
    LET F == Ids \ marked
        rank(n) == Cardinality({m \in F : m <= n})
    IN  IF k > Cardinality(F) THEN 0 ELSE CHOOSE n \in F : rank(n) = k

\* other threads than the timer thread wait for the end of a callback
ManagerFree == clock = Idle

Start(kind, id) ==
    /\ timers' = IF id = 0 THEN timers ELSE timers \cup {[id |-> id, kind |-> kind]}
    /\ marked' = marked \cup ({id} \ {0})

NoNumber(id) == marked' = marked
Stop(id) == marked' = marked \ {id}

\* something comes into an announcement: its messages are not counted on
Mixed == mixed' = TRUE /\ sent' = [i \in Ifs |-> 0]

-----------------------------------------------------------------------------
\* ne_doip_request_ip_addr_assignment and ne_doip_vehicle_announce, by the application

\* config->ifname and announce_state are written without a lock
Assign(i) ==
    /\ app = Idle /\ calls < MaxCalls
    /\ calls' = calls + 1 /\ ifname' = i
    /\ net' = [net EXCEPT ![i].state = "configured"]
    /\ app' = [pc |-> "announce", i |-> i]
    /\ Mixed /\ news' = news \cup {i}
    /\ UNCHANGED <<entities, born, udp, manager, ipcLock, ipc, netThread, clock, asks, missed, spent>>

\* with an entity the lock is kept
Announce ==
    /\ app.pc = "announce" /\ ipcLock = None
    /\ IF entities = {} \/ net[app.i].state = "announced"
       THEN app' = Idle /\ UNCHANGED ipcLock
       ELSE app' = [app EXCEPT !.pc = "start"] /\ ipcLock' = "app"
    /\ UNCHANGED <<net, ifname, entities, born, udp, manager, ipc, netThread, clock, calls, asks, history>>

StartWait ==
    /\ app.pc = "start" /\ ManagerFree
    /\ Start("wait", FreeId(1))
    /\ app' = [pc |-> "note", i |-> app.i, id |-> FreeId(1)]
    /\ missed' = (missed \/ FreeId(1) = 0)
    /\ UNCHANGED <<net, ifname, entities, born, udp, ipcLock, ipc, netThread, clock, calls, asks, sent, mixed, news, spent>>

NoteWait ==
    /\ app.pc = "note"
    /\ net' = [net EXCEPT ![app.i].wait = app.id, ![app.i].state = "announced"]
    /\ ipcLock' = None /\ app' = Idle
    /\ UNCHANGED <<ifname, entities, born, udp, manager, ipc, netThread, clock, calls, asks, history>>

\* ne_doip_release_ip_addr_assignment calls ne_doip_vehicle_announce_state_reset without its
\* argument: it finds what happens to be there, or no interface
Release ==
    /\ app = Idle /\ calls < MaxCalls /\ calls' = calls + 1
    /\ \E j \in Ifs \cup {None} :
           /\ net' = [i \in Ifs |-> IF i = j THEN [net[i] EXCEPT !.state = "down"] ELSE net[i]]
           /\ news' = news \ {j}
    /\ Mixed
    /\ UNCHANGED <<ifname, entities, born, udp, manager, ipcLock, app, ipc, netThread, clock, asks,
                   missed, spent>>

-----------------------------------------------------------------------------
\* The ipc thread: NE_DOIP_IN_PAYLOADTYPE_NODE_RGIST of an entity, and the end of its
\* connection

Register ==
    /\ ipc = Idle /\ born < MaxNodes /\ ipcLock = None
    /\ born' = born + 1 /\ entities' = entities \cup {born + 1}
    /\ ipc' = [pc |-> "next", i |-> 1]
    /\ news' = IF entities = {} THEN {i \in Ifs : net[i].state # "down"} ELSE news
    /\ UNCHANGED <<net, ifname, udp, manager, ipcLock, app, netThread, clock, calls, asks, sent, mixed, missed, spent>>

\* for each interface that waits for an entity
WaitsNot(i) == net[i].state = "down"
Waits(i) == net[i].state = "configured"

NextIf ==
    /\ ipc.pc = "next"
    /\ ipc' = IF ipc.i > NumIfs THEN Idle
              ELSE IF Waits(ipc.i) THEN [ipc EXCEPT !.pc = "start"]
              ELSE [ipc EXCEPT !.i = @ + 1]
    /\ UNCHANGED <<net, ifname, entities, born, udp, manager, ipcLock, app, netThread, clock, calls, asks, history>>

StartWaitOf ==
    /\ ipc.pc = "start" /\ ManagerFree
    /\ Start("wait", FreeId(1))
    /\ ipc' = [pc |-> "note", i |-> ipc.i, id |-> FreeId(1)]
    /\ missed' = (missed \/ FreeId(1) = 0)
    /\ UNCHANGED <<net, ifname, entities, born, udp, ipcLock, app, netThread, clock, calls, asks, sent, mixed, news, spent>>

NoteWaitOf ==
    /\ ipc.pc = "note"
    /\ net' = [net EXCEPT ![ipc.i].wait = ipc.id]
    /\ ipc' = [pc |-> "next", i |-> ipc.i + 1]
    /\ UNCHANGED <<ifname, entities, born, udp, manager, ipcLock, app, netThread, clock, calls, asks, history>>

\* ne_doip_remove_connection_table of an entity, or of a node that is none: the interface of
\* the last address waits again, the first one if there was none (an empty name matches).
\* The socket of its tester, if it had one, is disconnected with the lock kept, and that
\* stops timers.
Leave(n) ==
    LET i == IF ifname = None THEN 1 ELSE ifname IN
    /\ ipc = Idle /\ ipcLock = None
    /\ entities' = entities \ {n}
    /\ net' = [net EXCEPT ![i].state = "configured"]
    /\ \E tester \in BOOLEAN :
           IF tester THEN ipcLock' = "ipc" /\ ipc' = [pc |-> "disconnect"]
           ELSE UNCHANGED <<ipcLock, ipc>>
    /\ Mixed
    /\ UNCHANGED <<ifname, born, udp, manager, app, netThread, clock, calls, asks, news, missed, spent>>

Disconnect ==
    /\ ipc.pc = "disconnect" /\ ManagerFree
    /\ ipcLock' = None /\ ipc' = Idle
    /\ UNCHANGED <<net, ifname, entities, born, udp, manager, app, netThread, clock, calls, asks, history>>

-----------------------------------------------------------------------------
\* The net thread: ne_doip_unpack_vehicle_identification_req. It keeps node_udp_list_sync
\* while it starts the timer and notes its id.

Identify(r) ==
    /\ netThread = Idle /\ asks < MaxAsks
    /\ asks' = asks + 1
    /\ netThread' = [pc |-> "start", r |-> r]
    /\ UNCHANGED <<net, ifname, entities, born, udp, manager, ipcLock, app, ipc, clock, calls, history>>

StartIdentify ==
    /\ netThread.pc = "start" /\ ManagerFree
    /\ Start("identify", FreeId(1))
    /\ udp' = [udp EXCEPT ![netThread.r] = FreeId(1)]
    /\ netThread' = Idle
    /\ UNCHANGED <<net, ifname, entities, born, ipcLock, app, ipc, clock, calls, asks, history>>

-----------------------------------------------------------------------------
\* The timer thread

\* the interface a timer belongs to, by its id: the first of the list, 0 if there is none
First(S) == IF S = {} THEN 0 ELSE CHOOSE i \in S : \A j \in S : i <= j

\* the id of the timer is not written yet
Unwritten(id) == (app.pc = "note" /\ app.id = id) \/ (ipc.pc = "note" /\ ipc.id = id)

\* an announcement begins, and none is going on
Quiet == \A i \in Ifs : net[i].count = 0 /\ net[i].interval = 0 /\ \A t \in timers : t.kind # "interval"

\* ne_doip_vehicle_announce_wait_timer_callback
FireWait(t) ==
    LET i == First({j \in Ifs : net[j].wait = t.id}) IN
    /\ ManagerFree /\ t \in timers /\ t.kind = "wait"
    /\ timers' = timers \ {t} /\ spent' = spent \cup {t.id}
    /\ IF i = 0 THEN /\ missed' = (missed \/ Unwritten(t.id))
                     /\ UNCHANGED <<net, clock, sent, mixed>>
       ELSE /\ net' = [net EXCEPT ![i].state = "announced"]
            /\ clock' = [pc |-> "entity", i |-> i, timer |-> t, again |-> FALSE]
            /\ sent' = [sent EXCEPT ![i] = 0] /\ mixed' = ~Quiet
            /\ UNCHANGED missed
    /\ UNCHANGED <<ifname, entities, born, udp, marked, ipcLock, app, ipc, netThread, calls, asks, news>>

\* ne_doip_vehicle_announce_interval_timer_callback; a timer of no interface goes on
AtThird(i) == net[i].count = 3
AtSecond(i) == net[i].count = 2

FireInterval(t) ==
    LET i == First({j \in Ifs : net[j].interval = t.id}) IN
    /\ ManagerFree /\ t \in timers /\ t.kind = "interval" /\ i # 0
    /\ clock' = [pc |-> "entity", i |-> i, timer |-> t, again |-> ~AtSecond(i)]
    /\ timers' = timers \ {t}
    /\ IF AtSecond(i) THEN net' = [net EXCEPT ![i].interval = 0] /\ Stop(t.id) ELSE UNCHANGED <<net, marked>>
    /\ UNCHANGED <<ifname, entities, born, udp, ipcLock, app, ipc, netThread, calls, asks, history>>

\* an interval timer comes back into the list
Back == IF clock.again THEN {clock.timer} ELSE {}

Entity ==
    /\ clock.pc = "entity" /\ ipcLock = None
    /\ IF entities = {}
       THEN /\ clock' = Idle /\ timers' = timers \cup Back
            /\ missed' = (missed \/ clock.timer.kind = "wait")
       ELSE /\ clock' = [clock EXCEPT !.pc = "send"] /\ UNCHANGED <<timers, missed>>
    /\ UNCHANGED <<net, ifname, entities, born, udp, marked, ipcLock, app, ipc, netThread, calls, asks, sent, mixed, news, spent>>

\* ne_doip_pack, NE_DOIP_PAYLOAD_TYPE_VEHICLE_ANNOUNCEMENT: the message is counted for every
\* interface that is announced; a first one starts the interval timer, a third one ends
Counted(i) == net[i].state = "announced"

\* announce_count, a byte
Next3(n) == IF (n + 1) % 256 = 3 THEN 0 ELSE (n + 1) % 256

Send ==
    LET First1 == {i \in Ifs : Counted(i) /\ net[i].count = 0}
        id(i) == FreeId(Cardinality({j \in First1 : j <= i}))
    IN
    /\ clock.pc = "send"
    /\ net' = [i \in Ifs |->
                 IF ~Counted(i) THEN net[i]
                 ELSE [net[i] EXCEPT !.count = Next3(@),
                                     !.interval = IF i \in First1 THEN id(i) ELSE @]]
    /\ timers' = timers \cup Back \cup {[id |-> id(i), kind |-> "interval"] : i \in {j \in First1 : id(j) # 0}}
    /\ marked' = marked \cup {id(i) : i \in {j \in First1 : id(j) # 0}}
    /\ IF mixed \/ \E i \in First1 : id(i) = 0 THEN Mixed
       ELSE sent' = [sent EXCEPT ![clock.i] = IF @ < 4 THEN @ + 1 ELSE @] /\ UNCHANGED mixed
    /\ news' = news \ {clock.i}
    /\ clock' = Idle
    /\ UNCHANGED <<ifname, entities, born, udp, ipcLock, app, ipc, netThread, calls, asks, missed, spent>>

\* ne_doip_vehicle_indentify_wait_timer_callback
FireIdentify(t) ==
    /\ ManagerFree /\ t \in timers /\ t.kind = "identify"
    /\ timers' = timers \ {t}
    /\ clock' = [pc |-> "request", timer |-> t]
    /\ UNCHANGED <<net, ifname, entities, born, udp, marked, ipcLock, app, ipc, netThread, calls, asks, history>>

\* the request is looked up by the id, under node_udp_list_sync, its id is reset, and an
\* entity answers if there is one
NeverReset(r) == udp
Answered(r) == [udp EXCEPT ![r] = 0]

Request ==
    LET R == {r \in Testers : udp[r] = clock.timer.id} IN
    /\ clock.pc = "request" /\ netThread = Idle
    /\ Stop(clock.timer.id)
    /\ IF R = {} THEN UNCHANGED udp ELSE \E r \in R : udp' = Answered(r)
    /\ clock' = Idle
    /\ UNCHANGED <<net, ifname, entities, born, timers, ipcLock, app, ipc, netThread, calls, asks, history>>

-----------------------------------------------------------------------------

AppStep   == Announce \/ StartWait \/ NoteWait
IpcStep   == NextIf \/ StartWaitOf \/ NoteWaitOf \/ Disconnect
ClockStep == \/ Entity \/ Send \/ Request
             \/ \E t \in timers : FireWait(t) \/ FireInterval(t) \/ FireIdentify(t)

Next ==
    \/ (\E i \in Ifs : Assign(i)) \/ Release \/ AppStep
    \/ Register \/ (\E n \in entities \cup {None} : Leave(n)) \/ IpcStep
    \/ (\E r \in Testers : Identify(r)) \/ StartIdentify
    \/ ClockStep

Spec == Init /\ [][Next]_vars

\* The threads run; a lock that is given back again and again is got some time; a timer
\* expires, whatever others expire before it, because the list is sorted by deadlines.
Expires(id) == \E t \in timers : t.id = id /\ (FireWait(t) \/ FireInterval(t) \/ FireIdentify(t))

FairSpec ==
    /\ Spec
    /\ SF_vars(AppStep) /\ SF_vars(IpcStep) /\ SF_vars(StartIdentify)
    /\ SF_vars(Entity \/ Send \/ Request)
    /\ \A id \in Ids : SF_vars(Expires(id))

-----------------------------------------------------------------------------
\* Properties

\* Two threads wait for each other: the timer thread runs a callback with the lock of the
\* timer manager and wants a list's lock (ne_doip_server_manager.c:4509, 4555, 4584),
\* another thread has that one and wants to start or stop a timer (2437, 4444, 545).
Crosswise ==
    \/ clock.pc = "entity" /\ (app.pc = "start" \/ ipc.pc = "disconnect")
    \/ clock.pc = "request" /\ netThread.pc = "start"

\* With one interface, an announcement into which nothing else comes (no other wait timer,
\* no change of the address, no entity that leaves, no lack of ids) is three messages, and
\* the interval timer runs from the first to the last and no longer. The callbacks keep the
\* count in two places: one counts messages, the other looks for 2 before its message.
ThriceUnlessMixed ==
    ~mixed => \A i \in Ifs :
        /\ sent[i] <= 3
        /\ clock = Idle => /\ net[i].count = sent[i] % 3
                           /\ net[i].interval # 0 <=> sent[i] \in {1, 2}
                           /\ \A t \in timers : t.kind = "interval" => t.id = net[i].interval

\* A request that has its timer is taken up, whatever the timers of others do
\* (ne_doip_vehicle_indentify_wait_timer_callback), unless two threads block each other.
IdentifyAnswered == \A r \in Testers : udp[r] # 0 ~> (udp[r] = 0 \/ Crosswise)

\* An interface with an address is announced once an entity is there, whichever comes first
\* and however the two threads overlap: each sets its own part before it looks for the
\* other's (4429 and 4431, 4187 and 4196). What is excepted: a wait timer that expires
\* before its id is written or while the entity is away, ids that have run out, threads
\* that block each other.
NewsIsTold ==
    \A i \in Ifs :
        (i \in news /\ entities # {} /\ net[i].state # "down")
        ~> (i \notin news \/ entities = {} \/ net[i].state = "down" \/ missed \/ Crosswise)

\* ne_doip_server.h says of ne_doip_request_ip_addr_assignment "Synchronous I/F.": the call
\* comes back
CallReturns == app # Idle ~> app = Idle
=============================================================================
