----------------------- MODULE RoutingActivationProofs -----------------------
(* Theorems about RoutingActivation, for every number of sockets, source addresses, timers and
   connections. *)
EXTENDS RoutingActivation, Lemmas

-----------------------------------------------------------------------------
\* Sequences: the entries keep their order when one is taken out.
LEMMA RemoveAtKeeps ==
  ASSUME NEW S, NEW s \in Seq(S), NEW p \in 1 .. Len(s)
  PROVE  /\ RemoveAt(s, p) \in Seq(S)
         /\ Len(RemoveAt(s, p)) = Len(s) - 1
         /\ \A i \in 1 .. Len(s) - 1 : RemoveAt(s, p)[i] = IF i < p THEN s[i] ELSE s[i + 1]
<1>1. RemoveAt(s, p) = WithoutPlace(s, p)
  BY DEF RemoveAt, WithoutPlace
<1>2. QED
  BY <1>1, TakenOut

\* The lookup functions return the first entry that matches, and 0 only if there is none.
LEMMA FirstIs ==
  ASSUME NEW M, M \subseteq Nat \ {0}
  PROVE  /\ First(M) = 0 <=> M = {}
         /\ M # {} => First(M) \in M /\ \A j \in M : First(M) <= j
<1>1. M # {} => \E i \in M : \A j \in M : i <= j
  BY LeastNumber
<1>2. QED
  BY <1>1 DEF First

\* An id that the timer manager gives is free.
LEMMA NextIdIs ==
  ASSUME NEW US
  PROVE  NextId(US) = 0 \/ NextId(US) \in TimerIds \ US
<1>1. FreeIds(US) \subseteq Nat
  BY TimerIdsAssumption DEF FreeIds
<1>2. FreeIds(US) # {} => \E i \in FreeIds(US) : \A j \in FreeIds(US) : i <= j
  BY <1>1, LeastNumber
<1>3. QED
  BY <1>2 DEF NextId, FreeIds

\* The id that an entry gets when all are checked is free.
LEMMA NewIdsAre ==
  ASSUME NEW i \in Registered
  PROVE  NewIds[i] = 0 \/ NewIds[i] \in TimerIds \ used
<1> DEFINE fits == {id \in FreeIds(used) : RankOf(id, FreeIds(used)) = RankOf(i, Registered)}
<1>1. NewIds[i] = IF fits = {} THEN 0 ELSE CHOOSE id \in fits : TRUE
  BY DEF NewIds
<1>2. fits \subseteq TimerIds \ used
  BY DEF FreeIds
<1> HIDE DEF fits
<1>3. QED
  BY <1>1, <1>2

-----------------------------------------------------------------------------
\* What the timer manager keeps has its type, and is accounted for.
Accounted(TS, US) ==
    /\ TS \subseteq TimerType /\ US \subseteq TimerIds
    /\ US = {t.id : t \in TS}
    /\ \A t, u \in TS : t.id = u.id => t = u

TimersInv == Accounted(timers, used)

\* Starting a timer with a free id, or with none.
LEMMA StartKeeps ==
  ASSUME NEW TS, NEW US, Accounted(TS, US), NEW kind \in {"initial", "general", "alive"},
         NEW id, id = 0 \/ id \in TimerIds \ US
  PROVE  Accounted(TS \cup Started(id, kind), US \cup ({id} \ {0}))
<1>1. CASE id = 0
  <2>1. TS \cup Started(id, kind) = TS /\ US \cup ({id} \ {0}) = US
    BY <1>1 DEF Started
  <2>2. QED
    BY <2>1
<1>2. CASE id \in TimerIds \ US
  <2>1. id # 0
    BY <1>2, TimerIdsAssumption
  <2>2. TS \cup Started(id, kind) = TS \cup {Timer(id, kind)} /\ US \cup ({id} \ {0}) = US \cup {id}
    BY <2>1 DEF Started
  <2>3. Timer(id, kind).id = id /\ Timer(id, kind) \in TimerType
    BY <1>2 DEF Timer, TimerType
  <2>4. \A t \in TS : t.id # id
    BY <1>2 DEF Accounted
  <2>5. Accounted(TS \cup {Timer(id, kind)}, US \cup {id})
    BY <1>2, <2>3, <2>4 DEF Accounted
  <2>6. QED
    BY <2>2, <2>5
<1>3. QED
  BY <1>1, <1>2

\* Stopping timers by their ids.
LEMMA StopKeeps ==
  ASSUME NEW TS, NEW US, Accounted(TS, US), NEW ids
  PROVE  Accounted(Without(TS, ids), US \ ids)
BY DEF Accounted, Without

\* A timer that fires gives its id back.
LEMMA FireKeeps ==
  ASSUME NEW TS, NEW US, Accounted(TS, US), NEW t \in TS
  PROVE  Accounted(TS \ {t}, US \ {t.id})
BY DEF Accounted

\* Touching an entry.
LEMMA TouchKeeps ==
  ASSUME TimersInv, NEW p
  PROVE  Accounted(Touch(p).ts, Touch(p).us)
<1>1. CASE table[p].general # 0
  BY <1>1 DEF Touch, TimersInv
<1>2. CASE ~(table[p].general # 0)
  <2> DEFINE id == NextId(used)
  <2>1. Touch(p).ts = timers \cup Started(id, "general") /\ Touch(p).us = used \cup ({id} \ {0})
    BY <1>2 DEF Touch
  <2>2. QED
    BY <2>1, StartKeeps, NextIdIs DEF TimersInv
<1>3. QED
  BY <1>1, <1>2

\* Starting a timer for every registered entry.
LEMMA StartAllKeeps ==
  ASSUME TimersInv
  PROVE  Accounted(timers \cup UNION {Started(NewIds[i], "alive") : i \in Registered},
                   used \cup ({NewIds[i] : i \in Registered} \ {0}))
<1> DEFINE N == {NewIds[i] : i \in Registered} \ {0}
           A == UNION {Started(NewIds[i], "alive") : i \in Registered}
<1>1. N \subseteq TimerIds \ used /\ 0 \notin N
  BY NewIdsAre
<1>2. A = {Timer(id, "alive") : id \in N}
  BY DEF Started
<1> HIDE DEF A, N
<1>3. \A id : Timer(id, "alive").id = id
  BY DEF Timer
<1>4. \A id \in N : Timer(id, "alive") \in TimerType
  BY <1>1 DEF Timer, TimerType
<1>5. timers \cup A \subseteq TimerType /\ used \cup N \subseteq TimerIds
  BY <1>1, <1>2, <1>4 DEF TimersInv, Accounted
<1>6. used \cup N = {t.id : t \in timers \cup A}
  BY <1>2, <1>3 DEF TimersInv, Accounted
<1>7. ASSUME NEW t \in timers \cup A, NEW u \in timers \cup A, t.id = u.id
      PROVE  t = u
  <2>1. CASE t \in timers /\ u \in timers
    BY <1>7, <2>1 DEF TimersInv, Accounted
  <2>2. \A x \in timers, y \in A : x.id # y.id
    BY <1>1, <1>2, <1>3 DEF TimersInv, Accounted
  <2>3. CASE t \in A /\ u \in A
    BY <1>2, <1>3, <1>7, <2>3
  <2>4. QED
    BY <1>7, <2>1, <2>2, <2>3
<1>8. QED
  BY <1>5, <1>6, <1>7 DEF Accounted, A, N

\* Removing an entry stops its timers.
LEMMA RemoveKeeps ==
  ASSUME TimersInv, NEW fd, RemoveEntry(fd)
  PROVE  TimersInv'
BY StopKeeps DEF RemoveEntry, TimersInv, StopIds

\* No timer runs when the server starts.
LEMMA TimersInit == Init => TimersInv
BY DEF Init, TimersInv, Accounted

\* Every step keeps TimersInv.
LEMMA TimersStep == TimersInv /\ [Next]_vars => TimersInv'
<1> SUFFICES ASSUME TimersInv, [Next]_vars PROVE TimersInv'
  OBVIOUS
<1>0. CASE UNCHANGED <<timers, used>>
  BY <1>0 DEF TimersInv
<1>1. ASSUME NEW fd \in Fds, Accept(fd) \/ OtherMessage(fd) \/ BadMessage(fd) \/ ClientDestroy(fd)
      PROVE  TimersInv'
  BY <1>0, <1>1, TouchKeeps, RemoveKeeps DEF Accept, OtherMessage, BadMessage, ClientDestroy, TimersInv
<1>2. ASSUME NEW fd \in Fds, NEW sa, NEW ok, RoutingRequest(fd, sa, ok)
      PROVE  TimersInv'
  <2>1. Accounted(Touch(FindByFd(fd)).ts, Touch(FindByFd(fd)).us)
    BY TouchKeeps
  <2>2. \E ids : timers' = Without(Touch(FindByFd(fd)).ts, ids) /\ used' = Touch(FindByFd(fd)).us \ ids
    BY <1>2 DEF RoutingRequest
  <2>3. QED
    BY <2>1, <2>2, StopKeeps DEF TimersInv
<1>3. ASSUME NEW fd \in Fds, NEW sa, AliveResponse(fd, sa)
      PROVE  TimersInv'
  <2>1. Accounted(Touch(FindByFd(fd)).ts, Touch(FindByFd(fd)).us)
    BY TouchKeeps
  <2>2. \E ids : timers' = Without(Touch(FindByFd(fd)).ts, ids) /\ used' = Touch(FindByFd(fd)).us \ ids
    BY <1>3 DEF AliveResponse
  <2>3. QED
    BY <2>1, <2>2, StopKeeps DEF TimersInv
<1>4. CASE StartInitial \/ AliveCheckSingle
  BY <1>4, StartKeeps, NextIdIs DEF StartInitial, AliveCheckSingle, StartOne, TimersInv
<1>5. CASE AliveCheckAll
  BY <1>5, StartAllKeeps DEF AliveCheckAll, TimersInv
<1>6. CASE CheckAuthentication \/ ActivateDirectly \/ NetClose \/ NetRemove
  BY <1>0, <1>6, RemoveKeeps DEF CheckAuthentication, ActivateDirectly, NetClose, NetRemove
<1>7. CASE Ipc
  BY <1>0, <1>7 DEF Ipc, RegistEntity, RegistUserConf, UserConfirms
<1>8. CASE TimerThread
  <2>1. ASSUME NEW t \in timers, Inactivity(t) \/ NoAnswer(t)
        PROVE  TimersInv'
    BY <2>1, FireKeeps DEF Inactivity, NoAnswer, Fires, TimersInv
  <2>2. QED
    BY <1>0, <1>8, <2>1, RemoveKeeps DEF TimerThread, TimerClose, TimerRemove
<1>9. CASE UNCHANGED vars
  BY <1>0, <1>9 DEF vars
<1>10. QED
  BY <1>1, <1>2, <1>3, <1>4, <1>5, <1>6, <1>7, <1>8, <1>9 DEF Next, Net

\* The ids in use are those of the running timers, and no two timers share one, whatever
\* tasks the server starts, stops and lets expire (ne_doip_timer.c).
THEOREM TimersCorrect == Spec => []TimersAccounted
<1>1. TimersInv => TimersAccounted
  BY DEF TimersInv, Accounted, TimersAccounted
<1>2. QED
  BY <1>1, TimersInit, TimersStep, PTL DEF Spec

-----------------------------------------------------------------------------
\* What the two threads may do next.
NetPc ==
    {Idle} \cup [at : {"accepted"}, conn : 1 .. MaxConns] \cup [at : {"auth"}, fd : Fds]
           \cup [at : {"single"}, fd : Fds, conn : 1 .. MaxConns]
           \cup [at : {"direct", "all"}, conn : 1 .. MaxConns, sa : SAs \cup {NoSA}]
           \cup [at : {"close", "remove"}, fd : Fds \cup {NoFd}, reset : BOOLEAN]

TimerPc == {Idle} \cup [at : {"close", "remove"}, fd : Fds, timer : TimerType]

TypeInv ==
    /\ table \in Seq(EntryType)
    /\ Open \subseteq Fds /\ open \in [Open -> 1 .. MaxConns]
    /\ TimersInv
    /\ ncts \in Nat /\ visible \in BOOLEAN
    /\ entity \in {"none", "plain", "confirm"}
    /\ npc \in NetPc /\ tpc \in TimerPc
    /\ conns \in 0 .. MaxConns

\* What the net thread is about to do, and for whom.
LEMMA NetPcIs ==
  ASSUME NEW pc \in NetPc
  PROVE  /\ pc.at \in {"idle", "accepted", "auth", "single", "direct", "all", "close", "remove"}
         /\ pc.at = "idle" <=> pc = Idle
         /\ pc.at \in {"auth", "single"} => pc.fd \in Fds
         /\ pc.at \in {"accepted", "single", "direct", "all"} => pc.conn \in 1 .. MaxConns
         /\ pc.at \in {"direct", "all"} => pc.sa \in SAs \cup {NoSA}
         /\ pc.at \in {"close", "remove"} => pc \in [at : {"close", "remove"}, fd : Fds \cup {NoFd}, reset : BOOLEAN]
BY DEF NetPc, Idle

\* What the timer thread is about to do, and for whom.
LEMMA TimerPcIs ==
  ASSUME NEW pc \in TimerPc
  PROVE  /\ pc.at \in {"idle", "close", "remove"}
         /\ pc.at = "idle" <=> pc = Idle
         /\ pc # Idle => pc \in [at : {"close", "remove"}, fd : Fds, timer : TimerType]
BY DEF TimerPc, Idle

\* The threads go on with what their steps say.
LEMMA PcsAre ==
  /\ Idle \in NetPc /\ Idle \in TimerPc
  /\ \A fd \in Fds \cup {NoFd}, r \in BOOLEAN :
        [at |-> "close", fd |-> fd, reset |-> r] \in NetPc /\ [at |-> "remove", fd |-> fd, reset |-> r] \in NetPc
  /\ \A fd \in Fds : [at |-> "auth", fd |-> fd] \in NetPc
  /\ \A fd \in Fds, c \in 1 .. MaxConns : [at |-> "single", fd |-> fd, conn |-> c] \in NetPc
  /\ \A c \in 1 .. MaxConns, sa \in SAs \cup {NoSA} :
        [at |-> "direct", conn |-> c, sa |-> sa] \in NetPc /\ [at |-> "all", conn |-> c, sa |-> sa] \in NetPc
  /\ \A fd \in Fds, t \in TimerType :
        [at |-> "close", fd |-> fd, timer |-> t] \in TimerPc /\ [at |-> "remove", fd |-> fd, timer |-> t] \in TimerPc
BY DEF NetPc, TimerPc

\* The table is a sequence of entries.
LEMMA TableIs ==
  ASSUME table \in Seq(EntryType)
  PROVE  /\ Len(table) \in Nat /\ DOMAIN table = 1 .. Len(table) /\ DOMAIN table \subseteq Nat \ {0}
         /\ table \in [DOMAIN table -> EntryType]
BY LenProperties

\* Replacing the entries of a table one by one gives a table.
LEMMA IsTable ==
  ASSUME table \in Seq(EntryType), NEW t \in [DOMAIN table -> EntryType]
  PROVE  t \in Seq(EntryType) /\ DOMAIN t = DOMAIN table
BY TableIs, SeqDef

\* The lookup functions find the entry they look for, the first one if there are several.
LEMMA LookupIs ==
  ASSUME table \in Seq(EntryType)
  PROVE  /\ \A fd : FindByFd(fd) # 0 => FindByFd(fd) \in DOMAIN table /\ table[FindByFd(fd)].fd = fd
         /\ \A fd : FindByFd(fd) = 0 => \A i \in DOMAIN table : table[i].fd # fd
         /\ \A fd : \A i \in DOMAIN table : table[i].fd = fd => FindByFd(fd) <= i
         /\ \A id : FindByTimerId(id) # 0 => FindByTimerId(id) \in DOMAIN table
         /\ \A conn : Pointer(conn) # 0 => Pointer(conn) \in DOMAIN table /\ table[Pointer(conn)].conn = conn
         /\ \A t, sa : DOMAIN t = DOMAIN table /\ FindBySA(sa, t) # 0 =>
                          FindBySA(sa, t) \in DOMAIN table /\ t[FindBySA(sa, t)].sa = sa
<1>1. \A fd : {i \in DOMAIN table : table[i].fd = fd} \subseteq Nat \ {0}
  BY TableIs
<1>2. \A id : {i \in DOMAIN table : id \in {table[i].initial, table[i].general, table[i].alive}} \subseteq Nat \ {0}
  BY TableIs
<1>3. \A conn : {i \in DOMAIN table : table[i].conn = conn} \subseteq Nat \ {0}
  BY TableIs
<1>4. \A t, sa : DOMAIN t = DOMAIN table => {i \in DOMAIN t : t[i].sa = sa} \subseteq Nat \ {0}
  BY TableIs
<1>5. ASSUME NEW fd
      PROVE  /\ FindByFd(fd) # 0 => FindByFd(fd) \in DOMAIN table /\ table[FindByFd(fd)].fd = fd
             /\ FindByFd(fd) = 0 => \A i \in DOMAIN table : table[i].fd # fd
             /\ \A i \in DOMAIN table : table[i].fd = fd => FindByFd(fd) <= i
  BY <1>1, FirstIs DEF FindByFd
<1>6. ASSUME NEW id
      PROVE  FindByTimerId(id) # 0 => FindByTimerId(id) \in DOMAIN table
  BY <1>2, FirstIs DEF FindByTimerId
<1>7. ASSUME NEW conn
      PROVE  Pointer(conn) # 0 => Pointer(conn) \in DOMAIN table /\ table[Pointer(conn)].conn = conn
  BY <1>3, FirstIs DEF Pointer
<1>8. ASSUME NEW t, NEW sa, DOMAIN t = DOMAIN table, FindBySA(sa, t) # 0
      PROVE  FindBySA(sa, t) \in DOMAIN table /\ t[FindBySA(sa, t)].sa = sa
  BY <1>4, <1>8, FirstIs DEF FindBySA
<1>9. QED
  BY <1>5, <1>6, <1>7, <1>8

\* An entry that changes in the fields that are no flag of the activation.
Like(e, f) ==
    /\ e \in EntryType /\ e.fd = f.fd /\ e.conn = f.conn /\ e.regist = f.regist /\ e.state = f.state
    /\ e.ok = f.ok

\* Touching an entry starts its general timer at most.
LEMMA TouchIs ==
  ASSUME TypeInv, NEW p \in DOMAIN table
  PROVE  /\ Touch(p).t \in [DOMAIN table -> EntryType]
         /\ \A i \in DOMAIN table : /\ Like(Touch(p).t[i], table[i])
                                    /\ Touch(p).t[i].sa = table[i].sa
                                    /\ Touch(p).t[i].routing_fd = table[i].routing_fd
                                    /\ Touch(p).t[i].all = table[i].all
                                    /\ Touch(p).t[i].single = table[i].single
<1>1. NextId(used) \in TimerIds \cup {0}
  BY NextIdIs
<1>2. table \in [DOMAIN table -> EntryType]
  BY TableIs DEF TypeInv
<1>3. Touch(p).t = table \/ Touch(p).t = [table EXCEPT ![p].general = NextId(used)]
  BY DEF Touch
<1>4. CASE Touch(p).t = table
  BY <1>2, <1>4 DEF Like
<1>5. CASE Touch(p).t = [table EXCEPT ![p].general = NextId(used)]
  <2> DEFINE e == [table[p] EXCEPT !.general = NextId(used)]
  <2>1. table[p] \in EntryType
    BY <1>2
  <2>2. Like(e, table[p]) /\ e.sa = table[p].sa /\ e.routing_fd = table[p].routing_fd /\ e.all = table[p].all /\ e.single = table[p].single
    BY <1>1, <2>1 DEF EntryType, Like
  <2>3. Touch(p).t = [table EXCEPT ![p] = e]
    BY <1>5
  <2> HIDE DEF e
  <2>4. QED
    BY <1>2, <2>2, <2>3 DEF Like
<1>6. QED
  BY <1>3, <1>4, <1>5

\* An entry is changed in place.
LEMMA PlaceIs ==
  ASSUME TypeInv, NEW p \in DOMAIN table, NEW e \in EntryType
  PROVE  /\ [table EXCEPT ![p] = e] \in Seq(EntryType)
         /\ DOMAIN [table EXCEPT ![p] = e] = DOMAIN table
         /\ [table EXCEPT ![p] = e][p] = e
         /\ \A i \in DOMAIN table : i # p => [table EXCEPT ![p] = e][i] = table[i]
BY TableIs, IsTable DEF TypeInv

\* The checks change the state of an entry and may register it.
LEMMA CheckedIs ==
  ASSUME NEW e \in EntryType
  PROVE  /\ Checked(e) \in EntryType /\ Checked(e).fd = e.fd /\ Checked(e).conn = e.conn /\ Checked(e).ok = e.ok
         /\ Checked(e).state \in {"auth", "conf", "active"}
         /\ Checked(e).regist = IF Checked(e).state = "active" THEN TRUE ELSE e.regist
         /\ Checked(e).state \in {"conf", "active"} => entity # "none" /\ e.ok
BY DEF EntryType, Checked, PassesAuth

\* The table is empty when the server starts.
LEMMA InitType == Init => TypeInv
<1> SUFFICES ASSUME Init PROVE TypeInv
  OBVIOUS
<1>1. table \in Seq(EntryType)
  BY EmptySeq DEF Init
<1>2. Open = {} /\ open \in [Open -> 1 .. MaxConns]
  BY DEF Init, Open
<1>3. QED
  BY <1>1, <1>2, TimersInit, FlagAssumption, MaxConnsAssumption DEF Init, TypeInv, NetPc, TimerPc

\* A socket that is closed leaves the others open.
LEMMA OpenIs ==
  ASSUME TypeInv
  PROVE  /\ \A fd : AllBut(fd) \in [Open \ {fd} -> 1 .. MaxConns] /\ DOMAIN AllBut(fd) = Open \ {fd}
         /\ \A fd : \A f \in Open \ {fd} : AllBut(fd)[f] = open[f]
BY DEF TypeInv, AllBut

\* A table with an entry removed is a table.
LEMMA RemoveType ==
  ASSUME TypeInv, NEW fd, RemoveEntry(fd)
  PROVE  table' \in Seq(EntryType)
<1>1. FindByFd(fd) # 0 => FindByFd(fd) \in 1 .. Len(table)
  BY LookupIs, TableIs DEF TypeInv
<1>2. QED
  BY <1>1, RemoveAtKeeps DEF RemoveEntry, FirstWithFd, TypeInv

\* Accepting, the other messages and the closing of a connection keep TypeInv.
LEMMA NetTypes ==
  ASSUME TypeInv, TimersInv', NEW fd \in Fds,
         Accept(fd) \/ OtherMessage(fd) \/ BadMessage(fd) \/ ClientDestroy(fd)
  PROVE  TypeInv'
<1>1. CASE Accept(fd)
  <2>1. conns' \in 1 .. MaxConns
    BY <1>1, MaxConnsAssumption DEF Accept, TypeInv
  <2>2. Entry(fd, conns') \in EntryType
    BY <2>1, NoneAssumption, FlagAssumption DEF Entry, EntryType
  <2>3. table' \in Seq(EntryType)
    BY <1>1, <2>2 DEF Accept, TypeInv
  <2>4. Open' = Open \cup {fd} /\ open' \in [Open' -> 1 .. MaxConns]
    BY <1>1, <2>1 DEF Accept, TypeInv, Open
  <2>5. npc' \in NetPc
    BY <1>1, <2>1 DEF Accept, NetPc
  <2>6. QED
    BY <1>1, <2>1, <2>3, <2>4, <2>5 DEF Accept, TypeInv
<1>2. CASE OtherMessage(fd) \/ BadMessage(fd)
  <2>1. FindByFd(fd) \in DOMAIN table
    BY <1>2, LookupIs DEF OtherMessage, BadMessage, Receives, TypeInv
  <2>2. table' \in Seq(EntryType)
    BY <1>2, <2>1, TouchIs, IsTable DEF OtherMessage, BadMessage, TypeInv
  <2>3. npc' \in NetPc
    BY <1>2, PcsAre DEF OtherMessage, BadMessage, TypeInv
  <2>4. QED
    BY <1>2, <2>2, <2>3 DEF OtherMessage, BadMessage, TypeInv, Open
<1>3. CASE ClientDestroy(fd)
  <2>1. Open' \subseteq Fds /\ open' \in [Open' -> 1 .. MaxConns]
    BY <1>3, OpenIs DEF ClientDestroy, TypeInv, Open
  <2>2. QED
    BY <1>3, <2>1, RemoveType DEF ClientDestroy, TypeInv
<1>4. QED
  BY <1>1, <1>2, <1>3

\* The table that a request leaves, and how the net thread goes on.
LEMMA RequestIs ==
  ASSUME TypeInv, NEW fd \in Fds, NEW sa \in SAs \cup {NoSA}, NEW ok \in BOOLEAN, RoutingRequest(fd, sa, ok)
  PROVE  LET p == FindByFd(fd)
         IN  /\ p \in DOMAIN table /\ table[p].fd = fd
             /\ table' \in [DOMAIN table -> EntryType]
             /\ \A i \in DOMAIN table : i # p => Like(table'[i], table[i])
             /\ table'[p].fd = fd /\ table'[p].conn = table[p].conn /\ table'[p].state = table[p].state
             /\ table'[p].ok = ok
             /\ \/ /\ npc' = [at |-> "auth", fd |-> fd] /\ table'[p].regist
                   /\ table[p].regist \/ Registered = {} \/ Cardinality(Registered) # mcts
                \/ /\ npc' = [at |-> "close", fd |-> fd, reset |-> FALSE]
                   /\ table'[p].regist = table[p].regist
                \/ /\ npc' \in NetPc /\ npc'.at \in {"single", "direct", "all"} /\ (npc'.at = "direct" => visible)
                   /\ ~table[p].regist /\ ~table'[p].regist
<1> DEFINE p == FindByFd(fd)
           u == Touch(p).t
           t == [u EXCEPT ![p].ok = ok]
           slot == Slot(t, p, sa)
<1>1. p \in DOMAIN table /\ table[p].fd = fd
  BY LookupIs DEF RoutingRequest, Receives, TypeInv
<1>2. /\ u \in [DOMAIN table -> EntryType]
      /\ \A i \in DOMAIN table : Like(u[i], table[i])
  BY <1>1, TouchIs
<1>3. /\ table' = IF slot = "register" THEN [t EXCEPT ![p].regist = TRUE, ![p].sa = sa] ELSE t
      /\ npc' = AfterRequest(slot, t, p, sa)
  BY DEF RoutingRequest
<1> HIDE DEF u
<1>4. /\ t \in [DOMAIN table -> EntryType] /\ DOMAIN t = DOMAIN table
      /\ \A i \in DOMAIN table : i # p => Like(t[i], table[i])
      /\ t[p].fd = fd /\ t[p].conn = table[p].conn /\ t[p].state = table[p].state /\ t[p].ok = ok
      /\ t[p].regist = table[p].regist
  <2> DEFINE e == [u[p] EXCEPT !.ok = ok]
  <2>1. t = [u EXCEPT ![p] = e] /\ u[p] \in EntryType
    BY <1>1, <1>2
  <2>2. e \in EntryType /\ e.fd = u[p].fd /\ e.conn = u[p].conn /\ e.state = u[p].state /\ e.ok = ok /\ e.regist = u[p].regist
    BY <2>1 DEF EntryType
  <2> HIDE DEF e
  <2>3. QED
    BY <1>1, <1>2, <2>1, <2>2 DEF Like
<1> HIDE DEF p, t
<1>5. {i \in DOMAIN t : t[i].regist} = Registered
  BY <1>1, <1>4 DEF Registered, Like
<1>6. /\ slot = "register" => ~table[p].regist /\ (Registered = {} \/ Cardinality(Registered) # mcts)
      /\ slot = "same" => table[p].regist
      /\ slot \in {"taken", "full"} => ~table[p].regist
      /\ slot = "taken" => FindBySA(sa, t) # 0
      /\ slot \in {"register", "same", "other_sa", "taken", "full"}
  BY <1>1, <1>4, <1>5 DEF Slot, Full, Registered
<1> HIDE DEF slot
<1>7. CASE slot = "register"
  <2> DEFINE e == [t[p] EXCEPT !.regist = TRUE, !.sa = sa]
  <2>1. table' = [t EXCEPT ![p] = e] /\ t[p] \in EntryType
    BY <1>1, <1>3, <1>4, <1>7
  <2>2. e \in EntryType /\ e.fd = t[p].fd /\ e.conn = t[p].conn /\ e.state = t[p].state /\ e.ok = t[p].ok /\ e.regist
    BY <2>1 DEF EntryType
  <2> HIDE DEF e
  <2>3. npc' = [at |-> "auth", fd |-> fd]
    BY <1>3, <1>4, <1>7 DEF AfterRequest
  <2>4. QED
    BY <1>1, <1>4, <1>6, <1>7, <2>1, <2>2, <2>3 DEF p
<1>8. CASE slot # "register"
  <2>1. table' = t
    BY <1>3, <1>8
  <2>2. CASE slot = "same"
    BY <1>1, <1>3, <1>4, <1>6, <2>1, <2>2 DEF AfterRequest, p
  <2>3. CASE slot = "other_sa"
    BY <1>1, <1>3, <1>4, <2>1, <2>3 DEF AfterRequest, p
  <2>4. CASE slot = "taken" /\ ~visible
    <3>1. FindBySA(sa, t) \in DOMAIN table
      BY <1>4, <1>6, <2>4, LookupIs DEF TypeInv
    <3>2. t[FindBySA(sa, t)].conn \in 1 .. MaxConns
      BY <1>4, <3>1 DEF EntryType
    <3>3. npc' = [at |-> "single", fd |-> fd, conn |-> t[FindBySA(sa, t)].conn]
      BY <1>3, <1>4, <2>4 DEF AfterRequest
    <3>4. npc' \in NetPc
      BY <3>2, <3>3, PcsAre
    <3>5. QED
      BY <1>1, <1>4, <1>6, <2>1, <2>4, <3>3, <3>4 DEF p
  <2>5. CASE slot = "full" \/ (slot = "taken" /\ visible)
    <3>1. t[p].conn \in 1 .. MaxConns
      BY <1>1, <1>4 DEF EntryType
    <3>2. \/ npc' = [at |-> "all", conn |-> t[p].conn, sa |-> sa]
          \/ npc' = [at |-> "direct", conn |-> t[p].conn, sa |-> sa] /\ visible
      BY <1>3, <2>5 DEF AfterRequest
    <3>3. npc' \in NetPc
      BY <3>1, <3>2, PcsAre
    <3>4. QED
      BY <1>1, <1>4, <1>6, <2>1, <2>5, <3>2, <3>3 DEF p
  <2>6. QED
    BY <1>6, <1>8, <2>2, <2>3, <2>4, <2>5 DEF TypeInv
<1>9. QED
  BY <1>7, <1>8

\* A step that changes neither the sockets nor the states of the entries.
QuietTable == table' \in [DOMAIN table -> EntryType] /\ \A i \in DOMAIN table : Like(table'[i], table[i])

\* A step that moves one entry on.
Moved(p) ==
    /\ p \in DOMAIN table /\ table' \in [DOMAIN table -> EntryType]
    /\ \A i \in DOMAIN table : i # p => table'[i] = table[i]
    /\ table'[p].fd = table[p].fd /\ table'[p].conn = table[p].conn /\ table'[p].ok = table[p].ok

\* A step that leaves the table alone is quiet.
LEMMA SameTable ==
  ASSUME TypeInv, UNCHANGED table
  PROVE  QuietTable
BY TableIs DEF TypeInv, QuietTable, Like

\* A step that changes the timers or the address of one entry is quiet.
LEMMA LikeTable ==
  ASSUME TypeInv, NEW p \in DOMAIN table, NEW e, Like(e, table[p]), table' = [table EXCEPT ![p] = e]
  PROVE  QuietTable
<1>1. table \in [DOMAIN table -> EntryType]
  BY TableIs DEF TypeInv
<1>2. QED
  BY <1>1 DEF QuietTable, Like

\* Starting the initial timer is quiet.
LEMMA StartInitialIs ==
  ASSUME TypeInv, StartInitial
  PROVE  QuietTable
<1> DEFINE p == Pointer(npc.conn)
           e == [table[p] EXCEPT !.initial = NextId(used)]
<1>1. CASE p = 0
  BY <1>1, SameTable DEF StartInitial
<1>2. CASE p # 0
  <2>1. p \in DOMAIN table /\ table[p] \in EntryType
    BY <1>2, LookupIs, TableIs DEF TypeInv
  <2>2. table' = [table EXCEPT ![p] = e]
    BY <1>2 DEF StartInitial
  <2>3. Like(e, table[p])
    BY <2>1, NextIdIs DEF Like, EntryType
  <2> HIDE DEF p, e
  <2>4. QED
    BY <2>1, <2>2, <2>3, LikeTable
<1>3. QED
  BY <1>1, <1>2

\* Starting the check of one connection is quiet.
LEMMA AliveCheckSingleIs ==
  ASSUME TypeInv, AliveCheckSingle
  PROVE  QuietTable
<1> DEFINE p == Pointer(npc.conn)
           e == [table[p] EXCEPT !.routing_fd = npc.fd, !.single = TRUE, !.alive = NextId(used)]
<1>1. CASE p = 0
  BY <1>1, SameTable DEF AliveCheckSingle
<1>2. CASE p # 0
  <2>1. p \in DOMAIN table /\ table[p] \in EntryType
    BY <1>2, LookupIs, TableIs DEF TypeInv
  <2>2. table' = [table EXCEPT ![p] = e]
    BY <1>2 DEF AliveCheckSingle
  <2>3. npc.fd \in Fds
    BY NetPcIs DEF AliveCheckSingle, TypeInv
  <2>4. Like(e, table[p])
    BY <2>1, <2>3, NextIdIs DEF Like, EntryType
  <2> HIDE DEF p, e
  <2>5. QED
    BY <2>1, <2>2, <2>4, LikeTable
<1>3. QED
  BY <1>1, <1>2

\* Starting the check of all connections is quiet.
LEMMA AliveCheckAllIs ==
  ASSUME TypeInv, AliveCheckAll
  PROVE  QuietTable
<1>1. npc.sa \in SAs \cup {NoSA}
  BY NetPcIs DEF AliveCheckAll, TypeInv
<1>2. table \in [DOMAIN table -> EntryType]
  BY TableIs DEF TypeInv
<1>3. table' = [i \in DOMAIN table |->
                 IF i \in Registered
                 THEN [table[i] EXCEPT !.all = TRUE, !.routing_sa = npc.sa, !.alive = NewIds[i]]
                 ELSE IF table[i].conn = npc.conn THEN [table[i] EXCEPT !.sa = npc.sa]
                 ELSE table[i]]
  BY DEF AliveCheckAll
<1>4. ASSUME NEW i \in DOMAIN table
      PROVE  Like(table'[i], table[i])
  <2>1. table[i] \in EntryType
    BY <1>2
  <2>2. CASE i \in Registered
    <3>1. NewIds[i] \in TimerIds \cup {0}
      BY <2>2, NewIdsAre
    <3>2. table'[i] = [table[i] EXCEPT !.all = TRUE, !.routing_sa = npc.sa, !.alive = NewIds[i]]
      BY <1>3, <2>2
    <3>3. QED
      BY <1>1, <2>1, <3>1, <3>2 DEF Like, EntryType
  <2>3. CASE i \notin Registered
    <3>1. table'[i] \in {[table[i] EXCEPT !.sa = npc.sa], table[i]}
      BY <1>3, <2>3
    <3>2. QED
      BY <1>1, <2>1, <3>1 DEF Like, EntryType
  <2>4. QED
    BY <2>2, <2>3
<1>5. QED
  BY <1>3, <1>4 DEF QuietTable, Like

\* The answer to a check is quiet: it changes the counters of the check, or closes the socket.
LEMMA AliveResponseIs ==
  ASSUME TypeInv, NEW fd \in Fds, NEW sa \in SAs \cup {NoSA}, AliveResponse(fd, sa)
  PROVE  /\ QuietTable /\ npc' \in NetPc /\ npc'.at \in {"idle", "close"} /\ ncts' \in Nat
<1> DEFINE u == Touch(FindByFd(fd)).t
           p == FindBySA(sa, u)
<1>1. FindByFd(fd) \in DOMAIN table
  BY LookupIs DEF AliveResponse, Receives, TypeInv
<1>2. u \in [DOMAIN table -> EntryType] /\ \A i \in DOMAIN table : Like(u[i], table[i])
  BY <1>1, TouchIs
<1>3. \/ p # 0 /\ AnswerAll(u, p)
      \/ p # 0 /\ AnswerSingle(u, p)
      \/ table' = u /\ UNCHANGED <<ncts, npc>>
  BY DEF AliveResponse
<1>4. p # 0 => p \in DOMAIN table
  BY <1>2, LookupIs DEF TypeInv
<1>5. npc = Idle /\ npc.at = "idle"
  BY DEF AliveResponse, Receives, Idle
<1>6. ncts \in Nat /\ npc \in NetPc
  BY DEF TypeInv
<1> HIDE DEF u, p
<1>7. CASE p # 0 /\ AnswerAll(u, p)
  <2> DEFINE e == [u[p] EXCEPT !.all = FALSE]
  <2>1. table' = [u EXCEPT ![p] = e] /\ u[p] \in EntryType
    BY <1>2, <1>4, <1>7 DEF AnswerAll
  <2>2. Like(e, u[p])
    BY <2>1 DEF Like, EntryType
  <2> HIDE DEF e
  <2>3. QuietTable
    BY <1>2, <1>4, <1>7, <2>1, <2>2 DEF QuietTable, Like
  <2> DEFINE sa2 == u[p].routing_sa
             r == FindBySA(sa2, u)
  <2>4. r # 0 => r \in DOMAIN table /\ u[r].fd \in Fds
    BY <1>2, LookupIs DEF TypeInv, EntryType
  <2>5. Refused(u, sa2) \in NetPc /\ Refused(u, sa2).at \in {"idle", "close"}
    BY <2>4, PcsAre DEF Refused, Idle
  <2>6. npc' \in {Idle, Refused(u, sa2)} /\ ncts' \in {0, ncts + 1}
    BY <1>7 DEF AnswerAll
  <2> HIDE DEF sa2
  <2>7. QED
    BY <1>6, <2>3, <2>5, <2>6, PcsAre DEF Idle
<1>8. CASE p # 0 /\ AnswerSingle(u, p)
  <2> DEFINE e == [u[p] EXCEPT !.single = FALSE]
  <2>1. table' = [u EXCEPT ![p] = e] /\ u[p] \in EntryType
    BY <1>2, <1>4, <1>8 DEF AnswerSingle
  <2>2. Like(e, u[p]) /\ u[p].routing_fd \in Fds \cup {NoFd}
    BY <2>1 DEF Like, EntryType
  <2> HIDE DEF e
  <2>3. QuietTable
    BY <1>2, <1>4, <1>8, <2>1, <2>2 DEF QuietTable, Like
  <2>4. npc' = [at |-> "close", fd |-> u[p].routing_fd, reset |-> FALSE] /\ ncts' = ncts
    BY <1>8 DEF AnswerSingle
  <2>5. QED
    BY <1>6, <2>2, <2>3, <2>4, PcsAre
<1>9. CASE table' = u /\ UNCHANGED <<ncts, npc>>
  BY <1>2, <1>5, <1>6, <1>9 DEF QuietTable
<1>10. QED
  BY <1>3, <1>7, <1>8, <1>9

\* The checks after a routing request move the entry of the request on, if it is still there.
LEMMA CheckAuthenticationIs ==
  ASSUME TypeInv, CheckAuthentication
  PROVE  LET p == FindByFd(npc.fd)
         IN  \/ p = 0 /\ UNCHANGED table
             \/ p \in DOMAIN table /\ table[p].fd = npc.fd /\ Moved(p) /\ table'[p] = Checked(table[p])
<1> DEFINE p == FindByFd(npc.fd)
<1>1. CASE p = 0
  BY <1>1 DEF CheckAuthentication
<1>2. CASE p # 0
  <2>1. p \in DOMAIN table /\ table[p] \in EntryType /\ table[p].fd = npc.fd
    BY <1>2, LookupIs, TableIs DEF TypeInv
  <2>2. table' = [table EXCEPT ![p] = Checked(table[p])]
    BY <1>2 DEF CheckAuthentication
  <2> HIDE DEF p
  <2>3. Moved(p) /\ table'[p] = Checked(table[p])
    BY <2>1, <2>2, CheckedIs, TableIs DEF Moved, TypeInv
  <2>4. QED
    BY <2>1, <2>3 DEF p
<1>3. QED
  BY <1>1, <1>2

\* Activating directly moves one entry on.
LEMMA ActivateDirectlyIs ==
  ASSUME TypeInv, ActivateDirectly
  PROVE  UNCHANGED table \/ \E p \in DOMAIN table : Moved(p) /\ table'[p].state = "active" /\ table'[p].regist
<1> DEFINE p == Pointer(npc.conn)
           e == [table[p] EXCEPT !.state = "active", !.regist = TRUE, !.sa = npc.sa]
<1>1. CASE p = 0
  BY <1>1 DEF ActivateDirectly
<1>2. CASE p # 0
  <2>1. p \in DOMAIN table /\ table[p] \in EntryType /\ npc.sa \in SAs \cup {NoSA}
    BY <1>2, LookupIs, TableIs, NetPcIs DEF TypeInv, ActivateDirectly
  <2>2. table' = [table EXCEPT ![p] = e]
    BY <1>2 DEF ActivateDirectly
  <2>3. e \in EntryType /\ e.fd = table[p].fd /\ e.conn = table[p].conn /\ e.ok = table[p].ok /\ e.state = "active" /\ e.regist
    BY <2>1 DEF EntryType
  <2> HIDE DEF p, e
  <2>4. QED
    BY <2>1, <2>2, <2>3, TableIs DEF Moved, TypeInv
<1>3. QED
  BY <1>1, <1>2

\* The user's confirmation moves one entry on, which waited for it.
LEMMA UserConfirmsIs ==
  ASSUME TypeInv, NEW sa \in SAs \cup {NoSA}, UserConfirms(sa)
  PROVE  \E p \in DOMAIN table :
            Moved(p) /\ table[p].state = "conf" /\ table'[p].state = "active" /\ table'[p].regist
<1> DEFINE p == FindBySA(sa, table)
           e == [table[p] EXCEPT !.state = "active", !.regist = TRUE]
<1>1. p \in DOMAIN table /\ table[p] \in EntryType /\ table[p].state = "conf"
  BY LookupIs, TableIs DEF TypeInv, UserConfirms
<1>2. table' = [table EXCEPT ![p] = e]
  BY DEF UserConfirms
<1>3. e \in EntryType /\ e.fd = table[p].fd /\ e.conn = table[p].conn /\ e.ok = table[p].ok /\ e.state = "active" /\ e.regist
  BY <1>1 DEF EntryType
<1> HIDE DEF p, e
<1>4. QED
  BY <1>1, <1>2, <1>3, TableIs DEF Moved, TypeInv

\* The entry that takes a place over is registered and checked.
LEMMA TakesOverIs ==
  ASSUME TypeInv, NEW r \in DOMAIN table, NEW sa \in SAs \cup {NoSA}, TakesOver(r, sa)
  PROVE  /\ Moved(r) /\ table'[r].regist /\ table'[r].state \in {"auth", "conf", "active"}
         /\ table'[r].state \in {"conf", "active"} => entity # "none" /\ table'[r].ok
<1> DEFINE e == [table[r] EXCEPT !.sa = sa, !.regist = TRUE]
<1>1. table[r] \in EntryType
  BY TableIs DEF TypeInv
<1>2. e \in EntryType /\ e.fd = table[r].fd /\ e.conn = table[r].conn /\ e.ok = table[r].ok /\ e.regist
  BY <1>1 DEF EntryType
<1>3. table' = [table EXCEPT ![r] = Checked(e)]
  BY DEF TakesOver
<1> HIDE DEF e
<1>4. QED
  BY <1>2, <1>3, CheckedIs, TableIs DEF Moved, TypeInv

\* A timer that fires: whose socket is closed then, and who takes its place.
LEMMA FiresIs ==
  ASSUME TypeInv, NEW t \in timers, Inactivity(t) \/ NoAnswer(t)
  PROVE  /\ tpc = Idle /\ UNCHANGED <<open, npc, conns, visible, entity>> /\ ncts' \in Nat
         /\ tpc' \in TimerPc
         /\ \/ tpc' = Idle /\ UNCHANGED table
            \/ \E p \in DOMAIN table : /\ tpc'.at = "close" /\ tpc'.fd = table[p].fd
                                       /\ \/ UNCHANGED table
                                          \/ \E r \in DOMAIN table, sa \in SAs \cup {NoSA} : TakesOver(r, sa)
<1> DEFINE p == FindByTimerId(t.id)
<1>1. tpc = Idle /\ UNCHANGED <<open, npc, conns, visible, entity>> /\ ThenClose(p, t)
  BY DEF Inactivity, NoAnswer, Fires
<1>2. p # 0 => p \in DOMAIN table /\ table[p].fd \in Fds
  BY LookupIs, TableIs DEF TypeInv, EntryType
<1>3. t \in TimerType
  BY DEF TypeInv, TimersInv, Accounted
<1>4. IF p = 0 THEN tpc' = Idle ELSE tpc' = [at |-> "close", fd |-> table[p].fd, timer |-> t]
  BY <1>1 DEF ThenClose
<1>5. tpc' \in TimerPc
  BY <1>2, <1>3, <1>4, PcsAre
<1>6. ncts' \in Nat
  BY DEF TypeInv, Inactivity, NoAnswer
<1>7. CASE p = 0 \/ Inactivity(t)
  BY <1>1, <1>2, <1>4, <1>5, <1>6, <1>7 DEF Inactivity, NoAnswer
<1>8. CASE p # 0 /\ NoAnswer(t)
  <2>1. table[p].sa \in SAs \cup {NoSA} /\ table[p].routing_sa \in SAs \cup {NoSA}
    BY <1>2, <1>8, TableIs DEF TypeInv, EntryType
  <2>2. \/ UNCHANGED table
        \/ FindByFd(table[p].routing_fd) # 0 /\ TakesOver(FindByFd(table[p].routing_fd), table[p].sa)
        \/ FindBySA(table[p].routing_sa, table) # 0 /\ TakesOver(FindBySA(table[p].routing_sa, table), table[p].routing_sa)
    BY <1>8 DEF NoAnswer
  <2> HIDE DEF p
  <2>3. UNCHANGED table \/ \E r \in DOMAIN table, sa \in SAs \cup {NoSA} : TakesOver(r, sa)
    BY <2>1, <2>2, LookupIs DEF TypeInv
  <2>4. QED
    BY <1>1, <1>2, <1>4, <1>5, <1>6, <1>8, <2>3
<1>9. QED
  BY <1>7, <1>8

\* A thread that closes a socket removes its entry next, unless the socket was closed already.
LEMMA ClosingIs ==
  /\ \A pc \in NetPc : pc.at = "close" =>
        /\ Closing(pc) \in NetPc
        /\ IF pc.fd \in Open THEN Closing(pc).at = "remove" /\ Closing(pc).fd = pc.fd ELSE Closing(pc) = Idle
  /\ \A pc \in TimerPc : pc.at = "close" =>
        /\ Closing(pc) \in TimerPc
        /\ IF pc.fd \in Open THEN Closing(pc).at = "remove" /\ Closing(pc).fd = pc.fd ELSE Closing(pc) = Idle
<1>1. ASSUME NEW pc \in NetPc, pc.at = "close"
      PROVE  /\ Closing(pc) \in NetPc
             /\ IF pc.fd \in Open THEN Closing(pc).at = "remove" /\ Closing(pc).fd = pc.fd ELSE Closing(pc) = Idle
  <2>1. pc \in [at : {"close", "remove"}, fd : Fds \cup {NoFd}, reset : BOOLEAN]
    BY <1>1, NetPcIs
  <2>2. [pc EXCEPT !.at = "remove"] \in [at : {"close", "remove"}, fd : Fds \cup {NoFd}, reset : BOOLEAN]
    BY <2>1
  <2>3. QED
    BY <2>1, <2>2, PcsAre DEF Closing, NetPc
<1>2. ASSUME NEW pc \in TimerPc, pc.at = "close"
      PROVE  /\ Closing(pc) \in TimerPc
             /\ IF pc.fd \in Open THEN Closing(pc).at = "remove" /\ Closing(pc).fd = pc.fd ELSE Closing(pc) = Idle
  <2>1. pc \in [at : {"close", "remove"}, fd : Fds, timer : TimerType]
    BY <1>2, TimerPcIs DEF Idle
  <2>2. [pc EXCEPT !.at = "remove"] \in [at : {"close", "remove"}, fd : Fds, timer : TimerType]
    BY <2>1
  <2>3. QED
    BY <2>1, <2>2, PcsAre DEF Closing, TimerPc
<1>3. QED
  BY <1>1, <1>2

\* Every step keeps TypeInv.
LEMMA TypeStep == TypeInv /\ [Next]_vars => TypeInv'
<1> SUFFICES ASSUME TypeInv, [Next]_vars PROVE TypeInv'
  OBVIOUS
<1>0. TimersInv'
  BY TimersStep DEF TypeInv
<1>q. QuietTable => table' \in Seq(EntryType)
  BY IsTable DEF QuietTable, TypeInv
<1>m. \A p : Moved(p) => table' \in Seq(EntryType)
  BY IsTable DEF Moved, TypeInv
<1>u. ASSUME UNCHANGED open PROVE Open' \subseteq Fds /\ open' \in [Open' -> 1 .. MaxConns]
  BY <1>u DEF TypeInv, Open
<1>1. ASSUME NEW fd \in Fds, NEW sa \in SAs \cup {NoSA}, NEW ok \in BOOLEAN, RoutingRequest(fd, sa, ok)
      PROVE  TypeInv'
  <2>1. table' \in Seq(EntryType) /\ npc' \in NetPc
    <3>1. table' \in [DOMAIN table -> EntryType]
      BY <1>1, RequestIs
    <3>2. \/ npc' = [at |-> "auth", fd |-> fd]
          \/ npc' = [at |-> "close", fd |-> fd, reset |-> FALSE]
          \/ npc' \in NetPc
      BY <1>1, RequestIs
    <3>3. npc' \in NetPc
      BY <3>2, PcsAre
    <3>4. QED
      BY <3>1, <3>3, IsTable DEF TypeInv
  <2>2. QED
    BY <1>0, <1>1, <1>u, <2>1 DEF RoutingRequest, TypeInv
<1>2. ASSUME NEW fd \in Fds, NEW sa \in SAs \cup {NoSA}, AliveResponse(fd, sa)
      PROVE  TypeInv'
  BY <1>0, <1>2, <1>q, <1>u, AliveResponseIs DEF AliveResponse, TypeInv
<1>3. CASE StartInitial \/ AliveCheckSingle \/ AliveCheckAll
  <2>1. table' \in Seq(EntryType)
    BY <1>3, <1>q, StartInitialIs, AliveCheckSingleIs, AliveCheckAllIs
  <2>2. QED
    BY <1>0, <1>3, <1>u, <2>1, PcsAre DEF StartInitial, AliveCheckSingle, AliveCheckAll, TypeInv
<1>4. CASE CheckAuthentication \/ ActivateDirectly
  <2>1. table' \in Seq(EntryType)
    BY <1>4, <1>m, CheckAuthenticationIs, ActivateDirectlyIs DEF TypeInv
  <2>2. QED
    BY <1>0, <1>4, <1>u, <2>1, PcsAre DEF CheckAuthentication, ActivateDirectly, TypeInv
<1>5. CASE NetClose
  <2>1. Open' \subseteq Fds /\ open' \in [Open' -> 1 .. MaxConns]
    BY <1>5, OpenIs DEF NetClose, TypeInv, Open
  <2>2. QED
    BY <1>0, <1>5, <2>1, ClosingIs DEF NetClose, TypeInv
<1>6. CASE NetRemove
  BY <1>0, <1>6, <1>u, RemoveType, PcsAre DEF NetRemove, TypeInv
<1>7. CASE RegistEntity \/ RegistUserConf
  BY <1>0, <1>7, <1>u DEF RegistEntity, RegistUserConf, TypeInv
<1>8. ASSUME NEW sa \in SAs \cup {NoSA}, UserConfirms(sa)
      PROVE  TypeInv'
  BY <1>0, <1>8, <1>m, <1>u, UserConfirmsIs DEF UserConfirms, TypeInv
<1>9. ASSUME NEW t \in timers, Inactivity(t) \/ NoAnswer(t)
      PROVE  TypeInv'
  <2>1. table' \in Seq(EntryType)
    BY <1>9, <1>m, FiresIs, TakesOverIs DEF TypeInv
  <2>2. QED
    BY <1>0, <1>9, <1>u, <2>1, FiresIs DEF TypeInv
<1>10. CASE TimerClose
  <2>1. Open' \subseteq Fds /\ open' \in [Open' -> 1 .. MaxConns]
    BY <1>10, OpenIs DEF TimerClose, TypeInv, Open
  <2>2. QED
    BY <1>0, <1>10, <2>1, ClosingIs DEF TimerClose, TypeInv
<1>11. CASE TimerRemove
  BY <1>0, <1>11, <1>u, RemoveType, PcsAre DEF TimerRemove, TypeInv
<1>12. CASE UNCHANGED vars
  BY <1>0, <1>12, <1>u DEF vars, TypeInv
<1>13. QED
  BY <1>0, <1>1, <1>2, <1>3, <1>4, <1>5, <1>6, <1>7, <1>8, <1>9, <1>10, <1>11, <1>12, NetTypes DEF Next, Net, Ipc, TimerThread

\* Every variable keeps its type: the table holds entries, the two threads are in one of the
\* places of their handlers, and the connections stay numbered within the bound.
THEOREM TypeCorrect == Spec => []TypeOK
<1>1. TypeInv => TypeOK
  BY NetPcIs, TimerPcIs DEF TypeInv, TypeOK, TimersInv, Accounted
<1>2. QED
  BY <1>1, InitType, TypeStep, PTL DEF Spec

-----------------------------------------------------------------------------
\* The entry of the connection that has the socket now.
Current(i) == table[i].fd \in Open /\ open[table[i].fd] = table[i].conn

\* Connections are numbered, and have one entry.
ConnsNumbered ==
    /\ \A i \in DOMAIN table : table[i].conn <= conns
    /\ \A fd \in Open : open[fd] <= conns
    /\ \A i, j \in DOMAIN table : table[i].conn = table[j].conn => i = j

\* A thread that is about to remove an entry has one to remove, and no two remove the same.
\* Only while the timer thread is about to may the socket have been opened again; the net
\* thread has just accepted it then, and waits for the timer thread.
RemoversKnow ==
    /\ npc.at = "remove" => npc.fd \notin Open /\ \E i \in DOMAIN table : table[i].fd = npc.fd /\ ~Current(i)
    /\ tpc.at = "remove" => \E i \in DOMAIN table : table[i].fd = tpc.fd /\ ~Current(i)
    /\ tpc.at = "remove" /\ tpc.fd \in Open =>
          /\ npc.at = "accepted" /\ npc.conn = open[tpc.fd]
          /\ \A i \in DOMAIN table : table[i].conn = npc.conn => table[i].state = "init" /\ ~table[i].regist
    /\ npc.at = "remove" /\ tpc.at = "remove" => npc.fd # tpc.fd

\* Of two entries with one socket number the first is left over, and the second is not.
FirstIsStale ==
    \A i, j \in DOMAIN table : i < j /\ table[i].fd = table[j].fd => ~Current(i) /\ Current(j)

SocketsInv == ConnsNumbered /\ TableMatchesSockets /\ RemoversKnow /\ FirstIsStale

\* A step that leaves the sockets of the entries, and the threads that are to remove some.
InPlace ==
    /\ DOMAIN table' = DOMAIN table
    /\ \A i \in DOMAIN table : table'[i].fd = table[i].fd /\ table'[i].conn = table[i].conn
    /\ UNCHANGED <<open, conns>>
    /\ npc' = npc \/ (npc.at # "remove" /\ npc'.at # "remove")
    /\ tpc' = tpc \/ (tpc.at # "remove" /\ tpc'.at # "remove")
    /\ tpc.at = "remove" /\ npc.at = "accepted" =>
          /\ npc' = npc
          /\ \A i \in DOMAIN table : table[i].state = "init" /\ ~table[i].regist
                                        => table'[i].state = "init" /\ ~table'[i].regist

\* A step in place keeps SocketsInv.
LEMMA InPlaceSockets ==
  ASSUME TypeInv, TypeInv', SocketsInv, InPlace
  PROVE  SocketsInv'
<1> USE DEF InPlace, SocketsInv
<1>1. Open' = Open /\ \A i \in DOMAIN table : Current(i)' = Current(i)
  BY DEF Open, Current
<1>2. ConnsNumbered'
  BY <1>1 DEF ConnsNumbered
<1>3. \A fd : Removing(fd)' <=> Removing(fd)
  BY DEF Removing
<1>4. TableMatchesSockets'
  BY <1>1, <1>3 DEF TableMatchesSockets
<1>5. RemoversKnow'
  BY <1>1 DEF RemoversKnow
<1>6. FirstIsStale'
  BY <1>1 DEF FirstIsStale
<1>7. QED
  BY <1>2, <1>4, <1>5, <1>6

\* Accepting a connection keeps SocketsInv: its entry is the last, and the socket number is new
\* or that of an entry which the timer thread is about to remove.
LEMMA AcceptSockets ==
  ASSUME TypeInv, TypeInv', SocketsInv, NEW fd \in Fds, Accept(fd)
  PROVE  SocketsInv'
<1>0. PICK n \in Nat : n = Len(table) + 1
  BY TableIs DEF TypeInv
<1>1. /\ DOMAIN table' = DOMAIN table \cup {n} /\ n \notin DOMAIN table /\ \A i \in DOMAIN table : i < n
      /\ table'[n].fd = fd /\ table'[n].conn = conns + 1 /\ table'[n].state = "init" /\ ~table'[n].regist
      /\ \A i \in DOMAIN table : table'[i] = table[i]
  BY <1>0, TableIs DEF TypeInv, Accept, Entry
<1>2. /\ Open' = Open \cup {fd} /\ fd \notin Open /\ open'[fd] = conns + 1
      /\ \A f \in Open : open'[f] = open[f]
      /\ conns' = conns + 1 /\ conns \in Nat
      /\ npc.at = "idle" /\ npc'.at = "accepted" /\ npc'.conn = conns + 1 /\ UNCHANGED tpc
  BY DEF Accept, Open, TypeInv, Idle
<1> USE DEF SocketsInv
<1>3. \A i \in DOMAIN table : table[i].conn \in Nat /\ table[i].conn < conns + 1
  BY <1>2, TableIs DEF ConnsNumbered, TypeInv, EntryType
<1>4. Current(n)' /\ \A i \in DOMAIN table : Current(i)' <=> Current(i)
  <2>1. Current(n)'
    BY <1>1, <1>2 DEF Current
  <2>2. ASSUME NEW i \in DOMAIN table
        PROVE  Current(i)' <=> Current(i)
    <3>1. CASE table[i].fd = fd
      BY <1>1, <1>2, <1>3, <3>1 DEF Current
    <3>2. CASE table[i].fd # fd
      BY <1>1, <1>2, <3>2 DEF Current
    <3>3. QED
      BY <3>1, <3>2
  <2>3. QED
    BY <2>1, <2>2
<1>5. ConnsNumbered'
  <2>1. \A f \in Open : open[f] \in Nat
    BY DEF TypeInv
  <2>2. QED
    BY <1>1, <1>2, <1>3, <2>1 DEF ConnsNumbered
<1>6. \A f : Removing(f)' <=> Removing(f)
  BY <1>2 DEF Removing
<1>7. TableMatchesSockets'
  BY <1>1, <1>2, <1>4, <1>6 DEF TableMatchesSockets, Current
<1>8. \A i \in DOMAIN table : table[i].fd = fd => ~Current(i)
  BY <1>2 DEF Current
<1>9. RemoversKnow'
  BY <1>1, <1>2, <1>3, <1>4 DEF RemoversKnow
<1>10. FirstIsStale'
  <2>1. \A i, j \in DOMAIN table : table[i].fd = fd /\ table[j].fd = fd => i = j
    BY <1>8, TableIs DEF FirstIsStale, TypeInv
  <2>2. ASSUME NEW i \in DOMAIN table', NEW j \in DOMAIN table', i < j, table'[i].fd = table'[j].fd
        PROVE  ~Current(i)' /\ Current(j)'
    <3>0. DOMAIN table \subseteq Nat /\ n \in Nat
      BY TableIs DEF TypeInv
    <3>1. i \in DOMAIN table
      BY <1>1, <2>2, <3>0
    <3>2. CASE j = n
      <4>1. table[i].fd = fd
        BY <1>1, <2>2, <3>1, <3>2
      <4>2. ~Current(i)'
        BY <1>4, <1>8, <3>1, <4>1
      <4>3. QED
        BY <1>4, <3>2, <4>2
    <3>3. CASE j \in DOMAIN table
      BY <1>1, <1>4, <2>2, <3>1, <3>3 DEF FirstIsStale
    <3>4. QED
      BY <1>1, <3>2, <3>3
  <2>3. QED
    BY <2>2 DEF FirstIsStale
<1>11. QED
  BY <1>5, <1>7, <1>9, <1>10

\* Closing a socket, by either thread: its entry is left over.
LEMMA ClosesSockets ==
  ASSUME TypeInv, TypeInv', SocketsInv, NEW fd \in Open, open' = AllBut(fd), UNCHANGED <<table, conns>>,
         \/ npc.at = "close" /\ npc'.at = "remove" /\ npc'.fd = fd /\ tpc' = tpc
         \/ tpc.at = "close" /\ tpc'.at = "remove" /\ tpc'.fd = fd /\ npc' = npc
  PROVE  SocketsInv'
<1> USE DEF SocketsInv
<1>1. Open' = Open \ {fd} /\ \A f \in Open' : open'[f] = open[f]
  BY OpenIs DEF Open
<1>2. \A i \in DOMAIN table : Current(i)' <=> Current(i) /\ table[i].fd # fd
  BY <1>1 DEF Current
<1>3. ~(npc.at = "remove" /\ npc.fd = fd) /\ ~(tpc.at = "remove" /\ tpc.fd = fd)
  BY DEF RemoversKnow
<1>4. ConnsNumbered'
  BY <1>1 DEF ConnsNumbered
<1>5. \A f : Removing(f)' <=> Removing(f) \/ f = fd
  BY <1>3 DEF Removing
<1>6. TableMatchesSockets'
  BY <1>1, <1>2, <1>5 DEF TableMatchesSockets, Current
<1>7. \E i \in DOMAIN table : table[i].fd = fd
  BY DEF TableMatchesSockets
<1>8. RemoversKnow'
  BY <1>1, <1>2, <1>3, <1>7 DEF RemoversKnow
<1>9. FirstIsStale'
  <2>1. \A i, j \in DOMAIN table : i < j /\ table[i].fd = table[j].fd => table[i].fd # fd
    BY <1>3 DEF FirstIsStale, TableMatchesSockets, Removing, Current
  <2>2. QED
    BY <1>2, <2>1 DEF FirstIsStale
<1>10. QED
  BY <1>4, <1>6, <1>8, <1>9

\* An entry is taken out: those that stay keep their order.
LEMMA RemovedIs ==
  ASSUME TypeInv, NEW fd, RemoveEntry(fd), FindByFd(fd) # 0
  PROVE  \E old \in [DOMAIN table' -> DOMAIN table \ {FindByFd(fd)}] :
            /\ \A i \in DOMAIN table' : table'[i] = table[old[i]]
            /\ \A i, j \in DOMAIN table' : i < j <=> old[i] < old[j]
            /\ \A k \in DOMAIN table \ {FindByFd(fd)} : \E i \in DOMAIN table' : old[i] = k
<1> DEFINE p == FindByFd(fd)
           n == Len(table)
           old == [i \in 1 .. n - 1 |-> IF i < p THEN i ELSE i + 1]
<1>1. n \in Nat /\ DOMAIN table = 1 .. n /\ p \in 1 .. n
  BY LookupIs, TableIs DEF TypeInv
<1>2. table' = RemoveAt(table, p)
  BY DEF RemoveEntry, FirstWithFd
<1>3. /\ RemoveAt(table, p) \in Seq(EntryType) /\ Len(RemoveAt(table, p)) = n - 1
      /\ \A i \in 1 .. n - 1 : RemoveAt(table, p)[i] = IF i < p THEN table[i] ELSE table[i + 1]
  BY <1>1, RemoveAtKeeps DEF TypeInv
<1>4. DOMAIN table' = 1 .. n - 1
  BY <1>2, <1>3, LenProperties
<1> HIDE DEF p, n
<1>5. old \in [1 .. n - 1 -> (1 .. n) \ {p}]
  BY <1>1
<1>6. \A i \in 1 .. n - 1 : table'[i] = table[old[i]]
  BY <1>1, <1>2, <1>3
<1>7. \A i, j \in 1 .. n - 1 : i < j <=> old[i] < old[j]
  BY <1>1
<1>8. \A k \in (1 .. n) \ {p} : \E i \in 1 .. n - 1 : old[i] = k
  <2>1. ASSUME NEW k \in (1 .. n) \ {p}
        PROVE  \E i \in 1 .. n - 1 : old[i] = k
    <3>1. CASE k < p
      BY <1>1, <3>1
    <3>2. CASE p < k
      <4>1. k - 1 \in 1 .. n - 1 /\ old[k - 1] = k
        BY <1>1, <3>2
      <4>2. QED
        BY <4>1
    <3>3. QED
      BY <1>1, <3>1, <3>2
  <2>2. QED
    BY <2>1
<1> HIDE DEF old
<1>9. /\ old \in [DOMAIN table' -> DOMAIN table \ {p}]
      /\ \A i \in DOMAIN table' : table'[i] = table[old[i]]
      /\ \A i, j \in DOMAIN table' : i < j <=> old[i] < old[j]
      /\ \A k \in DOMAIN table \ {p} : \E i \in DOMAIN table' : old[i] = k
  BY <1>1, <1>4, <1>5, <1>6, <1>7, <1>8
<1>10. QED
  BY <1>9 DEF p

\* Removing an entry, by either thread: it is the one that was left over.
LEMMA RemovesSockets ==
  ASSUME TypeInv, TypeInv', SocketsInv, NEW fd, RemoveEntry(fd), UNCHANGED <<open, conns>>,
         \/ npc.at = "remove" /\ npc.fd = fd /\ npc'.at = "idle" /\ tpc' = tpc
         \/ tpc.at = "remove" /\ tpc.fd = fd /\ tpc'.at = "idle" /\ npc' = npc
  PROVE  /\ SocketsInv'
         /\ \E old \in [DOMAIN table' -> DOMAIN table] :
               /\ \A i \in DOMAIN table' : table'[i] = table[old[i]] /\ (table[old[i]].fd = fd => Current(old[i]))
               /\ \A i, j \in DOMAIN table' : i < j <=> old[i] < old[j]
<1> USE DEF SocketsInv
<1> DEFINE p == FindByFd(fd)
<1>0. PICK k \in DOMAIN table : table[k].fd = fd /\ ~Current(k)
  BY DEF RemoversKnow
<1>1. p # 0 /\ p \in DOMAIN table /\ table[p].fd = fd /\ p <= k /\ DOMAIN table \subseteq Nat
  BY <1>0, LookupIs, TableIs DEF TypeInv
<1>2. PICK old \in [DOMAIN table' -> DOMAIN table \ {p}] :
            /\ \A i \in DOMAIN table' : table'[i] = table[old[i]]
            /\ \A i, j \in DOMAIN table' : i < j <=> old[i] < old[j]
            /\ \A d \in DOMAIN table \ {p} : \E i \in DOMAIN table' : old[i] = d
  BY <1>1, RemovedIs
<1>3. PICK q \in DOMAIN table : q = p
  BY <1>1
<1>4. q = k
  BY <1>0, <1>1, <1>3 DEF FirstIsStale
<1>5. \A i \in DOMAIN table : table[i].fd = fd /\ i # q => q < i /\ Current(i)
  BY <1>0, <1>1, <1>3, <1>4, LookupIs DEF FirstIsStale, TypeInv
<1> HIDE DEF p
<1>6. /\ old \in [DOMAIN table' -> DOMAIN table \ {q}]
      /\ \A d \in DOMAIN table \ {q} : \E i \in DOMAIN table' : old[i] = d
  BY <1>2, <1>3
<1>7. Open' = Open /\ \A i \in DOMAIN table' : Current(i)' <=> Current(old[i])
  BY <1>2, <1>6 DEF Current, Open
<1>o. DOMAIN table' \subseteq Nat /\ DOMAIN table \subseteq Nat
  BY LenProperties DEF TypeInv
<1>8. ConnsNumbered'
  <2>1. \A i, j \in DOMAIN table' : old[i] = old[j] => i = j
    BY <1>2, <1>6, <1>o
  <2>2. QED
    BY <1>2, <1>6, <1>7, <2>1 DEF ConnsNumbered
<1>9. \A f : Removing(f) => Removing(f)' \/ f = fd
  BY DEF Removing
<1>10. TableMatchesSockets'
  <2>1. ASSUME NEW f \in Open
        PROVE  \E i \in DOMAIN table' : table'[i].fd = f /\ table'[i].conn = open[f]
    <3>1. PICK d \in DOMAIN table : table[d].fd = f /\ table[d].conn = open[f]
      BY <2>1 DEF TableMatchesSockets
    <3>2. d # q
      BY <1>0, <1>4, <2>1, <3>1 DEF Current
    <3>3. QED
      BY <1>2, <1>6, <3>1, <3>2
  <2>2. ASSUME NEW i \in DOMAIN table'
        PROVE  Current(i)' \/ Removing(table[i].fd)'
    <3>1. Current(old[i]) \/ Removing(table[old[i]].fd)
      BY <1>6, <2>2 DEF TableMatchesSockets, Current
    <3>2. CASE table[old[i]].fd = fd
      BY <1>5, <1>6, <1>7, <2>2, <3>2
    <3>3. CASE table[old[i]].fd # fd
      <4>1. table'[i].fd = table[old[i]].fd
        BY <1>2, <2>2
      <4>2. CASE Current(old[i])
        BY <1>7, <2>2, <4>2
      <4>3. CASE Removing(table[old[i]].fd)
        BY <3>3, <4>1, <4>3 DEF Removing
      <4>4. QED
        BY <3>1, <4>2, <4>3
    <3>4. QED
      BY <3>2, <3>3
  <2>3. QED
    BY <1>7, <2>1, <2>2 DEF TableMatchesSockets, Current
<1>11. RemoversKnow'
  <2>1. ASSUME NEW f, f # fd, \E i \in DOMAIN table : table[i].fd = f /\ ~Current(i)
        PROVE  \E i \in DOMAIN table' : table'[i].fd = f /\ ~Current(i)'
    <3>1. PICK d \in DOMAIN table : table[d].fd = f /\ ~Current(d)
      BY <2>1
    <3>2. d # q
      BY <1>1, <1>3, <2>1, <3>1
    <3>3. PICK i \in DOMAIN table' : old[i] = d
      BY <1>6, <3>2
    <3>4. QED
      BY <1>2, <1>7, <3>1, <3>3
  <2>2. CASE npc.at = "remove" /\ npc.fd = fd /\ npc'.at = "idle" /\ tpc' = tpc
    BY <1>7, <2>1, <2>2 DEF RemoversKnow
  <2>3. CASE tpc.at = "remove" /\ tpc.fd = fd /\ tpc'.at = "idle" /\ npc' = npc
    BY <1>7, <2>1, <2>3 DEF RemoversKnow
  <2>4. QED
    BY <2>2, <2>3
<1>12. FirstIsStale'
  <2>1. ASSUME NEW i \in DOMAIN table', NEW j \in DOMAIN table', i < j, table'[i].fd = table'[j].fd
        PROVE  ~Current(i)' /\ Current(j)'
    <3>1. old[i] \in DOMAIN table /\ old[j] \in DOMAIN table /\ old[i] < old[j] /\ table[old[i]].fd = table[old[j]].fd
      BY <1>2, <1>6, <2>1
    <3>2. ~Current(old[i]) /\ Current(old[j])
      BY <3>1 DEF FirstIsStale
    <3>3. QED
      BY <1>7, <2>1, <3>2
  <2>2. QED
    BY <2>1 DEF FirstIsStale
<1>13. SocketsInv'
  BY <1>8, <1>10, <1>11, <1>12
<1>14. old \in [DOMAIN table' -> DOMAIN table] /\ \A i \in DOMAIN table' : table[old[i]].fd = fd => Current(old[i])
  BY <1>5, <1>6
<1>15. QED
  BY <1>2, <1>13, <1>14

\* Between the steps of the two threads every entry is the current one of its socket.
LEMMA QuietMeansCurrent ==
  ASSUME TypeInv, SocketsInv, npc.at # "remove", tpc.at # "remove"
  PROVE  /\ \A i \in DOMAIN table : Current(i)
         /\ \A i, j \in DOMAIN table : table[i].fd = table[j].fd => i = j
<1>1. \A i \in DOMAIN table : Current(i)
  BY DEF SocketsInv, TableMatchesSockets, Removing, Current
<1>2. \A i, j \in DOMAIN table : table[i].fd = table[j].fd => i = j
  BY <1>1 DEF SocketsInv, ConnsNumbered, Current
<1>3. QED
  BY <1>1, <1>2

\* Closing a connection and removing its entry at once keeps SocketsInv.
LEMMA DestroySockets ==
  ASSUME TypeInv, TypeInv', SocketsInv, NEW fd \in Fds, ClientDestroy(fd)
  PROVE  /\ SocketsInv'
         /\ \E old \in [DOMAIN table' -> DOMAIN table] :
               /\ \A i \in DOMAIN table' : table'[i] = table[old[i]] /\ table[old[i]].fd # fd
               /\ \A i, j \in DOMAIN table' : i < j <=> old[i] < old[j]
<1> USE DEF SocketsInv
<1>0. /\ npc.at = "idle" /\ tpc.at = "idle" /\ npc'.at = "idle" /\ tpc'.at = "idle"
      /\ fd \in Open /\ RemoveEntry(fd) /\ UNCHANGED conns
  BY DEF ClientDestroy, TimerLockFree, Idle
<1>1. Open' = Open \ {fd} /\ \A f \in Open' : open'[f] = open[f]
  BY OpenIs DEF ClientDestroy, Open
<1>2. PICK p \in DOMAIN table : p = FindByFd(fd) /\ table[p].fd = fd /\ p # 0
  BY <1>0, LookupIs DEF TableMatchesSockets, TypeInv
<1>3. PICK old \in [DOMAIN table' -> DOMAIN table \ {p}] :
            /\ \A i \in DOMAIN table' : table'[i] = table[old[i]]
            /\ \A i, j \in DOMAIN table' : i < j <=> old[i] < old[j]
            /\ \A d \in DOMAIN table \ {p} : \E i \in DOMAIN table' : old[i] = d
  BY <1>0, <1>2, RemovedIs
<1>4. /\ \A i \in DOMAIN table : Current(i)
      /\ \A i, j \in DOMAIN table : table[i].fd = table[j].fd => i = j
  BY <1>0, QuietMeansCurrent
<1>5. \A i \in DOMAIN table' : table[old[i]].fd # fd
  BY <1>2, <1>3, <1>4
<1>6. \A i \in DOMAIN table' : Current(i)'
  BY <1>1, <1>3, <1>4, <1>5 DEF Current
<1>o. DOMAIN table' \subseteq Nat /\ DOMAIN table \subseteq Nat
  BY LenProperties DEF TypeInv
<1>7. \A i, j \in DOMAIN table' : old[i] = old[j] => i = j
  BY <1>3, <1>o
<1>8. ConnsNumbered'
  BY <1>0, <1>1, <1>3, <1>7 DEF ConnsNumbered
<1>9. TableMatchesSockets'
  <2>1. ASSUME NEW f \in Open'
        PROVE  \E i \in DOMAIN table' : table'[i].fd = f /\ table'[i].conn = open'[f]
    <3>1. PICK d \in DOMAIN table : table[d].fd = f /\ table[d].conn = open[f]
      BY <1>1, <2>1 DEF TableMatchesSockets
    <3>2. QED
      BY <1>1, <1>2, <1>3, <2>1, <3>1
  <2>2. QED
    BY <1>6, <2>1 DEF TableMatchesSockets, Current
<1>10. RemoversKnow'
  BY <1>0 DEF RemoversKnow
<1>11. FirstIsStale'
  <2>1. \A i, j \in DOMAIN table' : table'[i].fd = table'[j].fd => i = j
    BY <1>3, <1>4, <1>7
  <2>2. QED
    BY <1>o, <2>1 DEF FirstIsStale
<1>12. QED
  BY <1>3, <1>5, <1>8, <1>9, <1>10, <1>11

\* No socket is open when the server starts.
LEMMA InitSockets == Init => SocketsInv
BY DEF Init, SocketsInv, ConnsNumbered, TableMatchesSockets, RemoversKnow, FirstIsStale, Open, Idle

\* The net thread closes a socket, if it still is open.
LEMMA NetCloseIs ==
  ASSUME TypeInv, NetClose
  PROVE  /\ npc.at = "close" /\ UNCHANGED <<table, timers, used, entity, tpc, conns, visible>>
         /\ \/ npc.fd \in Open /\ npc'.at = "remove" /\ npc'.fd = npc.fd /\ open' = AllBut(npc.fd)
            \/ npc.fd \notin Open /\ npc'.at = "idle" /\ open' = open
<1>1. npc.fd \notin Open => AllBut(npc.fd) = open
  BY DEF AllBut, TypeInv, Open
<1>2. QED
  BY <1>1, ClosingIs DEF NetClose, TypeInv, Idle

\* The timer thread closes a socket, if it still is open.
LEMMA TimerCloseIs ==
  ASSUME TypeInv, TimerClose
  PROVE  /\ tpc.at = "close" /\ UNCHANGED <<table, timers, used, ncts, entity, npc, conns, visible>>
         /\ \/ tpc.fd \in Open /\ tpc'.at = "remove" /\ tpc'.fd = tpc.fd /\ open' = AllBut(tpc.fd)
            \/ tpc.fd \notin Open /\ tpc'.at = "idle" /\ open' = open
<1>1. tpc.fd \notin Open => AllBut(tpc.fd) = open
  BY DEF AllBut, TypeInv, Open
<1>2. QED
  BY <1>1, ClosingIs DEF TimerClose, TypeInv, Idle

\* The steps that leave the sockets of the entries.
LEMMA InPlaceSteps ==
  ASSUME TypeInv,
         \/ \E fd \in Fds : \/ OtherMessage(fd) \/ BadMessage(fd)
                            \/ \E sa \in SAs \cup {NoSA}, ok \in BOOLEAN : RoutingRequest(fd, sa, ok)
                            \/ \E sa \in SAs \cup {NoSA} : AliveResponse(fd, sa)
         \/ StartInitial \/ CheckAuthentication \/ ActivateDirectly \/ AliveCheckSingle \/ AliveCheckAll
         \/ Ipc
         \/ \E t \in timers : Inactivity(t) \/ NoAnswer(t)
         \/ UNCHANGED vars
  PROVE  InPlace
<1>q. QuietTable => /\ DOMAIN table' = DOMAIN table
                    /\ \A i \in DOMAIN table : table'[i].fd = table[i].fd /\ table'[i].conn = table[i].conn
  BY DEF QuietTable, Like
<1>m. \A p : Moved(p) => /\ DOMAIN table' = DOMAIN table
                         /\ \A i \in DOMAIN table : table'[i].fd = table[i].fd /\ table'[i].conn = table[i].conn
  BY DEF Moved
<1>i. Idle.at = "idle"
  BY DEF Idle
<1>1. ASSUME NEW fd \in Fds, OtherMessage(fd) \/ BadMessage(fd)
      PROVE  InPlace
  <2>1. FindByFd(fd) \in DOMAIN table
    BY <1>1, LookupIs DEF OtherMessage, BadMessage, Receives, TypeInv
  <2>2. QuietTable
    BY <1>1, <2>1, TouchIs DEF OtherMessage, BadMessage, QuietTable
  <2>3. npc.at = "idle" /\ npc'.at # "remove" /\ tpc' = tpc /\ UNCHANGED <<open, conns>>
    BY <1>1, <1>i DEF OtherMessage, BadMessage, Receives
  <2>4. QED
    BY <1>q, <2>2, <2>3 DEF InPlace
<1>2. ASSUME NEW fd \in Fds, NEW sa \in SAs \cup {NoSA}, NEW ok \in BOOLEAN, RoutingRequest(fd, sa, ok)
      PROVE  InPlace
  <2>1. /\ table' \in [DOMAIN table -> EntryType]
        /\ \A i \in DOMAIN table : table'[i].fd = table[i].fd /\ table'[i].conn = table[i].conn
    BY <1>2, RequestIs DEF Like
  <2>2. npc'.at # "remove"
    BY <1>2, RequestIs
  <2>3. npc.at = "idle" /\ tpc' = tpc /\ UNCHANGED <<open, conns>>
    BY <1>2, <1>i DEF RoutingRequest, Receives
  <2>4. QED
    BY <2>1, <2>2, <2>3 DEF InPlace
<1>3. ASSUME NEW fd \in Fds, NEW sa \in SAs \cup {NoSA}, AliveResponse(fd, sa)
      PROVE  InPlace
  <2>1. QuietTable /\ npc'.at # "remove"
    BY <1>3, AliveResponseIs
  <2>2. npc.at = "idle" /\ tpc' = tpc /\ UNCHANGED <<open, conns>>
    BY <1>3, <1>i DEF AliveResponse, Receives
  <2>3. QED
    BY <1>q, <2>1, <2>2 DEF InPlace
<1>4. CASE StartInitial \/ AliveCheckSingle \/ AliveCheckAll
  <2>1. QuietTable
    BY <1>4, StartInitialIs, AliveCheckSingleIs, AliveCheckAllIs
  <2>2. npc.at \in {"accepted", "single", "all"} /\ npc'.at = "idle" /\ tpc = Idle /\ tpc' = tpc /\ UNCHANGED <<open, conns>>
    BY <1>4, <1>i DEF StartInitial, AliveCheckSingle, AliveCheckAll, TimerLockFree
  <2>3. QED
    BY <1>i, <1>q, <2>1, <2>2 DEF InPlace
<1>5. CASE CheckAuthentication \/ ActivateDirectly
  <2>1. UNCHANGED table \/ \E p : Moved(p)
    BY <1>5, CheckAuthenticationIs, ActivateDirectlyIs
  <2>2. npc.at \in {"auth", "direct"} /\ npc'.at = "idle" /\ tpc' = tpc /\ UNCHANGED <<open, conns>>
    BY <1>5, <1>i DEF CheckAuthentication, ActivateDirectly
  <2>3. QED
    BY <1>m, <2>1, <2>2 DEF InPlace
<1>6. CASE RegistEntity \/ RegistUserConf \/ UNCHANGED vars
  BY <1>6 DEF RegistEntity, RegistUserConf, vars, InPlace
<1>7. ASSUME NEW sa \in SAs \cup {NoSA}, UserConfirms(sa)
      PROVE  InPlace
  <2>1. PICK p \in DOMAIN table : Moved(p) /\ table[p].state = "conf"
    BY <1>7, UserConfirmsIs
  <2>2. UNCHANGED <<open, conns, npc, tpc>>
    BY <1>7 DEF UserConfirms
  <2>3. \A i \in DOMAIN table : table[i].state = "init" => table'[i] = table[i]
    BY <2>1 DEF Moved
  <2>4. QED
    BY <1>m, <2>1, <2>2, <2>3 DEF InPlace
<1>8. ASSUME NEW t \in timers, Inactivity(t) \/ NoAnswer(t)
      PROVE  InPlace
  <2>1. tpc = Idle /\ tpc'.at # "remove" /\ UNCHANGED <<open, npc, conns>>
    BY <1>8, <1>i, FiresIs
  <2>2. UNCHANGED table \/ \E p : Moved(p)
    BY <1>8, FiresIs, TakesOverIs
  <2>3. QED
    BY <1>i, <1>m, <2>1, <2>2 DEF InPlace
<1>9. QED
  BY <1>1, <1>2, <1>3, <1>4, <1>5, <1>6, <1>7, <1>8 DEF Ipc

\* Every step keeps SocketsInv.
LEMMA SocketsStep == TypeInv /\ SocketsInv /\ [Next]_vars => SocketsInv'
<1> SUFFICES ASSUME TypeInv, SocketsInv, [Next]_vars PROVE SocketsInv'
  OBVIOUS
<1>0. TypeInv'
  BY TypeStep
<1>1. ASSUME NEW fd \in Fds, Accept(fd) \/ ClientDestroy(fd)
      PROVE  SocketsInv'
  BY <1>0, <1>1, AcceptSockets, DestroySockets
<1>2. CASE NetClose
  <2>1. CASE npc.fd \in Open
    BY <1>0, <1>2, <2>1, NetCloseIs, ClosesSockets
  <2>2. CASE npc.fd \notin Open
    <3>1. InPlace
      BY <1>2, <2>2, NetCloseIs DEF InPlace
    <3>2. QED
      BY <1>0, <3>1, InPlaceSockets
  <2>3. QED
    BY <2>1, <2>2
<1>3. CASE TimerClose
  <2>1. CASE tpc.fd \in Open
    BY <1>0, <1>3, <2>1, TimerCloseIs, ClosesSockets
  <2>2. CASE tpc.fd \notin Open
    <3>1. InPlace
      BY <1>3, <2>2, TimerCloseIs DEF InPlace
    <3>2. QED
      BY <1>0, <3>1, InPlaceSockets
  <2>3. QED
    BY <2>1, <2>2
<1>4. CASE NetRemove
  BY <1>0, <1>4, RemovesSockets DEF NetRemove, Idle
<1>5. CASE TimerRemove
  BY <1>0, <1>5, RemovesSockets DEF TimerRemove, Idle
<1>6. QED
  BY <1>0, <1>1, <1>2, <1>3, <1>4, <1>5, InPlaceSteps, InPlaceSockets DEF Next, Net, TimerThread

\* Every open socket has an entry, and an entry whose socket is not open, or belongs to a newer
\* connection, is about to be removed by one of the two threads: the table and the sockets agree
\* although a socket is closed before its entry is removed (ne_doip_server_manager.c).
THEOREM SocketsCorrect == Spec => []TableMatchesSockets
<1>1. Init => TypeInv /\ SocketsInv
  BY InitType, InitSockets
<1>2. TypeInv /\ SocketsInv /\ [Next]_vars => (TypeInv /\ SocketsInv)'
  BY TypeStep, SocketsStep
<1>3. SocketsInv => TableMatchesSockets
  BY DEF SocketsInv
<1>4. QED
  BY <1>1, <1>2, <1>3, PTL DEF Spec

-----------------------------------------------------------------------------
\* Only while a thread is removing an entry may two entries have one socket number.
LEMMA DistinctFds ==
  ASSUME TypeInv, SocketsInv, npc.at \notin {"accepted", "remove"}
  PROVE  \A i, j \in DOMAIN table : table[i].fd = table[j].fd => i = j
<1>1. ASSUME NEW i \in DOMAIN table, NEW j \in DOMAIN table, i < j, table[i].fd = table[j].fd
      PROVE  FALSE
  <2>1. ~Current(i) /\ Current(j)
    BY <1>1 DEF SocketsInv, FirstIsStale
  <2>2. Removing(table[i].fd) /\ table[i].fd \in Open
    BY <1>1, <2>1 DEF SocketsInv, TableMatchesSockets, Current
  <2>3. QED
    BY <2>2 DEF Removing, SocketsInv, RemoversKnow
<1>2. DOMAIN table \subseteq Nat
  BY TableIs DEF TypeInv
<1>3. QED
  BY <1>1, <1>2

\* A thread is closing the socket fd: n and t say what the threads do next.
Doom(n, t, fd) ==
    \/ n.at \in {"close", "remove"} /\ n.fd = fd
    \/ t.at \in {"close", "remove"} /\ t.fd = fd

\* Doomed, by the entry and by the socket.
LEMMA DoomedIs ==
  \A i : /\ Doomed(i) <=> Doom(npc, tpc, table[i].fd)
         /\ Doomed(i)' <=> Doom(npc', tpc', table'[i].fd)
BY DEF Doomed, Doom, Removing

\* Being active or waiting for the user was earned by the entry, or it is about to be checked.
EntriesEarned ==
    ~visible => \A i \in DOMAIN table :
      table[i].state \in {"conf", "active"} =>
        /\ entity # "none"
        /\ table[i].ok \/ Doom(npc, tpc, table[i].fd) \/ (npc.at = "auth" /\ npc.fd = table[i].fd)

\* What the net thread checks is registered; it activates directly on a visible node only.
NetKnows ==
    /\ npc.at = "auth" => \A i \in DOMAIN table : table[i].fd = npc.fd => table[i].regist
    /\ npc.at = "direct" => visible

EarnedInv == EntriesEarned /\ RegisteredIsPending /\ NetKnows

\* A step that leaves the entries, or moves some on, and lets no socket off that is being closed.
Advances ==
    /\ DOMAIN table' = DOMAIN table
    /\ \A i \in DOMAIN table :
         /\ table'[i].fd = table[i].fd /\ table'[i].ok = table[i].ok
         /\ \/ table'[i].regist = table[i].regist /\ table'[i].state = table[i].state
            \/ /\ table'[i].regist /\ table'[i].state # "init"
               /\ table'[i].state \in {"conf", "active"} =>
                     \/ visible
                     \/ entity # "none" /\ table'[i].ok
                     \/ table[i].state = "conf"
    /\ visible' = visible /\ (entity # "none" => entity' # "none")
    /\ \A i \in DOMAIN table : Doom(npc, tpc, table[i].fd) => Doom(npc', tpc', table[i].fd)
    /\ npc' = npc \/ (npc.at # "auth" /\ npc'.at \notin {"auth", "direct"})

\* Moving entries on keeps EarnedInv.
LEMMA AdvancesEarned ==
  ASSUME EarnedInv, Advances
  PROVE  EarnedInv'
<1> USE DEF EarnedInv, Advances
<1>1. EntriesEarned'
  <2>1. ASSUME ~visible, NEW i \in DOMAIN table, table'[i].state \in {"conf", "active"}
        PROVE  /\ entity' # "none"
               /\ table'[i].ok \/ Doom(npc', tpc', table[i].fd) \/ (npc'.at = "auth" /\ npc'.fd = table[i].fd)
    <3>1. \/ table[i].state \in {"conf", "active"}
          \/ entity # "none" /\ table'[i].ok
      BY <2>1
    <3>2. CASE entity # "none" /\ table'[i].ok
      BY <3>2
    <3>3. CASE table[i].state \in {"conf", "active"}
      <4>1. /\ entity # "none"
            /\ table[i].ok \/ Doom(npc, tpc, table[i].fd) \/ (npc.at = "auth" /\ npc.fd = table[i].fd)
        BY <2>1, <3>3 DEF EntriesEarned
      <4>2. QED
        BY <2>1, <4>1
    <3>4. QED
      BY <3>1, <3>2, <3>3
  <2>2. \A i \in DOMAIN table : table'[i].fd = table[i].fd
    OBVIOUS
  <2>3. ASSUME ~visible', NEW i \in DOMAIN table', table'[i].state \in {"conf", "active"}
        PROVE  /\ entity' # "none"
               /\ table'[i].ok \/ Doom(npc', tpc', table'[i].fd) \/ (npc'.at = "auth" /\ npc'.fd = table'[i].fd)
    BY <2>1, <2>2, <2>3
  <2>4. QED
    BY <2>3 DEF EntriesEarned
<1>2. RegisteredIsPending'
  BY DEF RegisteredIsPending
<1>3. NetKnows'
  BY DEF NetKnows
<1>4. QED
  BY <1>1, <1>2, <1>3

\* No entry is registered when the server starts.
LEMMA InitEarned == Init => EarnedInv
BY DEF Init, EarnedInv, EntriesEarned, RegisteredIsPending, NetKnows, Idle

\* The entries that stay when some are taken out, and were not saved by it.
LEMMA RemovesEarned ==
  ASSUME EarnedInv, NEW old \in [DOMAIN table' -> DOMAIN table],
         \A i \in DOMAIN table' : table'[i] = table[old[i]],
         \A i \in DOMAIN table' : table[old[i]].state # "init" =>
                                      (Doom(npc, tpc, table[old[i]].fd) => Doom(npc', tpc', table[old[i]].fd)),
         UNCHANGED <<visible, entity>>, npc' = npc \/ (npc.at # "auth" /\ npc'.at \notin {"auth", "direct"})
  PROVE  EarnedInv'
<1> USE DEF EarnedInv
<1>1. EntriesEarned'
  <2>1. ASSUME ~visible', NEW i \in DOMAIN table', table'[i].state \in {"conf", "active"}
        PROVE  /\ entity' # "none"
               /\ table'[i].ok \/ Doom(npc', tpc', table'[i].fd) \/ (npc'.at = "auth" /\ npc'.fd = table'[i].fd)
    <3>1. PICK k \in DOMAIN table : k = old[i]
      OBVIOUS
    <3>2. table'[i] = table[k] /\ (Doom(npc, tpc, table[k].fd) => Doom(npc', tpc', table[k].fd))
      BY <2>1, <3>1
    <3>3. /\ entity # "none"
          /\ table[k].ok \/ Doom(npc, tpc, table[k].fd) \/ (npc.at = "auth" /\ npc.fd = table[k].fd)
      BY <2>1, <3>2 DEF EntriesEarned
    <3>4. QED
      BY <3>2, <3>3
  <2>2. QED
    BY <2>1 DEF EntriesEarned
<1>2. RegisteredIsPending'
  BY DEF RegisteredIsPending
<1>3. NetKnows'
  BY DEF NetKnows
<1>4. QED
  BY <1>1, <1>2, <1>3

\* An entry of a socket that is being closed keeps a thread that removes it.
LEMMA ClosesDoomed ==
  ASSUME TypeInv, SocketsInv, NetClose \/ TimerClose
  PROVE  \A i \in DOMAIN table : Doom(npc, tpc, table[i].fd) => Doom(npc', tpc', table[i].fd)
<1>1. ASSUME NEW i \in DOMAIN table, table[i].fd \notin Open
      PROVE  Removing(table[i].fd)
  BY <1>1 DEF SocketsInv, TableMatchesSockets
<1>2. CASE NetClose
  BY <1>1, <1>2, NetCloseIs DEF Doom, Removing
<1>3. CASE TimerClose
  BY <1>1, <1>3, TimerCloseIs DEF Doom, Removing
<1>4. QED
  BY <1>2, <1>3

\* A quiet step keeps EarnedInv.
LEMMA QuietEarned ==
  ASSUME TypeInv, EarnedInv, QuietTable, UNCHANGED <<visible, entity, tpc>>,
         npc.at \in {"idle", "accepted", "single", "all"}, npc'.at \in {"idle", "close"}
  PROVE  EarnedInv'
<1>1. Advances
  BY DEF QuietTable, Like, Advances, Doom
<1>2. QED
  BY <1>1, AdvancesEarned

\* A routing request keeps EarnedInv: what it registers is checked next.
LEMMA RequestEarned ==
  ASSUME TypeInv, SocketsInv, EarnedInv, NEW fd \in Fds, NEW sa \in SAs \cup {NoSA}, NEW ok \in BOOLEAN,
         RoutingRequest(fd, sa, ok)
  PROVE  EarnedInv'
<1> USE DEF EarnedInv
<1>1. /\ npc.at = "idle" /\ UNCHANGED <<tpc, visible, entity>>
  BY DEF RoutingRequest, Receives, Idle
<1>2. PICK p \in DOMAIN table : p = FindByFd(fd)
  BY RequestIs
<1>3. /\ table[p].fd = fd /\ DOMAIN table' = DOMAIN table
      /\ \A i \in DOMAIN table : i # p => Like(table'[i], table[i])
      /\ table'[p].fd = fd /\ table'[p].state = table[p].state
  BY <1>2, RequestIs
<1>4. \/ npc' = [at |-> "auth", fd |-> fd] /\ table'[p].regist
      \/ npc' = [at |-> "close", fd |-> fd, reset |-> FALSE] /\ table'[p].regist = table[p].regist
      \/ /\ npc'.at \in {"single", "direct", "all"} /\ (npc'.at = "direct" => visible)
         /\ ~table[p].regist /\ ~table'[p].regist
  BY <1>2, RequestIs
<1>5. \A i \in DOMAIN table : table[i].fd = fd => i = p
  BY <1>1, <1>3, DistinctFds
<1>6. \A i \in DOMAIN table : table[i].regist => table[i].state # "init"
  BY <1>1 DEF RegisteredIsPending
<1>7. EntriesEarned'
  <2>1. ASSUME ~visible, NEW i \in DOMAIN table, table'[i].state \in {"conf", "active"}
        PROVE  /\ entity # "none"
               /\ table'[i].ok \/ Doom(npc', tpc', table'[i].fd) \/ (npc'.at = "auth" /\ npc'.fd = table'[i].fd)
    <3>1. table[i].state = table'[i].state /\ table'[i].fd = table[i].fd
      BY <1>3 DEF Like
    <3>2. entity # "none" /\ (table[i].ok \/ Doom(npc, tpc, table[i].fd))
      BY <1>1, <2>1, <3>1 DEF EntriesEarned
    <3>3. CASE i = p
      BY <1>3, <1>4, <2>1, <3>1, <3>2, <3>3 DEF RegisteredIsPending, Doom
    <3>4. CASE i # p
      BY <1>1, <1>3, <3>2, <3>4 DEF Like, Doom
    <3>5. QED
      BY <3>3, <3>4
  <2>2. QED
    BY <1>1, <1>3, <2>1 DEF EntriesEarned
<1>8. RegisteredIsPending'
  BY <1>3, <1>4, <1>6 DEF RegisteredIsPending, Like
<1>9. NetKnows'
  BY <1>1, <1>3, <1>4, <1>5 DEF NetKnows, Like
<1>10. QED
  BY <1>7, <1>8, <1>9

\* The checks keep EarnedInv.
LEMMA CheckEarned ==
  ASSUME TypeInv, SocketsInv, EarnedInv, CheckAuthentication
  PROVE  EarnedInv'
<1> USE DEF EarnedInv
<1>1. npc.at = "auth" /\ npc'.at = "idle" /\ UNCHANGED <<tpc, visible, entity>>
  BY DEF CheckAuthentication, Idle
<1>2. \A i, j \in DOMAIN table : table[i].fd = table[j].fd => i = j
  BY <1>1, DistinctFds
<1>3. \A fd : Doom(npc, tpc, fd) => Doom(npc', tpc', fd)
  BY <1>1 DEF Doom
<1>4. CASE FindByFd(npc.fd) = 0
  <2>1. UNCHANGED table /\ \A i \in DOMAIN table : table[i].fd # npc.fd
    BY <1>4, LookupIs, CheckAuthenticationIs, TableIs DEF TypeInv
  <2>2. EntriesEarned'
    BY <1>1, <1>3, <2>1 DEF EntriesEarned
  <2>3. RegisteredIsPending'
    BY <1>1, <2>1 DEF RegisteredIsPending
  <2>4. QED
    BY <1>1, <2>2, <2>3 DEF NetKnows
<1>5. CASE FindByFd(npc.fd) # 0
  <2>1. PICK p \in DOMAIN table : table[p].fd = npc.fd /\ Moved(p) /\ table'[p] = Checked(table[p])
    BY <1>5, CheckAuthenticationIs
  <2>2. /\ table'[p].state \in {"auth", "conf", "active"} /\ table'[p].regist
        /\ table'[p].state \in {"conf", "active"} => entity # "none" /\ table'[p].ok
    <3>1. table[p] \in EntryType /\ table[p].regist
      BY <1>1, <2>1, TableIs DEF TypeInv, NetKnows
    <3>2. QED
      BY <2>1, <3>1, CheckedIs
  <2>3. \A i \in DOMAIN table : i # p => table[i].fd # npc.fd /\ table'[i] = table[i]
    BY <1>2, <2>1 DEF Moved
  <2>4. DOMAIN table' = DOMAIN table
    BY <2>1 DEF Moved
  <2>5. EntriesEarned'
    <3>1. ASSUME ~visible, NEW i \in DOMAIN table, table'[i].state \in {"conf", "active"}
          PROVE  entity # "none" /\ (table'[i].ok \/ Doom(npc', tpc', table'[i].fd))
      <4>1. CASE i = p
        BY <2>2, <3>1, <4>1
      <4>2. CASE i # p
        BY <1>3, <2>3, <3>1, <4>2 DEF EntriesEarned
      <4>3. QED
        BY <4>1, <4>2
    <3>2. QED
      BY <1>1, <2>4, <3>1 DEF EntriesEarned
  <2>6. RegisteredIsPending'
    BY <1>1, <2>2, <2>3, <2>4 DEF RegisteredIsPending
  <2>7. QED
    BY <1>1, <2>5, <2>6 DEF NetKnows
<1>6. QED
  BY <1>4, <1>5

\* Accepting a connection keeps EarnedInv.
LEMMA AcceptEarned ==
  ASSUME TypeInv, EarnedInv, NEW fd \in Fds, Accept(fd)
  PROVE  EarnedInv'
<1> USE DEF EarnedInv
<1>0. PICK n \in Nat : n = Len(table) + 1
  BY TableIs DEF TypeInv
<1>1. /\ DOMAIN table' = DOMAIN table \cup {n} /\ table'[n].state = "init" /\ ~table'[n].regist
      /\ \A i \in DOMAIN table : table'[i] = table[i]
  BY <1>0, TableIs DEF TypeInv, Accept, Entry
<1>2. npc.at = "idle" /\ npc'.at = "accepted" /\ UNCHANGED <<tpc, visible, entity>>
  BY DEF Accept, Idle
<1>3. \A f : Doom(npc, tpc, f) => Doom(npc', tpc', f)
  BY <1>2 DEF Doom
<1>4. EntriesEarned'
  BY <1>1, <1>2, <1>3 DEF EntriesEarned
<1>5. RegisteredIsPending'
  BY <1>1, <1>2 DEF RegisteredIsPending
<1>6. QED
  BY <1>2, <1>4, <1>5 DEF NetKnows

\* A timeout keeps EarnedInv: an entry that takes over passes the checks.
LEMMA TimeoutEarned ==
  ASSUME TypeInv, EarnedInv, NEW t \in timers, Inactivity(t) \/ NoAnswer(t)
  PROVE  EarnedInv'
<1>1. npc' = npc /\ visible' = visible /\ entity' = entity /\ tpc = Idle
  BY FiresIs
<1>2. \A f : Doom(npc, tpc, f) => Doom(npc', tpc', f)
  BY <1>1 DEF Doom, Idle
<1>3. UNCHANGED table \/ \E r \in DOMAIN table, sa \in SAs \cup {NoSA} : TakesOver(r, sa)
  BY FiresIs
<1>4. CASE UNCHANGED table
  <2>1. Advances
    BY <1>1, <1>2, <1>4 DEF Advances
  <2>2. QED
    BY <2>1, AdvancesEarned
<1>5. ASSUME NEW r \in DOMAIN table, NEW sa \in SAs \cup {NoSA}, TakesOver(r, sa)
      PROVE  EarnedInv'
  <2>1. /\ Moved(r) /\ table'[r].regist /\ table'[r].state \in {"auth", "conf", "active"}
        /\ table'[r].state \in {"conf", "active"} => entity # "none" /\ table'[r].ok
    BY <1>5, TakesOverIs
  <2>2. Advances
    BY <1>1, <1>2, <2>1 DEF Advances, Moved
  <2>3. QED
    BY <2>2, AdvancesEarned
<1>6. QED
  BY <1>3, <1>4, <1>5

\* The user's confirmation keeps EarnedInv.
LEMMA ConfirmEarned ==
  ASSUME TypeInv, EarnedInv, NEW sa \in SAs \cup {NoSA}, UserConfirms(sa)
  PROVE  EarnedInv'
<1>1. UNCHANGED <<npc, tpc, visible, entity>>
  BY DEF UserConfirms
<1>2. PICK p \in DOMAIN table :
            Moved(p) /\ table[p].state = "conf" /\ table'[p].state = "active" /\ table'[p].regist
  BY UserConfirmsIs
<1>3. Advances
  BY <1>1, <1>2 DEF Advances, Moved
<1>4. QED
  BY <1>3, AdvancesEarned

\* Activating directly keeps EarnedInv: it happens on a visible node only.
LEMMA DirectEarned ==
  ASSUME TypeInv, EarnedInv, ActivateDirectly
  PROVE  EarnedInv'
<1>1. npc.at = "direct" /\ visible /\ npc'.at = "idle" /\ UNCHANGED <<tpc, visible, entity>>
  BY DEF ActivateDirectly, EarnedInv, NetKnows, Idle
<1>2. \A f : Doom(npc, tpc, f) => Doom(npc', tpc', f)
  BY <1>1 DEF Doom
<1>3. CASE UNCHANGED table
  BY <1>1, <1>2, <1>3, AdvancesEarned DEF Advances
<1>4. ASSUME NEW p \in DOMAIN table, Moved(p), table'[p].state = "active", table'[p].regist
      PROVE  EarnedInv'
  <2>1. Advances
    BY <1>1, <1>2, <1>4 DEF Advances, Moved
  <2>2. QED
    BY <2>1, AdvancesEarned
<1>5. QED
  BY <1>3, <1>4, ActivateDirectlyIs

\* An entry is taken out by the thread that was about to: no other entry of the socket but
\* one that was just accepted is left.
LEMMA RemoveEarned ==
  ASSUME TypeInv, TypeInv', SocketsInv, EarnedInv, NetRemove \/ TimerRemove
  PROVE  EarnedInv'
<1>1. PICK fd : /\ RemoveEntry(fd) /\ UNCHANGED <<open, conns, visible, entity>>
                /\ \/ npc.at = "remove" /\ npc.fd = fd /\ npc'.at = "idle" /\ tpc' = tpc
                   \/ tpc.at = "remove" /\ tpc.fd = fd /\ tpc'.at = "idle" /\ npc' = npc
  BY DEF NetRemove, TimerRemove, Idle
<1>2. PICK old \in [DOMAIN table' -> DOMAIN table] :
            /\ \A i \in DOMAIN table' : table'[i] = table[old[i]] /\ (table[old[i]].fd = fd => Current(old[i]))
            /\ \A i, j \in DOMAIN table' : i < j <=> old[i] < old[j]
  BY <1>1, RemovesSockets
<1>3. ASSUME NEW k \in DOMAIN table, table[k].fd = fd, Current(k)
      PROVE  table[k].state = "init" /\ npc.at = "accepted"
  BY <1>1, <1>3 DEF SocketsInv, RemoversKnow, Current
<1>4. \A f : f # fd => (Doom(npc, tpc, f) => Doom(npc', tpc', f))
  BY <1>1 DEF Doom
<1>5. \A i \in DOMAIN table' : table[old[i]].state # "init" =>
                                      (Doom(npc, tpc, table[old[i]].fd) => Doom(npc', tpc', table[old[i]].fd))
  BY <1>2, <1>3, <1>4
<1>6. QED
  BY <1>1, <1>2, <1>5, RemovesEarned

\* Closing a connection keeps EarnedInv.
LEMMA DestroyEarned ==
  ASSUME TypeInv, TypeInv', SocketsInv, EarnedInv, NEW fd \in Fds, ClientDestroy(fd)
  PROVE  EarnedInv'
<1>1. UNCHANGED <<npc, tpc, visible, entity>>
  BY DEF ClientDestroy
<1>2. PICK old \in [DOMAIN table' -> DOMAIN table] :
            /\ \A i \in DOMAIN table' : table'[i] = table[old[i]] /\ table[old[i]].fd # fd
            /\ \A i, j \in DOMAIN table' : i < j <=> old[i] < old[j]
  BY DestroySockets
<1>3. QED
  BY <1>1, <1>2, RemovesEarned

\* Every step keeps EarnedInv.
LEMMA EarnedStep == TypeInv /\ SocketsInv /\ EarnedInv /\ [Next]_vars => EarnedInv'
<1> SUFFICES ASSUME TypeInv, SocketsInv, EarnedInv, [Next]_vars PROVE EarnedInv'
  OBVIOUS
<1>0. TypeInv'
  BY TypeStep
<1>i. Idle.at = "idle"
  BY DEF Idle
<1>1. ASSUME NEW fd \in Fds, OtherMessage(fd) \/ BadMessage(fd)
      PROVE  EarnedInv'
  <2>1. FindByFd(fd) \in DOMAIN table
    BY <1>1, LookupIs DEF OtherMessage, BadMessage, Receives, TypeInv
  <2>2. QuietTable
    BY <1>1, <2>1, TouchIs DEF OtherMessage, BadMessage, QuietTable
  <2>3. npc.at = "idle" /\ npc'.at \in {"idle", "close"} /\ UNCHANGED <<visible, entity, tpc>>
    BY <1>1, <1>i DEF OtherMessage, BadMessage, Receives
  <2>4. QED
    BY <2>2, <2>3, QuietEarned
<1>2. ASSUME NEW fd \in Fds, NEW sa \in SAs \cup {NoSA}, AliveResponse(fd, sa)
      PROVE  EarnedInv'
  <2>1. npc.at = "idle" /\ UNCHANGED <<visible, entity, tpc>>
    BY <1>2, <1>i DEF AliveResponse, Receives
  <2>2. QED
    BY <1>2, <2>1, AliveResponseIs, QuietEarned
<1>3. CASE StartInitial \/ AliveCheckSingle \/ AliveCheckAll
  <2>1. QuietTable
    BY <1>3, StartInitialIs, AliveCheckSingleIs, AliveCheckAllIs
  <2>2. npc.at \in {"accepted", "single", "all"} /\ npc'.at = "idle" /\ UNCHANGED <<visible, entity, tpc>>
    BY <1>3, <1>i DEF StartInitial, AliveCheckSingle, AliveCheckAll
  <2>3. QED
    BY <2>1, <2>2, QuietEarned
<1>4. CASE NetClose \/ TimerClose
  <2>1. \A i \in DOMAIN table : Doom(npc, tpc, table[i].fd) => Doom(npc', tpc', table[i].fd)
    BY <1>4, ClosesDoomed
  <2>2. /\ UNCHANGED <<table, visible, entity>>
        /\ npc' = npc \/ (npc.at # "auth" /\ npc'.at \notin {"auth", "direct"})
    BY <1>4, NetCloseIs, TimerCloseIs
  <2>3. QED
    BY <2>1, <2>2, AdvancesEarned DEF Advances
<1>5. CASE RegistEntity \/ RegistUserConf \/ UNCHANGED vars
  <2>1. UNCHANGED <<table, visible, npc, tpc>> /\ (entity # "none" => entity' # "none")
    BY <1>5 DEF RegistEntity, RegistUserConf, vars
  <2>2. QED
    BY <2>1, AdvancesEarned DEF Advances
<1>6. QED
  BY <1>0, <1>1, <1>2, <1>3, <1>4, <1>5, AcceptEarned, RequestEarned, CheckEarned, TimeoutEarned,
     ConfirmEarned, DirectEarned, RemoveEarned, DestroyEarned DEF Next, Net, Ipc, TimerThread

\* An entry is active or waits for the user only if a node was there to decide and its
\* authentication passed, unless the node activates whatever it is asked to; and a registered
\* entry is past its initial state, or about to be checked (ne_doip_server_manager.c).
THEOREM EarnedCorrect == Spec => []StateEarned
<1>1. Init => TypeInv /\ SocketsInv /\ EarnedInv
  BY InitType, InitSockets, InitEarned
<1>2. TypeInv /\ SocketsInv /\ EarnedInv /\ [Next]_vars => (TypeInv /\ SocketsInv /\ EarnedInv)'
  BY TypeStep, SocketsStep, EarnedStep
<1>3. EarnedInv => StateEarned
  BY DoomedIs DEF EarnedInv, EntriesEarned, StateEarned, ActiveIsAuthorized
<1>4. QED
  BY <1>1, <1>2, <1>3, PTL DEF Spec

-----------------------------------------------------------------------------
\* At most mcts + 1 sockets are open, and at most mcts while one is being removed.
OpenBounded ==
    /\ IsFiniteSet(Open) /\ Cardinality(Open) <= mcts + 1
    /\ npc.at = "remove" => Cardinality(Open) <= mcts

\* The registered entries that no thread is closing.
Live == {i \in DOMAIN table : table[i].regist /\ ~Doom(npc, tpc, table[i].fd)}
LiveBounded == ~visible => Cardinality(Live) <= mcts

MctsInv == OpenBounded /\ LiveBounded

\* The live entries can be counted.
LEMMA LiveFinite ==
  ASSUME TypeInv
  PROVE  IsFiniteSet(Live) /\ Cardinality(Live) \in Nat /\ mcts \in Nat
<1>1. IsFiniteSet(DOMAIN table)
  <2>1. PICK n \in Nat : DOMAIN table = 1 .. n
    BY TableIs DEF TypeInv
  <2>2. QED
    BY <2>1, FS_Interval
<1>2. IsFiniteSet(Live)
  BY <1>1, FS_Subset DEF Live
<1>3. QED
  BY <1>2, FS_CardinalityType, mctsAssumption

\* No more entries than before live on.
LEMMA FewerLive ==
  ASSUME TypeInv, LiveBounded, visible' = visible, Live' \subseteq Live
  PROVE  LiveBounded'
<1>1. \A S \in SUBSET Live : Cardinality(S) \in Nat /\ Cardinality(S) <= Cardinality(Live)
  BY LiveFinite, FS_Subset, FS_CardinalityType
<1>2. PICK S \in SUBSET Live : S = Live'
  OBVIOUS
<1>3. QED
  BY <1>1, <1>2, LiveFinite DEF LiveBounded

\* The entries that live on can be told apart by entries that lived.
LEMMA MappedLive ==
  ASSUME TypeInv, LiveBounded, visible' = visible, NEW T, T = Live', NEW old \in [T -> Live],
         \A i, j \in T : old[i] = old[j] => i = j
  PROVE  LiveBounded'
<1>1. old \in Injection(T, Live)
  BY DEF Injection, IsInjective
<1>2. IsFiniteSet(T) /\ Cardinality(T) <= Cardinality(Live)
  BY <1>1, LiveFinite, FS_Injection
<1>3. QED
  BY <1>2, LiveFinite, FS_CardinalityType DEF LiveBounded

\* What opens no socket keeps the bound on their number.
LEMMA OpenKept ==
  ASSUME TypeInv, OpenBounded,
         \/ Open' = Open /\ (npc'.at = "remove" => npc.at = "remove")
         \/ \E fd \in Open : Open' = Open \ {fd}
  PROVE  OpenBounded'
<1>0. mcts \in Nat /\ Cardinality(Open) \in Nat
  BY mctsAssumption, FS_CardinalityType DEF OpenBounded
<1>1. CASE Open' = Open /\ (npc'.at = "remove" => npc.at = "remove")
  BY <1>1 DEF OpenBounded
<1>2. ASSUME NEW fd \in Open, Open' = Open \ {fd}
      PROVE  OpenBounded'
  <2>1. IsFiniteSet(Open \ {fd}) /\ Cardinality(Open \ {fd}) = Cardinality(Open) - 1
    BY <1>2, FS_RemoveElement DEF OpenBounded
  <2>2. QED
    BY <1>0, <1>2, <2>1 DEF OpenBounded
<1>3. QED
  BY <1>1, <1>2

\* A step that registers no entry and lets no socket off that is being closed.
LEMMA NoneRegistered ==
  ASSUME TypeInv, MctsInv, UNCHANGED <<open, visible>>, DOMAIN table' = DOMAIN table,
         \A i \in DOMAIN table : table'[i].fd = table[i].fd /\ (table'[i].regist => table[i].regist),
         \A i \in DOMAIN table : Doom(npc, tpc, table[i].fd) => Doom(npc', tpc', table[i].fd),
         npc'.at = "remove" => npc.at = "remove"
  PROVE  MctsInv'
<1>1. Live' \subseteq Live
  BY DEF Live
<1>2. QED
  BY <1>1, FewerLive, OpenKept DEF MctsInv, Open

\* Each live entry has an open socket of its own, so with one socket closing at most mcts live.
LEMMA TimeoutMcts ==
  ASSUME TypeInv, SocketsInv, MctsInv, NEW t \in timers, Inactivity(t) \/ NoAnswer(t)
  PROVE  MctsInv'
<1>1. npc' = npc /\ visible' = visible /\ tpc = Idle /\ open' = open
  BY FiresIs
<1>2. \A f : Doom(npc, tpc, f) => Doom(npc', tpc', f)
  BY <1>1 DEF Doom, Idle
<1>3. CASE UNCHANGED table
  BY <1>1, <1>2, <1>3, NoneRegistered
<1>4. ASSUME NEW p \in DOMAIN table, tpc'.at = "close", tpc'.fd = table[p].fd,
             NEW r \in DOMAIN table, NEW sa \in SAs \cup {NoSA}, TakesOver(r, sa)
      PROVE  MctsInv'
  <2>1. DOMAIN table' = DOMAIN table /\ \A i \in DOMAIN table : table'[i].fd = table[i].fd
    BY <1>4, TakesOverIs DEF Moved
  <2>2. PICK T : T = Live'
    OBVIOUS
  <2>3. ASSUME NEW i \in T
        PROVE  i \in DOMAIN table /\ Current(i) /\ table[i].fd # table[p].fd
    <3>1. i \in DOMAIN table /\ ~Doom(npc', tpc', table[i].fd)
      BY <2>1, <2>2, <2>3 DEF Live
    <3>2. ~Removing(table[i].fd) /\ table[i].fd # table[p].fd
      BY <1>1, <1>2, <1>4, <3>1 DEF Doom, Removing
    <3>3. QED
      BY <3>1, <3>2 DEF SocketsInv, TableMatchesSockets, Current
  <2>4. \A i, j \in T : table[i].fd = table[j].fd => i = j
    BY <2>3 DEF Current, SocketsInv, ConnsNumbered
  <2>5. PICK O : O = Open \ {table[p].fd}
    OBVIOUS
  <2>6. IsFiniteSet(O) /\ Cardinality(O) <= mcts
    <3>1. /\ IsFiniteSet(O)
          /\ Cardinality(O) = IF table[p].fd \in Open THEN Cardinality(Open) - 1 ELSE Cardinality(Open)
      BY <2>5, FS_RemoveElement DEF MctsInv, OpenBounded
    <3>2. table[p].fd \notin Open => npc.at = "remove"
      BY <1>1 DEF SocketsInv, TableMatchesSockets, Removing, Idle
    <3>3. Cardinality(Open) \in Nat /\ mcts \in Nat
      BY FS_CardinalityType, mctsAssumption DEF MctsInv, OpenBounded
    <3>4. QED
      BY <3>1, <3>2, <3>3 DEF MctsInv, OpenBounded
  <2>7. PICK f : f = [i \in T |-> table[i].fd]
    OBVIOUS
  <2>8. f \in Injection(T, O)
    BY <2>3, <2>4, <2>5, <2>7 DEF Injection, IsInjective, Current
  <2>9. IsFiniteSet(T) /\ Cardinality(T) <= Cardinality(O)
    BY <2>6, <2>8, FS_Injection
  <2>10. Cardinality(T) <= mcts
    BY <2>6, <2>9, FS_CardinalityType, mctsAssumption
  <2>11. OpenBounded'
    BY <1>1, OpenKept DEF MctsInv, Open
  <2>12. QED
    BY <2>2, <2>10, <2>11 DEF MctsInv, LiveBounded
<1>5. QED
  BY <1>3, <1>4, FiresIs

\* Accepting a connection keeps MctsInv: one that is too many is closed.
LEMMA AcceptMcts ==
  ASSUME TypeInv, MctsInv, NEW fd \in Fds, Accept(fd)
  PROVE  MctsInv'
<1>0. PICK n \in Nat : n = Len(table) + 1
  BY TableIs DEF TypeInv
<1>1. /\ DOMAIN table' = DOMAIN table \cup {n} /\ ~table'[n].regist
      /\ \A i \in DOMAIN table : table'[i] = table[i]
  BY <1>0, TableIs DEF TypeInv, Accept, Entry
<1>2. npc.at = "idle" /\ npc'.at = "accepted" /\ UNCHANGED <<tpc, visible>>
  BY DEF Accept, Idle
<1>3. \A f : Doom(npc, tpc, f) => Doom(npc', tpc', f)
  BY <1>2 DEF Doom
<1>4. Live' \subseteq Live
  BY <1>1, <1>3 DEF Live
<1>5. OpenBounded'
  <2>1. Open' = Open \cup {fd} /\ fd \notin Open /\ Cardinality(Open) < mcts + 1
    BY DEF Accept, HasSlot, Open
  <2>2. IsFiniteSet(Open \cup {fd}) /\ Cardinality(Open \cup {fd}) = Cardinality(Open) + 1
    BY <2>1, FS_AddElement DEF MctsInv, OpenBounded
  <2>3. Cardinality(Open) \in Nat /\ mcts \in Nat
    BY FS_CardinalityType, mctsAssumption DEF MctsInv, OpenBounded
  <2>4. QED
    BY <1>2, <2>1, <2>2, <2>3 DEF OpenBounded
<1>6. QED
  BY <1>2, <1>4, <1>5, FewerLive DEF MctsInv

\* A request registers its entry only when fewer than mcts are, none of them being closed.
LEMMA RequestMcts ==
  ASSUME TypeInv, MctsInv, NEW fd \in Fds, NEW sa \in SAs \cup {NoSA}, NEW ok \in BOOLEAN,
         RoutingRequest(fd, sa, ok)
  PROVE  MctsInv'
<1>1. npc.at = "idle" /\ tpc.at = "idle" /\ UNCHANGED <<open, tpc, visible>>
  BY DEF RoutingRequest, Receives, TimerLockFree, Idle
<1>2. PICK p \in DOMAIN table : p = FindByFd(fd)
  BY RequestIs
<1>3. DOMAIN table' = DOMAIN table /\ \A i \in DOMAIN table : i # p => Like(table'[i], table[i])
  BY <1>2, RequestIs
<1>4. /\ npc'.at # "remove"
      /\ ~table'[p].regist \/ table[p].regist \/ Registered = {} \/ Cardinality(Registered) # mcts
  BY <1>2, RequestIs
<1>5. Live = Registered
  BY <1>1 DEF Live, Registered, Doom
<1>6. Live' \subseteq Registered \cup {p}
  BY <1>3 DEF Live, Registered, Like
<1>7. OpenBounded'
  BY <1>1, <1>4, OpenKept DEF MctsInv, Open
<1>8. CASE ~table'[p].regist \/ table[p].regist
  <2>1. Live' \subseteq Live
    BY <1>3, <1>5, <1>6, <1>8 DEF Live, Registered
  <2>2. QED
    BY <1>1, <1>7, <2>1, FewerLive DEF MctsInv
<1>9. CASE Registered = {} \/ Cardinality(Registered) # mcts
  <2>1. IsFiniteSet(Registered) /\ Cardinality(Registered) \in Nat /\ mcts \in Nat /\ mcts >= 1
    BY <1>5, LiveFinite, mctsAssumption
  <2>2. ~visible => Cardinality(Registered) + 1 <= mcts
    BY <1>5, <1>9, <2>1, FS_EmptySet DEF MctsInv, LiveBounded
  <2>3. /\ IsFiniteSet(Registered \cup {p})
        /\ Cardinality(Registered \cup {p}) \in {Cardinality(Registered), Cardinality(Registered) + 1}
    BY <2>1, FS_AddElement
  <2>4. \A S \in SUBSET (Registered \cup {p}) :
           Cardinality(S) \in Nat /\ Cardinality(S) <= Cardinality(Registered \cup {p})
    BY <2>3, FS_Subset, FS_CardinalityType
  <2>5. PICK S \in SUBSET (Registered \cup {p}) : S = Live'
    BY <1>6
  <2>6. ~visible => Cardinality(S) <= mcts
    BY <2>1, <2>2, <2>3, <2>4
  <2>7. QED
    BY <1>1, <1>7, <2>5, <2>6 DEF MctsInv, LiveBounded
<1>10. QED
  BY <1>4, <1>8, <1>9

\* The steps that change the entries in place, and register none that is not registered.
LEMMA PlaceMcts ==
  ASSUME TypeInv, EarnedInv, MctsInv, CheckAuthentication \/ ActivateDirectly \/ Ipc
  PROVE  MctsInv'
<1>1. CASE CheckAuthentication
  <2>1. npc.at = "auth" /\ npc'.at = "idle" /\ UNCHANGED <<tpc, visible, open>>
    BY <1>1 DEF CheckAuthentication, Idle
  <2>2. UNCHANGED table \/ \E p \in DOMAIN table : Moved(p) /\ table[p].fd = npc.fd
    BY <1>1, CheckAuthenticationIs
  <2>3. /\ DOMAIN table' = DOMAIN table
        /\ \A i \in DOMAIN table : table'[i].fd = table[i].fd /\ (table'[i].regist => table[i].regist)
    BY <2>1, <2>2 DEF Moved, EarnedInv, NetKnows
  <2>4. QED
    BY <2>1, <2>3, NoneRegistered DEF Doom
<1>2. CASE ActivateDirectly
  <2>1. npc.at = "direct" /\ npc'.at = "idle" /\ UNCHANGED <<visible, open>>
    BY <1>2 DEF ActivateDirectly, Idle
  <2>2. OpenBounded'
    BY <2>1, OpenKept DEF MctsInv, Open
  <2>3. QED
    BY <2>1, <2>2 DEF EarnedInv, NetKnows, MctsInv, LiveBounded
<1>3. CASE RegistEntity \/ RegistUserConf
  BY <1>3, NoneRegistered DEF RegistEntity, RegistUserConf
<1>4. ASSUME NEW sa \in SAs \cup {NoSA}, UserConfirms(sa)
      PROVE  MctsInv'
  <2>1. PICK p \in DOMAIN table : Moved(p) /\ table[p].state = "conf"
    BY <1>4, UserConfirmsIs
  <2>2. table[p].regist
    BY <2>1 DEF EarnedInv, RegisteredIsPending
  <2>3. UNCHANGED <<open, npc, tpc, visible>>
    BY <1>4 DEF UserConfirms
  <2>4. /\ DOMAIN table' = DOMAIN table
        /\ \A i \in DOMAIN table : table'[i].fd = table[i].fd /\ (table'[i].regist => table[i].regist)
    BY <2>1, <2>2 DEF Moved
  <2>5. QED
    BY <2>3, <2>4, NoneRegistered
<1>5. QED
  BY <1>1, <1>2, <1>3, <1>4 DEF Ipc

\* A quiet step keeps MctsInv.
LEMMA QuietMcts ==
  ASSUME TypeInv, MctsInv, QuietTable, UNCHANGED <<visible, open, tpc>>,
         npc.at \in {"idle", "accepted", "single", "all"}, npc'.at \in {"idle", "close"}
  PROVE  MctsInv'
<1>1. /\ DOMAIN table' = DOMAIN table
      /\ \A i \in DOMAIN table : table'[i].fd = table[i].fd /\ (table'[i].regist => table[i].regist)
  BY DEF QuietTable, Like
<1>2. QED
  BY <1>1, NoneRegistered DEF Doom

\* A socket that is closed leaves a place; its entry is as little counted as before.
LEMMA CloseMcts ==
  ASSUME TypeInv, SocketsInv, MctsInv, NetClose \/ TimerClose
  PROVE  MctsInv'
<1>1. UNCHANGED <<table, visible>>
  BY NetCloseIs, TimerCloseIs
<1>2. Live' \subseteq Live
  BY <1>1, ClosesDoomed DEF Live
<1>3. \/ Open' = Open /\ (npc'.at = "remove" => npc.at = "remove")
      \/ \E fd \in Open : Open' = Open \ {fd}
  BY NetCloseIs, TimerCloseIs, OpenIs DEF Open
<1>4. QED
  BY <1>1, <1>2, <1>3, FewerLive, OpenKept DEF MctsInv

\* Removing an entry keeps MctsInv.
LEMMA RemoveMcts ==
  ASSUME TypeInv, TypeInv', SocketsInv, MctsInv, NetRemove \/ TimerRemove
  PROVE  MctsInv'
<1>1. PICK fd : /\ RemoveEntry(fd) /\ UNCHANGED <<open, conns, visible>>
                /\ \/ npc.at = "remove" /\ npc.fd = fd /\ npc'.at = "idle" /\ tpc' = tpc
                   \/ tpc.at = "remove" /\ tpc.fd = fd /\ tpc'.at = "idle" /\ npc' = npc
  BY DEF NetRemove, TimerRemove, Idle
<1>2. PICK old \in [DOMAIN table' -> DOMAIN table] :
            /\ \A i \in DOMAIN table' : table'[i] = table[old[i]] /\ (table[old[i]].fd = fd => Current(old[i]))
            /\ \A i, j \in DOMAIN table' : i < j <=> old[i] < old[j]
  BY <1>1, RemovesSockets
<1>3. ASSUME NEW k \in DOMAIN table, table[k].fd = fd, Current(k)
      PROVE  ~table[k].regist
  BY <1>1, <1>3 DEF SocketsInv, RemoversKnow, Current
<1>4. \A f : f # fd => (Doom(npc, tpc, f) => Doom(npc', tpc', f))
  BY <1>1 DEF Doom
<1>5. PICK T : T = Live'
  OBVIOUS
<1>6. \A i \in T : i \in DOMAIN table' /\ old[i] \in Live
  BY <1>2, <1>3, <1>4, <1>5 DEF Live
<1>7. DOMAIN table' \subseteq Nat /\ DOMAIN table \subseteq Nat
  BY LenProperties DEF TypeInv
<1>8. \A i, j \in T : old[i] = old[j] => i = j
  BY <1>2, <1>6, <1>7
<1>9. LiveBounded'
  <2>1. PICK m : m = [i \in T |-> old[i]]
    OBVIOUS
  <2>2. m \in [T -> Live] /\ \A i, j \in T : m[i] = m[j] => i = j
    BY <1>6, <1>8, <2>1
  <2>3. QED
    BY <1>1, <1>5, <2>2, MappedLive DEF MctsInv
<1>10. QED
  BY <1>1, <1>9, OpenKept DEF MctsInv, Open

\* Closing a connection keeps MctsInv.
LEMMA DestroyMcts ==
  ASSUME TypeInv, TypeInv', SocketsInv, MctsInv, NEW fd \in Fds, ClientDestroy(fd)
  PROVE  MctsInv'
<1>1. UNCHANGED <<npc, tpc, visible>> /\ fd \in Open /\ Open' = Open \ {fd}
  BY OpenIs DEF ClientDestroy, Open
<1>2. PICK old \in [DOMAIN table' -> DOMAIN table] :
            /\ \A i \in DOMAIN table' : table'[i] = table[old[i]] /\ table[old[i]].fd # fd
            /\ \A i, j \in DOMAIN table' : i < j <=> old[i] < old[j]
  BY DestroySockets
<1>3. PICK T : T = Live'
  OBVIOUS
<1>4. \A i \in T : i \in DOMAIN table' /\ old[i] \in Live
  BY <1>1, <1>2, <1>3 DEF Live
<1>5. DOMAIN table' \subseteq Nat /\ DOMAIN table \subseteq Nat
  BY LenProperties DEF TypeInv
<1>6. \A i, j \in T : old[i] = old[j] => i = j
  BY <1>2, <1>4, <1>5
<1>7. LiveBounded'
  <2>1. PICK m : m = [i \in T |-> old[i]]
    OBVIOUS
  <2>2. m \in [T -> Live] /\ \A i, j \in T : m[i] = m[j] => i = j
    BY <1>4, <1>6, <2>1
  <2>3. QED
    BY <1>1, <1>3, <2>2, MappedLive DEF MctsInv
<1>8. QED
  BY <1>1, <1>7, OpenKept DEF MctsInv

\* No socket is open when the server starts.
LEMMA InitMcts == Init => MctsInv
<1> SUFFICES ASSUME Init PROVE MctsInv
  OBVIOUS
<1>1. Open = {} /\ Live = {} /\ npc.at = "idle"
  BY DEF Init, Open, Live, Idle
<1>2. QED
  BY <1>1, FS_EmptySet, mctsAssumption DEF MctsInv, OpenBounded, LiveBounded

\* Every step keeps MctsInv.
LEMMA MctsStep == TypeInv /\ SocketsInv /\ EarnedInv /\ MctsInv /\ [Next]_vars => MctsInv'
<1> SUFFICES ASSUME TypeInv, SocketsInv, EarnedInv, MctsInv, [Next]_vars PROVE MctsInv'
  OBVIOUS
<1>0. TypeInv'
  BY TypeStep
<1>i. Idle.at = "idle"
  BY DEF Idle
<1>1. ASSUME NEW fd \in Fds, OtherMessage(fd) \/ BadMessage(fd)
      PROVE  MctsInv'
  <2>1. FindByFd(fd) \in DOMAIN table
    BY <1>1, LookupIs DEF OtherMessage, BadMessage, Receives, TypeInv
  <2>2. QuietTable
    BY <1>1, <2>1, TouchIs DEF OtherMessage, BadMessage, QuietTable
  <2>3. npc.at = "idle" /\ npc'.at \in {"idle", "close"} /\ UNCHANGED <<visible, open, tpc>>
    BY <1>1, <1>i DEF OtherMessage, BadMessage, Receives
  <2>4. QED
    BY <2>2, <2>3, QuietMcts
<1>2. ASSUME NEW fd \in Fds, NEW sa \in SAs \cup {NoSA}, AliveResponse(fd, sa)
      PROVE  MctsInv'
  <2>1. npc.at = "idle" /\ UNCHANGED <<visible, open, tpc>>
    BY <1>2, <1>i DEF AliveResponse, Receives
  <2>2. QED
    BY <1>2, <2>1, AliveResponseIs, QuietMcts
<1>3. CASE StartInitial \/ AliveCheckSingle \/ AliveCheckAll
  <2>1. QuietTable
    BY <1>3, StartInitialIs, AliveCheckSingleIs, AliveCheckAllIs
  <2>2. npc.at \in {"accepted", "single", "all"} /\ npc'.at = "idle" /\ UNCHANGED <<visible, open, tpc>>
    BY <1>3, <1>i DEF StartInitial, AliveCheckSingle, AliveCheckAll
  <2>3. QED
    BY <2>1, <2>2, QuietMcts
<1>4. CASE UNCHANGED vars
  <2>1. UNCHANGED <<table, npc, tpc, visible, open>>
    BY <1>4 DEF vars
  <2>2. QED
    BY <2>1, NoneRegistered
<1>5. QED
  BY <1>0, <1>1, <1>2, <1>3, <1>4, AcceptMcts, RequestMcts, PlaceMcts, TimeoutMcts, CloseMcts,
     RemoveMcts, DestroyMcts DEF Next, Net, TimerThread

\* At most mcts + 1 sockets are open, and no more than mcts connections are registered and
\* stay so, whichever of them the two threads close meanwhile (ne_doip_server_manager.c).
THEOREM MctsCorrect == Spec => []WithinMcts
<1> DEFINE Inv == TypeInv /\ SocketsInv /\ EarnedInv /\ MctsInv
<1>1. Init => Inv
  BY InitType, InitSockets, InitEarned, InitMcts
<1>2. Inv /\ [Next]_vars => Inv'
  BY TypeStep, SocketsStep, EarnedStep, MctsStep
<1>3. Inv => WithinMcts
  <2>1. {i \in Registered : ~Doomed(i)} = Live
    BY DoomedIs DEF Registered, Live
  <2>2. QED
    BY <2>1 DEF MctsInv, LiveBounded, WithinMcts
<1>4. QED
  BY <1>1, <1>2, <1>3, PTL DEF Spec
=============================================================================
