------------------------ MODULE AnnouncementProofs ------------------------
(* Theorems about Announcement, for every number of interfaces, testers and timer ids. *)
EXTENDS Announcement, Lemmas

Timer == [id : Ids, kind : {"wait", "interval", "identify"}]
Interface == [state : States, count : 0 .. 2, wait : 0 .. MaxId, interval : 0 .. MaxId]

AppPlaces ==
    {Idle} \cup [pc : {"announce", "start"}, i : Ifs] \cup [pc : {"note"}, i : Ifs, id : 0 .. MaxId]
IpcPlaces ==
    {Idle, [pc |-> "disconnect"]} \cup [pc : {"next"}, i : 1 .. NumIfs + 1] \cup [pc : {"start"}, i : Ifs]
        \cup [pc : {"note"}, i : Ifs, id : 0 .. MaxId]
NetPlaces == {Idle} \cup [pc : {"start"}, r : Testers]

Announcing == [pc : {"entity", "send"}, i : Ifs, timer : Timer, again : BOOLEAN]
Answering == [pc : {"request"}, timer : Timer]

\* Types of the variables.
TypesInv ==
    /\ net \in [Ifs -> Interface]
    /\ ifname \in Ifs \cup {None} /\ born \in 0 .. MaxNodes /\ entities \subseteq 1 .. born
    /\ udp \in [Testers -> 0 .. MaxId]
    /\ ipcLock \in IpcLocks \cup {None}
    /\ app \in AppPlaces /\ ipc \in IpcPlaces /\ netThread \in NetPlaces
    /\ clock \in {Idle} \cup Announcing \cup Answering
    /\ timers \subseteq Timer /\ marked \subseteq Ids
    /\ sent \in [Ifs -> 0 .. 4] /\ mixed \in BOOLEAN

TimerIds == {t.id : t \in timers}

\* The ids that are marked are those of the timers in the list, of the wait timers that have
\* expired, and of the timer whose callback runs.
IdsInv ==
    /\ spent \subseteq marked
    /\ \A t, u \in timers : t.id = u.id => t = u
    /\ TimerIds \cap spent = {}
    /\ TimerIds \cup spent \subseteq marked
    /\ marked \subseteq TimerIds \cup spent \cup Running

\* The timer whose callback runs is out of the list. If it comes back it keeps its id, which is
\* in no other's hands; if not, its id has been given back or is left marked for good.
RunningInv ==
    clock # Idle =>
        /\ clock.timer.id \notin TimerIds
        /\ clock \in Answering => clock.timer.id \notin spent
        /\ clock \in Announcing =>
              IF clock.again THEN clock.timer.id \in marked \ spent
              ELSE clock.timer.id \in spent \/ clock.timer.id \notin marked

\* Where an announcement of interface i is, between two callbacks and in them: how many
\* messages were sent, what the count is, which timer runs.
Between(i) ==
    /\ net[i].count = sent[i] % 3
    /\ net[i].interval # 0 <=> sent[i] \in {1, 2}
    /\ \A t \in timers : t.kind = "interval" => t.id = net[i].interval

BeforeFirst(i) ==
    /\ sent[i] = 0 /\ net[i].count = 0 /\ net[i].interval = 0 /\ ~clock.again
    /\ \A t \in timers : t.kind # "interval"

BeforeNext(i) ==
    /\ sent[i] \in {1, 2} /\ net[i].count = sent[i]
    /\ net[i].interval = (IF sent[i] = 1 THEN clock.timer.id ELSE 0)
    /\ clock.again = (sent[i] = 1) /\ clock.timer.kind = "interval"
    /\ \A t \in timers : t.kind # "interval"

AnnouncedAt(i) ==
    /\ sent[i] <= 3
    /\ clock \notin Announcing => Between(i)
    /\ clock \in Announcing => net[i].state = "announced" /\ (BeforeFirst(i) \/ BeforeNext(i))
    /\ sent[i] # 0 => net[i].state = "announced"
    /\ sent[i] \in {1, 2} \/ clock.pc = "send" => entities # {}

AnnouncedInv == ~mixed => \A i \in Ifs : AnnouncedAt(i)

-----------------------------------------------------------------------------
\* The constants.
LEMMA Constants ==
  /\ NumIfs \in Nat /\ NumIfs > 0 /\ MaxId \in Nat /\ MaxId > 0
  /\ MaxNodes \in Nat /\ None \notin Nat
BY AnnouncementAssumption

\* How many of the ids up to n are free.
Rank(n) == Cardinality({m \in Ids \ marked : m <= n})

\* A number of free ids, and whether n is one of them.
LEMMA RankIs ==
  /\ Rank(0) = 0 /\ Rank(MaxId) = Cardinality(Ids \ marked) /\ Cardinality(Ids \ marked) \in Nat
  /\ \A n \in 0 .. MaxId : Rank(n) \in Nat
  /\ \A n \in 1 .. MaxId : Rank(n) = IF n \in Ids \ marked THEN Rank(n - 1) + 1 ELSE Rank(n - 1)
<1>1. MaxId \in Nat /\ Ids = 1 .. MaxId
  BY Constants DEF Ids
<1>2. IsFiniteSet(Ids \ marked) /\ Cardinality(Ids \ marked) \in Nat
  <2>1. IsFiniteSet(Ids)
    BY <1>1, FS_Interval
  <2>2. IsFiniteSet(Ids \ marked)
    BY <2>1, FS_Subset
  <2>3. QED
    BY <2>2, FS_CardinalityType
<1>3. ASSUME NEW n \in 0 .. MaxId
      PROVE  IsFiniteSet({m \in Ids \ marked : m <= n}) /\ Rank(n) \in Nat
  <2>1. IsFiniteSet({m \in Ids \ marked : m <= n})
    BY <1>2, FS_Subset
  <2>2. QED
    BY <2>1, FS_CardinalityType DEF Rank
<1>4. Rank(0) = 0
  <2>1. {m \in Ids \ marked : m <= 0} = {}
    BY <1>1
  <2>2. QED
    BY <2>1, FS_EmptySet DEF Rank
<1>5. Rank(MaxId) = Cardinality(Ids \ marked)
  <2>1. {m \in Ids \ marked : m <= MaxId} = Ids \ marked
    BY <1>1
  <2>2. QED
    BY <2>1 DEF Rank
<1>6. ASSUME NEW n \in 1 .. MaxId
      PROVE  Rank(n) = IF n \in Ids \ marked THEN Rank(n - 1) + 1 ELSE Rank(n - 1)
  <2>1. n - 1 \in 0 .. MaxId
    BY <1>1
  <2>2. PICK S : S = {m \in Ids \ marked : m <= n - 1}
    OBVIOUS
  <2>3. IsFiniteSet(S) /\ Cardinality(S) = Rank(n - 1) /\ n \notin S
    <3>1. n \notin S
      BY <1>1, <2>2
    <3>2. QED
      BY <1>3, <2>1, <2>2, <3>1 DEF Rank
  <2>4. CASE n \in Ids \ marked
    <3>1. {m \in Ids \ marked : m <= n} = S \cup {n}
      BY <1>1, <2>2, <2>4
    <3>2. Cardinality(S \cup {n}) = Cardinality(S) + 1
      BY <2>3, FS_AddElement
    <3>3. QED
      BY <2>3, <2>4, <3>1, <3>2 DEF Rank
  <2>5. CASE n \notin Ids \ marked
    <3>1. {m \in Ids \ marked : m <= n} = S
      BY <1>1, <2>2, <2>5
    <3>2. QED
      BY <2>3, <2>5, <3>1 DEF Rank
  <2>6. QED
    BY <2>4, <2>5
<1>7. QED
  BY <1>2, <1>3, <1>4, <1>5, <1>6

\* ne_doip_nextID returns a free id, or 0 if there is none.
LEMMA FreeIdIs ==
  ASSUME NEW k \in Nat, k > 0
  PROVE  /\ FreeId(k) \in 0 .. MaxId
         /\ FreeId(k) # 0 => FreeId(k) \in Ids \ marked /\ Rank(FreeId(k)) = k
<1>1. MaxId \in Nat /\ Ids = 1 .. MaxId
  BY Constants DEF Ids
<1>2. FreeId(k) = IF k > Cardinality(Ids \ marked) THEN 0 ELSE CHOOSE n \in Ids \ marked : Rank(n) = k
  BY DEF FreeId, Rank
<1>3. CASE k > Cardinality(Ids \ marked)
  BY <1>1, <1>2, <1>3
<1>4. CASE ~(k > Cardinality(Ids \ marked))
  <2>1. PICK T : T = {n \in 0 .. MaxId : Rank(n) >= k}
    OBVIOUS
  <2>2. MaxId \in T /\ T \subseteq Nat
    BY <1>1, <1>4, <2>1, RankIs
  <2>3. PICK n \in T : \A m \in T : n <= m
    BY <2>2, LeastNumber
  <2>4. n \in 0 .. MaxId /\ Rank(n) >= k
    BY <2>1
  <2>5. n # 0
    BY <2>4, RankIs
  <2>6. n \in 1 .. MaxId /\ n - 1 \in 0 .. MaxId
    BY <1>1, <2>4, <2>5
  <2>7. ~(Rank(n - 1) >= k)
    BY <2>1, <2>3, <2>6
  <2>8. Rank(n) \in Nat /\ Rank(n - 1) \in Nat
    BY <2>4, <2>6, RankIs
  <2>9. Rank(n) = IF n \in Ids \ marked THEN Rank(n - 1) + 1 ELSE Rank(n - 1)
    BY <2>6, RankIs
  <2>10. n \in Ids \ marked /\ Rank(n) = k
    BY <2>4, <2>7, <2>8, <2>9
  <2>11. FreeId(k) \in Ids \ marked /\ Rank(FreeId(k)) = k
    <3>1. FreeId(k) = CHOOSE m \in Ids \ marked : Rank(m) = k
      BY <1>2, <1>4
    <3>2. QED
      BY <2>10, <3>1
  <2>12. QED
    BY <1>1, <2>11
<1>5. QED
  BY <1>3, <1>4

-----------------------------------------------------------------------------
\* What the application's place tells of its data.
LEMMA AppIs ==
  ASSUME app \in AppPlaces
  PROVE  /\ app.pc \in {"idle", "announce", "start", "note"}
         /\ app.pc \in {"announce", "start"} => app.i \in Ifs /\ [app EXCEPT !.pc = "start"] \in AppPlaces
         /\ app.pc = "note" => app.i \in Ifs /\ app.id \in 0 .. MaxId
<1>1. CASE app = Idle
  BY <1>1 DEF Idle
<1>2. CASE app \in [pc : {"announce", "start"}, i : Ifs]
  BY <1>2 DEF AppPlaces
<1>3. CASE app \in [pc : {"note"}, i : Ifs, id : 0 .. MaxId]
  BY <1>3
<1>4. QED
  BY <1>1, <1>2, <1>3 DEF AppPlaces

\* What the ipc thread's place tells of its data.
LEMMA IpcIs ==
  ASSUME ipc \in IpcPlaces
  PROVE  /\ ipc.pc \in {"idle", "next", "start", "note", "disconnect"}
         /\ ipc.pc = "next" => ipc.i \in 1 .. NumIfs + 1 /\ ipc \in [pc : {"next"}, i : 1 .. NumIfs + 1]
         /\ ipc.pc = "start" => ipc.i \in Ifs
         /\ ipc.pc = "note" => ipc.i \in Ifs /\ ipc.id \in 0 .. MaxId
<1>1. CASE ipc = Idle \/ ipc = [pc |-> "disconnect"]
  BY <1>1 DEF Idle
<1>2. CASE ipc \in [pc : {"next"}, i : 1 .. NumIfs + 1]
  BY <1>2
<1>3. CASE ipc \in [pc : {"start"}, i : Ifs]
  BY <1>3
<1>4. CASE ipc \in [pc : {"note"}, i : Ifs, id : 0 .. MaxId]
  BY <1>4
<1>5. QED
  BY <1>1, <1>2, <1>3, <1>4 DEF IpcPlaces

\* What the net thread's place tells of its data.
LEMMA NetThreadIs ==
  ASSUME netThread \in NetPlaces
  PROVE  /\ netThread.pc \in {"idle", "start"}
         /\ netThread.pc = "start" => netThread.r \in Testers
<1>1. CASE netThread = Idle
  BY <1>1 DEF Idle
<1>2. CASE netThread \in [pc : {"start"}, r : Testers]
  BY <1>2
<1>3. QED
  BY <1>1, <1>2 DEF NetPlaces

\* What the timer thread's place tells of its data.
LEMMA ClockIs ==
  ASSUME clock \in {Idle} \cup Announcing \cup Answering
  PROVE  /\ clock.pc \in {"idle", "entity", "send", "request"}
         /\ clock = Idle <=> clock.pc = "idle"
         /\ clock \in Announcing <=> clock.pc \in {"entity", "send"}
         /\ clock \in Answering <=> clock.pc = "request"
         /\ clock \in Announcing => /\ clock.i \in Ifs /\ clock.timer \in Timer /\ clock.again \in BOOLEAN
                                    /\ [clock EXCEPT !.pc = "send"] \in Announcing
                                    /\ [clock EXCEPT !.pc = "send"].timer = clock.timer
                                    /\ [clock EXCEPT !.pc = "send"].again = clock.again
                                    /\ [clock EXCEPT !.pc = "send"].i = clock.i
         /\ clock \in Answering => clock.timer \in Timer
<1>1. CASE clock = Idle
  BY <1>1 DEF Idle, Announcing, Answering
<1>2. CASE clock \in Announcing
  BY <1>2 DEF Announcing, Answering, Idle
<1>3. CASE clock \in Answering
  BY <1>3 DEF Announcing, Answering, Idle
<1>4. QED
  BY <1>1, <1>2, <1>3

\* What TypesInv says, without its definitions.
LEMMA Types ==
  ASSUME TypesInv
  PROVE  /\ net \in [Ifs -> Interface]
         /\ ifname \in Ifs \cup {None} /\ born \in 0 .. MaxNodes /\ entities \subseteq 1 .. born
         /\ udp \in [Testers -> 0 .. MaxId]
         /\ ipcLock \in IpcLocks \cup {None}
         /\ app \in AppPlaces /\ ipc \in IpcPlaces /\ netThread \in NetPlaces
         /\ clock \in {Idle} \cup Announcing \cup Answering
         /\ timers \subseteq Timer /\ marked \subseteq Ids
         /\ sent \in [Ifs -> 0 .. 4] /\ mixed \in BOOLEAN
BY DEF TypesInv

\* Idle is a place of every thread.
LEMMA IdlePlaces ==
  /\ Idle \in AppPlaces /\ Idle \in IpcPlaces /\ Idle \in NetPlaces
  /\ Idle \in {Idle} \cup Announcing \cup Answering
BY DEF AppPlaces, IpcPlaces, NetPlaces

\* The fields of an interface that a step changes.
LEMMA InterfaceIs ==
  ASSUME TypesInv, NEW i \in Ifs
  PROVE  /\ net[i].state \in States /\ net[i].count \in 0 .. 2 /\ net[i].wait \in 0 .. MaxId /\ net[i].interval \in 0 .. MaxId
         /\ \A s \in States : [net[i] EXCEPT !.state = s] \in Interface
         /\ \A id \in 0 .. MaxId : [net[i] EXCEPT !.wait = id] \in Interface /\ [net[i] EXCEPT !.interval = id] \in Interface
         /\ \A id \in 0 .. MaxId, s \in States : [net[i] EXCEPT !.wait = id, !.state = s] \in Interface
         /\ \A c \in 0 .. 2, id \in 0 .. MaxId : [net[i] EXCEPT !.count = c, !.interval = id] \in Interface
<1>1. net[i] \in Interface
  BY Types
<1>2. QED
  BY <1>1 DEF Interface

\* Starting a timer.
LEMMA StartIs ==
  ASSUME TypesInv, NEW kind \in {"wait", "interval", "identify"}, NEW id \in 0 .. MaxId, Start(kind, id)
  PROVE  timers' \subseteq Timer /\ marked' \subseteq Ids
<1>1. MaxId \in Nat /\ (id # 0 => id \in Ids)
  BY Constants DEF Ids
<1>2. id # 0 => [id |-> id, kind |-> kind] \in Timer
  BY <1>1 DEF Timer
<1>3. QED
  BY <1>1, <1>2, Types DEF Start

\* The steps of the application keep the types.
LEMMA AppTypes ==
  ASSUME TypesInv, (\E i \in Ifs : Assign(i)) \/ Release \/ AppStep
  PROVE  TypesInv'
<1>1. States = {"down", "configured", "announced"} /\ IpcLocks = {"app", "ipc"}
  BY DEF States, IpcLocks
<1>2. (Mixed => sent' \in [Ifs -> 0 .. 4] /\ mixed' \in BOOLEAN)
  <2>1. 0 \in 0 .. 4
    OBVIOUS
  <2>2. QED
    BY <2>1 DEF Mixed
<1>3. ASSUME NEW i \in Ifs, Assign(i) PROVE TypesInv'
  <2>1. /\ ifname' = i /\ net' = [net EXCEPT ![i].state = "configured"] /\ app' = [pc |-> "announce", i |-> i]
        /\ Mixed /\ UNCHANGED <<entities, born, udp, timers, marked, ipcLock, ipc, netThread, clock>>
    BY <1>3 DEF Assign, manager
  <2>2. net' \in [Ifs -> Interface]
    BY <1>1, <2>1, InterfaceIs, Types
  <2>3. app' \in AppPlaces
    BY <2>1 DEF AppPlaces
  <2>4. QED
    BY <1>2, <2>1, <2>2, <2>3, Types DEF TypesInv
<1>4. CASE Release
  <2>1. UNCHANGED <<ifname, entities, born, udp, timers, marked, ipcLock, app, ipc, netThread, clock>> /\ Mixed
    BY <1>4 DEF Release, manager
  <2>2. PICK j : net' = [i \in Ifs |-> IF i = j THEN [net[i] EXCEPT !.state = "down"] ELSE net[i]]
    BY <1>4 DEF Release
  <2>3. net' \in [Ifs -> Interface]
    BY <1>1, <2>2, InterfaceIs, Types
  <2>4. QED
    BY <1>2, <2>1, <2>3, Types DEF TypesInv
<1>5. CASE Announce
  <2>1. UNCHANGED <<net, ifname, entities, born, udp, timers, marked, ipc, netThread, clock, sent, mixed>>
    BY <1>5 DEF Announce, manager, history
  <2>2. app' \in AppPlaces /\ ipcLock' \in IpcLocks \cup {None}
    <3>1. app.pc = "announce"
      BY <1>5 DEF Announce
    <3>2. [app EXCEPT !.pc = "start"] \in AppPlaces
      BY <3>1, AppIs, Types
    <3>3. (app' = Idle /\ ipcLock' = ipcLock) \/ (app' = [app EXCEPT !.pc = "start"] /\ ipcLock' = "app")
      BY <1>5 DEF Announce
    <3>4. QED
      BY <1>1, <3>2, <3>3, IdlePlaces, Types
  <2>3. QED
    BY <2>1, <2>2, Types DEF TypesInv
<1>6. CASE StartWait
  <2>1. PICK id \in 0 .. MaxId : id = FreeId(1)
    BY FreeIdIs
  <2>2. /\ app.pc = "start" /\ Start("wait", id) /\ app' = [pc |-> "note", i |-> app.i, id |-> id]
        /\ UNCHANGED <<net, ifname, entities, born, udp, ipcLock, ipc, netThread, clock, sent, mixed>>
    BY <1>6, <2>1 DEF StartWait
  <2>3. app.i \in Ifs
    BY <2>2, AppIs, Types
  <2>4. app' \in AppPlaces
    BY <2>2, <2>3 DEF AppPlaces
  <2>5. timers' \subseteq Timer /\ marked' \subseteq Ids
    BY <2>2, StartIs
  <2>6. QED
    BY <2>2, <2>4, <2>5, Types DEF TypesInv
<1>7. CASE NoteWait
  <2>1. /\ app.pc = "note" /\ net' = [net EXCEPT ![app.i].wait = app.id, ![app.i].state = "announced"]
        /\ ipcLock' = None /\ app' = Idle
        /\ UNCHANGED <<ifname, entities, born, udp, timers, marked, ipc, netThread, clock, sent, mixed>>
    BY <1>7 DEF NoteWait, manager, history
  <2>2. PICK i \in Ifs, id \in 0 .. MaxId : i = app.i /\ id = app.id
    BY <2>1, AppIs, Types
  <2>3. [net[i] EXCEPT !.wait = id, !.state = "announced"] \in Interface
    BY <1>1, InterfaceIs
  <2>4. net' = [net EXCEPT ![i] = [net[i] EXCEPT !.wait = id, !.state = "announced"]]
    BY <2>1, <2>2, Types
  <2>5. net' \in [Ifs -> Interface]
    BY <2>3, <2>4, Types
  <2>6. QED
    BY <2>1, <2>5, IdlePlaces, Types DEF TypesInv
<1>8. QED
  BY <1>3, <1>4, <1>5, <1>6, <1>7 DEF AppStep

\* The steps of the ipc thread keep the types.
LEMMA IpcTypes ==
  ASSUME TypesInv, Register \/ (\E n \in entities \cup {None} : Leave(n)) \/ IpcStep
  PROVE  TypesInv'
<1>1. States = {"down", "configured", "announced"} /\ IpcLocks = {"app", "ipc"}
  BY DEF States, IpcLocks
<1>2. Ifs = 1 .. NumIfs /\ NumIfs \in Nat /\ NumIfs > 0
  BY Constants DEF Ifs
<1>3. CASE Register
  <2>1. /\ born < MaxNodes /\ born' = born + 1 /\ entities' = entities \cup {born + 1}
        /\ ipc' = [pc |-> "next", i |-> 1]
        /\ UNCHANGED <<net, ifname, udp, timers, marked, ipcLock, app, netThread, clock, sent, mixed>>
    BY <1>3 DEF Register, manager
  <2>2. born' \in 0 .. MaxNodes /\ entities' \subseteq 1 .. born'
    BY <2>1, Types, Constants
  <2>3. ipc' \in IpcPlaces
    <3>1. 1 \in 1 .. NumIfs + 1
      BY <1>2
    <3>2. QED
      BY <2>1, <3>1 DEF IpcPlaces
  <2>4. QED
    BY <2>1, <2>2, <2>3, Types DEF TypesInv
<1>4. CASE NextIf
  <2>1. /\ ipc.pc = "next"
        /\ ipc' = IF ipc.i > NumIfs THEN Idle
                  ELSE IF Waits(ipc.i) THEN [ipc EXCEPT !.pc = "start"] ELSE [ipc EXCEPT !.i = @ + 1]
        /\ UNCHANGED <<net, ifname, entities, born, udp, timers, marked, ipcLock, app, netThread, clock, sent, mixed>>
    BY <1>4 DEF NextIf, manager, history
  <2>2. ipc.i \in 1 .. NumIfs + 1 /\ ipc \in [pc : {"next"}, i : 1 .. NumIfs + 1]
    BY <2>1, IpcIs, Types
  <2>3. ipc' \in IpcPlaces
    <3>1. CASE ipc.i > NumIfs
      BY <2>1, <3>1, IdlePlaces
    <3>2. CASE ~(ipc.i > NumIfs)
      <4>1. ipc.i \in Ifs /\ ipc.i + 1 \in 1 .. NumIfs + 1
        BY <1>2, <2>2, <3>2
      <4>2. [ipc EXCEPT !.pc = "start"] \in [pc : {"start"}, i : Ifs]
        BY <2>2, <4>1
      <4>3. [ipc EXCEPT !.i = @ + 1] \in [pc : {"next"}, i : 1 .. NumIfs + 1]
        BY <2>2, <4>1
      <4>4. QED
        BY <2>1, <3>2, <4>2, <4>3 DEF IpcPlaces
    <3>3. QED
      BY <3>1, <3>2
  <2>4. QED
    BY <2>1, <2>3, Types DEF TypesInv
<1>5. CASE StartWaitOf
  <2>1. PICK id \in 0 .. MaxId : id = FreeId(1)
    BY FreeIdIs
  <2>2. /\ ipc.pc = "start" /\ Start("wait", id) /\ ipc' = [pc |-> "note", i |-> ipc.i, id |-> id]
        /\ UNCHANGED <<net, ifname, entities, born, udp, ipcLock, app, netThread, clock, sent, mixed>>
    BY <1>5, <2>1 DEF StartWaitOf
  <2>3. ipc.i \in Ifs
    BY <2>2, IpcIs, Types
  <2>4. ipc' \in IpcPlaces
    BY <2>2, <2>3 DEF IpcPlaces
  <2>5. timers' \subseteq Timer /\ marked' \subseteq Ids
    BY <2>2, StartIs
  <2>6. QED
    BY <2>2, <2>4, <2>5, Types DEF TypesInv
<1>6. CASE NoteWaitOf
  <2>1. /\ ipc.pc = "note" /\ net' = [net EXCEPT ![ipc.i].wait = ipc.id] /\ ipc' = [pc |-> "next", i |-> ipc.i + 1]
        /\ UNCHANGED <<ifname, entities, born, udp, timers, marked, ipcLock, app, netThread, clock, sent, mixed>>
    BY <1>6 DEF NoteWaitOf, manager, history
  <2>2. PICK i \in Ifs, id \in 0 .. MaxId : i = ipc.i /\ id = ipc.id
    BY <2>1, IpcIs, Types
  <2>3. [net[i] EXCEPT !.wait = id] \in Interface
    BY InterfaceIs
  <2>4. net' = [net EXCEPT ![i] = [net[i] EXCEPT !.wait = id]]
    BY <2>1, <2>2, Types
  <2>5. net' \in [Ifs -> Interface]
    BY <2>3, <2>4, Types
  <2>6. i + 1 \in 1 .. NumIfs + 1
    BY <1>2
  <2>7. ipc' \in IpcPlaces
    BY <2>1, <2>2, <2>6 DEF IpcPlaces
  <2>8. QED
    BY <2>1, <2>5, <2>7, Types DEF TypesInv
<1>7. CASE Disconnect
  <2>1. /\ ipcLock' = None /\ ipc' = Idle
        /\ UNCHANGED <<net, ifname, entities, born, udp, timers, marked, app, netThread, clock, sent, mixed>>
    BY <1>7 DEF Disconnect, manager, history
  <2>2. QED
    BY <2>1, IdlePlaces, Types DEF TypesInv
<1>8. ASSUME NEW n \in entities \cup {None}, Leave(n) PROVE TypesInv'
  <2>1. PICK i : i = (IF ifname = None THEN 1 ELSE ifname) /\ net' = [net EXCEPT ![i].state = "configured"]
    BY <1>8 DEF Leave
  <2>2. i \in Ifs
    BY <1>2, <2>1, Types
  <2>3. net' \in [Ifs -> Interface]
    BY <1>1, <2>1, <2>2, InterfaceIs, Types
  <2>4. ipcLock' \in IpcLocks \cup {None} /\ ipc' \in IpcPlaces
    <3>1. (ipcLock' = "ipc" /\ ipc' = [pc |-> "disconnect"]) \/ (ipcLock' = ipcLock /\ ipc' = ipc)
      BY <1>8 DEF Leave
    <3>2. [pc |-> "disconnect"] \in IpcPlaces
      BY DEF IpcPlaces
    <3>3. QED
      BY <1>1, <3>1, <3>2, Types
  <2>5. sent' \in [Ifs -> 0 .. 4] /\ mixed' \in BOOLEAN
    <3>1. Mixed /\ 0 \in 0 .. 4
      BY <1>8 DEF Leave
    <3>2. QED
      BY <3>1 DEF Mixed
  <2>6. entities' \subseteq entities /\ UNCHANGED <<ifname, born, udp, timers, marked, app, netThread, clock>>
    BY <1>8 DEF Leave, manager
  <2>7. QED
    BY <2>3, <2>4, <2>5, <2>6, Types DEF TypesInv
<1>9. QED
  BY <1>3, <1>4, <1>5, <1>6, <1>7, <1>8 DEF IpcStep

\* The steps of the net thread keep the types.
LEMMA NetTypes ==
  ASSUME TypesInv, (\E r \in Testers : Identify(r)) \/ StartIdentify
  PROVE  TypesInv'
<1>1. ASSUME NEW r \in Testers, Identify(r) PROVE TypesInv'
  <2>1. /\ netThread' = [pc |-> "start", r |-> r]
        /\ UNCHANGED <<net, ifname, entities, born, udp, timers, marked, ipcLock, app, ipc, clock, sent, mixed>>
    BY <1>1 DEF Identify, manager, history
  <2>2. netThread' \in NetPlaces
    BY <2>1 DEF NetPlaces
  <2>3. QED
    BY <2>1, <2>2, Types DEF TypesInv
<1>2. CASE StartIdentify
  <2>1. PICK id \in 0 .. MaxId : id = FreeId(1)
    BY FreeIdIs
  <2>2. /\ netThread.pc = "start" /\ Start("identify", id) /\ udp' = [udp EXCEPT ![netThread.r] = id] /\ netThread' = Idle
        /\ UNCHANGED <<net, ifname, entities, born, ipcLock, app, ipc, clock, sent, mixed>>
    BY <1>2, <2>1 DEF StartIdentify, history
  <2>3. udp' \in [Testers -> 0 .. MaxId]
    BY <2>2, Types
  <2>4. timers' \subseteq Timer /\ marked' \subseteq Ids
    BY <2>2, StartIs
  <2>5. QED
    BY <2>2, <2>3, <2>4, IdlePlaces, Types DEF TypesInv
<1>3. QED
  BY <1>1, <1>2

\* The interface a timer belongs to.
LEMMA FirstIs ==
  ASSUME NEW S, S \subseteq Ifs
  PROVE  First(S) # 0 => First(S) \in S
<1>1. CASE S = {}
  BY <1>1 DEF First
<1>2. CASE S # {}
  <2>1. S \subseteq Nat
    BY Constants DEF Ifs
  <2>2. \E i \in S : \A j \in S : i <= j
    BY <1>2, <2>1, LeastNumber
  <2>3. First(S) = CHOOSE i \in S : \A j \in S : i <= j
    BY <1>2 DEF First
  <2>4. QED
    BY <2>2, <2>3
<1>3. QED
  BY <1>1, <1>2

\* The interfaces whose first message is sent now.
Beginning == {i \in Ifs : Counted(i) /\ net[i].count = 0}

\* The id an interface's interval timer gets when the first message is sent.
NewId(i) == FreeId(Cardinality({j \in Beginning : j <= i}))

\* The interval timers that a message starts.
Begun == {j \in Beginning : NewId(j) # 0}

\* Send in terms of these.
LEMMA SendIs ==
  ASSUME Send
  PROVE  /\ clock.pc = "send" /\ clock' = Idle
         /\ net' = [i \in Ifs |->
                      IF ~Counted(i) THEN net[i]
                      ELSE [net[i] EXCEPT !.count = Next3(@), !.interval = IF i \in Beginning THEN NewId(i) ELSE @]]
         /\ timers' = timers \cup Back \cup {[id |-> NewId(i), kind |-> "interval"] : i \in Begun}
         /\ marked' = marked \cup {NewId(i) : i \in Begun}
         /\ IF mixed \/ \E i \in Beginning : NewId(i) = 0 THEN Mixed
            ELSE sent' = [sent EXCEPT ![clock.i] = IF @ < 4 THEN @ + 1 ELSE @] /\ UNCHANGED mixed
         /\ UNCHANGED <<ifname, entities, born, udp, ipcLock, app, ipc, netThread, spent>>
BY DEF Send, Beginning, NewId, Begun

\* A message's new timers have different free ids.
LEMMA NewIds ==
  /\ \A i \in Beginning : NewId(i) \in 0 .. MaxId
  /\ \A i \in Begun : NewId(i) \in Ids \ marked
  /\ \A i, j \in Begun : NewId(i) = NewId(j) => i = j
<1> DEFINE upTo(i) == {j \in Beginning : j <= i}
           k(i) == Cardinality(upTo(i))
<1>1. Ifs = 1 .. NumIfs /\ NumIfs \in Nat /\ Beginning \subseteq Ifs
  BY Constants DEF Ifs, Beginning
<1>2. ASSUME NEW i \in Beginning PROVE IsFiniteSet(upTo(i)) /\ k(i) \in Nat /\ k(i) > 0
  <2>1. IsFiniteSet(Ifs)
    BY <1>1, FS_Interval
  <2>2. IsFiniteSet(upTo(i))
    BY <1>1, <2>1, FS_Subset
  <2>3. i \in upTo(i)
    BY <1>1
  <2>4. k(i) \in Nat /\ k(i) # 0
    BY <2>2, <2>3, FS_CardinalityType, FS_EmptySet
  <2>5. QED
    BY <2>2, <2>4
<1>3. \A i \in Beginning : NewId(i) = FreeId(k(i))
  BY DEF NewId
<1>4. ASSUME NEW i \in Beginning, NEW j \in Beginning, i < j PROVE k(i) # k(j)
  <2>1. i \in Nat /\ j \in Nat /\ \A m \in Beginning : m \in Nat
    BY <1>1
  <2>2. j \in upTo(j) /\ j \notin upTo(i)
    BY <1>4, <2>1
  <2>3. \A m \in Nat : m <= i => m <= j
    BY <1>4, <2>1
  <2>4. upTo(i) \subseteq upTo(j)
    BY <2>1, <2>3
  <2>5. QED
    BY <1>2, <2>2, <2>4, FS_Subset
<1> HIDE DEF upTo, k
<1>5. ASSUME NEW i \in Beginning
      PROVE  NewId(i) \in 0 .. MaxId /\ (NewId(i) # 0 => NewId(i) \in Ids \ marked /\ Rank(NewId(i)) = k(i))
  BY <1>2, <1>3, FreeIdIs
<1>6. ASSUME NEW i \in Begun, NEW j \in Begun, NewId(i) = NewId(j) PROVE i = j
  <2>1. i \in Beginning /\ j \in Beginning /\ k(i) = k(j)
    BY <1>5, <1>6 DEF Begun
  <2>2. i \in Nat /\ j \in Nat /\ ~(i < j) /\ ~(j < i)
    BY <1>1, <1>4, <2>1
  <2>3. QED
    BY <2>2
<1>7. QED
  BY <1>5, <1>6 DEF Begun

\* The callback of a wait timer keeps the types.
LEMMA FireWaitTypes ==
  ASSUME TypesInv, NEW t \in timers, FireWait(t)
  PROVE  TypesInv'
<1>1. PICK i : i = First({j \in Ifs : net[j].wait = t.id})
  OBVIOUS
<1>2. /\ timers' = timers \ {t}
      /\ IF i = 0 THEN UNCHANGED <<net, clock, sent, mixed>>
         ELSE /\ net' = [net EXCEPT ![i].state = "announced"]
              /\ clock' = [pc |-> "entity", i |-> i, timer |-> t, again |-> FALSE]
              /\ sent' = [sent EXCEPT ![i] = 0] /\ mixed' = ~Quiet
      /\ UNCHANGED <<ifname, entities, born, udp, marked, ipcLock, app, ipc, netThread>>
  BY <1>1 DEF FireWait
<1>3. CASE i = 0
  BY <1>2, <1>3, Types DEF TypesInv
<1>4. CASE i # 0
  <2>1. i \in Ifs
    <3>1. {j \in Ifs : net[j].wait = t.id} \subseteq Ifs
      OBVIOUS
    <3>2. QED
      BY <1>1, <1>4, <3>1, FirstIs
  <2>2. net' \in [Ifs -> Interface]
    BY <1>2, <1>4, <2>1, InterfaceIs, Types DEF States
  <2>3. clock' \in Announcing
    <3>1. clock' = [pc |-> "entity", i |-> i, timer |-> t, again |-> FALSE] /\ t \in Timer
      BY <1>2, <1>4, Types
    <3>2. QED
      BY <2>1, <3>1 DEF Announcing
  <2>4. sent' \in [Ifs -> 0 .. 4]
    <3>1. 0 \in 0 .. 4
      OBVIOUS
    <3>2. QED
      BY <1>2, <1>4, <2>1, <3>1, Types
  <2>5. mixed' \in BOOLEAN
    BY <1>2, <1>4 DEF Quiet
  <2>6. QED
    BY <1>2, <2>2, <2>3, <2>4, <2>5, Types DEF TypesInv
<1>5. QED
  BY <1>3, <1>4

\* The callback of an interval timer keeps the types.
LEMMA FireIntervalTypes ==
  ASSUME TypesInv, NEW t \in timers, FireInterval(t)
  PROVE  TypesInv'
<1>1. PICK i : i = First({j \in Ifs : net[j].interval = t.id})
  OBVIOUS
<1>2. /\ i # 0 /\ timers' = timers \ {t}
      /\ clock' = [pc |-> "entity", i |-> i, timer |-> t, again |-> ~AtSecond(i)]
      /\ IF AtSecond(i) THEN net' = [net EXCEPT ![i].interval = 0] /\ Stop(t.id) ELSE UNCHANGED <<net, marked>>
      /\ UNCHANGED <<ifname, entities, born, udp, ipcLock, app, ipc, netThread, sent, mixed>>
  BY <1>1 DEF FireInterval, history
<1>3. i \in Ifs
  <2>1. {j \in Ifs : net[j].interval = t.id} \subseteq Ifs
    OBVIOUS
  <2>2. QED
    BY <1>1, <1>2, <2>1, FirstIs
<1>4. net' \in [Ifs -> Interface]
  <2>1. 0 \in 0 .. MaxId
    BY Constants
  <2>2. [net[i] EXCEPT !.interval = 0] \in Interface
    BY <1>3, <2>1, InterfaceIs
  <2>3. QED
    BY <1>2, <1>3, <2>2, Types
<1>5. marked' \subseteq Ids
  BY <1>2, Types DEF Stop
<1>6. clock' \in Announcing
  <2>1. t \in Timer /\ (~AtSecond(i)) \in BOOLEAN
    BY Types DEF AtSecond
  <2>2. QED
    BY <1>2, <1>3, <2>1 DEF Announcing
<1>7. QED
  BY <1>2, <1>4, <1>5, <1>6, Types DEF TypesInv

\* A message keeps the types: the count starts again before it reaches 3.
LEMMA SendTypes ==
  ASSUME TypesInv, Send
  PROVE  TypesInv'
<1>1. \A n \in 0 .. 2 : Next3(n) \in 0 .. 2
  BY DEF Next3
<1>2. net' \in [Ifs -> Interface]
  <2>1. \A i \in Ifs : [net[i] EXCEPT !.count = Next3(@), !.interval = IF i \in Beginning THEN NewId(i) ELSE @] \in Interface
    <3>1. TAKE i \in Ifs
    <3>2. PICK c \in 0 .. 2, id \in 0 .. MaxId :
             c = Next3(net[i].count) /\ id = IF i \in Beginning THEN NewId(i) ELSE net[i].interval
      BY <1>1, NewIds, InterfaceIs
    <3>3. [net[i] EXCEPT !.count = c, !.interval = id] \in Interface
      BY InterfaceIs
    <3>4. QED
      BY <3>2, <3>3
  <2>2. net' = [i \in Ifs |->
                  IF ~Counted(i) THEN net[i]
                  ELSE [net[i] EXCEPT !.count = Next3(@), !.interval = IF i \in Beginning THEN NewId(i) ELSE @]]
    BY SendIs
  <2>3. \A i \in Ifs :
           (IF ~Counted(i) THEN net[i]
            ELSE [net[i] EXCEPT !.count = Next3(@), !.interval = IF i \in Beginning THEN NewId(i) ELSE @]) \in Interface
    BY <2>1, Types
  <2>4. QED
    BY <2>2, <2>3
<1>3. timers' \subseteq Timer
  <2>1. Back \subseteq Timer
    <3>1. clock \in Announcing
      BY ClockIs, SendIs, Types
    <3>2. QED
      BY <3>1, ClockIs, Types DEF Back
  <2>2. {[id |-> NewId(i), kind |-> "interval"] : i \in Begun} \subseteq Timer
    <3>1. \A i \in Begun : NewId(i) \in Ids
      BY NewIds
    <3>2. QED
      BY <3>1 DEF Timer
  <2>3. QED
    BY <2>1, <2>2, SendIs, Types
<1>4. marked' \subseteq Ids
  <2>1. {NewId(i) : i \in Begun} \subseteq Ids
    BY NewIds
  <2>2. QED
    BY <2>1, SendIs, Types
<1>5. sent' \in [Ifs -> 0 .. 4] /\ mixed' \in BOOLEAN
  <2>1. CASE Mixed
    <3>1. 0 \in 0 .. 4
      OBVIOUS
    <3>2. QED
      BY <2>1, <3>1 DEF Mixed
  <2>2. CASE sent' = [sent EXCEPT ![clock.i] = IF @ < 4 THEN @ + 1 ELSE @] /\ UNCHANGED mixed
    <3>1. \A n \in 0 .. 4 : (IF n < 4 THEN n + 1 ELSE n) \in 0 .. 4
      OBVIOUS
    <3>2. QED
      BY <2>2, <3>1, Types
  <2>3. QED
    BY <2>1, <2>2, SendIs
<1>6. QED
  BY <1>2, <1>3, <1>4, <1>5, SendIs, IdlePlaces, Types DEF TypesInv

\* The steps of the timer thread keep the types.
LEMMA ClockTypes ==
  ASSUME TypesInv, ClockStep
  PROVE  TypesInv'
<1>1. CASE Entity
  <2>1. /\ UNCHANGED <<net, ifname, entities, born, udp, marked, ipcLock, app, ipc, netThread, sent, mixed>>
        /\ clock.pc = "entity"
        /\ \/ clock' = Idle /\ timers' = timers \cup Back
           \/ clock' = [clock EXCEPT !.pc = "send"] /\ timers' = timers
    BY <1>1 DEF Entity
  <2>2. clock \in Announcing
    BY <2>1, ClockIs, Types
  <2>3. Back \subseteq Timer /\ [clock EXCEPT !.pc = "send"] \in Announcing
    BY <2>2, ClockIs, Types DEF Back
  <2>4. QED
    BY <2>1, <2>3, IdlePlaces, Types DEF TypesInv
<1>2. CASE Request
  <2>1. /\ marked' = marked \ {clock.timer.id} /\ clock' = Idle
        /\ UNCHANGED <<net, ifname, entities, born, timers, ipcLock, app, ipc, netThread, sent, mixed>>
    BY <1>2 DEF Request, Stop, history
  <2>2. udp' = udp \/ \E r \in Testers : udp' = [udp EXCEPT ![r] = 0]
    BY <1>2 DEF Request, Answered
  <2>3. udp' \in [Testers -> 0 .. MaxId]
    <3>1. 0 \in 0 .. MaxId
      BY Constants
    <3>2. QED
      BY <2>2, <3>1, Types
  <2>4. QED
    BY <2>1, <2>3, IdlePlaces, Types DEF TypesInv
<1>3. ASSUME NEW t \in timers, FireIdentify(t) PROVE TypesInv'
  <2>1. /\ timers' = timers \ {t} /\ clock' = [pc |-> "request", timer |-> t]
        /\ UNCHANGED <<net, ifname, entities, born, udp, marked, ipcLock, app, ipc, netThread, sent, mixed>>
    BY <1>3 DEF FireIdentify, history
  <2>2. clock' \in Answering
    BY <2>1, Types DEF Answering
  <2>3. QED
    BY <2>1, <2>2, Types DEF TypesInv
<1>4. QED
  BY <1>1, <1>2, <1>3, SendTypes, FireWaitTypes, FireIntervalTypes DEF ClockStep

-----------------------------------------------------------------------------
\* What the ids' part of the invariant speaks of.
idVars == <<timers, marked, spent, clock>>

\* A thread that starts a timer waits for the end of a callback; the id is free.
LEMMA StartKeepsIds ==
  ASSUME TypesInv, IdsInv, NEW kind \in {"wait", "interval", "identify"}, ManagerFree, Start(kind, FreeId(1)),
         UNCHANGED <<spent, clock>>
  PROVE  IdsInv' /\ RunningInv'
<1>1. PICK id : id = FreeId(1) /\ (id # 0 => id \notin marked)
  BY FreeIdIs
<1>2. clock = Idle /\ clock' = Idle
  BY DEF ManagerFree
<1>3. Running = {} /\ Running' = {}
  BY <1>2 DEF Running
<1>4. CASE id = 0
  <2>1. timers' = timers /\ marked' = marked
    BY <1>1, <1>4 DEF Start
  <2>2. QED
    BY <1>2, <1>3, <2>1 DEF IdsInv, RunningInv, TimerIds
<1>5. CASE id # 0
  <2>1. PICK u : u = [id |-> id, kind |-> kind]
    OBVIOUS
  <2>2. u.id = id /\ timers' = timers \cup {u} /\ marked' = marked \cup {id}
    BY <1>1, <1>5, <2>1 DEF Start
  <2>3. id \notin TimerIds /\ id \notin spent
    BY <1>1, <1>5 DEF IdsInv
  <2>4. TimerIds' = TimerIds \cup {id}
    BY <2>2 DEF TimerIds
  <2>5. \A t, v \in timers' : t.id = v.id => t = v
    BY <2>2, <2>3 DEF IdsInv, TimerIds
  <2>6. spent' = spent
    OBVIOUS
  <2>7. IdsInv'
    BY <1>3, <2>2, <2>3, <2>4, <2>5, <2>6 DEF IdsInv
  <2>8. QED
    BY <1>2, <2>7 DEF RunningInv
<1>6. QED
  BY <1>4, <1>5

\* A callback begins: its timer is out of the list.
LEMMA FireKeepsIds ==
  ASSUME TypesInv, IdsInv, NEW t \in timers, FireWait(t) \/ FireInterval(t) \/ FireIdentify(t)
  PROVE  IdsInv' /\ RunningInv'
<1>1. clock = Idle /\ Running = {}
  BY DEF FireWait, FireInterval, FireIdentify, ManagerFree, Running
<1>2. timers' = timers \ {t}
  BY DEF FireWait, FireInterval, FireIdentify
<1>3. /\ TimerIds' = TimerIds \ {t.id} /\ t.id \in TimerIds /\ t.id \in marked /\ t.id \notin spent
      /\ \A u, v \in timers' : u.id = v.id => u = v
  <2>1. t.id \in TimerIds
    BY DEF TimerIds
  <2>2. TimerIds' = TimerIds \ {t.id}
    BY <1>2 DEF TimerIds, IdsInv
  <2>3. QED
    BY <1>2, <2>1, <2>2 DEF IdsInv
<1>4. /\ spent \subseteq marked /\ TimerIds \cap spent = {} /\ TimerIds \subseteq marked
      /\ marked \subseteq TimerIds \cup spent
  BY <1>1, <1>3 DEF IdsInv
<1>5. CASE FireWait(t)
  <2>1. PICK i : i = First({j \in Ifs : net[j].wait = t.id})
    OBVIOUS
  <2>2. marked' = marked /\ spent' = spent \cup {t.id}
    BY <1>5 DEF FireWait
  <2>3. \/ clock' = Idle
        \/ clock' = [pc |-> "entity", i |-> i, timer |-> t, again |-> FALSE]
    BY <1>1, <1>5, <2>1 DEF FireWait
  <2>4. IdsInv'
    BY <1>3, <1>4, <2>2 DEF IdsInv
  <2>5. clock' # Idle => clock'.timer = t /\ clock'.again = FALSE /\ clock' \notin Answering
    BY <2>3 DEF Answering
  <2>6. RunningInv'
    BY <1>3, <2>2, <2>5 DEF RunningInv
  <2>7. QED
    BY <2>4, <2>6
<1>6. CASE FireInterval(t)
  <2>1. PICK i, a : /\ i = First({j \in Ifs : net[j].interval = t.id})
                    /\ a = ~AtSecond(i)
    OBVIOUS
  <2>2. spent' = spent /\ clock' = [pc |-> "entity", i |-> i, timer |-> t, again |-> a]
    BY <1>6, <2>1 DEF FireInterval, history
  <2>3. clock'.timer = t /\ clock'.again = a /\ clock' \notin Answering /\ clock' # Idle
    BY <2>2 DEF Answering, Idle
  <2>4. Running' = {t.id}
    BY <2>3 DEF Running
  <2>5. (a /\ marked' = marked) \/ (~a /\ marked' = marked \ {t.id})
    BY <1>6, <2>1 DEF FireInterval, Stop
  <2>6. IdsInv'
    BY <1>3, <1>4, <2>2, <2>4, <2>5 DEF IdsInv
  <2>7. RunningInv'
    BY <1>3, <2>2, <2>3, <2>5 DEF RunningInv
  <2>8. QED
    BY <2>6, <2>7
<1>7. CASE FireIdentify(t)
  <2>1. spent' = spent /\ marked' = marked /\ clock' = [pc |-> "request", timer |-> t]
    BY <1>7 DEF FireIdentify, history
  <2>2. clock'.timer = t /\ clock' \notin Announcing /\ clock' # Idle
    BY <2>1 DEF Announcing, Idle
  <2>3. Running' = {t.id}
    BY <2>2 DEF Running
  <2>4. IdsInv'
    BY <1>3, <1>4, <2>1, <2>3 DEF IdsInv
  <2>5. RunningInv'
    BY <1>3, <2>1, <2>2 DEF RunningInv
  <2>6. QED
    BY <2>4, <2>5
<1>8. QED
  BY <1>5, <1>6, <1>7

\* A callback ends, and its timer comes back if it fires again.
LEMMA BackKeepsIds ==
  ASSUME TypesInv, IdsInv, RunningInv, clock \in Announcing, timers' = timers \cup Back, UNCHANGED <<marked, spent>>,
         clock' = Idle
  PROVE  IdsInv' /\ RunningInv'
<1>1. PICK t : t = clock.timer
  OBVIOUS
<1>2. clock # Idle /\ clock.again \in BOOLEAN /\ Running = {t.id}
  BY <1>1, ClockIs DEF Running
<1>3. t.id \notin TimerIds /\ IF clock.again THEN t.id \in marked \ spent ELSE t.id \in spent \/ t.id \notin marked
  BY <1>1, <1>2 DEF RunningInv
<1>4. Running' = {} /\ RunningInv'
  BY DEF Running, RunningInv
<1>5. CASE clock.again
  <2>1. timers' = timers \cup {t}
    BY <1>1, <1>5 DEF Back
  <2>2. TimerIds' = TimerIds \cup {t.id}
    BY <2>1 DEF TimerIds
  <2>3. \A u, v \in timers' : u.id = v.id => u = v
    BY <1>3, <2>1 DEF IdsInv, TimerIds
  <2>4. IdsInv'
    BY <1>2, <1>3, <1>4, <1>5, <2>2, <2>3 DEF IdsInv
  <2>5. QED
    BY <1>4, <2>4
<1>6. CASE ~clock.again
  <2>1. timers' = timers /\ TimerIds' = TimerIds
    BY <1>6 DEF Back, TimerIds
  <2>2. IdsInv'
    BY <1>2, <1>3, <1>4, <1>6, <2>1 DEF IdsInv
  <2>3. QED
    BY <1>4, <2>2
<1>7. QED
  BY <1>2, <1>5, <1>6

\* A message: the new interval timers have free ids, and the one that runs comes back.
LEMMA SendKeepsIds ==
  ASSUME TypesInv, IdsInv, RunningInv, Send
  PROVE  IdsInv' /\ RunningInv'
<1>1. clock \in Announcing /\ clock # Idle /\ clock' = Idle /\ clock.again \in BOOLEAN
  BY ClockIs, SendIs, Types
<1>2. PICK new : new = {[id |-> NewId(i), kind |-> "interval"] : i \in Begun}
  OBVIOUS
<1>3. PICK old : old = timers \cup Back
  OBVIOUS
<1>4. /\ timers' = old \cup new /\ marked' = marked \cup {NewId(i) : i \in Begun} /\ spent' = spent
  BY <1>2, <1>3, SendIs
<1>5. PICK oldIds : oldIds = {t.id : t \in old}
  OBVIOUS
<1>6. /\ \A t, u \in old : t.id = u.id => t = u
      /\ oldIds \cap spent = {} /\ oldIds \subseteq marked /\ marked \subseteq oldIds \cup spent /\ spent \subseteq marked
  <2>1. PICK t : t = clock.timer
    OBVIOUS
  <2>2. t.id \notin TimerIds /\ IF clock.again THEN t.id \in marked \ spent ELSE t.id \in spent \/ t.id \notin marked
    BY <1>1, <2>1 DEF RunningInv
  <2>3. Running = {t.id}
    BY <1>1, <2>1 DEF Running
  <2>4. CASE clock.again
    <3>1. old = timers \cup {t}
      BY <1>3, <2>1, <2>4 DEF Back
    <3>2. oldIds = TimerIds \cup {t.id}
      BY <1>5, <3>1 DEF TimerIds
    <3>3. \A v, u \in old : v.id = u.id => v = u
      BY <2>2, <3>1 DEF IdsInv, TimerIds
    <3>4. QED
      BY <2>2, <2>3, <2>4, <3>2, <3>3 DEF IdsInv
  <2>5. CASE ~clock.again
    <3>1. old = timers
      BY <1>3, <2>5 DEF Back
    <3>2. oldIds = TimerIds
      BY <1>5, <3>1 DEF TimerIds
    <3>3. QED
      BY <2>2, <2>3, <2>5, <3>1, <3>2 DEF IdsInv
  <2>6. QED
    BY <1>1, <2>4, <2>5
<1>7. \A t \in new : \E i \in Begun : t = [id |-> NewId(i), kind |-> "interval"] /\ t.id = NewId(i)
  BY <1>2
<1>8. \A t \in new : t.id \notin marked
  BY <1>7, NewIds
<1>9. \A t, u \in new : t.id = u.id => t = u
  BY <1>7
<1>10. \A t, u \in timers' : t.id = u.id => t = u
  <2>1. \A t \in old : t.id \in marked
    BY <1>5, <1>6
  <2>2. QED
    BY <1>4, <1>6, <1>8, <1>9, <2>1
<1>11. TimerIds' = oldIds \cup {NewId(i) : i \in Begun}
  <2>1. TimerIds' = oldIds \cup {t.id : t \in new}
    BY <1>4, <1>5 DEF TimerIds
  <2>2. \A i \in Begun : \E t \in new : t.id = NewId(i)
    <3>1. TAKE i \in Begun
    <3>2. PICK t : t = [id |-> NewId(i), kind |-> "interval"]
      OBVIOUS
    <3>3. t \in new
      BY <1>2, <3>2
    <3>4. t.id = NewId(i)
      BY <3>2
    <3>5. QED
      BY <3>3, <3>4
  <2>3. {t.id : t \in new} = {NewId(i) : i \in Begun}
    BY <1>7, <2>2
  <2>4. QED
    BY <2>1, <2>3
<1>12. {NewId(i) : i \in Begun} \cap marked = {}
  BY NewIds
<1>13. IdsInv'
  BY <1>4, <1>6, <1>10, <1>11, <1>12 DEF IdsInv
<1>14. QED
  BY <1>1, <1>13 DEF RunningInv

\* The answer to a request gives the id of its timer back.
LEMMA RequestKeepsIds ==
  ASSUME TypesInv, IdsInv, RunningInv, Request
  PROVE  IdsInv' /\ RunningInv'
<1>1. PICK t : t = clock.timer
  OBVIOUS
<1>2. clock' = Idle /\ clock.pc = "request" /\ marked' = marked \ {t.id} /\ UNCHANGED <<timers, spent>>
  BY <1>1 DEF Request, Stop, history
<1>3. clock \in Answering /\ clock # Idle
  BY <1>2, ClockIs, Types
<1>4. t.id \notin TimerIds /\ t.id \notin spent /\ Running = {t.id} /\ TimerIds' = TimerIds
  BY <1>1, <1>2, <1>3 DEF RunningInv, Running, TimerIds
<1>5. IdsInv'
  BY <1>2, <1>4 DEF IdsInv
<1>6. QED
  BY <1>2, <1>5 DEF RunningInv

\* Every step keeps the ids in one hand each.
LEMMA IdsStep ==
  ASSUME TypesInv, IdsInv, RunningInv, [Next]_vars
  PROVE  IdsInv' /\ RunningInv'
<1>1. CASE UNCHANGED idVars
  <2>1. timers' = timers /\ marked' = marked /\ spent' = spent /\ clock' = clock
    BY <1>1 DEF idVars
  <2>2. TimerIds' = TimerIds /\ Running' = Running
    BY <2>1 DEF TimerIds, Running
  <2>3. QED
    BY <2>1, <2>2 DEF IdsInv, RunningInv
<1>2. CASE StartWait
  BY <1>2, StartKeepsIds DEF StartWait
<1>3. CASE StartWaitOf
  BY <1>3, StartKeepsIds DEF StartWaitOf
<1>4. CASE StartIdentify
  BY <1>4, StartKeepsIds DEF StartIdentify, history
<1>5. CASE Entity
  <2>1. clock \in Announcing /\ clock # Idle
    BY <1>5, ClockIs, Types DEF Entity
  <2>2. CASE entities = {}
    BY <1>5, <2>1, <2>2, BackKeepsIds DEF Entity
  <2>3. CASE entities # {}
    <3>1. timers' = timers /\ marked' = marked /\ spent' = spent /\ clock' = [clock EXCEPT !.pc = "send"]
      BY <1>5, <2>3 DEF Entity
    <3>2. /\ clock' \in Announcing /\ clock' # Idle /\ clock'.timer = clock.timer /\ clock'.again = clock.again
          /\ clock' \notin Answering
      <4>1. [clock EXCEPT !.pc = "send"] \in Announcing /\ [clock EXCEPT !.pc = "send"].timer = clock.timer
            /\ [clock EXCEPT !.pc = "send"].again = clock.again
        BY <2>1, ClockIs, Types
      <4>2. \A c \in Announcing : c # Idle /\ c \notin Answering
        BY DEF Announcing, Answering, Idle
      <4>3. QED
        BY <3>1, <4>1, <4>2
    <3>3. TimerIds' = TimerIds /\ Running' = Running
      BY <2>1, <3>1, <3>2 DEF TimerIds, Running
    <3>4. IdsInv'
      BY <3>1, <3>3 DEF IdsInv
    <3>5. RunningInv'
      BY <2>1, <3>1, <3>2, <3>3 DEF RunningInv
    <3>6. QED
      BY <3>4, <3>5
  <2>4. QED
    BY <2>2, <2>3
<1>6. CASE Send
  BY <1>6, SendKeepsIds
<1>7. CASE Request
  BY <1>7, RequestKeepsIds
<1>8. CASE \E t \in timers : FireWait(t) \/ FireInterval(t) \/ FireIdentify(t)
  BY <1>8, FireKeepsIds
<1>9. CASE UNCHANGED vars
  BY <1>1, <1>9 DEF vars, idVars, manager, history
<1>10. CASE (\E i \in Ifs : Assign(i)) \/ Release \/ Announce \/ NoteWait
  BY <1>1, <1>10 DEF Assign, Release, Announce, NoteWait, idVars, manager, history
<1>11. CASE Register \/ (\E n \in entities \cup {None} : Leave(n)) \/ NextIf \/ NoteWaitOf \/ Disconnect
  BY <1>1, <1>11 DEF Register, Leave, NextIf, NoteWaitOf, Disconnect, idVars, manager, history
<1>12. CASE \E r \in Testers : Identify(r)
  BY <1>1, <1>12 DEF Identify, idVars, manager, history
<1>13. QED
  BY <1>2, <1>3, <1>4, <1>5, <1>6, <1>7, <1>8, <1>9, <1>10, <1>11, <1>12 DEF Next, AppStep, IpcStep, ClockStep

-----------------------------------------------------------------------------
\* The announcement of one interface.

\* A step that leaves the announcement alone.
LEMMA AnnouncedKept ==
  ASSUME NumIfs = 1, AnnouncedInv, UNCHANGED <<clock, sent, mixed>>, entities # {} => entities' # {},
         net'[1].count = net[1].count, net'[1].interval = net[1].interval,
         net[1].state = "announced" => net'[1].state = "announced",
         \A t \in timers' : t.kind = "interval" => t \in timers
  PROVE  AnnouncedInv'
<1>1. Ifs = {1}
  BY DEF Ifs
<1>2. SUFFICES ASSUME ~mixed' PROVE AnnouncedAt(1)'
  BY <1>1 DEF AnnouncedInv
<1>3. AnnouncedAt(1)
  BY <1>1, <1>2 DEF AnnouncedInv
<1>4. clock' = clock /\ sent' = sent
  OBVIOUS
<1>5. clock \notin Announcing => Between(1)'
  BY <1>3, <1>4 DEF AnnouncedAt, Between
<1>6. BeforeFirst(1) => BeforeFirst(1)'
  BY <1>4 DEF BeforeFirst
<1>7. BeforeNext(1) => BeforeNext(1)'
  BY <1>4 DEF BeforeNext
<1>8. QED
  BY <1>3, <1>4, <1>5, <1>6, <1>7 DEF AnnouncedAt

\* A step into which something else comes.
LEMMA AnnouncedMixed == ASSUME Mixed PROVE AnnouncedInv'
BY DEF Mixed, AnnouncedInv

\* The callback of a wait timer begins an announcement if none is going on.
LEMMA FireWaitAnnounces ==
  ASSUME NumIfs = 1, TypesInv, AnnouncedInv, NEW t \in timers, FireWait(t)
  PROVE  AnnouncedInv'
<1>1. PICK i : i = First({j \in Ifs : net[j].wait = t.id})
  OBVIOUS
<1>2. /\ timers' = timers \ {t} /\ entities' = entities
      /\ IF i = 0 THEN UNCHANGED <<net, clock, sent, mixed>>
         ELSE /\ net' = [net EXCEPT ![i].state = "announced"]
              /\ clock' = [pc |-> "entity", i |-> i, timer |-> t, again |-> FALSE]
              /\ sent' = [sent EXCEPT ![i] = 0] /\ mixed' = ~Quiet
  BY <1>1 DEF FireWait
<1>3. CASE i = 0
  <2>1. net' = net /\ clock' = clock /\ sent' = sent /\ mixed' = mixed
    BY <1>2, <1>3
  <2>2. QED
    BY <1>2, <2>1, AnnouncedKept
<1>4. CASE i # 0
  <2>1. Ifs = {1} /\ i = 1
    <3>1. {j \in Ifs : net[j].wait = t.id} \subseteq Ifs
      OBVIOUS
    <3>2. QED
      BY <1>1, <1>4, <3>1, FirstIs DEF Ifs
  <2>2. SUFFICES ASSUME ~mixed' PROVE AnnouncedAt(1)'
    BY <2>1 DEF AnnouncedInv
  <2>3. net[1].count = 0 /\ net[1].interval = 0 /\ \A u \in timers : u.kind # "interval"
    BY <1>2, <1>4, <2>1, <2>2 DEF Quiet
  <2>4. net[1] \in Interface
    BY <2>1, Types
  <2>5. net'[1] = [net[1] EXCEPT !.state = "announced"]
    BY <1>2, <1>4, <2>1, Types
  <2>6. net'[1].state = "announced" /\ net'[1].count = 0 /\ net'[1].interval = 0
    BY <2>3, <2>4, <2>5 DEF Interface
  <2>7. sent'[1] = 0
    BY <1>2, <1>4, <2>1, Types
  <2>8. clock' \in Announcing /\ clock'.pc # "send" /\ clock'.again = FALSE
    <3>1. clock' = [pc |-> "entity", i |-> 1, timer |-> t, again |-> FALSE] /\ t \in Timer
      BY <1>2, <1>4, <2>1, Types
    <3>2. QED
      BY <2>1, <3>1 DEF Announcing
  <2>9. BeforeFirst(1)'
    BY <1>2, <2>3, <2>6, <2>7, <2>8 DEF BeforeFirst
  <2>10. QED
    BY <2>6, <2>7, <2>8, <2>9 DEF AnnouncedAt
<1>5. QED
  BY <1>3, <1>4

\* The callback of the interval timer goes on with the announcement; the second one is the last.
LEMMA FireIntervalAnnounces ==
  ASSUME NumIfs = 1, TypesInv, IdsInv, AnnouncedInv, NEW t \in timers, FireInterval(t)
  PROVE  AnnouncedInv'
<1>1. PICK i : i = First({j \in Ifs : net[j].interval = t.id})
  OBVIOUS
<1>2. /\ i # 0 /\ clock = Idle /\ timers' = timers \ {t} /\ t.kind = "interval"
      /\ clock' = [pc |-> "entity", i |-> i, timer |-> t, again |-> ~AtSecond(i)]
      /\ IF AtSecond(i) THEN net' = [net EXCEPT ![i].interval = 0] ELSE net' = net
      /\ sent' = sent /\ mixed' = mixed /\ entities' = entities
  BY <1>1 DEF FireInterval, history, ManagerFree
<1>3. Ifs = {1} /\ i = 1
  <2>1. {j \in Ifs : net[j].interval = t.id} \subseteq Ifs
    OBVIOUS
  <2>2. QED
    BY <1>1, <1>2, <2>1, FirstIs DEF Ifs
<1>4. SUFFICES ASSUME ~mixed' PROVE AnnouncedAt(1)'
  BY <1>3 DEF AnnouncedInv
<1>5. AnnouncedAt(1)
  BY <1>2, <1>3, <1>4 DEF AnnouncedInv
<1>6. t \in Timer /\ t.id # 0
  BY Types, Constants DEF Timer, Ids
<1>7. clock \notin Announcing
  BY <1>2 DEF Announcing, Idle
<1>8. Between(1)
  BY <1>5, <1>7 DEF AnnouncedAt
<1>9. t.id = net[1].interval /\ sent[1] \in {1, 2} /\ net[1].count = sent[1]
  <2>1. t.id = net[1].interval /\ sent[1] \in {1, 2} /\ net[1].count = sent[1] % 3
    BY <1>2, <1>6, <1>8 DEF Between
  <2>2. QED
    BY <2>1
<1>10. \A u \in timers' : u.kind # "interval"
  BY <1>2, <1>8, <1>9 DEF IdsInv, Between
<1>11. PICK a \in BOOLEAN : a = ~AtSecond(1)
  BY DEF AtSecond
<1>12. a = (sent[1] = 1)
  BY <1>9, <1>11 DEF AtSecond
<1>13. clock' = [pc |-> "entity", i |-> 1, timer |-> t, again |-> a]
  BY <1>2, <1>3, <1>11
<1>14. clock' \in Announcing /\ clock'.timer = t /\ clock'.again = a /\ clock'.pc = "entity"
  BY <1>3, <1>6, <1>13 DEF Announcing
<1>15. /\ net'[1].count = net[1].count /\ net'[1].state = net[1].state
       /\ net'[1].interval = IF sent[1] = 1 THEN t.id ELSE 0
  <2>1. net[1] \in Interface
    BY <1>3, Types
  <2>2. CASE sent[1] = 1
    BY <1>2, <1>3, <1>9, <1>11, <1>12, <2>2
  <2>3. CASE sent[1] = 2
    <3>1. net' = [net EXCEPT ![1].interval = 0]
      BY <1>2, <1>3, <1>11, <1>12, <2>3
    <3>2. net'[1] = [net[1] EXCEPT !.interval = 0]
      BY <1>3, <3>1, Types
    <3>3. QED
      BY <2>1, <2>3, <3>2 DEF Interface
  <2>4. QED
    BY <1>9, <2>2, <2>3
<1>16. BeforeNext(1)'
  BY <1>2, <1>9, <1>10, <1>12, <1>14, <1>15 DEF BeforeNext
<1>17. QED
  BY <1>2, <1>5, <1>9, <1>14, <1>15, <1>16 DEF AnnouncedAt

\* The callback looks for an entity: without one nothing was sent yet.
LEMMA EntityAnnounces ==
  ASSUME NumIfs = 1, TypesInv, AnnouncedInv, Entity
  PROVE  AnnouncedInv'
<1>1. Ifs = {1}
  BY DEF Ifs
<1>2. /\ clock.pc = "entity" /\ net' = net /\ entities' = entities /\ sent' = sent /\ mixed' = mixed
      /\ \/ entities = {} /\ clock' = Idle /\ timers' = timers \cup Back
         \/ entities # {} /\ clock' = [clock EXCEPT !.pc = "send"] /\ timers' = timers
  BY DEF Entity
<1>3. SUFFICES ASSUME ~mixed' PROVE AnnouncedAt(1)'
  BY <1>1 DEF AnnouncedInv
<1>4. AnnouncedAt(1)
  BY <1>1, <1>2, <1>3 DEF AnnouncedInv
<1>5. clock \in Announcing
  BY <1>2, ClockIs, Types
<1>6. net[1].state = "announced" /\ (BeforeFirst(1) \/ BeforeNext(1))
  BY <1>4, <1>5 DEF AnnouncedAt
<1>7. CASE entities = {}
  <2>1. sent[1] \notin {1, 2}
    BY <1>4, <1>7 DEF AnnouncedAt
  <2>2. BeforeFirst(1)
    BY <1>6, <2>1 DEF BeforeNext
  <2>3. clock' = Idle /\ timers' = timers
    BY <1>2, <1>7, <2>2 DEF BeforeFirst, Back
  <2>4. clock' \notin Announcing /\ clock'.pc # "send"
    BY <2>3 DEF Announcing, Idle
  <2>5. Between(1)'
    BY <1>2, <2>2, <2>3 DEF BeforeFirst, Between
  <2>6. QED
    BY <1>2, <1>4, <2>1, <2>4, <2>5 DEF AnnouncedAt
<1>8. CASE entities # {}
  <2>1. /\ clock' \in Announcing /\ clock'.timer = clock.timer /\ clock'.again = clock.again /\ timers' = timers
    BY <1>2, <1>5, <1>8, ClockIs, Types
  <2>2. BeforeFirst(1)' \/ BeforeNext(1)'
    <3>1. CASE BeforeFirst(1)
      BY <1>2, <2>1, <3>1 DEF BeforeFirst
    <3>2. CASE BeforeNext(1)
      BY <1>2, <2>1, <3>2 DEF BeforeNext
    <3>3. QED
      BY <1>6, <3>1, <3>2
  <2>3. QED
    BY <1>2, <1>4, <1>6, <1>8, <2>1, <2>2 DEF AnnouncedAt
<1>9. QED
  BY <1>7, <1>8

\* A message is the first of an announcement, with which the interval timer starts, the second
\* one, after which it comes back, or the third, after which it does not.
LEMMA SendAnnounces ==
  ASSUME NumIfs = 1, TypesInv, AnnouncedInv, Send
  PROVE  AnnouncedInv'
<1>1. Ifs = {1}
  BY DEF Ifs
<1>2. SUFFICES ASSUME ~mixed' PROVE AnnouncedAt(1)'
  BY <1>1 DEF AnnouncedInv
<1>3. /\ ~\E i \in Beginning : NewId(i) = 0
      /\ sent' = [sent EXCEPT ![clock.i] = IF @ < 4 THEN @ + 1 ELSE @] /\ mixed' = mixed
  <2>1. ~Mixed
    BY <1>2 DEF Mixed
  <2>2. QED
    BY <2>1, SendIs
<1>4. AnnouncedAt(1)
  BY <1>1, <1>2, <1>3 DEF AnnouncedInv
<1>5. clock.pc = "send" /\ clock \in Announcing /\ clock.i = 1
  BY <1>1, ClockIs, SendIs, Types
<1>6. /\ sent[1] <= 3 /\ net[1].state = "announced" /\ (BeforeFirst(1) \/ BeforeNext(1)) /\ entities # {}
  BY <1>4, <1>5 DEF AnnouncedAt
<1>7. sent[1] \in {0, 1, 2}
  BY <1>6 DEF BeforeFirst, BeforeNext
<1>8. sent'[1] = sent[1] + 1
  BY <1>1, <1>3, <1>5, <1>7, Types
<1>9. clock' = Idle /\ clock' \notin Announcing /\ clock'.pc # "send"
  <2>1. clock' = Idle
    BY SendIs
  <2>2. QED
    BY <2>1 DEF Announcing, Idle
<1>10. entities' = entities
  BY SendIs
<1>11. Beginning = IF net[1].count = 0 THEN {1} ELSE {}
  BY <1>1, <1>6 DEF Beginning, Counted
<1>12. PICK id : id = IF 1 \in Beginning THEN NewId(1) ELSE net[1].interval
  OBVIOUS
<1>13. net'[1] = [net[1] EXCEPT !.count = Next3(net[1].count), !.interval = id]
  BY <1>1, <1>6, <1>12, SendIs DEF Counted
<1>14. net'[1].state = "announced" /\ net'[1].count = Next3(net[1].count) /\ net'[1].interval = id
  <2>1. net[1] \in Interface
    BY <1>1, Types
  <2>2. QED
    BY <1>6, <1>13, <2>1 DEF Interface
<1>15. timers' = timers \cup Back \cup {[id |-> NewId(i), kind |-> "interval"] : i \in Begun}
  BY SendIs
<1>16. CASE BeforeFirst(1)
  <2>1. sent[1] = 0 /\ net[1].count = 0 /\ ~clock.again /\ \A t \in timers : t.kind # "interval"
    BY <1>16 DEF BeforeFirst
  <2>2. Beginning = {1} /\ id = NewId(1) /\ id # 0
    BY <1>3, <1>11, <1>12, <2>1
  <2>3. Begun = {1}
    BY <2>2 DEF Begun
  <2>4. PICK u : u = [id |-> id, kind |-> "interval"]
    OBVIOUS
  <2>5. timers' = timers \cup {u} /\ u.id = id
    BY <1>15, <2>1, <2>2, <2>3, <2>4 DEF Back
  <2>6. net'[1].count = 1
    BY <1>14, <2>1 DEF Next3
  <2>7. Between(1)'
    BY <1>8, <1>14, <2>1, <2>2, <2>5, <2>6 DEF Between
  <2>8. QED
    BY <1>6, <1>8, <1>9, <1>10, <1>14, <2>1, <2>7 DEF AnnouncedAt
<1>17. CASE BeforeNext(1)
  <2>1. /\ sent[1] \in {1, 2} /\ net[1].count = sent[1] /\ \A t \in timers : t.kind # "interval"
        /\ net[1].interval = (IF sent[1] = 1 THEN clock.timer.id ELSE 0)
        /\ clock.again = (sent[1] = 1)
    BY <1>17 DEF BeforeNext
  <2>2. Beginning = {} /\ id = net[1].interval
    BY <1>11, <1>12, <2>1
  <2>3. Begun = {}
    BY <2>2 DEF Begun
  <2>4. timers' = timers \cup Back
    BY <1>15, <2>3
  <2>5. clock.timer.id # 0
    <3>1. clock.timer \in Timer
      BY <1>5, ClockIs, Types
    <3>2. QED
      BY <3>1, Constants DEF Timer, Ids
  <2>6. net'[1].count = (sent[1] + 1) % 3
    <3>1. CASE sent[1] = 1
      BY <1>14, <2>1, <3>1 DEF Next3
    <3>2. CASE sent[1] = 2
      BY <1>14, <2>1, <3>2 DEF Next3
    <3>3. QED
      BY <2>1, <3>1, <3>2
  <2>7. net'[1].interval # 0 <=> sent[1] = 1
    BY <1>14, <2>1, <2>2, <2>5
  <2>8. \A t \in timers' : t.kind = "interval" => t.id = net'[1].interval
    BY <1>14, <2>1, <2>2, <2>4 DEF Back
  <2>9. Between(1)'
    BY <1>7, <1>8, <2>1, <2>6, <2>7, <2>8 DEF Between
  <2>10. QED
    BY <1>6, <1>7, <1>8, <1>9, <1>10, <1>14, <2>9 DEF AnnouncedAt
<1>18. QED
  BY <1>6, <1>16, <1>17

\* Every step keeps the announcement of one interface.
LEMMA AnnouncedStep ==
  ASSUME NumIfs = 1, TypesInv, IdsInv, AnnouncedInv, [Next]_vars
  PROVE  AnnouncedInv'
<1>1. Ifs = {1} /\ net[1] \in Interface
  <2>1. Ifs = {1}
    BY DEF Ifs
  <2>2. QED
    BY <2>1, Types
<1>2. CASE UNCHANGED vars
  BY <1>2, AnnouncedKept DEF vars, manager, history
<1>3. CASE \E i \in Ifs : Assign(i)
  BY <1>3, AnnouncedMixed DEF Assign
<1>4. CASE Release
  BY <1>4, AnnouncedMixed DEF Release
<1>5. CASE Announce
  BY <1>5, AnnouncedKept DEF Announce, manager, history
<1>6. CASE StartWait
  <2>1. UNCHANGED <<clock, sent, mixed, entities, net>> /\ Start("wait", FreeId(1))
    BY <1>6 DEF StartWait
  <2>2. \A t \in timers' : t.kind = "interval" => t \in timers
    BY <2>1 DEF Start
  <2>3. QED
    BY <2>1, <2>2, AnnouncedKept
<1>7. CASE NoteWait
  <2>1. /\ app.pc = "note" /\ net' = [net EXCEPT ![app.i].wait = app.id, ![app.i].state = "announced"]
        /\ UNCHANGED <<clock, sent, mixed, entities, timers>>
    BY <1>7 DEF NoteWait, manager, history
  <2>2. app.i = 1
    BY <1>1, <2>1, AppIs, Types
  <2>3. net'[1] = [net[1] EXCEPT !.wait = app.id, !.state = "announced"]
    BY <1>1, <2>1, <2>2, Types
  <2>4. net'[1].count = net[1].count /\ net'[1].interval = net[1].interval /\ net'[1].state = "announced"
    BY <1>1, <2>3 DEF Interface
  <2>5. QED
    BY <2>1, <2>4, AnnouncedKept
<1>8. CASE Register
  <2>1. UNCHANGED <<clock, sent, mixed, net, timers>> /\ entities' = entities \cup {born + 1}
    BY <1>8 DEF Register, manager
  <2>2. entities # {} => entities' # {}
    BY <2>1
  <2>3. QED
    BY <2>1, <2>2, AnnouncedKept
<1>9. CASE \E n \in entities \cup {None} : Leave(n)
  BY <1>9, AnnouncedMixed DEF Leave
<1>10. CASE NextIf
  BY <1>10, AnnouncedKept DEF NextIf, manager, history
<1>11. CASE StartWaitOf
  <2>1. UNCHANGED <<clock, sent, mixed, entities, net>> /\ Start("wait", FreeId(1))
    BY <1>11 DEF StartWaitOf
  <2>2. \A t \in timers' : t.kind = "interval" => t \in timers
    BY <2>1 DEF Start
  <2>3. QED
    BY <2>1, <2>2, AnnouncedKept
<1>12. CASE NoteWaitOf
  <2>1. /\ ipc.pc = "note" /\ net' = [net EXCEPT ![ipc.i].wait = ipc.id]
        /\ UNCHANGED <<clock, sent, mixed, entities, timers>>
    BY <1>12 DEF NoteWaitOf, manager, history
  <2>2. ipc.i = 1
    BY <1>1, <2>1, IpcIs, Types
  <2>3. net'[1] = [net[1] EXCEPT !.wait = ipc.id]
    BY <1>1, <2>1, <2>2, Types
  <2>4. net'[1].count = net[1].count /\ net'[1].interval = net[1].interval /\ net'[1].state = net[1].state
    BY <1>1, <2>3 DEF Interface
  <2>5. QED
    BY <2>1, <2>4, AnnouncedKept
<1>13. CASE Disconnect
  BY <1>13, AnnouncedKept DEF Disconnect, manager, history
<1>14. CASE \E r \in Testers : Identify(r)
  BY <1>14, AnnouncedKept DEF Identify, manager, history
<1>15. CASE StartIdentify
  <2>1. UNCHANGED <<clock, sent, mixed, entities, net>> /\ Start("identify", FreeId(1))
    BY <1>15 DEF StartIdentify, history
  <2>2. \A t \in timers' : t.kind = "interval" => t \in timers
    BY <2>1 DEF Start
  <2>3. QED
    BY <2>1, <2>2, AnnouncedKept
<1>16. CASE Request \/ \E t \in timers : FireIdentify(t)
  <2>1. UNCHANGED <<sent, mixed, entities, net>> /\ timers' \subseteq timers
    BY <1>16 DEF Request, FireIdentify, history
  <2>2. clock \notin Announcing /\ clock.pc # "send" /\ clock' \notin Announcing /\ clock'.pc # "send"
    <3>1. clock = Idle \/ clock.pc = "request"
      BY <1>16 DEF Request, FireIdentify, ManagerFree
    <3>2. clock' = Idle \/ \E t \in timers : clock' = [pc |-> "request", timer |-> t]
      BY <1>16 DEF Request, FireIdentify
    <3>3. clock' \notin Announcing /\ clock'.pc # "send"
      BY <3>2 DEF Announcing, Idle
    <3>4. QED
      BY <3>1, <3>3, ClockIs, Types DEF Idle
  <2>3. SUFFICES ASSUME ~mixed' PROVE AnnouncedAt(1)'
    BY <1>1 DEF AnnouncedInv
  <2>4. AnnouncedAt(1)
    BY <1>1, <2>1, <2>3 DEF AnnouncedInv
  <2>5. Between(1)'
    BY <2>1, <2>2, <2>4 DEF AnnouncedAt, Between
  <2>6. QED
    BY <2>1, <2>2, <2>4, <2>5 DEF AnnouncedAt
<1>17. CASE Entity
  BY <1>17, EntityAnnounces
<1>18. CASE Send
  BY <1>18, SendAnnounces
<1>19. CASE \E t \in timers : FireWait(t)
  BY <1>19, FireWaitAnnounces
<1>20. CASE \E t \in timers : FireInterval(t)
  BY <1>20, FireIntervalAnnounces
<1>21. QED
  BY <1>2, <1>3, <1>4, <1>5, <1>6, <1>7, <1>8, <1>9, <1>10, <1>11, <1>12, <1>13, <1>14, <1>15, <1>16, <1>17,
     <1>18, <1>19, <1>20 DEF Next, AppStep, IpcStep, ClockStep

-----------------------------------------------------------------------------
\* The initial states have the invariant.
LEMMA InitIs ==
  ASSUME Init
  PROVE  TypesInv /\ IdsInv /\ RunningInv /\ AnnouncedInv
<1>1. Idle \notin Announcing /\ Idle.pc # "send"
  BY DEF Idle, Announcing
<1>2. TypesInv
  <2>1. /\ 0 \in 0 .. MaxId /\ 0 \in 0 .. 2 /\ 0 \in 0 .. 4 /\ 0 \in 0 .. MaxNodes
    BY Constants
  <2>2. Fresh \in Interface
    BY <2>1 DEF Fresh, Interface, States
  <2>3. net \in [Ifs -> Interface]
    BY <2>2 DEF Init
  <2>4. udp \in [Testers -> 0 .. MaxId] /\ sent \in [Ifs -> 0 .. 4]
    BY <2>1 DEF Init
  <2>5. /\ ifname = None /\ born = 0 /\ entities = {} /\ timers = {} /\ marked = {} /\ ipcLock = None
        /\ app = Idle /\ ipc = Idle /\ netThread = Idle /\ clock = Idle /\ mixed = FALSE
    BY DEF Init
  <2>6. QED
    BY <2>1, <2>3, <2>4, <2>5, IdlePlaces DEF TypesInv
<1>3. IdsInv /\ RunningInv
  BY DEF Init, IdsInv, RunningInv, TimerIds, Running
<1>4. AnnouncedInv
  <2>1. \A i \in Ifs : sent[i] = 0 /\ net[i] = Fresh
    BY DEF Init
  <2>2. timers = {} /\ clock = Idle
    BY DEF Init
  <2>3. \A i \in Ifs : Between(i)
    BY <2>1, <2>2 DEF Between, Fresh
  <2>4. QED
    BY <1>1, <2>1, <2>2, <2>3 DEF AnnouncedInv, AnnouncedAt
<1>5. QED
  BY <1>2, <1>3, <1>4

\* Every step keeps the types.
LEMMA TypesStep ==
  ASSUME TypesInv, [Next]_vars
  PROVE  TypesInv'
<1>1. CASE Next
  BY <1>1, AppTypes, IpcTypes, NetTypes, ClockTypes DEF Next
<1>2. CASE UNCHANGED vars
  BY <1>2 DEF vars, manager, history, TypesInv
<1>3. QED
  BY <1>1, <1>2

\* The invariant: types, and the ids of the timers.
IdsAreHeld == TypesInv /\ IdsInv /\ RunningInv

\* It is the invariant of the specification.
LEMMA Invariant == Spec => []IdsAreHeld
<1>1. Init => IdsAreHeld
  BY InitIs DEF IdsAreHeld
<1>2. IdsAreHeld /\ [Next]_vars => IdsAreHeld'
  BY TypesStep, IdsStep DEF IdsAreHeld
<1>3. QED
  BY <1>1, <1>2, PTL DEF Spec

\* The variables have their types, and no two timers share an id: an id that is marked belongs
\* to a timer in the list, to the one whose callback runs, or to a wait timer that has expired,
\* and none is both of a timer and of an expired one.
THEOREM TypeCorrect == Spec => []TypeOK
<1>1. IdsAreHeld => TypeOK
  <2>1. SUFFICES ASSUME IdsAreHeld PROVE TypeOK
    OBVIOUS
  <2>2. TypesInv /\ IdsInv
    BY <2>1 DEF IdsAreHeld
  <2>3. net \in [Ifs -> [state : States, count : 0 .. 2, wait : 0 .. MaxId, interval : 0 .. MaxId]]
    BY <2>2 DEF TypesInv, Interface
  <2>4. timers \subseteq [id : Ids, kind : {"wait", "interval", "identify"}]
    BY <2>2 DEF TypesInv, Timer
  <2>5. /\ app.pc \in {"idle", "announce", "start", "note"}
        /\ ipc.pc \in {"idle", "next", "start", "note", "disconnect"}
        /\ netThread.pc \in {"idle", "start"}
        /\ clock.pc \in {"idle", "entity", "send", "request"}
    BY <2>2, AppIs, IpcIs, NetThreadIs, ClockIs, Types
  <2>6. /\ spent \subseteq marked
        /\ \A t, u \in timers : t.id = u.id => t = u
        /\ {t.id : t \in timers} \cap spent = {}
        /\ {t.id : t \in timers} \cup spent \subseteq marked
        /\ marked \subseteq {t.id : t \in timers} \cup spent \cup Running
    BY <2>2 DEF IdsInv, TimerIds
  <2>7. QED
    BY <2>2, <2>3, <2>4, <2>5, <2>6, Types DEF TypeOK
<1>2. QED
  BY <1>1, Invariant, PTL

\* With one interface, an announcement into which nothing else comes is three messages, the
\* count that the callbacks keep is the number of them, and the interval timer runs from the
\* first to the last and no longer. What else may come into it ends what is said of it.
THEOREM ThriceCorrect ==
  ASSUME NumIfs = 1
  PROVE  Spec => []ThriceUnlessMixed
<1>1. Init => AnnouncedInv
  BY InitIs
<1>2. IdsAreHeld /\ AnnouncedInv /\ [Next]_vars => AnnouncedInv'
  BY AnnouncedStep DEF IdsAreHeld
<1>3. AnnouncedInv => ThriceUnlessMixed
  <2>1. Idle \notin Announcing
    BY DEF Idle, Announcing
  <2>2. QED
    BY <2>1 DEF AnnouncedInv, AnnouncedAt, Between, ThriceUnlessMixed
<1>4. QED
  BY <1>1, <1>2, <1>3, Invariant, PTL DEF Spec
=============================================================================
