---------------------------- MODULE TimersProofs -----------------------------
(* Theorems about Timers, for every number of starters, ids and moments. *)
EXTENDS Timers, Lemmas

-----------------------------------------------------------------------------
\* A list of timers in the order of their deadlines.
Ordered(l) == \A i, j \in DOMAIN l : i < j => l[i].due <= l[j].due

\* What a starter is about to add.
NewTimer == [id : 0 .. MaxId, due : 0 .. Horizon, period : Periods, kind : {"once", "wait", "interval"}]

StarterPc == [at : {"idle"}] \cup [at : {"add"}, timer : NewTimer]

TypeInv == TypeOK /\ spc \in [Starters -> StarterPc]

-----------------------------------------------------------------------------
\* An id that is given is not marked.
LEMMA NextIdIs ==
  ASSUME NEW M
  PROVE  NextId(M) = 0 \/ NextId(M) \in Ids \ M
<1>1. CASE Ids \subseteq M
  BY <1>1 DEF NextId
<1>2. CASE ~(Ids \subseteq M)
  <2>1. \E i \in Ids \ M : \A j \in Ids \ M : i <= j
    <3>1. Ids \ M \subseteq Nat /\ Ids \ M # {}
      BY <1>2 DEF Ids
    <3>2. QED
      BY <3>1, LeastNumber
  <2>2. NextId(M) = CHOOSE i \in Ids \ M : \A j \in Ids \ M : i <= j
    BY <1>2 DEF NextId
  <2>3. QED
    BY <2>1, <2>2
<1>3. QED
  BY <1>1, <1>2

\* What a timer is made of.
LEMMA TimerIs ==
  ASSUME NEW t \in TimerType
  PROVE  /\ t.id \in Ids /\ t.id # 0 /\ t.due \in 0 .. Horizon /\ t.due \in Int /\ t.period \in Nat \ {0}
         /\ t.kind \in {"once", "wait", "interval", "stopped"} /\ t # Nobody
<1>1. /\ t.id \in Ids /\ t.id # 0 /\ t.due \in 0 .. Horizon /\ t.due \in Int /\ t.period \in Nat \ {0}
      /\ t.kind \in {"once", "wait", "interval", "stopped"}
  <2>1. t.id \in Ids /\ t.due \in 0 .. Horizon /\ t.period \in Periods
        /\ t.kind \in {"once", "wait", "interval", "stopped"}
    BY DEF TimerType
  <2>2. Ids \subseteq Nat \ {0} /\ 0 .. Horizon \subseteq Int
    BY MaxIdAssumption, HorizonAssumption DEF Ids
  <2>3. QED
    BY <2>1, <2>2, PeriodsAssumption
<1>2. Nobody.kind = "none"
  BY DEF Nobody
<1>3. QED
  BY <1>1, <1>2

\* The timers before the place of a timer are due no later, the one at it is due later.
LEMMA PlaceOfIs ==
  ASSUME NEW l \in Seq(TimerType), NEW t \in TimerType
  PROVE  /\ PlaceOf(l, t) \in 1 .. Len(l) + 1
         /\ \A i \in DOMAIN l : i < PlaceOf(l, t) => l[i].due <= t.due
         /\ PlaceOf(l, t) \in DOMAIN l => t.due < l[PlaceOf(l, t)].due
<1>1. PICK n \in Nat : n = Len(l) /\ DOMAIN l = 1 .. n
  BY LenProperties
<1>2. \A i \in 1 .. n : l[i].due \in Int
  BY <1>1, ElementOfSeq, TimerIs
<1>3. t.due \in Int
  BY TimerIs
<1>4. PICK K : K = {i \in 1 .. n + 1 : i = n + 1 \/ t.due < l[i].due}
  OBVIOUS
<1>5. PICK k \in K : \A j \in K : k <= j
  <2>1. K \subseteq Nat /\ n + 1 \in K
    BY <1>4
  <2>2. QED
    BY <2>1, LeastNumber
<1>6. k \in 1 .. n + 1 /\ (k \in 1 .. n => t.due < l[k].due)
  BY <1>4, <1>5
<1>7. \A i \in 1 .. n : i < k => l[i].due <= t.due
  <2>1. ASSUME NEW i \in 1 .. n, i < k PROVE l[i].due <= t.due
    <3>1. i \notin K
      BY <1>5, <1>6, <2>1
    <3>2. QED
      BY <1>2, <1>3, <1>4, <3>1
  <2>2. QED
    BY <2>1
<1>8. {i \in DOMAIN l : \A j \in 1 .. i : l[j].due <= t.due} = 1 .. k - 1
  <2>1. ASSUME NEW i \in DOMAIN l, \A j \in 1 .. i : l[j].due <= t.due PROVE i \in 1 .. k - 1
    <3>1. ~(k <= i)
      <4>1. k <= i => k \in 1 .. i /\ k \in 1 .. n
        BY <1>1, <1>6
      <4>2. QED
        BY <1>2, <1>3, <1>6, <2>1, <4>1
    <3>2. QED
      BY <1>1, <1>6, <3>1
  <2>2. ASSUME NEW i \in 1 .. k - 1 PROVE i \in DOMAIN l /\ \A j \in 1 .. i : l[j].due <= t.due
    BY <1>1, <1>6, <1>7
  <2>3. QED
    BY <2>1, <2>2
<1>9. Cardinality(1 .. k - 1) = k - 1
  BY <1>6, FS_Interval
<1>10. PlaceOf(l, t) = k
  <2>1. PlaceOf(l, t) = 1 + Cardinality({i \in DOMAIN l : \A j \in 1 .. i : l[j].due <= t.due})
    BY DEF PlaceOf
  <2>2. 1 + (k - 1) = k
    BY <1>6
  <2>3. QED
    BY <1>8, <1>9, <2>1, <2>2
<1>11. QED
  BY <1>1, <1>6, <1>7, <1>10

\* Adding a timer: it is at one place, and the list without it is what it was.
LEMMA AddedIs ==
  ASSUME NEW l \in Seq(TimerType), NEW t \in TimerType
  PROVE  /\ Added(l, t) \in Seq(TimerType)
         /\ PlaceOf(l, t) \in DOMAIN Added(l, t)
         /\ Added(l, t)[PlaceOf(l, t)] = t
         /\ l = WithoutPlace(Added(l, t), PlaceOf(l, t))
<1>1. PlaceOf(l, t) \in 1 .. Len(l) + 1
  BY PlaceOfIs
<1>2. Added(l, t) = WithPlace(l, PlaceOf(l, t), t)
  BY DEF Added, InsertAt, WithPlace
<1>3. QED
  BY <1>1, <1>2, PutIn

\* Taking a timer out.
LEMMA TakenIs ==
  ASSUME NEW l \in Seq(TimerType), NEW p \in DOMAIN l
  PROVE  WithoutPlace(l, p) \in Seq(TimerType) /\ (Ordered(l) => Ordered(WithoutPlace(l, p)))
<1>1. PICK r : r = WithoutPlace(l, p)
  OBVIOUS
<1>2. p \in 1 .. Len(l)
  BY LenProperties
<1>3. r \in Seq(TimerType)
  BY <1>1, <1>2, TakenOut
<1>4. /\ \A i \in DOMAIN r : OldPlace(p, i) \in DOMAIN l \ {p} /\ r[i] = l[OldPlace(p, i)]
      /\ \A i, j \in DOMAIN r : i < j <=> OldPlace(p, i) < OldPlace(p, j)
      /\ \A i, j \in DOMAIN r : OldPlace(p, i) = OldPlace(p, j) => i = j
      /\ \A k \in DOMAIN l \ {p} : \E i \in DOMAIN r : OldPlace(p, i) = k
  BY <1>1, OldPlaces
<1>5. Ordered(l) => Ordered(r)
  BY <1>4 DEF Ordered
<1>6. QED
  BY <1>1, <1>3, <1>5

\* Removing takes one timer with the id out, if there is one.
LEMMA RemovedIs ==
  ASSUME NEW l \in Seq(TimerType), NEW id
  PROVE  /\ \/ Find(l, id) = {} /\ Removed(l, id) = l
            \/ \E p \in DOMAIN l : l[p].id = id /\ Removed(l, id) = WithoutPlace(l, p)
         /\ Removed(l, id) \in Seq(TimerType)
         /\ Ordered(l) => Ordered(Removed(l, id))
<1>1. CASE Find(l, id) = {}
  BY <1>1 DEF Removed
<1>2. CASE Find(l, id) # {}
  <2>1. Find(l, id) \subseteq Nat
    <3>1. DOMAIN l \subseteq Nat
      BY LenProperties
    <3>2. QED
      BY <3>1 DEF Find
  <2>2. \E i \in Find(l, id) : \A j \in Find(l, id) : i <= j
    BY <1>2, <2>1, LeastNumber
  <2>3. PICK p \in Find(l, id) : Removed(l, id) = WithoutPlace(l, p)
    BY <1>2, <2>2 DEF Removed, RemoveAt, WithoutPlace
  <2>4. p \in DOMAIN l /\ l[p].id = id
    BY DEF Find
  <2>5. QED
    BY <2>3, <2>4, TakenIs
<1>3. QED
  BY <1>1, <1>2

\* A timer is added in the order of the deadlines.
LEMMA AddedOrdered ==
  ASSUME NEW l \in Seq(TimerType), Ordered(l), NEW t \in TimerType
  PROVE  Ordered(Added(l, t))
<1>1. PICK r, p : r = Added(l, t) /\ p = PlaceOf(l, t)
  OBVIOUS
<1>2. r \in Seq(TimerType) /\ p \in DOMAIN r /\ r[p] = t /\ l = WithoutPlace(r, p)
  BY <1>1, AddedIs
<1>3. PICK n \in Nat : DOMAIN l = 1 .. n
  BY LenProperties
<1>4. DOMAIN r \subseteq Nat /\ p \in Nat \ {0}
  <2>1. DOMAIN r = 1 .. Len(r) /\ Len(r) \in Nat
    BY <1>2, LenProperties
  <2>2. QED
    BY <1>2, <2>1
<1>5. /\ \A i \in 1 .. n : OldPlace(p, i) \in DOMAIN r \ {p} /\ l[i] = r[OldPlace(p, i)]
      /\ \A i, j \in 1 .. n : i < j <=> OldPlace(p, i) < OldPlace(p, j)
      /\ \A k \in DOMAIN r \ {p} : \E i \in 1 .. n : OldPlace(p, i) = k
  <2>1. /\ \A i \in DOMAIN l : OldPlace(p, i) \in DOMAIN r \ {p} /\ l[i] = r[OldPlace(p, i)]
        /\ \A i, j \in DOMAIN l : i < j <=> OldPlace(p, i) < OldPlace(p, j)
        /\ \A i, j \in DOMAIN l : OldPlace(p, i) = OldPlace(p, j) => i = j
        /\ \A k \in DOMAIN r \ {p} : \E i \in DOMAIN l : OldPlace(p, i) = k
    BY <1>2, OldPlaces
  <2>2. QED
    BY <1>3, <2>1
<1>6. /\ \A i \in 1 .. n : i < p => l[i].due <= t.due
      /\ p \in 1 .. n => t.due < l[p].due
  BY <1>1, <1>3, PlaceOfIs
<1>7. \A i, j \in 1 .. n : i < j => l[i].due <= l[j].due
  BY <1>3 DEF Ordered
<1>8. t.due \in Int /\ \A i \in 1 .. n : l[i].due \in Int
  <2>1. \A i \in 1 .. n : l[i] \in TimerType
    BY <1>3, LenProperties
  <2>2. QED
    BY <2>1, TimerIs
<1>9. ASSUME NEW i \in DOMAIN r, NEW j \in DOMAIN r, i < j
      PROVE  r[i].due <= r[j].due
  <2>1. CASE i # p /\ j # p
    <3>1. PICK a \in 1 .. n, b \in 1 .. n : OldPlace(p, a) = i /\ OldPlace(p, b) = j
      BY <1>5, <2>1
    <3>2. a < b /\ r[i] = l[a] /\ r[j] = l[b]
      BY <1>5, <1>9, <3>1
    <3>3. QED
      BY <1>7, <3>2
  <2>2. CASE j = p
    <3>1. PICK a \in 1 .. n : OldPlace(p, a) = i
      BY <1>4, <1>5, <1>9, <2>2
    <3>2. a < p
      BY <1>4, <1>9, <2>2, <3>1 DEF OldPlace
    <3>3. r[i] = l[a]
      BY <1>5, <3>1
    <3>4. QED
      BY <1>2, <1>6, <2>2, <3>2, <3>3
  <2>3. CASE i = p
    <3>1. PICK b \in 1 .. n : OldPlace(p, b) = j
      BY <1>4, <1>5, <1>9, <2>3
    <3>2. p <= b
      BY <1>4, <1>9, <2>3, <3>1 DEF OldPlace
    <3>3. p \in 1 .. n
      BY <1>3, <1>4, <3>2
    <3>4. l[p].due <= l[b].due
      <4>1. p = b \/ p < b
        BY <3>2, <3>3
      <4>2. QED
        BY <1>7, <1>8, <3>3, <4>1
    <3>5. t.due < l[p].due
      BY <1>6, <3>3
    <3>6. r[j] = l[b]
      BY <1>5, <3>1
    <3>7. QED
      BY <1>2, <1>8, <2>3, <3>3, <3>4, <3>5, <3>6
  <2>4. QED
    BY <2>1, <2>2, <2>3
<1>10. QED
  BY <1>1, <1>9 DEF Ordered

\* The first timer leaves the list.
LEMMA TailIs ==
  ASSUME NEW l \in Seq(TimerType), l # <<>>
  PROVE  /\ l[1] \in TimerType /\ 1 \in DOMAIN l /\ Tail(l) = WithoutPlace(l, 1)
         /\ Tail(l) \in Seq(TimerType) /\ (Ordered(l) => Ordered(Tail(l)))
<1>1. 1 \in DOMAIN l /\ Tail(l) = WithoutPlace(l, 1)
  BY FirstTaken
<1>2. l[1] \in TimerType
  BY <1>1, LenProperties
<1>3. QED
  BY <1>1, <1>2, TakenIs

-----------------------------------------------------------------------------
\* The list and the timers of TypeInv.
LEMMA TypesOf ==
  ASSUME TypeInv
  PROVE  /\ list \in Seq(TimerType) /\ Ordered(list) /\ now \in Nat /\ now \in 0 .. Horizon /\ Horizon \in Nat
         /\ marked \subseteq Ids /\ running \in TimerType \cup {Nobody}
         /\ running # Nobody <=> tpc = "callback"
         /\ sleep \in Int /\ wake \in Int
         /\ \A s \in Starters : spc[s].at = "add" => spc[s].timer \in NewTimer
BY HorizonAssumption DEF TypeInv, TypeOK, Sorted, Ordered, StarterPc

\* A step that leaves the starters alone, and gives the others their types.
LEMMA KeepsTypes ==
  ASSUME TypeInv, spc' \in [Starters -> StarterPc], now' \in 0 .. Horizon,
         list' \in Seq(TimerType), Ordered(list'), marked' \subseteq Ids,
         flag' \in BOOLEAN, quit' \in BOOLEAN, sleep' \in Int, wake' \in Int,
         \/ running' \in TimerType /\ tpc' = "callback"
         \/ running' = Nobody /\ tpc' \in {"check", "sleepy", "waiting", "woken", "awake", "scan", "ended"}
  PROVE  TypeInv'
<1>1. running' \in TimerType => running' # Nobody
  BY TimerIs
<1>2. Sorted'
  BY DEF Ordered, Sorted
<1>3. \A s \in Starters : spc'[s].at \in {"idle", "add"}
  BY DEF StarterPc
<1>4. running' \in TimerType \cup {Nobody} /\ (running' # Nobody <=> tpc' = "callback")
  BY <1>1
<1>5. tpc' \in {"check", "sleepy", "waiting", "woken", "awake", "scan", "callback", "ended"}
  OBVIOUS
<1>6. TypeOK'
  BY <1>2, <1>3, <1>4, <1>5 DEF TypeOK
<1>7. QED
  BY <1>6 DEF TypeInv

\* Every variable has its type at first.
LEMMA TypeInit == Init => TypeInv
<1> SUFFICES ASSUME Init PROVE TypeInv
  OBVIOUS
<1>1. list \in Seq(TimerType) /\ \A i \in DOMAIN list : FALSE
  BY DEF Init
<1>2. Never \in Int
  BY DEF Never
<1>3. spc \in [Starters -> StarterPc] /\ \A s \in Starters : spc[s].at \in {"idle", "add"}
  BY DEF Init, StarterPc
<1>4. Sorted
  BY <1>1 DEF Sorted
<1>5. now \in 0 .. Horizon /\ marked \subseteq Ids /\ flag \in BOOLEAN /\ quit \in BOOLEAN
  <2>1. now = 0 /\ marked = {} /\ flag = FALSE /\ quit = FALSE
    BY DEF Init
  <2>2. 0 \in 0 .. Horizon
    BY HorizonAssumption
  <2>3. FALSE \in BOOLEAN /\ {} \subseteq Ids
    OBVIOUS
  <2>4. QED
    BY <2>1, <2>2, <2>3, Zenon
<1>6. tpc = "check" /\ running = Nobody /\ sleep \in Int /\ wake \in Int
  BY <1>2 DEF Init
<1>7. TypeOK
  BY <1>1, <1>3, <1>4, <1>5, <1>6 DEF TypeOK
<1>8. QED
  BY <1>3, <1>7 DEF TypeInv

\* The timer thread is not in a callback, and runs none.
LEMMA NotifyIs ==
  ASSUME NEW y \in BOOLEAN, flag \in BOOLEAN, Notify(y)
  PROVE  flag' \in BOOLEAN /\ (tpc' = tpc \/ (tpc = "waiting" /\ tpc' = "woken"))
<1>1. flag' \in BOOLEAN
  BY Zenon DEF Notify
<1>2. tpc' = tpc \/ (tpc = "waiting" /\ tpc' = "woken")
  BY DEF Notify
<1>3. QED
  BY <1>1, <1>2

\* Starting, stopping and restarting timers keeps TypeInv.
LEMMA UserTypes ==
  ASSUME TypeInv, NEW s \in Starters, User(s)
  PROVE  TypeInv'
<1>1. flag \in BOOLEAN /\ quit \in BOOLEAN /\ spc \in [Starters -> StarterPc]
      /\ tpc \in {"check", "sleepy", "waiting", "woken", "awake", "scan", "callback", "ended"}
  BY DEF TypeInv, TypeOK
<1>2. \A l, t : Notifies(l, t) \in BOOLEAN
  BY DEF Notifies
<1>3. CASE Start(s)
  <2>1. spc' \in [Starters -> StarterPc]
    <3>1. [at |-> "idle"] \in StarterPc
      BY DEF StarterPc
    <3>2. QED
      BY <1>1, <1>3, <3>1 DEF Start
  <2>2. spc[s].timer \in NewTimer /\ running = Nobody /\ tpc # "callback"
    BY <1>3, TypesOf DEF Start, SyncFree
  <2>3. CASE spc[s].timer.id = 0
    <3>1. UNCHANGED <<list, marked, flag, tpc, now, quit, running, sleep, wake>>
      BY <1>3, <2>3 DEF Start
    <3>2. QED
      BY <1>1, <2>1, <2>2, <3>1, KeepsTypes, TypesOf
  <2>4. CASE spc[s].timer.id # 0
    <3>1. PICK t : t = spc[s].timer
      OBVIOUS
    <3>2. t \in TimerType
      BY <2>2, <2>4, <3>1, MaxIdAssumption DEF NewTimer, TimerType, Ids
    <3>3. /\ marked' = marked \cup {t.id} /\ list' = Added(list, t) /\ Notify(Notifies(list, t))
          /\ UNCHANGED <<now, quit, running, sleep, wake>>
      BY <1>3, <2>4, <3>1 DEF Start
    <3>4. list' \in Seq(TimerType) /\ Ordered(list')
      BY <3>2, <3>3, AddedIs, AddedOrdered, TypesOf
    <3>5. marked' \subseteq Ids
      BY <3>2, <3>3, TimerIs, TypesOf
    <3>6. flag' \in BOOLEAN /\ (tpc' = tpc \/ tpc' = "woken")
      BY <1>1, <1>2, <3>3, NotifyIs
    <3>7. QED
      BY <1>1, <2>1, <2>2, <3>3, <3>4, <3>5, <3>6, KeepsTypes, TypesOf
  <2>5. QED
    BY <2>3, <2>4
<1>4. ASSUME NEW p \in Periods, NEW k \in Kinds, PickId(s, p, k)
      PROVE  TypeInv'
  <2>1. PICK t : t = Timer(NextId(marked), now + p, p, k)
    OBVIOUS
  <2>2. t \in NewTimer
    <3>1. NextId(marked) \in 0 .. MaxId
      BY NextIdIs, MaxIdAssumption DEF Ids
    <3>2. now + p \in 0 .. Horizon
      BY <1>4, TypesOf, PeriodsAssumption DEF PickId
    <3>3. k \in {"once", "wait", "interval"}
      BY KindsAssumption
    <3>4. QED
      BY <2>1, <3>1, <3>2, <3>3 DEF Timer, NewTimer
  <2>3. [at |-> "add", timer |-> t] \in StarterPc
    BY <2>2 DEF StarterPc
  <2>4. spc' = [spc EXCEPT ![s] = [at |-> "add", timer |-> t]]
    BY <1>4, <2>1 DEF PickId
  <2>5. spc' \in [Starters -> StarterPc]
    BY <1>1, <2>3, <2>4
  <2>6. UNCHANGED <<now, list, marked, flag, quit, tpc, running, sleep, wake>>
    BY <1>4 DEF PickId
  <2>7. QED
    BY <1>1, <2>5, <2>6, KeepsTypes, TypesOf
<1>5. ASSUME NEW id \in Ids, Stop(s, id)
      PROVE  TypeInv'
  <2>1. /\ marked' = marked \ {id} /\ list' = Removed(list, id)
        /\ UNCHANGED <<now, flag, quit, tpc, running, sleep, wake, spc>>
    BY <1>5 DEF Stop
  <2>2. list' \in Seq(TimerType) /\ Ordered(list')
    BY <2>1, RemovedIs, TypesOf
  <2>3. QED
    BY <1>1, <2>1, <2>2, KeepsTypes, TypesOf
<1>6. ASSUME NEW id \in Ids, NEW p \in Periods, Restart(s, id, p)
      PROVE  TypeInv'
  <2>1. PICK i, t, rest :
            /\ i \in DOMAIN list
            /\ list[i].id = id /\ t = [list[i] EXCEPT !.due = now + p, !.period = p]
            /\ rest = Removed(list, id) /\ list' = Added(rest, t) /\ Notify(Notifies(rest, t))
    BY <1>6 DEF Restart
  <2>2. UNCHANGED <<now, marked, quit, running, sleep, wake, spc>> /\ SyncFree /\ now + p <= Horizon
    BY <1>6 DEF Restart
  <2>3. rest \in Seq(TimerType) /\ Ordered(rest)
    BY <2>1, RemovedIs, TypesOf
  <2>4. t \in TimerType
    <3>1. list[i] \in TimerType
      BY <2>1, TypesOf, LenProperties
    <3>2. now + p \in 0 .. Horizon
      BY <2>2, TypesOf, PeriodsAssumption
    <3>3. QED
      BY <2>1, <3>1, <3>2 DEF TimerType
  <2>5. list' \in Seq(TimerType) /\ Ordered(list')
    BY <2>1, <2>3, <2>4, AddedIs, AddedOrdered
  <2>6. flag' \in BOOLEAN /\ (tpc' = tpc \/ tpc' = "woken")
    BY <1>1, <1>2, <2>1, NotifyIs
  <2>7. running = Nobody /\ tpc # "callback"
    BY <2>2, TypesOf DEF SyncFree
  <2>8. QED
    BY <1>1, <2>2, <2>5, <2>6, <2>7, KeepsTypes, TypesOf
<1>7. QED
  BY <1>3, <1>4, <1>5, <1>6 DEF User

\* The steps of the timer thread and of its callbacks keep TypeInv.
LEMMA ThreadTypes ==
  ASSUME TypeInv, TimerThread \/ Callback \/ SpuriousWakeup
  PROVE  TypeInv'
<1>1. flag \in BOOLEAN /\ quit \in BOOLEAN /\ spc \in [Starters -> StarterPc]
      /\ tpc \in {"check", "sleepy", "waiting", "woken", "awake", "scan", "callback", "ended"}
  BY DEF TypeInv, TypeOK
<1>2. \A l, t : Notifies(l, t) \in BOOLEAN
  BY DEF Notifies
<1>3. Never \in Int
  BY DEF Never
<1>4. CASE TestFlag \/ Timeout \/ ClearFlag \/ BeginScan \/ SpuriousWakeup
  <2>1. /\ UNCHANGED <<now, list, marked, quit, running, sleep, wake, spc>>
        /\ tpc # "callback" /\ tpc' \in {"ended", "woken", "sleepy", "awake", "scan"}
    BY <1>4 DEF TestFlag, Timeout, ClearFlag, BeginScan, SpuriousWakeup
  <2>2. flag' \in BOOLEAN
    BY <1>1, <1>4 DEF TestFlag, Timeout, ClearFlag, BeginScan, SpuriousWakeup
  <2>3. QED
    BY <1>1, <2>1, <2>2, KeepsTypes, TypesOf
<1>5. CASE Sleep
  <2>1. /\ UNCHANGED <<now, list, marked, flag, quit, running, sleep, spc>>
        /\ tpc = "sleepy" /\ tpc' = "waiting" /\ wake' \in Int
    BY <1>3, <1>5, TypesOf DEF Sleep
  <2>2. QED
    BY <1>1, <2>1, KeepsTypes, TypesOf
<1>6. CASE Fire
  <2>1. /\ UNCHANGED <<now, marked, flag, quit, sleep, wake, spc>>
        /\ tpc' = "callback" /\ list # <<>> /\ running' = list[1] /\ list' = Tail(list)
    BY <1>6 DEF Fire
  <2>2. QED
    BY <1>1, <2>1, KeepsTypes, TypesOf, TailIs
<1>7. CASE StopSelf \/ EndInterval \/ \E id \in Ids : StopOther(id)
  <2>1. PICK id : marked' = marked \ {id} /\ list' = Removed(list, id)
    BY <1>7 DEF StopSelf, EndInterval, StopOther
  <2>2. running \in TimerType /\ tpc = "callback"
    BY <1>7, TypesOf DEF StopSelf, EndInterval, StopOther
  <2>3. running' \in TimerType
    <3>1. \A k \in {"stopped", "wait"} : [running EXCEPT !.kind = k] \in TimerType
      BY <2>2 DEF TimerType
    <3>2. running' = running \/ \E k \in {"stopped", "wait"} : running' = [running EXCEPT !.kind = k]
      BY <1>7 DEF StopSelf, EndInterval, StopOther
    <3>3. QED
      BY <2>2, <3>1, <3>2
  <2>4. UNCHANGED <<now, flag, quit, tpc, sleep, wake, spc>>
    BY <1>7 DEF StopSelf, EndInterval, StopOther
  <2>5. list' \in Seq(TimerType) /\ Ordered(list')
    BY <2>1, RemovedIs, TypesOf
  <2>6. marked' \subseteq Ids
    BY <2>1, TypesOf
  <2>7. QED
    BY <1>1, <2>2, <2>3, <2>4, <2>5, <2>6, KeepsTypes, TypesOf
<1>8. ASSUME NEW p \in Periods, StartInterval(p)
      PROVE  TypeInv'
  <2>1. PICK t : /\ t = Timer(NextId(marked), now + p, p, "interval") /\ t.id # 0
                 /\ marked' = marked \cup {t.id} /\ list' = Added(list, t) /\ Notify(Notifies(list, t))
    BY <1>8 DEF StartInterval
  <2>2. /\ UNCHANGED <<now, quit, running, sleep, wake, spc>>
        /\ tpc = "callback" /\ running \in TimerType /\ now + p <= Horizon
    BY <1>8, TypesOf DEF StartInterval
  <2>3. t \in TimerType
    <3>1. t.id = NextId(marked)
      BY <2>1 DEF Timer
    <3>2. NextId(marked) \in Ids
      BY <2>1, <3>1, NextIdIs
    <3>3. now + p \in 0 .. Horizon
      BY <2>2, TypesOf, PeriodsAssumption
    <3>4. QED
      BY <2>1, <3>2, <3>3 DEF Timer, TimerType
  <2>4. list' \in Seq(TimerType) /\ Ordered(list')
    BY <2>1, <2>3, AddedIs, AddedOrdered, TypesOf
  <2>5. marked' \subseteq Ids
    BY <2>1, <2>3, TimerIs, TypesOf
  <2>6. flag' \in BOOLEAN /\ tpc' = "callback"
    BY <1>1, <1>2, <2>1, <2>2, NotifyIs
  <2>7. QED
    BY <1>1, <2>2, <2>4, <2>5, <2>6, KeepsTypes, TypesOf
<1>9. CASE Return
  <2>1. /\ UNCHANGED <<now, marked, quit, wake, spc>> /\ tpc = "callback" /\ running \in TimerType
        /\ running' = Nobody /\ sleep' = Never /\ tpc' = "scan"
    BY <1>9, TypesOf DEF Return
  <2>2. CASE running.kind = "interval"
    <3>1. /\ Again(running).due <= Horizon /\ list' = Added(list, Again(running))
          /\ flag' = (flag \/ Notifies(list, Again(running)))
      BY <1>9, <2>2 DEF Return
    <3>2. Again(running) \in TimerType
      <4>1. PICK t, d : t = running /\ d = running.due + running.period
        OBVIOUS
      <4>2. Again(running) = [t EXCEPT !.due = d]
        BY <4>1 DEF Again
      <4>3. t \in TimerType /\ Again(running).due = d
        BY <2>1, <4>1, <4>2 DEF TimerType
      <4>4. d \in 0 .. Horizon
        BY <2>1, <3>1, <4>1, <4>3, TimerIs, HorizonAssumption
      <4>5. QED
        BY <4>2, <4>3, <4>4 DEF TimerType
    <3>3. list' \in Seq(TimerType) /\ Ordered(list')
      BY <3>1, <3>2, AddedIs, AddedOrdered, TypesOf
    <3>4. flag' \in BOOLEAN
      BY <1>1, <1>2, <3>1, Zenon
    <3>5. QED
      BY <1>1, <1>3, <2>1, <3>3, <3>4, KeepsTypes, TypesOf
  <2>3. CASE running.kind # "interval"
    <3>1. UNCHANGED <<list, flag>>
      BY <1>9, <2>3 DEF Return
    <3>2. QED
      BY <1>1, <1>3, <2>1, <3>1, KeepsTypes, TypesOf
  <2>4. QED
    BY <2>2, <2>3
<1>10. CASE EndScan
  <2>1. /\ UNCHANGED <<now, list, marked, flag, quit, wake, spc, running>> /\ tpc = "scan" /\ tpc' = "check"
        /\ sleep' = IF list = <<>> THEN Never ELSE list[1].due - now
    BY <1>10 DEF EndScan
  <2>2. sleep' \in Int
    <3>1. CASE list = <<>>
      BY <1>3, <2>1, <3>1
    <3>2. CASE list # <<>>
      BY <2>1, <3>2, TypesOf, TailIs, TimerIs
    <3>3. QED
      BY <3>1, <3>2
  <2>3. QED
    BY <1>1, <2>1, <2>2, KeepsTypes, TypesOf
<1>11. QED
  BY <1>4, <1>5, <1>6, <1>7, <1>8, <1>9, <1>10 DEF TimerThread, Callback

\* Every step keeps TypeInv.
LEMMA TypeStep == TypeInv /\ [Next]_vars => TypeInv'
<1> SUFFICES ASSUME TypeInv, [Next]_vars PROVE TypeInv'
  OBVIOUS
<1>1. flag \in BOOLEAN /\ quit \in BOOLEAN /\ spc \in [Starters -> StarterPc]
      /\ tpc \in {"check", "sleepy", "waiting", "woken", "awake", "scan", "callback", "ended"}
  BY DEF TypeInv, TypeOK
<1>2. CASE UNCHANGED vars
  BY <1>1, <1>2, KeepsTypes, TypesOf DEF vars
<1>3. CASE Quit
  <2>1. UNCHANGED <<now, list, marked, flag, running, sleep, wake, spc>> /\ quit' = TRUE
        /\ (tpc' = tpc \/ (tpc = "waiting" /\ tpc' = "woken"))
    BY <1>3 DEF Quit
  <2>2. QED
    BY <1>1, <2>1, KeepsTypes, TypesOf
<1>4. CASE FreeTimers
  <2>1. UNCHANGED <<now, marked, flag, quit, tpc, running, sleep, wake, spc>> /\ list' = <<>>
    BY <1>4 DEF FreeTimers
  <2>2. list' \in Seq(TimerType) /\ Ordered(list')
    BY <2>1 DEF Ordered
  <2>3. QED
    BY <1>1, <2>1, <2>2, KeepsTypes, TypesOf
<1>5. CASE Tick
  <2>1. UNCHANGED <<list, marked, flag, quit, tpc, running, sleep, wake, spc>> /\ now' \in 0 .. Horizon
    BY <1>5, TypesOf DEF Tick
  <2>2. QED
    BY <1>1, <2>1, KeepsTypes, TypesOf
<1>6. QED
  BY <1>2, <1>3, <1>4, <1>5, UserTypes, ThreadTypes DEF Next

\* Every variable keeps its type, and the list stays sorted by deadline whoever starts,
\* restarts and stops timers while callbacks run, so that the timer thread may look at the
\* first timer only (ne_doip_timer.c).
THEOREM TypeCorrect == Spec => []TypeOK
<1>1. TypeInv => TypeOK
  BY DEF TypeInv
<1>2. QED
  BY <1>1, TypeInit, TypeStep, PTL DEF Spec

-----------------------------------------------------------------------------
\* OneIdPerTimer for the list l, the marked ids M and the running timer r.
OneId(l, M, r) ==
    /\ \A i, j \in DOMAIN l : l[i].id = l[j].id => i = j
    /\ \A i \in DOMAIN l : l[i].id \in M
    /\ r.kind = "interval" => r.id \in M /\ \A i \in DOMAIN l : l[i].id # r.id

\* OneIdPerTimer, in the form of OneId.
LEMMA OneIdIs ==
  /\ OneIdPerTimer <=> OneId(list, marked, running)
  /\ OneIdPerTimer' <=> OneId(list', marked', running')
BY DEF OneIdPerTimer, OneId, Find

\* Removing a timer and its id leaves the ids of the others.
LEMMA RemovedOne ==
  ASSUME NEW l \in Seq(TimerType), NEW M, NEW r, OneId(l, M, r), NEW id, r.kind = "interval" => r.id # id
  PROVE  OneId(Removed(l, id), M \ {id}, r)
<1>1. CASE Find(l, id) = {} /\ Removed(l, id) = l
  BY <1>1 DEF OneId, Find
<1>2. CASE \E p \in DOMAIN l : l[p].id = id /\ Removed(l, id) = WithoutPlace(l, p)
  <2>1. PICK p, w : p \in DOMAIN l /\ l[p].id = id /\ Removed(l, id) = w /\ w = WithoutPlace(l, p)
    BY <1>2
  <2>2. /\ \A i \in DOMAIN w : OldPlace(p, i) \in DOMAIN l \ {p} /\ w[i] = l[OldPlace(p, i)]
        /\ \A i, j \in DOMAIN w : i < j <=> OldPlace(p, i) < OldPlace(p, j)
        /\ \A i, j \in DOMAIN w : OldPlace(p, i) = OldPlace(p, j) => i = j
        /\ \A k \in DOMAIN l \ {p} : \E i \in DOMAIN w : OldPlace(p, i) = k
    BY <2>1, OldPlaces
  <2>3. \A i \in DOMAIN w : w[i].id # id /\ w[i].id \in M
    BY <2>1, <2>2 DEF OneId
  <2>4. \A i, j \in DOMAIN w : w[i].id = w[j].id => i = j
    BY <2>2 DEF OneId
  <2>5. r.kind = "interval" => r.id \in M \ {id} /\ \A i \in DOMAIN w : w[i].id # r.id
    BY <2>2 DEF OneId
  <2>6. QED
    BY <2>1, <2>3, <2>4, <2>5 DEF OneId
<1>3. QED
  BY <1>1, <1>2, RemovedIs

\* Adding a timer whose id no other timer has.
LEMMA AddedOne ==
  ASSUME NEW l \in Seq(TimerType), NEW M, NEW r, OneId(l, M, r), NEW t \in TimerType,
         \A i \in DOMAIN l : l[i].id # t.id, r.kind = "interval" => r.id # t.id,
         NEW N, M \subseteq N, t.id \in N
  PROVE  OneId(Added(l, t), N, r)
<1>1. PICK w, p : w = Added(l, t) /\ p = PlaceOf(l, t)
  OBVIOUS
<1>2. w \in Seq(TimerType) /\ p \in DOMAIN w /\ w[p] = t /\ l = WithoutPlace(w, p)
  BY <1>1, AddedIs
<1>3. /\ \A i \in DOMAIN l : OldPlace(p, i) \in DOMAIN w \ {p} /\ l[i] = w[OldPlace(p, i)]
      /\ \A i, j \in DOMAIN l : i < j <=> OldPlace(p, i) < OldPlace(p, j)
      /\ \A i, j \in DOMAIN l : OldPlace(p, i) = OldPlace(p, j) => i = j
      /\ \A k \in DOMAIN w \ {p} : \E i \in DOMAIN l : OldPlace(p, i) = k
  BY <1>2, OldPlaces
<1>4. \A k \in DOMAIN w \ {p} : \E i \in DOMAIN l : w[k] = l[i] /\ OldPlace(p, i) = k
  BY <1>3
<1>5. \A k \in DOMAIN w : w[k].id \in N
  BY <1>2, <1>4 DEF OneId
<1>6. \A k \in DOMAIN w \ {p} : w[k].id # t.id
  BY <1>4
<1>7. \A j, k \in DOMAIN w \ {p} : w[j].id = w[k].id => j = k
  BY <1>4 DEF OneId
<1>8. \A j, k \in DOMAIN w : w[j].id = w[k].id => j = k
  BY <1>2, <1>6, <1>7
<1>9. r.kind = "interval" => r.id \in N /\ \A k \in DOMAIN w : w[k].id # r.id
  BY <1>2, <1>4 DEF OneId
<1>10. QED
  BY <1>1, <1>5, <1>8, <1>9 DEF OneId

\* No step gives two timers one id, unless a starter's id was marked meanwhile.
LEMMA OneIdStep == TypeInv /\ [Next]_vars /\ OneIdPerTimer /\ ~Raced => OneIdPerTimer'
<1> SUFFICES ASSUME TypeInv, [Next]_vars, OneId(list, marked, running), ~Raced
             PROVE  OneId(list', marked', running')
  BY OneIdIs
<1>1. Nobody.kind = "none"
  BY DEF Nobody
<1>2. list \in Seq(TimerType) /\ running \in TimerType \cup {Nobody} /\ (running # Nobody <=> tpc = "callback")
  BY TypesOf
<1>3. CASE UNCHANGED <<list, marked, running>>
  BY <1>3
<1>4. ASSUME NEW s \in Starters, Start(s)
      PROVE  OneId(list', marked', running')
  <2>1. CASE spc[s].timer.id = 0
    <3>1. UNCHANGED <<list, marked, running>>
      BY <1>4, <2>1 DEF Start
    <3>2. QED
      BY <3>1, <1>3
  <2>2. CASE spc[s].timer.id # 0
    <3>1. PICK t : t = spc[s].timer
      OBVIOUS
    <3>2. t \in TimerType
      <4>1. t \in NewTimer
        BY <1>4, <3>1, TypesOf DEF Start
      <4>2. QED
        BY <2>2, <3>1, <4>1, MaxIdAssumption DEF NewTimer, TimerType, Ids
    <3>3. marked' = marked \cup {t.id} /\ list' = Added(list, t) /\ running' = running /\ running = Nobody
      BY <1>2, <1>4, <2>2, <3>1 DEF Start, SyncFree
    <3>4. t.id \notin marked
      BY <1>4, <3>1 DEF Raced, Start
    <3>5. \A i \in DOMAIN list : list[i].id # t.id
      BY <3>4 DEF OneId
    <3>6. QED
      BY <1>1, <1>2, <3>2, <3>3, <3>5, AddedOne
  <2>3. QED
    BY <2>1, <2>2
<1>5. ASSUME NEW s \in Starters, NEW id \in Ids, Stop(s, id)
      PROVE  OneId(list', marked', running')
  <2>1. marked' = marked \ {id} /\ list' = Removed(list, id) /\ running' = running /\ running = Nobody
    BY <1>2, <1>5 DEF Stop, SyncFree
  <2>2. QED
    BY <1>1, <1>2, <2>1, RemovedOne
<1>6. ASSUME NEW s \in Starters, NEW id \in Ids, NEW p \in Periods, Restart(s, id, p)
      PROVE  OneId(list', marked', running')
  <2>1. PICK i, t, rest :
            /\ i \in DOMAIN list
            /\ list[i].id = id /\ t = [list[i] EXCEPT !.due = now + p, !.period = p]
            /\ rest = Removed(list, id) /\ list' = Added(rest, t)
    BY <1>6 DEF Restart
  <2>2. UNCHANGED <<now, marked, running>> /\ running = Nobody /\ now + p <= Horizon
    BY <1>2, <1>6 DEF Restart, SyncFree
  <2>3. t \in TimerType /\ t.id = id
    <3>1. list[i] \in TimerType
      BY <1>2, <2>1, LenProperties
    <3>2. now + p \in 0 .. Horizon
      BY <2>2, TypesOf, PeriodsAssumption
    <3>3. QED
      BY <2>1, <3>1, <3>2 DEF TimerType
  <2>4. rest \in Seq(TimerType) /\ OneId(rest, marked \ {id}, running)
    BY <1>1, <1>2, <2>1, <2>2, RemovedOne, RemovedIs
  <2>5. id \in marked /\ \A j \in DOMAIN rest : rest[j].id # t.id
    BY <2>1, <2>3, <2>4 DEF OneId
  <2>6. QED
    BY <1>1, <2>1, <2>2, <2>3, <2>4, <2>5, AddedOne
<1>7. CASE Fire
  <2>1. list # <<>> /\ running' = list[1] /\ list' = Tail(list) /\ marked' = marked
    BY <1>7 DEF Fire
  <2>2. 1 \in DOMAIN list /\ list' = WithoutPlace(list, 1)
    BY <1>2, <2>1, TailIs
  <2>3. /\ \A i \in DOMAIN list' : OldPlace(1, i) \in DOMAIN list \ {1} /\ list'[i] = list[OldPlace(1, i)]
        /\ \A i, j \in DOMAIN list' : i < j <=> OldPlace(1, i) < OldPlace(1, j)
        /\ \A i, j \in DOMAIN list' : OldPlace(1, i) = OldPlace(1, j) => i = j
        /\ \A k \in DOMAIN list \ {1} : \E i \in DOMAIN list' : OldPlace(1, i) = k
    BY <1>2, <2>2, OldPlaces
  <2>4. QED
    BY <2>1, <2>2, <2>3 DEF OneId
<1>8. CASE StopSelf \/ EndInterval \/ \E id \in Ids : StopOther(id)
  <2>1. PICK id : marked' = marked \ {id} /\ list' = Removed(list, id)
    BY <1>8 DEF StopSelf, EndInterval, StopOther
  <2>2. running \in TimerType
    BY <1>2, <1>8 DEF StopSelf, EndInterval, StopOther
  <2>3. running'.kind # "interval"
    <3>1. \A k \in {"stopped", "wait"} : [running EXCEPT !.kind = k].kind = k
      BY <2>2 DEF TimerType
    <3>2. \/ running' = running /\ running.kind = "stopped"
          \/ \E k \in {"stopped", "wait"} : running' = [running EXCEPT !.kind = k]
      BY <1>8 DEF StopSelf, EndInterval, StopOther
    <3>3. QED
      BY <3>1, <3>2
  <2>4. OneId(list, marked, running')
    BY <2>3 DEF OneId
  <2>5. QED
    BY <1>2, <2>1, <2>3, <2>4, RemovedOne
<1>9. ASSUME NEW p \in Periods, StartInterval(p)
      PROVE  OneId(list', marked', running')
  <2>1. PICK t : /\ t = Timer(NextId(marked), now + p, p, "interval") /\ t.id # 0
                 /\ marked' = marked \cup {t.id} /\ list' = Added(list, t) /\ running' = running
    BY <1>9 DEF StartInterval
  <2>2. t.id = NextId(marked)
    BY <2>1 DEF Timer
  <2>3. t.id \in Ids \ marked
    BY <2>1, <2>2, NextIdIs
  <2>4. t \in TimerType
    <3>1. now + p \in 0 .. Horizon
      BY <1>9, TypesOf, PeriodsAssumption DEF StartInterval
    <3>2. QED
      BY <2>1, <2>2, <2>3, <3>1 DEF Timer, TimerType
  <2>5. /\ \A i \in DOMAIN list : list[i].id # t.id
        /\ running.kind = "interval" => running.id # t.id
    BY <2>3 DEF OneId
  <2>6. QED
    BY <1>2, <2>1, <2>4, <2>5, AddedOne
<1>10. CASE Return
  <2>1. running \in TimerType /\ running' = Nobody /\ marked' = marked
    BY <1>2, <1>10 DEF Return
  <2>2. CASE running.kind = "interval"
    <3>1. Again(running).due <= Horizon /\ list' = Added(list, Again(running))
      BY <1>10, <2>2 DEF Return
    <3>2. Again(running) \in TimerType /\ Again(running).id = running.id
      <4>1. PICK t, d : t = running /\ d = running.due + running.period
        OBVIOUS
      <4>2. Again(running) = [t EXCEPT !.due = d]
        BY <4>1 DEF Again
      <4>3. t \in TimerType /\ Again(running).due = d
        BY <2>1, <4>1, <4>2 DEF TimerType
      <4>4. d \in 0 .. Horizon
        BY <2>1, <3>1, <4>1, <4>3, TimerIs, HorizonAssumption
      <4>5. QED
        BY <4>1, <4>2, <4>3, <4>4 DEF TimerType
    <3>3. OneId(list, marked, Nobody)
      BY <1>1 DEF OneId
    <3>4. running.id \in marked /\ \A i \in DOMAIN list : list[i].id # running.id
      BY <2>2 DEF OneId
    <3>5. QED
      BY <1>1, <1>2, <2>1, <3>1, <3>2, <3>3, <3>4, AddedOne
  <2>3. CASE running.kind # "interval"
    BY <1>1, <1>10, <2>1, <2>3 DEF Return, OneId
  <2>4. QED
    BY <2>2, <2>3
<1>11. CASE FreeTimers
  <2>1. list' = <<>> /\ marked' = marked /\ running' = running
    BY <1>11 DEF FreeTimers
  <2>2. DOMAIN list' = {}
    BY <2>1
  <2>3. QED
    BY <2>1, <2>2 DEF OneId
<1>12. CASE TestFlag \/ Sleep \/ Timeout \/ ClearFlag \/ BeginScan \/ SpuriousWakeup \/ EndScan \/ Quit \/ Tick
  BY <1>3, <1>12 DEF TestFlag, Sleep, Timeout, ClearFlag, BeginScan, SpuriousWakeup, EndScan, Quit, Tick
<1>13. CASE \E s \in Starters : \E p \in Periods : \E k \in Kinds : PickId(s, p, k)
  BY <1>3, <1>13 DEF PickId
<1>14. CASE UNCHANGED vars
  BY <1>3, <1>14 DEF vars
<1>15. QED
  BY <1>4, <1>5, <1>6, <1>7, <1>8, <1>9, <1>10, <1>11, <1>12, <1>13, <1>14
     DEF Next, TimerThread, Callback, User

\* Once every timer has an id of its own no step ends that, callbacks and interval timers
\* included, except that of a starter whose id was marked between its choice and its lock:
\* the unlocked ne_doip_nextID is the only way to two timers with one id (ne_doip_timer.c).
THEOREM OneIdKept == Spec => OneIdUnlessRaced
<1>1. TypeInv /\ [Next]_vars => [OneIdPerTimer /\ ~Raced => OneIdPerTimer']_vars
  BY OneIdStep
<1>2. QED
  BY <1>1, TypeInit, TypeStep, PTL DEF Spec, OneIdUnlessRaced

-----------------------------------------------------------------------------
\* The timers with an id and a deadline, and how many a list has of them.
With(q) == {t \in TimerType : t.id = q[1] /\ t.due = q[2]}
Counts(l) == [q \in Ids \X (0 .. Horizon) |-> Cardinality(PlacesWhere(l, With(q)))]
Key(t) == <<t.id, t.due>>

\* The id and the deadline of a timer.
LEMMA KeyIs ==
  ASSUME NEW t \in TimerType
  PROVE  /\ Key(t) \in Ids \X (0 .. Horizon) /\ Key(t)[1] = t.id /\ Key(t)[2] = t.due /\ Key(t) # <<>>
         /\ \A q \in Ids \X (0 .. Horizon) : t \in With(q) <=> q = Key(t)
<1>1. t.id \in Ids /\ t.due \in 0 .. Horizon
  BY TimerIs
<1>2. QED
  BY <1>1 DEF Key, With

\* armedBar counts the timers of the list.
LEMMA ArmedIs ==
  ASSUME NEW l \in Seq(TimerType)
  PROVE  [p \in Ids \X (0 .. Horizon) |->
            Cardinality({i \in DOMAIN l : l[i].id = p[1] /\ l[i].due = p[2]})] = Counts(l)
<1>1. \A i \in DOMAIN l : l[i] \in TimerType
  BY LenProperties
<1>2. \A q \in Ids \X (0 .. Horizon) :
         {i \in DOMAIN l : l[i].id = q[1] /\ l[i].due = q[2]} = PlacesWhere(l, With(q))
  BY <1>1 DEF PlacesWhere, With
<1>3. QED
  BY <1>2 DEF Counts

\* Taking a timer out of a list counts one less with its id and deadline.
LEMMA CountsTaken ==
  ASSUME NEW l \in Seq(TimerType), NEW p \in DOMAIN l, NEW w, w = WithoutPlace(l, p)
  PROVE  /\ Counts(w) = D!Minus(Counts(l), Key(l[p]))
         /\ Counts(l) = D!Plus(Counts(w), Key(l[p]))
         /\ Key(l[p]) \in D!AllIn(Counts(l))
<1>1. PICK t \in TimerType : t = l[p]
  BY LenProperties
<1>2. PICK P : P = Ids \X (0 .. Horizon)
  OBVIOUS
<1>3. PICK k \in P : k = Key(t)
  BY <1>2, KeyIs
<1>4. \A q \in P : t \in With(q) <=> q = k
  BY <1>2, <1>3, KeyIs
<1>5. PICK a, b : a = Counts(l) /\ b = Counts(w)
  OBVIOUS
<1>6. /\ a = [q \in P |-> Cardinality(PlacesWhere(l, With(q)))]
      /\ b = [q \in P |-> Cardinality(PlacesWhere(w, With(q)))]
  BY <1>2, <1>5 DEF Counts
<1>7. ASSUME NEW q \in P
      PROVE  a[q] \in Nat /\ b[q] \in Nat /\ b[q] = IF q = k THEN a[q] - 1 ELSE a[q]
  <2>1. PICK Q : Q = With(q)
    OBVIOUS
  <2>2. /\ Cardinality(PlacesWhere(l, Q)) \in Nat /\ Cardinality(PlacesWhere(w, Q)) \in Nat
        /\ Cardinality(PlacesWhere(w, Q)) = IF l[p] \in Q THEN Cardinality(PlacesWhere(l, Q)) - 1
                                                     ELSE Cardinality(PlacesWhere(l, Q))
    BY PlacesTaken
  <2>3. a[q] = Cardinality(PlacesWhere(l, Q)) /\ b[q] = Cardinality(PlacesWhere(w, Q))
    BY <1>6, <2>1
  <2>4. l[p] \in Q <=> q = k
    BY <1>1, <1>4, <2>1
  <2>5. QED
    BY <2>2, <2>3, <2>4
<1>8. b = [a EXCEPT ![k] = a[k] - 1]
  BY <1>6, <1>7
<1>9. a = [b EXCEPT ![k] = b[k] + 1]
  <2>1. \A q \in P : a[q] = IF q = k THEN b[q] + 1 ELSE b[q]
    BY <1>7
  <2>2. QED
    BY <1>6, <2>1
<1>10. k \in {q \in P : a[q] > 0}
  BY <1>7
<1>11. b = D!Minus(a, k) /\ a = D!Plus(b, k)
  BY <1>8, <1>9 DEF D!Minus, D!Plus
<1>12. k \in D!AllIn(a)
  BY <1>2, <1>10 DEF D!AllIn
<1>13. QED
  BY <1>1, <1>3, <1>5, <1>11, <1>12

\* Adding a timer counts one more.
LEMMA CountsAdded ==
  ASSUME NEW l \in Seq(TimerType), NEW t \in TimerType
  PROVE  Counts(Added(l, t)) = D!Plus(Counts(l), Key(t))
<1>1. PICK w, p : w = Added(l, t) /\ p = PlaceOf(l, t)
  OBVIOUS
<1>2. w \in Seq(TimerType) /\ p \in DOMAIN w /\ w[p] = t /\ l = WithoutPlace(w, p)
  BY <1>1, AddedIs
<1>3. Counts(w) = D!Plus(Counts(l), Key(w[p]))
  BY <1>2, CountsTaken
<1>4. QED
  BY <1>1, <1>2, <1>3

\* Removing a timer counts one less, or changes nothing.
LEMMA CountsRemoved ==
  ASSUME NEW l \in Seq(TimerType), NEW id
  PROVE  \/ Removed(l, id) = l /\ Find(l, id) = {}
         \/ \E q \in D!AllIn(Counts(l)) : q[1] = id /\ Counts(Removed(l, id)) = D!Minus(Counts(l), q)
<1>1. CASE \E p \in DOMAIN l : l[p].id = id /\ Removed(l, id) = WithoutPlace(l, p)
  <2>1. PICK p, w : p \in DOMAIN l /\ l[p].id = id /\ w = Removed(l, id) /\ w = WithoutPlace(l, p)
    BY <1>1
  <2>2. Counts(w) = D!Minus(Counts(l), Key(l[p])) /\ Key(l[p]) \in D!AllIn(Counts(l))
    BY <2>1, CountsTaken
  <2>3. Key(l[p])[1] = id
    BY <2>1 DEF Key
  <2>4. QED
    BY <2>1, <2>2, <2>3
<1>2. QED
  BY <1>1, RemovedIs

\* The empty list has no timers.
LEMMA CountsNone == Counts(<<>>) = D!None
<1>1. \A q : PlacesWhere(<<>>, With(q)) = {}
  BY DEF PlacesWhere
<1>2. Cardinality({}) = 0
  BY FS_EmptySet
<1>3. QED
  BY <1>1, <1>2 DEF Counts, D!None

\* The variables of Deadlines, before and after a step.
LEMMA BarsAre ==
  ASSUME TypeInv, TypeInv'
  PROVE  /\ armedBar = Counts(list) /\ armedBar' = Counts(list')
         /\ running = Nobody => calledBar = <<>>
         /\ running' = Nobody => calledBar' = <<>>
         /\ running \in TimerType => calledBar = Key(running)
         /\ running' \in TimerType => calledBar' = Key(running')
<1>1. list \in Seq(TimerType) /\ list' \in Seq(TimerType)
  BY DEF TypeInv, TypeOK
<1>2. armedBar = Counts(list) /\ armedBar' = Counts(list')
  BY <1>1, ArmedIs DEF armedBar
<1>3. /\ running \in TimerType => running # Nobody
      /\ running' \in TimerType => running' # Nobody
  BY TimerIs
<1>4. QED
  BY <1>2, <1>3 DEF calledBar, Key

\* The manager starts as Deadlines does.
LEMMA DeadlinesInit == Init => D!Init
<1> SUFFICES ASSUME Init PROVE D!Init
  OBVIOUS
<1>1. armedBar = D!None
  <2>1. list = <<>> /\ <<>> \in Seq(TimerType)
    BY DEF Init
  <2>2. armedBar = Counts(list)
    BY <2>1, ArmedIs DEF armedBar
  <2>3. QED
    BY <2>1, <2>2, CountsNone
<1>2. calledBar = <<>> /\ now \in Nat
  BY DEF Init, calledBar
<1>3. QED
  BY <1>1, <1>2 DEF D!Init

\* Every step is one that Deadlines allows, or changes nothing that it tells.
LEMMA DeadlinesStep ==
  ASSUME TypeInv, TypeInv', [Next]_vars
  PROVE  D!Next \/ UNCHANGED <<armedBar, calledBar, now>>
<1>1. list \in Seq(TimerType) /\ running \in TimerType \cup {Nobody} /\ (running # Nobody <=> tpc = "callback")
  BY TypesOf
<1>2. PICK P : P = Ids \X (0 .. Horizon)
  OBVIOUS
<1>3. \A p \in Ids \X (0 .. Horizon) : D!Start(p) => D!Next
  BY DEF D!Next
<1>4. \A p \in D!AllIn(armedBar) : D!Stop(p) \/ D!Call(p) => D!Next
  BY DEF D!Next
<1>5. CASE UNCHANGED <<list, running, now>>
  BY <1>5 DEF armedBar, calledBar
<1>6. ASSUME NEW t \in TimerType, list' = Added(list, t), calledBar' = calledBar, now' = now
      PROVE  D!Next
  <2>1. armedBar' = D!Plus(armedBar, Key(t))
    BY <1>1, <1>6, BarsAre, CountsAdded
  <2>2. D!Start(Key(t))
    BY <1>6, <2>1 DEF D!Start
  <2>3. QED
    BY <1>3, <2>2, KeyIs
<1>7. ASSUME NEW id, list' = Removed(list, id), calledBar' = calledBar, now' = now
      PROVE  D!Next \/ UNCHANGED <<armedBar, calledBar, now>>
  <2>1. CASE list' = list
    BY <1>7, <2>1, BarsAre
  <2>2. CASE \E q \in D!AllIn(Counts(list)) : q[1] = id /\ Counts(Removed(list, id)) = D!Minus(Counts(list), q)
    <3>1. PICK q \in D!AllIn(armedBar) : armedBar' = D!Minus(armedBar, q)
      BY <1>7, <2>2, BarsAre
    <3>2. D!Stop(q)
      BY <1>7, <3>1 DEF D!Stop
    <3>3. QED
      BY <1>4, <3>2
  <2>3. QED
    BY <1>1, <1>7, <2>1, <2>2, CountsRemoved
<1>8. ASSUME NEW s \in Starters, Start(s)
      PROVE  D!Next \/ UNCHANGED <<armedBar, calledBar, now>>
  <2>1. UNCHANGED <<running, now>> /\ calledBar' = calledBar
    BY <1>8 DEF Start, calledBar
  <2>2. CASE spc[s].timer.id = 0
    <3>1. UNCHANGED list
      BY <1>8, <2>2 DEF Start
    <3>2. QED
      BY <1>5, <2>1, <3>1
  <2>3. CASE spc[s].timer.id # 0
    <3>1. PICK t : t = spc[s].timer
      OBVIOUS
    <3>2. t \in TimerType
      <4>1. t \in NewTimer
        BY <1>8, <3>1, TypesOf DEF Start
      <4>2. QED
        BY <2>3, <3>1, <4>1, MaxIdAssumption DEF NewTimer, TimerType, Ids
    <3>3. list' = Added(list, t)
      BY <1>8, <2>3, <3>1 DEF Start
    <3>4. QED
      BY <1>6, <2>1, <3>2, <3>3
  <2>4. QED
    BY <2>2, <2>3
<1>9. ASSUME NEW s \in Starters, NEW id \in Ids, Stop(s, id)
      PROVE  D!Next \/ UNCHANGED <<armedBar, calledBar, now>>
  <2>1. list' = Removed(list, id) /\ now' = now /\ calledBar' = calledBar
    BY <1>9 DEF Stop, calledBar
  <2>2. QED
    BY <1>7, <2>1
<1>10. ASSUME NEW s \in Starters, NEW id \in Ids, NEW p \in Periods, Restart(s, id, p)
       PROVE  D!Next
  <2>1. PICK i, t, rest :
            /\ i \in DOMAIN list
            /\ list[i].id = id /\ t = [list[i] EXCEPT !.due = now + p, !.period = p]
            /\ rest = Removed(list, id) /\ list' = Added(rest, t)
    BY <1>10 DEF Restart
  <2>2. now' = now /\ calledBar' = calledBar /\ now + p <= Horizon
    BY <1>10 DEF Restart, calledBar
  <2>3. t \in TimerType /\ t.id = id /\ t.due = now + p /\ now + p \in 0 .. Horizon /\ now + p >= now
    <3>1. list[i] \in TimerType
      BY <1>1, <2>1, LenProperties
    <3>2. now + p \in 0 .. Horizon /\ now + p >= now
      BY <2>2, TypesOf, PeriodsAssumption
    <3>3. QED
      BY <2>1, <3>1, <3>2 DEF TimerType
  <2>4. Find(list, id) # {}
    BY <2>1 DEF Find
  <2>5. PICK q \in D!AllIn(Counts(list)) : q[1] = id /\ Counts(rest) = D!Minus(Counts(list), q)
    BY <1>1, <2>1, <2>4, CountsRemoved
  <2>6. Counts(list') = D!Plus(Counts(rest), Key(t))
    <3>1. rest \in Seq(TimerType)
      BY <1>1, <2>1, RemovedIs
    <3>2. QED
      BY <2>1, <2>3, <3>1, CountsAdded
  <2>7. Key(t) = <<q[1], now + p>>
    BY <2>3, <2>5 DEF Key
  <2>8. armedBar' = D!Plus(D!Minus(armedBar, q), <<q[1], now + p>>)
    BY <2>5, <2>6, <2>7, BarsAre
  <2>9. D!Restart(q, now + p)
    BY <2>2, <2>3, <2>8 DEF D!Restart
  <2>10. q \in D!AllIn(armedBar)
    BY <2>5, BarsAre
  <2>11. QED
    BY <2>3, <2>9, <2>10 DEF D!Next
<1>11. CASE Fire
  <2>1. /\ tpc = "scan" /\ list # <<>> /\ list[1].due <= now
        /\ running' = list[1] /\ list' = Tail(list) /\ now' = now
    BY <1>11 DEF Fire, Expired, IsDue
  <2>2. PICK t \in TimerType : t = list[1] /\ 1 \in DOMAIN list /\ list' = WithoutPlace(list, 1)
    BY <1>1, <2>1, TailIs
  <2>3. running = Nobody /\ running' \in TimerType
    BY <1>1, <2>1, <2>2
  <2>4. armedBar' = D!Minus(armedBar, Key(t)) /\ Key(t) \in D!AllIn(armedBar)
    BY <1>1, <2>2, CountsTaken, BarsAre
  <2>5. calledBar = <<>> /\ calledBar' = Key(t)
    BY <2>1, <2>2, <2>3, BarsAre
  <2>6. Key(t)[2] <= now
    BY <2>1, <2>2, KeyIs
  <2>7. D!Call(Key(t))
    BY <2>1, <2>4, <2>5, <2>6 DEF D!Call
  <2>8. QED
    BY <1>4, <2>4, <2>7
<1>12. CASE StopSelf \/ EndInterval \/ \E id \in Ids : StopOther(id)
  <2>1. PICK id : list' = Removed(list, id) /\ now' = now
    BY <1>12 DEF StopSelf, EndInterval, StopOther
  <2>2. running \in TimerType /\ running # Nobody
    BY <1>1, <1>12 DEF StopSelf, EndInterval, StopOther
  <2>3. running' \in TimerType /\ running'.id = running.id /\ running'.due = running.due
    <3>1. \A k \in {"stopped", "wait"} :
            /\ [running EXCEPT !.kind = k] \in TimerType
            /\ [running EXCEPT !.kind = k].id = running.id /\ [running EXCEPT !.kind = k].due = running.due
      BY <2>2 DEF TimerType
    <3>2. running' = running \/ \E k \in {"stopped", "wait"} : running' = [running EXCEPT !.kind = k]
      BY <1>12 DEF StopSelf, EndInterval, StopOther
    <3>3. QED
      BY <2>2, <3>1, <3>2
  <2>4. calledBar' = calledBar
    BY <2>2, <2>3, BarsAre DEF Key
  <2>5. QED
    BY <1>7, <2>1, <2>4
<1>13. ASSUME NEW p \in Periods, StartInterval(p)
       PROVE  D!Next
  <2>1. PICK t : /\ t = Timer(NextId(marked), now + p, p, "interval") /\ t.id # 0
                 /\ list' = Added(list, t) /\ now' = now /\ calledBar' = calledBar
    BY <1>13 DEF StartInterval, calledBar
  <2>2. t \in TimerType
    <3>1. t.id = NextId(marked)
      BY <2>1 DEF Timer
    <3>2. NextId(marked) \in Ids
      BY <2>1, <3>1, NextIdIs
    <3>3. now + p \in 0 .. Horizon
      BY <1>13, TypesOf, PeriodsAssumption DEF StartInterval
    <3>4. QED
      BY <2>1, <3>2, <3>3 DEF Timer, TimerType
  <2>3. QED
    BY <1>6, <2>1, <2>2
<1>14. CASE Return
  <2>1. running \in TimerType /\ running' = Nobody /\ now' = now
    BY <1>1, <1>14 DEF Return
  <2>2. calledBar = Key(running) /\ calledBar # <<>> /\ calledBar' = <<>>
    BY <2>1, KeyIs, BarsAre
  <2>3. CASE running.kind = "interval"
    <3>1. Again(running).due <= Horizon /\ list' = Added(list, Again(running))
      BY <1>14, <2>3 DEF Return
    <3>2. PICK t \in TimerType : /\ t = Again(running) /\ t.id = running.id
                                 /\ t.due \in 0 .. Horizon /\ t.due > running.due
      <4>1. PICK u, d : u = running /\ d = running.due + running.period
        OBVIOUS
      <4>2. Again(running) = [u EXCEPT !.due = d]
        BY <4>1 DEF Again
      <4>3. u \in TimerType /\ Again(running).due = d
        BY <2>1, <4>1, <4>2 DEF TimerType
      <4>4. d \in 0 .. Horizon /\ d > running.due
        BY <2>1, <3>1, <4>1, <4>3, TimerIs, HorizonAssumption
      <4>5. Again(running) \in TimerType /\ Again(running).id = running.id
        BY <4>1, <4>2, <4>3, <4>4 DEF TimerType
      <4>6. QED
        BY <4>3, <4>4, <4>5
    <3>3. armedBar' = D!Plus(armedBar, Key(t))
      BY <1>1, <3>1, <3>2, CountsAdded, BarsAre
    <3>4. calledBar[1] = running.id /\ calledBar[2] = running.due
      BY <2>1, <2>2, KeyIs
    <3>5. Key(t) = <<calledBar[1], t.due>>
      BY <3>2, <3>4 DEF Key
    <3>6. D!Return
      BY <2>1, <2>2, <3>2, <3>3, <3>4, <3>5 DEF D!Return
    <3>7. QED
      BY <3>6 DEF D!Next
  <2>4. CASE running.kind # "interval"
    <3>1. armedBar' = armedBar
      BY <1>14, <2>4, BarsAre DEF Return
    <3>2. D!Return
      BY <2>1, <2>2, <3>1 DEF D!Return
    <3>3. QED
      BY <3>2 DEF D!Next
  <2>5. QED
    BY <2>3, <2>4
<1>15. CASE FreeTimers
  <2>1. tpc = "ended" /\ list' = <<>> /\ running' = running /\ now' = now
    BY <1>15 DEF FreeTimers
  <2>2. calledBar = <<>> /\ calledBar' = <<>>
    BY <1>1, <2>1, BarsAre
  <2>3. armedBar' = D!None
    BY <2>1, BarsAre, CountsNone
  <2>4. D!Destroy
    BY <2>1, <2>2, <2>3 DEF D!Destroy
  <2>5. QED
    BY <2>4 DEF D!Next
<1>16. CASE Tick
  <2>1. now' = now + 1 /\ UNCHANGED <<armedBar, calledBar>>
    BY <1>16 DEF Tick, armedBar, calledBar
  <2>2. D!Tick
    BY <2>1 DEF D!Tick
  <2>3. QED
    BY <2>2 DEF D!Next
<1>17. CASE TestFlag \/ Sleep \/ Timeout \/ ClearFlag \/ BeginScan \/ SpuriousWakeup \/ EndScan \/ Quit
  BY <1>5, <1>17 DEF TestFlag, Sleep, Timeout, ClearFlag, BeginScan, SpuriousWakeup, EndScan, Quit
<1>18. CASE \E s \in Starters : \E p \in Periods : \E k \in Kinds : PickId(s, p, k)
  BY <1>5, <1>18 DEF PickId
<1>19. CASE UNCHANGED vars
  BY <1>5, <1>19 DEF vars
<1>20. QED
  BY <1>8, <1>9, <1>10, <1>11, <1>12, <1>13, <1>14, <1>15, <1>16, <1>17, <1>18, <1>19
     DEF Next, TimerThread, Callback, User

\* The timer manager implements Deadlines: no callback runs before its deadline, twice for
\* one, or for a timer that was stopped, whatever the callbacks and the other threads do
\* with the list meanwhile, and even when two timers share an id (ne_doip_timer.c).
THEOREM TimersImplementDeadlines == Spec => ImplementsDeadlines
<1>1. TypeInv /\ TypeInv' /\ [Next]_vars => [D!Next]_<<armedBar, calledBar, now>>
  BY DeadlinesStep
<1>2. QED
  BY <1>1, DeadlinesInit, TypeInit, TypeStep, PTL DEF Spec, ImplementsDeadlines, D!Spec
=============================================================================
