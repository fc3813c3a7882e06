------------------------------- MODULE Timers --------------------------------
(***************************************************************************)
(* The timer manager (ne_doip_timer.c): a list of timers sorted by their   *)
(* deadlines, a table of used ids, and a thread that sleeps until the      *)
(* first deadline and runs the callbacks.                                  *)
(*                                                                         *)
(* manager->sync guards the list and the table.  The timer thread holds it *)
(* while it scans the list, callbacks included; the other threads hold it  *)
(* for one step.  Two things happen without it: a starter chooses its id,  *)
(* and the timer thread tests m_bSignalflg and goes to sleep, under a lock *)
(* (thread->lock) that nobody takes who sets the flag and signals.         *)
(***************************************************************************)
EXTENDS Integers, Sequences, FiniteSets, SequencesExt

CONSTANTS
  Starters,   \* the threads that start timers
  MaxId,      \* NE_DOIP_TIMER_MAX_NUM
  Periods,    \* the periods in use
  Kinds,      \* the kinds of callbacks in use
  Horizon     \* bound: the last moment of the clock, when every timer is due

ASSUME MaxIdAssumption == MaxId \in Nat \ {0}
ASSUME PeriodsAssumption == Periods \subseteq Nat \ {0} /\ IsFiniteSet(Periods)
ASSUME HorizonAssumption == Horizon \in Nat
ASSUME KindsAssumption == Kinds \subseteq {"once", "wait", "interval"}

VARIABLES
  now,        \* the clock
  list,       \* timer_head
  marked,     \* the ids set in timer_table
  flag,       \* m_bSignalflg
  quit,       \* thread->quit_flag
  tpc,        \* where the timer thread is
  running,    \* the timer whose callback it runs
  sleep,      \* sleep_time
  wake,       \* when its timed wait ends
  spc         \* where the starters are

vars == <<now, list, marked, flag, quit, tpc, running, sleep, wake, spc>>

Ids == 1 .. MaxId
Never == -1     \* NE_DOIP_INFINITE
Nobody == [kind |-> "none"]

Timer(id, due, period, kind) == [id |-> id, due |-> due, period |-> period, kind |-> kind]

-----------------------------------------------------------------------------
\* ne_doip_nextID: the lowest id that is not marked, 0 if there is none.
OnePastTheEnd(M) == CHOOSE i \in 1 .. MaxId + 1 : i \notin M /\ 1 .. i - 1 \subseteq M
NextId(M) ==
  IF Ids \subseteq M THEN 0
  ELSE CHOOSE i \in Ids \ M : \A j \in Ids \ M : i <= j

\* ne_doip_add_request: the place of t in the list, and the list with it.  At
\* the first place the timer thread is notified.
PlaceOf(l, t) == 1 + Cardinality({i \in DOMAIN l : \A j \in 1 .. i : l[j].due <= t.due})
Added(l, t) == InsertAt(l, PlaceOf(l, t), t)
NeverFirst(l, t) == FALSE
Notifies(l, t) == PlaceOf(l, t) = 1

Find(l, id) == {i \in DOMAIN l : l[i].id = id}

\* The first timer with the id leaves the list.
StillThere(l, id) == l
Removed(l, id) ==
  IF Find(l, id) = {} THEN l
  ELSE RemoveAt(l, CHOOSE i \in Find(l, id) : \A j \in Find(l, id) : i <= j)

\* ne_doip_notify: the flag is set, and a signal wakes a thread that waits now.
Notify(yes) ==
  /\ flag' = (flag \/ yes)
  /\ tpc' = IF yes /\ tpc = "waiting" THEN "woken" ELSE tpc

SyncFree == tpc \notin {"scan", "callback"}

-----------------------------------------------------------------------------
Init ==
  /\ now = 0 /\ list = <<>> /\ marked = {} /\ flag = FALSE /\ quit = FALSE
  /\ tpc = "check" /\ running = Nobody /\ sleep = Never /\ wake = Never
  /\ spc = [s \in Starters |-> [at |-> "idle"]]

\* ne_doip_timer_start: the deadline and the id are fixed before the lock is taken
PickId(s, period, kind) ==
  /\ spc[s].at = "idle" /\ ~quit
  /\ now + period <= Horizon
  /\ spc' = [spc EXCEPT ![s] =
       [at |-> "add", timer |-> Timer(NextId(marked), now + period, period, kind)]]
  /\ UNCHANGED <<now, list, marked, flag, quit, tpc, running, sleep, wake>>

Start(s) ==
  /\ spc[s].at = "add" /\ SyncFree
  /\ LET t == spc[s].timer
     IN  IF t.id = 0 THEN UNCHANGED <<list, marked, flag, tpc>>
         ELSE /\ marked' = marked \cup {t.id}
              /\ list' = Added(list, t)
              /\ Notify(Notifies(list, t))
  /\ spc' = [spc EXCEPT ![s] = [at |-> "idle"]]
  /\ UNCHANGED <<now, quit, running, sleep, wake>>

\* ne_doip_timer_stop: the id is freed, whether its timer runs or not.
Stop(s, id) ==
  /\ spc[s].at = "idle" /\ SyncFree /\ ~quit
  /\ marked' = marked \ {id}
  /\ list' = Removed(list, id)
  /\ UNCHANGED <<now, flag, quit, tpc, running, sleep, wake, spc>>

\* ne_doip_timer_restart of a timer that runs; otherwise nothing happens.  Only
\* general inactivity timers are restarted.
Restart(s, id, period) ==
  /\ spc[s].at = "idle" /\ SyncFree /\ ~quit
  /\ now + period <= Horizon
  /\ \E i \in DOMAIN list :
       /\ list[i].id = id /\ list[i].kind = "once"
       /\ LET rest == Removed(list, id)
              t == [list[i] EXCEPT !.due = now + period, !.period = period]
          IN  /\ list' = Added(rest, t)
              /\ Notify(Notifies(rest, t))
  /\ UNCHANGED <<now, marked, quit, running, sleep, wake, spc>>

-----------------------------------------------------------------------------
\* ne_doip_pthread_func

\* The flag is tested with thread->lock held; whoever sets it does not wait.
TestFlag ==
  /\ tpc = "check"
  /\ tpc' = IF quit THEN "ended" ELSE IF flag THEN "woken" ELSE "sleepy"
  /\ UNCHANGED <<now, list, marked, flag, quit, running, sleep, wake, spc>>

\* A sleep_time of 0 is taken for NE_DOIP_INFINITE.
Sleep ==
  /\ tpc = "sleepy"
  /\ tpc' = "waiting"
  /\ wake' = IF sleep \in {0, Never} THEN Never ELSE now + sleep
  /\ UNCHANGED <<now, list, marked, flag, quit, running, sleep, spc>>

\* A timed wait ends at its time, or when the modelled time is over.
Timeout ==
  /\ tpc = "waiting"
  /\ wake # Never /\ (wake <= now \/ now = Horizon)
  /\ tpc' = "woken"
  /\ UNCHANGED <<now, list, marked, flag, quit, running, sleep, wake, spc>>

SpuriousWakeup ==
  /\ tpc = "waiting"
  /\ tpc' = "woken"
  /\ UNCHANGED <<now, list, marked, flag, quit, running, sleep, wake, spc>>

ClearFlag ==
  /\ tpc = "woken"
  /\ tpc' = "awake"
  /\ flag' = FALSE
  /\ UNCHANGED <<now, list, marked, quit, running, sleep, wake, spc>>

BeginScan ==
  /\ tpc = "awake"
  /\ tpc' = "scan"
  /\ UNCHANGED <<now, list, marked, flag, quit, running, sleep, wake, spc>>

IsDue(t) == t.due <= now
AlwaysDue(t) == TRUE
Expired(t) == IsDue(t)

\* The first timer is due: it leaves the list and its callback is called.
Fire ==
  /\ tpc = "scan" /\ list # <<>> /\ Expired(list[1])
  /\ tpc' = "callback" /\ running' = list[1] /\ list' = Tail(list)
  /\ UNCHANGED <<now, marked, flag, quit, sleep, wake, spc>>

\* The inactivity, alive check and identification callbacks stop the timer they
\* were called for.
StopSelf ==
  /\ tpc = "callback" /\ running.kind = "once"
  /\ running' = [running EXCEPT !.kind = "stopped"]
  /\ marked' = marked \ {running.id}
  /\ list' = Removed(list, running.id)
  /\ UNCHANGED <<now, flag, quit, tpc, sleep, wake, spc>>

\* Closing a connection in a callback stops the other timers of its entry.
StopOther(id) ==
  /\ tpc = "callback" /\ running.kind = "stopped"
  /\ marked' = marked \ {id}
  /\ list' = Removed(list, id)
  /\ UNCHANGED <<now, flag, quit, tpc, running, sleep, wake, spc>>

\* ne_doip_vehicle_announce_interval_timer_callback: the last announcement.
EndInterval ==
  /\ tpc = "callback" /\ running.kind = "interval"
  /\ running' = [running EXCEPT !.kind = "wait"]
  /\ marked' = marked \ {running.id}
  /\ list' = Removed(list, running.id)
  /\ UNCHANGED <<now, flag, quit, tpc, sleep, wake, spc>>

\* An announcement starts interval timers; the lock is held all the while.
StartInterval(period) ==
  /\ tpc = "callback" /\ running.kind \in {"wait", "interval"}
  /\ now + period <= Horizon
  /\ LET t == Timer(NextId(marked), now + period, period, "interval")
     IN  /\ t.id # 0
         /\ marked' = marked \cup {t.id}
         /\ list' = Added(list, t)
         /\ Notify(Notifies(list, t))
  /\ UNCHANGED <<now, quit, running, sleep, wake, spc>>

\* The callback is over; a timer that iterates goes on, a period after its last
\* deadline.
Again(t) == [t EXCEPT !.due = @ + t.period]

Return ==
  /\ tpc = "callback" /\ running.kind # "once"
  /\ IF running.kind = "interval"
     THEN /\ Again(running).due <= Horizon
          /\ list' = Added(list, Again(running))
          /\ flag' = (flag \/ Notifies(list, Again(running)))
     ELSE UNCHANGED <<list, flag>>
  /\ running' = Nobody /\ sleep' = Never /\ tpc' = "scan"
  /\ UNCHANGED <<now, marked, quit, wake, spc>>

EndScan ==
  /\ tpc = "scan"
  /\ list # <<>> => ~Expired(list[1])
  /\ sleep' = IF list = <<>> THEN Never ELSE list[1].due - now
  /\ tpc' = "check"
  /\ UNCHANGED <<now, list, marked, flag, quit, wake, spc, running>>

-----------------------------------------------------------------------------
\* ne_doip_destroy_timer_manager: the thread is told to end and joined, then
\* the timers are freed.  No other thread uses the manager any more.
Quit ==
  /\ ~quit /\ \A s \in Starters : spc[s].at = "idle"
  /\ quit' = TRUE
  /\ tpc' = IF tpc = "waiting" THEN "woken" ELSE tpc
  /\ UNCHANGED <<now, list, marked, flag, running, sleep, wake, spc>>

FreeTimers ==
  /\ quit /\ tpc = "ended" /\ list # <<>>
  /\ list' = <<>>
  /\ UNCHANGED <<now, marked, flag, quit, tpc, running, sleep, wake, spc>>

Tick ==
  /\ now < Horizon
  /\ now' = now + 1
  /\ UNCHANGED <<list, marked, flag, quit, tpc, running, sleep, wake, spc>>

-----------------------------------------------------------------------------
TimerThread ==
  \/ TestFlag \/ Sleep \/ Timeout \/ ClearFlag \/ BeginScan
  \/ Fire \/ StopSelf \/ EndInterval \/ Return \/ EndScan

Callback ==
  \/ \E id \in Ids : StopOther(id)
  \/ \E p \in Periods : StartInterval(p)

User(s) ==
  \/ Start(s)
  \/ \E p \in Periods : \E k \in Kinds : PickId(s, p, k)
  \/ \E id \in Ids : Stop(s, id) \/ \E p \in Periods : Restart(s, id, p)

Next ==
  \/ TimerThread \/ Callback \/ SpuriousWakeup \/ Quit \/ FreeTimers \/ Tick
  \/ \E s \in Starters : User(s)

Spec == Init /\ [][Next]_vars

\* Time passes and the threads run; nobody has to start, stop or wake anything.
FairSpec ==
  Spec /\ WF_vars(TimerThread) /\ WF_vars(Tick) /\ \A s \in Starters : WF_vars(Start(s))
-----------------------------------------------------------------------------
(* Properties *)

TimerType ==
  [id : Ids, due : 0 .. Horizon, period : Periods,
   kind : {"once", "wait", "interval", "stopped"}]

\* The list is sorted by deadline.  The timer thread relies on it: it looks at
\* the first timer only, for what is due and for how long to sleep.
Sorted == \A i, j \in DOMAIN list : i < j => list[i].due <= list[j].due

\* The variables stay in their types.
TypeOK ==
  /\ now \in 0 .. Horizon /\ list \in Seq(TimerType) /\ marked \subseteq Ids
  /\ flag \in BOOLEAN /\ quit \in BOOLEAN
  /\ tpc \in {"check", "sleepy", "waiting", "woken", "awake", "scan", "callback", "ended"}
  /\ running \in TimerType \cup {Nobody} /\ (running # Nobody <=> tpc = "callback")
  /\ sleep \in Int /\ wake \in Int
  /\ \A s \in Starters : spc[s].at \in {"idle", "add"}
  /\ Sorted

\* Timers have ids of their own, which are marked, so that stop and restart
\* concern the timer they name; the interval timer whose callback runs comes
\* back, and counts too.  No step ends this, unless an id was marked after a
\* starter had chosen it and before that starter took the lock.
OneIdPerTimer ==
  /\ \A i, j \in DOMAIN list : list[i].id = list[j].id => i = j
  /\ \A i \in DOMAIN list : list[i].id \in marked
  /\ running.kind = "interval" =>
       running.id \in marked /\ Find(list, running.id) = {}

Raced == \E s \in Starters : spc[s].at = "add" /\ spc[s].timer.id \in marked

OneIdUnlessRaced == [][OneIdPerTimer /\ ~Raced => OneIdPerTimer']_vars

\* The manager keeps the promise of Deadlines: no callback runs early, twice for
\* a deadline, or after its timer was stopped.
armedBar ==
  [p \in Ids \X (0 .. Horizon) |->
     Cardinality({i \in DOMAIN list : list[i].id = p[1] /\ list[i].due = p[2]})]

calledBar == IF running = Nobody THEN <<>> ELSE <<running.id, running.due>>

D == INSTANCE Deadlines WITH
  Deadline <- 0 .. Horizon, NoCall <- <<>>,
  armed <- armedBar, called <- calledBar, time <- now

ImplementsDeadlines == D!Spec

\* A timer that is due is taken out of the list in the end, unless the manager
\* is being destroyed.
Overdue == list # <<>> /\ list[1].due <= now /\ ~quit
TimersFire == Overdue ~> ~Overdue

\* The only way to miss a deadline for ever is a signal that was sent between
\* the test of m_bSignalflg and the wait: the thread then waits with the flag set.
MissesSignal == tpc = "waiting" /\ flag
FireUnlessMissed == Overdue ~> ~Overdue \/ MissesSignal
=============================================================================
