----------------------------- MODULE ThreadPool -----------------------------
(***************************************************************************)
(* The worker pool of ne_doip_threadpool.c.  Worker threads share one      *)
(* queue of tasks; a task carries a group id, tasks of one non-zero group  *)
(* run one at a time and in the order of their push, tasks of group 0 run  *)
(* independently.                                                          *)
(*                                                                         *)
(* queue->lock protects everything.  A step of the model is a stretch of   *)
(* code that runs with the lock held, or a part of one: a thread at "top"  *)
(* and a caller at "top" hold the lock, so the lock is free iff nobody is. *)
(***************************************************************************)
EXTENDS Integers, Sequences, FiniteSets

CONSTANTS
  Threads,        \* identities of worker threads, reused after an exit
  Tasks,          \* the tasks that the program may push, each once
  Id,             \* Id[k]: the group id of task k
  Stop,           \* the entry that ne_doip_threadpool_wakeup_stop pushes
  None,           \* "no task"
  MaxThreads,     \* max_threads of ne_doip_threadpool_new
  MaxQueue,       \* NE_DOIP_MAX_QUEUE_CNT, the bound on taskcount
  LoadBalance,    \* load_balance: idle threads end after idle_time
  CreateMayFail   \* may ne_doip_thread_create fail?

ASSUME ThreadsAssumption == IsFiniteSet(Threads)
ASSUME TasksAssumption == Id \in [Tasks -> Nat] /\ Stop \notin Tasks /\ None \notin Tasks
ASSUME LimitAssumption == MaxThreads \in Nat \ {0} /\ MaxQueue \in Nat
ASSUME FlagAssumption == LoadBalance \in BOOLEAN /\ CreateMayFail \in BOOLEAN

VARIABLES
  queue,            \* queue->queue, oldest entry first
  idlistrun,        \* queue->idlistrun: the group ids of running tasks
  waiting_thread,   \* queue->waiting_thread
  taskcount,        \* queue->taskcount
  num_threads,      \* pool->num_threads
  running,          \* pool->running
  immediate,        \* pool->immediate
  waiting,          \* pool->waiting
  freed,            \* how often the pool was freed
  pc,               \* where each worker thread is
  cur,              \* the task each worker runs
  caller,           \* where the caller of ne_doip_threadpool_free is
  pushed,           \* history: tasks that reached the queue
  refused,          \* history: tasks whose push returned -1
  done              \* history: tasks whose callback returned

shared == <<queue, idlistrun, waiting_thread, taskcount, num_threads>>
flags == <<running, immediate, waiting, freed>>
history == <<pushed, refused, done>>
vars == <<shared, flags, pc, cur, caller, history>>

-----------------------------------------------------------------------------

Entries == Tasks \cup {Stop}

IdOf(e) == IF e = Stop THEN 0 ELSE Id[e]

Groups == {Id[k] : k \in Tasks} \cup {0}

Occupied(u) == pc[u] # "none"
Blocked == {u \in Threads : pc[u] = "wait"}

LockFree == caller # "top" /\ \A u \in Threads : pc[u] # "top"

\* ne_doip_queue_gr_length_unlock: a group counts once, a task of group 0
\* counts for itself, and threads in pop_in_unlock count negatively.
GrLength(q, idle) ==
  LET loose  == {i \in DOMAIN q : IdOf(q[i]) = 0}
      groups == {IdOf(q[i]) : i \in DOMAIN q} \ {0}
  IN  Cardinality(loose) + Cardinality(groups) - idle

\* ne_doip_queue_id_in_pool
IdInPool(id) ==
  /\ id # 0
  /\ id \in idlistrun \/ \E i \in DOMAIN queue : IdOf(queue[i]) = id

\* ne_doip_queue_valid_task: the oldest entry whose group is not running.
Queued(i) == i \in DOMAIN queue
Valid(i) == i \in DOMAIN queue /\ IdOf(queue[i]) \notin idlistrun
NewestValid(i) == Valid(i) /\ \A j \in i + 1 .. Len(queue) : ~Valid(j)
IsValidTask(i) == Valid(i) /\ \A j \in 1 .. i - 1 : ~Valid(j)
HasValidTask == \E i \in DOMAIN queue : Valid(i)

\* pthread_cond_signal on queue->cond wakes one blocked thread if there is one.
SignalTargets == IF Blocked = {} THEN {{}} ELSE {{u} : u \in Blocked}

Woken(S, f) == [u \in Threads |-> IF u \in S THEN "woken" ELSE f[u]]

\* ne_doip_list_remove on the popped entry
Dropped(i, q) == SubSeq(q, 1, i - 1) \o SubSeq(q, i + 1, Len(q))

-----------------------------------------------------------------------------
\* ne_doip_threadpool_new starts all the threads of a pool without load
\* balance (fewer if a creation fails) and none of a load-balanced one.
Init ==
  /\ \E S \in SUBSET Threads :
       /\ IF LoadBalance THEN S = {}
          ELSE /\ Cardinality(S) <= MaxThreads
               /\ CreateMayFail \/ Cardinality(S) = MaxThreads
       /\ pc = [u \in Threads |-> IF u \in S THEN "start" ELSE "none"]
       /\ num_threads = Cardinality(S)
  /\ queue = <<>> /\ idlistrun = {} /\ waiting_thread = 0 /\ taskcount = 0
  /\ running = TRUE /\ immediate = FALSE /\ waiting = FALSE /\ freed = 0
  /\ cur = [u \in Threads |-> None]
  /\ caller = "idle"
  /\ pushed = {} /\ refused = {} /\ done = {}

-----------------------------------------------------------------------------
\* ne_doip_threadpool_push

RoomForOneMore == num_threads <= MaxThreads
HasRoom == num_threads < MaxThreads

CanStart(k) == ~IdInPool(Id[k]) /\ GrLength(queue, waiting_thread) >= 0

\* A task whose group is running is left to the thread that runs the group.
NoSignal(k) == {{}}
PushSignals(k) ==
  IF Id[k] \in idlistrun \/ waiting_thread = 0 THEN {{}} ELSE SignalTargets

Enqueue(k, started) ==
  /\ queue' = Append(queue, k)
  /\ taskcount' = taskcount + 1
  /\ pushed' = pushed \cup {k}
  /\ \E S \in PushSignals(k) :
       pc' = Woken(S, [u \in Threads |-> IF u \in started THEN "start" ELSE pc[u]])

MayPush(k) ==
  /\ k \notin pushed \cup refused
  /\ running /\ LockFree

PushFull(k) ==
  /\ MayPush(k)
  /\ taskcount >= MaxQueue
  /\ refused' = refused \cup {k}
  /\ UNCHANGED <<shared, flags, pc, cur, caller, pushed, done>>

\* The pool starts another thread when no waiting thread is left for the task.
PushStart(k) ==
  /\ MayPush(k)
  /\ taskcount < MaxQueue
  /\ CanStart(k) /\ HasRoom
  /\ \E u \in Threads : ~Occupied(u) /\ Enqueue(k, {u})
  /\ num_threads' = num_threads + 1
  /\ UNCHANGED <<idlistrun, waiting_thread, flags, cur, caller, refused, done>>

PushOnly(k) ==
  /\ MayPush(k)
  /\ taskcount < MaxQueue
  /\ ~CanStart(k) \/ ~HasRoom
  /\ Enqueue(k, {})
  /\ UNCHANGED <<idlistrun, waiting_thread, num_threads, flags, cur, caller, refused, done>>

\* A failed creation makes the result -1; the task is queued all the same.
PushNoThread(k) ==
  /\ CreateMayFail
  /\ MayPush(k)
  /\ taskcount < MaxQueue
  /\ CanStart(k) /\ HasRoom
  /\ Enqueue(k, {})
  /\ refused' = refused \cup {k}
  /\ UNCHANGED <<idlistrun, waiting_thread, num_threads, flags, cur, caller, done>>

-----------------------------------------------------------------------------
\* ne_doip_thread_run

Goto(u, l) == pc' = [pc EXCEPT ![u] = l]

StartUnlocked(u) ==
  /\ pc[u] = "start"
  /\ Goto(u, "top")
  /\ UNCHANGED <<shared, flags, cur, caller, history>>

StartThread(u) ==
  /\ pc[u] = "start" /\ LockFree
  /\ Goto(u, "top")
  /\ UNCHANGED <<shared, flags, cur, caller, history>>

\* The first two tests of ne_doip_threadpool_wait_for_task.
MustExit ==
  \/ ~running /\ (immediate \/ GrLength(queue, waiting_thread) <= 0)
  \/ num_threads > MaxThreads

\* The thread holds the lock and has popped entry i: it runs the callback,
\* or drops the entry of a pool that is being shut down immediately.
Dispatch(u, i) ==
  /\ queue' = Dropped(i, queue)
  /\ IF running \/ ~immediate
     THEN /\ cur' = [cur EXCEPT ![u] = queue[i]]
          /\ idlistrun' = idlistrun \cup ({IdOf(queue[i])} \ {0})
          /\ Goto(u, "run")
          /\ UNCHANGED taskcount
     ELSE /\ taskcount' = taskcount - 1
          /\ Goto(u, "top")
          /\ UNCHANGED <<cur, idlistrun>>

TakeTask(u) ==
  /\ pc[u] = "top" /\ ~MustExit
  /\ \E i \in DOMAIN queue : IsValidTask(i) /\ Dispatch(u, i)
  /\ UNCHANGED <<waiting_thread, num_threads, flags, caller, history>>

BlockOnQueue(u) ==
  /\ pc[u] = "top" /\ ~MustExit /\ ~HasValidTask
  /\ waiting_thread' = waiting_thread + 1
  /\ Goto(u, "wait")
  /\ UNCHANGED <<queue, idlistrun, taskcount, num_threads, flags, cur, caller, history>>

\* pthread_cond_wait may return without a signal.
SpuriousWakeup(u) ==
  /\ pc[u] = "wait"
  /\ Goto(u, "woken")
  /\ UNCHANGED <<shared, flags, cur, caller, history>>

AfterWait == waiting_thread - 1

WakeupTake(u) ==
  /\ pc[u] = "woken" /\ LockFree
  /\ \E i \in DOMAIN queue : IsValidTask(i) /\ Dispatch(u, i)
  /\ waiting_thread' = AfterWait
  /\ UNCHANGED <<num_threads, flags, caller, history>>

WakeupNothing(u) ==
  /\ pc[u] = "woken" /\ LockFree /\ ~HasValidTask
  /\ Goto(u, "wait")
  /\ UNCHANGED <<shared, flags, cur, caller, history>>

\* pthread_cond_timedwait of a load-balanced pool gives up after idle_time;
\* a signal sent from here on does not reach the thread.
IdleTimeout(u) ==
  /\ LoadBalance
  /\ pc[u] = "wait"
  /\ Goto(u, "timedout")
  /\ UNCHANGED <<shared, flags, cur, caller, history>>

\* In a shutdown a blocked thread may be needed for the next task of the group.
FinishQuietly(u) == {{}}
FinishSignals(u) == IF IdOf(cur[u]) # 0 /\ ~running THEN SignalTargets ELSE {{}}

Finish(u) ==
  /\ pc[u] = "run" /\ LockFree
  /\ idlistrun' = idlistrun \ {IdOf(cur[u])}
  /\ taskcount' = taskcount - 1
  /\ done' = done \cup {cur[u]}
  /\ cur' = [cur EXCEPT ![u] = None]
  /\ \E S \in FinishSignals(u) :
       pc' = Woken(S, [pc EXCEPT ![u] = "top"])
  /\ UNCHANGED <<queue, waiting_thread, num_threads, flags, caller, pushed, refused>>

\* ne_doip_threadpool_wakeup_stop for the n threads of the pool; the thread that
\* calls it, if one does, ends.  n signals wake up to n blocked threads.
NoEntries(n) == <<>>
StopEntries(n) == [i \in 1 .. n |-> Stop]

WakeupStop(n, exiting) ==
  /\ immediate' = TRUE
  /\ queue' = queue \o StopEntries(n)
  /\ \E S \in SUBSET Blocked :
       /\ Cardinality(S) = n \/ (Cardinality(S) < n /\ S = Blocked)
       /\ pc' = Woken(S, [u \in Threads |-> IF u \in exiting THEN "none" ELSE pc[u]])

\* The last thread of a pool frees it, unless the caller waits to do it.
FreesAnyway(left) == ~running /\ left = 0
Frees(left) == ~running /\ ~waiting /\ left = 0

\* An exiting thread tells a waiting caller when no work is left to hand out.
Notified(length) ==
  IF ~running /\ waiting /\ (immediate \/ length <= 0) /\ caller = "cwait"
  THEN "cwoken" ELSE caller

\* The end of ne_doip_thread_run, with idle threads counted as waiting.
Exit(u, idle) ==
  LET left == num_threads - 1
      length == GrLength(queue, idle)
  IN  /\ num_threads' = left
      /\ waiting_thread' = idle
      /\ IF ~running /\ ~waiting /\ left # 0 /\ length = -left
         THEN WakeupStop(left, {u})
         ELSE /\ Goto(u, IF Frees(left) THEN "free" ELSE "none")
              /\ UNCHANGED <<queue, immediate>>
      /\ caller' = Notified(length)
      /\ UNCHANGED <<idlistrun, taskcount, running, waiting, freed, cur, history>>

ExitTop(u) == pc[u] = "top" /\ MustExit /\ Exit(u, waiting_thread)

\* After a timeout pop_in_unlock does not look at the queue again.
ExitIdle(u) == pc[u] = "timedout" /\ LockFree /\ Exit(u, AfterWait)

\* ne_doip_threadpool_in_free, called without the lock.
InFree ==
  IF running \/ num_threads > 0 THEN UNCHANGED freed ELSE freed' = freed + 1

FreeByThread(u) ==
  /\ pc[u] = "free"
  /\ InFree
  /\ Goto(u, "none")
  /\ UNCHANGED <<shared, running, immediate, waiting, cur, caller, history>>

-----------------------------------------------------------------------------
\* ne_doip_threadpool_free(pool, imm, wait).  The program calls it once, when
\* the threads that push have ended (ne_doip_server_deinit).

Drained == GrLength(queue, waiting_thread) = -num_threads

FreeCall(imm, wait) ==
  /\ caller = "idle" /\ running /\ LockFree
  /\ running' = FALSE /\ immediate' = imm /\ waiting' = wait
  /\ caller' = "top"
  /\ UNCHANGED <<shared, freed, pc, cur, history>>

FreeMustWait == waiting /\ ~Drained /\ ~(immediate /\ num_threads = 0)

FreeWait ==
  /\ caller = "top" /\ FreeMustWait
  /\ caller' = "cwait"
  /\ UNCHANGED <<shared, flags, pc, cur, history>>

FreeWakeup ==
  /\ caller = "cwoken" /\ LockFree
  /\ caller' = "top"
  /\ UNCHANGED <<shared, flags, pc, cur, history>>

FreeSpurious ==
  /\ caller = "cwait"
  /\ caller' = "cwoken"
  /\ UNCHANGED <<shared, flags, pc, cur, history>>

\* No thread is left: the caller frees the pool itself.
FreeEmpty ==
  /\ caller = "top" /\ ~FreeMustWait
  /\ immediate \/ Drained
  /\ num_threads = 0
  /\ caller' = "free"
  /\ UNCHANGED <<shared, flags, pc, cur, history>>

FreeStop ==
  /\ caller = "top" /\ ~FreeMustWait
  /\ immediate \/ Drained
  /\ num_threads # 0
  /\ WakeupStop(num_threads, {})
  /\ waiting' = FALSE
  /\ caller' = "done"
  /\ UNCHANGED <<idlistrun, waiting_thread, taskcount, num_threads, running, freed, cur, history>>

FreeLater ==
  /\ caller = "top" /\ ~FreeMustWait
  /\ ~immediate /\ ~Drained
  /\ waiting' = FALSE
  /\ caller' = "done"
  /\ UNCHANGED <<shared, running, immediate, freed, pc, cur, history>>

FreeByCaller ==
  /\ caller = "free"
  /\ InFree
  /\ caller' = "done"
  /\ UNCHANGED <<shared, running, immediate, waiting, pc, cur, history>>

-----------------------------------------------------------------------------

Push(k) == PushFull(k) \/ PushStart(k) \/ PushOnly(k) \/ PushNoThread(k)

Work(u) ==
  \/ StartThread(u) \/ TakeTask(u) \/ BlockOnQueue(u)
  \/ WakeupTake(u) \/ WakeupNothing(u) \/ Finish(u)
  \/ ExitTop(u) \/ ExitIdle(u) \/ FreeByThread(u)

CallFree == \E imm, wait \in BOOLEAN : FreeCall(imm, wait)

FreeSteps == FreeWait \/ FreeWakeup \/ FreeEmpty \/ FreeStop \/ FreeLater \/ FreeByCaller

Next ==
  \/ \E k \in Tasks : Push(k)
  \/ \E u \in Threads : Work(u) \/ SpuriousWakeup(u) \/ IdleTimeout(u)
  \/ CallFree \/ FreeSteps \/ FreeSpurious

Spec == Init /\ [][Next]_vars

\* Threads that can run do run, callbacks return, and a thread that finds the
\* lock free again and again gets it.  Nobody has to push or to free the pool,
\* and no timeout or spurious wakeup has to happen.
Fairness == SF_vars(FreeSteps) /\ \A u \in Threads : SF_vars(Work(u))

FairSpec == Spec /\ Fairness
-----------------------------------------------------------------------------
(* Properties *)

PC == {"none", "start", "top", "wait", "woken", "timedout", "run", "free"}

\* The variables stay in their types, a thread has a task iff it runs one, and
\* the lock has one holder.
TypeOK ==
  /\ queue \in Seq(Entries)
  /\ idlistrun \subseteq Nat
  /\ waiting_thread \in Int /\ taskcount \in Int /\ num_threads \in Int
  /\ running \in BOOLEAN /\ immediate \in BOOLEAN /\ waiting \in BOOLEAN
  /\ freed \in Nat
  /\ pc \in [Threads -> PC]
  /\ cur \in [Threads -> Tasks \cup {None}]
  /\ caller \in {"idle", "top", "cwait", "cwoken", "free", "done"}
  /\ pushed \subseteq Tasks /\ refused \subseteq Tasks
  /\ done \subseteq Tasks
  /\ \A u \in Threads : pc[u] = "run" <=> cur[u] # None
  /\ \A u \in Threads : pc[u] = "top" => caller # "top" /\ \A v \in Threads : pc[v] = "top" => v = u

Running(u) == pc[u] = "run"

\* Two threads never run tasks of the same non-zero group: the chunks of one
\* large diagnostic message, which share an id, are handled one at a time.
GroupExclusion ==
  \A u, v \in Threads :
    u # v /\ Running(u) /\ Running(v) /\ IdOf(cur[u]) # 0 => IdOf(cur[u]) # IdOf(cur[v])

\* idlistrun is exactly the set of groups whose task a thread runs, although
\* it is set before the callback and cleared after it, under another lock hold.
IdListAccurate == idlistrun = {IdOf(cur[u]) : u \in {v \in Threads : Running(v)}} \ {0}

Live == {u \in Threads : pc[u] \notin {"none", "free"}}
Idle == {u \in Threads : pc[u] \in {"wait", "woken", "timedout"}}

\* The pool's counters, changed far from where threads block and end, are
\* exact, and the pool never has more than max_threads threads.
CountersExact ==
  /\ num_threads = Cardinality(Live)
  /\ num_threads <= MaxThreads
  /\ waiting_thread = Cardinality(Idle)

\* The test by which free and the exiting threads recognise that all the work
\* is done, gr_length = -num_threads, is true exactly when the queue is empty
\* and every thread waits.
DrainedMeansIdle == Drained <=> queue = <<>> /\ Idle = Live

\* The pool is freed at most once, by its last thread or by the caller, and
\* nobody uses it afterwards; a free that waits and is not immediate (the one
\* ne_doip_server_manager makes) does not come so far before every pushed task
\* was run.
FreedOnce ==
  /\ freed <= 1
  /\ caller \in {"done", "free"} /\ waiting /\ ~immediate => pushed \subseteq done
  /\ freed = 1 => Live = {} /\ caller \in {"idle", "done"} /\ waiting_thread = 0
  /\ Cardinality({u \in Threads : pc[u] = "free"}) + (IF caller = "free" THEN 1 ELSE 0) + freed <= 1

\* No task is lost or run twice: what was pushed is queued once, runs in one
\* thread, is done, or was dropped by an immediate shutdown.
NoTaskLost ==
  \A k \in pushed :
    LET places == Cardinality({i \in DOMAIN queue : queue[i] = k})
                  + Cardinality({u \in Threads : cur[u] = k})
                  + (IF k \in done THEN 1 ELSE 0)
    IN  IF immediate /\ ~running THEN places <= 1 ELSE places = 1

\* While a task could run and a thread is blocked in the queue, some thread
\* has been woken or is on its way to the queue.  An immediate shutdown is
\* excepted: its threads end without a look at the queue.
NoIdleWhileRunnable ==
  HasValidTask /\ Blocked # {} /\ (running \/ ~immediate) =>
    \E u \in Threads : pc[u] \in {"start", "top", "woken", "timedout"}

\* The work of the pool is accounted for: no task is lost, none waits beside an idle
\* thread, and the end of all work is recognised when it has come and not before
\* (ne_doip_threadpool_push, queue_get, free).
WorkAccounted == NoTaskLost /\ NoIdleWhileRunnable /\ DrainedMeansIdle

\* What ne_doip_threadpool.h says of push: the task is to be executed by the
\* pool.  Every task pushed before a shutdown is run eventually.
PushedIsRun == \A k \in Tasks : (k \in pushed /\ running) ~> (k \in done \/ immediate)

\* ne_doip_threadpool_free returns, and the pool's memory is freed in the end,
\* unless the caller wants both an immediate shutdown and to wait for it.
PoolIsFreed ==
  /\ (caller # "idle" /\ ~(immediate /\ waiting)) ~> (caller = "done")
  /\ (~running /\ ~(immediate /\ waiting)) ~> (freed = 1)

\* "Frees all resources allocated for pool" (ne_doip_threadpool.h): whatever its
\* two flags are, ne_doip_threadpool_free returns.
FreeReturns == (caller # "idle") ~> (caller = "done")

\* What waits to be run, nothing any more once the shutdown is immediate, and
\* what runs.
Backlog == IF immediate THEN <<>> ELSE queue
Executing == {cur[u] : u \in Threads} \ {None}

\* The pool implements the executor that its header promises.
Executor == INSTANCE TaskExecutor WITH
  Workers <- MaxThreads,
  Capacity <- MaxQueue,
  pending <- Backlog,
  executing <- Executing,
  finished <- done,
  open <- running,
  dropping <- immediate
ImplementsExecutor == Executor!Spec
=============================================================================
