-------------------------- MODULE ThreadPoolProofs --------------------------
(* Theorems about ThreadPool, for every set of threads, tasks and groups. *)
EXTENDS ThreadPool, Lemmas

\* Stop entries are in the queue only while the pool shuts down immediately,
\* so a thread never hands one to the callback.
StopsOnlyAtShutdown ==
  /\ running \/ ~immediate => queue \in Seq(Tasks)
  /\ running => caller = "idle"

TypeInv == TypeOK /\ StopsOnlyAtShutdown

-----------------------------------------------------------------------------
\* What ne_doip_list_remove leaves of a queue are entries of the queue.
LEMMA DroppedType ==
  ASSUME NEW S, NEW q \in Seq(S), NEW i \in DOMAIN q
  PROVE  Dropped(i, q) \in Seq(S)
<1>1. i \in 1 .. Len(q) /\ Len(q) \in Nat
  BY LenProperties
<1>2. SubSeq(q, 1, i - 1) \in Seq(S)
  <2>1. \A j \in 1 .. i - 1 : q[j] \in S
    BY <1>1, ElementOfSeq
  <2>2. QED BY <1>1, <2>1, SubSeqProperties
<1>3. SubSeq(q, i + 1, Len(q)) \in Seq(S)
  <2>1. \A j \in i + 1 .. Len(q) : q[j] \in S
    BY <1>1, ElementOfSeq
  <2>2. QED BY <1>1, <2>1, SubSeqProperties
<1>4. QED
  BY <1>2, <1>3, ConcatProperties DEF Dropped

\* The stop tasks are entries, however many there are.
LEMMA StopEntriesType ==
  ASSUME NEW n \in Int
  PROVE  StopEntries(n) \in Seq(Entries)
<1>1. CASE n \in Nat
  BY <1>1 DEF StopEntries, Entries
<1>2. CASE n \notin Nat
  <2>1. 1 .. n = 1 .. 0
    BY <1>2
  <2>2. QED
    BY <2>1, 0 \in Nat DEF StopEntries, Entries
<1>3. QED BY <1>1, <1>2

\* Waking blocked threads keeps the program counters in their type and moves
\* no thread to or from the places where it holds the lock or a task.
LEMMA WokenType ==
  ASSUME NEW f \in [Threads -> PC], NEW S \in SUBSET Threads,
         \A u \in S : f[u] = "wait"
  PROVE  /\ Woken(S, f) \in [Threads -> PC]
         /\ \A u \in Threads : \A l \in PC \ {"wait", "woken"} :
              Woken(S, f)[u] = l <=> f[u] = l
BY DEF Woken, PC

\* A signal reaches blocked threads only.
LEMMA SignalTargetsBlocked ==
  ASSUME NEW S \in SignalTargets
  PROVE  S \in SUBSET Blocked
BY DEF SignalTargets

\* The queue operations of the actions keep the type of the queue.
LEMMA QueueTypes ==
  ASSUME TypeInv
  PROVE  /\ \A i \in DOMAIN queue : Dropped(i, queue) \in Seq(Entries)
         /\ queue \in Seq(Tasks) =>
              \A i \in DOMAIN queue : queue[i] \in Tasks /\ Dropped(i, queue) \in Seq(Tasks)
         /\ \A i \in DOMAIN queue : queue[i] \in Entries
         /\ \A k \in Tasks : /\ Append(queue, k) \in Seq(Entries)
                             /\ queue \in Seq(Tasks) => Append(queue, k) \in Seq(Tasks)
         /\ \A n \in Int : queue \o StopEntries(n) \in Seq(Entries)
<1>1. queue \in Seq(Entries)
  BY DEF TypeInv, TypeOK
<1>2. \A i \in DOMAIN queue : Dropped(i, queue) \in Seq(Entries) /\ queue[i] \in Entries
  BY <1>1, DroppedType, ElementOfSeq, LenProperties
<1>3. queue \in Seq(Tasks) =>
        \A i \in DOMAIN queue : queue[i] \in Tasks /\ Dropped(i, queue) \in Seq(Tasks)
  BY DroppedType, ElementOfSeq, LenProperties
<1>4. \A k \in Tasks : /\ Append(queue, k) \in Seq(Entries)
                       /\ queue \in Seq(Tasks) => Append(queue, k) \in Seq(Tasks)
  BY <1>1 DEF Entries
<1>5. \A n \in Int : queue \o StopEntries(n) \in Seq(Entries)
  BY <1>1, StopEntriesType, ConcatProperties
<1>6. QED BY <1>2, <1>3, <1>4, <1>5

\* A new pool is well typed.
LEMMA TypeInvInit == Init => TypeInv
<1> SUFFICES ASSUME Init PROVE TypeInv
  OBVIOUS
<1>1. PICK S \in SUBSET Threads :
        /\ pc = [u \in Threads |-> IF u \in S THEN "start" ELSE "none"]
        /\ num_threads = Cardinality(S)
  BY DEF Init
<1>2. num_threads \in Int
  <2>1. IsFiniteSet(S)
    BY ThreadsAssumption, FS_Subset
  <2>2. QED BY <1>1, <2>1, FS_CardinalityType
<1>3. queue \in Seq(Entries) /\ queue \in Seq(Tasks)
  BY DEF Init
<1>4. /\ pc \in [Threads -> PC]
      /\ \A u \in Threads : pc[u] # "run" /\ pc[u] # "top"
  BY <1>1 DEF PC
<1>5. cur \in [Threads -> Tasks \cup {None}] /\ \A u \in Threads : cur[u] = None
  BY DEF Init
<1>6. /\ waiting_thread \in Int /\ taskcount \in Int /\ freed \in Nat
      /\ idlistrun \subseteq Nat
      /\ pushed \subseteq Tasks /\ refused \subseteq Tasks /\ done \subseteq Tasks
  BY DEF Init
<1>7. running \in BOOLEAN /\ immediate \in BOOLEAN /\ waiting \in BOOLEAN
  BY DEF Init
<1>8. caller \in {"idle", "top", "cwait", "cwoken", "free", "done"}
  BY DEF Init
<1>9. QED
  <2>1. StopsOnlyAtShutdown
    BY <1>3 DEF Init, StopsOnlyAtShutdown
  <2>2. QED
    BY <2>1, <1>2, <1>3, <1>4, <1>5, <1>6, <1>7, <1>8 DEF TypeInv, TypeOK

\* A push keeps TypeInv whether or not it starts a thread.
LEMMA TypeInvPush ==
  ASSUME TypeInv, NEW k \in Tasks, Push(k)
  PROVE  TypeInv'
<1> USE DEF TypeInv
<1>0. LockFree /\ running
  BY DEF Push, PushFull, PushStart, PushOnly, PushNoThread, MayPush
<1>1. ASSUME NEW started \in SUBSET Threads, Enqueue(k, started),
             \A u \in started : pc[u] = "none"
      PROVE  /\ queue' \in Seq(Entries) /\ (queue \in Seq(Tasks) => queue' \in Seq(Tasks))
             /\ taskcount' \in Int /\ pushed' \subseteq Tasks
             /\ pc' \in [Threads -> PC]
             /\ \A u \in Threads : pc'[u] = "run" <=> pc[u] = "run"
             /\ \A u \in Threads : pc'[u] # "top"
  <2> DEFINE f == [u \in Threads |-> IF u \in started THEN "start" ELSE pc[u]]
  <2>1. PICK S \in PushSignals(k) : pc' = Woken(S, f)
    BY <1>1 DEF Enqueue
  <2>2. S \in SUBSET Threads /\ \A u \in S : pc[u] = "wait"
    BY <2>1, SignalTargetsBlocked DEF PushSignals, Blocked
  <2>3. f \in [Threads -> PC] /\ \A u \in S : f[u] = "wait"
    BY <1>1, <2>2 DEF TypeOK, PC
  <2>4. \A u \in Threads : pc'[u] = "run" <=> pc[u] = "run"
    BY <1>1, <2>1, <2>2, <2>3 DEF Woken, TypeOK
  <2>5. \A u \in Threads : pc'[u] # "top"
    BY <1>0, <2>1, <2>2, <2>3 DEF Woken, TypeOK, LockFree
  <2>6. pc' \in [Threads -> PC]
    BY <2>1, <2>2, <2>3, WokenType
  <2>7. queue' \in Seq(Entries) /\ (queue \in Seq(Tasks) => queue' \in Seq(Tasks))
    BY <1>1, QueueTypes DEF Enqueue
  <2>8. taskcount' \in Int /\ pushed' \subseteq Tasks
    BY <1>1 DEF Enqueue, TypeOK
  <2>9. QED
    BY <2>4, <2>5, <2>6, <2>7, <2>8
<1>2. CASE PushFull(k)
  BY <1>2 DEF PushFull, shared, flags, TypeOK, StopsOnlyAtShutdown
<1>3. CASE PushStart(k)
  <2>1. PICK u \in Threads : ~Occupied(u) /\ Enqueue(k, {u})
    BY <1>3 DEF PushStart
  <2>2. pc[u] = "none"
    BY <2>1 DEF Occupied
  <2>3. QED
    BY <1>0, <1>1, <1>3, <2>1, <2>2 DEF PushStart, flags, TypeOK, StopsOnlyAtShutdown
<1>4. CASE PushOnly(k)
  BY <1>0, <1>1, <1>4 DEF PushOnly, flags, TypeOK, StopsOnlyAtShutdown
<1>5. CASE PushNoThread(k)
  BY <1>0, <1>1, <1>5 DEF PushNoThread, flags, TypeOK, StopsOnlyAtShutdown
<1>6. QED
  BY <1>2, <1>3, <1>4, <1>5 DEF Push

\* Taking an entry from the queue, from the lock or out of a wait.
LEMMA TypeInvDispatch ==
  ASSUME TypeInv, NEW u \in Threads, NEW i \in DOMAIN queue, Dispatch(u, i),
         pc[u] \in {"top", "woken"}, \A v \in Threads : pc[v] = "top" => v = u,
         caller # "top",
         waiting_thread' \in Int,
         UNCHANGED <<num_threads, flags, caller, history>>
  PROVE  TypeInv'
<1> USE DEF TypeInv
<1>1. CASE running \/ ~immediate
  <2>1. queue[i] \in Tasks /\ queue' \in Seq(Entries) /\ queue' \in Seq(Tasks)
    BY <1>1, QueueTypes DEF StopsOnlyAtShutdown, Dispatch
  <2>2. IdOf(queue[i]) \in Nat /\ queue[i] # None
    BY <2>1, TasksAssumption DEF IdOf
  <2>3. QED
    BY <1>1, <2>1, <2>2 DEF Dispatch, Goto, flags, history, TypeOK, StopsOnlyAtShutdown, PC
<1>2. CASE ~running /\ immediate
  <2>1. queue' \in Seq(Entries)
    BY QueueTypes DEF Dispatch
  <2>2. UNCHANGED <<cur, idlistrun>> /\ taskcount' \in Int
    BY <1>2 DEF Dispatch, TypeOK
  <2>3. /\ pc' \in [Threads -> PC]
        /\ \A v \in Threads : pc'[v] = "run" <=> pc[v] = "run"
        /\ \A v \in Threads : pc'[v] = "top" => v = u
    BY <1>2 DEF Dispatch, Goto, TypeOK, PC
  <2>4. QED
    BY <1>2, <2>1, <2>2, <2>3 DEF flags, history, TypeOK, StopsOnlyAtShutdown
<1>3. QED BY <1>1, <1>2 DEF TypeOK

\* Leaving the pool, with or without the stop tasks for the other threads.
LEMMA TypeInvExit ==
  ASSUME TypeInv, NEW u \in Threads, NEW idle \in Int, Exit(u, idle),
         pc[u] \in {"top", "timedout"}, \A v \in Threads : pc[v] = "top" => v = u,
         caller # "top"
  PROVE  TypeInv'
<1> USE DEF TypeInv
<1>0. caller' \in {"idle", "cwait", "cwoken", "free", "done"}
  BY DEF Exit, Notified, TypeOK
<1>a. running => caller' = "idle"
  BY DEF Exit, Notified, StopsOnlyAtShutdown
<1>1. CASE WakeupStop(num_threads - 1, {u}) /\ ~running
  <2> DEFINE f == [v \in Threads |-> IF v \in {u} THEN "none" ELSE pc[v]]
  <2>1. PICK S \in SUBSET Blocked : pc' = Woken(S, f)
    BY <1>1 DEF WakeupStop
  <2>2. f \in [Threads -> PC] /\ S \in SUBSET Threads /\ \A v \in S : f[v] = "wait"
    BY <2>1 DEF TypeOK, PC, Blocked
  <2>3. pc' \in [Threads -> PC]
    BY <2>1, <2>2, WokenType
  <2>4. \A v \in Threads : pc'[v] = "run" <=> pc[v] = "run"
    BY <2>1, <2>2 DEF Woken, TypeOK
  <2>5. \A v \in Threads : pc'[v] # "top"
    BY <2>1, <2>2 DEF Woken, TypeOK
  <2>6. queue' \in Seq(Entries)
    BY <1>1, QueueTypes DEF WakeupStop, TypeOK
  <2>7. QED
    BY <1>0, <1>a, <1>1, <2>3, <2>4, <2>5, <2>6
       DEF Exit, WakeupStop, history, TypeOK, StopsOnlyAtShutdown
<1>2. CASE Goto(u, IF Frees(num_threads - 1) THEN "free" ELSE "none")
           /\ UNCHANGED <<queue, immediate>>
  <2>1. StopsOnlyAtShutdown'
    BY <1>a, <1>2 DEF Exit, StopsOnlyAtShutdown
  <2>2. TypeOK'
    BY <1>0, <1>2 DEF Exit, Goto, history, TypeOK, PC
  <2>3. QED BY <2>1, <2>2
<1>3. QED
  BY <1>1, <1>2 DEF Exit

\* Every step of a worker thread.
LEMMA TypeInvWork ==
  ASSUME TypeInv, NEW u \in Threads, Work(u) \/ SpuriousWakeup(u) \/ IdleTimeout(u)
  PROVE  TypeInv'
<1> USE DEF TypeInv
<1>1. LockFree => caller # "top" /\ \A v \in Threads : pc[v] # "top"
  BY DEF LockFree
<1>2. pc[u] = "top" => caller # "top" /\ \A v \in Threads : pc[v] = "top" => v = u
  BY DEF TypeOK
<1>3. AfterWait \in Int /\ waiting_thread \in Int
  BY DEF AfterWait, TypeOK
<1>4. CASE StartThread(u)
  BY <1>1, <1>4 DEF StartThread, Goto, shared, flags, history, TypeOK, StopsOnlyAtShutdown, PC
<1>5. CASE TakeTask(u)
  BY <1>2, <1>3, <1>5, TypeInvDispatch DEF TakeTask, flags, history
<1>6. CASE BlockOnQueue(u)
  BY <1>2, <1>6 DEF BlockOnQueue, Goto, flags, history, TypeOK, StopsOnlyAtShutdown, PC
<1>7. CASE WakeupTake(u)
  BY <1>1, <1>3, <1>7, TypeInvDispatch DEF WakeupTake, flags, history
<1>8. CASE WakeupNothing(u)
  BY <1>8 DEF WakeupNothing, Goto, shared, flags, history, TypeOK, StopsOnlyAtShutdown, PC
<1>9. CASE Finish(u)
  <2> DEFINE f == [pc EXCEPT ![u] = "top"]
  <2>1. PICK S \in FinishSignals(u) : pc' = Woken(S, f)
    BY <1>9 DEF Finish
  <2>2. S \in SUBSET Threads /\ \A v \in S : pc[v] = "wait"
    BY <2>1, SignalTargetsBlocked DEF FinishSignals, Blocked
  <2>3. pc[u] = "run" /\ LockFree
    BY <1>9 DEF Finish
  <2>4. f \in [Threads -> PC] /\ \A v \in S : f[v] = "wait"
    BY <2>2, <2>3 DEF TypeOK, PC
  <2>5. pc' \in [Threads -> PC]
    BY <2>1, <2>2, <2>4, WokenType
  <2>6. \A v \in Threads : pc'[v] = "run" <=> (pc[v] = "run" /\ v # u)
    BY <2>1, <2>2, <2>3, <2>4 DEF Woken, TypeOK
  <2>7. \A v \in Threads : pc'[v] = "top" => v = u
    BY <1>1, <2>1, <2>2, <2>3, <2>4 DEF Woken, TypeOK
  <2>8. cur[u] \in Tasks
    BY <2>3 DEF TypeOK
  <2>9. taskcount' \in Int /\ idlistrun' \subseteq Nat /\ done' \subseteq Tasks
    <3>1. /\ taskcount' = taskcount - 1 /\ done' = done \cup {cur[u]}
          /\ idlistrun' = idlistrun \ {IdOf(cur[u])}
      BY <1>9 DEF Finish
    <3>2. taskcount' \in Int
      BY <3>1 DEF TypeOK
    <3>3. idlistrun' \subseteq Nat
      BY <3>1 DEF TypeOK
    <3>4. done' \subseteq Tasks
      BY <2>8, <3>1 DEF TypeOK
    <3>5. QED BY <3>2, <3>3, <3>4
  <2>10. cur' \in [Threads -> Tasks \cup {None}]
         /\ \A v \in Threads : cur'[v] = IF v = u THEN None ELSE cur[v]
    BY <1>9 DEF Finish, TypeOK
  <2>11. UNCHANGED <<queue, waiting_thread, num_threads, flags, caller, pushed, refused>>
    BY <1>9 DEF Finish
  <2>12. /\ \A v \in Threads : pc'[v] = "run" <=> cur'[v] # None
         /\ caller' # "top"
    BY <1>1, <2>3, <2>6, <2>10, <2>11, TasksAssumption DEF TypeOK
  <2>13. QED
    BY <1>1, <2>3, <2>12, <2>5, <2>6, <2>7, <2>9, <2>10, <2>11
       DEF flags, TypeOK, StopsOnlyAtShutdown
<1>10. CASE ExitTop(u)
  BY <1>2, <1>3, <1>10, TypeInvExit DEF ExitTop
<1>11. CASE ExitIdle(u)
  BY <1>1, <1>3, <1>11, TypeInvExit DEF ExitIdle
<1>12. CASE FreeByThread(u)
  BY <1>12 DEF FreeByThread, InFree, Goto, shared, history, TypeOK, StopsOnlyAtShutdown, PC
<1>13. CASE SpuriousWakeup(u)
  BY <1>13 DEF SpuriousWakeup, Goto, shared, flags, history, TypeOK, StopsOnlyAtShutdown, PC
<1>14. CASE IdleTimeout(u)
  BY <1>14 DEF IdleTimeout, Goto, shared, flags, history, TypeOK, StopsOnlyAtShutdown, PC
<1>15. QED
  BY <1>4, <1>5, <1>6, <1>7, <1>8, <1>9, <1>10, <1>11, <1>12, <1>13, <1>14 DEF Work

\* Every step of the thread that frees the pool.
LEMMA TypeInvFree ==
  ASSUME TypeInv, CallFree \/ FreeSteps \/ FreeSpurious
  PROVE  TypeInv'
<1> USE DEF TypeInv
<1>1. CASE CallFree
  <2>1. PICK imm \in BOOLEAN, wait \in BOOLEAN : FreeCall(imm, wait)
    BY <1>1 DEF CallFree
  <2>2. queue \in Seq(Tasks) /\ \A v \in Threads : pc[v] # "top"
    BY <2>1 DEF FreeCall, LockFree, StopsOnlyAtShutdown
  <2>3. QED
    BY <2>1, <2>2 DEF FreeCall, shared, history, TypeOK, StopsOnlyAtShutdown
<1>2. CASE FreeWait
  BY <1>2 DEF FreeWait, shared, flags, history, TypeOK, StopsOnlyAtShutdown
<1>3. CASE FreeWakeup
  BY <1>3 DEF FreeWakeup, LockFree, shared, flags, history, TypeOK, StopsOnlyAtShutdown
<1>4. CASE FreeSpurious
  BY <1>4 DEF FreeSpurious, shared, flags, history, TypeOK, StopsOnlyAtShutdown
<1>5. CASE FreeEmpty
  BY <1>5 DEF FreeEmpty, shared, flags, history, TypeOK, StopsOnlyAtShutdown
<1>6. CASE FreeStop
  <2> DEFINE f == [v \in Threads |-> IF v \in {} THEN "none" ELSE pc[v]]
  <2>1. PICK S \in SUBSET Blocked : pc' = Woken(S, f)
    BY <1>6 DEF FreeStop, WakeupStop
  <2>2. f \in [Threads -> PC] /\ S \in SUBSET Threads /\ \A v \in S : f[v] = "wait"
    BY <2>1 DEF TypeOK, Blocked
  <2>3. pc' \in [Threads -> PC]
    BY <2>1, <2>2, WokenType
  <2>4. \A v \in Threads : (pc'[v] = "run" <=> pc[v] = "run") /\ (pc'[v] = "top" <=> pc[v] = "top")
    BY <2>1, <2>2 DEF Woken, TypeOK
  <2>5. queue' \in Seq(Entries)
    BY <1>6, QueueTypes DEF FreeStop, WakeupStop, TypeOK
  <2>6. caller = "top" /\ caller' = "done"
    BY <1>6 DEF FreeStop
  <2>7. ~running /\ UNCHANGED running /\ immediate' = TRUE
    BY <1>6, <2>6 DEF FreeStop, WakeupStop, StopsOnlyAtShutdown
  <2>8. StopsOnlyAtShutdown'
    BY <2>7 DEF StopsOnlyAtShutdown
  <2>9. UNCHANGED <<idlistrun, waiting_thread, taskcount, num_threads, running, freed, cur, history>>
        /\ waiting' = FALSE
    BY <1>6 DEF FreeStop
  <2>10. QED
    BY <2>3, <2>4, <2>5, <2>6, <2>7, <2>8, <2>9 DEF history, TypeOK
<1>7. CASE FreeLater
  BY <1>7 DEF FreeLater, shared, history, TypeOK, StopsOnlyAtShutdown
<1>8. CASE FreeByCaller
  BY <1>8 DEF FreeByCaller, InFree, shared, history, TypeOK, StopsOnlyAtShutdown
<1>9. QED
  BY <1>1, <1>2, <1>3, <1>4, <1>5, <1>6, <1>7, <1>8 DEF FreeSteps

\* Every step keeps TypeInv.
LEMMA TypeInvNext == TypeInv /\ [Next]_vars => TypeInv'
<1> SUFFICES ASSUME TypeInv, [Next]_vars PROVE TypeInv'
  OBVIOUS
<1>1. ASSUME NEW k \in Tasks, Push(k) PROVE TypeInv'
  BY <1>1, TypeInvPush
<1>2. ASSUME NEW u \in Threads, Work(u) \/ SpuriousWakeup(u) \/ IdleTimeout(u)
      PROVE  TypeInv'
  BY <1>2, TypeInvWork
<1>3. CASE CallFree \/ FreeSteps \/ FreeSpurious
  BY <1>3, TypeInvFree
<1>4. CASE UNCHANGED vars
  BY <1>4 DEF vars, shared, flags, history, TypeInv, TypeOK, StopsOnlyAtShutdown
<1>5. QED
  BY <1>1, <1>2, <1>3, <1>4 DEF Next

\* TypeInv is inductive.
LEMMA TypeInvariant == Spec => []TypeInv
<1>1. QED
  BY TypeInvInit, TypeInvNext, PTL DEF Spec

\* In every pool the variables keep their types, a thread has a task iff it
\* runs one, and the lock has one holder.
THEOREM TypeCorrect == Spec => []TypeOK
<1>1. TypeInv => TypeOK
  BY DEF TypeInv
<1>2. QED
  BY <1>1, TypeInvariant, PTL

-----------------------------------------------------------------------------
\* A running task's group is in idlistrun from its dispatch to its end.
Registered ==
  \A u \in Threads : Running(u) /\ IdOf(cur[u]) # 0 => IdOf(cur[u]) \in idlistrun

GroupInv == Registered /\ GroupExclusion

\* A step that takes no task and ends none keeps GroupInv.
LEMMA GroupInvUnchanged ==
  ASSUME TypeInv, TypeInv', GroupInv, UNCHANGED <<cur, idlistrun>>
  PROVE  GroupInv'
<1>1. \A v \in Threads : Running(v)' <=> Running(v)
  BY DEF TypeInv, TypeOK, Running
<1>2. QED
  BY <1>1 DEF GroupInv, Registered, GroupExclusion

\* A thread takes a task of a group that runs nowhere.
LEMMA GroupInvDispatch ==
  ASSUME TypeInv, TypeInv', GroupInv,
         NEW u \in Threads, NEW i \in DOMAIN queue, IsValidTask(i), Dispatch(u, i)
  PROVE  GroupInv'
<1>1. CASE running \/ ~immediate
  <2> DEFINE g == IdOf(queue[i])
  <2>1. g \notin idlistrun
    BY DEF IsValidTask, Valid
  <2>2. /\ idlistrun' = idlistrun \cup ({g} \ {0})
        /\ \A v \in Threads : cur'[v] = IF v = u THEN queue[i] ELSE cur[v]
    BY <1>1 DEF Dispatch, TypeInv, TypeOK
  <2>3. \A v \in Threads \ {u} : Running(v)' <=> Running(v)
    BY <2>2 DEF TypeInv, TypeOK, Running
  <2>4. IdOf(cur[u])' = g /\ \A v \in Threads \ {u} : IdOf(cur[v])' = IdOf(cur[v])
    BY <2>2 DEF IdOf
  <2>5. QED
    BY <2>1, <2>2, <2>3, <2>4 DEF GroupInv, Registered, GroupExclusion
<1>2. CASE ~running /\ immediate
  BY <1>2, GroupInvUnchanged DEF Dispatch
<1>3. QED
  BY <1>1, <1>2 DEF TypeInv, TypeOK

\* The group that Finish takes out of idlistrun runs in no other thread.
LEMMA GroupInvFinish ==
  ASSUME TypeInv, TypeInv', GroupInv, NEW u \in Threads, Finish(u)
  PROVE  GroupInv'
<1>1. /\ Running(u)
      /\ idlistrun' = idlistrun \ {IdOf(cur[u])}
      /\ \A v \in Threads : cur'[v] = IF v = u THEN None ELSE cur[v]
  BY DEF Finish, Running, TypeInv, TypeOK
<1>2. ~Running(u)' /\ \A v \in Threads \ {u} : Running(v)' <=> Running(v)
  BY <1>1 DEF TypeInv, TypeOK, Running
<1>3. \A v \in Threads \ {u} : IdOf(cur[v])' = IdOf(cur[v])
  BY <1>1 DEF IdOf
<1>4. QED
  BY <1>1, <1>2, <1>3 DEF GroupInv, Registered, GroupExclusion

\* Every step keeps GroupInv.
LEMMA GroupInvNext == TypeInv /\ TypeInv' /\ GroupInv /\ [Next]_vars => GroupInv'
<1> SUFFICES ASSUME TypeInv, TypeInv', GroupInv, [Next]_vars PROVE GroupInv'
  OBVIOUS
<1>1. ASSUME NEW k \in Tasks, Push(k) PROVE GroupInv'
  BY <1>1, GroupInvUnchanged
     DEF Push, PushFull, PushStart, PushOnly, PushNoThread, shared
<1>2. ASSUME NEW u \in Threads, Work(u) PROVE GroupInv'
  <2>1. CASE TakeTask(u)
    BY <2>1, GroupInvDispatch DEF TakeTask
  <2>2. CASE WakeupTake(u)
    BY <2>2, GroupInvDispatch DEF WakeupTake
  <2>3. CASE Finish(u)
    BY <2>3, GroupInvFinish
  <2>4. CASE StartThread(u) \/ BlockOnQueue(u) \/ WakeupNothing(u) \/ FreeByThread(u)
    BY <2>4, GroupInvUnchanged
       DEF StartThread, BlockOnQueue, WakeupNothing, FreeByThread, shared
  <2>5. CASE ExitTop(u) \/ ExitIdle(u)
    BY <2>5, GroupInvUnchanged DEF ExitTop, ExitIdle, Exit
  <2>6. QED
    BY <1>2, <2>1, <2>2, <2>3, <2>4, <2>5 DEF Work
<1>3. ASSUME NEW u \in Threads, SpuriousWakeup(u) \/ IdleTimeout(u) PROVE GroupInv'
  BY <1>3, GroupInvUnchanged DEF SpuriousWakeup, IdleTimeout, shared
<1>4. CASE CallFree \/ FreeSpurious
  BY <1>4, GroupInvUnchanged DEF CallFree, FreeCall, FreeSpurious, shared
<1>5. CASE FreeSteps
  BY <1>5, GroupInvUnchanged
     DEF FreeSteps, FreeWait, FreeWakeup, FreeEmpty, FreeStop, FreeLater, FreeByCaller, shared
<1>6. CASE UNCHANGED vars
  BY <1>6, GroupInvUnchanged DEF vars, shared
<1>7. QED
  BY <1>1, <1>2, <1>3, <1>4, <1>5, <1>6 DEF Next

\* Two threads never run tasks of the same non-zero group.
THEOREM GroupsExclude == Spec => []GroupExclusion
<1>1. Init => GroupInv
  BY TypeInvInit DEF Init, GroupInv, Registered, GroupExclusion, Running, TypeInv, TypeOK
<1>2. GroupInv => GroupExclusion
  BY DEF GroupInv
<1>3. QED
  BY <1>1, <1>2, GroupInvNext, TypeInvariant, PTL DEF Spec

-----------------------------------------------------------------------------
\* Where a thread has to be to be counted.
LivePC == PC \ {"none", "free"}
IdlePC == {"wait", "woken", "timedout"}

\* One thread that moves into or out of a set of threads changes its size by one.
LEMMA OneMoves ==
  ASSUME NEW S \in SUBSET Threads, NEW u \in Threads
  PROVE  /\ Cardinality(S) \in Nat
         /\ u \notin S => Cardinality(S \cup {u}) = Cardinality(S) + 1
         /\ u \in S => Cardinality(S \ {u}) = Cardinality(S) - 1
<1>1. IsFiniteSet(S)
  BY ThreadsAssumption, FS_Subset
<1>2. QED
  BY <1>1, FS_CardinalityType, FS_AddElement, FS_RemoveElement

\* The counters stay exact when u moves from pc[u] to pc'[u] and every other
\* thread is at most woken.
LEMMA CountersFollow ==
  ASSUME TypeInv, TypeInv', CountersExact, NEW u \in Threads,
         \A v \in Threads \ {u} : pc'[v] = pc[v] \/ (pc[v] = "wait" /\ pc'[v] = "woken"),
         num_threads' = num_threads + (IF pc'[u] \in LivePC THEN 1 ELSE 0)
                                    - (IF pc[u] \in LivePC THEN 1 ELSE 0),
         waiting_thread' = waiting_thread + (IF pc'[u] \in IdlePC THEN 1 ELSE 0)
                                          - (IF pc[u] \in IdlePC THEN 1 ELSE 0),
         num_threads' <= MaxThreads
  PROVE  CountersExact'
<1>0. pc \in [Threads -> PC] /\ pc' \in [Threads -> PC]
  BY DEF TypeInv, TypeOK
<1>1. Live' = IF pc'[u] \in LivePC THEN Live \cup {u} ELSE Live \ {u}
  BY <1>0 DEF Live, LivePC, PC
<1>2. Idle' = IF pc'[u] \in IdlePC THEN Idle \cup {u} ELSE Idle \ {u}
  BY <1>0 DEF Idle, IdlePC
<1>3. (u \in Live <=> pc[u] \in LivePC) /\ (u \in Idle <=> pc[u] \in IdlePC)
  BY <1>0 DEF Live, Idle, LivePC, IdlePC, PC
<1>4. Live \in SUBSET Threads /\ Idle \in SUBSET Threads
  BY DEF Live, Idle
<1>5. num_threads' = Cardinality(Live')
  <2>1. Cardinality(Live) = num_threads /\ num_threads \in Int
    BY DEF CountersExact, TypeInv, TypeOK
  <2>2. /\ pc[u] \in LivePC => Live \cup {u} = Live /\ Cardinality(Live \ {u}) = num_threads - 1
        /\ pc[u] \notin LivePC => Live \ {u} = Live /\ Cardinality(Live \cup {u}) = num_threads + 1
    BY <1>3, <1>4, <2>1, OneMoves
  <2>3. CASE pc'[u] \in LivePC
    <3>1. Live' = Live \cup {u}
      BY <1>1, <2>3
    <3>2. CASE pc[u] \in LivePC
      <4>1. Live' = Live
        BY <2>2, <3>1, <3>2
      <4>2. num_threads' = num_threads
        BY <2>1, <2>3, <3>2
      <4>3. QED BY <2>1, <4>1, <4>2
    <3>3. CASE pc[u] \notin LivePC
      BY <2>1, <2>2, <2>3, <3>1, <3>3
    <3>4. QED BY <3>2, <3>3
  <2>4. CASE pc'[u] \notin LivePC
    <3>1. Live' = Live \ {u}
      BY <1>1, <2>4
    <3>2. CASE pc[u] \in LivePC
      BY <2>1, <2>2, <2>4, <3>1, <3>2
    <3>3. CASE pc[u] \notin LivePC
      <4>1. Live' = Live
        BY <2>2, <3>1, <3>3
      <4>2. num_threads' = num_threads
        BY <2>1, <2>4, <3>3
      <4>3. QED BY <2>1, <4>1, <4>2
    <3>4. QED BY <3>2, <3>3
  <2>5. QED BY <2>3, <2>4
<1>6. waiting_thread' = Cardinality(Idle')
  <2>1. Cardinality(Idle) = waiting_thread /\ waiting_thread \in Int
    BY DEF CountersExact, TypeInv, TypeOK
  <2>2. /\ pc[u] \in IdlePC => Idle \cup {u} = Idle /\ Cardinality(Idle \ {u}) = waiting_thread - 1
        /\ pc[u] \notin IdlePC => Idle \ {u} = Idle /\ Cardinality(Idle \cup {u}) = waiting_thread + 1
    BY <1>3, <1>4, <2>1, OneMoves
  <2>3. CASE pc'[u] \in IdlePC
    <3>1. Idle' = Idle \cup {u}
      BY <1>2, <2>3
    <3>2. CASE pc[u] \in IdlePC
      <4>1. Idle' = Idle
        BY <2>2, <3>1, <3>2
      <4>2. waiting_thread' = waiting_thread
        BY <2>1, <2>3, <3>2
      <4>3. QED BY <2>1, <4>1, <4>2
    <3>3. CASE pc[u] \notin IdlePC
      BY <2>1, <2>2, <2>3, <3>1, <3>3
    <3>4. QED BY <3>2, <3>3
  <2>4. CASE pc'[u] \notin IdlePC
    <3>1. Idle' = Idle \ {u}
      BY <1>2, <2>4
    <3>2. CASE pc[u] \in IdlePC
      BY <2>1, <2>2, <2>4, <3>1, <3>2
    <3>3. CASE pc[u] \notin IdlePC
      <4>1. Idle' = Idle
        BY <2>2, <3>1, <3>3
      <4>2. waiting_thread' = waiting_thread
        BY <2>1, <2>4, <3>3
      <4>3. QED BY <2>1, <4>1, <4>2
    <3>4. QED BY <3>2, <3>3
  <2>5. QED BY <2>3, <2>4
<1>7. QED
  BY <1>5, <1>6 DEF CountersExact

\* Steps that move no thread leave the counters alone.
LEMMA CountersUnchanged ==
  ASSUME CountersExact, UNCHANGED <<pc, num_threads, waiting_thread>>
  PROVE  CountersExact'
BY DEF CountersExact, Live, Idle

\* Waking threads changes no counter.
LEMMA CountersSettled ==
  ASSUME CountersExact, TypeInv, TypeInv', UNCHANGED <<num_threads, waiting_thread>>,
         \A v \in Threads : pc'[v] = pc[v] \/ (pc[v] = "wait" /\ pc'[v] = "woken")
  PROVE  CountersExact'
<1>1. Live' = Live /\ Idle' = Idle
  BY DEF Live, Idle
<1>2. QED
  BY <1>1 DEF CountersExact

\* A push counts the thread it starts.
LEMMA CountersPush ==
  ASSUME TypeInv, TypeInv', CountersExact, NEW k \in Tasks, Push(k)
  PROVE  CountersExact'
<1>1. ASSUME NEW started \in SUBSET Threads, Enqueue(k, started)
      PROVE  \A v \in Threads \ started :
               pc'[v] = pc[v] \/ (pc[v] = "wait" /\ pc'[v] = "woken")
  <2> DEFINE f == [v \in Threads |-> IF v \in started THEN "start" ELSE pc[v]]
  <2>1. PICK S \in PushSignals(k) : pc' = Woken(S, f)
    BY <1>1 DEF Enqueue
  <2>2. \A v \in S : pc[v] = "wait"
    BY <2>1, SignalTargetsBlocked DEF PushSignals, Blocked
  <2>3. QED BY <2>1, <2>2 DEF Woken
<1>2. CASE PushFull(k)
  BY <1>2, CountersUnchanged DEF PushFull, shared
<1>3. CASE PushStart(k)
  <2>1. PICK u \in Threads : ~Occupied(u) /\ Enqueue(k, {u})
    BY <1>3 DEF PushStart
  <2>2. pc[u] = "none"
    BY <2>1 DEF Occupied
  <2>3. pc'[u] = "start"
    <3> DEFINE f == [v \in Threads |-> IF v \in {u} THEN "start" ELSE pc[v]]
    <3>1. PICK S \in PushSignals(k) : pc' = Woken(S, f)
      BY <2>1 DEF Enqueue
    <3>2. u \notin S
      BY <3>1, <2>2, SignalTargetsBlocked DEF PushSignals, Blocked
    <3>3. QED BY <3>1, <3>2 DEF Woken
  <2>4. \A v \in Threads \ {u} : pc'[v] = pc[v] \/ (pc[v] = "wait" /\ pc'[v] = "woken")
    BY <1>1, <2>1
  <2>5. /\ num_threads' = num_threads + 1 /\ waiting_thread' = waiting_thread
        /\ num_threads' <= MaxThreads
    BY <1>3, LimitAssumption DEF PushStart, HasRoom, TypeInv, TypeOK
  <2>6. /\ pc'[u] \in LivePC /\ pc'[u] \notin IdlePC
        /\ pc[u] \notin LivePC /\ pc[u] \notin IdlePC
    BY <2>2, <2>3 DEF LivePC, IdlePC, PC
  <2>7. /\ num_threads' = num_threads + (IF pc'[u] \in LivePC THEN 1 ELSE 0)
                                      - (IF pc[u] \in LivePC THEN 1 ELSE 0)
        /\ waiting_thread' = waiting_thread + (IF pc'[u] \in IdlePC THEN 1 ELSE 0)
                                            - (IF pc[u] \in IdlePC THEN 1 ELSE 0)
    BY <2>5, <2>6 DEF TypeInv, TypeOK
  <2>8. QED BY <2>4, <2>5, <2>7, CountersFollow
<1>4. CASE PushOnly(k) \/ PushNoThread(k)
  <2>1. \A v \in Threads : pc'[v] = pc[v] \/ (pc[v] = "wait" /\ pc'[v] = "woken")
    BY <1>1, <1>4 DEF PushOnly, PushNoThread
  <2>2. UNCHANGED <<num_threads, waiting_thread>>
    BY <1>4 DEF PushOnly, PushNoThread
  <2>3. QED BY <2>1, <2>2, CountersSettled
<1>5. QED
  BY <1>2, <1>3, <1>4 DEF Push

\* A worker's step counts the worker where it goes.
LEMMA CountersWork ==
  ASSUME TypeInv, TypeInv', CountersExact, NEW u \in Threads,
         Work(u) \/ SpuriousWakeup(u) \/ IdleTimeout(u)
  PROVE  CountersExact'
<1> USE DEF TypeInv
<1>0. /\ pc \in [Threads -> PC] /\ num_threads \in Int /\ waiting_thread \in Int
      /\ num_threads <= MaxThreads /\ MaxThreads \in Int
  BY LimitAssumption DEF TypeOK, CountersExact
<1>1. ASSUME NEW l \in PC, Goto(u, l)
      PROVE  pc'[u] = l /\ \A v \in Threads \ {u} : pc'[v] = pc[v]
  BY <1>0, <1>1 DEF Goto
<1>2. CASE StartThread(u) \/ WakeupNothing(u) \/ SpuriousWakeup(u) \/ IdleTimeout(u) \/ FreeByThread(u)
  <2>1. UNCHANGED <<num_threads, waiting_thread>>
    BY <1>2 DEF StartThread, WakeupNothing, SpuriousWakeup, IdleTimeout, FreeByThread, shared
  <2>2. /\ pc[u] \in LivePC <=> pc'[u] \in LivePC
        /\ pc[u] \in IdlePC <=> pc'[u] \in IdlePC
        /\ \A v \in Threads \ {u} : pc'[v] = pc[v]
    BY <1>0, <1>1, <1>2
       DEF StartThread, WakeupNothing, SpuriousWakeup, IdleTimeout, FreeByThread, Goto,
           LivePC, IdlePC, PC
  <2>3. QED BY <1>0, <2>1, <2>2, CountersFollow
<1>3. ASSUME NEW i \in DOMAIN queue, Dispatch(u, i)
      PROVE  pc'[u] \in {"run", "top"} /\ \A v \in Threads \ {u} : pc'[v] = pc[v]
  BY <1>0, <1>3 DEF Dispatch, Goto
<1>4. CASE TakeTask(u)
  <2>1. pc[u] = "top" /\ UNCHANGED <<num_threads, waiting_thread>>
    BY <1>4 DEF TakeTask
  <2>2. pc'[u] \in {"run", "top"} /\ \A v \in Threads \ {u} : pc'[v] = pc[v]
    BY <1>3, <1>4 DEF TakeTask
  <2>3. QED
    BY <1>0, <2>1, <2>2, CountersFollow DEF LivePC, IdlePC, PC
<1>5. CASE WakeupTake(u)
  <2>1. pc[u] = "woken" /\ num_threads' = num_threads /\ waiting_thread' = waiting_thread - 1
    BY <1>5 DEF WakeupTake, AfterWait
  <2>2. pc'[u] \in {"run", "top"} /\ \A v \in Threads \ {u} : pc'[v] = pc[v]
    BY <1>3, <1>5 DEF WakeupTake
  <2>3. QED
    BY <1>0, <2>1, <2>2, CountersFollow DEF LivePC, IdlePC, PC
<1>6. CASE BlockOnQueue(u)
  <2>1. pc[u] = "top" /\ num_threads' = num_threads /\ waiting_thread' = waiting_thread + 1
    BY <1>6 DEF BlockOnQueue
  <2>2. pc'[u] = "wait" /\ \A v \in Threads \ {u} : pc'[v] = pc[v]
    BY <1>0, <1>6 DEF BlockOnQueue, Goto
  <2>3. QED
    BY <1>0, <2>1, <2>2, CountersFollow DEF LivePC, IdlePC, PC
<1>7. CASE Finish(u)
  <2> DEFINE f == [pc EXCEPT ![u] = "top"]
  <2>1. PICK S \in FinishSignals(u) : pc' = Woken(S, f)
    BY <1>7 DEF Finish
  <2>2. \A v \in S : pc[v] = "wait"
    BY <2>1, SignalTargetsBlocked DEF FinishSignals, Blocked
  <2>3. pc[u] = "run" /\ UNCHANGED <<num_threads, waiting_thread>>
    BY <1>7 DEF Finish
  <2>4. /\ pc'[u] = "top"
        /\ \A v \in Threads \ {u} : pc'[v] = pc[v] \/ (pc[v] = "wait" /\ pc'[v] = "woken")
    BY <1>0, <2>1, <2>2, <2>3 DEF Woken
  <2>5. QED
    BY <1>0, <2>3, <2>4, CountersFollow DEF LivePC, IdlePC, PC
<1>8. CASE ExitTop(u) \/ ExitIdle(u)
  <2>1. PICK idle \in Int :
          /\ Exit(u, idle)
          /\ \/ pc[u] = "top" /\ idle = waiting_thread
             \/ pc[u] = "timedout" /\ idle = waiting_thread - 1
    BY <1>0, <1>8 DEF ExitTop, ExitIdle, AfterWait
  <2>2. /\ pc'[u] \in {"none", "free"}
        /\ \A v \in Threads \ {u} : pc'[v] = pc[v] \/ (pc[v] = "wait" /\ pc'[v] = "woken")
    <3> DEFINE f == [v \in Threads |-> IF v \in {u} THEN "none" ELSE pc[v]]
    <3>1. CASE WakeupStop(num_threads - 1, {u})
      <4>1. PICK S \in SUBSET Blocked : pc' = Woken(S, f)
        BY <3>1 DEF WakeupStop
      <4>2. \A v \in S : pc[v] = "wait"
        BY <4>1 DEF Blocked
      <4>3. QED BY <2>1, <4>1, <4>2 DEF Woken
    <3>2. CASE Goto(u, IF Frees(num_threads - 1) THEN "free" ELSE "none")
      BY <1>0, <3>2 DEF Goto
    <3>3. QED BY <2>1, <3>1, <3>2 DEF Exit
  <2>3. num_threads' = num_threads - 1 /\ waiting_thread' = idle
    BY <2>1 DEF Exit
  <2>4. /\ pc[u] \in LivePC /\ pc'[u] \notin LivePC /\ pc'[u] \notin IdlePC
        /\ pc[u] \in IdlePC <=> pc[u] = "timedout"
    BY <2>1, <2>2 DEF LivePC, IdlePC, PC
  <2>5. QED
    BY <1>0, <2>1, <2>2, <2>3, <2>4, CountersFollow
<1>9. QED
  BY <1>2, <1>4, <1>5, <1>6, <1>7, <1>8 DEF Work

\* The thread that frees the pool moves no worker, it only wakes blocked ones.
LEMMA CountersFree ==
  ASSUME TypeInv, TypeInv', CountersExact, CallFree \/ FreeSteps \/ FreeSpurious
  PROVE  CountersExact'
<1>1. CASE FreeStop
  <2> DEFINE f == [v \in Threads |-> IF v \in {} THEN "none" ELSE pc[v]]
  <2>1. PICK S \in SUBSET Blocked : pc' = Woken(S, f)
    BY <1>1 DEF FreeStop, WakeupStop
  <2>2. \A v \in Threads : pc'[v] = pc[v] \/ (pc[v] = "wait" /\ pc'[v] = "woken")
    BY <2>1 DEF Blocked, Woken
  <2>3. UNCHANGED <<num_threads, waiting_thread>>
    BY <1>1 DEF FreeStop
  <2>4. QED BY <2>2, <2>3, CountersSettled
<1>2. CASE CallFree \/ FreeSpurious
  BY <1>2, CountersUnchanged DEF CallFree, FreeCall, FreeSpurious, shared
<1>3. CASE FreeWait \/ FreeWakeup \/ FreeEmpty \/ FreeLater \/ FreeByCaller
  BY <1>3, CountersUnchanged
     DEF FreeWait, FreeWakeup, FreeEmpty, FreeLater, FreeByCaller, shared
<1>4. QED
  BY <1>1, <1>2, <1>3 DEF FreeSteps

\* A pool starts with exact counters: as many threads as it created, none idle.
LEMMA CountersInit == Init => CountersExact
<1> SUFFICES ASSUME Init PROVE CountersExact
  OBVIOUS
<1>1. PICK S \in SUBSET Threads :
        /\ pc = [u \in Threads |-> IF u \in S THEN "start" ELSE "none"]
        /\ num_threads = Cardinality(S)
        /\ S = {} \/ Cardinality(S) <= MaxThreads
  BY DEF Init
<1>2. Live = S /\ Idle = {}
  BY <1>1 DEF Live, Idle
<1>3. Cardinality({}) = 0
  BY FS_EmptySet
<1>4. waiting_thread = 0
  BY DEF Init
<1>5. QED
  BY <1>1, <1>2, <1>3, <1>4, LimitAssumption DEF CountersExact

\* The pool's counters agree with where its threads are, and the pool never
\* has more threads than max_threads.
THEOREM CountersAreExact == Spec => []CountersExact
<1>1. TypeInv /\ TypeInv' /\ CountersExact /\ [Next]_vars => CountersExact'
  <2> SUFFICES ASSUME TypeInv, TypeInv', CountersExact, [Next]_vars PROVE CountersExact'
    OBVIOUS
  <2>1. ASSUME NEW k \in Tasks, Push(k) PROVE CountersExact'
    BY <2>1, CountersPush
  <2>2. ASSUME NEW u \in Threads, Work(u) \/ SpuriousWakeup(u) \/ IdleTimeout(u)
        PROVE  CountersExact'
    BY <2>2, CountersWork
  <2>3. CASE CallFree \/ FreeSteps \/ FreeSpurious
    BY <2>3, CountersFree
  <2>4. CASE UNCHANGED vars
    BY <2>4, CountersUnchanged DEF vars, shared
  <2>5. QED BY <2>1, <2>2, <2>3, <2>4 DEF Next
<1>2. QED
  BY <1>1, CountersInit, TypeInvariant, PTL DEF Spec

-----------------------------------------------------------------------------
\* The places where a pushed task can be: queued, in a thread, or done.
Placed(k) ==
  (\E i \in DOMAIN queue : queue[i] = k) \/ (\E u \in Threads : cur[u] = k) \/ k \in done

\* No task is in two places, and none is in no place unless an immediate
\* shutdown dropped it.
PlacesInv ==
  /\ \A i, j \in DOMAIN queue : queue[i] \in Tasks /\ queue[i] = queue[j] => i = j
  /\ \A u, v \in Threads : cur[u] \in Tasks /\ cur[u] = cur[v] => u = v
  /\ \A i \in DOMAIN queue : queue[i] \in Tasks =>
       queue[i] \in pushed \ done /\ \A u \in Threads : cur[u] # queue[i]
  /\ \A u \in Threads : cur[u] \in Tasks => cur[u] \in pushed \ done
  /\ done \subseteq pushed
  /\ running \/ ~immediate => \A k \in pushed : Placed(k)

\* What ne_doip_list_remove leaves: every entry but the removed one, in order.
LEMMA DroppedEntries ==
  ASSUME NEW S, NEW q \in Seq(S), NEW p \in DOMAIN q, NEW r, r = Dropped(p, q)
  PROVE  /\ \A i \in DOMAIN r : OldPlace(p, i) \in DOMAIN q \ {p} /\ r[i] = q[OldPlace(p, i)]
         /\ \A i, j \in DOMAIN r : i < j <=> OldPlace(p, i) < OldPlace(p, j)
         /\ \A i, j \in DOMAIN r : OldPlace(p, i) = OldPlace(p, j) => i = j
         /\ \A k \in DOMAIN q \ {p} : \E i \in DOMAIN r : OldPlace(p, i) = k
<1>1. r = WithoutPlace(q, p)
  BY DEF Dropped, WithoutPlace
<1>2. QED
  BY <1>1, OldPlaces

\* The tasks of a queue are where they were when an entry is appended to it.
LEMMA AppendedEntries ==
  ASSUME NEW S, NEW q \in Seq(S), NEW e \in S
  PROVE  /\ Append(q, e) \in Seq(S)
         /\ DOMAIN Append(q, e) = DOMAIN q \cup {Len(q) + 1}
         /\ DOMAIN q = 1 .. Len(q) /\ Len(q) \in Nat
         /\ \A i \in DOMAIN q : Append(q, e)[i] = q[i]
         /\ Append(q, e)[Len(q) + 1] = e
<1>1. Len(q) \in Nat /\ DOMAIN q = 1 .. Len(q)
  BY LenProperties
<1>2. /\ Append(q, e) \in Seq(S) /\ Len(Append(q, e)) = Len(q) + 1
      /\ \A i \in 1 .. Len(q) : Append(q, e)[i] = q[i]
      /\ Append(q, e)[Len(q) + 1] = e
  BY AppendProperties
<1>3. DOMAIN Append(q, e) = 1 .. Len(q) + 1
  BY <1>2, LenProperties
<1>4. 1 .. Len(q) + 1 = 1 .. Len(q) \cup {Len(q) + 1}
  BY <1>1
<1>5. QED
  BY <1>1, <1>2, <1>3, <1>4

\* The tasks of a queue are where they were when stop entries follow it.
LEMMA StoppedEntries ==
  ASSUME NEW q \in Seq(Entries), NEW n \in Int
  PROVE  /\ \A i \in DOMAIN q : i \in DOMAIN (q \o StopEntries(n)) /\ (q \o StopEntries(n))[i] = q[i]
         /\ \A i \in DOMAIN (q \o StopEntries(n)) : (q \o StopEntries(n))[i] \in Tasks => i \in DOMAIN q
<1> DEFINE s == StopEntries(n)
           r == q \o s
<1>1. s \in Seq(Entries) /\ \A i \in DOMAIN s : s[i] = Stop
  <2>1. s \in Seq(Entries)
    BY StopEntriesType
  <2>2. QED BY <2>1 DEF StopEntries
<1> HIDE DEF s
<1>2. Len(q) \in Nat /\ Len(s) \in Nat /\ DOMAIN q = 1 .. Len(q) /\ DOMAIN s = 1 .. Len(s)
  BY <1>1, LenProperties
<1>3. /\ r \in Seq(Entries) /\ Len(r) = Len(q) + Len(s)
      /\ \A i \in 1 .. Len(q) + Len(s) : r[i] = IF i <= Len(q) THEN q[i] ELSE s[i - Len(q)]
  BY <1>1, ConcatProperties
<1>4. DOMAIN r = 1 .. Len(q) + Len(s)
  BY <1>3, LenProperties
<1> HIDE DEF r
<1>5. \A i \in DOMAIN q : i \in DOMAIN r /\ r[i] = q[i]
  BY <1>2, <1>3, <1>4
<1>6. ASSUME NEW i \in DOMAIN r, i \notin DOMAIN q PROVE r[i] \notin Tasks
  <2>1. i - Len(q) \in DOMAIN s /\ r[i] = s[i - Len(q)]
    BY <1>2, <1>3, <1>4, <1>6
  <2>2. QED BY <1>1, <2>1, TasksAssumption
<1>7. QED
  BY <1>5, <1>6 DEF r, s

\* A step that leaves queue, threads and history alone keeps every task's place.
LEMMA PlacesUnchanged ==
  ASSUME PlacesInv, UNCHANGED <<queue, cur, pushed, done>>,
         running' \/ ~immediate' => running \/ ~immediate
  PROVE  PlacesInv'
BY DEF PlacesInv, Placed

\* A pushed task is in the queue and nowhere else.
LEMMA PlacesEnqueue ==
  ASSUME TypeInv, PlacesInv, NEW k \in Tasks, k \notin pushed,
         queue' = Append(queue, k), pushed' = pushed \cup {k},
         UNCHANGED <<cur, done, running, immediate>>
  PROVE  PlacesInv'
<1>1. queue \in Seq(Entries) /\ k \in Entries
  BY DEF TypeInv, TypeOK, Entries
<1>2. /\ DOMAIN queue' = DOMAIN queue \cup {Len(queue) + 1}
      /\ DOMAIN queue = 1 .. Len(queue) /\ Len(queue) \in Nat
      /\ \A i \in DOMAIN queue : queue'[i] = queue[i]
      /\ queue'[Len(queue) + 1] = k
  BY <1>1, AppendedEntries
<1>3. \A i \in DOMAIN queue : queue[i] # k
  BY DEF PlacesInv
<1>4. \A u \in Threads : cur[u] # k
  BY DEF PlacesInv
<1>5. \A i, j \in DOMAIN queue' : queue'[i] \in Tasks /\ queue'[i] = queue'[j] => i = j
  BY <1>2, <1>3 DEF PlacesInv
<1>6. \A i \in DOMAIN queue' : queue'[i] \in Tasks =>
        queue'[i] \in pushed' \ done' /\ \A u \in Threads : cur'[u] # queue'[i]
  BY <1>2, <1>4 DEF PlacesInv
<1>7. /\ \A u, v \in Threads : cur'[u] \in Tasks /\ cur'[u] = cur'[v] => u = v
      /\ \A u \in Threads : cur'[u] \in Tasks => cur'[u] \in pushed' \ done'
      /\ done' \subseteq pushed'
  BY DEF PlacesInv
<1>8. running' \/ ~immediate' => \A t \in pushed' : Placed(t)'
  BY <1>2 DEF PlacesInv, Placed
<1>9. QED
  BY <1>5, <1>6, <1>7, <1>8 DEF PlacesInv

\* A dispatched entry goes from the queue to the thread, or is dropped.
LEMMA PlacesDispatch ==
  ASSUME TypeInv, PlacesInv, NEW u \in Threads, NEW p \in DOMAIN queue, Dispatch(u, p),
         pc[u] # "run", UNCHANGED <<pushed, done, running, immediate>>
  PROVE  PlacesInv'
<1>1. queue \in Seq(Entries) /\ queue' = Dropped(p, queue)
  BY DEF TypeInv, TypeOK, Dispatch
<1>2. /\ \A i \in DOMAIN queue' : /\ OldPlace(p, i) \in DOMAIN queue \ {p}
                                  /\ queue'[i] = queue[OldPlace(p, i)]
      /\ \A i, j \in DOMAIN queue' : OldPlace(p, i) = OldPlace(p, j) => i = j
      /\ \A k \in DOMAIN queue \ {p} : \E i \in DOMAIN queue' : OldPlace(p, i) = k
  BY <1>1, DroppedEntries
<1>5. \A i, j \in DOMAIN queue' : queue'[i] \in Tasks /\ queue'[i] = queue'[j] => i = j
  BY <1>2 DEF PlacesInv
<1>6. cur[u] = None
  BY DEF TypeInv, TypeOK
<1>7. CASE running \/ ~immediate
  <2>1. queue[p] \in Tasks
    BY <1>7, QueueTypes DEF TypeInv, StopsOnlyAtShutdown
  <2>2. \A v \in Threads : cur'[v] = IF v = u THEN queue[p] ELSE cur[v]
    BY <1>7 DEF Dispatch, TypeInv, TypeOK
  <2>3. \A v, w \in Threads : cur'[v] \in Tasks /\ cur'[v] = cur'[w] => v = w
    BY <2>1, <2>2 DEF PlacesInv
  <2>4. \A i \in DOMAIN queue' : queue'[i] \in Tasks =>
          queue'[i] \in pushed' \ done' /\ \A v \in Threads : cur'[v] # queue'[i]
    BY <1>2, <2>1, <2>2 DEF PlacesInv
  <2>5. \A v \in Threads : cur'[v] \in Tasks => cur'[v] \in pushed' \ done'
    BY <2>1, <2>2 DEF PlacesInv
  <2>6. ASSUME NEW k \in pushed PROVE Placed(k)'
    <3>1. CASE k = queue[p]
      BY <2>2, <3>1 DEF Placed
    <3>2. CASE \E i \in DOMAIN queue \ {p} : queue[i] = k
      BY <1>2, <3>2 DEF Placed
    <3>3. CASE \E v \in Threads : cur[v] = k
      <4>1. PICK v \in Threads : cur[v] = k
        BY <3>3
      <4>2. v # u
        BY <1>6, <4>1, TasksAssumption DEF TypeInv, TypeOK
      <4>3. QED BY <2>2, <4>1, <4>2 DEF Placed
    <3>4. CASE k \in done
      BY <3>4 DEF Placed
    <3>5. QED
      BY <1>7, <3>1, <3>2, <3>3, <3>4 DEF PlacesInv, Placed
  <2>7. done' \subseteq pushed'
    BY DEF PlacesInv
  <2>8. QED
    BY <1>5, <2>3, <2>4, <2>5, <2>6, <2>7 DEF PlacesInv
<1>8. CASE ~running /\ immediate
  <2>1. cur' = cur /\ ~(running' \/ ~immediate')
    BY <1>8 DEF Dispatch
  <2>2. \A i \in DOMAIN queue' : queue'[i] \in Tasks =>
          queue'[i] \in pushed' \ done' /\ \A v \in Threads : cur'[v] # queue'[i]
    BY <1>2, <2>1 DEF PlacesInv
  <2>3. QED
    BY <1>5, <2>1, <2>2 DEF PlacesInv
<1>9. QED
  BY <1>7, <1>8 DEF TypeInv, TypeOK

\* The task whose callback returned goes from its thread to the done ones.
LEMMA PlacesFinish ==
  ASSUME TypeInv, PlacesInv, NEW u \in Threads, Finish(u)
  PROVE  PlacesInv'
<1>1. /\ cur[u] \in Tasks /\ done' = done \cup {cur[u]}
      /\ \A v \in Threads : cur'[v] = IF v = u THEN None ELSE cur[v]
      /\ UNCHANGED <<queue, pushed, running, immediate>>
  BY DEF Finish, flags, TypeInv, TypeOK
<1>2. \A v, w \in Threads : cur'[v] \in Tasks /\ cur'[v] = cur'[w] => v = w
  BY <1>1, TasksAssumption DEF PlacesInv
<1>3. \A i \in DOMAIN queue' : queue'[i] \in Tasks =>
        queue'[i] \in pushed' \ done' /\ \A v \in Threads : cur'[v] # queue'[i]
  BY <1>1, TasksAssumption DEF PlacesInv
<1>4. \A v \in Threads : cur'[v] \in Tasks => cur'[v] \in pushed' \ done'
  BY <1>1, TasksAssumption DEF PlacesInv
<1>5. done' \subseteq pushed'
  BY <1>1 DEF PlacesInv
<1>6. ASSUME NEW k \in pushed, Placed(k) PROVE Placed(k)'
  BY <1>1, <1>6 DEF Placed
<1>7. \A i, j \in DOMAIN queue' : queue'[i] \in Tasks /\ queue'[i] = queue'[j] => i = j
  BY <1>1 DEF PlacesInv
<1>8. QED
  BY <1>1, <1>2, <1>3, <1>4, <1>5, <1>6, <1>7 DEF PlacesInv

\* Stop entries push no task out of its place.
LEMMA PlacesStop ==
  ASSUME TypeInv, PlacesInv, NEW n \in Int, NEW exiting, WakeupStop(n, exiting), ~running,
         UNCHANGED <<cur, pushed, done, running>>
  PROVE  PlacesInv'
<1>1. queue \in Seq(Entries) /\ queue' = queue \o StopEntries(n) /\ ~(running' \/ ~immediate')
  BY DEF TypeInv, TypeOK, WakeupStop
<1>2. \A i \in DOMAIN queue' : queue'[i] \in Tasks => i \in DOMAIN queue /\ queue'[i] = queue[i]
  BY <1>1, StoppedEntries
<1>3. QED
  BY <1>1, <1>2 DEF PlacesInv

\* Every step keeps PlacesInv.
LEMMA PlacesNext == TypeInv /\ PlacesInv /\ [Next]_vars => PlacesInv'
<1> SUFFICES ASSUME TypeInv, PlacesInv, [Next]_vars PROVE PlacesInv'
  OBVIOUS
<1>1. ASSUME NEW k \in Tasks, Push(k) PROVE PlacesInv'
  <2>1. CASE PushFull(k)
    BY <2>1, PlacesUnchanged DEF PushFull, shared, flags
  <2>2. CASE PushStart(k) \/ PushOnly(k) \/ PushNoThread(k)
    BY <2>2, PlacesEnqueue DEF PushStart, PushOnly, PushNoThread, Enqueue, MayPush, flags
  <2>3. QED BY <1>1, <2>1, <2>2 DEF Push
<1>2. ASSUME NEW u \in Threads, Work(u) \/ SpuriousWakeup(u) \/ IdleTimeout(u) PROVE PlacesInv'
  <2>1. CASE TakeTask(u)
    BY <2>1, PlacesDispatch DEF TakeTask, flags, history
  <2>2. CASE WakeupTake(u)
    BY <2>2, PlacesDispatch DEF WakeupTake, flags, history
  <2>3. CASE Finish(u)
    BY <2>3, PlacesFinish
  <2>4. CASE StartThread(u) \/ BlockOnQueue(u) \/ WakeupNothing(u) \/ FreeByThread(u)
             \/ SpuriousWakeup(u) \/ IdleTimeout(u)
    BY <2>4, PlacesUnchanged
       DEF StartThread, BlockOnQueue, WakeupNothing, FreeByThread, SpuriousWakeup, IdleTimeout,
           shared, flags, history
  <2>5. CASE ExitTop(u) \/ ExitIdle(u)
    <3>1. PICK idle \in Int : Exit(u, idle)
      BY <2>5 DEF ExitTop, ExitIdle, AfterWait, TypeInv, TypeOK
    <3>2. UNCHANGED <<cur, pushed, done, running>>
      BY <3>1 DEF Exit, history
    <3>3. CASE WakeupStop(num_threads - 1, {u}) /\ ~running
      BY <3>2, <3>3, PlacesStop DEF TypeInv, TypeOK
    <3>4. CASE UNCHANGED <<queue, immediate>>
      BY <3>2, <3>4, PlacesUnchanged
    <3>5. QED BY <3>1, <3>3, <3>4 DEF Exit
  <2>6. QED
    BY <1>2, <2>1, <2>2, <2>3, <2>4, <2>5 DEF Work
<1>3. CASE CallFree \/ FreeSpurious
  BY <1>3, PlacesUnchanged DEF CallFree, FreeCall, FreeSpurious, shared, flags, history
<1>4. CASE FreeSteps
  <2>1. CASE FreeStop
    <3>1. ~running /\ UNCHANGED <<cur, pushed, done, running>>
      BY <2>1 DEF FreeStop, history, TypeInv, StopsOnlyAtShutdown
    <3>2. QED BY <2>1, <3>1, PlacesStop DEF FreeStop, TypeInv, TypeOK
  <2>2. CASE FreeWait \/ FreeWakeup \/ FreeEmpty \/ FreeLater \/ FreeByCaller
    BY <2>2, PlacesUnchanged
       DEF FreeWait, FreeWakeup, FreeEmpty, FreeLater, FreeByCaller, shared, flags, history
  <2>3. QED BY <1>4, <2>1, <2>2 DEF FreeSteps
<1>5. CASE UNCHANGED vars
  BY <1>5, PlacesUnchanged DEF vars, shared, flags, history
<1>6. QED
  BY <1>1, <1>2, <1>3, <1>4, <1>5 DEF Next

\* A new pool has no task to place.
LEMMA PlacesInit == Init => PlacesInv
BY TasksAssumption DEF Init, PlacesInv, Placed

\* A set of at most one element that holds exactly when P.
LEMMA OneOrNone ==
  ASSUME NEW S, \A x, y \in S : x = y
  PROVE  Cardinality(S) = IF S = {} THEN 0 ELSE 1
<1>1. CASE S = {}
  BY <1>1, FS_EmptySet
<1>2. CASE S # {}
  <2>1. PICK x \in S : TRUE
    BY <1>2
  <2>2. S = {x}
    BY <2>1
  <2>3. QED
    BY <1>2, <2>2, FS_Singleton
<1>3. QED BY <1>1, <1>2

\* From the places of the tasks to their number.
LEMMA PlacesCounted == TypeInv /\ PlacesInv => NoTaskLost
<1> SUFFICES ASSUME TypeInv, PlacesInv, NEW k \in pushed
             PROVE  LET places == Cardinality({i \in DOMAIN queue : queue[i] = k})
                                  + Cardinality({u \in Threads : cur[u] = k})
                                  + (IF k \in done THEN 1 ELSE 0)
                    IN  IF immediate /\ ~running THEN places <= 1 ELSE places = 1
  BY DEF NoTaskLost
<1> DEFINE Q == {i \in DOMAIN queue : queue[i] = k}
           C == {u \in Threads : cur[u] = k}
<1>1. k \in Tasks
  BY DEF TypeInv, TypeOK
<1>2. Cardinality(Q) = IF Q = {} THEN 0 ELSE 1
  <2>1. \A i, j \in Q : i = j
    BY <1>1 DEF PlacesInv
  <2>2. QED BY <2>1, OneOrNone
<1>3. Cardinality(C) = IF C = {} THEN 0 ELSE 1
  <2>1. \A u, v \in C : u = v
    BY <1>1 DEF PlacesInv
  <2>2. QED BY <2>1, OneOrNone
<1>4. (Q # {} => C = {} /\ k \notin done) /\ (C # {} => k \notin done)
  BY <1>1 DEF PlacesInv
<1>5. running \/ ~immediate => Q # {} \/ C # {} \/ k \in done
  BY DEF PlacesInv, Placed
<1> HIDE DEF Q, C
<1>6. LET places == Cardinality(Q) + Cardinality(C) + (IF k \in done THEN 1 ELSE 0)
      IN  IF immediate /\ ~running THEN places <= 1 ELSE places = 1
  BY <1>2, <1>3, <1>4, <1>5
<1>7. QED
  BY <1>6 DEF Q, C

\* No task that was pushed is lost or run twice.
THEOREM TasksAccounted == Spec => []NoTaskLost
<1>1. QED
  BY PlacesInit, PlacesNext, PlacesCounted, TypeInvariant, PTL DEF Spec

-----------------------------------------------------------------------------
\* The entries and the groups of a queue are finitely many, and none of both
\* only when the queue is empty.
LEMMA UnitsOfQueue ==
  ASSUME NEW q \in Seq(Entries)
  PROVE  \E units \in Nat : /\ \A idle \in Int : GrLength(q, idle) = units - idle
                            /\ units = 0 <=> q = <<>>
<1> DEFINE loose == {i \in DOMAIN q : IdOf(q[i]) = 0}
           groups == {IdOf(q[i]) : i \in DOMAIN q} \ {0}
           units == Cardinality(loose) + Cardinality(groups)
<1>1. IsFiniteSet(DOMAIN q)
  BY FiniteDomain
<1>2. IsFiniteSet(loose)
  BY <1>1, FS_Subset
<1>3. IsFiniteSet(groups)
  <2> DEFINE f == [i \in DOMAIN q |-> IdOf(q[i])]
             T == {IdOf(q[i]) : i \in DOMAIN q}
  <2>1. f \in [DOMAIN q -> T]
    OBVIOUS
  <2>2. \A i \in DOMAIN q : f[i] = IdOf(q[i])
    OBVIOUS
  <2>3. {f[i] : i \in DOMAIN q} = T
    BY <2>2
  <2> HIDE DEF f
  <2>4. IsFiniteSet({f[i] : i \in DOMAIN q})
    BY <1>1, <2>1, FiniteRange
  <2>5. IsFiniteSet(T)
    BY <2>3, <2>4
  <2>6. groups \subseteq T
    OBVIOUS
  <2>7. QED
    BY <2>5, <2>6, FS_Subset
<1>4. Cardinality(loose) \in Nat /\ Cardinality(groups) \in Nat
  BY <1>2, <1>3, FS_CardinalityType
<1>5. (Cardinality(loose) = 0 <=> loose = {}) /\ (Cardinality(groups) = 0 <=> groups = {})
  BY <1>2, <1>3, FS_EmptySet
<1>6. loose = {} /\ groups = {} <=> DOMAIN q = {}
  <2>1. ASSUME NEW i \in DOMAIN q PROVE i \in loose \/ IdOf(q[i]) \in groups
    OBVIOUS
  <2>2. ASSUME DOMAIN q = {} PROVE loose = {} /\ groups = {}
    BY <2>2
  <2> HIDE DEF loose, groups
  <2>3. QED BY <2>1, <2>2
<1>7. DOMAIN q = {} <=> q = <<>>
  BY NoPlaces
<1>8. units \in Nat /\ (units = 0 <=> q = <<>>)
  <2> HIDE DEF loose, groups
  <2>1. QED BY <1>4, <1>5, <1>6, <1>7
<1>9. ASSUME NEW idle \in Int PROVE GrLength(q, idle) = units - idle
  <2>1. GrLength(q, idle) = Cardinality(loose) + Cardinality(groups) - idle
    BY Zenon DEF GrLength
  <2> HIDE DEF loose, groups
  <2>2. QED BY <1>4, <2>1
<1> HIDE DEF units
<1>10. QED
  BY <1>8, <1>9

\* The pool is drained when its queue is empty and all its threads are idle,
\* whatever mixture of groups the queue held.
LEMMA DrainedIsIdle == TypeInv /\ CountersExact => DrainedMeansIdle
<1> SUFFICES ASSUME TypeInv, CountersExact PROVE DrainedMeansIdle
  OBVIOUS
<1>1. PICK units \in Nat :
        /\ \A idle \in Int : GrLength(queue, idle) = units - idle
        /\ units = 0 <=> queue = <<>>
  BY UnitsOfQueue DEF TypeInv, TypeOK
<1>2. Idle \subseteq Live /\ IsFiniteSet(Live)
  BY ThreadsAssumption, FS_Subset DEF Idle, Live
<1>3. IsFiniteSet(Idle) /\ Cardinality(Idle) \in Nat /\ Cardinality(Live) \in Nat
  BY <1>2, FS_Subset, FS_CardinalityType
<1>4. Cardinality(Idle) <= Cardinality(Live) /\ (Cardinality(Idle) = Cardinality(Live) => Idle = Live)
  BY <1>2, FS_Subset
<1>5. waiting_thread = Cardinality(Idle) /\ num_threads = Cardinality(Live)
  BY DEF CountersExact
<1>6. GrLength(queue, waiting_thread) = units - waiting_thread
  BY <1>1 DEF TypeInv, TypeOK
<1>7. Drained <=> units - waiting_thread = -num_threads
  BY <1>6 DEF Drained
<1>8. Drained <=> units = 0 /\ waiting_thread = num_threads
  BY <1>3, <1>4, <1>5, <1>7
<1>9. waiting_thread = num_threads <=> Idle = Live
  BY <1>4, <1>5
<1>10. units = 0 <=> queue = <<>>
  BY <1>1
<1>11. Drained <=> queue = <<>> /\ Idle = Live
  BY <1>8, <1>9, <1>10
<1>12. QED
  BY <1>11 DEF DrainedMeansIdle

-----------------------------------------------------------------------------
\* Entry i of queue q could run beside the tasks of the groups ids, and is the
\* first of its group.
Leads(q, ids, i) ==
  /\ IdOf(q[i]) \notin ids
  /\ \A j \in 1 .. i - 1 : IdOf(q[j]) # IdOf(q[i]) \/ IdOf(q[i]) = 0

\* The tasks that could run side by side, one for each group that does not run.
Heads(q, ids) == {q[i] : i \in {j \in DOMAIN q : Leads(q, ids, j)}}

\* The threads that look at the queue before they block again.
Active == {u \in Threads : pc[u] = "woken" \/ (running /\ pc[u] = "top")}

\* Beside a blocked thread there are as many active ones as tasks that could
\* run: one signal per task is enough.  An immediate shutdown gives this up.
WakeInv ==
  /\ running => ~immediate
  /\ 0 \notin idlistrun
  /\ Blocked # {} /\ ~immediate => Cardinality(Heads(queue, idlistrun)) <= Cardinality(Active)

\* A queue has finitely many tasks that could run.
LEMMA HeadsFinite ==
  ASSUME NEW q \in Seq(Entries), NEW ids
  PROVE  IsFiniteSet(Heads(q, ids))
<1>1. IsFiniteSet(DOMAIN q) /\ q \in [DOMAIN q -> Entries]
  BY FiniteDomain, LenProperties
<1>2. IsFiniteSet({q[i] : i \in DOMAIN q})
  BY <1>1, FiniteRange
<1>3. Heads(q, ids) \subseteq {q[i] : i \in DOMAIN q}
  BY DEF Heads
<1>4. QED
  BY <1>2, <1>3, FS_Subset

\* A task that could run stands behind none, or behind one that could run.
LEMMA ValidHasHead == TypeInv => (HasValidTask <=> Heads(queue, idlistrun) # {})
<1> SUFFICES ASSUME TypeInv PROVE HasValidTask <=> Heads(queue, idlistrun) # {}
  OBVIOUS
<1>1. DOMAIN queue = 1 .. Len(queue) /\ Len(queue) \in Nat
  BY LenProperties DEF TypeInv, TypeOK
<1>2. ASSUME HasValidTask PROVE Heads(queue, idlistrun) # {}
  <2> DEFINE V == {i \in DOMAIN queue : Valid(i)}
  <2>1. V \subseteq Nat /\ V # {}
    BY <1>1, <1>2 DEF HasValidTask
  <2>2. PICK i \in V : \A j \in V : i <= j
    BY <2>1, LeastNumber
  <2>3. IdOf(queue[i]) \notin idlistrun /\ i \in DOMAIN queue
    BY DEF Valid
  <2>4. ASSUME NEW j \in 1 .. i - 1 PROVE IdOf(queue[j]) # IdOf(queue[i])
    <3>1. j \in DOMAIN queue /\ ~(i <= j)
      BY <1>1, <2>3
    <3>2. ~Valid(j)
      BY <2>2, <3>1
    <3>3. QED BY <2>3, <3>1, <3>2 DEF Valid
  <2>5. Leads(queue, idlistrun, i)
    BY <2>3, <2>4 DEF Leads
  <2>6. QED BY <2>3, <2>5 DEF Heads
<1>3. ASSUME Heads(queue, idlistrun) # {} PROVE HasValidTask
  BY <1>3 DEF Heads, Leads, HasValidTask, Valid
<1>4. QED
  BY <1>2, <1>3

\* An appended task is the only new one that could run.
LEMMA HeadsAppended ==
  ASSUME NEW q \in Seq(Entries), NEW e \in Entries, NEW ids
  PROVE  Heads(Append(q, e), ids) \subseteq Heads(q, ids) \cup (IF IdOf(e) \in ids THEN {} ELSE {e})
<1>1. PICK r : r = Append(q, e)
  OBVIOUS
<1>2. /\ DOMAIN r = DOMAIN q \cup {Len(q) + 1}
      /\ DOMAIN q = 1 .. Len(q) /\ Len(q) \in Nat
      /\ \A i \in DOMAIN q : r[i] = q[i]
      /\ r[Len(q) + 1] = e
  BY <1>1, AppendedEntries
<1>3. ASSUME NEW i \in DOMAIN r, Leads(r, ids, i)
      PROVE  r[i] \in Heads(q, ids) \cup (IF IdOf(e) \in ids THEN {} ELSE {e})
  <2>1. CASE i \in DOMAIN q
    <3>1. r[i] = q[i] /\ \A j \in 1 .. i - 1 : r[j] = q[j]
      BY <1>2, <2>1
    <3>2. Leads(q, ids, i)
      BY <1>3, <3>1 DEF Leads
    <3>3. QED BY <2>1, <3>1, <3>2 DEF Heads
  <2>2. CASE i = Len(q) + 1
    BY <1>2, <1>3, <2>2 DEF Leads
  <2>3. QED BY <1>2, <2>1, <2>2
<1>4. Heads(r, ids) \subseteq Heads(q, ids) \cup (IF IdOf(e) \in ids THEN {} ELSE {e})
  BY <1>3 DEF Heads
<1>5. QED
  BY <1>1, <1>4

\* The oldest task that could run leads its group; when it runs, or is dropped
\* with its group, no other task can run that could not before.
LEMMA HeadsDispatched ==
  ASSUME TypeInv, PlacesInv, NEW p \in DOMAIN queue, IsValidTask(p), queue[p] \in Tasks,
         NEW r, r = Dropped(p, queue), NEW ids, ids = idlistrun \cup ({IdOf(queue[p])} \ {0})
  PROVE  /\ queue[p] \in Heads(queue, idlistrun)
         /\ Heads(r, ids) \subseteq Heads(queue, idlistrun) \ {queue[p]}
<1>1. DOMAIN queue = 1 .. Len(queue) /\ Len(queue) \in Nat /\ queue \in Seq(Entries)
  BY LenProperties DEF TypeInv, TypeOK
<1>2. /\ \A i \in DOMAIN r : OldPlace(p, i) \in DOMAIN queue \ {p} /\ r[i] = queue[OldPlace(p, i)]
      /\ \A i, j \in DOMAIN r : i < j <=> OldPlace(p, i) < OldPlace(p, j)
      /\ \A k \in DOMAIN queue \ {p} : \E i \in DOMAIN r : OldPlace(p, i) = k
  <2>1. queue \in Seq(Entries) /\ p \in DOMAIN queue /\ r = Dropped(p, queue)
    BY <1>1
  <2>2. QED BY <2>1, DroppedEntries
<1>3. r \in Seq(Entries) /\ DOMAIN r = 1 .. Len(r) /\ Len(r) \in Nat
  BY <1>1, DroppedType, LenProperties
<1>4. Leads(queue, idlistrun, p)
  <2>1. IdOf(queue[p]) \notin idlistrun
    BY DEF IsValidTask, Valid
  <2>2. ASSUME NEW j \in 1 .. p - 1 PROVE IdOf(queue[j]) # IdOf(queue[p])
    <3>1. ~Valid(j) /\ j \in DOMAIN queue
      BY <1>1 DEF IsValidTask
    <3>2. QED BY <2>1, <3>1 DEF Valid
  <2>3. QED BY <2>1, <2>2 DEF Leads
<1>5. ASSUME NEW i \in DOMAIN r, Leads(r, ids, i)
      PROVE  r[i] \in Heads(queue, idlistrun) \ {queue[p]}
  <2>1. PICK o : o = OldPlace(p, i)
    OBVIOUS
  <2>2. o \in DOMAIN queue /\ o # p /\ r[i] = queue[o]
    BY <1>2, <2>1
  <2>3. IdOf(queue[o]) \notin ids
    BY <1>5, <2>2 DEF Leads
  <2>4. ASSUME NEW j \in 1 .. o - 1, IdOf(queue[o]) # 0 PROVE IdOf(queue[j]) # IdOf(queue[o])
    <3>1. CASE j = p
      BY <2>3, <2>4, <3>1
    <3>2. CASE j # p
      <4>1. j \in DOMAIN queue \ {p} /\ j < o
        BY <1>1, <2>2, <3>2
      <4>2. PICK m \in DOMAIN r : OldPlace(p, m) = j
        BY <1>2, <4>1
      <4>3. m < i
        BY <1>2, <2>1, <4>1, <4>2
      <4>4. m \in 1 .. i - 1 /\ r[m] = queue[j]
        BY <1>2, <1>3, <4>2, <4>3
      <4>5. QED BY <1>5, <2>2, <2>4, <4>4 DEF Leads
    <3>3. QED BY <3>1, <3>2
  <2>5. Leads(queue, idlistrun, o)
    BY <2>3, <2>4 DEF Leads
  <2>6. queue[o] # queue[p]
    BY <2>2 DEF PlacesInv
  <2>7. QED BY <2>2, <2>5, <2>6 DEF Heads
<1>6. Heads(r, ids) \subseteq Heads(queue, idlistrun) \ {queue[p]}
  BY <1>5 DEF Heads
<1>7. QED
  BY <1>4, <1>6 DEF Heads

\* The end of a task frees its group: one more task at most can run, and none
\* if the task had no group.
LEMMA HeadsFinished ==
  ASSUME NEW q \in Seq(Entries), NEW ids, 0 \notin ids, NEW g
  PROVE  /\ \E h : Heads(q, ids \ {g}) \subseteq Heads(q, ids) \cup {h}
         /\ g = 0 => Heads(q, ids \ {g}) \subseteq Heads(q, ids)
<1>1. DOMAIN q = 1 .. Len(q) /\ Len(q) \in Nat
  BY LenProperties
<1>2. ASSUME NEW i \in DOMAIN q, Leads(q, ids \ {g}, i), q[i] \notin Heads(q, ids)
      PROVE  IdOf(q[i]) = g /\ g # 0
  <2>1. ~Leads(q, ids, i)
    BY <1>2 DEF Heads
  <2>2. IdOf(q[i]) \in ids
    BY <1>2, <2>1 DEF Leads
  <2>3. QED BY <1>2, <2>2 DEF Leads
<1>3. CASE \E i \in DOMAIN q : Leads(q, ids \ {g}, i) /\ q[i] \notin Heads(q, ids)
  <2>1. PICK i \in DOMAIN q : Leads(q, ids \ {g}, i) /\ q[i] \notin Heads(q, ids)
    BY <1>3
  <2>2. ASSUME NEW j \in DOMAIN q, Leads(q, ids \ {g}, j), q[j] \notin Heads(q, ids)
        PROVE  j = i
    <3>1. IdOf(q[i]) = g /\ IdOf(q[j]) = g /\ g # 0
      BY <1>2, <2>1, <2>2
    <3>2. ~(i < j)
      <4>1. i < j => i \in 1 .. j - 1
        BY <1>1
      <4>2. QED BY <2>2, <3>1, <4>1 DEF Leads
    <3>3. ~(j < i)
      <4>1. j < i => j \in 1 .. i - 1
        BY <1>1
      <4>2. QED BY <2>1, <3>1, <4>1 DEF Leads
    <3>4. QED BY <1>1, <3>2, <3>3
  <2>3. Heads(q, ids \ {g}) \subseteq Heads(q, ids) \cup {q[i]}
    <3> SUFFICES ASSUME NEW j \in DOMAIN q, Leads(q, ids \ {g}, j)
                 PROVE  q[j] \in Heads(q, ids) \cup {q[i]}
      BY DEF Heads
    <3>1. QED BY <2>2
  <2>4. g # 0
    BY <1>2, <2>1
  <2>5. QED BY <2>3, <2>4
<1>4. CASE ~\E i \in DOMAIN q : Leads(q, ids \ {g}, i) /\ q[i] \notin Heads(q, ids)
  <2>1. Heads(q, ids \ {g}) \subseteq Heads(q, ids)
    <3> SUFFICES ASSUME NEW j \in DOMAIN q, Leads(q, ids \ {g}, j)
                 PROVE  q[j] \in Heads(q, ids)
      BY DEF Heads
    <3>1. QED BY <1>4
  <2>2. Heads(q, ids \ {g}) \subseteq Heads(q, ids) \cup {0}
    BY <2>1
  <2>3. QED BY <2>1, <2>2
<1>5. QED
  BY <1>3, <1>4

\* A step that adds no more tasks that could run than it wakes threads, or
\* that engages a thread with each of them it takes away, keeps WakeInv.
LEMMA WakeFollows ==
  ASSUME TypeInv, TypeInv', WakeInv, running' => ~immediate', 0 \notin idlistrun',
         Blocked' # {} /\ ~immediate' =>
           /\ Blocked # {} /\ ~immediate
           /\ Follows(Heads(queue, idlistrun), Active, Heads(queue', idlistrun'), Active')
  PROVE  WakeInv'
<1>1. IsFiniteSet(Heads(queue, idlistrun))
  BY HeadsFinite DEF TypeInv, TypeOK
<1>2. IsFiniteSet(Active) /\ IsFiniteSet(Active')
  BY ThreadsAssumption, FS_Subset DEF Active
<1>3. ASSUME Blocked' # {}, ~immediate'
      PROVE  Cardinality(Heads(queue', idlistrun')) <= Cardinality(Active')
  <2>1. Cardinality(Heads(queue, idlistrun)) <= Cardinality(Active)
    BY <1>3 DEF WakeInv
  <2>2. Follows(Heads(queue, idlistrun), Active, Heads(queue', idlistrun'), Active')
    BY <1>3
  <2>3. QED
    BY <1>1, <1>2, <2>1, <2>2, StaysSmaller
<1>4. QED
  BY <1>3 DEF WakeInv

\* Where nothing could run, nobody has to be awake.
LEMMA WakeIdle ==
  ASSUME TypeInv, WakeInv, ~HasValidTask, UNCHANGED <<queue, idlistrun, running, immediate>>
  PROVE  WakeInv'
<1>1. Heads(queue', idlistrun') = {}
  BY ValidHasHead
<1>2. Cardinality({}) = 0 /\ IsFiniteSet(Active') /\ Cardinality(Active') \in Nat
  BY ThreadsAssumption, FS_EmptySet, FS_Subset, FS_CardinalityType DEF Active
<1>3. QED
  BY <1>1, <1>2 DEF WakeInv

\* A step that touches no task, blocks no thread and engages no active one.
LEMMA WakeUnchanged ==
  ASSUME TypeInv, TypeInv', WakeInv, UNCHANGED <<queue, idlistrun>>,
         running' => running, immediate' => immediate \/ ~running', immediate => immediate',
         Blocked' \subseteq Blocked, Active \subseteq Active'
  PROVE  WakeInv'
<1>1. Follows(Heads(queue, idlistrun), Active, Heads(queue', idlistrun'), Active')
  BY DEF Follows
<1>2. (running' => ~immediate') /\ 0 \notin idlistrun'
  BY DEF WakeInv
<1>3. QED
  BY <1>1, <1>2, WakeFollows

\* In an immediate shutdown there is nothing to show.
LEMMA WakeImmediate ==
  ASSUME WakeInv, ~running', immediate' = TRUE, UNCHANGED idlistrun
  PROVE  WakeInv'
BY DEF WakeInv

\* A pushed task that could run wakes a blocked thread.
LEMMA WakePush ==
  ASSUME TypeInv, TypeInv', CountersExact, WakeInv, NEW k \in Tasks, MayPush(k),
         NEW started \in SUBSET Threads, \A u \in started : pc[u] = "none",
         Enqueue(k, started), UNCHANGED <<idlistrun, running, immediate>>
  PROVE  WakeInv'
<1> DEFINE f == [u \in Threads |-> IF u \in started THEN "start" ELSE pc[u]]
<1>1. PICK S \in PushSignals(k) : pc' = Woken(S, f)
  BY DEF Enqueue
<1>2. S \in SUBSET Blocked
  BY <1>1, SignalTargetsBlocked DEF PushSignals
<1>3. /\ \A u \in S : pc'[u] = "woken" /\ pc[u] = "wait"
      /\ \A u \in started : pc'[u] = "start" /\ pc[u] = "none"
      /\ \A u \in Threads \ (S \cup started) : pc'[u] = pc[u]
  BY <1>1, <1>2 DEF Woken, Blocked
<1>4. Blocked' \subseteq Blocked /\ Active \subseteq Active' \cup {u \in Threads : pc[u] = "top"}
  BY <1>3 DEF Blocked, Active
<1>5. Active \subseteq Active'
  <2>1. \A u \in Threads : pc[u] # "top"
    BY DEF MayPush, LockFree
  <2>2. QED BY <1>4, <2>1
<1>6. /\ queue' = Append(queue, k) /\ queue \in Seq(Entries) /\ k \in Entries
      /\ IdOf(k) = Id[k]
  BY TasksAssumption DEF Enqueue, TypeInv, TypeOK, Entries, IdOf
<1>7. Heads(queue', idlistrun') \subseteq
        Heads(queue, idlistrun) \cup (IF Id[k] \in idlistrun THEN {} ELSE {k})
  BY <1>6, HeadsAppended
<1>8. ASSUME Blocked' # {}
      PROVE  Follows(Heads(queue, idlistrun), Active, Heads(queue', idlistrun'), Active')
  <2>1. CASE Id[k] \in idlistrun
    BY <1>5, <1>7, <2>1 DEF Follows
  <2>2. CASE Id[k] \notin idlistrun
    <3>1. PICK w \in Blocked : TRUE
      BY <1>4, <1>8
    <3>2. waiting_thread # 0
      <4>1. w \in Idle /\ IsFiniteSet(Idle)
        BY <3>1, ThreadsAssumption, FS_Subset DEF Blocked, Idle
      <4>2. Cardinality(Idle) # 0
        BY <4>1, FS_EmptySet
      <4>3. QED BY <4>2 DEF CountersExact
    <3>3. PICK v \in Blocked : S = {v}
      BY <1>1, <2>2, <3>1, <3>2 DEF PushSignals, SignalTargets
    <3>4. v \notin Active /\ Active \cup {v} \subseteq Active'
      BY <1>3, <1>5, <3>3 DEF Active, Blocked
    <3>5. Heads(queue', idlistrun') \subseteq Heads(queue, idlistrun) \cup {k}
      BY <1>7, <2>2
    <3>6. QED BY <3>4, <3>5 DEF Follows
  <2>3. QED BY <2>1, <2>2
<1>9. (running' => ~immediate') /\ 0 \notin idlistrun' /\ (immediate' <=> immediate)
  BY DEF WakeInv
<1>10. QED
  BY <1>4, <1>8, <1>9, WakeFollows

\* A thread that takes a task leaves one task less that could run.
LEMMA WakeDispatch ==
  ASSUME TypeInv, TypeInv', PlacesInv, WakeInv, NEW u \in Threads, NEW p \in DOMAIN queue,
         IsValidTask(p), Dispatch(u, p), UNCHANGED <<running, immediate>>
  PROVE  WakeInv'
<1>1. CASE ~immediate
  <2>1. queue[p] \in Tasks
    BY <1>1, QueueTypes DEF TypeInv, StopsOnlyAtShutdown
  <2>2. queue' = Dropped(p, queue) /\ idlistrun' = idlistrun \cup ({IdOf(queue[p])} \ {0})
    BY <1>1 DEF Dispatch
  <2>3. /\ queue[p] \in Heads(queue, idlistrun)
        /\ Heads(queue', idlistrun') \subseteq Heads(queue, idlistrun) \ {queue[p]}
    BY <2>1, <2>2, HeadsDispatched
  <2>4. pc'[u] = "run" /\ \A v \in Threads \ {u} : pc'[v] = pc[v]
    BY <1>1 DEF Dispatch, Goto, TypeInv, TypeOK
  <2>5. Blocked' \subseteq Blocked /\ Active \ {u} \subseteq Active'
    BY <2>4 DEF Blocked, Active
  <2>6. Follows(Heads(queue, idlistrun), Active, Heads(queue', idlistrun'), Active')
    BY <2>3, <2>5 DEF Follows
  <2>7. (running' => ~immediate') /\ 0 \notin idlistrun'
    BY <2>2 DEF WakeInv
  <2>8. QED
    BY <1>1, <2>5, <2>6, <2>7, WakeFollows
<1>2. CASE immediate
  <2>1. ~running /\ UNCHANGED idlistrun
    BY <1>2 DEF WakeInv, Dispatch
  <2>2. QED
    BY <1>2, <2>1, WakeImmediate DEF TypeInv, TypeOK
<1>3. QED
  BY <1>1, <1>2

\* A thread whose callback returned looks at the queue again; in a shutdown it
\* may end there, and has woken a blocked thread for the next task of the group.
LEMMA WakeFinish ==
  ASSUME TypeInv, TypeInv', WakeInv, NEW u \in Threads, Finish(u)
  PROVE  WakeInv'
<1> DEFINE f == [pc EXCEPT ![u] = "top"]
<1>1. PICK S \in FinishSignals(u) : pc' = Woken(S, f)
  BY DEF Finish
<1>2. S \in SUBSET Blocked
  BY <1>1, SignalTargetsBlocked DEF FinishSignals
<1>3. /\ pc[u] = "run" /\ LockFree /\ idlistrun' = idlistrun \ {IdOf(cur[u])}
      /\ UNCHANGED <<queue, running, immediate>>
  BY DEF Finish, flags
<1>4. /\ \A v \in S : pc'[v] = "woken" /\ pc[v] = "wait"
      /\ pc'[u] = "top"
      /\ \A v \in Threads \ (S \cup {u}) : pc'[v] = pc[v]
  BY <1>1, <1>2, <1>3 DEF Woken, Blocked, TypeInv, TypeOK
<1>5. Blocked' \subseteq Blocked
  BY <1>3, <1>4 DEF Blocked
<1>6. Active \subseteq Active' /\ u \notin Active
  BY <1>3, <1>4 DEF Active, LockFree
<1>7. (running' => ~immediate') /\ 0 \notin idlistrun' /\ (immediate' <=> immediate)
  BY <1>3 DEF WakeInv
<1>8. /\ \E h : Heads(queue', idlistrun') \subseteq Heads(queue, idlistrun) \cup {h}
      /\ IdOf(cur[u]) = 0 => Heads(queue', idlistrun') \subseteq Heads(queue, idlistrun)
  BY <1>3, HeadsFinished DEF TypeInv, TypeOK, WakeInv
<1>9. ASSUME Blocked' # {}
      PROVE  Follows(Heads(queue, idlistrun), Active, Heads(queue', idlistrun'), Active')
  <2>1. PICK h : Heads(queue', idlistrun') \subseteq Heads(queue, idlistrun) \cup {h}
    BY <1>8
  <2>2. CASE running
    <3>1. Active \cup {u} \subseteq Active'
      BY <1>3, <1>4, <1>6, <2>2 DEF Active
    <3>2. QED BY <1>6, <2>1, <3>1 DEF Follows
  <2>3. CASE ~running /\ IdOf(cur[u]) # 0
    <3>1. PICK v \in Blocked : S = {v}
      BY <1>1, <1>5, <1>9, <2>3 DEF FinishSignals, SignalTargets
    <3>2. v \notin Active /\ Active \cup {v} \subseteq Active'
      BY <1>4, <1>6, <3>1 DEF Active, Blocked
    <3>3. QED BY <2>1, <3>2 DEF Follows
  <2>4. CASE IdOf(cur[u]) = 0
    BY <1>6, <1>8, <2>4 DEF Follows
  <2>5. QED BY <2>2, <2>3, <2>4
<1>10. QED
  BY <1>5, <1>7, <1>9, WakeFollows

\* A thread ends only when it is not needed, or in an immediate shutdown.
LEMMA WakeExit ==
  ASSUME TypeInv, TypeInv', CountersExact, WakeInv, NEW u \in Threads, ExitTop(u) \/ ExitIdle(u)
  PROVE  WakeInv'
<1>1. PICK idle : Exit(u, idle)
  BY DEF ExitTop, ExitIdle
<1>2. u \notin Active /\ u \notin Blocked
  <2>1. CASE ExitTop(u)
    <3>1. ~(num_threads > MaxThreads)
      BY LimitAssumption DEF CountersExact, TypeInv, TypeOK
    <3>2. ~running /\ pc[u] = "top"
      BY <2>1, <3>1 DEF ExitTop, MustExit
    <3>3. QED BY <3>2 DEF Active, Blocked
  <2>2. CASE ExitIdle(u)
    BY <2>2 DEF ExitIdle, Active, Blocked
  <2>3. QED BY <2>1, <2>2
<1>3. UNCHANGED <<idlistrun, running>>
  BY <1>1 DEF Exit
<1>4. CASE ~running /\ immediate' = TRUE
  BY <1>3, <1>4, WakeImmediate
<1>5. CASE /\ Goto(u, IF Frees(num_threads - 1) THEN "free" ELSE "none")
           /\ UNCHANGED <<queue, immediate>>
  <2>1. pc'[u] \in {"free", "none"} /\ \A v \in Threads \ {u} : pc'[v] = pc[v]
    BY <1>5 DEF Goto, TypeInv, TypeOK
  <2>2. Blocked' \subseteq Blocked /\ Active \subseteq Active'
    BY <1>2, <1>3, <2>1 DEF Blocked, Active
  <2>3. immediate' => immediate \/ ~running'
    BY <1>5
  <2>4. QED
    BY <1>3, <1>5, <2>2, <2>3, WakeUnchanged
<1>6. QED
  BY <1>1, <1>4, <1>5 DEF Exit, WakeupStop

\* Every step keeps WakeInv.
LEMMA WakeNext ==
  TypeInv /\ TypeInv' /\ CountersExact /\ PlacesInv /\ WakeInv /\ [Next]_vars => WakeInv'
<1> SUFFICES ASSUME TypeInv, TypeInv', CountersExact, PlacesInv, WakeInv, [Next]_vars
             PROVE  WakeInv'
  OBVIOUS
<1>0. pc \in [Threads -> PC]
  BY DEF TypeInv, TypeOK
<1>1. ASSUME NEW k \in Tasks, Push(k) PROVE WakeInv'
  <2>1. CASE PushFull(k)
    BY <2>1, WakeUnchanged DEF PushFull, shared, flags, Blocked, Active
  <2>2. CASE PushStart(k)
    <3>1. PICK u \in Threads : ~Occupied(u) /\ Enqueue(k, {u})
      BY <2>2 DEF PushStart
    <3>2. \A v \in {u} : pc[v] = "none"
      BY <3>1 DEF Occupied
    <3>3. QED
      BY <2>2, <3>1, <3>2, WakePush DEF PushStart, flags
  <2>3. CASE PushOnly(k) \/ PushNoThread(k)
    <3>1. MayPush(k) /\ Enqueue(k, {}) /\ UNCHANGED <<idlistrun, running, immediate>>
      BY <2>3 DEF PushOnly, PushNoThread, flags
    <3>2. QED
      BY <3>1, WakePush
  <2>4. QED BY <1>1, <2>1, <2>2, <2>3 DEF Push
<1>2. ASSUME NEW u \in Threads, Work(u) \/ SpuriousWakeup(u) \/ IdleTimeout(u) PROVE WakeInv'
  <2>1. CASE TakeTask(u)
    BY <2>1, WakeDispatch DEF TakeTask, flags
  <2>2. CASE WakeupTake(u)
    BY <2>2, WakeDispatch DEF WakeupTake, flags
  <2>3. CASE Finish(u)
    BY <2>3, WakeFinish
  <2>4. CASE ExitTop(u) \/ ExitIdle(u)
    BY <2>4, WakeExit
  <2>5. CASE BlockOnQueue(u) \/ WakeupNothing(u)
    BY <2>5, WakeIdle DEF BlockOnQueue, WakeupNothing, shared, flags
  <2>6. CASE StartThread(u) \/ FreeByThread(u) \/ SpuriousWakeup(u) \/ IdleTimeout(u)
    <3>1. PICK l \in {"top", "none", "woken", "timedout"} :
            /\ Goto(u, l)
            /\ l = "top" => pc[u] = "start"
            /\ l = "none" => pc[u] = "free"
            /\ l \in {"woken", "timedout"} => pc[u] = "wait"
      BY <2>6 DEF StartThread, FreeByThread, SpuriousWakeup, IdleTimeout
    <3>2. pc'[u] = l /\ \A v \in Threads \ {u} : pc'[v] = pc[v]
      BY <1>0, <3>1 DEF Goto
    <3>3. UNCHANGED <<queue, idlistrun, running, immediate>>
      BY <2>6 DEF StartThread, FreeByThread, SpuriousWakeup, IdleTimeout, shared, flags
    <3>4. Blocked' \subseteq Blocked /\ Active \subseteq Active'
      BY <3>1, <3>2, <3>3 DEF Blocked, Active
    <3>5. QED
      BY <3>3, <3>4, WakeUnchanged
  <2>7. QED
    BY <1>2, <2>1, <2>2, <2>3, <2>4, <2>5, <2>6 DEF Work
<1>3. CASE CallFree
  <2>1. PICK imm \in BOOLEAN, wait \in BOOLEAN : FreeCall(imm, wait)
    BY <1>3 DEF CallFree
  <2>2. /\ UNCHANGED <<queue, idlistrun, pc>> /\ ~running' /\ running
        /\ \A u \in Threads : pc[u] # "top"
    BY <2>1 DEF FreeCall, shared, LockFree
  <2>3. Blocked' \subseteq Blocked /\ Active \subseteq Active'
    BY <2>2 DEF Blocked, Active
  <2>4. ~immediate
    BY <2>2 DEF WakeInv
  <2>5. QED
    BY <2>2, <2>3, <2>4, WakeUnchanged
<1>4. CASE FreeStop
  <2>1. ~running' /\ immediate' = TRUE /\ UNCHANGED idlistrun
    BY <1>4 DEF FreeStop, WakeupStop, TypeInv, StopsOnlyAtShutdown
  <2>2. QED BY <2>1, WakeImmediate
<1>5. CASE \/ FreeWait \/ FreeWakeup \/ FreeEmpty \/ FreeLater \/ FreeByCaller \/ FreeSpurious
           \/ UNCHANGED vars
  <2>1. UNCHANGED <<queue, idlistrun, pc, running, immediate>>
    BY <1>5 DEF FreeWait, FreeWakeup, FreeEmpty, FreeLater, FreeByCaller, FreeSpurious,
                vars, shared, flags
  <2>2. Blocked' \subseteq Blocked /\ Active \subseteq Active'
    BY <2>1 DEF Blocked, Active
  <2>3. QED BY <2>1, <2>2, WakeUnchanged
<1>6. QED
  BY <1>1, <1>2, <1>3, <1>4, <1>5 DEF Next, FreeSteps

\* A new pool has no blocked thread.
LEMMA WakeInit == Init => WakeInv
<1> SUFFICES ASSUME Init PROVE WakeInv
  OBVIOUS
<1>1. PICK S \in SUBSET Threads : pc = [u \in Threads |-> IF u \in S THEN "start" ELSE "none"]
  BY DEF Init
<1>2. Blocked = {}
  BY <1>1 DEF Blocked
<1>3. QED
  BY <1>2 DEF Init, WakeInv

\* While a task could run beside a blocked thread, one is awake.
LEMMA WakeMeansAwake == TypeInv /\ WakeInv => NoIdleWhileRunnable
<1> SUFFICES ASSUME TypeInv, WakeInv, HasValidTask, Blocked # {}, running \/ ~immediate
             PROVE  \E u \in Threads : pc[u] \in {"start", "top", "woken", "timedout"}
  BY DEF NoIdleWhileRunnable
<1>1. Heads(queue, idlistrun) # {} /\ IsFiniteSet(Heads(queue, idlistrun))
  BY ValidHasHead, HeadsFinite DEF TypeInv, TypeOK
<1>2. Cardinality(Heads(queue, idlistrun)) # 0 /\ Cardinality(Heads(queue, idlistrun)) \in Nat
  BY <1>1, FS_EmptySet, FS_CardinalityType
<1>3. Cardinality(Heads(queue, idlistrun)) <= Cardinality(Active)
  BY DEF WakeInv
<1>4. Active # {}
  <2>1. Cardinality({}) = 0
    BY FS_EmptySet
  <2>2. QED BY <1>2, <1>3, <2>1
<1>5. QED
  BY <1>4 DEF Active

-----------------------------------------------------------------------------
\* The threads that are about to free the pool.
Freeing == {u \in Threads : pc[u] = "free"}

\* The caller of ne_doip_threadpool_free is where the flags say.
Stage ==
  /\ caller = "idle" <=> running
  /\ caller \in {"cwait", "cwoken"} => waiting

\* Who frees the pool is alone, and the only one.
Lone ==
  /\ caller = "free" => Live = {} /\ Freeing = {} /\ freed = 0
  /\ Freeing # {} \/ freed # 0 => Live = {} /\ caller = "done"
  /\ Cardinality(Freeing) + freed <= 1

\* A caller that waited for the work has seen all of it done.
Served == caller \in {"done", "free"} /\ waiting /\ ~immediate => pushed \subseteq done

\* Who frees the pool, and that nobody lives beside him.
FreeInv == Stage /\ Lone /\ Served

\* Every step keeps Stage.
LEMMA StageNext == TypeInv /\ Stage /\ [Next]_vars => Stage'
<1> SUFFICES ASSUME TypeInv, Stage, [Next]_vars PROVE Stage'
  OBVIOUS
<1> USE DEF Stage
<1>1. ASSUME NEW k \in Tasks, Push(k) PROVE Stage'
  BY <1>1 DEF Push, PushFull, PushStart, PushOnly, PushNoThread, flags
<1>2. ASSUME NEW u \in Threads, Work(u) \/ SpuriousWakeup(u) \/ IdleTimeout(u) PROVE Stage'
  <2>1. CASE ExitTop(u) \/ ExitIdle(u)
    BY <2>1 DEF ExitTop, ExitIdle, Exit, Notified
  <2>2. CASE FreeByThread(u)
    BY <2>2 DEF FreeByThread
  <2>3. CASE \/ StartThread(u) \/ TakeTask(u) \/ BlockOnQueue(u) \/ WakeupTake(u)
             \/ WakeupNothing(u) \/ Finish(u) \/ SpuriousWakeup(u) \/ IdleTimeout(u)
    BY <2>3 DEF StartThread, TakeTask, BlockOnQueue, WakeupTake, WakeupNothing, Finish,
                SpuriousWakeup, IdleTimeout, flags
  <2>4. QED BY <1>2, <2>1, <2>2, <2>3 DEF Work
<1>3. CASE CallFree
  BY <1>3 DEF CallFree, FreeCall
<1>4. CASE FreeSteps
  <2>1. ~running
    BY <1>4 DEF FreeSteps, FreeWait, FreeWakeup, FreeEmpty, FreeStop, FreeLater, FreeByCaller
  <2>2. QED
    BY <1>4, <2>1 DEF FreeSteps, FreeWait, FreeWakeup, FreeEmpty, FreeStop, FreeLater,
                      FreeByCaller, FreeMustWait, flags
<1>5. CASE FreeSpurious \/ UNCHANGED vars
  BY <1>5 DEF FreeSpurious, vars, flags
<1>6. QED
  BY <1>1, <1>2, <1>3, <1>4, <1>5 DEF Next

\* While a thread lives nobody frees the pool or has freed it.
LEMMA LiveMeansKept ==
  ASSUME Lone, NEW u \in Threads, u \in Live
  PROVE  Freeing = {} /\ freed = 0 /\ caller # "free"
BY DEF Lone

\* Steps of the living keep Lone as long as they free nothing.
LEMMA LoneKept ==
  ASSUME TypeInv, TypeInv', Freeing = {}, Freeing' = {}, freed = 0, freed' = 0, caller' # "free"
  PROVE  Lone'
<1>1. Cardinality(Freeing') = 0
  BY FS_EmptySet
<1>2. QED
  BY <1>1 DEF Lone

\* Steps that move no thread and leave the caller where he is keep Lone.
LEMMA LoneUnchanged ==
  ASSUME Lone, UNCHANGED <<pc, freed, caller>>
  PROVE  Lone'
BY DEF Lone, Live, Freeing

\* A push is made to a pool that nobody frees.
LEMMA LonePush ==
  ASSUME TypeInv, TypeInv', Stage, Lone, NEW k \in Tasks, Push(k)
  PROVE  Lone'
<1>1. running /\ caller = "idle" /\ UNCHANGED <<freed, caller>>
  BY DEF Push, PushFull, PushStart, PushOnly, PushNoThread, MayPush, flags, Stage
<1>2. Freeing = {} /\ freed = 0
  BY <1>1 DEF Lone
<1>3. ASSUME NEW started, Enqueue(k, started) PROVE Freeing' = {}
  <2> DEFINE f == [v \in Threads |-> IF v \in started THEN "start" ELSE pc[v]]
  <2>1. PICK S \in PushSignals(k) : pc' = Woken(S, f)
    BY <1>3 DEF Enqueue
  <2>2. QED BY <1>2, <2>1 DEF Woken, Freeing
<1>4. Freeing' = {}
  <2>1. CASE PushFull(k)
    BY <1>2, <2>1 DEF PushFull, Freeing
  <2>2. CASE PushStart(k) \/ PushOnly(k) \/ PushNoThread(k)
    BY <1>3, <2>2 DEF PushStart, PushOnly, PushNoThread
  <2>3. QED BY <2>1, <2>2 DEF Push
<1>5. QED
  BY <1>1, <1>2, <1>4, LoneKept

\* The last thread that ends is the only one that frees the pool.
LEMMA LoneExit ==
  ASSUME TypeInv, TypeInv', CountersExact, CountersExact', Stage, Lone,
         NEW u \in Threads, NEW idle, Exit(u, idle), u \in Live, caller # "top"
  PROVE  Lone'
<1>1. Freeing = {} /\ freed = 0 /\ caller # "free"
  BY LiveMeansKept
<1>2. freed' = 0 /\ caller' # "free" /\ running' = running
  BY <1>1 DEF Exit, Notified
<1>3. CASE WakeupStop(num_threads - 1, {u})
  <2> DEFINE f == [v \in Threads |-> IF v \in {u} THEN "none" ELSE pc[v]]
  <2>1. PICK S \in SUBSET Blocked : pc' = Woken(S, f)
    BY <1>3 DEF WakeupStop
  <2>2. Freeing' = {}
    BY <1>1, <2>1 DEF Woken, Freeing
  <2>3. QED BY <1>1, <1>2, <2>2, LoneKept
<1>4. CASE Goto(u, IF Frees(num_threads - 1) THEN "free" ELSE "none")
  <2>1. \A v \in Threads : pc'[v] = IF v # u THEN pc[v]
                                    ELSE IF Frees(num_threads - 1) THEN "free" ELSE "none"
    BY <1>4 DEF Goto, TypeInv, TypeOK
  <2>2. CASE ~Frees(num_threads - 1)
    <3>1. Freeing' = {}
      BY <1>1, <2>1, <2>2 DEF Freeing
    <3>2. QED BY <1>1, <1>2, <3>1, LoneKept
  <2>3. CASE Frees(num_threads - 1)
    <3>1. ~running /\ ~waiting /\ num_threads' = 0
      BY <2>3 DEF Frees, Exit
    <3>2. caller = "done" /\ caller' = "done"
      BY <1>1, <3>1 DEF Stage, Exit, Notified, TypeInv, TypeOK
    <3>3. Live' = {}
      <4>1. IsFiniteSet(Live') /\ Cardinality(Live') = 0
        BY <3>1, ThreadsAssumption, FS_Subset DEF CountersExact, Live
      <4>2. QED BY <4>1, FS_EmptySet
    <3>4. Freeing' = {u}
      BY <1>1, <2>1, <2>3 DEF Freeing
    <3>5. Cardinality(Freeing') = 1
      BY <3>4, FS_Singleton
    <3>6. QED BY <1>2, <3>2, <3>3, <3>5 DEF Lone
  <2>4. QED BY <2>2, <2>3
<1>5. QED
  BY <1>3, <1>4 DEF Exit

\* Every step of a worker keeps Lone.
LEMMA LoneWork ==
  ASSUME TypeInv, TypeInv', CountersExact, CountersExact', Stage, Lone, NEW u \in Threads,
         Work(u) \/ SpuriousWakeup(u) \/ IdleTimeout(u)
  PROVE  Lone'
<1>0. pc \in [Threads -> PC]
  BY DEF TypeInv, TypeOK
<1>1. CASE ExitTop(u) \/ ExitIdle(u)
  <2>1. PICK idle : Exit(u, idle)
    BY <1>1 DEF ExitTop, ExitIdle
  <2>2. u \in Live /\ caller # "top"
    BY <1>1 DEF ExitTop, ExitIdle, Live, LockFree, TypeInv, TypeOK
  <2>3. QED BY <2>1, <2>2, LoneExit
<1>2. CASE FreeByThread(u)
  <2>1. /\ u \in Freeing /\ Live = {} /\ caller = "done" /\ ~running
    BY <1>2 DEF FreeByThread, Freeing, Lone, Stage
  <2>2. num_threads = 0
    BY <2>1, FS_EmptySet DEF CountersExact
  <2>3. freed' = freed + 1 /\ UNCHANGED caller
    BY <1>2, <2>1, <2>2 DEF FreeByThread, InFree
  <2>4. \A v \in Threads : pc'[v] = IF v = u THEN "none" ELSE pc[v]
    BY <1>0, <1>2 DEF FreeByThread, Goto
  <2>5. Freeing' = Freeing \ {u} /\ Live' = {}
    BY <2>1, <2>4 DEF Freeing, Live
  <2>6. /\ IsFiniteSet(Freeing)
        /\ Cardinality(Freeing) \in Nat /\ Cardinality(Freeing') = Cardinality(Freeing) - 1
    <3>1. IsFiniteSet(Freeing)
      BY ThreadsAssumption, FS_Subset DEF Freeing
    <3>2. QED BY <2>1, <2>5, <3>1, FS_RemoveElement, FS_CardinalityType
  <2>7. Cardinality(Freeing') + freed' <= 1
    BY <2>3, <2>6 DEF Lone, TypeInv, TypeOK
  <2>8. QED
    BY <2>1, <2>3, <2>5, <2>7 DEF Lone
<1>3. CASE \/ StartThread(u) \/ TakeTask(u) \/ BlockOnQueue(u) \/ WakeupTake(u)
           \/ WakeupNothing(u) \/ SpuriousWakeup(u) \/ IdleTimeout(u)
  <2>1. u \in Live
    BY <1>3 DEF StartThread, TakeTask, BlockOnQueue, WakeupTake, WakeupNothing,
                SpuriousWakeup, IdleTimeout, Live
  <2>2. PICK l \in PC \ {"free"} : Goto(u, l)
    BY <1>3 DEF StartThread, TakeTask, BlockOnQueue, WakeupTake, WakeupNothing,
                SpuriousWakeup, IdleTimeout, Dispatch, PC
  <2>3. UNCHANGED <<freed, caller>>
    BY <1>3 DEF StartThread, TakeTask, BlockOnQueue, WakeupTake, WakeupNothing,
                SpuriousWakeup, IdleTimeout, flags
  <2>4. Freeing = {} /\ freed = 0 /\ caller # "free"
    BY <2>1, LiveMeansKept
  <2>5. Freeing' = {}
    BY <1>0, <2>2, <2>4 DEF Goto, Freeing
  <2>6. QED BY <2>3, <2>4, <2>5, LoneKept
<1>4. CASE Finish(u)
  <2>1. u \in Live /\ UNCHANGED <<freed, caller>>
    BY <1>4 DEF Finish, Live, flags
  <2>2. Freeing = {} /\ freed = 0 /\ caller # "free"
    BY <2>1, LiveMeansKept
  <2> DEFINE f == [pc EXCEPT ![u] = "top"]
  <2>3. PICK S \in FinishSignals(u) : pc' = Woken(S, f)
    BY <1>4 DEF Finish
  <2>4. Freeing' = {}
    BY <1>0, <2>2, <2>3 DEF Woken, Freeing
  <2>5. QED BY <2>1, <2>2, <2>4, LoneKept
<1>5. QED
  BY <1>1, <1>2, <1>3, <1>4 DEF Work

\* Every step of the caller of ne_doip_threadpool_free keeps Lone.
LEMMA LoneFree ==
  ASSUME TypeInv, TypeInv', CountersExact, Stage, Lone, CallFree \/ FreeSteps \/ FreeSpurious
  PROVE  Lone'
<1>1. CASE CallFree \/ FreeWait \/ FreeWakeup \/ FreeSpurious \/ FreeLater
  <2>1. caller \notin {"free", "done"} /\ caller' # "free" /\ UNCHANGED <<pc, freed>>
    BY <1>1 DEF CallFree, FreeCall, FreeWait, FreeWakeup, FreeSpurious, FreeLater, flags
  <2>2. Freeing = {} /\ freed = 0 /\ Freeing' = {}
    BY <2>1 DEF Lone, Freeing
  <2>3. QED BY <2>1, <2>2, LoneKept
<1>2. CASE FreeEmpty
  <2>1. /\ caller = "top" /\ caller' = "free" /\ num_threads = 0
        /\ UNCHANGED <<pc, freed>>
    BY <1>2 DEF FreeEmpty, flags
  <2>2. Freeing = {} /\ freed = 0
    BY <2>1 DEF Lone
  <2>3. Live = {}
    <3>1. IsFiniteSet(Live) /\ Cardinality(Live) = 0
      BY <2>1, ThreadsAssumption, FS_Subset DEF CountersExact, Live
    <3>2. QED BY <3>1, FS_EmptySet
  <2>4. Freeing' = {} /\ Live' = {}
    BY <2>1, <2>2, <2>3 DEF Freeing, Live
  <2>5. Cardinality(Freeing') = 0
    BY <2>4, FS_EmptySet
  <2>6. QED BY <2>1, <2>2, <2>4, <2>5 DEF Lone
<1>3. CASE FreeStop
  <2>1. caller = "top" /\ caller' = "done" /\ UNCHANGED freed
    BY <1>3 DEF FreeStop
  <2>2. Freeing = {} /\ freed = 0
    BY <2>1 DEF Lone
  <2> DEFINE f == [v \in Threads |-> IF v \in {} THEN "none" ELSE pc[v]]
  <2>3. PICK S \in SUBSET Blocked : pc' = Woken(S, f)
    BY <1>3 DEF FreeStop, WakeupStop
  <2>4. Freeing' = {}
    BY <2>2, <2>3 DEF Woken, Freeing
  <2>5. QED BY <2>1, <2>2, <2>4, LoneKept
<1>4. CASE FreeByCaller
  <2>1. /\ caller = "free" /\ caller' = "done" /\ UNCHANGED pc /\ ~running
    BY <1>4 DEF FreeByCaller, Stage
  <2>2. Live = {} /\ Freeing = {} /\ freed = 0
    BY <2>1 DEF Lone
  <2>3. num_threads = 0
    BY <2>2, FS_EmptySet DEF CountersExact
  <2>4. freed' = 1
    BY <1>4, <2>1, <2>2, <2>3 DEF FreeByCaller, InFree
  <2>5. Freeing' = {} /\ Live' = {}
    BY <2>1, <2>2 DEF Freeing, Live
  <2>6. Cardinality(Freeing') = 0
    BY <2>5, FS_EmptySet
  <2>7. QED BY <2>1, <2>4, <2>5, <2>6 DEF Lone
<1>5. QED
  BY <1>1, <1>2, <1>3, <1>4 DEF FreeSteps

\* A free that waits for the work gets as far as freeing only after it.
LEMMA ServedNext ==
  TypeInv /\ CountersExact /\ PlacesInv /\ Stage /\ Served /\ [Next]_vars => Served'
<1> SUFFICES ASSUME TypeInv, CountersExact, PlacesInv, Stage, Served, [Next]_vars PROVE Served'
  OBVIOUS
<1> USE DEF Served
<1>1. ASSUME NEW k \in Tasks, Push(k) PROVE Served'
  <2>1. caller = "idle" /\ UNCHANGED caller
    BY <1>1 DEF Push, PushFull, PushStart, PushOnly, PushNoThread, MayPush, Stage
  <2>2. QED BY <2>1
<1>2. ASSUME NEW u \in Threads, Work(u) \/ SpuriousWakeup(u) \/ IdleTimeout(u) PROVE Served'
  <2>1. /\ UNCHANGED <<waiting, pushed>> /\ done \subseteq done'
        /\ caller' \in {"done", "free"} => caller' = caller
        /\ ~immediate' => ~immediate
    <3>1. CASE ExitTop(u) \/ ExitIdle(u)
      BY <3>1 DEF ExitTop, ExitIdle, Exit, Notified, WakeupStop, history
    <3>2. CASE FreeByThread(u) \/ StartThread(u) \/ BlockOnQueue(u) \/ WakeupNothing(u)
               \/ Finish(u) \/ SpuriousWakeup(u) \/ IdleTimeout(u) \/ TakeTask(u) \/ WakeupTake(u)
      BY <3>2 DEF FreeByThread, StartThread, TakeTask, BlockOnQueue, WakeupTake, WakeupNothing,
                  Finish, SpuriousWakeup, IdleTimeout, flags, history
    <3>3. QED BY <1>2, <3>1, <3>2 DEF Work
  <2>2. QED BY <2>1
<1>3. CASE CallFree \/ FreeWait \/ FreeWakeup \/ FreeSpurious
  BY <1>3 DEF CallFree, FreeCall, FreeWait, FreeWakeup, FreeSpurious
<1>4. CASE FreeStop \/ FreeLater
  BY <1>4 DEF FreeStop, FreeLater
<1>5. CASE FreeByCaller \/ UNCHANGED vars
  BY <1>5 DEF FreeByCaller, vars, flags, history
<1>6. CASE FreeEmpty
  <2> SUFFICES ASSUME ~immediate PROVE pushed \subseteq done
    BY <1>6 DEF FreeEmpty, flags, history
  <2>1. num_threads = 0 /\ Drained
    BY <1>6 DEF FreeEmpty
  <2>2. queue = <<>>
    BY <2>1, DrainedIsIdle DEF DrainedMeansIdle
  <2>3. DOMAIN queue = {}
    BY <2>2, NoPlaces DEF TypeInv, TypeOK
  <2>4. Live = {}
    <3>1. IsFiniteSet(Live) /\ Cardinality(Live) = 0
      BY <2>1, ThreadsAssumption, FS_Subset DEF CountersExact, Live
    <3>2. QED BY <3>1, FS_EmptySet
  <2>5. \A u \in Threads : cur[u] = None
    BY <2>4 DEF Live, TypeInv, TypeOK
  <2>6. ASSUME NEW k \in pushed PROVE k \in done
    <3>1. k \in Tasks
      BY DEF TypeInv, TypeOK
    <3>2. QED BY <2>3, <2>5, <3>1, TasksAssumption DEF PlacesInv, Placed
  <2>7. QED BY <2>6
<1>7. QED
  BY <1>1, <1>2, <1>3, <1>4, <1>5, <1>6 DEF Next, FreeSteps

\* Nobody frees a new pool.
LEMMA FreeInvInit == Init => FreeInv
<1> SUFFICES ASSUME Init PROVE FreeInv
  OBVIOUS
<1>1. PICK S \in SUBSET Threads : pc = [u \in Threads |-> IF u \in S THEN "start" ELSE "none"]
  BY DEF Init
<1>2. Freeing = {}
  BY <1>1 DEF Freeing
<1>3. Cardinality(Freeing) = 0
  BY <1>2, FS_EmptySet
<1>4. QED
  BY <1>2, <1>3 DEF Init, FreeInv, Stage, Lone, Served

\* From who frees the pool to what the callers see of it.
LEMMA FreeInvMeans == TypeInv /\ CountersExact /\ FreeInv => FreedOnce
<1> SUFFICES ASSUME TypeInv, CountersExact, FreeInv PROVE FreedOnce
  OBVIOUS
<1>1. Cardinality(Freeing) \in Nat
  <2>1. IsFiniteSet(Freeing)
    BY ThreadsAssumption, FS_Subset DEF Freeing
  <2>2. QED BY <2>1, FS_CardinalityType
<1>2. freed <= 1
  BY <1>1 DEF FreeInv, Lone, TypeInv, TypeOK
<1>3. freed = 1 => Live = {} /\ caller \in {"idle", "done"} /\ waiting_thread = 0
  <2> SUFFICES ASSUME freed = 1 PROVE Live = {} /\ caller = "done" /\ waiting_thread = 0
    OBVIOUS
  <2>1. Live = {} /\ caller = "done"
    BY DEF FreeInv, Lone
  <2>2. Idle = {}
    BY <2>1 DEF Idle, Live
  <2>3. waiting_thread = 0
    BY <2>2, FS_EmptySet DEF CountersExact
  <2>4. QED BY <2>1, <2>3
<1>4. Cardinality(Freeing) + (IF caller = "free" THEN 1 ELSE 0) + freed <= 1
  <2>1. CASE caller = "free"
    <3>1. Cardinality(Freeing) = 0 /\ freed = 0
      BY <2>1, FS_EmptySet DEF FreeInv, Lone
    <3>2. QED BY <2>1, <3>1
  <2>2. CASE caller # "free"
    <3>1. Cardinality(Freeing) + freed <= 1
      BY DEF FreeInv, Lone
    <3> HIDE DEF Freeing
    <3>2. QED BY <1>1, <2>2, <3>1 DEF TypeInv, TypeOK
  <2>3. QED BY <2>1, <2>2
<1>5. caller \in {"done", "free"} /\ waiting /\ ~immediate => pushed \subseteq done
  BY DEF FreeInv, Served
<1>6. QED
  BY <1>2, <1>3, <1>4, <1>5 DEF FreedOnce, Freeing

-----------------------------------------------------------------------------
\* The invariant that the theorems below rest on.
PoolInv == TypeInv /\ CountersExact /\ PlacesInv /\ WakeInv /\ FreeInv

\* Every step keeps PoolInv.
LEMMA PoolInvNext == PoolInv /\ TypeInv' /\ CountersExact' /\ [Next]_vars => PoolInv'
<1> SUFFICES ASSUME PoolInv, TypeInv', CountersExact', [Next]_vars PROVE PoolInv'
  OBVIOUS
<1> USE DEF PoolInv
<1>1. Stage /\ Lone /\ Served
  BY DEF FreeInv
<1>2. PlacesInv' /\ WakeInv' /\ Stage' /\ Served'
  BY <1>1, PlacesNext, WakeNext, StageNext, ServedNext
<1>3. Lone'
  <2>1. ASSUME NEW k \in Tasks, Push(k) PROVE Lone'
    BY <1>1, <2>1, LonePush
  <2>2. ASSUME NEW u \in Threads, Work(u) \/ SpuriousWakeup(u) \/ IdleTimeout(u) PROVE Lone'
    BY <1>1, <2>2, LoneWork
  <2>3. CASE CallFree \/ FreeSteps \/ FreeSpurious
    BY <1>1, <2>3, LoneFree
  <2>4. CASE UNCHANGED vars
    BY <1>1, <2>4, LoneUnchanged DEF vars, flags
  <2>5. QED BY <2>1, <2>2, <2>3, <2>4 DEF Next
<1>4. FreeInv'
  BY <1>2, <1>3 DEF FreeInv
<1>5. QED
  BY <1>2, <1>4

\* PoolInv is inductive, with the help of the invariants above.
LEMMA PoolInvariant == Spec => []PoolInv
<1>1. Init => PlacesInv /\ WakeInv /\ FreeInv
  BY PlacesInit, WakeInit, FreeInvInit
<1>2. TypeInv /\ CountersExact /\ PlacesInv /\ WakeInv /\ FreeInv <=> PoolInv
  BY DEF PoolInv
<1>3. QED
  BY <1>1, <1>2, PoolInvNext, TypeInvariant, CountersAreExact, PTL DEF Spec

\* The work of the pool is accounted for: no pushed task is lost or run twice,
\* a task that could run finds a thread awake, and the end of all work is
\* recognised exactly when it has come.
THEOREM WorkIsAccounted == Spec => []WorkAccounted
<1>1. PoolInv => WorkAccounted
  BY PlacesCounted, WakeMeansAwake, DrainedIsIdle DEF PoolInv, WorkAccounted
<1>2. QED
  BY <1>1, PoolInvariant, PTL

\* The pool is freed at most once, by the last thread or by the caller, when no
\* thread lives, and after all the work if the caller waited for it.
THEOREM PoolFreedOnce == Spec => []FreedOnce
<1>1. PoolInv => FreedOnce
  BY FreeInvMeans DEF PoolInv
<1>2. QED
  BY <1>1, PoolInvariant, PTL

-----------------------------------------------------------------------------
\* The threads that run a callback.
Runners == {u \in Threads : Running(u)}

\* While tasks are pushed, taskcount counts what is queued and what runs: the
\* bound NE_DOIP_MAX_QUEUE_CNT covers both.
CountInv == running => taskcount = Len(queue) + Cardinality(Runners)

\* No step has to be looked at that changes neither the queue nor the runners.
LEMMA CountUnchanged ==
  ASSUME TypeInv, TypeInv', CountInv, UNCHANGED <<queue, taskcount, cur>>, running' => running
  PROVE  CountInv'
<1>1. Runners' = Runners
  BY DEF Runners, Running, TypeInv, TypeOK
<1>2. QED
  BY <1>1 DEF CountInv

\* A queue without one of its entries is one shorter.
LEMMA DroppedLength ==
  ASSUME NEW S, NEW q \in Seq(S), NEW p \in DOMAIN q, NEW r, r = Dropped(p, q)
  PROVE  Len(r) = Len(q) - 1
<1>1. r = WithoutPlace(q, p) /\ p \in 1 .. Len(q)
  BY LenProperties DEF Dropped, WithoutPlace
<1>2. QED
  BY <1>1, TakenOut

\* A dispatched task counts on, as a running one.
LEMMA CountDispatch ==
  ASSUME TypeInv, TypeInv', CountInv, NEW u \in Threads, NEW p \in DOMAIN queue, Dispatch(u, p),
         pc[u] # "run", UNCHANGED running
  PROVE  CountInv'
<1> SUFFICES ASSUME running' PROVE taskcount' = Len(queue') + Cardinality(Runners')
  BY DEF CountInv
<1>1. running /\ queue' = Dropped(p, queue) /\ taskcount' = taskcount /\ pc' = [pc EXCEPT ![u] = "run"]
  BY DEF Dispatch, Goto
<1>2. Len(queue') = Len(queue) - 1 /\ Len(queue) \in Nat
  <2>1. queue \in Seq(Entries)
    BY DEF TypeInv, TypeOK
  <2>2. QED BY <1>1, <2>1, DroppedLength, LenProperties
<1>3. Runners' = Runners \cup {u} /\ u \notin Runners /\ Runners \in SUBSET Threads
  BY <1>1 DEF Runners, Running, TypeInv, TypeOK
<1>4. Cardinality(Runners') = Cardinality(Runners) + 1 /\ Cardinality(Runners) \in Nat
  BY <1>3, OneMoves
<1>5. taskcount = Len(queue) + Cardinality(Runners)
  BY <1>1 DEF CountInv
<1>6. QED
  BY <1>1, <1>2, <1>4, <1>5

\* A finished task counts no longer.
LEMMA CountFinish ==
  ASSUME TypeInv, TypeInv', CountInv, NEW u \in Threads, Finish(u)
  PROVE  CountInv'
<1> SUFFICES ASSUME running' PROVE taskcount' = Len(queue') + Cardinality(Runners')
  BY DEF CountInv
<1>1. /\ running /\ queue' = queue /\ taskcount' = taskcount - 1
      /\ cur' = [cur EXCEPT ![u] = None] /\ Running(u)
  BY DEF Finish, flags, Running
<1>2. Runners' = Runners \ {u} /\ u \in Runners /\ Runners \in SUBSET Threads
  BY <1>1 DEF Runners, Running, TypeInv, TypeOK
<1>3. Cardinality(Runners') = Cardinality(Runners) - 1 /\ Cardinality(Runners) \in Nat
  BY <1>2, OneMoves
<1>4. taskcount = Len(queue) + Cardinality(Runners) /\ Len(queue) \in Nat
  BY <1>1, LenProperties DEF CountInv, TypeInv, TypeOK
<1>5. QED
  BY <1>1, <1>3, <1>4

\* A pushed task counts.
LEMMA CountEnqueue ==
  ASSUME TypeInv, TypeInv', CountInv, NEW k \in Tasks, NEW started, Enqueue(k, started), running,
         UNCHANGED cur
  PROVE  CountInv'
<1>1. queue' = Append(queue, k) /\ taskcount' = taskcount + 1
  BY DEF Enqueue
<1>2. Len(queue') = Len(queue) + 1 /\ Len(queue) \in Nat
  <2>1. queue \in Seq(Entries) /\ k \in Entries
    BY DEF TypeInv, TypeOK, Entries
  <2>2. QED BY <1>1, <2>1, AppendProperties, LenProperties
<1>3. Runners' = Runners /\ Cardinality(Runners) \in Nat
  <2>1. Runners' = Runners /\ Runners \in SUBSET Threads
    BY DEF Runners, Running, TypeInv, TypeOK
  <2>2. QED BY <2>1, ThreadsAssumption, FS_Subset, FS_CardinalityType
<1>4. taskcount = Len(queue) + Cardinality(Runners)
  BY DEF CountInv
<1>5. QED
  BY <1>1, <1>2, <1>3, <1>4 DEF CountInv

\* Every step keeps CountInv.
LEMMA CountNext == TypeInv /\ TypeInv' /\ CountInv /\ [Next]_vars => CountInv'
<1> SUFFICES ASSUME TypeInv, TypeInv', CountInv, [Next]_vars PROVE CountInv'
  OBVIOUS
<1>1. ASSUME NEW k \in Tasks, Push(k) PROVE CountInv'
  <2>1. CASE PushFull(k)
    BY <2>1, CountUnchanged DEF PushFull, shared, flags
  <2>2. CASE PushStart(k) \/ PushOnly(k) \/ PushNoThread(k)
    BY <2>2, CountEnqueue DEF PushStart, PushOnly, PushNoThread, MayPush
  <2>3. QED BY <1>1, <2>1, <2>2 DEF Push
<1>2. ASSUME NEW u \in Threads, Work(u) \/ SpuriousWakeup(u) \/ IdleTimeout(u) PROVE CountInv'
  <2>1. CASE TakeTask(u)
    BY <2>1, CountDispatch DEF TakeTask, flags
  <2>2. CASE WakeupTake(u)
    BY <2>2, CountDispatch DEF WakeupTake, flags
  <2>3. CASE Finish(u)
    BY <2>3, CountFinish
  <2>4. CASE ExitTop(u) \/ ExitIdle(u)
    <3>1. PICK idle : Exit(u, idle)
      BY <2>4 DEF ExitTop, ExitIdle
    <3>2. CASE running'
      BY <3>1, <3>2, CountUnchanged DEF Exit
    <3>3. CASE ~running'
      BY <3>3 DEF CountInv
    <3>4. QED BY <3>2, <3>3
  <2>5. CASE StartThread(u) \/ BlockOnQueue(u) \/ WakeupNothing(u) \/ FreeByThread(u)
             \/ SpuriousWakeup(u) \/ IdleTimeout(u)
    BY <2>5, CountUnchanged
       DEF StartThread, BlockOnQueue, WakeupNothing, FreeByThread, SpuriousWakeup, IdleTimeout,
           shared, flags
  <2>6. QED BY <1>2, <2>1, <2>2, <2>3, <2>4, <2>5 DEF Work
<1>3. CASE CallFree \/ FreeSteps \/ FreeSpurious
  <2>1. CASE ~running'
    BY <2>1 DEF CountInv
  <2>2. CASE running'
    <3>1. UNCHANGED <<queue, taskcount, cur>> /\ running
      BY <1>3, <2>2 DEF CallFree, FreeCall, FreeSteps, FreeWait, FreeWakeup, FreeEmpty, FreeStop,
             FreeLater, FreeByCaller, FreeSpurious, shared, flags, TypeInv, StopsOnlyAtShutdown
    <3>2. QED BY <3>1, CountUnchanged
  <2>3. QED BY <2>1, <2>2
<1>4. CASE UNCHANGED vars
  BY <1>4, CountUnchanged DEF vars, shared, flags
<1>5. QED
  BY <1>1, <1>2, <1>3, <1>4 DEF Next

\* A new pool counts no task.
LEMMA CountInit == Init => CountInv
<1> SUFFICES ASSUME Init PROVE CountInv
  OBVIOUS
<1>1. PICK S \in SUBSET Threads : pc = [u \in Threads |-> IF u \in S THEN "start" ELSE "none"]
  BY DEF Init
<1>2. Runners = {}
  BY <1>1 DEF Runners, Running
<1>3. Cardinality(Runners) = 0
  BY <1>2, FS_EmptySet
<1>4. Len(<<>>) = 0
  BY EmptySeq
<1>5. QED
  BY <1>3, <1>4 DEF Init, CountInv

\* What the refinement relies on.
FullInv == PoolInv /\ GroupInv /\ CountInv

\* FullInv holds in every reachable state.
LEMMA FullInvariant == Spec => []FullInv
<1>1. GroupInv /\ CountInv /\ PoolInv => FullInv
  BY DEF FullInv
<1>2. Init => GroupInv /\ CountInv
  BY CountInit, TypeInvInit DEF Init, GroupInv, Registered, GroupExclusion, Running, TypeInv, TypeOK
<1>3. QED
  BY <1>1, <1>2, GroupInvNext, CountNext, PoolInvariant, TypeInvariant, PTL DEF Spec

\* There are no more running tasks than threads that run one.
LEMMA RunsCounted ==
  ASSUME TypeInv
  PROVE  /\ IsFiniteSet(Executing) /\ Cardinality(Executing) \in Nat /\ Cardinality(Runners) \in Nat
         /\ Cardinality(Executing) <= Cardinality(Runners)
<1> DEFINE f == [u \in Runners |-> cur[u]]
<1>1. IsFiniteSet(Runners)
  BY ThreadsAssumption, FS_Subset DEF Runners
<1>2. \A k : k \in Executing <=> \E u \in Runners : cur[u] = k
  BY DEF Executing, Runners, Running, TypeInv, TypeOK
<1>3. f \in Surjection(Runners, Executing)
  BY <1>2 DEF Surjection
<1> HIDE DEF f
<1>4. IsFiniteSet(Executing) /\ Cardinality(Executing) <= Cardinality(Runners)
  BY <1>1, <1>3, FS_Surjection
<1>5. QED
  BY <1>1, <1>4, FS_CardinalityType

\* The executor counts as the pool does.
LEMMA SameCount == \A S : Executor!Cardinality(S) = Cardinality(S)
BY Zenon DEF Executor!Cardinality, Cardinality

\* A step that the executor does not see.
LEMMA ExecutorStutter ==
  ASSUME UNCHANGED <<queue, cur, done, running, immediate>>
  PROVE  UNCHANGED Executor!vars
BY DEF Executor!vars, Backlog, Executing

\* A push that is not refused for the length of the queue is accepted.
LEMMA ExecutorAccept ==
  ASSUME FullInv, NEW k \in Tasks, MayPush(k), taskcount < MaxQueue, queue' = Append(queue, k),
         UNCHANGED <<cur, done, running, immediate>>
  PROVE  Executor!Next
<1>1. running /\ ~immediate /\ k \notin pushed
  BY DEF MayPush, FullInv, PoolInv, WakeInv
<1>2. Backlog = queue /\ Backlog' = Append(queue, k)
  BY <1>1 DEF Backlog
<1>3. k \notin Executing /\ k \notin done
  BY <1>1, TasksAssumption DEF Executing, FullInv, PoolInv, PlacesInv
<1>4. Len(queue) + Cardinality(Executing) < MaxQueue
  <2>1. taskcount = Len(queue) + Cardinality(Runners) /\ Len(queue) \in Nat
    BY <1>1, LenProperties DEF FullInv, CountInv, PoolInv, TypeInv, TypeOK
  <2>2. Cardinality(Executing) \in Nat /\ Cardinality(Runners) \in Nat
        /\ Cardinality(Executing) <= Cardinality(Runners)
    BY RunsCounted DEF FullInv, PoolInv
  <2>3. QED BY <2>1, <2>2, LimitAssumption
<1>5. Executor!Accept(k)
  <2>1. Executing' = Executing
    BY DEF Executing
  <2>2. Len(Backlog) + Executor!Cardinality(Executing) < MaxQueue
    BY <1>2, <1>4, SameCount
  <2>3. Backlog' = Append(Backlog, k)
    BY <1>2
  <2>4. UNCHANGED <<Executing, done, running, immediate>>
    BY <2>1
  <2>5. QED BY <1>1, <2>2, <2>3, <2>4, Zenon DEF Executor!Accept
<1>6. QED
  BY <1>3, <1>5 DEF Executor!Next

\* A thread that takes a task starts it: the task is the first of its group,
\* no other of the group runs, and no more tasks run than there are threads.
LEMMA ExecutorStart ==
  ASSUME FullInv, NEW u \in Threads, NEW p \in DOMAIN queue, IsValidTask(p), Dispatch(u, p),
         pc[u] \in {"top", "woken"}, UNCHANGED <<done, running, immediate>>
  PROVE  [Executor!Next]_Executor!vars
<1> USE DEF FullInv, PoolInv
<1>1. CASE immediate
  <2>1. ~running /\ UNCHANGED cur
    BY <1>1 DEF WakeInv, Dispatch
  <2>2. UNCHANGED Executor!vars
    BY <1>1, <2>1 DEF Executor!vars, Backlog, Executing
  <2>3. QED BY <2>2
<1>2. CASE ~immediate
  <2>1. queue[p] \in Tasks /\ \A i \in DOMAIN queue : queue[i] \in Tasks
    BY <1>2, QueueTypes DEF TypeInv, StopsOnlyAtShutdown
  <2>2. /\ queue' = Dropped(p, queue) /\ cur' = [cur EXCEPT ![u] = queue[p]]
        /\ Backlog = queue /\ Backlog' = queue'
    BY <1>2 DEF Dispatch, Backlog
  <2>3. Executing' = Executing \cup {queue[p]}
    <3>1. cur[u] = None /\ queue[p] # None
      BY <2>1, TasksAssumption DEF TypeInv, TypeOK
    <3>2. \A v \in Threads : cur'[v] = IF v = u THEN queue[p] ELSE cur[v]
      BY <2>2 DEF TypeInv, TypeOK
    <3>3. QED BY <3>1, <3>2 DEF Executing
  <2>4. Cardinality(Executing) < MaxThreads
    <3>1. Runners \subseteq Live \ {u} /\ u \in Live /\ IsFiniteSet(Live)
      BY ThreadsAssumption, FS_Subset DEF Runners, Running, Live
    <3>2. IsFiniteSet(Live \ {u}) /\ Cardinality(Live \ {u}) = Cardinality(Live) - 1
      BY <3>1, FS_RemoveElement
    <3>3. Cardinality(Runners) <= Cardinality(Live \ {u})
      BY <3>1, <3>2, FS_Subset
    <3>4. Cardinality(Live) = num_threads /\ num_threads <= MaxThreads /\ num_threads \in Int
      BY DEF CountersExact, TypeInv, TypeOK
    <3>5. Cardinality(Executing) \in Nat /\ Cardinality(Runners) \in Nat
          /\ Cardinality(Executing) <= Cardinality(Runners)
      BY RunsCounted
    <3>6. QED BY <3>2, <3>3, <3>4, <3>5, LimitAssumption
  <2>5. ASSUME NEW k \in Executing PROVE ~(Id[k] # 0 /\ Id[k] = Id[queue[p]])
    <3>1. PICK v \in Threads : Running(v) /\ cur[v] = k /\ k \in Tasks
      BY DEF Executing, Running, TypeInv, TypeOK
    <3>2. IdOf(k) = Id[k] /\ IdOf(queue[p]) = Id[queue[p]]
      BY <2>1, <3>1, TasksAssumption DEF IdOf
    <3>3. IdOf(queue[p]) \notin idlistrun
      BY DEF IsValidTask, Valid
    <3>4. IdOf(k) # 0 => IdOf(k) \in idlistrun
      BY <3>1 DEF GroupInv, Registered
    <3>5. QED BY <3>2, <3>3, <3>4
  <2>6. ASSUME NEW j \in 1 .. p - 1 PROVE ~(Id[queue[j]] # 0 /\ Id[queue[j]] = Id[queue[p]])
    <3>1. DOMAIN queue = 1 .. Len(queue) /\ Len(queue) \in Nat
      BY LenProperties DEF TypeInv, TypeOK
    <3>2. j \in DOMAIN queue /\ ~Valid(j)
      BY <3>1 DEF IsValidTask
    <3>3. IdOf(queue[j]) = Id[queue[j]] /\ IdOf(queue[p]) = Id[queue[p]]
      BY <2>1, <3>2, TasksAssumption DEF IdOf
    <3>4. IdOf(queue[j]) \in idlistrun /\ IdOf(queue[p]) \notin idlistrun
      BY <3>2 DEF IsValidTask, Valid
    <3>5. QED BY <3>3, <3>4
  <2>7. Executor!Ready(p)
    <3>1. Backlog[p] = queue[p] /\ \A j \in 1 .. p - 1 : Backlog[j] = queue[j]
      BY <2>2
    <3>2. \A k \in Executing : ~Executor!SameGroup(k, Backlog[p])
      BY <2>5, <3>1 DEF Executor!SameGroup
    <3>3. \A j \in 1 .. p - 1 : ~Executor!SameGroup(Backlog[j], Backlog[p])
      BY <2>6, <3>1 DEF Executor!SameGroup
    <3>4. Executor!Cardinality(Executing) < MaxThreads
      BY <2>4, SameCount
    <3>5. QED BY <3>2, <3>3, <3>4, Zenon DEF Executor!Ready
  <2>8. Backlog' = Executor!Without(p)
    BY <2>2 DEF Executor!Without, Dropped
  <2>9. Executor!Start(p)
    BY <1>2, <2>2, <2>3, <2>7, <2>8 DEF Executor!Start
  <2>10. QED
    BY <2>2, <2>9 DEF Executor!Next, Executor!StartSome
<1>3. QED
  BY <1>1, <1>2

\* A callback that returns completes its task.
LEMMA ExecutorComplete ==
  ASSUME FullInv, NEW u \in Threads, Finish(u)
  PROVE  Executor!Next
<1> USE DEF FullInv, PoolInv
<1>1. /\ cur[u] \in Tasks /\ done' = done \cup {cur[u]}
      /\ UNCHANGED <<queue, running, immediate>>
      /\ \A v \in Threads : cur'[v] = IF v = u THEN None ELSE cur[v]
  BY DEF Finish, flags, TypeInv, TypeOK
<1>2. Executing' = Executing \ {cur[u]} /\ cur[u] \in Executing
  <2>1. \A v \in Threads : cur[v] = cur[u] => v = u
    BY <1>1 DEF PlacesInv
  <2>2. QED BY <1>1, <2>1, TasksAssumption DEF Executing
<1>3. Executor!Complete(cur[u])
  BY <1>1, <1>2 DEF Executor!Complete, Backlog
<1>4. QED
  BY <1>2, <1>3 DEF Executor!Next

\* The stop entries follow when everything is done, or the shutdown is immediate.
LEMMA ExecutorCloseNow ==
  ASSUME ~running, immediate' = TRUE, immediate \/ queue = <<>>,
         UNCHANGED <<cur, done, running>>
  PROVE  [Executor!Next]_Executor!vars
<1>1. CASE immediate
  <2>1. UNCHANGED Executor!vars
    BY <1>1 DEF Executor!vars, Backlog, Executing
  <2>2. QED BY <2>1
<1>2. CASE ~immediate /\ queue = <<>>
  <2>1. Executor!CloseNow
    BY <1>2 DEF Executor!CloseNow, Backlog, Executing
  <2>2. QED BY <2>1 DEF Executor!Next
<1>3. QED
  BY <1>1, <1>2

\* The last thread but the idle ones finds the queue empty.
LEMMA ExecutorExit ==
  ASSUME FullInv, NEW u \in Threads, ExitTop(u) \/ ExitIdle(u)
  PROVE  [Executor!Next]_Executor!vars
<1> USE DEF FullInv, PoolInv
<1>1. PICK idle \in Int :
        /\ Exit(u, idle) /\ u \in Live
        /\ idle = IF u \in Idle THEN waiting_thread - 1 ELSE waiting_thread
  BY DEF ExitTop, ExitIdle, AfterWait, Live, Idle, TypeInv, TypeOK
<1>2. UNCHANGED <<cur, done, running>>
  BY <1>1 DEF Exit, history
<1>3. CASE /\ ~running /\ GrLength(queue, idle) = -(num_threads - 1)
           /\ immediate' = TRUE
  <2>1. PICK units \in Nat :
          /\ \A n \in Int : GrLength(queue, n) = units - n
          /\ units = 0 <=> queue = <<>>
    BY UnitsOfQueue DEF TypeInv, TypeOK
  <2>2. /\ Idle \ {u} \subseteq Live \ {u} /\ IsFiniteSet(Live) /\ IsFiniteSet(Idle)
        /\ IsFiniteSet(Live \ {u}) /\ IsFiniteSet(Idle \ {u})
    BY ThreadsAssumption, FS_Subset DEF Live, Idle
  <2>3. Cardinality(Idle \ {u}) <= Cardinality(Live \ {u})
    BY <2>2, FS_Subset
  <2>4. Cardinality(Live \ {u}) = num_threads - 1
    BY <1>1, <2>2, FS_RemoveElement DEF CountersExact
  <2>5. Cardinality(Idle \ {u}) = idle
    <3>1. CASE u \in Idle
      BY <1>1, <2>2, <3>1, FS_RemoveElement DEF CountersExact
    <3>2. CASE u \notin Idle
      <4>1. Idle \ {u} = Idle
        BY <3>2
      <4>2. QED BY <1>1, <3>2, <4>1 DEF CountersExact
    <3>3. QED BY <3>1, <3>2
  <2>6. idle <= num_threads - 1 /\ num_threads \in Int
    BY <2>3, <2>4, <2>5 DEF TypeInv, TypeOK
  <2>7. units - idle = -(num_threads - 1)
    BY <1>3, <2>1
  <2>8. units = 0
    BY <2>6, <2>7
  <2>9. queue = <<>>
    BY <2>1, <2>8
  <2>10. QED
    BY <1>2, <1>3, <2>9, ExecutorCloseNow
<1>4. CASE UNCHANGED <<queue, immediate>>
  BY <1>2, <1>4, ExecutorStutter
<1>5. QED
  BY <1>1, <1>3, <1>4 DEF Exit, WakeupStop

\* Every step of the pool is a step of the executor, or none it sees.
LEMMA ExecutorNext == FullInv /\ [Next]_vars => [Executor!Next]_Executor!vars
<1> SUFFICES ASSUME FullInv, [Next]_vars PROVE [Executor!Next]_Executor!vars
  OBVIOUS
<1>1. ASSUME NEW k \in Tasks, Push(k) PROVE [Executor!Next]_Executor!vars
  <2>1. CASE PushFull(k)
    BY <2>1, ExecutorStutter DEF PushFull, shared, flags
  <2>2. CASE PushStart(k) \/ PushOnly(k) \/ PushNoThread(k)
    BY <2>2, ExecutorAccept DEF PushStart, PushOnly, PushNoThread, Enqueue, flags
  <2>3. QED BY <1>1, <2>1, <2>2 DEF Push
<1>2. ASSUME NEW u \in Threads, Work(u) \/ SpuriousWakeup(u) \/ IdleTimeout(u)
      PROVE  [Executor!Next]_Executor!vars
  <2>1. CASE TakeTask(u)
    BY <2>1, ExecutorStart DEF TakeTask, flags, history
  <2>2. CASE WakeupTake(u)
    BY <2>2, ExecutorStart DEF WakeupTake, flags, history
  <2>3. CASE Finish(u)
    BY <2>3, ExecutorComplete
  <2>4. CASE ExitTop(u) \/ ExitIdle(u)
    BY <2>4, ExecutorExit
  <2>5. CASE StartThread(u) \/ BlockOnQueue(u) \/ WakeupNothing(u) \/ FreeByThread(u)
             \/ SpuriousWakeup(u) \/ IdleTimeout(u)
    BY <2>5, ExecutorStutter
       DEF StartThread, BlockOnQueue, WakeupNothing, FreeByThread, SpuriousWakeup, IdleTimeout,
           shared, flags, history
  <2>6. QED BY <1>2, <2>1, <2>2, <2>3, <2>4, <2>5 DEF Work
<1>3. CASE CallFree
  <2>1. PICK imm \in BOOLEAN, wait \in BOOLEAN : FreeCall(imm, wait)
    BY <1>3 DEF CallFree
  <2>2. ~immediate
    BY <2>1 DEF FreeCall, FullInv, PoolInv, WakeInv
  <2>3. Executor!Close
    BY <2>1, <2>2 DEF FreeCall, Executor!Close, Backlog, Executing, shared, history
  <2>4. QED BY <2>3 DEF Executor!Next
<1>4. CASE FreeStop
  <2>1. /\ ~running /\ immediate' = TRUE /\ (immediate \/ Drained)
        /\ UNCHANGED <<cur, done, running>>
    BY <1>4 DEF FreeStop, WakeupStop, history, FullInv, PoolInv, TypeInv, StopsOnlyAtShutdown
  <2>2. Drained => queue = <<>>
    BY DrainedIsIdle DEF DrainedMeansIdle, FullInv, PoolInv
  <2>3. QED BY <2>1, <2>2, ExecutorCloseNow
<1>5. CASE \/ FreeWait \/ FreeWakeup \/ FreeEmpty \/ FreeLater \/ FreeByCaller \/ FreeSpurious
           \/ UNCHANGED vars
  BY <1>5, ExecutorStutter
     DEF FreeWait, FreeWakeup, FreeEmpty, FreeLater, FreeByCaller, FreeSpurious,
         vars, shared, flags, history
<1>6. QED
  BY <1>1, <1>2, <1>3, <1>4, <1>5 DEF Next, FreeSteps

\* The pool implements the executor that its header promises: at most
\* max_threads tasks at a time, one at a time and in the order of their push
\* within a group, at most NE_DOIP_MAX_QUEUE_CNT unfinished, and none dropped
\* but by an immediate shutdown.
THEOREM PoolImplementsExecutor == Spec => ImplementsExecutor
<1>1. Init => Executor!Init
  <2> SUFFICES ASSUME Init PROVE Executor!Init
    OBVIOUS
  <2>1. Executing = {}
    BY DEF Init, Executing
  <2>2. QED BY <2>1 DEF Init, Executor!Init, Backlog
<1>2. QED
  BY <1>1, ExecutorNext, FullInvariant, PTL DEF Spec, Executor!Spec, ImplementsExecutor
=============================================================================
