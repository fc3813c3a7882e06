---------------------------- MODULE TaskExecutor ----------------------------
(***************************************************************************)
(* What the pool of ne_doip_threadpool.h promises to the code that pushes: *)
(* a bounded store of tasks, at most Workers of which run at a time; the   *)
(* tasks of one non-zero group run one after the other, in the order of    *)
(* their push; only an immediate shutdown drops tasks, all that wait.      *)
(***************************************************************************)
EXTENDS Naturals, Sequences, FiniteSets

CONSTANTS Tasks, Id, Workers, Capacity

VARIABLES
  pending,    \* the accepted tasks that have not started, oldest first
  executing,  \* the tasks whose callback runs
  finished,   \* the tasks whose callback has returned
  open,       \* tasks are accepted
  dropping    \* an immediate shutdown was requested

vars == <<pending, executing, finished, open, dropping>>

Init ==
  /\ pending = <<>> /\ executing = {} /\ finished = {}
  /\ open = TRUE /\ dropping = FALSE

Without(i) == SubSeq(pending, 1, i - 1) \o SubSeq(pending, i + 1, Len(pending))

Accept(k) ==
  /\ open
  /\ Len(pending) + Cardinality(executing) < Capacity
  /\ pending' = Append(pending, k)
  /\ UNCHANGED <<executing, finished, open, dropping>>

SameGroup(j, k) == Id[j] # 0 /\ Id[j] = Id[k]

Ready(i) ==
  /\ Cardinality(executing) < Workers
  /\ \A k \in executing : ~SameGroup(k, pending[i])
  /\ \A j \in 1 .. i - 1 : ~SameGroup(pending[j], pending[i])

Start(i) ==
  /\ ~dropping
  /\ Ready(i)
  /\ pending' = Without(i)
  /\ executing' = executing \cup {pending[i]}
  /\ UNCHANGED <<finished, open, dropping>>

Complete(k) ==
  /\ executing' = executing \ {k}
  /\ finished' = finished \cup {k}
  /\ UNCHANGED <<pending, open, dropping>>

\* From an immediate shutdown on no task starts: those that wait are dropped.
Close ==
  /\ open
  /\ open' = FALSE
  /\ dropping' \in BOOLEAN
  /\ pending' = IF dropping' THEN <<>> ELSE pending
  /\ UNCHANGED <<executing, finished>>

\* A shutdown that has run everything may turn into an immediate one.
CloseNow ==
  /\ ~open /\ pending = <<>>
  /\ dropping' = TRUE
  /\ UNCHANGED <<pending, executing, finished, open>>

StartSome == \E i \in DOMAIN pending : Start(i)

Next ==
  \/ \E k \in Tasks \ (executing \cup finished) : Accept(k)
  \/ StartSome
  \/ \E k \in executing : Complete(k)
  \/ Close \/ CloseNow

Spec == Init /\ [][Next]_vars

\* Something that can start does start, and what runs ends.
FairSpec ==
  /\ Spec
  /\ WF_vars(StartSome)
  /\ WF_vars(\E k \in executing : Complete(k))
=============================================================================
