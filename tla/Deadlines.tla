------------------------------ MODULE Deadlines ------------------------------
(***************************************************************************)
(* What the timer manager of ne_doip_timer.h promises its callers.  Every  *)
(* timer that is started has an id and a deadline.  Callbacks are called   *)
(* one at a time, for a timer that was started and not stopped since, once *)
(* and not before its deadline; a timer that iterates then has a later     *)
(* deadline.  That ids are unique is not part of the promise: stop and     *)
(* restart take one timer that has the id.                                 *)
(***************************************************************************)
EXTENDS Naturals

CONSTANTS Ids, Deadline, NoCall

VARIABLES
  armed,   \* how many timers run with an id and a deadline
  called,  \* the id and the deadline for which a callback runs
  time

AllIn(a) == {p \in Ids \X Deadline : a[p] > 0}
Plus(a, p) == [a EXCEPT ![p] = @ + 1]
Minus(a, p) == [a EXCEPT ![p] = @ - 1]

None == [p \in Ids \X Deadline |-> 0]

Init == armed = None /\ called = NoCall /\ time \in Nat

Start(p) == armed' = Plus(armed, p) /\ UNCHANGED <<called, time>>

Stop(p) == armed' = Minus(armed, p) /\ UNCHANGED <<called, time>>

Restart(p, d) ==
  /\ d >= time
  /\ armed' = Plus(Minus(armed, p), <<p[1], d>>)
  /\ UNCHANGED <<called, time>>

Call(p) ==
  /\ called = NoCall /\ p[2] <= time
  /\ called' = p
  /\ armed' = Minus(armed, p)
  /\ UNCHANGED time

Return ==
  /\ called # NoCall
  /\ called' = NoCall
  /\ \/ UNCHANGED armed
     \/ \E d \in Deadline : d > called[2] /\ armed' = Plus(armed, <<called[1], d>>)
  /\ UNCHANGED time

Tick == time' = time + 1 /\ UNCHANGED <<armed, called>>

\* All timers are given up when the manager is destroyed.
Destroy == called = NoCall /\ armed' = None /\ UNCHANGED <<called, time>>

Next ==
  \/ Tick \/ Destroy \/ Return
  \/ \E p \in Ids \X Deadline : Start(p)
  \/ \E p \in AllIn(armed) : Stop(p) \/ Call(p) \/ \E d \in Deadline : Restart(p, d)

Spec == Init /\ [][Next]_<<armed, called, time>>
=============================================================================
