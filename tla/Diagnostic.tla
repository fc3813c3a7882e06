------------------------------ MODULE Diagnostic ------------------------------
(***************************************************************************)
(* How the server passes diagnostic messages on to the nodes.  A thread    *)
(* reads chunks of a byte stream (the net thread those of testers on TCP,  *)
(* the ipc thread those of local test equipment).  The chunk with the      *)
(* header of a message is handled at once; what comes after it is cut by   *)
(* the entry's diag_data_total_length and diag_data_current_pos and pushed *)
(* as tasks, which workers of the pool handle later, each task moving      *)
(* diag_data_current_pos on.                                               *)
(*                                                                         *)
(* The pool is its promise, TaskExecutor, which ThreadPool implements.     *)
(*                                                                         *)
(* A stream is a sequence of units of 4 bytes: a message has 2 units of    *)
(* header, 1 of addresses, then user data.  Units are named, <<connection, *)
(* message, position>>, so that one can see where they end up.             *)
(***************************************************************************)
EXTENDS Integers, Sequences, FiniteSets, FiniteSetsExt

CONSTANTS
  External, Internal,   \* connections of node_tcp_list and of equip_ipc_list
  Nodes, Group,         \* the nodes on the Unix socket, those of the functional group
  NoNode,               \* the value 0 of cache_fd
  Streams,              \* the possible messages per connection
  Patient,              \* a tester waits for the answer before it sends again
  First, Least, Most,   \* least read that begins a message, least other read, read buffer
  MaxTaskId,            \* 255
  Workers, Capacity,    \* of the pool
  MaxPushes, MaxSent,   \* bounds on the number of pushes, and of messages of a connection
  Width, PosRange       \* 2^32, and 2^8 bytes: the ranges of uint32_t and of pos

Conns == External \cup Internal
Threads == {"net", "ipc"}
Served(th) == IF th = "net" THEN External ELSE Internal

HeaderLen == 2
AddressLen == 1

ASSUME SizeAssumption ==
  /\ {Least, First, Most, Capacity, Workers, Width, PosRange} \subseteq Nat \ {0}
  /\ MaxTaskId \in Nat /\ MaxPushes \in Nat /\ MaxSent \in Nat
ASSUME ConnAssumption == External \cap Internal = {}
ASSUME NodeAssumption == NoNode \notin Nodes /\ Group \subseteq Nodes

VARIABLES
  msgs,       \* the messages each connection will send
  sent,       \* how many of them it has sent
  sock,       \* the units in its socket
  entry,      \* its entry in the table, while it is connected
  task_id,    \* g_task_id
  thread,     \* what the net and the ipc thread do
  chunk,      \* the data of the tasks, by their number
  job,        \* what the callbacks of the pool do
  written,    \* history: the payload written to each node
  refused,    \* history: the messages refused, per connection
  lost,       \* history: the units read and never handled, per connection
  pending, executing, finished  \* the pool

pool == <<pending, executing, finished>>
vars == <<msgs, sent, sock, entry, task_id, thread, chunk, job, written, refused,
          lost, pending, executing, finished>>

\* A task is its group id and its number.
TaskNames == (0 .. MaxTaskId) \X (1 .. MaxPushes)

ShutDown == FALSE   \* the pool lives as long as the server

Pool == INSTANCE TaskExecutor WITH
  Tasks <- TaskNames, Id <- [t \in TaskNames |-> t[1]], open <- ~ShutDown, dropping <- ~~ShutDown

-----------------------------------------------------------------------------
\* Messages and units.  to is a node, or "all" for the functional group; kind
\* tells what becomes of a message: "accept"; "other" is not diagnostic; "power"
\* meets a power mode that is not ready, "refuse" a connection that is not active
\* or an unknown target; "close" has an SA that is not the registered one; "bad" has
\* no DoIP header.  Test equipment sends "accept", "refuse" and "other" only.

Unit(c, m, k) == [conn |-> c, msg |-> m, at |-> k]
Units(c, m) == [k \in 1 .. HeaderLen + msgs[c][m].len |-> Unit(c, m, k)]
Payload(c, m) == {Unit(c, m, k) : k \in HeaderLen + 1 .. HeaderLen + msgs[c][m].len}

\* What lies behind the end of a buffer.
Junk == [conn |-> "none", msg |-> 0, at |-> 0]

BeginsMessage(u) == u.at = 1
HasAddresses(u) == u.at = HeaderLen + 1
MessageOf(u) == msgs[u.conn][u.msg]

\* n units of data from pos on; pos is passed as uint8_t.
Slice(data, pos, n) ==
  [i \in 1 .. n |-> IF (pos % PosRange) + i \in DOMAIN data
                    THEN data[(pos % PosRange) + i] ELSE Junk]

Min2(a, b) == IF a <= b THEN a ELSE b

-----------------------------------------------------------------------------
\* The fields diag_data_total_length, diag_data_current_pos, diag_data_fail_flag,
\* functional_addressing_flag and cache_fd of an entry.
NewEntry == [total |-> 0, cur |-> 0, fail |-> FALSE, func |-> FALSE, cache |-> NoNode]

Connected == DOMAIN entry

\* Unsigned, so that a position beyond the total leaves a very large rest.
Rest(e) == (e.total - e.cur) % Width

\* A handler moves the position on, starts again after the last unit, and, if that
\* is not in the first chunk, forgets about a failure.
Advanced(e, n) == [e EXCEPT !.cur = @ + n]
AlmostComplete(e) == e.cur + 1 = e.total
Complete(e) == e.cur = e.total
Settled(e, first) ==
  IF Complete(e) THEN [e EXCEPT !.total = 0, !.cur = 0, !.fail = first /\ @] ELSE e

\* Where the data after the first chunk goes, and where the first chunk goes.
OnlyCached(c, e) == {e.cache}
NextTargets(c, e) == IF c \in External /\ e.func THEN Nodes ELSE {e.cache}
FirstTargets(msg) == IF msg.to = "all" THEN Group ELSE {msg.to}
StillFunctional(e, msg) ==
  [e EXCEPT !.func = @ \/ msg.to = "all", !.cache = IF msg.to = "all" THEN @ ELSE msg.to]
Accepting(e, msg) ==
  [e EXCEPT !.func = msg.to = "all", !.cache = IF msg.to = "all" THEN @ ELSE msg.to]

Write(targets, data) ==
  written' = [n \in Nodes |-> IF n \in targets THEN written[n] \o data ELSE written[n]]

-----------------------------------------------------------------------------
Idle == [at |-> "idle"]

\* The loop of ne_doip_net_unpack and ne_doip_ipc_unpack: the thread looks at its
\* data from pos on.
Looking(t, pos) ==
  IF pos = Len(t.data) THEN Idle
  ELSE [at |-> "rest", conn |-> t.conn, data |-> t.data, pos |-> pos]

\* A run of the handler, ne_doip_unpack_diagnostic or, for test equipment,
\* ne_doip_pack_diagnostic_from_internal_equip.
Run(c, data) == [at |-> "advance", conn |-> c, data |-> data, first |-> FALSE]

InHandler(th) == thread[th].at = "handle"
Handling == {job[t] : t \in executing} \cup {thread[th].run : th \in {x \in Threads : InHandler(x)}}

\* The run h goes on as g.
GoesOn(h, g) ==
  /\ \/ \E t \in executing :
          job[t] = h /\ job' = [job EXCEPT ![t] = g] /\ UNCHANGED thread
     \/ \E th \in Threads :
          /\ InHandler(th) /\ thread[th].run = h
          /\ thread' = [thread EXCEPT ![th].run = g] /\ UNCHANGED job
  /\ UNCHANGED pool

\* The run h is over: the worker takes another task, the thread the rest of its data.
Returns(h) ==
  \/ \E t \in executing :
       /\ job[t] = h /\ Pool!Complete(t)
       /\ job' = [k \in executing \ {t} |-> job[k]]
       /\ UNCHANGED thread
  \/ \E th \in Threads :
       /\ InHandler(th) /\ thread[th].run = h
       /\ thread' = [thread EXCEPT ![th] = Looking(@, @.pos)]
       /\ UNCHANGED <<pool, job>>

Init ==
  /\ msgs \in Streams
  /\ sent = [c \in Conns |-> 0] /\ sock = [c \in Conns |-> <<>>]
  /\ entry = [c \in Conns |-> NewEntry]
  /\ task_id = 0
  /\ thread = [th \in Threads |-> Idle]
  /\ chunk = <<>> /\ job = <<>>
  /\ written = [n \in Nodes |-> <<>>]
  /\ refused = [c \in Conns |-> {}] /\ lost = [c \in Conns |-> 0]
  /\ pending = <<>> /\ executing = {} /\ finished = {}

-----------------------------------------------------------------------------
\* The tester sends a message.  A patient one has the answer to all diagnostic
\* messages before: a refusal, or what a node says that has got all of it.
AllWritten(c, m) ==
  \A u \in Payload(c, m) : \E n \in Nodes : \E i \in DOMAIN written[n] : written[n][i] = u
Answered(c, m) == msgs[c][m].kind = "other" \/ m \in refused[c] \/ AllWritten(c, m)

Send(c) ==
  /\ c \in Connected /\ sent[c] < Min2(MaxSent, Len(msgs[c]))
  /\ Patient => \A m \in 1 .. sent[c] : Answered(c, m)
  /\ sent' = [sent EXCEPT ![c] = @ + 1]
  /\ sock' = [sock EXCEPT ![c] = @ \o Units(c, sent[c] + 1)]
  /\ UNCHANGED <<msgs, entry, task_id, thread, chunk, job, written, refused, lost, pool>>

\* A read takes any number of units, as the network happens to cut the stream, but
\* at least First of a message that begins in it, unless it takes all of it.
Beginnings(c, n) == {k \in 1 .. n : BeginsMessage(sock[c][k])}
Readable(c) ==
  {n \in 1 .. Min2(Most, Len(sock[c])) :
     \/ n = Len(sock[c]) \/ BeginsMessage(sock[c][n + 1])
     \/ IF Beginnings(c, n) = {} THEN n >= Least
        ELSE n + 1 - Max(Beginnings(c, n)) >= First}

\* Data of a tester that is shorter than a header is dropped.
TooShort(c, n) == c \in External /\ n < HeaderLen

Read(th, c) ==
  /\ thread[th] = Idle /\ c \in Served(th) /\ sock[c] # <<>>
  /\ \E n \in Readable(c) :
       /\ sock' = [sock EXCEPT ![c] = SubSeq(@, n + 1, Len(@))]
       /\ IF TooShort(c, n)
          THEN lost' = [lost EXCEPT ![c] = @ + n] /\ UNCHANGED thread
          ELSE /\ thread' = [thread EXCEPT ![th] =
                    [at |-> "rest", conn |-> c, data |-> SubSeq(sock[c], 1, n), pos |-> 0]]
               /\ UNCHANGED lost
  /\ UNCHANGED <<msgs, sent, entry, task_id, chunk, job, written, refused, pool>>

\* Under the lock of the table: is the last message complete?
TestRest(th) ==
  LET t == thread[th] IN
  /\ t.at = "rest" /\ t.conn \in Connected
  /\ IF Rest(entry[t.conn]) > 0
     THEN /\ thread' = [thread EXCEPT ![th] =
               [at |-> "push", conn |-> t.conn, data |-> t.data, pos |-> t.pos,
                rest |-> Rest(entry[t.conn])]]
          /\ UNCHANGED entry
     ELSE /\ thread' = [thread EXCEPT ![th].at = "header"]
          /\ entry' = [entry EXCEPT ![t.conn].total = 0, ![t.conn].cur = 0]
  /\ UNCHANGED <<msgs, sent, sock, task_id, chunk, job, written, refused, lost, pool>>

\* The entry of test equipment stays: the end of local clients is not modelled.
ConnectionGone(th) ==
  /\ thread[th].at = "rest" /\ thread[th].conn \notin Connected
  /\ thread' = [thread EXCEPT ![th] = Idle]
  /\ UNCHANGED <<msgs, sent, sock, entry, task_id, chunk, job, written, refused, lost, pool>>

\* ne_doip_integrate_thread_task.  How much is pushed, and where the thread goes
\* on, is computed from the size of all the data, not of what lies behind pos.
PushLen(t) == Min2(t.rest, Len(t.data))
NoGroup == 0
TaskId == task_id
HasRoom == Len(pending) + Cardinality(executing) < Capacity

PushTask(th) ==
  LET t == thread[th] IN
  /\ t.at = "push" /\ HasRoom /\ Len(chunk) < MaxPushes
  /\ Pool!Accept(<<TaskId, Len(chunk) + 1>>)
  /\ chunk' = Append(chunk, Run(t.conn, Slice(t.data, t.pos, PushLen(t))))
  /\ thread' = [thread EXCEPT ![th] = Looking(t, PushLen(t))]
  /\ UNCHANGED <<msgs, sent, sock, entry, task_id, job, written, refused, lost>>

\* A failing push is printed, no more.
PushFails(th) ==
  LET t == thread[th] IN
  /\ t.at = "push" /\ ~HasRoom
  /\ lost' = [lost EXCEPT ![t.conn] = @ + PushLen(t)]
  /\ thread' = [thread EXCEPT ![th] = Looking(t, PushLen(t))]
  /\ UNCHANGED <<msgs, sent, sock, entry, task_id, chunk, job, written, refused, pool>>

-----------------------------------------------------------------------------
\* The header of a message.

HeaderAt(t) == t.data[t.pos + 1]
IsHeader(t) ==
  t.at = "header" /\ BeginsMessage(HeaderAt(t)) /\ MessageOf(HeaderAt(t)).kind # "bad"
Behind(t) == Len(t.data) - t.pos - HeaderLen

\* Where the next message begins.  The ipc thread forgets 3 bytes of the header of
\* a diagnostic message, and finds itself in its last unit.
Forgotten(t) ==
  IF t.conn \in Internal /\ MessageOf(HeaderAt(t)).kind # "other" THEN 1 ELSE 0
BeyondData(t, len) == t.pos + HeaderLen + len
NextMessage(t, len) ==
  IF len >= Behind(t) THEN Len(t.data)
  ELSE t.pos + HeaderLen + len - Forgotten(t)

OtherMessage(th) ==
  LET t == thread[th] IN
  /\ IsHeader(t) /\ MessageOf(HeaderAt(t)).kind = "other"
  /\ thread' = [thread EXCEPT ![th] = Looking(t, NextMessage(t, MessageOf(HeaderAt(t)).len))]
  /\ UNCHANGED <<msgs, sent, sock, entry, task_id, chunk, job, written, refused, lost, pool>>

\* A diagnostic message gets a new task id if not all of it is there.
NextTaskId == IF task_id + 1 > MaxTaskId THEN 0 ELSE task_id + 1

DiagnosticMessage(th) ==
  LET t == thread[th]
      len == MessageOf(HeaderAt(t)).len
  IN
  /\ IsHeader(t) /\ MessageOf(HeaderAt(t)).kind # "other"
  /\ entry' = [c \in Connected |-> IF c = t.conn THEN [entry[c] EXCEPT !.total = len]
                                   ELSE entry[c]]
  /\ task_id' = IF len > Behind(t) THEN NextTaskId ELSE task_id
  /\ thread' = [thread EXCEPT ![th] =
       [at |-> "handle", conn |-> t.conn, data |-> t.data, pos |-> NextMessage(t, len),
        run |-> Run(t.conn, Slice(t.data, t.pos + HeaderLen, Min2(len, Behind(t))))]]
  /\ UNCHANGED <<msgs, sent, sock, chunk, job, written, refused, lost, pool>>

\* The net thread refuses what is no header and closes the connection; the ipc
\* thread does what the bytes may say, which is to skip some of them.
Close(c) ==
  /\ entry' = [d \in Connected \ {c} |-> entry[d]]
  /\ sock' = [sock EXCEPT ![c] = <<>>]

BadHeader(th) ==
  LET t == thread[th] IN
  /\ t.at = "header" /\ ~IsHeader(t)
  /\ IF t.conn \in External
     THEN Close(t.conn) /\ thread' = [thread EXCEPT ![th] = Idle]
     ELSE /\ \E p \in t.pos + 1 .. Len(t.data) : thread' = [thread EXCEPT ![th] = Looking(t, p)]
          /\ UNCHANGED <<entry, sock>>
  /\ UNCHANGED <<msgs, sent, task_id, chunk, job, written, refused, lost, pool>>

\* The peer closes the connection, or a timer does.
Disconnect(c) ==
  /\ c \in External \cap Connected
  /\ Close(c)
  /\ UNCHANGED <<msgs, sent, task_id, thread, chunk, job, written, refused, lost, pool>>

-----------------------------------------------------------------------------
\* A worker takes a task: the callback of the pool starts.
TakeTask ==
  /\ Pool!StartSome
  /\ job' = [t \in executing' |-> IF t \in executing THEN job[t] ELSE chunk[t[2]]]
  /\ UNCHANGED <<msgs, sent, sock, entry, task_id, thread, chunk, written, refused, lost>>

\* The handler for a tester takes no lock, so its three parts are steps.  An entry
\* that is gone ends it.
HandlerGone(h) ==
  /\ h.conn \notin Connected
  /\ Returns(h)
  /\ UNCHANGED <<msgs, sent, sock, entry, task_id, chunk, written, refused, lost>>

Advance(h) ==
  /\ h.at = "advance" /\ h.conn \in External \cap Connected
  /\ entry' = [entry EXCEPT ![h.conn] = Advanced(@, Len(h.data))]
  /\ GoesOn(h, [h EXCEPT !.at = "settle", !.first = entry[h.conn].cur = 0])
  /\ UNCHANGED <<msgs, sent, sock, task_id, chunk, written, refused, lost>>

Settle(h) ==
  /\ h.at = "settle" /\ h.conn \in Connected
  /\ entry' = [entry EXCEPT ![h.conn] = Settled(@, h.first)]
  /\ GoesOn(h, [h EXCEPT !.at = "forward"])
  /\ UNCHANGED <<msgs, sent, sock, task_id, chunk, written, refused, lost>>

\* Data after the first chunk goes where that went, unless the message failed.
ForwardLater(h) ==
  /\ h.at = "forward" /\ h.conn \in Connected /\ ~h.first
  /\ IF entry[h.conn].fail THEN UNCHANGED written
     ELSE Write(NextTargets(h.conn, entry[h.conn]), h.data)
  /\ Returns(h)
  /\ UNCHANGED <<msgs, sent, sock, entry, task_id, chunk, refused, lost>>

\* The first chunk has the addresses.  With less than that, or with an SA that is
\* not the registered one, the connection is closed.
HasMessage(h) == h.data # <<>> /\ HasAddresses(h.data[1])
PowerOff(h) == HasMessage(h) /\ MessageOf(h.data[1]).kind = "power"
CanForward(h) == HasMessage(h) /\ Len(h.data) > AddressLen
Refused(h) == IF HasMessage(h) THEN {h.data[1].msg} ELSE {}

Forwarding(h) == h.at = "forward" /\ h.conn \in Connected /\ h.first

CloseFirst(h) ==
  /\ Forwarding(h) /\ ~PowerOff(h)
  /\ CanForward(h) => MessageOf(h.data[1]).kind = "close"
  /\ Close(h.conn)
  /\ refused' = [refused EXCEPT ![h.conn] = @ \cup Refused(h)]
  /\ Returns(h)
  /\ UNCHANGED <<msgs, sent, task_id, chunk, written, lost>>

RefuseFirst(h) ==
  /\ Forwarding(h)
  /\ PowerOff(h) \/ (CanForward(h) /\ MessageOf(h.data[1]).kind = "refuse")
  /\ entry' = [entry EXCEPT ![h.conn].fail = TRUE, ![h.conn].func = @ /\ PowerOff(h)]
  /\ refused' = [refused EXCEPT ![h.conn] = @ \cup Refused(h)]
  /\ Returns(h)
  /\ UNCHANGED <<msgs, sent, sock, task_id, chunk, written, lost>>

AcceptFirst(h) ==
  /\ Forwarding(h)
  /\ CanForward(h) /\ MessageOf(h.data[1]).kind = "accept"
  /\ entry' = [entry EXCEPT ![h.conn] = Accepting(@, MessageOf(h.data[1]))]
  /\ Write(FirstTargets(MessageOf(h.data[1])), h.data)
  /\ Returns(h)
  /\ UNCHANGED <<msgs, sent, sock, task_id, chunk, refused, lost>>

\* The handler for test equipment holds equip_ipc_list_sync all the while.  It
\* keeps no failure, and sends the later data of every message to cache_fd.
InternalLater(h) ==
  LET e == Advanced(entry[h.conn], Len(h.data)) IN
  /\ h.at = "advance" /\ h.conn \in Internal \cap Connected /\ entry[h.conn].cur > 0
  /\ entry' = [entry EXCEPT ![h.conn] = Settled(e, FALSE)]
  /\ Write(NextTargets(h.conn, e), h.data)
  /\ Returns(h)
  /\ UNCHANGED <<msgs, sent, sock, task_id, chunk, refused, lost>>

InternalFirst(h) ==
  LET e == Settled(Advanced(entry[h.conn], Len(h.data)), TRUE) IN
  /\ h.at = "advance" /\ h.conn \in Internal \cap Connected /\ entry[h.conn].cur = 0
  /\ IF HasMessage(h) /\ MessageOf(h.data[1]).kind = "accept"
     THEN /\ entry' = [entry EXCEPT ![h.conn] = Accepting(e, MessageOf(h.data[1]))]
          /\ Write(FirstTargets(MessageOf(h.data[1])), h.data)
          /\ UNCHANGED refused
     ELSE /\ entry' = [entry EXCEPT ![h.conn] = e]
          /\ refused' = [refused EXCEPT ![h.conn] = @ \cup Refused(h)]
          /\ UNCHANGED written
  /\ Returns(h)
  /\ UNCHANGED <<msgs, sent, sock, task_id, chunk, lost>>

-----------------------------------------------------------------------------
ThreadStep(th) ==
  \/ TestRest(th) \/ ConnectionGone(th) \/ PushTask(th) \/ PushFails(th)
  \/ OtherMessage(th) \/ DiagnosticMessage(th) \/ BadHeader(th)

HandlerStep ==
  \E h \in Handling :
    \/ HandlerGone(h) \/ Advance(h) \/ Settle(h) \/ ForwardLater(h)
    \/ CloseFirst(h) \/ RefuseFirst(h) \/ AcceptFirst(h)
    \/ InternalLater(h) \/ InternalFirst(h)

Next ==
  \/ \E c \in Conns : Send(c) \/ Disconnect(c)
  \/ \E th \in Threads : \E c \in Conns : Read(th, c)
  \/ \E th \in Threads : ThreadStep(th)
  \/ TakeTask \/ HandlerStep

Spec == Init /\ [][Next]_vars

\* The threads and the workers go on; what is in a socket is read.
FairSpec ==
  /\ Spec
  /\ \A th \in Threads : WF_vars(ThreadStep(th)) /\ WF_vars(\E c \in Conns : Read(th, c))
  /\ WF_vars(TakeTask) /\ WF_vars(HandlerStep)

-----------------------------------------------------------------------------
(* Properties *)

UnitType == [conn : Conns, msg : Nat, at : Nat] \cup {Junk}
RunType ==
  [at : {"advance", "settle", "forward"}, conn : Conns, data : Seq(UnitType), first : BOOLEAN]

\* The variables stay in their types, and each running task has one callback.
TypeOK ==
  /\ \A c \in Conns : sent[c] \in 0 .. Len(msgs[c]) /\ lost[c] \in Nat
  /\ \A c \in Connected : /\ entry[c].total \in Nat /\ entry[c].cur \in Nat
                          /\ entry[c].cache \in Nodes \cup {NoNode}
  /\ task_id \in 0 .. MaxTaskId
  /\ DOMAIN job = executing /\ \A t \in executing : job[t] \in RunType
  /\ \A i \in DOMAIN chunk : chunk[i] \in RunType
  /\ \A th \in Threads : thread[th] # Idle => thread[th].pos \in 0 .. Len(thread[th].data)

\* A node gets the units of a connection in the order in which they were sent,
\* none of them twice, although several workers write them.
Before(u, v) == u.msg < v.msg \/ (u.msg = v.msg /\ u.at < v.at)
InOrder ==
  \A n \in Nodes : \A i, j \in DOMAIN written[n] :
    i < j /\ written[n][i].conn = written[n][j].conn => Before(written[n][i], written[n][j])

\* The threads find the headers: what they take for one is the beginning of a
\* message, and what they push is payload of one message.
IsPayload(u) == u # Junk /\ u.at > HeaderLen
OfOneMessage(data) == \A i, j \in DOMAIN data : data[i].msg = data[j].msg
FramesKept ==
  /\ \A th \in Threads : thread[th].at = "header" => BeginsMessage(HeaderAt(thread[th]))
  /\ \A i \in DOMAIN chunk : /\ OfOneMessage(chunk[i].data)
                             /\ \A k \in DOMAIN chunk[i].data : IsPayload(chunk[i].data[k])

\* A unit is written to a node only if its message is for that node and was not
\* refused: the cached socket is the one of this message.
RightNode ==
  \A n \in Nodes : \A i \in DOMAIN written[n] :
    LET u == written[n][i] IN
    /\ IsPayload(u) /\ n \in FirstTargets(MessageOf(u))
    /\ u.msg \notin refused[u.conn]

\* What an entry has still to come is in the socket, in the hands of the thread,
\* in the pool or lost: the three places that count agree at every moment.
Sum(S, f(_)) == MapThenSumSet(f, S)
InPool(c) ==
  Sum({i \in DOMAIN pending : chunk[pending[i][2]].conn = c},
      LAMBDA i : Len(chunk[pending[i][2]].data))
  + Sum({t \in executing : job[t].conn = c /\ job[t].at = "advance"}, LAMBDA t : Len(job[t].data))
InHands(c) ==
  Sum({th \in Threads : thread[th] # Idle /\ thread[th].conn = c},
      LAMBDA th : IF ~InHandler(th) THEN Len(thread[th].data) - thread[th].pos
                  ELSE IF thread[th].run.at = "advance" THEN Len(thread[th].run.data) ELSE 0)
Outstanding ==
  \A c \in Connected : entry[c].total > 0 =>
    entry[c].total - entry[c].cur = Len(sock[c]) + InHands(c) + InPool(c) + lost[c]

\* The stream of a tester is cut where its messages end, and what is still to come of
\* one is counted right in the meantime.
StreamAccounted == FramesKept /\ Outstanding

\* An accepted message that a connected tester has sent is written completely,
\* unless the server dropped a part of what it read.
Sent(c, m) == c \in Connected /\ m <= sent[c] /\ msgs[c][m].kind = "accept"
AllDelivered(c, m) ==
  m <= sent[c] =>
    \A n \in FirstTargets(msgs[c][m]) : \A u \in Payload(c, m) :
      \E i \in DOMAIN written[n] : written[n][i] = u
Whole(c, m) == AllDelivered(c, m) \/ c \notin Connected
Delivered ==
  \A c \in Conns : \A m \in 1 .. MaxSent :
    Sent(c, m) ~> Whole(c, m) \/ lost[c] > 0

\* The same without the exception: nothing that was read is dropped.
DeliveredWhole == \A c \in Conns : \A m \in 1 .. MaxSent : Sent(c, m) ~> Whole(c, m)
=============================================================================
