------------------------- MODULE NodeLibraryProofs -------------------------
(* Theorems about NodeLibrary, for every number of threads, nodes and messages. *)
EXTENDS NodeLibrary, Lemmas

\* A node of the library.
NodeType ==
    [at : {"none", "made", "listed", "removed", "freed"}, conn : {"none", "open", "closed", "freed"},
     ptr : BOOLEAN, peer : {"open", "closed"}, known : BOOLEAN,
     out : (Threads \cup {None}) \X {"create", "request"}]

\* What is on the socket: the payload that was sent before the message, the place in it, its
\* payload length.
Units == {u \in Nat \X Nat \X Lengths : u[3] < Modulus}

RcvType == [in : Seq(Units), pos : Nat, total : 0 .. Modulus - 1, cur : 0 .. Modulus - 1]

AppPcs == {"idle", "connect", "list", "regist", "write regist", "conf", "write conf", "ask", "write",
           "shut", "free", "null", "join", "last"}
ReaderPcs == {"idle", "top", "read", "blocked", "unpack", "callback", "ask", "write", "shut", "free",
              "null", "ended"}

JobType == [pc : AppPcs \cup ReaderPcs, i : 0 .. MaxNodes]

\* ne_doip_node_destroy keeps the lock from here to there.
Destroying == {"shut", "free", "null", "join"}

\* What the reader's variables are.
StreamsInv ==
    /\ frames \in [Incs -> 0 .. MaxFrames] /\ sent \in [Incs -> Seq(Units)] /\ DOMAIN got = Incs
    /\ stream \in [Incs -> Seq(Units)]
    /\ rcv \in [Incs -> RcvType] /\ \A i \in Incs : rcv[i].pos <= Len(rcv[i].in) /\ Len(rcv[i].in) <= ReadMax
    /\ cut \subseteq Incs

\* Where a thread can be, and of which node it then holds the number: a reader of its own,
\* but while it writes a request, which goes to the node that is found.
AtPlace(t, j) ==
    /\ j \in JobType
    /\ t \in Apps => j.pc \in AppPcs /\ (j.pc \notin {"idle", "connect", "ask"} => j.i \in Incs)
    /\ t \in Incs => j.pc \in ReaderPcs /\ (j.pc = "write" => j.i \in Incs) /\ (j.pc \notin {"idle", "write"} => j.i = t)

\* A thread that destroys a node has the lock, and the node is out of the list.
Destroyer(a) == job[a].pc \in Destroying => lock = a /\ node[job[a].i].at = "removed"

\* A node that is not in the list yet is in the hands of the one thread that made it.
Maker(a) ==
    job[a].pc = "list" =>
        /\ node[job[a].i].at = "made"
        /\ \A b \in Apps : b # a => ~(job[b].pc = "list" /\ job[b].i = job[a].i)

\* A node has its reader, is in the list at one place while it is listed, and is freed only when
\* the reader has ended.
Stage(i) ==
    /\ job[i].pc = "idle" <=> node[i].at = "none"
    /\ node[i].at = "listed" <=> \E p \in 1 .. Len(list) : list[p] = i
    /\ node[i].at = "freed" => job[i].pc = "ended"

\* A thread that writes a request has the lock, and in the buffer is its request, or a
\* registration, which takes no lock.
Writer(t) ==
    job[t].pc = "write" =>
        /\ lock = t
        /\ node[job[t].i].out = <<t, "request">> \/ node[job[t].i].out[2] = "create"

TypesInv ==
    /\ lib \in BOOLEAN /\ list \in Seq(Incs) /\ lock \in Threads \cup {None}
    /\ node \in [Incs -> NodeType] /\ job \in [Threads -> JobType]
    /\ fault \in {None, "freed", "null", "twice"} /\ garbled \subseteq SUBSET {"create", "request"}

OwnersInv ==
    /\ \A t \in Threads : AtPlace(t, job[t]) /\ Writer(t)
    /\ \A a \in Apps : Destroyer(a) /\ Maker(a)
    /\ \A i \in Incs : Stage(i)
    /\ \A p, q \in 1 .. Len(list) : list[p] = list[q] => p = q

\* What the reader has before it: what it has read, then what it has not.

\* the place of the last unit of the message that the unit at place p belongs to
End(w, p) == p + (w[p][3] - w[p][2])

\* Messages follow on each other whole, but the first, of which the beginning may be gone;
\* n units of payload were sent in all.
Chained(w, n) ==
    \A p \in 1 .. Len(w) :
        /\ w[p][2] <= w[p][3] /\ End(w, p) <= Len(w)
        /\ \A j \in 0 .. w[p][3] - w[p][2] : w[p + j] = <<w[p][1], w[p][2] + j, w[p][3]>>
        /\ End(w, p) = Len(w) => w[p][1] + w[p][3] = n
        /\ End(w, p) < Len(w) => IsHead(w[End(w, p) + 1]) /\ w[End(w, p) + 1][1] = w[p][1] + w[p][3]

\* A unit of payload is the one that was sent at its place.
Placed(w, t) ==
    \A p \in 1 .. Len(w) :
        ~IsHead(w[p]) => w[p][1] + w[p][2] <= Len(t) /\ t[w[p][1] + w[p][2]] = w[p]

\* The application has the payload up to the reader's place, and the reader knows how far in
\* which message that is.
Stands(r, w, g, n) ==
    IF r.pos = Len(w) THEN g = n /\ r.total = 0 /\ r.cur = 0
    ELSE IF IsHead(w[r.pos + 1]) THEN g = w[r.pos + 1][1] /\ r.total = 0 /\ r.cur = 0
    ELSE g = w[r.pos + 1][1] + w[r.pos + 1][2] - 1 /\ r.total = w[r.pos + 1][3] /\ r.cur = w[r.pos + 1][2] - 1

\* Within what was read there is a head at the reader's place, and a message that begins
\* there ends there.
Fits(r) ==
    /\ 0 < r.pos /\ r.pos < Len(r.in) => IsHead(r.in[r.pos + 1])
    /\ \A p \in 2 .. Len(r.in) : IsHead(r.in[p]) => p + r.in[p][3] <= Len(r.in)

\* g is how t begins.
Begins(g, t) == Len(g) <= Len(t) /\ \A p \in 1 .. Len(g) : g[p] = t[p]

\* For a reader r, with s on the socket, an application that has g, and t sent: what the
\* application has is how t begins, and what the reader has before it is how t goes on.
Flows(r, s, g, t) ==
    /\ g \in Seq(Units) /\ Begins(g, t)
    /\ Chained(r.in \o s, Len(t)) /\ Placed(r.in \o s, t)
    /\ Stands(r, r.in \o s, Len(g), Len(t)) /\ Fits(r)

\* Where a reader that has not read yet is.
Waiting == {"idle", "top", "read", "blocked"}

\* Before a read nothing is left of the one before it, and what was sent flows.
FlowInv ==
    \A i \in Incs :
        /\ job[i].pc \in Waiting => rcv[i].in = <<>>
        /\ i \notin cut => Flows(rcv[i], stream[i], got[i], sent[i])

IInv == StreamsInv /\ TypesInv /\ OwnersInv /\ MessagesIntact /\ FlowInv

-----------------------------------------------------------------------------

\* What the steps use of IInv without its definitions.
LEMMA Kept ==
  ASSUME IInv
  PROVE  /\ lib \in BOOLEAN /\ list \in Seq(Incs) /\ lock \in Threads \cup {None}
         /\ node \in [Incs -> NodeType] /\ job \in [Threads -> JobType]
         /\ fault \in {None, "freed", "null", "twice"} /\ garbled \subseteq SUBSET {"create", "request"}
         /\ Apps \subseteq Threads /\ Incs \subseteq Threads
         /\ \A a \in Apps : a \notin Incs
         /\ None \notin Threads
BY NodeAssumption DEF IInv, TypesInv, Threads

\* The numbers of the nodes.
LEMMA Numbers == MaxNodes \in Nat /\ 0 \in 0 .. MaxNodes /\ Incs \subseteq 0 .. MaxNodes
<1>1. MaxNodes \in Nat
  BY NodeAssumption
<1>2. QED
  BY <1>1 DEF Incs

\* The address is found as that of the first node of the list, which is listed.
LEMMA FoundIsListed ==
  ASSUME IInv, Found # 0
  PROVE  /\ Found \in Incs /\ node[Found].at = "listed" /\ Len(list) > 0 /\ Found = list[1]
<1>1. list \in Seq(Incs) /\ list # <<>>
  BY Kept DEF Found
<1>2. Len(list) \in Nat /\ Len(list) > 0 /\ list[1] \in Incs
  BY <1>1, EmptySeq, LenProperties, ElementOfSeq
<1>3. Found = list[1]
  BY <1>1 DEF Found
<1>4. Stage(list[1])
  BY <1>2 DEF IInv, OwnersInv
<1>5. QED
  BY <1>2, <1>3, <1>4 DEF Stage

\* A step in which no thread comes to list a node, and no node's stage changes, leaves the
\* nodes that are being made to their makers.
LEMMA MakersKept ==
  ASSUME IInv, \A a \in Apps : job'[a].pc = "list" => job'[a] = job[a],
         \A k \in Incs : node'[k].at = node[k].at
  PROVE  \A a \in Apps : Maker(a)'
<1> SUFFICES ASSUME NEW a \in Apps, job'[a].pc = "list" PROVE Maker(a)'
  BY DEF Maker
<1>1. Maker(a) /\ AtPlace(a, job[a]) /\ job'[a] = job[a]
  BY Kept DEF IInv, OwnersInv
<1>2. job[a].i \in Incs /\ node[job[a].i].at = "made"
  BY <1>1 DEF Maker, AtPlace
<1>3. ASSUME NEW b \in Apps, b # a, job'[b].pc = "list" PROVE job'[b].i # job'[a].i
  <2>1. job'[b] = job[b]
    BY <1>3
  <2>2. QED
    BY <1>1, <1>3, <2>1 DEF Maker
<1>4. QED
  BY <1>1, <1>2, <1>3 DEF Maker

\* A step in which no reader begins or ends, and no node's stage changes.
LEMMA StagesKept ==
  ASSUME IInv, list' = list, \A k \in Incs : node'[k].at = node[k].at,
         \A k \in Incs : /\ job'[k].pc = "idle" <=> job[k].pc = "idle"
                         /\ job[k].pc = "ended" => job'[k].pc = "ended"
  PROVE  \A k \in Incs : Stage(k)'
<1> SUFFICES ASSUME NEW k \in Incs PROVE Stage(k)'
  OBVIOUS
<1>1. Stage(k)
  BY DEF IInv, OwnersInv
<1>2. QED
  BY <1>1 DEF Stage

\* A step of one thread that leaves the list, the lock and the stages of the nodes alone,
\* writes into no buffer but a registration, and moves to a place where it has the same
\* duties keeps the invariant.
LEMMA Moves ==
  ASSUME IInv, NEW t \in Threads,
         UNCHANGED <<list, lock>>, lib' \in BOOLEAN,
         node' \in [Incs -> NodeType], job' \in [Threads -> JobType],
         fault' \in {None, "freed", "null", "twice"}, garbled' \subseteq SUBSET {"create", "request"},
         \A i \in Incs : node'[i].at = node[i].at /\ (node'[i].out = node[i].out \/ node'[i].out[2] = "create"),
         \A u \in Threads : u # t => job'[u] = job[u],
         AtPlace(t, job'[t]),
         job'[t].pc \in {"list", "write"} => job'[t] = job[t],
         t \in Apps /\ job'[t].pc \in Destroying => job[t].pc \in Destroying /\ job'[t].i = job[t].i,
         t \in Incs => (job'[t].pc = "idle" <=> job[t].pc = "idle") /\ job[t].pc # "ended"
  PROVE  TypesInv' /\ OwnersInv'
<1>1. /\ \A u \in Threads : AtPlace(u, job[u]) /\ Writer(u)
      /\ \A a \in Apps : Destroyer(a) /\ Maker(a)
      /\ \A i \in Incs : Stage(i)
      /\ \A p, q \in 1 .. Len(list) : list[p] = list[q] => p = q
  BY DEF IInv, OwnersInv
<1>2. TypesInv'
  BY Kept DEF TypesInv
<1>3. ASSUME NEW u \in Threads PROVE AtPlace(u, job'[u])
  BY <1>1, <1>3
<1>4. ASSUME NEW u \in Threads PROVE Writer(u)'
  <2> SUFFICES ASSUME job'[u].pc = "write" PROVE Writer(u)'
    BY DEF Writer
  <2>1. job'[u] = job[u]
    BY <1>4
  <2>2. lock = u /\ (node[job[u].i].out = <<u, "request">> \/ node[job[u].i].out[2] = "create")
    BY <1>1, <2>1 DEF Writer
  <2>3. job[u].i \in Incs
    BY <1>1, <2>1 DEF AtPlace, Threads
  <2>4. QED
    BY <2>1, <2>2, <2>3 DEF Writer
<1>5. ASSUME NEW a \in Apps PROVE Destroyer(a)'
  <2> SUFFICES ASSUME job'[a].pc \in Destroying PROVE Destroyer(a)'
    BY DEF Destroyer
  <2>1. job[a].pc \in Destroying /\ job'[a].i = job[a].i
    BY Kept
  <2>2. lock = a /\ node[job[a].i].at = "removed" /\ job[a].i \in Incs
    BY <1>1, <2>1, Kept DEF Destroyer, AtPlace, Destroying
  <2>3. QED
    BY <2>1, <2>2 DEF Destroyer
<1>6. \A a \in Apps : Maker(a)'
  <2>1. \A a \in Apps : job'[a].pc = "list" => job'[a] = job[a]
    BY Kept
  <2>2. QED
    BY <2>1, MakersKept
<1>7. \A i \in Incs : Stage(i)'
  <2>1. ASSUME NEW i \in Incs
        PROVE  (job'[i].pc = "idle" <=> job[i].pc = "idle") /\ (job[i].pc = "ended" => job'[i].pc = "ended")
    BY Kept
  <2>2. QED
    BY <2>1, StagesKept
<1>8. QED
  BY <1>1, <1>2, <1>3, <1>4, <1>5, <1>6, <1>7 DEF OwnersInv

\* A thread goes to another place.
LEMMA Goes ==
  ASSUME IInv, NEW t \in Threads, NEW e \in JobType, job' = [job EXCEPT ![t] = e]
  PROVE  job' \in [Threads -> JobType] /\ job'[t] = e /\ \A u \in Threads : u # t => job'[u] = job[u]
BY Kept

\* A place with another label is a place.
LEMMA Labelled ==
  ASSUME IInv, NEW t \in Threads, NEW pc \in AppPcs \cup ReaderPcs
  PROVE  /\ [pc |-> pc, i |-> job[t].i] \in JobType
         /\ [job[t] EXCEPT !.pc = pc] = [pc |-> pc, i |-> job[t].i]
<1>1. job[t] \in [pc : AppPcs \cup ReaderPcs, i : 0 .. MaxNodes]
  BY Kept DEF JobType
<1>2. QED
  BY <1>1 DEF JobType

\* Goto changes the label only.
LEMMA GotoGoes ==
  ASSUME IInv, NEW t \in Threads, NEW pc \in AppPcs \cup ReaderPcs, Goto(t, pc)
  PROVE  /\ job' \in [Threads -> JobType] /\ job'[t] = [pc |-> pc, i |-> job[t].i]
         /\ \A u \in Threads : u # t => job'[u] = job[u]
<1>1. job' = [job EXCEPT ![t] = [pc |-> pc, i |-> job[t].i]]
  BY Labelled, Kept DEF Goto
<1>2. QED
  BY <1>1, Labelled, Goes

\* At the end of a request a thread of the application is idle, a reader goes on with its read.
LEMMA FinishGoes ==
  ASSUME IInv, NEW t \in Threads, Finish(t)
  PROVE  /\ job' \in [Threads -> JobType]
         /\ job'[t] = IF t \in Apps THEN Idle ELSE [pc |-> "unpack", i |-> t]
         /\ \A u \in Threads : u # t => job'[u] = job[u]
<1>1. Idle \in JobType
  BY Numbers DEF Idle, JobType, AppPcs
<1>2. t \notin Apps => [pc |-> "unpack", i |-> t] \in JobType
  BY Numbers DEF Threads, Incs, JobType, ReaderPcs
<1>3. QED
  BY <1>1, <1>2, Goes DEF Finish

\* After FinishGoes a thread has no duties.
LEMMA FinishMoves ==
  ASSUME IInv, NEW t \in Threads, Finish(t), t \in Incs => job[t].pc \notin {"idle", "ended"},
         UNCHANGED <<list, lock, fault>>, lib' \in BOOLEAN,
         node' \in [Incs -> NodeType], garbled' \subseteq SUBSET {"create", "request"},
         \A i \in Incs : node'[i].at = node[i].at /\ (node'[i].out = node[i].out \/ node'[i].out[2] = "create")
  PROVE  TypesInv' /\ OwnersInv'
<1>1. /\ job' \in [Threads -> JobType]
      /\ job'[t] = IF t \in Apps THEN Idle ELSE [pc |-> "unpack", i |-> t]
      /\ \A u \in Threads : u # t => job'[u] = job[u]
  BY FinishGoes
<1>2. t \in Apps \/ t \in Incs
  BY DEF Threads
<1>3. fault' \in {None, "freed", "null", "twice"}
  BY Kept
<1>4. CASE t \in Apps
  <2>1. job'[t] = [pc |-> "idle", i |-> 0] /\ job'[t] \in JobType
    BY <1>1, <1>4 DEF Idle
  <2>2. AtPlace(t, job'[t])
    BY <1>4, <2>1, Kept DEF AtPlace, AppPcs
  <2>3. t \notin Incs /\ job'[t].pc = "idle" /\ "idle" \notin Destroying
    BY <1>4, <2>1, Kept DEF Destroying
  <2>4. QED
    BY <1>1, <1>3, <2>2, <2>3, Moves
<1>5. CASE t \in Incs
  <2>1. job'[t] = [pc |-> "unpack", i |-> t] /\ job'[t] \in JobType
    BY <1>1, <1>5, Kept
  <2>2. AtPlace(t, job'[t])
    BY <1>5, <2>1, Kept DEF AtPlace, ReaderPcs
  <2>3. QED
    BY <1>1, <1>3, <1>5, <2>1, <2>2, Kept, Moves DEF Destroying
<1>6. QED
  BY <1>2, <1>4, <1>5

\* A wrong use of memory ends the process: nothing else changes.
LEMMA FaultMoves ==
  ASSUME IInv, NEW t \in Threads, NEW why \in {"freed", "null", "twice"}, Fault(why),
         t \in Incs => job[t].pc # "ended",
         UNCHANGED <<list, lock>>, lib' \in BOOLEAN
  PROVE  TypesInv' /\ OwnersInv'
<1>1. UNCHANGED <<job, node, garbled>> /\ fault' = why
  BY DEF Fault
<1>2. AtPlace(t, job[t])
  BY DEF IInv, OwnersInv
<1>3. QED
  BY <1>1, <1>2, Kept, Moves

\* The steps that leave a thread's duties as they are and change no node but for its connection
\* and its registration.
LEMMA GotoMoves ==
  ASSUME IInv, NEW t \in Threads, NEW pc \in AppPcs \cup ReaderPcs, Goto(t, pc),
         UNCHANGED <<list, lock, fault>>, lib' \in BOOLEAN,
         node' \in [Incs -> NodeType], garbled' \subseteq SUBSET {"create", "request"},
         \A i \in Incs : node'[i].at = node[i].at /\ (node'[i].out = node[i].out \/ node'[i].out[2] = "create"),
         pc \notin {"list", "write", "idle"},
         t \in Apps => /\ pc \in AppPcs /\ (pc \in Destroying => job[t].pc \in Destroying)
                       /\ pc \in {"connect", "ask"} \/ job[t].pc \notin {"idle", "connect", "ask"},
         t \in Incs => pc \in ReaderPcs /\ job[t].pc \notin {"idle", "write", "ended"}
  PROVE  TypesInv' /\ OwnersInv'
<1>1. /\ job' \in [Threads -> JobType] /\ job'[t] = [pc |-> pc, i |-> job[t].i]
      /\ \A u \in Threads : u # t => job'[u] = job[u]
  BY GotoGoes
<1>2. fault' \in {None, "freed", "null", "twice"}
  BY Kept
<1>3. job'[t].pc = pc /\ job'[t].i = job[t].i /\ job'[t] \in JobType
  BY <1>1
<1>4. AtPlace(t, job[t])
  BY DEF IInv, OwnersInv
<1>5. AtPlace(t, job'[t])
  BY <1>3, <1>4 DEF AtPlace
<1>6. QED
  BY <1>1, <1>2, <1>3, <1>5, Moves

\* The connection, its pointer, the peer's end, what is known and the buffer are changed in
\* one node, and its stage is not.
LEMMA NodeChanged ==
  ASSUME IInv, NEW i \in Incs, NEW n \in NodeType, node' = [node EXCEPT ![i] = n],
         n.at = node[i].at, n.out = node[i].out \/ n.out[2] = "create"
  PROVE  /\ node' \in [Incs -> NodeType]
         /\ \A k \in Incs : node'[k].at = node[k].at /\ (node'[k].out = node[k].out \/ node'[k].out[2] = "create")
BY Kept

\* What a thread has composed.
LEMMA Composed ==
  ASSUME NEW t \in Threads, NEW kind \in {"create", "request"}
  PROVE  <<t, kind>> \in (Threads \cup {None}) \X {"create", "request"} /\ <<t, kind>>[2] = kind
OBVIOUS

\* A node as a record.
LEMMA NodeFields ==
  ASSUME IInv, NEW i \in Incs
  PROVE  /\ node[i] \in NodeType
         /\ \A at \in {"none", "made", "listed", "removed", "freed"} : [node[i] EXCEPT !.at = at] \in NodeType
         /\ \A c \in {"none", "open", "closed", "freed"} :
                /\ [node[i] EXCEPT !.conn = c] \in NodeType
                /\ [node[i] EXCEPT !.conn = c].at = node[i].at /\ [node[i] EXCEPT !.conn = c].out = node[i].out
         /\ \A p \in BOOLEAN :
                /\ [node[i] EXCEPT !.ptr = p] \in NodeType
                /\ [node[i] EXCEPT !.ptr = p].at = node[i].at /\ [node[i] EXCEPT !.ptr = p].out = node[i].out
         /\ \A k \in BOOLEAN :
                /\ [node[i] EXCEPT !.known = k] \in NodeType
                /\ [node[i] EXCEPT !.known = k].at = node[i].at /\ [node[i] EXCEPT !.known = k].out = node[i].out
         /\ \A e \in {"open", "closed"} :
                /\ [node[i] EXCEPT !.peer = e] \in NodeType
                /\ [node[i] EXCEPT !.peer = e].at = node[i].at /\ [node[i] EXCEPT !.peer = e].out = node[i].out
         /\ \A o \in (Threads \cup {None}) \X {"create", "request"} :
                /\ [node[i] EXCEPT !.out = o] \in NodeType
                /\ [node[i] EXCEPT !.out = o].at = node[i].at /\ [node[i] EXCEPT !.out = o].out = o
<1>1. node[i] \in NodeType
  BY Kept
<1>2. QED
  BY <1>1 DEF NodeType

\* Writing what is in the buffer: what was mixed up are kinds of messages.
LEMMA WriteIs ==
  ASSUME IInv, NEW t \in Threads, NEW kind \in {"create", "request"}, Write(t, kind), job[t].i \in Incs
  PROVE  \/ Fault("freed")
         \/ /\ garbled' = garbled \/ (/\ node[job[t].i].out # <<t, kind>>
                                      /\ garbled' = garbled \cup {{kind, node[job[t].i].out[2]}})
            /\ garbled' \subseteq SUBSET {"create", "request"}
            /\ node' \in [Incs -> NodeType]
            /\ \A k \in Incs : node'[k].at = node[k].at /\ (node'[k].out = node[k].out \/ node'[k].out[2] = "create")
            /\ \A k \in Incs : node'[k].out = node[k].out
            /\ fault' = fault
<1> DEFINE i == job[t].i
<1>1. CASE node[i].conn = "freed"
  BY <1>1 DEF Write
<1>2. CASE node[i].conn # "freed"
  <2>1. /\ garbled' = IF node[i].out # <<t, kind>> THEN garbled \cup {{kind, node[i].out[2]}} ELSE garbled
        /\ node' = [node EXCEPT ![i].known = @ \/ kind = "create"]
        /\ fault' = fault
    BY <1>2 DEF Write
  <2>2. node[i] \in NodeType /\ node[i].out[2] \in {"create", "request"}
    BY Kept DEF NodeType
  <2>3. garbled' \subseteq SUBSET {"create", "request"}
    BY <2>1, <2>2, Kept
  <2>4. PICK k : k = (node[i].known \/ kind = "create") /\ k \in BOOLEAN
    <3>1. (node[i].known \/ kind = "create") \in BOOLEAN
      OBVIOUS
    <3>2. QED
      BY <3>1
  <2>5. node' = [node EXCEPT ![i] = [node[i] EXCEPT !.known = k]]
    BY <2>1, <2>4, Zenon
  <2>6. /\ node' \in [Incs -> NodeType]
        /\ \A j \in Incs : node'[j].at = node[j].at /\ (node'[j].out = node[j].out \/ node'[j].out[2] = "create")
        /\ \A j \in Incs : node'[j].out = node[j].out
    <3>1. PICK n \in NodeType : n = [node[i] EXCEPT !.known = k] /\ n.at = node[i].at /\ n.out = node[i].out
      BY <2>4, NodeFields
    <3>2. node' = [node EXCEPT ![i] = n]
      BY <2>5, <3>1
    <3>3. \A j \in Incs : node'[j].out = node[j].out
      BY <3>1, <3>2, Kept
    <3>4. QED
      BY <3>1, <3>2, <3>3, NodeChanged
  <2>7. QED
    BY <2>1, <2>3, <2>6
<1>3. QED
  BY <1>1, <1>2

\* The steps of ne_doip_node_create and of the application that make no node known to others.
LEMMA AppMoves ==
  ASSUME IInv, fault = None, NEW a \in Apps,
         \/ Create(a) \/ Ask(a) \/ Regist(a, "regist", "write regist") \/ Regist(a, "conf", "write conf")
         \/ WriteRegist(a) \/ WriteConf(a) \/ LastNode(a)
  PROVE  TypesInv' /\ OwnersInv'
<1>1. a \in Threads /\ a \notin Incs
  BY Kept
<1>2. AtPlace(a, job[a])
  BY <1>1 DEF IInv, OwnersInv
<1>3. ASSUME UNCHANGED <<node, garbled>>
      PROVE  /\ node' \in [Incs -> NodeType] /\ garbled' \subseteq SUBSET {"create", "request"}
             /\ \A k \in Incs : node'[k].at = node[k].at /\ (node'[k].out = node[k].out \/ node'[k].out[2] = "create")
  BY <1>3, Kept
<1>4. CASE Create(a)
  <2>1. Goto(a, "connect") /\ UNCHANGED <<list, lock, fault, node, garbled>> /\ lib' \in BOOLEAN
    BY <1>4 DEF Create
  <2>2. QED
    BY <1>1, <1>3, <2>1, GotoMoves DEF AppPcs, Destroying
<1>5. CASE Ask(a)
  <2>1. Goto(a, "ask") /\ UNCHANGED <<list, lock, fault, node, garbled, lib>>
    BY <1>5 DEF Ask
  <2>2. QED
    BY <1>1, <1>3, <2>1, Kept, GotoMoves DEF AppPcs, Destroying
<1>6. ASSUME NEW pc \in {"regist", "conf"}, NEW next \in {"write regist", "write conf"}, Regist(a, pc, next)
      PROVE  TypesInv' /\ OwnersInv'
  <2>1. job[a].pc = pc /\ UNCHANGED <<list, lock, lib>> /\ job[a].i \in Incs
    BY <1>1, <1>2, <1>6 DEF Regist, AtPlace
  <2>2. CASE job' = [job EXCEPT ![a] = Idle] /\ UNCHANGED <<node, fault, garbled>>
    <3>1. Finish(a)
      BY <2>2 DEF Finish
    <3>2. QED
      BY <1>1, <1>3, <2>1, <2>2, <3>1, Kept, FinishMoves
  <2>3. CASE Fault("freed")
    BY <1>1, <2>1, <2>3, Kept, FaultMoves
  <2>4. CASE /\ node' = [node EXCEPT ![job[a].i].out = <<a, "create">>]
             /\ Goto(a, next) /\ UNCHANGED <<fault, garbled>>
    <3>1. PICK n \in NodeType :
             n = [node[job[a].i] EXCEPT !.out = <<a, "create">>] /\ n.at = node[job[a].i].at /\ n.out[2] = "create"
      <4>1. PICK o \in (Threads \cup {None}) \X {"create", "request"} : o = <<a, "create">> /\ o[2] = "create"
        BY <1>1, Composed
      <4>2. /\ [node[job[a].i] EXCEPT !.out = o] \in NodeType
            /\ [node[job[a].i] EXCEPT !.out = o].at = node[job[a].i].at
            /\ [node[job[a].i] EXCEPT !.out = o].out = o
        BY <2>1, <4>1, NodeFields
      <4>3. QED
        BY <4>1, <4>2
    <3>2. node' = [node EXCEPT ![job[a].i] = n]
      BY <2>4, <3>1
    <3>3. /\ node' \in [Incs -> NodeType]
          /\ \A k \in Incs : node'[k].at = node[k].at /\ (node'[k].out = node[k].out \/ node'[k].out[2] = "create")
      BY <2>1, <3>1, <3>2, NodeChanged
    <3>4. /\ next \in AppPcs \cup ReaderPcs /\ next \in AppPcs /\ next \notin Destroying
          /\ next \notin {"list", "write", "idle"} /\ job[a].pc \notin {"idle", "connect", "ask"}
      BY <2>1 DEF AppPcs, Destroying
    <3>5. QED
      BY <1>1, <2>1, <2>4, <3>3, <3>4, Kept, GotoMoves
  <2>5. QED
    BY <1>6, <2>2, <2>3, <2>4 DEF Regist
<1>7. ASSUME NEW pc \in {"write regist", "write conf"}, job[a].pc = pc, Write(a, "create"),
             fault' = None => Finish(a) \/ Goto(a, "conf"), UNCHANGED <<list, lock, lib>>, fault = None
      PROVE  TypesInv' /\ OwnersInv'
  <2>1. job[a].i \in Incs
    BY <1>1, <1>2, <1>7 DEF AtPlace
  <2>2. CASE Fault("freed")
    BY <1>1, <1>7, <2>2, Kept, FaultMoves
  <2>3. CASE ~Fault("freed")
    <3>1. /\ garbled' \subseteq SUBSET {"create", "request"}
          /\ node' \in [Incs -> NodeType] /\ fault' = fault
          /\ \A k \in Incs : node'[k].at = node[k].at /\ (node'[k].out = node[k].out \/ node'[k].out[2] = "create")
      BY <1>1, <1>7, <2>1, <2>3, WriteIs
    <3>2. CASE Finish(a)
      BY <1>1, <1>7, <3>1, <3>2, Kept, FinishMoves
    <3>3. CASE Goto(a, "conf")
      <4>1. /\ "conf" \in AppPcs \cup ReaderPcs /\ "conf" \in AppPcs /\ "conf" \notin Destroying
            /\ job[a].pc \notin {"idle", "connect", "ask"}
        BY <1>7 DEF AppPcs, Destroying
      <4>2. QED
        BY <1>1, <1>7, <3>1, <3>3, <4>1, Kept, GotoMoves
    <3>4. QED
      BY <1>7, <3>1, <3>2, <3>3
  <2>4. QED
    BY <2>2, <2>3
<1>8. CASE LastNode(a)
  <2>1. job[a].pc = "last" /\ UNCHANGED <<list, lock>>
    BY <1>8 DEF LastNode
  <2>2. CASE ~lib
    <3>1. Fault("null") /\ lib' \in BOOLEAN
      BY <1>8, <2>2, Kept DEF LastNode
    <3>2. QED
      BY <1>1, <2>1, <3>1, FaultMoves
  <2>3. CASE lib
    <3>1. lib' \in BOOLEAN /\ Finish(a) /\ UNCHANGED <<node, fault, garbled>>
      BY <1>8, <2>3 DEF LastNode
    <3>2. QED
      BY <1>1, <1>3, <2>1, <3>1, FinishMoves
  <2>4. QED
    BY <2>2, <2>3
<1>9. CASE WriteRegist(a) \/ WriteConf(a)
  <2>1. PICK pc \in {"write regist", "write conf"} :
           /\ job[a].pc = pc /\ Write(a, "create") /\ UNCHANGED <<list, lock, lib>>
           /\ fault' = None => Finish(a) \/ Goto(a, "conf")
    BY <1>9 DEF WriteRegist, WriteConf
  <2>2. QED
    BY <1>7, <2>1
<1>10. QED
  BY <1>4, <1>5, <1>6, <1>8, <1>9

\* The reader's steps but those of its requests and of its end.
LEMMA ReaderMoves ==
  ASSUME IInv, fault = None, NEW i \in Incs,
         Top(i) \/ Enter(i) \/ (\E k \in 1 .. ReadMax : Read(i, k)) \/ ReadEof(i) \/ Unpack(i) \/ Callback(i)
  PROVE  TypesInv' /\ OwnersInv'
<1>1. i \in Threads /\ i \notin Apps
  BY Kept
<1>2. job[i].pc \in {"top", "read", "blocked", "unpack", "callback"}
  BY DEF Top, Enter, Read, ReadEof, Unpack, Callback
<1>3. UNCHANGED <<lib, list, lock, garbled>>
  BY DEF Top, Enter, Read, ReadEof, Unpack, Callback, Fault
<1>4. UNCHANGED node
  BY DEF Top, Enter, Read, ReadEof, Unpack, Callback, Fault
<1>5. \/ Fault("null") \/ Fault("freed")
      \/ UNCHANGED fault /\ (UNCHANGED job \/ \E pc \in {"top", "read", "blocked", "unpack", "callback", "ask", "shut"} : Goto(i, pc))
  <2>1. CASE Top(i)
    BY <2>1 DEF Top
  <2>2. CASE Enter(i)
    BY <2>2 DEF Enter
  <2>3. ASSUME NEW k \in 1 .. ReadMax, Read(i, k)
        PROVE Fault("freed") \/ (UNCHANGED fault /\ Goto(i, "unpack"))
    BY <2>3 DEF Read
  <2>4. CASE ReadEof(i)
    BY <2>4 DEF ReadEof
  <2>5. CASE Unpack(i)
    BY <2>5 DEF Unpack
  <2>6. CASE Callback(i)
    BY <2>6 DEF Callback
  <2>7. QED
    BY <2>1, <2>2, <2>3, <2>4, <2>5, <2>6
<1>6. /\ node' \in [Incs -> NodeType] /\ garbled' \subseteq SUBSET {"create", "request"}
      /\ \A k \in Incs : node'[k].at = node[k].at /\ (node'[k].out = node[k].out \/ node'[k].out[2] = "create")
  BY <1>3, <1>4, Kept
<1>7. CASE Fault("null") \/ Fault("freed")
  BY <1>1, <1>2, <1>3, <1>7, Kept, FaultMoves
<1>8. CASE UNCHANGED fault /\ UNCHANGED job
  <2>1. AtPlace(i, job[i])
    BY <1>1 DEF IInv, OwnersInv
  <2>2. QED
    BY <1>1, <1>2, <1>3, <1>6, <1>8, <2>1, Kept, Moves
<1>9. ASSUME UNCHANGED fault, NEW pc \in {"top", "read", "blocked", "unpack", "callback", "ask", "shut"}, Goto(i, pc)
      PROVE  TypesInv' /\ OwnersInv'
  <2>1. pc \in ReaderPcs /\ pc \notin {"list", "write", "idle"}
    BY DEF ReaderPcs
  <2>2. QED
    BY <1>1, <1>2, <1>3, <1>6, <1>9, <2>1, Kept, GotoMoves
<1>10. QED
  BY <1>5, <1>7, <1>8, <1>9

\* The steps that close and free a connection, by ne_doip_node_destroy or by the reader.
LEMMA Closing ==
  ASSUME IInv, fault = None, NEW t \in Threads, NEW next,
         next = IF t \in Apps THEN "join" ELSE "ended",
         Shut(t, next) \/ FreeConn(t, next) \/ SetNull(t, next)
  PROVE  TypesInv' /\ OwnersInv'
<1> DEFINE i == job[t].i
<1>1. job[t].pc \in {"shut", "free", "null"} /\ UNCHANGED <<lib, list, lock>>
  BY DEF Shut, FreeConn, SetNull
<1>2. AtPlace(t, job[t])
  BY DEF IInv, OwnersInv
<1>3. i \in Incs
  BY <1>1, <1>2 DEF AtPlace, Threads
<1>4. \/ Fault("freed") \/ Fault("twice")
      \/ /\ UNCHANGED <<fault, garbled>>
         /\ \E pc \in {"free", "null", next} : Goto(t, pc)
         /\ \/ UNCHANGED node
            \/ \E c \in {"closed", "freed"} : node' = [node EXCEPT ![i].conn = c]
            \/ node' = [node EXCEPT ![i].ptr = FALSE]
  BY DEF Shut, FreeConn, SetNull
<1>5. CASE Fault("freed") \/ Fault("twice")
  BY <1>1, <1>5, Kept, FaultMoves
<1>6. ASSUME UNCHANGED <<fault, garbled>>, NEW pc \in {"free", "null", next}, Goto(t, pc),
             \/ UNCHANGED node
             \/ \E c \in {"closed", "freed"} : node' = [node EXCEPT ![i].conn = c]
             \/ node' = [node EXCEPT ![i].ptr = FALSE]
      PROVE  TypesInv' /\ OwnersInv'
  <2>1. PICK n \in NodeType : node' = [node EXCEPT ![i] = n] /\ n.at = node[i].at /\ n.out = node[i].out
    <3>1. CASE UNCHANGED node
      <4>1. node[i] \in NodeType /\ node = [node EXCEPT ![i] = node[i]]
        BY <1>3, Kept
      <4>2. QED
        BY <3>1, <4>1
    <3>2. ASSUME NEW c \in {"closed", "freed"}, node' = [node EXCEPT ![i].conn = c]
          PROVE  \E n \in NodeType : node' = [node EXCEPT ![i] = n] /\ n.at = node[i].at /\ n.out = node[i].out
      <4>1. /\ [node[i] EXCEPT !.conn = c] \in NodeType
            /\ [node[i] EXCEPT !.conn = c].at = node[i].at /\ [node[i] EXCEPT !.conn = c].out = node[i].out
        BY <1>3, NodeFields
      <4>2. QED
        BY <3>2, <4>1
    <3>3. CASE node' = [node EXCEPT ![i].ptr = FALSE]
      <4>1. /\ [node[i] EXCEPT !.ptr = FALSE] \in NodeType
            /\ [node[i] EXCEPT !.ptr = FALSE].at = node[i].at /\ [node[i] EXCEPT !.ptr = FALSE].out = node[i].out
        BY <1>3, NodeFields
      <4>2. QED
        BY <3>3, <4>1
    <3>4. QED
      BY <1>6, <3>1, <3>2, <3>3
  <2>2. /\ node' \in [Incs -> NodeType]
        /\ \A k \in Incs : node'[k].at = node[k].at /\ (node'[k].out = node[k].out \/ node'[k].out[2] = "create")
    BY <1>3, <2>1, NodeChanged
  <2>3. /\ pc \in AppPcs \cup ReaderPcs /\ pc \notin {"list", "write", "idle"}
        /\ t \in Apps => pc \in AppPcs /\ job[t].pc \in Destroying
        /\ t \in Incs => pc \in ReaderPcs
    BY <1>1, Kept DEF AppPcs, ReaderPcs, Destroying
  <2>4. QED
    BY <1>1, <1>6, <2>2, <2>3, Kept, GotoMoves
<1>7. QED
  BY <1>4, <1>5, <1>6

\* A request is composed and written with the lock held.
LEMMA Requests ==
  ASSUME IInv, fault = None, NEW t \in Threads, Compose(t) \/ WriteRequest(t)
  PROVE  TypesInv' /\ OwnersInv'
<1>1. AtPlace(t, job[t]) /\ Writer(t)
  BY DEF IInv, OwnersInv
<1>2. ASSUME UNCHANGED <<node, garbled>>
      PROVE  /\ node' \in [Incs -> NodeType] /\ garbled' \subseteq SUBSET {"create", "request"}
             /\ \A k \in Incs : node'[k].at = node[k].at /\ (node'[k].out = node[k].out \/ node'[k].out[2] = "create")
  BY <1>2, Kept
<1>3. CASE Compose(t)
  <2>1. job[t].pc = "ask" /\ UNCHANGED <<lib, list>>
    BY <1>3 DEF Compose
  <2>2. CASE (Fault("null") \/ Fault("freed")) /\ UNCHANGED lock
    BY <2>1, <2>2, Kept, FaultMoves
  <2>3. CASE Finish(t) /\ UNCHANGED <<lock, node, fault, garbled>>
    BY <1>2, <2>1, <2>3, Kept, FinishMoves
  <2>4. CASE /\ Free /\ Found # 0 /\ Locks(t)
             /\ node' = [node EXCEPT ![Found].out = <<t, "request">>]
             /\ job' = [job EXCEPT ![t] = [pc |-> "write", i |-> Found]]
             /\ UNCHANGED <<fault, garbled>>
    <3>1. PICK i \in Incs : i = Found
      BY <2>4, FoundIsListed
    <3>2. lock = None /\ lock' = t /\ t # None
      BY <2>4, Kept DEF Free, Locks
    <3>3. PICK o \in (Threads \cup {None}) \X {"create", "request"} : o = <<t, "request">>
      BY Composed
    <3>4. PICK n : n = [node[i] EXCEPT !.out = o] /\ n \in NodeType /\ n.at = node[i].at /\ n.out = o
      BY NodeFields
    <3>5. node' = [node EXCEPT ![i] = n]
      BY <2>4, <3>1, <3>3, <3>4
    <3>6. node' \in [Incs -> NodeType] /\ node'[i] = n /\ \A k \in Incs : node'[k].at = node[k].at
      BY <3>4, <3>5, Kept
    <3>7. PICK e : e = [pc |-> "write", i |-> i]
      OBVIOUS
    <3>8. e \in JobType /\ e.pc = "write" /\ e.i = i
      BY <3>7, Numbers DEF JobType, AppPcs
    <3>9. job' \in [Threads -> JobType] /\ job'[t] = e /\ \A u \in Threads : u # t => job'[u] = job[u]
      BY <2>4, <3>1, <3>7, <3>8, Goes
    <3>10. \A u \in Threads : job[u].pc # "write"
      BY <3>2, Kept DEF IInv, OwnersInv, Writer
    <3>11. \A a \in Apps : job[a].pc \notin Destroying
      BY <3>2, Kept DEF IInv, OwnersInv, Destroyer
    <3>12. TypesInv'
      BY <2>1, <2>4, <3>2, <3>6, <3>9, Kept DEF TypesInv
    <3>13. ASSUME NEW u \in Threads PROVE AtPlace(u, job'[u]) /\ Writer(u)'
      <4>1. CASE u = t
        <5>1. AtPlace(u, e)
          BY <3>8, <4>1, Kept DEF AtPlace, AppPcs, ReaderPcs
        <5>2. node'[i].out = <<t, "request">>
          BY <3>3, <3>4, <3>6
        <5>3. job'[u] = e /\ lock' = u /\ node'[job'[u].i].out = <<u, "request">>
          BY <3>2, <3>8, <3>9, <4>1, <5>2
        <5>4. QED
          BY <5>1, <5>3 DEF Writer
      <4>2. CASE u # t
        BY <3>9, <3>10, <4>2 DEF IInv, OwnersInv, Writer
      <4>3. QED
        BY <4>1, <4>2
    <3>14. \A a \in Apps : Destroyer(a)' /\ Maker(a)'
      <4>1. \A a \in Apps : job'[a].pc = "list" => job'[a] = job[a]
        BY <3>8, <3>9, Kept
      <4>2. \A a \in Apps : job'[a].pc \notin Destroying
        BY <3>8, <3>9, <3>11, Kept DEF Destroying
      <4>3. QED
        BY <3>6, <4>1, <4>2, MakersKept DEF Destroyer
    <3>15. \A k \in Incs : Stage(k)'
      <4>1. ASSUME NEW k \in Incs
            PROVE  (job'[k].pc = "idle" <=> job[k].pc = "idle") /\ (job[k].pc = "ended" => job'[k].pc = "ended")
        BY <2>1, <3>8, <3>9, Kept
      <4>2. QED
        BY <2>1, <3>6, <4>1, StagesKept
    <3>16. QED
      BY <2>1, <3>12, <3>13, <3>14, <3>15 DEF IInv, OwnersInv
  <2>5. QED
    BY <1>3, <2>2, <2>3, <2>4 DEF Compose
<1>4. CASE WriteRequest(t)
  <2>1. job[t].pc = "write" /\ UNCHANGED <<lib, list>> /\ Write(t, "request") /\ lock = t
    BY <1>1, <1>4 DEF WriteRequest, Writer
  <2>2. job[t].i \in Incs
    BY <1>1, <2>1 DEF AtPlace, Threads
  <2>3. CASE Fault("freed") /\ UNCHANGED lock
    BY <2>1, <2>3, Kept, FaultMoves
  <2>4. CASE ~(Fault("freed") /\ UNCHANGED lock)
    <3>1. /\ garbled' \subseteq SUBSET {"create", "request"}
          /\ node' \in [Incs -> NodeType] /\ fault' = fault
          /\ \A k \in Incs : node'[k].at = node[k].at /\ node'[k].out = node[k].out
          /\ Finish(t) /\ lock' = None
      <4>1. CASE fault' = None
        <5>1. Finish(t) /\ lock' = None
          BY <1>4, <2>1, <4>1 DEF WriteRequest
        <5>2. ~Fault("freed")
          <6>1. CASE Fault("freed")
            <7>1. job' = job
              BY <6>1 DEF Fault
            <7>2. job'[t].pc # "write"
              <8>1. job'[t] = IF t \in Apps THEN [pc |-> "idle", i |-> 0] ELSE [pc |-> "unpack", i |-> t]
                BY <5>1, FinishGoes DEF Idle
              <8>2. QED
                BY <8>1
            <7>3. QED
              BY <2>1, <7>1, <7>2
          <6>2. QED
            BY <6>1
        <5>3. QED
          BY <2>1, <2>2, <4>1, <5>1, <5>2, WriteIs
      <4>2. CASE fault' # None
        <5>1. UNCHANGED lock
          BY <1>4, <4>2 DEF WriteRequest
        <5>2. fault' = fault
          BY <2>1, <2>2, <2>4, <5>1, WriteIs
        <5>3. QED
          BY <4>2, <5>2
      <4>3. QED
        BY <4>1, <4>2
    <3>2. /\ job' \in [Threads -> JobType]
          /\ job'[t] = IF t \in Apps THEN Idle ELSE [pc |-> "unpack", i |-> t]
          /\ \A u \in Threads : u # t => job'[u] = job[u]
      BY <3>1, FinishGoes
    <3>3. /\ job'[t].pc \in {"idle", "unpack"} /\ (t \in Incs => job'[t].pc = "unpack")
          /\ AtPlace(t, job'[t])
      <4>1. CASE t \in Apps
        <5>1. job'[t] = [pc |-> "idle", i |-> 0] /\ job'[t] \in JobType /\ t \notin Incs
          BY <3>2, <4>1, Kept DEF Idle
        <5>2. QED
          BY <4>1, <5>1 DEF AtPlace, AppPcs
      <4>2. CASE t \in Incs
        <5>1. job'[t] = [pc |-> "unpack", i |-> t] /\ job'[t] \in JobType /\ t \notin Apps
          BY <3>2, <4>2, Kept
        <5>2. QED
          BY <4>2, <5>1 DEF AtPlace, ReaderPcs
      <4>3. QED
        BY <4>1, <4>2 DEF Threads
    <3>4. TypesInv'
      BY <2>1, <3>1, <3>2, Kept DEF TypesInv
    <3>5. \A u \in Threads : job'[u].pc # "write"
      <4>1. \A u \in Threads : u # t => job[u].pc # "write"
        BY <2>1 DEF IInv, OwnersInv, Writer
      <4>2. QED
        BY <3>2, <3>3, <4>1
    <3>6. \A a \in Apps : job'[a].pc \notin Destroying
      <4>1. \A a \in Apps : a # t => job[a].pc \notin Destroying
        BY <2>1 DEF IInv, OwnersInv, Destroyer
      <4>2. QED
        BY <3>2, <3>3, <4>1, Kept DEF Destroying
    <3>7. ASSUME NEW u \in Threads PROVE AtPlace(u, job'[u])
      BY <3>2, <3>3 DEF IInv, OwnersInv
    <3>8. \A a \in Apps : Maker(a)'
      <4>1. \A a \in Apps : job'[a].pc = "list" => job'[a] = job[a]
        BY <3>2, <3>3, Kept
      <4>2. QED
        BY <3>1, <4>1, MakersKept
    <3>9. \A k \in Incs : Stage(k)'
      <4>1. ASSUME NEW k \in Incs
            PROVE  (job'[k].pc = "idle" <=> job[k].pc = "idle") /\ (job[k].pc = "ended" => job'[k].pc = "ended")
        BY <2>1, <3>2, <3>3, Kept
      <4>2. QED
        BY <2>1, <3>1, <4>1, StagesKept
    <3>10. QED
      BY <2>1, <3>4, <3>5, <3>6, <3>7, <3>8, <3>9 DEF IInv, OwnersInv, Writer, Destroyer
  <2>5. QED
    BY <2>3, <2>4
<1>5. QED
  BY <1>3, <1>4

\* A node that no thread and no list has heard of is made by one thread and gets its reader.
LEMMA Connecting ==
  ASSUME IInv, NEW a \in Apps, Connect(a)
  PROVE  TypesInv' /\ OwnersInv'
<1>1. a \in Threads /\ a \notin Incs /\ job[a].pc = "connect" /\ UNCHANGED <<lib, list, lock, fault, garbled>>
  BY Kept DEF Connect
<1>2. CASE job' = [job EXCEPT ![a] = Idle] /\ UNCHANGED node
  <2>1. Finish(a)
    BY <1>2 DEF Finish
  <2>2. /\ node' \in [Incs -> NodeType] /\ garbled' \subseteq SUBSET {"create", "request"}
        /\ \A k \in Incs : node'[k].at = node[k].at /\ (node'[k].out = node[k].out \/ node'[k].out[2] = "create")
    BY <1>1, <1>2, Kept
  <2>3. QED
    BY <1>1, <2>1, <2>2, Kept, FinishMoves
<1>3. ASSUME NEW i \in Incs, node[i].at = "none",
             node' = [node EXCEPT ![i] = [@ EXCEPT !.at = "made", !.conn = "open", !.ptr = TRUE]],
             job' = [job EXCEPT ![a] = [pc |-> "list", i |-> i], ![i] = [pc |-> "top", i |-> i]]
      PROVE  TypesInv' /\ OwnersInv'
  <2>1. PICK n : n = [node[i] EXCEPT !.at = "made", !.conn = "open", !.ptr = TRUE] /\ n \in NodeType
                 /\ n.at = "made" /\ n.out = node[i].out
    <3>1. node[i] \in NodeType
      BY Kept
    <3>2. PICK m : m = [node[i] EXCEPT !.at = "made", !.conn = "open", !.ptr = TRUE]
      OBVIOUS
    <3>3. m.at = "made" /\ m.out = node[i].out /\ m \in NodeType
      BY <3>1, <3>2 DEF NodeType
    <3>4. QED
      BY <3>2, <3>3
  <2>2. node' \in [Incs -> NodeType] /\ node'[i] = n /\ \A k \in Incs : k # i => node'[k] = node[k]
    <3>1. node' = [node EXCEPT ![i] = n]
      BY <1>3, <2>1
    <3>2. QED
      BY <2>1, <3>1, Kept
  <2>3. PICK e, f : e = [pc |-> "list", i |-> i] /\ f = [pc |-> "top", i |-> i]
    OBVIOUS
  <2>4. /\ e \in JobType /\ e.pc = "list" /\ e.i = i
        /\ f \in JobType /\ f.pc = "top" /\ f.i = i
    BY <2>3, Numbers DEF JobType, AppPcs, ReaderPcs
  <2>5. /\ job' \in [Threads -> JobType] /\ job'[a] = e /\ job'[i] = f
        /\ \A u \in Threads : u # a /\ u # i => job'[u] = job[u]
    <3>1. job' = [job EXCEPT ![a] = e, ![i] = f] /\ i \in Threads /\ a # i
      BY <1>1, <1>3, <2>3, Kept
    <3>2. QED
      BY <1>1, <2>4, <3>1, Kept
  <2>6. job[i].pc = "idle" /\ \A k \in Incs : Stage(k)
    BY <1>3 DEF IInv, OwnersInv, Stage
  <2>7. TypesInv'
    BY <1>1, <2>2, <2>5, Kept DEF TypesInv
  <2>8. ASSUME NEW u \in Threads PROVE AtPlace(u, job'[u])
    <3>1. AtPlace(a, e) /\ AtPlace(i, f)
      BY <1>1, <2>4, Kept DEF AtPlace, AppPcs, ReaderPcs
    <3>2. QED
      BY <2>5, <3>1 DEF IInv, OwnersInv
  <2>9. ASSUME NEW u \in Threads PROVE Writer(u)'
    <3>1. SUFFICES ASSUME job'[u].pc = "write" PROVE Writer(u)'
      BY DEF Writer
    <3>2. job'[u] = job[u]
      BY <2>4, <2>5, <3>1
    <3>3. Writer(u) /\ AtPlace(u, job[u])
      BY DEF IInv, OwnersInv
    <3>4. job[u].i \in Incs
      BY <3>1, <3>2, <3>3 DEF AtPlace, Threads
    <3>5. node'[job[u].i].out = node[job[u].i].out
      BY <2>1, <2>2, <3>4
    <3>6. QED
      BY <1>1, <3>1, <3>2, <3>3, <3>5 DEF Writer
  <2>10. ASSUME NEW b \in Apps PROVE Destroyer(b)'
    <3>1. SUFFICES ASSUME job'[b].pc \in Destroying PROVE Destroyer(b)'
      BY DEF Destroyer
    <3>2. job'[b] = job[b]
      BY <2>4, <2>5, <3>1, Kept DEF Destroying
    <3>3. Destroyer(b) /\ AtPlace(b, job[b])
      BY Kept DEF IInv, OwnersInv
    <3>4. job[b].i \in Incs /\ node[job[b].i].at = "removed"
      BY <3>1, <3>2, <3>3 DEF AtPlace, Destroyer, Destroying
    <3>5. node'[job[b].i].at = "removed"
      BY <1>3, <2>2, <3>4
    <3>6. QED
      BY <1>1, <3>1, <3>2, <3>3, <3>5 DEF Destroyer
  <2>11. ASSUME NEW b \in Apps, b # a, job'[b].pc = "list"
         PROVE  job'[b] = job[b] /\ job[b].i \in Incs /\ job[b].i # i /\ node[job[b].i].at = "made" /\ Maker(b)
    <3>1. job'[b] = job[b]
      BY <2>5, <2>11, Kept
    <3>2. Maker(b) /\ AtPlace(b, job[b])
      BY Kept DEF IInv, OwnersInv
    <3>3. job[b].i \in Incs /\ node[job[b].i].at = "made"
      BY <2>11, <3>1, <3>2 DEF Maker, AtPlace
    <3>4. QED
      BY <1>3, <3>1, <3>2, <3>3
  <2>12. ASSUME NEW b \in Apps PROVE Maker(b)'
    <3>1. SUFFICES ASSUME job'[b].pc = "list" PROVE Maker(b)'
      BY DEF Maker
    <3>2. node'[job'[b].i].at = "made"
      <4>1. CASE b = a
        BY <2>1, <2>2, <2>4, <2>5, <4>1
      <4>2. CASE b # a
        <5>1. job'[b] = job[b] /\ job[b].i \in Incs /\ job[b].i # i /\ node[job[b].i].at = "made"
          BY <2>11, <3>1, <4>2
        <5>2. QED
          BY <2>2, <5>1
      <4>3. QED
        BY <4>1, <4>2
    <3>3. ASSUME NEW c \in Apps, c # b, job'[c].pc = "list" PROVE job'[c].i # job'[b].i
      <4>1. CASE b = a
        BY <2>4, <2>5, <2>11, <3>3, <4>1
      <4>2. CASE c = a
        BY <2>4, <2>5, <2>11, <3>1, <3>3, <4>2
      <4>3. CASE b # a /\ c # a
        BY <2>11, <3>1, <3>3, <4>3 DEF Maker
      <4>4. QED
        BY <4>1, <4>2, <4>3
    <3>4. QED
      BY <3>2, <3>3 DEF Maker
  <2>13. ASSUME NEW k \in Incs PROVE Stage(k)'
    <3>1. CASE k = i
      BY <1>1, <1>3, <2>1, <2>2, <2>4, <2>5, <2>6, <3>1 DEF Stage
    <3>2. CASE k # i
      <4>1. job'[k] = job[k] /\ node'[k] = node[k] /\ Stage(k)
        BY <1>1, <2>2, <2>5, <2>6, <3>2, Kept
      <4>2. QED
        BY <1>1, <4>1 DEF Stage
    <3>3. QED
      BY <3>1, <3>2
  <2>14. QED
    BY <1>1, <2>7, <2>8, <2>9, <2>10, <2>12, <2>13 DEF IInv, OwnersInv
<1>4. QED
  BY <1>2, <1>3 DEF Connect

\* A thread whose node's stage changes: it holds the lock or takes it, so that no other thread
\* writes a request or destroys a node.
LEMMA AloneMoves ==
  ASSUME IInv, NEW a \in Apps, NEW i \in Incs, NEW s \in {"listed", "removed", "freed"},
         node' = [node EXCEPT ![i].at = s],
         NEW pc \in {"regist", "shut", "last"}, job' = [job EXCEPT ![a] = [pc |-> pc, i |-> i]],
         UNCHANGED <<lib, fault, garbled>>,
         \A u \in Threads \ {a} : lock # u,
         list' \in Seq(Incs), lock' \in Threads \cup {None}, pc = "shut" => lock' = a /\ s = "removed",
         node[i].at # "made" \/ (job[a].pc = "list" /\ job[a].i = i),
         node[i].at # "none",
         s = "freed" => job[i].pc = "ended",
         \A k \in Incs : (\E p \in 1 .. Len(list') : list'[p] = k) <=> node'[k].at = "listed",
         \A p, q \in 1 .. Len(list') : list'[p] = list'[q] => p = q
  PROVE  TypesInv' /\ OwnersInv'
<1>1. a \in Threads /\ a \notin Incs
  BY Kept
<1>2. PICK n : n = [node[i] EXCEPT !.at = s] /\ n \in NodeType /\ n.at = s /\ n.out = node[i].out
  <2>1. node[i] \in NodeType
    BY Kept
  <2>2. PICK m : m = [node[i] EXCEPT !.at = s]
    OBVIOUS
  <2>3. m.at = s /\ m.out = node[i].out /\ m \in NodeType
    BY <2>1, <2>2 DEF NodeType
  <2>4. QED
    BY <2>2, <2>3
<1>3. node' \in [Incs -> NodeType] /\ node'[i] = n /\ \A k \in Incs : k # i => node'[k] = node[k]
  <2>1. node' = [node EXCEPT ![i] = n]
    BY <1>2
  <2>2. QED
    BY <1>2, <2>1, Kept
<1>4. PICK e : e = [pc |-> pc, i |-> i]
  OBVIOUS
<1>5. e \in JobType /\ e.pc = pc /\ e.i = i
  BY <1>4, Numbers DEF JobType, AppPcs
<1>6. job' \in [Threads -> JobType] /\ job'[a] = e /\ \A u \in Threads : u # a => job'[u] = job[u]
  BY <1>1, <1>4, <1>5, Goes
<1>7. TypesInv'
  BY <1>3, <1>6, Kept DEF TypesInv
<1>8. ASSUME NEW u \in Threads PROVE AtPlace(u, job'[u]) /\ Writer(u)'
  <2>1. CASE u = a
    BY <1>1, <1>5, <1>6, <2>1 DEF AtPlace, Writer, AppPcs
  <2>2. CASE u # a
    BY <1>6, <2>2 DEF IInv, OwnersInv, Writer
  <2>3. QED
    BY <2>1, <2>2
<1>9. ASSUME NEW b \in Apps PROVE Destroyer(b)'
  <2>1. CASE b = a
    BY <1>2, <1>3, <1>5, <1>6, <2>1 DEF Destroyer, Destroying
  <2>2. CASE b # a
    BY <1>1, <1>6, <2>2, Kept DEF IInv, OwnersInv, Destroyer
  <2>3. QED
    BY <2>1, <2>2
<1>10. ASSUME NEW b \in Apps, job'[b].pc = "list"
       PROVE  /\ job'[b] = job[b] /\ node'[job[b].i].at = "made"
              /\ \A c \in Apps : c # b => ~(job[c].pc = "list" /\ job[c].i = job[b].i)
  <2>1. b # a /\ job'[b] = job[b]
    BY <1>5, <1>6, <1>10, Kept
  <2>2. Maker(b) /\ AtPlace(b, job[b])
    BY Kept DEF IInv, OwnersInv
  <2>3. job[b].i \in Incs /\ node[job[b].i].at = "made"
    BY <1>10, <2>1, <2>2 DEF Maker, AtPlace
  <2>4. \A c \in Apps : c # b => ~(job[c].pc = "list" /\ job[c].i = job[b].i)
    BY <1>10, <2>1, <2>2 DEF Maker
  <2>5. job[b].i # i
    BY <2>1, <2>3, <2>4
  <2>6. QED
    BY <1>3, <2>1, <2>3, <2>4, <2>5
<1>11. ASSUME NEW b \in Apps PROVE Maker(b)'
  BY <1>10 DEF Maker
<1>12. ASSUME NEW k \in Incs PROVE Stage(k)'
  <2>1. job'[k] = job[k] /\ Stage(k)
    BY <1>1, <1>6, Kept DEF IInv, OwnersInv
  <2>2. CASE k = i
    BY <1>2, <1>3, <2>1, <2>2 DEF Stage
  <2>3. CASE k # i
    BY <1>3, <2>1, <2>3 DEF Stage
  <2>4. QED
    BY <2>2, <2>3
<1>13. QED
  BY <1>7, <1>8, <1>9, <1>11, <1>12 DEF OwnersInv

\* The node a thread has made enters the list.
LEMMA Listing ==
  ASSUME IInv, fault = None, NEW a \in Apps, List(a)
  PROVE  TypesInv' /\ OwnersInv'
<1>1. a \in Threads /\ a \notin Incs /\ job[a].pc = "list" /\ UNCHANGED <<lib, lock>>
  BY Kept DEF List
<1>2. AtPlace(a, job[a]) /\ Maker(a)
  BY <1>1 DEF IInv, OwnersInv
<1>3. PICK i \in Incs : i = job[a].i /\ node[i].at = "made"
  BY <1>1, <1>2 DEF AtPlace, Maker
<1>4. CASE Fault("null") /\ UNCHANGED list
  BY <1>1, <1>4, Kept, FaultMoves
<1>5. CASE /\ Free /\ list' = Append(list, i) /\ node' = [node EXCEPT ![i].at = "listed"]
           /\ Goto(a, "regist") /\ UNCHANGED <<fault, garbled>>
  <2>1. "regist" \in AppPcs \cup ReaderPcs
    BY DEF AppPcs
  <2>2. job' = [job EXCEPT ![a] = [pc |-> "regist", i |-> i]]
    BY <1>1, <1>3, <1>5, <2>1, Labelled, Kept DEF Goto
  <2>3. Len(list) \in Nat /\ list' \in Seq(Incs) /\ Len(list') = Len(list) + 1
    BY <1>5, Kept, LenProperties, AppendProperties
  <2>4. (\A p \in 1 .. Len(list) : list'[p] = list[p]) /\ list'[Len(list) + 1] = i
    BY <1>5, Kept, AppendProperties
  <2>5. \A k \in Incs : Stage(k)
    BY DEF IInv, OwnersInv
  <2>6. \A p \in 1 .. Len(list) : list[p] # i
    BY <1>3, <2>5 DEF Stage
  <2>7. \A p \in 1 .. Len(list') : p \in 1 .. Len(list) \/ p = Len(list) + 1
    BY <2>3
  <2>8. \A p, q \in 1 .. Len(list) : list[p] = list[q] => p = q
    BY DEF IInv, OwnersInv
  <2>9. \A p, q \in 1 .. Len(list') : list'[p] = list'[q] => p = q
    BY <2>4, <2>6, <2>7, <2>8
  <2>10. node[i] \in NodeType
    BY Kept
  <2>11. node'[i].at = "listed" /\ \A k \in Incs : k # i => node'[k] = node[k]
    BY <1>5, <2>10, Kept DEF NodeType
  <2>12. ASSUME NEW k \in Incs
         PROVE  (\E p \in 1 .. Len(list') : list'[p] = k) <=> node'[k].at = "listed"
    <3>1. CASE k = i
      <4>1. Len(list) + 1 \in 1 .. Len(list')
        BY <2>3
      <4>2. QED
        BY <2>4, <2>11, <3>1, <4>1
    <3>2. CASE k # i
      <4>1. node[k].at = "listed" <=> \E p \in 1 .. Len(list) : list[p] = k
        BY <2>5 DEF Stage
      <4>2. (\E p \in 1 .. Len(list') : list'[p] = k) <=> \E p \in 1 .. Len(list) : list[p] = k
        <5>1. \A p \in 1 .. Len(list) : p \in 1 .. Len(list')
          BY <2>3
        <5>2. QED
          BY <2>4, <2>7, <3>2, <5>1
      <4>3. QED
        BY <2>11, <3>2, <4>1, <4>2
    <3>3. QED
      BY <3>1, <3>2
  <2>13. lock' \in Threads \cup {None} /\ \A u \in Threads : lock # u
    BY <1>1, <1>5, Kept DEF Free
  <2>14. node' = [node EXCEPT ![i].at = "listed"] /\ UNCHANGED <<lib, fault, garbled>>
    BY <1>1, <1>5
  <2>15. /\ node[i].at # "none" /\ job[a].pc = "list" /\ job[a].i = i
         /\ list' \in Seq(Incs) /\ \A u \in Threads \ {a} : lock # u
    BY <1>1, <1>3, <2>3, <2>13
  <2>16. QED
    BY <2>2, <2>9, <2>12, <2>13, <2>14, <2>15, AloneMoves
<1>6. QED
  BY <1>1, <1>3, <1>4, <1>5 DEF List

\* The node that is found leaves the list.
LEMMA Destroys ==
  ASSUME IInv, NEW a \in Apps, Destroy(a)
  PROVE  TypesInv' /\ OwnersInv'
<1>1. a \in Threads /\ Free /\ Found # 0 /\ lock' = a /\ list' = Tail(list) /\ UNCHANGED <<lib, fault, garbled>>
  BY Kept DEF Destroy
<1>2. PICK i \in Incs : i = Found /\ node[i].at = "listed" /\ Len(list) > 0 /\ i = list[1]
  BY <1>1, FoundIsListed
<1>3. node' = [node EXCEPT ![i].at = "removed"] /\ job' = [job EXCEPT ![a] = [pc |-> "shut", i |-> i]]
  BY <1>2 DEF Destroy, Start
<1>4. list \in Seq(Incs) /\ Len(list) \in Nat /\ list # <<>>
  BY <1>2, Kept, LenProperties, EmptySeq
<1>5. /\ list' \in Seq(Incs) /\ Len(list') = Len(list) - 1
      /\ \A p \in 1 .. Len(list') : list'[p] = list[p + 1]
  BY <1>1, <1>4, HeadTailProperties
<1>6. (\A k \in Incs : Stage(k)) /\ \A p, q \in 1 .. Len(list) : list[p] = list[q] => p = q
  BY DEF IInv, OwnersInv
<1>7. \A p \in 1 .. Len(list') : p + 1 \in 1 .. Len(list) /\ p + 1 # 1
  BY <1>4, <1>5
<1>8. \A p, q \in 1 .. Len(list') : list'[p] = list'[q] => p = q
  <2>1. ASSUME NEW p \in 1 .. Len(list'), NEW q \in 1 .. Len(list'), list'[p] = list'[q] PROVE p = q
    <3>1. p + 1 = q + 1
      BY <1>5, <1>6, <1>7, <2>1
    <3>2. QED
      BY <3>1
  <2>2. QED
    BY <2>1
<1>9. node[i] \in NodeType
  BY Kept
<1>10. node'[i].at = "removed" /\ \A k \in Incs : k # i => node'[k] = node[k]
  BY <1>3, <1>9, Kept DEF NodeType
<1>11. ASSUME NEW k \in Incs
       PROVE  (\E p \in 1 .. Len(list') : list'[p] = k) <=> node'[k].at = "listed"
  <2>1. CASE k = i
    <3>1. ASSUME NEW p \in 1 .. Len(list'), list'[p] = k PROVE FALSE
      <4>1. list[p + 1] = list[1] /\ 1 \in 1 .. Len(list)
        BY <1>2, <1>4, <1>5, <2>1, <3>1
      <4>2. QED
        BY <1>6, <1>7, <4>1
    <3>2. QED
      BY <1>10, <2>1, <3>1
  <2>2. CASE k # i
    <3>1. node[k].at = "listed" <=> \E p \in 1 .. Len(list) : list[p] = k
      BY <1>6 DEF Stage
    <3>2. ASSUME NEW p \in 1 .. Len(list), list[p] = k PROVE \E q \in 1 .. Len(list') : list'[q] = k
      <4>1. p # 1
        BY <1>2, <2>2, <3>2
      <4>2. p - 1 \in 1 .. Len(list') /\ (p - 1) + 1 = p
        BY <1>4, <1>5, <4>1
      <4>3. list'[p - 1] = list[p]
        BY <1>5, <4>2
      <4>4. QED
        BY <3>2, <4>2, <4>3
    <3>3. ASSUME NEW p \in 1 .. Len(list'), list'[p] = k PROVE \E q \in 1 .. Len(list) : list[q] = k
      BY <1>5, <1>7, <3>3
    <3>4. QED
      BY <1>10, <2>2, <3>1, <3>2, <3>3
  <2>3. QED
    BY <2>1, <2>2
<1>12. lock' \in Threads \cup {None} /\ \A u \in Threads : lock # u
  BY <1>1, Kept DEF Free
<1>13. /\ node[i].at # "none" /\ node[i].at # "made" /\ lock' = a /\ list' \in Seq(Incs)
       /\ UNCHANGED <<lib, fault, garbled>> /\ \A u \in Threads \ {a} : lock # u
  BY <1>1, <1>2, <1>5, <1>12
<1>14. QED
  BY <1>3, <1>8, <1>11, <1>12, <1>13, AloneMoves

\* The reader has ended; the node is freed and the lock given back.
LEMMA Joins ==
  ASSUME IInv, NEW a \in Apps, Join(a)
  PROVE  TypesInv' /\ OwnersInv'
<1>1. /\ a \in Threads /\ job[a].pc = "join" /\ Joined(job[a].i) /\ lock' = None /\ Goto(a, "last")
      /\ node' = [node EXCEPT ![job[a].i].at = "freed"]
      /\ UNCHANGED <<lib, list, fault, garbled>>
  BY Kept DEF Join
<1>2. AtPlace(a, job[a]) /\ Destroyer(a)
  BY <1>1 DEF IInv, OwnersInv
<1>3. PICK i \in Incs : i = job[a].i /\ node[i].at = "removed" /\ lock = a
  BY <1>1, <1>2 DEF AtPlace, Destroyer, Destroying
<1>4. job' = [job EXCEPT ![a] = [pc |-> "last", i |-> i]]
  <2>1. "last" \in AppPcs \cup ReaderPcs
    BY DEF AppPcs
  <2>2. QED
    BY <1>1, <1>3, <2>1, Labelled, Kept DEF Goto
<1>5. node[i] \in NodeType
  BY Kept
<1>6. node'[i].at = "freed" /\ \A k \in Incs : k # i => node'[k] = node[k]
  BY <1>1, <1>3, <1>5, Kept DEF NodeType
<1>7. (\A k \in Incs : Stage(k)) /\ \A p, q \in 1 .. Len(list) : list[p] = list[q] => p = q
  BY DEF IInv, OwnersInv
<1>8. \A k \in Incs : (\E p \in 1 .. Len(list') : list'[p] = k) <=> node'[k].at = "listed"
  BY <1>1, <1>3, <1>6, <1>7 DEF Stage
<1>9. job[i].pc = "ended"
  BY <1>1, <1>3 DEF Joined
<1>10. list' \in Seq(Incs) /\ \A p, q \in 1 .. Len(list') : list'[p] = list'[q] => p = q
  BY <1>1, <1>7, Kept
<1>11. \A u \in Threads \ {a} : lock # u
  BY <1>3
<1>12. node' = [node EXCEPT ![i].at = "freed"]
  BY <1>1, <1>3
<1>13. QED
  BY <1>1, <1>3, <1>4, <1>8, <1>9, <1>10, <1>11, <1>12, AloneMoves

\* What the server does leaves the threads alone.
LEMMA PeerMoves ==
  ASSUME IInv, NEW i \in Incs, Close(i) \/ \E len \in Lengths : Send(i, len)
  PROVE  TypesInv' /\ OwnersInv'
<1>1. UNCHANGED <<lib, list, lock, job, fault, garbled>>
  BY DEF Close, Send
<1>2. /\ node' \in [Incs -> NodeType]
      /\ \A k \in Incs : node'[k].at = node[k].at /\ (node'[k].out = node[k].out \/ node'[k].out[2] = "create")
      /\ \A k \in Incs : node'[k].out = node[k].out
  <2>1. CASE Close(i)
    <3>1. PICK n : n = [node[i] EXCEPT !.peer = "closed"] /\ n \in NodeType /\ n.at = node[i].at /\ n.out = node[i].out
      BY NodeFields
    <3>2. node' = [node EXCEPT ![i] = n]
      BY <2>1, <3>1 DEF Close
    <3>3. \A k \in Incs : node'[k].out = node[k].out
      BY <3>1, <3>2, Kept
    <3>4. QED
      BY <3>1, <3>2, <3>3, NodeChanged
  <2>2. CASE \E len \in Lengths : Send(i, len)
    BY <2>2, Kept DEF Send
  <2>3. QED
    BY <2>1, <2>2
<1>3. TypesInv'
  BY <1>1, <1>2, Kept DEF TypesInv
<1>4. \A t \in Threads : AtPlace(t, job[t]) /\ Writer(t)
  BY DEF IInv, OwnersInv
<1>5. ASSUME NEW t \in Threads PROVE Writer(t)'
  <2>1. CASE job[t].pc = "write"
    <3>1. job[t].i \in Incs
      BY <1>4, <2>1 DEF AtPlace, Threads
    <3>2. QED
      BY <1>1, <1>2, <1>4, <3>1 DEF Writer
  <2>2. CASE job[t].pc # "write"
    BY <1>1, <2>2 DEF Writer
  <2>3. QED
    BY <2>1, <2>2
<1>6. ASSUME NEW a \in Apps PROVE Destroyer(a)'
  <2>1. Destroyer(a) /\ AtPlace(a, job[a])
    BY Kept DEF IInv, OwnersInv
  <2>2. job[a].pc \in Destroying => job[a].i \in Incs
    BY <2>1 DEF AtPlace, Destroying
  <2>3. QED
    BY <1>1, <1>2, <2>1, <2>2 DEF Destroyer
<1>7. \A a \in Apps : Maker(a)'
  BY <1>1, <1>2, MakersKept
<1>8. \A k \in Incs : Stage(k)'
  BY <1>1, <1>2, StagesKept
<1>9. QED
  BY <1>1, <1>3, <1>4, <1>5, <1>6, <1>7, <1>8 DEF IInv, OwnersInv

\* Every step keeps the owners.
LEMMA OwnersStep ==
  ASSUME IInv, Next
  PROVE  TypesInv' /\ OwnersInv'
<1>1. fault = None
  BY DEF Next
<1>2. ASSUME NEW a \in Apps, Create(a) \/ Ask(a) \/ Destroy(a) \/ AppStep(a)
      PROVE  TypesInv' /\ OwnersInv'
  <2>1. a \in Threads
    BY Kept
  <2>2. ASSUME Shut(a, "join") \/ FreeConn(a, "join") \/ SetNull(a, "join")
        PROVE  TypesInv' /\ OwnersInv'
    <3>1. PICK next : next = "join"
      OBVIOUS
    <3>2. QED
      BY <1>1, <2>1, <2>2, <3>1, Closing
  <2>3. QED
    BY <1>1, <1>2, <2>1, <2>2, AppMoves, Connecting, Listing, Requests, Destroys, Joins DEF AppStep
<1>3. ASSUME NEW i \in Incs, ReaderStep(i)
      PROVE  TypesInv' /\ OwnersInv'
  <2>1. i \in Threads /\ i \notin Apps
    BY Kept
  <2>2. ASSUME Shut(i, "ended") \/ FreeConn(i, "ended") \/ SetNull(i, "ended")
        PROVE  TypesInv' /\ OwnersInv'
    <3>1. PICK next : next = "ended"
      OBVIOUS
    <3>2. QED
      BY <1>1, <2>1, <2>2, <3>1, Closing
  <2>3. QED
    BY <1>1, <1>3, <2>1, <2>2, ReaderMoves, Requests DEF ReaderStep
<1>4. QED
  BY <1>2, <1>3, PeerMoves DEF Next

\* Every step keeps MessagesIntact: only what is written can be mixed up, and a request is
\* written by who has the lock.
LEMMA IntactStep ==
  ASSUME IInv, Next
  PROVE  MessagesIntact'
<1>1. MessagesIntact /\ \A t \in Threads : AtPlace(t, job[t]) /\ Writer(t)
  BY DEF IInv, OwnersInv
<1>2. ASSUME NEW t \in Threads, NEW kind \in {"create", "request"}, Write(t, kind),
             kind = "request" => node[job[t].i].out = <<t, kind>> \/ node[job[t].i].out[2] = "create"
      PROVE  MessagesIntact'
  <2>1. \/ garbled' = garbled
        \/ node[job[t].i].out # <<t, kind>> /\ garbled' = garbled \cup {{kind, node[job[t].i].out[2]}}
    BY <1>2 DEF Write, Fault
  <2>2. QED
    BY <1>1, <1>2, <2>1 DEF MessagesIntact
<1>3. ASSUME NEW t \in Threads, WriteRequest(t)
      PROVE  MessagesIntact'
  <2>1. Write(t, "request") /\ job[t].pc = "write"
    BY <1>3 DEF WriteRequest
  <2>2. QED
    BY <1>1, <1>2, <2>1 DEF Writer
<1>4. ASSUME NEW a \in Apps, WriteRegist(a) \/ WriteConf(a)
      PROVE  MessagesIntact'
  <2>1. Write(a, "create") /\ a \in Threads
    BY <1>4, Kept DEF WriteRegist, WriteConf
  <2>2. QED
    BY <1>2, <2>1
<1>5. ASSUME UNCHANGED garbled
      PROVE  MessagesIntact'
  BY <1>1, <1>5 DEF MessagesIntact
<1>6. ASSUME NEW a \in Apps, Create(a) \/ Ask(a) \/ Destroy(a) \/ AppStep(a)
      PROVE  MessagesIntact'
  <2>1. a \in Threads
    BY Kept
  <2>2. CASE WriteRegist(a) \/ WriteConf(a) \/ WriteRequest(a)
    BY <1>3, <1>4, <2>1, <2>2
  <2>3. ASSUME Create(a) \/ Ask(a) \/ Destroy(a) \/ Connect(a) \/ List(a) \/ Join(a)
        PROVE  UNCHANGED garbled
    BY <2>3 DEF Create, Ask, Destroy, Connect, List, Join, Fault
  <2>4. ASSUME NEW pc, NEW next, Regist(a, pc, next) \/ Shut(a, next) \/ FreeConn(a, next) \/ SetNull(a, next)
        PROVE  UNCHANGED garbled
    BY <2>4 DEF Regist, Shut, FreeConn, SetNull, Fault
  <2>5. ASSUME Compose(a) \/ LastNode(a)
        PROVE  UNCHANGED garbled
    BY <2>5 DEF Compose, LastNode, Fault
  <2>6. QED
    BY <1>5, <1>6, <2>2, <2>3, <2>4, <2>5 DEF AppStep
<1>7. ASSUME NEW i \in Incs, ReaderStep(i) \/ Close(i) \/ \E len \in Lengths : Send(i, len)
      PROVE  MessagesIntact'
  <2>1. i \in Threads
    BY Kept
  <2>2. ASSUME NEW next, Shut(i, next) \/ FreeConn(i, next) \/ SetNull(i, next)
        PROVE  UNCHANGED garbled
    BY <2>2 DEF Shut, FreeConn, SetNull, Fault
  <2>3. ASSUME Top(i) \/ Enter(i) \/ (\E k \in 1 .. ReadMax : Read(i, k)) \/ ReadEof(i) \/ Unpack(i) \/ Callback(i) \/ Compose(i)
        PROVE  UNCHANGED garbled
    BY <2>3 DEF Top, Enter, Read, ReadEof, Unpack, Callback, Compose, Fault
  <2>4. ASSUME Close(i) \/ \E len \in Lengths : Send(i, len)
        PROVE  UNCHANGED garbled
    BY <2>4 DEF Close, Send
  <2>5. QED
    BY <1>3, <1>5, <1>7, <2>1, <2>2, <2>3, <2>4 DEF ReaderStep
<1>8. QED
  BY <1>6, <1>7 DEF Next

\* The parameters of the stream.
LEMMA StreamNumbers ==
  /\ MaxFrames \in Nat /\ ReadMax \in Nat /\ Modulus \in Nat /\ Modulus > 0 /\ Lengths \subseteq Nat
  /\ \A l \in Lengths : l < Modulus
BY NodeAssumption

\* A number that is reduced is below the modulus.
LEMMA Reduced == \A n \in Int : n % Modulus \in 0 .. Modulus - 1
BY StreamNumbers

\* A message on the socket, and its payload, are sequences of units.
LEMMA FrameIs ==
  ASSUME NEW b \in Nat, NEW len \in Lengths
  PROVE  /\ Load(b, len) \in Seq(Units) /\ Frame(b, len) \in Seq(Units)
         /\ len \in Nat /\ Len(Load(b, len)) = len /\ Len(Frame(b, len)) = len + 1
         /\ \A k \in 1 .. len : Load(b, len)[k] = <<b, k, len>>
         /\ \A k \in 0 .. len : Frame(b, len)[k + 1] = <<b, k, len>>
<1>1. len \in Nat /\ len < Modulus
  BY StreamNumbers
<1>2. \A k \in Nat : <<b, k, len>> \in Units
  BY <1>1 DEF Units
<1>3. <<<<b, 0, len>>>> \in Seq(Units)
  BY <1>2
<1>4. [k \in 1 .. len |-> <<b, k, len>>] \in Seq(Units)
  BY <1>1, <1>2, IsASeq
<1>5. PICK h : h = <<<<b, 0, len>>>> /\ h \in Seq(Units) /\ Len(h) = 1 /\ h[1] = <<b, 0, len>>
  <2>1. PICK u : u = <<b, 0, len>>
    OBVIOUS
  <2>2. Len(<<u>>) = 1 /\ <<u>>[1] = u
    OBVIOUS
  <2>3. QED
    BY <1>3, <2>1, <2>2
<1>6. PICK l : l = Load(b, len)
  OBVIOUS
<1>7. l \in Seq(Units) /\ \A k \in 1 .. len : l[k] = <<b, k, len>>
  BY <1>4, <1>6 DEF Load
<1>8. Len(l) = len
  <2>1. DOMAIN l = 1 .. len
    BY <1>6 DEF Load
  <2>2. DOMAIN l = 1 .. Len(l) /\ Len(l) \in Nat
    BY <1>7, LenProperties
  <2>3. QED
    BY <1>1, <2>1, <2>2
<1>9. PICK f : f = h \o l /\ f = Frame(b, len)
  BY <1>5, <1>6 DEF Frame
<1>10. /\ f \in Seq(Units) /\ Len(f) = len + 1
       /\ \A k \in 1 .. len + 1 : f[k] = IF k <= 1 THEN h[k] ELSE l[k - 1]
  <2>1. h \in Seq(Units) /\ l \in Seq(Units) /\ f = h \o l
    BY <1>5, <1>7, <1>9, Zenon
  <2>2. /\ f \in Seq(Units) /\ Len(f) = Len(h) + Len(l)
        /\ \A k \in 1 .. Len(h) + Len(l) : f[k] = IF k <= Len(h) THEN h[k] ELSE l[k - Len(h)]
    BY <2>1, ConcatProperties, Zenon
  <2>3. Len(h) = 1 /\ Len(l) = len /\ 1 + len = len + 1
    BY <1>1, <1>5, <1>8
  <2>4. QED
    BY <2>2, <2>3, Zenon
<1>11. ASSUME NEW k \in 0 .. len PROVE f[k + 1] = <<b, k, len>>
  <2>1. k + 1 \in 1 .. len + 1
    BY <1>1
  <2>2. CASE k = 0
    BY <1>5, <1>10, <2>1, <2>2
  <2>3. CASE k # 0
    <3>1. f[k + 1] = l[k + 1 - 1] /\ k + 1 - 1 = k /\ k \in 1 .. len
      BY <1>1, <1>10, <2>1, <2>3
    <3>2. QED
      BY <1>7, <3>1
  <2>4. QED
    BY <2>2, <2>3
<1>12. Load(b, len) \in Seq(Units) /\ Len(Load(b, len)) = len /\ \A k \in 1 .. len : Load(b, len)[k] = <<b, k, len>>
  BY <1>6, <1>7, <1>8, Zenon
<1>13. Frame(b, len) \in Seq(Units) /\ Len(Frame(b, len)) = len + 1 /\ \A k \in 0 .. len : Frame(b, len)[k + 1] = <<b, k, len>>
  BY <1>9, <1>10, <1>11, Zenon
<1>14. QED
  BY <1>1, <1>12, <1>13, Zenon

\* ne_doip_node_unpack_exec leaves what was read alone and moves the position on within it.
LEMMA UnpackedIs ==
  ASSUME NEW r \in RcvType, r.pos < Len(r.in)
  PROVE  /\ Unpacked(r).r \in RcvType /\ Unpacked(r).r.in = r.in
         /\ Unpacked(r).r.pos <= Len(r.in)
<1>1. /\ r.in \in Seq(Units) /\ r.pos \in Nat /\ r.total \in 0 .. Modulus - 1 /\ r.cur \in 0 .. Modulus - 1
      /\ Len(r.in) \in Nat /\ Modulus \in Nat /\ Modulus > 0
  BY StreamNumbers, LenProperties DEF RcvType
<1> DEFINE Good(q) == q \in RcvType /\ q.in = r.in /\ q.pos <= Len(r.in)
<1>2. ASSUME NEW p \in 0 .. Len(r.in), NEW t \in 0 .. Modulus - 1, NEW c \in 0 .. Modulus - 1
      PROVE  /\ Good([r EXCEPT !.cur = c, !.pos = p])
             /\ Good([r EXCEPT !.pos = p, !.total = t, !.cur = c])
             /\ Good([r EXCEPT !.pos = p])
             /\ Good([[r EXCEPT !.total = t, !.cur = c] EXCEPT !.pos = p])
             /\ Good([[r EXCEPT !.total = t, !.cur = c] EXCEPT !.pos = p, !.total = 0, !.cur = 0])
  <2>1. p \in Nat /\ p <= Len(r.in) /\ 0 \in 0 .. Modulus - 1
    BY <1>1
  <2>2. r \in [in : Seq(Units), pos : Nat, total : 0 .. Modulus - 1, cur : 0 .. Modulus - 1]
    BY DEF RcvType
  <2>3. Good([r EXCEPT !.cur = c, !.pos = p]) /\ Good([r EXCEPT !.pos = p])
    BY <2>1, <2>2 DEF RcvType
  <2>4. Good([r EXCEPT !.pos = p, !.total = t, !.cur = c])
    BY <2>1, <2>2 DEF RcvType
  <2>5. PICK s : s = [r EXCEPT !.total = t, !.cur = c]
    OBVIOUS
  <2>6. s \in [in : Seq(Units), pos : Nat, total : 0 .. Modulus - 1, cur : 0 .. Modulus - 1] /\ s.in = r.in
    BY <2>2, <2>5
  <2>7. Good([s EXCEPT !.pos = p]) /\ Good([s EXCEPT !.pos = p, !.total = 0, !.cur = 0])
    BY <2>1, <2>6 DEF RcvType
  <2>8. QED
    BY <2>3, <2>4, <2>5, <2>7
<1> HIDE DEF Good
<1>3. Len(r.in) \in 0 .. Len(r.in) /\ Rest(r) \in 0 .. Modulus - 1
  <2>1. r.total - r.cur + Modulus \in Int /\ Len(r.in) \in 0 .. Len(r.in)
    BY <1>1
  <2>2. QED
    BY <2>1, Reduced, Zenon DEF Rest
<1>4. Good(MidMessage(r).r)
  <2>1. (r.cur + Len(r.in)) % Modulus \in 0 .. Modulus - 1 /\ 0 \in 0 .. Modulus - 1
    <3>1. r.cur + Len(r.in) \in Int /\ 0 \in 0 .. Modulus - 1
      BY <1>1
    <3>2. QED
      BY <3>1, Reduced, Zenon
  <2>2. CASE Rest(r) > Len(r.in)
    <3>1. MidMessage(r).r = [r EXCEPT !.cur = (r.cur + Len(r.in)) % Modulus, !.pos = Len(r.in)]
      BY <2>2 DEF MidMessage
    <3>2. QED
      BY <1>2, <1>3, <2>1, <3>1, Zenon
  <2>3. CASE ~(Rest(r) > Len(r.in))
    <3>1. MidMessage(r).r = [r EXCEPT !.pos = Rest(r), !.total = 0, !.cur = 0]
      BY <2>3 DEF MidMessage
    <3>2. Rest(r) \in 0 .. Len(r.in)
      BY <1>1, <1>3, <2>3
    <3>3. Good([r EXCEPT !.pos = Rest(r), !.total = 0, !.cur = 0])
      BY <1>2, <2>1, <3>2, Zenon
    <3>4. QED
      BY <3>1, <3>3, Zenon
  <2>4. QED
    BY <2>2, <2>3
<1>5. Good(AtHead(r).r)
  <2>1. PICK len : len = r.in[r.pos + 1][3] /\ len \in 0 .. Modulus - 1
    <3>1. r.pos + 1 \in 1 .. Len(r.in)
      BY <1>1
    <3>2. r.in[r.pos + 1] \in Units
      BY <1>1, <3>1, ElementOfSeq
    <3>3. r.in[r.pos + 1][3] \in Nat /\ r.in[r.pos + 1][3] < Modulus
      BY <3>2, StreamNumbers DEF Units
    <3>4. QED
      BY <1>1, <3>3
  <2>2. PICK take : take = (IF len > Len(r.in) - 1 THEN Len(r.in) - 1 ELSE len) /\ take \in Nat
    BY <1>1, <2>1
  <2>3. PICK c \in 0 .. Modulus - 1 : c = (r.cur + take) % Modulus
    BY <1>1, <2>2, Reduced
  <2>4. PICK s : s = [r EXCEPT !.total = len, !.cur = c]
    OBVIOUS
  <2>5. s.pos = r.pos
    BY <2>4 DEF RcvType
  <2>6. \/ AtHead(r).r = [s EXCEPT !.pos = Len(r.in)]
        \/ /\ ~(r.pos + 1 + take > Len(r.in))
           /\ \/ AtHead(r).r = [s EXCEPT !.pos = @ + 1 + take, !.total = 0, !.cur = 0]
              \/ AtHead(r).r = [s EXCEPT !.pos = @ + 1 + take]
    BY <2>1, <2>2, <2>3, <2>4, Zenon DEF AtHead
  <2>7. CASE AtHead(r).r = [s EXCEPT !.pos = Len(r.in)]
    <3>1. Good([s EXCEPT !.pos = Len(r.in)])
      BY <1>2, <1>3, <2>1, <2>3, <2>4, Zenon
    <3>2. QED
      BY <2>7, <3>1
  <2>8. CASE ~(r.pos + 1 + take > Len(r.in))
    <3>1. PICK p \in 0 .. Len(r.in) : p = s.pos + 1 + take
      <4>1. r.pos + 1 + take \in 0 .. Len(r.in)
        BY <1>1, <2>2, <2>8
      <4>2. QED
        BY <2>5, <4>1
    <3>2. /\ [s EXCEPT !.pos = @ + 1 + take, !.total = 0, !.cur = 0] = [s EXCEPT !.pos = p, !.total = 0, !.cur = 0]
          /\ [s EXCEPT !.pos = @ + 1 + take] = [s EXCEPT !.pos = p]
      BY <3>1
    <3>3. Good([s EXCEPT !.pos = p, !.total = 0, !.cur = 0]) /\ Good([s EXCEPT !.pos = p])
      BY <1>2, <2>1, <2>3, <2>4, <3>1, Zenon
    <3>4. QED
      BY <2>6, <2>7, <3>2, <3>3
  <2>9. QED
    BY <2>6, <2>7, <2>8
<1>6. Good([r EXCEPT !.pos = @ + 1]) /\ Good([r EXCEPT !.pos = Len(r.in)])
  <2>1. r.pos + 1 \in 0 .. Len(r.in) /\ 0 \in 0 .. Modulus - 1
    BY <1>1
  <2>2. QED
    BY <1>2, <1>3, <2>1, Zenon
<1>7. \/ Unpacked(r).r = MidMessage(r).r
      \/ Unpacked(r).r = AtHead(r).r
      \/ Unpacked(r).r = [r EXCEPT !.pos = @ + 1]
      \/ Unpacked(r).r = [r EXCEPT !.pos = Len(r.in)]
  BY DEF Unpacked
<1>8. Good(Unpacked(r).r)
  BY <1>4, <1>5, <1>6, <1>7
<1>9. QED
  BY <1>8 DEF Good

\* The unit at a place.
UnitAt(w, p, b, k, l) == w[p] = <<b, k, l>>

\* A unit is three numbers.
LEMMA UnitIs ==
  ASSUME NEW w \in Seq(Units), NEW p \in 1 .. Len(w)
  PROVE  \E b, k, l \in Nat : UnitAt(w, p, b, k, l) /\ l < Modulus
<1>1. PICK u : u = w[p] /\ u \in Units
  BY ElementOfSeq
<1>2. u \in Nat \X Nat \X Lengths /\ u[3] < Modulus
  BY <1>1 DEF Units
<1>3. PICK b \in Nat, k \in Nat, l \in Lengths : u = <<b, k, l>>
  BY <1>2
<1>4. l < Modulus /\ l \in Nat
  BY <1>2, <1>3, StreamNumbers
<1>5. QED
  BY <1>1, <1>3, <1>4 DEF UnitAt

\* A message's unit in its chain.
LinkedAt(w, n, p, b, k, l) ==
  /\ k <= l /\ p + (l - k) <= Len(w)
  /\ \A j \in 0 .. l - k : UnitAt(w, p + j, b, k + j, l)
  /\ p + (l - k) = Len(w) => b + l = n
  /\ p + (l - k) < Len(w) => \E m \in Nat : UnitAt(w, p + (l - k) + 1, b + l, 0, m)

\* What Chained says of a unit.
LEMMA ChainAt ==
  ASSUME NEW w \in Seq(Units), NEW n, Chained(w, n), NEW p \in 1 .. Len(w),
         NEW b \in Nat, NEW k \in Nat, NEW l \in Nat, UnitAt(w, p, b, k, l)
  PROVE  LinkedAt(w, n, p, b, k, l)
<1>1. w[p][1] = b /\ w[p][2] = k /\ w[p][3] = l
  BY DEF UnitAt
<1>2. End(w, p) = p + (l - k)
  BY <1>1 DEF End
<1>3. PICK q : q = p + (l - k)
  OBVIOUS
<1>4. /\ k <= l /\ q <= Len(w) /\ \A j \in 0 .. l - k : w[p + j] = <<b, k + j, l>>
      /\ q = Len(w) => b + l = n
      /\ q < Len(w) => IsHead(w[q + 1]) /\ w[q + 1][1] = b + l
  BY <1>1, <1>2, <1>3 DEF Chained
<1>5. Len(w) \in Nat
  BY LenProperties
<1>6. ASSUME q < Len(w) PROVE \E m \in Nat : UnitAt(w, q + 1, b + l, 0, m)
  <2>1. q + 1 \in 1 .. Len(w)
    BY <1>3, <1>4, <1>5, <1>6
  <2>2. PICK x, y, m \in Nat : UnitAt(w, q + 1, x, y, m)
    BY <2>1, UnitIs
  <2>3. w[q + 1][1] = x /\ w[q + 1][2] = y
    BY <2>2 DEF UnitAt
  <2>4. x = b + l /\ y = 0
    BY <1>4, <1>6, <2>3 DEF IsHead
  <2>5. QED
    BY <2>2, <2>4
<1>7. QED
  BY <1>3, <1>4, <1>6 DEF UnitAt, LinkedAt

\* Chained says nothing more.
LEMMA ChainMade ==
  ASSUME NEW w \in Seq(Units), NEW n,
         \A p \in 1 .. Len(w) : \E b, k, l \in Nat : UnitAt(w, p, b, k, l) /\ LinkedAt(w, n, p, b, k, l)
  PROVE  Chained(w, n)
<1> SUFFICES ASSUME NEW p \in 1 .. Len(w)
             PROVE  /\ w[p][2] <= w[p][3] /\ End(w, p) <= Len(w)
                    /\ \A j \in 0 .. w[p][3] - w[p][2] : w[p + j] = <<w[p][1], w[p][2] + j, w[p][3]>>
                    /\ End(w, p) = Len(w) => w[p][1] + w[p][3] = n
                    /\ End(w, p) < Len(w) => IsHead(w[End(w, p) + 1]) /\ w[End(w, p) + 1][1] = w[p][1] + w[p][3]
  BY DEF Chained
<1>1. PICK b, k, l \in Nat : UnitAt(w, p, b, k, l) /\ LinkedAt(w, n, p, b, k, l)
  OBVIOUS
<1>2. w[p][1] = b /\ w[p][2] = k /\ w[p][3] = l
  BY <1>1 DEF UnitAt
<1>3. PICK q : q = p + (l - k)
  OBVIOUS
<1>4. End(w, p) = q
  BY <1>2, <1>3 DEF End
<1>5. /\ k <= l /\ q <= Len(w) /\ \A j \in 0 .. l - k : w[p + j] = <<b, k + j, l>>
      /\ q = Len(w) => b + l = n
      /\ q < Len(w) => \E m \in Nat : UnitAt(w, q + 1, b + l, 0, m)
  BY <1>1, <1>3 DEF LinkedAt, UnitAt
<1>6. q < Len(w) => IsHead(w[q + 1]) /\ w[q + 1][1] = b + l
  BY <1>5 DEF UnitAt, IsHead
<1>7. QED
  BY <1>2, <1>4, <1>5, <1>6

\* What Placed says of a unit.
LEMMA PlaceAt ==
  ASSUME NEW w, NEW t, Placed(w, t), NEW p \in 1 .. Len(w),
         NEW b \in Nat, NEW k \in Nat, NEW l \in Nat, UnitAt(w, p, b, k, l), k > 0
  PROVE  b + k <= Len(t) /\ t[b + k] = w[p]
<1>1. w[p][1] = b /\ w[p][2] = k
  BY DEF UnitAt
<1>2. ~IsHead(w[p])
  BY <1>1 DEF IsHead
<1>3. QED
  BY <1>1, <1>2 DEF Placed

\* Placed says nothing more.
LEMMA PlaceMade ==
  ASSUME NEW w, NEW t,
         \A p \in 1 .. Len(w) : \E b, k, l \in Nat :
             UnitAt(w, p, b, k, l) /\ (k > 0 => b + k <= Len(t) /\ t[b + k] = w[p])
  PROVE  Placed(w, t)
<1> SUFFICES ASSUME NEW p \in 1 .. Len(w), ~IsHead(w[p])
             PROVE  w[p][1] + w[p][2] <= Len(t) /\ t[w[p][1] + w[p][2]] = w[p]
  BY DEF Placed
<1>1. PICK b, k, l \in Nat : UnitAt(w, p, b, k, l) /\ (k > 0 => b + k <= Len(t) /\ t[b + k] = w[p])
  OBVIOUS
<1>2. w[p][1] = b /\ w[p][2] = k
  BY <1>1 DEF UnitAt
<1>3. k > 0
  BY <1>2 DEF IsHead
<1>4. QED
  BY <1>1, <1>2, <1>3

\* d is the n units of s that come after place a.
Piece(d, s, a, n) == d \in Seq(Units) /\ Len(d) = n /\ \A j \in 1 .. n : d[j] = s[a + j]

\* A subsequence of units is such a piece.
LEMMA PieceIs ==
  ASSUME NEW s \in Seq(Units), NEW a \in Nat, NEW b \in Nat, b <= Len(s), a <= b
  PROVE  Piece(SubSeq(s, a + 1, b), s, a, b - a)
<1> DEFINE d == SubSeq(s, a + 1, b)
<1>1. Len(s) \in Nat
  BY LenProperties
<1>2. \A j \in a + 1 .. b : s[j] \in Units
  BY <1>1, ElementOfSeq
<1>3. /\ d \in Seq(Units) /\ Len(d) = IF a + 1 <= b THEN b - (a + 1) + 1 ELSE 0
      /\ \A j \in 1 .. b - (a + 1) + 1 : d[j] = s[(a + 1) + j - 1]
  BY <1>2, SubSeqProperties
<1> HIDE DEF d
<1>4. Len(d) = b - a
  BY <1>3
<1>5. ASSUME NEW j \in 1 .. b - a PROVE d[j] = s[a + j]
  <2>1. j \in 1 .. b - (a + 1) + 1 /\ (a + 1) + j - 1 = a + j
    OBVIOUS
  <2>2. QED
    BY <1>3, <2>1
<1>6. Piece(d, s, a, b - a)
  BY <1>3, <1>4, <1>5 DEF Piece
<1>7. QED
  BY <1>6 DEF d

\* w is in and then s.
Concatenates(w, in, s) ==
  /\ w \in Seq(Units) /\ Len(in) \in Nat /\ Len(s) \in Nat /\ Len(w) = Len(in) + Len(s)
  /\ \A p \in 1 .. Len(in) : w[p] = in[p]
  /\ \A p \in 1 .. Len(s) : w[Len(in) + p] = s[p]

\* A concatenation of units is one.
LEMMA JoinIs ==
  ASSUME NEW in \in Seq(Units), NEW s \in Seq(Units)
  PROVE  Concatenates(in \o s, in, s)
<1>1. Len(in) \in Nat /\ Len(s) \in Nat
  BY LenProperties
<1>2. PICK w : w = in \o s
  OBVIOUS
<1>3. /\ w \in Seq(Units) /\ Len(w) = Len(in) + Len(s)
      /\ \A p \in 1 .. Len(in) + Len(s) : w[p] = IF p <= Len(in) THEN in[p] ELSE s[p - Len(in)]
  BY <1>2, ConcatProperties
<1>4. ASSUME NEW p \in 1 .. Len(in) PROVE w[p] = in[p]
  BY <1>1, <1>3
<1>5. ASSUME NEW p \in 1 .. Len(s) PROVE w[Len(in) + p] = s[p]
  <2>1. Len(in) + p \in 1 .. Len(in) + Len(s) /\ ~(Len(in) + p <= Len(in)) /\ Len(in) + p - Len(in) = p
    BY <1>1
  <2>2. QED
    BY <1>3, <2>1
<1>6. QED
  BY <1>1, <1>2, <1>3, <1>4, <1>5 DEF Concatenates

\* The application is given what comes next.
LEMMA GivenMore ==
  ASSUME NEW g \in Seq(Units), NEW d \in Seq(Units), NEW t \in Seq(Units), Begins(g, t),
         \A j \in 1 .. Len(d) : Len(g) + j <= Len(t) /\ t[Len(g) + j] = d[j]
  PROVE  g \o d \in Seq(Units) /\ Len(g \o d) = Len(g) + Len(d) /\ Begins(g \o d, t)
<1> DEFINE h == g \o d
<1>1. Concatenates(h, g, d)
  BY JoinIs
<1> HIDE DEF h
<1>2. PICK x \in Nat, y \in Nat : x = Len(g) /\ y = Len(d) /\ Len(h) = x + y /\ h \in Seq(Units)
  BY <1>1 DEF Concatenates
<1>3. Len(t) \in Nat
  BY LenProperties
<1>4. Len(h) <= Len(t)
  <2>1. CASE y = 0
    BY <1>2, <2>1 DEF Begins
  <2>2. CASE y # 0
    <3>1. y \in 1 .. Len(d)
      BY <1>2, <2>2
    <3>2. QED
      BY <1>2, <3>1
  <2>3. QED
    BY <2>1, <2>2
<1>5. ASSUME NEW p \in 1 .. x + y PROVE h[p] = t[p]
  <2>1. CASE p <= x
    <3>1. p \in 1 .. x
      BY <1>2, <2>1
    <3>2. h[p] = g[p] /\ g[p] = t[p]
      BY <1>1, <1>2, <3>1 DEF Begins, Concatenates
    <3>3. QED
      BY <3>2
  <2>2. CASE ~(p <= x)
    <3>1. PICK j : j = p - x
      OBVIOUS
    <3>2. j \in 1 .. y /\ p = x + j
      BY <1>2, <2>2, <3>1
    <3>3. h[x + j] = d[j] /\ t[x + j] = d[j]
      BY <1>1, <1>2, <3>2 DEF Concatenates
    <3>4. QED
      BY <3>2, <3>3
  <2>3. QED
    BY <2>1, <2>2
<1>6. h \in Seq(Units) /\ Len(h) = Len(g) + Len(d) /\ Begins(h, t)
  BY <1>2, <1>4, <1>5 DEF Begins
<1>7. QED
  BY <1>6 DEF h

\* The d units after place a of what was read are payload of the message of which the unit at
\* place p is part, and come after what the application has, g units.
Spans(len, g, p, b, k, l, a, d) ==
  /\ p \in 1 .. len /\ b \in Nat /\ k \in Nat /\ l \in Nat /\ a \in Nat /\ d \in Nat
  /\ p <= a + 1 /\ k + a >= p /\ a + d <= p + (l - k) /\ a + d <= len
  /\ g = b + k + (a - p)

\* The application is given such units.
LEMMA PayloadNext ==
  ASSUME NEW in \in Seq(Units), NEW s \in Seq(Units), NEW g \in Seq(Units), NEW t \in Seq(Units),
         NEW w, Concatenates(w, in, s), Chained(w, Len(t)), Placed(w, t), Begins(g, t),
         NEW p, NEW b, NEW k, NEW l, UnitAt(w, p, b, k, l), NEW a, NEW d, Spans(Len(in), Len(g), p, b, k, l, a, d),
         NEW data, Piece(data, in, a, d)
  PROVE  g \o data \in Seq(Units) /\ Len(g \o data) = Len(g) + d /\ Begins(g \o data, t)
<1> USE DEF Spans
<1>1. /\ w \in Seq(Units) /\ Len(in) \in Nat /\ p \in 1 .. Len(w) /\ p \in Nat
      /\ \A q \in 1 .. Len(in) : q \in 1 .. Len(w) /\ w[q] = in[q]
  <2>1. w \in Seq(Units) /\ Len(in) \in Nat /\ Len(s) \in Nat /\ Len(w) = Len(in) + Len(s)
    BY DEF Concatenates
  <2>2. \A q \in 1 .. Len(in) : q \in 1 .. Len(w)
    BY <2>1
  <2>3. \A q \in 1 .. Len(in) : w[q] = in[q]
    BY DEF Concatenates
  <2>4. p \in 1 .. Len(w) /\ p \in Nat
    BY <2>1, <2>2
  <2>5. QED
    BY <2>1, <2>2, <2>3, <2>4
<1>2. \A j \in 0 .. l - k : UnitAt(w, p + j, b, k + j, l)
  BY <1>1, ChainAt DEF LinkedAt
<1>3. data \in Seq(Units) /\ Len(data) = d /\ \A j \in 1 .. d : data[j] = in[a + j]
  BY DEF Piece
<1>4. ASSUME NEW j \in 1 .. d
      PROVE  Len(g) + j <= Len(t) /\ t[Len(g) + j] = data[j]
  <2>1. PICK x \in 0 .. l - k : x = a + j - p
    <3>1. a + j - p \in 0 .. l - k
      BY <1>1
    <3>2. QED
      BY <3>1
  <2>2. PICK q \in 1 .. Len(in) : q = p + x /\ q = a + j
    <3>1. Len(in) \in Nat /\ p \in Nat
      BY <1>1
    <3>2. p + x \in 1 .. Len(in) /\ p + x = a + j
      BY <2>1, <3>1
    <3>3. QED
      BY <3>2
  <2>3. PICK y \in Nat : y = k + x /\ y > 0 /\ b + y = Len(g) + j
    BY <1>1, <2>1
  <2>4. UnitAt(w, q, b, y, l) /\ q \in 1 .. Len(w) /\ w[q] = in[q]
    BY <1>1, <1>2, <2>1, <2>2, <2>3
  <2>5. b + y <= Len(t) /\ t[b + y] = w[q]
    <3>1. y \in Nat /\ y > 0
      BY <2>3
    <3>2. QED
      BY <2>4, <3>1, PlaceAt
  <2>6. data[j] = in[q]
    BY <1>3, <2>2
  <2>7. QED
    BY <2>3, <2>4, <2>5, <2>6
<1>5. QED
  BY <1>3, <1>4, GivenMore

\* What the reader has read, its place in that, and what it knows of a message.
Reads(r, in, pos, total, cur) == r.in = in /\ r.pos = pos /\ r.total = total /\ r.cur = cur

\* The reader at the end of a message.
LEMMA StandsAtEnd ==
  ASSUME NEW in \in Seq(Units), NEW s \in Seq(Units), NEW n, NEW w, Concatenates(w, in, s), Chained(w, n),
         NEW p \in 1 .. Len(in), NEW b \in Nat, NEW k \in Nat, NEW l \in Nat, UnitAt(w, p, b, k, l),
         NEW q, q = p + (l - k), q <= Len(in), NEW r, Reads(r, in, q, 0, 0), NEW g, g = b + l
  PROVE  Stands(r, w, g, n) /\ (q < Len(in) => IsHead(in[q + 1]))
<1>1. /\ w \in Seq(Units) /\ Len(in) \in Nat /\ p \in 1 .. Len(w) /\ Len(w) \in Nat
      /\ Len(in) <= Len(w)
  <2>1. w \in Seq(Units) /\ Len(in) \in Nat /\ Len(s) \in Nat /\ Len(w) = Len(in) + Len(s)
    BY DEF Concatenates
  <2>2. QED
    BY <2>1
<1>2. r.pos = q /\ r.total = 0 /\ r.cur = 0
  BY DEF Reads
<1>3. /\ k <= l /\ q <= Len(w) /\ q \in Nat
      /\ q = Len(w) => b + l = n
      /\ q < Len(w) => \E m \in Nat : UnitAt(w, q + 1, b + l, 0, m)
  BY <1>1, <1>2, ChainAt DEF LinkedAt
<1>4. ASSUME q < Len(w) PROVE IsHead(w[q + 1]) /\ w[q + 1][1] = b + l
  <2>1. PICK m \in Nat : UnitAt(w, q + 1, b + l, 0, m)
    BY <1>3, <1>4
  <2>2. QED
    BY <2>1 DEF IsHead, UnitAt
<1>5. Stands(r, w, g, n)
  <2>1. CASE q = Len(w)
    BY <1>2, <1>3, <2>1 DEF Stands
  <2>2. CASE q # Len(w)
    <3>1. q < Len(w)
      <4>1. q \in Nat /\ q <= Len(w) /\ Len(w) \in Nat
        BY <1>1, <1>3
      <4>2. QED
        BY <2>2, <4>1
    <3>2. IsHead(w[q + 1]) /\ w[q + 1][1] = g
      BY <1>4, <3>1
    <3>3. QED
      BY <1>2, <2>2, <3>2 DEF Stands
  <2>3. QED
    BY <2>1, <2>2
<1>6. ASSUME q < Len(in) PROVE IsHead(in[q + 1])
  <2>1. q + 1 \in 1 .. Len(in) /\ q < Len(w)
    BY <1>1, <1>3, <1>6
  <2>2. w[q + 1] = in[q + 1]
    BY <2>1 DEF Concatenates
  <2>3. QED
    BY <1>4, <2>1, <2>2
<1>7. QED
  BY <1>2, <1>5, <1>6

\* The reader in the middle of a message, at the end of what was read.
LEMMA StandsWithin ==
  ASSUME NEW in \in Seq(Units), NEW s \in Seq(Units), NEW n, NEW w, Concatenates(w, in, s), Chained(w, n),
         NEW p \in 1 .. Len(in), NEW b \in Nat, NEW k \in Nat, NEW l \in Nat, UnitAt(w, p, b, k, l),
         p + (l - k) > Len(in), NEW c, c = k + (Len(in) - p), NEW r, Reads(r, in, Len(in), l, c),
         NEW g, g = b + k + (Len(in) - p)
  PROVE  Stands(r, w, g, n)
<1>1. /\ w \in Seq(Units) /\ Len(in) \in Nat /\ p \in 1 .. Len(w) /\ Len(w) \in Nat
  <2>1. w \in Seq(Units) /\ Len(in) \in Nat /\ Len(s) \in Nat /\ Len(w) = Len(in) + Len(s)
    BY DEF Concatenates
  <2>2. QED
    BY <2>1
<1>2. k <= l /\ p + (l - k) <= Len(w) /\ \A j \in 0 .. l - k : UnitAt(w, p + j, b, k + j, l)
  BY <1>1, ChainAt DEF LinkedAt
<1>3. PICK j \in 0 .. l - k : j = Len(in) + 1 - p /\ j >= 1 /\ p + j = Len(in) + 1
  <2>1. Len(in) \in Nat /\ k <= l
    BY <1>1, <1>2
  <2>2. Len(in) + 1 - p \in 0 .. l - k /\ Len(in) + 1 - p >= 1 /\ p + (Len(in) + 1 - p) = Len(in) + 1
    BY <2>1
  <2>3. QED
    BY <2>2
<1>4. Len(in) # Len(w)
  BY <1>1, <1>2
<1>5. PICK u : u = w[Len(in) + 1] /\ u = <<b, k + j, l>>
  <2>1. UnitAt(w, Len(in) + 1, b, k + j, l)
    BY <1>2, <1>3
  <2>2. QED
    BY <2>1 DEF UnitAt
<1>6. u[1] = b /\ u[2] = k + j /\ u[3] = l
  BY <1>5
<1>7. ~IsHead(u)
  BY <1>2, <1>3, <1>6 DEF IsHead
<1>8. g = u[1] + u[2] - 1 /\ r.cur = u[2] - 1 /\ r.total = u[3] /\ r.pos = Len(in)
  BY <1>1, <1>3, <1>6 DEF Reads
<1>9. QED
  BY <1>4, <1>5, <1>7, <1>8 DEF Stands

\* What was read is gone: the rest is chained and in place as it was.
LEMMA RestChained ==
  ASSUME NEW in \in Seq(Units), NEW s \in Seq(Units), NEW w, Concatenates(w, in, s), NEW n, NEW t,
         Chained(w, n), Placed(w, t)
  PROVE  Chained(s, n) /\ Placed(s, t)
<1>1. /\ w \in Seq(Units) /\ Len(in) \in Nat /\ Len(s) \in Nat /\ Len(w) = Len(in) + Len(s)
      /\ \A p \in 1 .. Len(s) : w[Len(in) + p] = s[p]
  BY DEF Concatenates
<1>2. PICK c \in Nat : c = Len(in)
  BY <1>1
<1>3. \A p \in 1 .. Len(s) : c + p \in 1 .. Len(w)
  BY <1>1, <1>2
<1>4. ASSUME NEW p \in 1 .. Len(s), NEW b, NEW k, NEW l
      PROVE  UnitAt(s, p, b, k, l) <=> UnitAt(w, c + p, b, k, l)
  BY <1>1, <1>2 DEF UnitAt
<1>5. ASSUME NEW p \in 1 .. Len(s)
      PROVE  \E b, k, l \in Nat : /\ UnitAt(s, p, b, k, l) /\ LinkedAt(s, n, p, b, k, l)
                                  /\ k > 0 => b + k <= Len(t) /\ t[b + k] = s[p]
  <2>1. PICK x \in 1 .. Len(w) : x = c + p
    BY <1>3
  <2>2. PICK b, k, l \in Nat : UnitAt(s, p, b, k, l)
    BY UnitIs
  <2>3. UnitAt(w, x, b, k, l)
    BY <1>4, <2>1, <2>2
  <2>4. LinkedAt(w, n, x, b, k, l)
    BY <1>1, <2>3, ChainAt
  <2>5. PICK q : q = p + (l - k)
    OBVIOUS
  <2>6. x + (l - k) = c + q /\ x + (l - k) + 1 = c + (q + 1)
    BY <1>2, <2>1, <2>5
  <2>7. k <= l /\ c + q <= Len(w) /\ q \in Nat
    BY <2>4, <2>5, <2>6 DEF LinkedAt
  <2>8. q <= Len(s) /\ (q = Len(s) => c + q = Len(w)) /\ (q < Len(s) => c + q < Len(w))
    <3>1. PICK y \in Nat : y = Len(s) /\ Len(w) = c + y
      BY <1>1, <1>2
    <3>2. c + q <= c + y
      BY <2>7, <3>1
    <3>3. QED
      BY <2>7, <3>1, <3>2
  <2>9. ASSUME NEW j \in 0 .. l - k PROVE UnitAt(s, p + j, b, k + j, l)
    <3>1. UnitAt(w, x + j, b, k + j, l)
      BY <2>4 DEF LinkedAt
    <3>2. PICK y \in 1 .. Len(s) : y = p + j /\ x + j = c + y
      <4>1. p + j \in 1 .. Len(s) /\ x + j = c + (p + j)
        BY <1>1, <1>2, <2>1, <2>5, <2>7, <2>8
      <4>2. QED
        BY <4>1
    <3>3. QED
      BY <1>4, <3>1, <3>2
  <2>10. ASSUME q < Len(s) PROVE \E m \in Nat : UnitAt(s, q + 1, b + l, 0, m)
    <3>1. PICK m \in Nat : UnitAt(w, c + (q + 1), b + l, 0, m)
      BY <2>4, <2>6, <2>8, <2>10 DEF LinkedAt
    <3>2. q + 1 \in 1 .. Len(s)
      BY <1>1, <2>7, <2>10
    <3>3. QED
      BY <1>4, <3>1, <3>2
  <2>11. LinkedAt(s, n, p, b, k, l)
    <3>1. q = Len(s) => b + l = n
      BY <2>4, <2>6, <2>8 DEF LinkedAt
    <3>2. QED
      BY <2>5, <2>7, <2>8, <2>9, <2>10, <3>1 DEF LinkedAt
  <2>12. ASSUME k > 0 PROVE b + k <= Len(t) /\ t[b + k] = s[p]
    <3>1. w[x] = s[p]
      BY <1>1, <1>2, <2>1
    <3>2. b + k <= Len(t) /\ t[b + k] = w[x]
      <4>1. w[x][1] = b /\ w[x][2] = k
        BY <2>3 DEF UnitAt
      <4>2. ~IsHead(w[x])
        BY <2>12, <4>1 DEF IsHead
      <4>3. QED
        BY <4>1, <4>2 DEF Placed
    <3>3. QED
      BY <3>1, <3>2
  <2>13. QED
    BY <2>2, <2>11, <2>12
<1>6. QED
  BY <1>5, ChainMade, PlaceMade

\* A message is sent: it is chained to what was sent before, and its payload is in place.
LEMMA SentChained ==
  ASSUME NEW w \in Seq(Units), NEW t \in Seq(Units), NEW len \in Lengths,
         Chained(w, Len(t)), Placed(w, t),
         NEW v, Concatenates(v, w, Frame(Len(t), len)), NEW t2, Concatenates(t2, t, Load(Len(t), len))
  PROVE  Chained(v, Len(t2)) /\ Placed(v, t2) /\ IsHead(v[Len(w) + 1]) /\ v[Len(w) + 1][1] = Len(t)
<1>1. PICK n \in Nat : n = Len(t)
  BY LenProperties
<1>2. PICK c \in Nat : c = Len(w)
  BY LenProperties
<1>3. PICK f, d : f = Frame(n, len) /\ d = Load(n, len)
  OBVIOUS
<1>4. /\ len \in Nat /\ Len(d) = len /\ Len(f) = len + 1
      /\ \A k \in 1 .. len : d[k] = <<n, k, len>>
      /\ \A k \in 0 .. len : f[k + 1] = <<n, k, len>>
  BY <1>1, <1>3, FrameIs
<1>5. /\ v \in Seq(Units) /\ Len(v) = c + len + 1
      /\ \A p \in 1 .. c : v[p] = w[p]
      /\ \A p \in 1 .. len + 1 : v[c + p] = f[p]
  <2>1. Concatenates(v, w, f)
    BY <1>1, <1>3
  <2>2. v \in Seq(Units) /\ Len(v) = c + Len(f)
    BY <1>2, <2>1 DEF Concatenates
  <2>3. \A p \in 1 .. c : v[p] = w[p]
    BY <1>2, <2>1 DEF Concatenates
  <2>4. \A p \in 1 .. len + 1 : v[c + p] = f[p]
    BY <1>2, <1>4, <2>1 DEF Concatenates
  <2>5. QED
    BY <1>4, <2>2, <2>3, <2>4
<1>6. /\ Len(t2) = n + len
      /\ \A p \in 1 .. n : t2[p] = t[p]
      /\ \A p \in 1 .. len : t2[n + p] = d[p]
  <2>1. Concatenates(t2, t, d)
    BY <1>1, <1>3
  <2>2. QED
    BY <1>1, <1>4, <2>1 DEF Concatenates
<1>7. ASSUME NEW k \in 0 .. len PROVE UnitAt(v, c + 1 + k, n, k, len)
  <2>1. k + 1 \in 1 .. len + 1 /\ c + (k + 1) = c + 1 + k
    BY <1>4
  <2>2. v[c + (k + 1)] = f[k + 1]
    BY <1>5, <2>1
  <2>3. QED
    BY <1>4, <2>1, <2>2 DEF UnitAt
<1>8. ASSUME NEW p \in 1 .. Len(v)
      PROVE  \E b, k, l \in Nat : /\ UnitAt(v, p, b, k, l) /\ LinkedAt(v, n + len, p, b, k, l)
                                  /\ k > 0 => b + k <= Len(t2) /\ t2[b + k] = v[p]
  <2>1. CASE p <= c
    <3>1. p \in 1 .. Len(w) /\ p \in 1 .. c
      BY <1>2, <2>1
    <3>2. PICK b, k, l \in Nat : UnitAt(w, p, b, k, l)
      BY <3>1, UnitIs
    <3>3. LinkedAt(w, n, p, b, k, l)
      BY <1>1, <3>1, <3>2, ChainAt
    <3>4. PICK q \in Nat : q = p + (l - k) /\ k <= l /\ q <= c
      <4>1. k <= l /\ p + (l - k) <= c
        BY <1>2, <3>3 DEF LinkedAt
      <4>2. p + (l - k) \in Nat
        BY <4>1
      <4>3. QED
        BY <4>1, <4>2
    <3>5. UnitAt(v, p, b, k, l) /\ v[p] = w[p]
      BY <1>5, <3>1, <3>2 DEF UnitAt
    <3>6. ASSUME NEW j \in 0 .. l - k PROVE UnitAt(v, p + j, b, k + j, l)
      <4>1. UnitAt(w, p + j, b, k + j, l)
        BY <3>3 DEF LinkedAt
      <4>2. p + j \in 1 .. c
        BY <3>4
      <4>3. QED
        BY <1>5, <4>1, <4>2 DEF UnitAt
    <3>7. \E m \in Nat : UnitAt(v, q + 1, b + l, 0, m)
      <4>1. CASE q = c
        <5>1. b + l = n
          BY <1>2, <3>3, <3>4, <4>1 DEF LinkedAt
        <5>2. 0 \in 0 .. len /\ c + 1 + 0 = q + 1
          BY <1>4, <4>1
        <5>3. UnitAt(v, q + 1, n, 0, len)
          BY <1>7, <5>2
        <5>4. QED
          BY <1>4, <5>1, <5>3
      <4>2. CASE q # c
        <5>1. q < Len(w) /\ q + 1 \in 1 .. c
          BY <1>2, <3>4, <4>2
        <5>2. PICK m \in Nat : UnitAt(w, q + 1, b + l, 0, m)
          BY <3>3, <3>4, <5>1 DEF LinkedAt
        <5>3. QED
          BY <1>5, <5>1, <5>2 DEF UnitAt
      <4>3. QED
        BY <4>1, <4>2
    <3>8. LinkedAt(v, n + len, p, b, k, l)
      <4>1. q < Len(v)
        BY <1>4, <1>5, <3>4
      <4>2. k <= l /\ q <= Len(v) /\ q # Len(v)
        BY <1>4, <1>5, <3>4
      <4>3. QED
        BY <3>4, <3>6, <3>7, <4>2 DEF LinkedAt
    <3>9. ASSUME k > 0 PROVE b + k <= Len(t2) /\ t2[b + k] = v[p]
      <4>1. b + k <= Len(t) /\ t[b + k] = w[p]
        BY <3>1, <3>2, <3>9, PlaceAt
      <4>2. b + k \in 1 .. n /\ b + k <= Len(t2)
        BY <1>1, <1>4, <1>6, <3>9, <4>1
      <4>3. QED
        BY <1>6, <3>5, <4>1, <4>2
    <3>10. QED
      BY <3>5, <3>8, <3>9
  <2>2. CASE ~(p <= c)
    <3>1. PICK k \in 0 .. len : p = c + 1 + k
      <4>1. p - (c + 1) \in 0 .. len /\ p = c + 1 + (p - (c + 1))
        BY <1>4, <1>5, <2>2
      <4>2. QED
        BY <4>1
    <3>2. UnitAt(v, p, n, k, len) /\ k \in Nat
      BY <1>7, <3>1
    <3>3. ASSUME NEW j \in 0 .. len - k PROVE UnitAt(v, p + j, n, k + j, len)
      <4>1. k + j \in 0 .. len /\ p + j = c + 1 + (k + j)
        BY <1>4, <3>1
      <4>2. QED
        BY <1>7, <4>1
    <3>4. k <= len /\ p + (len - k) = Len(v)
      BY <1>4, <1>5, <3>1
    <3>5. LinkedAt(v, n + len, p, n, k, len)
      <4>1. p + (len - k) <= Len(v) /\ ~(p + (len - k) < Len(v))
        BY <1>4, <1>5, <3>4
      <4>2. QED
        BY <3>3, <3>4, <4>1 DEF LinkedAt
    <3>6. ASSUME k > 0 PROVE n + k <= Len(t2) /\ t2[n + k] = v[p]
      <4>1. k \in 1 .. len /\ n + k <= Len(t2)
        BY <1>4, <1>6, <3>1, <3>6
      <4>2. t2[n + k] = <<n, k, len>>
        BY <1>4, <1>6, <4>1
      <4>3. QED
        BY <3>2, <4>1, <4>2 DEF UnitAt
    <3>7. QED
      BY <1>4, <3>2, <3>5, <3>6
  <2>3. QED
    BY <2>1, <2>2
<1>9. Chained(v, n + len) /\ Placed(v, t2)
  <2>1. PICK z : z = n + len
    OBVIOUS
  <2>2. \A p \in 1 .. Len(v) : \E b, k, l \in Nat : UnitAt(v, p, b, k, l) /\ LinkedAt(v, z, p, b, k, l)
    BY <1>8, <2>1
  <2>3. Chained(v, z)
    BY <1>5, <2>2, ChainMade
  <2>4. \A p \in 1 .. Len(v) : \E b, k, l \in Nat :
            UnitAt(v, p, b, k, l) /\ (k > 0 => b + k <= Len(t2) /\ t2[b + k] = v[p])
    BY <1>8
  <2>5. Placed(v, t2)
    BY <2>4, PlaceMade
  <2>6. QED
    BY <2>1, <2>3, <2>5
<1>10. IsHead(v[c + 1]) /\ v[c + 1][1] = n
  <2>1. 0 \in 0 .. len /\ c + 1 + 0 = c + 1
    BY <1>4
  <2>2. UnitAt(v, c + 1, n, 0, len)
    BY <1>7, <2>1
  <2>3. QED
    BY <2>2 DEF UnitAt, IsHead
<1>11. QED
  BY <1>1, <1>2, <1>6, <1>9, <1>10

\* Nothing read, nothing before what is on the socket.
LEMMA NothingRead ==
  ASSUME NEW r, r.in = <<>>, NEW s \in Seq(Units)
  PROVE  r.in \o s = s
BY ConcatEmptySeq

\* What is sent comes after what was read and what was not.
LEMMA JoinsAgain ==
  ASSUME NEW a \in Seq(Units), NEW b \in Seq(Units), NEW c \in Seq(Units)
  PROVE  (a \o b) \o c = a \o (b \o c)
BY ConcatAssociative

\* The server sends a message.
LEMMA SendFlows ==
  ASSUME NEW r \in RcvType, r.pos <= Len(r.in), NEW s \in Seq(Units),
         NEW g, NEW t \in Seq(Units), Flows(r, s, g, t), NEW len \in Lengths
  PROVE  Flows(r, s \o Frame(Len(t), len), g, t \o Load(Len(t), len))
<1>1. PICK n \in Nat : n = Len(t)
  BY LenProperties
<1>2. PICK f, d : f = Frame(n, len) /\ d = Load(n, len)
  OBVIOUS
<1>3. f \in Seq(Units) /\ d \in Seq(Units)
  BY <1>2, FrameIs
<1>4. PICK in : in = r.in /\ in \in Seq(Units)
  BY DEF RcvType
<1>5. PICK w, v, t2 : w = in \o s /\ v = in \o (s \o f) /\ t2 = t \o d
  OBVIOUS
<1>6. v = w \o f
  <2>1. (in \o s) \o f = in \o (s \o f)
    BY <1>3, <1>4, JoinsAgain
  <2>2. QED
    BY <1>5, <2>1
<1>7. Concatenates(w, in, s) /\ Concatenates(t2, t, d)
  BY <1>3, <1>4, <1>5, JoinIs
<1>8. w \in Seq(Units) /\ Len(in) \in Nat /\ Len(s) \in Nat /\ Len(w) = Len(in) + Len(s)
  BY <1>7 DEF Concatenates
<1>9. Concatenates(v, w, f)
  BY <1>3, <1>6, <1>8, JoinIs
<1>10. /\ g \in Seq(Units) /\ Begins(g, t) /\ Chained(w, n) /\ Placed(w, t)
       /\ Stands(r, w, Len(g), n) /\ Fits(r)
  BY <1>1, <1>4, <1>5 DEF Flows
<1>11. Chained(v, Len(t2)) /\ Placed(v, t2) /\ IsHead(v[Len(w) + 1]) /\ v[Len(w) + 1][1] = n
  BY <1>1, <1>2, <1>7, <1>8, <1>9, <1>10, SentChained
<1>12. PICK p \in Nat : p = r.pos /\ p <= Len(w)
  BY <1>4, <1>8 DEF RcvType
<1>13. Len(v) > Len(w) /\ \A q \in 1 .. Len(w) : v[q] = w[q]
  <2>1. Len(f) \in Nat /\ Len(f) > 0
    BY <1>2, FrameIs, StreamNumbers
  <2>2. Len(v) = Len(w) + Len(f)
    BY <1>9 DEF Concatenates
  <2>3. QED
    BY <1>8, <1>9, <2>1, <2>2 DEF Concatenates
<1>14. Stands(r, v, Len(g), Len(t2))
  <2>1. CASE p = Len(w)
    <3>1. Len(g) = n /\ r.total = 0 /\ r.cur = 0
      BY <1>10, <1>12, <2>1 DEF Stands
    <3>2. p # Len(v)
      BY <1>8, <1>13, <2>1
    <3>3. QED
      BY <1>11, <1>12, <2>1, <3>1, <3>2 DEF Stands
  <2>2. CASE p # Len(w)
    <3>1. p + 1 \in 1 .. Len(w) /\ p # Len(v)
      BY <1>8, <1>12, <1>13, <2>2
    <3>2. v[p + 1] = w[p + 1]
      BY <1>13, <3>1
    <3>3. QED
      BY <1>10, <1>12, <2>2, <3>1, <3>2 DEF Stands
  <2>3. QED
    BY <2>1, <2>2
<1>15. Begins(g, t2)
  <2>1. Len(d) \in Nat /\ Len(t2) = n + Len(d) /\ \A q \in 1 .. n : t2[q] = t[q]
    BY <1>1, <1>7 DEF Concatenates
  <2>2. Len(g) \in Nat /\ Len(g) <= n /\ \A q \in 1 .. Len(g) : g[q] = t[q]
    BY <1>1, <1>10, LenProperties DEF Begins
  <2>3. Len(g) <= Len(t2)
    BY <2>1, <2>2
  <2>4. \A q \in 1 .. Len(g) : q \in 1 .. n
    BY <2>2
  <2>5. QED
    BY <2>1, <2>2, <2>3, <2>4 DEF Begins
<1>16. Flows(r, s \o f, g, t2)
  BY <1>4, <1>5, <1>10, <1>11, <1>14, <1>15 DEF Flows
<1>17. QED
  BY <1>1, <1>2, <1>5, <1>16

\* ne_doip_connection_read takes some of what was sent.
LEMMA ReadFlows ==
  ASSUME NEW r \in RcvType, r.in = <<>>, r.pos = 0, NEW s \in Seq(Units), NEW g, NEW t \in Seq(Units),
         Flows(r, s, g, t), NEW k \in 1 .. Len(s),
         NEW in, in = SubSeq(s, 1, k), NEW rest, rest = SubSeq(s, k + 1, Len(s)),
         \A p \in 2 .. k : IsHead(in[p]) => p + in[p][3] <= k,
         NEW n, n = [r EXCEPT !.in = in, !.pos = 0]
  PROVE  Flows(n, rest, g, t)
<1>1. PICK z \in Nat : z = Len(s) /\ k \in 1 .. z /\ k \in Nat /\ k <= z
  BY LenProperties
<1>2. Piece(in, s, 0, k) /\ Piece(rest, s, k, z - k)
  <2>1. Piece(SubSeq(s, 0 + 1, k), s, 0, k - 0)
    <3>1. PICK a \in Nat : a = 0
      OBVIOUS
    <3>2. k \in Nat /\ k <= Len(s) /\ a <= k
      BY <1>1, <3>1
    <3>3. Piece(SubSeq(s, a + 1, k), s, a, k - a)
      BY <3>2, PieceIs
    <3>4. QED
      BY <3>1, <3>3
  <2>2. Piece(SubSeq(s, k + 1, z), s, k, z - k)
    BY <1>1, PieceIs
  <2>3. 0 + 1 = 1 /\ k - 0 = k
    BY <1>1
  <2>4. QED
    BY <1>1, <2>1, <2>2, <2>3
<1>3. /\ in \in Seq(Units) /\ Len(in) = k /\ \A j \in 1 .. k : in[j] = s[0 + j]
      /\ rest \in Seq(Units) /\ Len(rest) = z - k /\ \A j \in 1 .. z - k : rest[j] = s[k + j]
  BY <1>2 DEF Piece
<1>4. in \o rest = s
  <2>1. PICK w : w = in \o rest
    OBVIOUS
  <2>2. Concatenates(w, in, rest)
    BY <1>3, <2>1, JoinIs
  <2>3. /\ w \in Seq(Units) /\ Len(w) = k + (z - k)
        /\ \A p \in 1 .. k : w[p] = in[p]
        /\ \A p \in 1 .. z - k : w[k + p] = rest[p]
    BY <1>3, <2>2 DEF Concatenates
  <2>4. Len(w) = z
    BY <1>1, <2>3
  <2>5. ASSUME NEW p \in 1 .. z PROVE w[p] = s[p]
    <3>1. CASE p <= k
      <4>1. p \in 1 .. k /\ 0 + p = p
        BY <1>1, <3>1
      <4>2. QED
        BY <1>3, <2>3, <4>1
    <3>2. CASE ~(p <= k)
      <4>1. PICK j \in 1 .. z - k : p = k + j
        <5>1. p - k \in 1 .. z - k /\ p = k + (p - k)
          BY <1>1, <3>2
        <5>2. QED
          BY <5>1
      <4>2. QED
        BY <1>3, <2>3, <4>1
    <3>3. QED
      BY <3>1, <3>2
  <2>6. w = s
    BY <1>1, <2>3, <2>4, <2>5, SeqEqual
  <2>7. QED
    BY <2>1, <2>6
<1>5. n.in = in /\ n.pos = 0 /\ n.total = r.total /\ n.cur = r.cur
  BY DEF RcvType
<1>6. r.in \o s = s /\ n.in \o rest = s
  BY <1>4, <1>5, NothingRead
<1>7. /\ g \in Seq(Units) /\ Begins(g, t) /\ Chained(s, Len(t)) /\ Placed(s, t)
      /\ Stands(r, s, Len(g), Len(t))
  BY <1>6 DEF Flows
<1>8. Stands(n, s, Len(g), Len(t))
  BY <1>5, <1>7 DEF Stands
<1>9. Fits(n)
  <2>1. \A p \in 2 .. Len(n.in) : IsHead(n.in[p]) => p + n.in[p][3] <= Len(n.in)
    BY <1>3, <1>5
  <2>2. QED
    BY <1>5, <2>1 DEF Fits
<1>10. QED
  BY <1>6, <1>7, <1>8, <1>9 DEF Flows

\* ne_doip_node_unpack has taken everything that was read.
LEMMA TopFlows ==
  ASSUME NEW r \in RcvType, r.pos = Len(r.in), NEW s \in Seq(Units), NEW g, NEW t \in Seq(Units),
         Flows(r, s, g, t), NEW n, n = [r EXCEPT !.in = <<>>, !.pos = 0]
  PROVE  Flows(n, s, g, t)
<1>1. PICK in : in = r.in /\ in \in Seq(Units)
  BY DEF RcvType
<1>2. PICK w : w = in \o s
  OBVIOUS
<1>3. Concatenates(w, in, s)
  BY <1>1, <1>2, JoinIs
<1>4. PICK x \in Nat, z \in Nat : x = Len(in) /\ z = Len(s) /\ Len(w) = x + z
  BY <1>3 DEF Concatenates
<1>5. n.in = <<>> /\ n.pos = 0 /\ n.total = r.total /\ n.cur = r.cur
  BY DEF RcvType
<1>6. n.in \o s = s
  BY <1>5, NothingRead
<1>7. /\ g \in Seq(Units) /\ Begins(g, t) /\ Chained(w, Len(t)) /\ Placed(w, t)
      /\ Stands(r, w, Len(g), Len(t))
  BY <1>1, <1>2 DEF Flows
<1>8. Chained(s, Len(t)) /\ Placed(s, t)
  BY <1>1, <1>3, <1>7, RestChained
<1>9. Stands(n, s, Len(g), Len(t))
  <2>1. CASE z = 0
    <3>1. r.pos = Len(w) /\ n.pos = Len(s)
      BY <1>1, <1>4, <1>5, <2>1
    <3>2. QED
      BY <1>5, <1>7, <3>1 DEF Stands
  <2>2. CASE z # 0
    <3>1. r.pos # Len(w) /\ n.pos # Len(s) /\ 1 \in 1 .. Len(s)
      BY <1>1, <1>4, <1>5, <2>2
    <3>2. w[r.pos + 1] = s[n.pos + 1]
      <4>1. w[Len(in) + 1] = s[1]
        BY <1>3, <3>1 DEF Concatenates
      <4>2. n.pos + 1 = 1 /\ r.pos + 1 = Len(in) + 1
        BY <1>1, <1>5
      <4>3. QED
        BY <4>1, <4>2
    <3>3. QED
      BY <1>5, <1>7, <3>1, <3>2 DEF Stands
  <2>3. QED
    BY <2>1, <2>2
<1>10. Fits(n)
  <2>1. n.in = <<>> /\ Len(<<>>) = 0
    BY <1>5
  <2>2. QED
    BY <1>5, <2>1 DEF Fits
<1>11. QED
  BY <1>6, <1>7, <1>8, <1>9, <1>10 DEF Flows

\* What is left of a message does not exceed what a length can be.
LEMMA RestIs ==
  ASSUME NEW r, NEW x \in 0 .. Modulus - 1, NEW y \in 0 .. Modulus - 1, y <= x, r.total = x, r.cur = y
  PROVE  Rest(r) = x - y
<1>1. Modulus \in Nat /\ Modulus > 0
  BY StreamNumbers
<1>2. PICK m \in Nat : m = Modulus /\ m > 0
  BY <1>1
<1>3. PICK d \in 0 .. m - 1 : d = x - y
  BY <1>2
<1>4. (d + m) % m = d
  BY <1>2, <1>3
<1>5. QED
  BY <1>2, <1>3, <1>4 DEF Rest

\* A length that fits is not changed by the modulus.
LEMMA SmallIs ==
  ASSUME NEW x \in 0 .. Modulus - 1
  PROVE  x % Modulus = x
<1>1. PICK m \in Nat : m = Modulus /\ m > 0
  BY StreamNumbers
<1>2. x % m = x
  BY <1>1
<1>3. QED
  BY <1>1, <1>2

\* The reader has given the application what is left of the message at its place, or the part
\* of it that was read.
LEMMA TakenFlows ==
  ASSUME NEW r, NEW in \in Seq(Units), r.in = in, NEW s \in Seq(Units), NEW g, NEW t \in Seq(Units),
         Flows(r, s, g, t),
         NEW p, NEW b, NEW k, NEW l, UnitAt(in, p, b, k, l), NEW a, NEW d, Spans(Len(in), Len(g), p, b, k, l, a, d),
         NEW data, Piece(data, in, a, d), NEW n,
         \/ a + d = p + (l - k) /\ Reads(n, in, p + (l - k), 0, 0)
         \/ a + d = Len(in) /\ Len(in) < p + (l - k) /\ Reads(n, in, Len(in), l, k + (Len(in) - p))
  PROVE  Flows(n, s, g \o data, t)
<1>1. PICK w : w = in \o s
  OBVIOUS
<1>2. PICK h : h = g \o data
  OBVIOUS
<1>3. Concatenates(w, in, s)
  BY <1>1, JoinIs
<1>4. g \in Seq(Units) /\ Begins(g, t) /\ Chained(w, Len(t)) /\ Placed(w, t)
  BY <1>1 DEF Flows
<1>5. UnitAt(w, p, b, k, l) /\ p \in 1 .. Len(in) /\ b \in Nat /\ k \in Nat /\ l \in Nat /\ Len(in) \in Nat
  BY <1>3 DEF Concatenates, UnitAt, Spans
<1>6. h \in Seq(Units) /\ Len(h) = Len(g) + d /\ Begins(h, t)
  <2>1. g \o data \in Seq(Units) /\ Len(g \o data) = Len(g) + d /\ Begins(g \o data, t)
    BY <1>3, <1>4, <1>5, PayloadNext
  <2>2. QED
    BY <1>2, <2>1
<1>7. Stands(n, w, Len(h), Len(t)) /\ (n.pos < Len(in) => IsHead(in[n.pos + 1])) /\ n.in = in
  <2>1. CASE a + d = p + (l - k) /\ Reads(n, in, p + (l - k), 0, 0)
    <3>1. PICK q : q = p + (l - k)
      OBVIOUS
    <3>2. q <= Len(in) /\ Len(g) + d = b + l
      BY <2>1, <3>1 DEF Spans
    <3>3. PICK x : x = Len(h) /\ x = b + l
      BY <1>6, <3>2
    <3>4. Reads(n, in, q, 0, 0)
      BY <2>1, <3>1
    <3>5. Stands(n, w, x, Len(t)) /\ (q < Len(in) => IsHead(in[q + 1]))
      BY <1>3, <1>4, <1>5, <3>1, <3>2, <3>3, <3>4, StandsAtEnd
    <3>6. n.in = in /\ n.pos = q
      BY <3>4 DEF Reads
    <3>7. QED
      BY <3>3, <3>5, <3>6
  <2>2. CASE a + d = Len(in) /\ Len(in) < p + (l - k) /\ Reads(n, in, Len(in), l, k + (Len(in) - p))
    <3>1. PICK c : c = k + (Len(in) - p)
      OBVIOUS
    <3>2. Len(g) + d = b + k + (Len(in) - p)
      <4>1. Len(g) = b + k + (a - p) /\ a \in Nat /\ d \in Nat
        BY DEF Spans
      <4>2. PICK z \in Nat : z = Len(in) /\ z = a + d /\ p \in 1 .. z
        BY <1>5, <2>2
      <4>3. b + k + (a - p) + d = b + k + (z - p)
        BY <1>5, <4>1, <4>2
      <4>4. QED
        BY <4>1, <4>2, <4>3
    <3>3. PICK x : x = Len(h) /\ x = b + k + (Len(in) - p)
      BY <1>6, <3>2
    <3>4. Reads(n, in, Len(in), l, c) /\ p + (l - k) > Len(in)
      BY <1>5, <2>2, <3>1
    <3>5. Stands(n, w, x, Len(t))
      BY <1>3, <1>4, <1>5, <3>1, <3>3, <3>4, StandsWithin
    <3>6. n.in = in /\ ~(n.pos < Len(in))
      BY <1>5, <3>4 DEF Reads
    <3>7. QED
      BY <3>3, <3>5, <3>6
  <2>3. QED
    BY <2>1, <2>2
<1>8. \A q \in 2 .. Len(in) : IsHead(in[q]) => q + in[q][3] <= Len(in)
  BY DEF Flows, Fits
<1>9. Fits(n)
  BY <1>7, <1>8 DEF Fits
<1>10. QED
  BY <1>1, <1>2, <1>4, <1>6, <1>7, <1>9 DEF Flows

\* ne_doip_node_unpack_exec gives the application what comes next, if what was read was not cut
\* in a message that began in its middle.
LEMMA UnpackFlows ==
  ASSUME NEW r \in RcvType, r.pos < Len(r.in), NEW s \in Seq(Units), NEW g, NEW t \in Seq(Units),
         Flows(r, s, g, t)
  PROVE  Flows(Unpacked(r).r, s, g \o Unpacked(r).data, t)
<1>1. PICK in : in = r.in /\ in \in Seq(Units)
  BY DEF RcvType
<1>2. PICK z \in Nat : z = Len(in) /\ r.pos \in Nat /\ r.pos < z
  BY <1>1, LenProperties DEF RcvType
<1>3. PICK p \in 1 .. z : p = r.pos + 1
  <2>1. r.pos + 1 \in 1 .. z
    BY <1>2
  <2>2. QED
    BY <2>1
<1>4. PICK b, k, l \in Nat : UnitAt(in, p, b, k, l) /\ l < Modulus
  BY <1>1, <1>2, <1>3, UnitIs
<1>5. PICK u : u = in[p] /\ u[1] = b /\ u[2] = k /\ u[3] = l /\ (IsHead(u) <=> k = 0)
  <2>1. PICK u : u = <<b, k, l>>
    OBVIOUS
  <2>2. u[1] = b /\ u[2] = k /\ u[3] = l
    BY <2>1
  <2>3. u = in[p]
    BY <1>4, <2>1 DEF UnitAt
  <2>4. IsHead(u) <=> k = 0
    BY <2>2 DEF IsHead
  <2>5. QED
    BY <2>2, <2>3, <2>4
<1>6. PICK w : w = in \o s
  OBVIOUS
<1>7. Concatenates(w, in, s)
  BY <1>1, <1>6, JoinIs
<1>8. w \in Seq(Units) /\ p \in 1 .. Len(w) /\ r.pos # Len(w) /\ w[p] = u
  <2>1. w \in Seq(Units) /\ Len(s) \in Nat /\ Len(w) = z + Len(s) /\ \A q \in 1 .. z : w[q] = in[q]
    BY <1>2, <1>7 DEF Concatenates
  <2>2. p \in 1 .. Len(w) /\ r.pos # Len(w)
    BY <1>2, <2>1
  <2>3. QED
    BY <1>5, <2>1, <2>2
<1>9. /\ Chained(w, Len(t)) /\ Stands(r, w, Len(g), Len(t))
      /\ 0 < r.pos /\ r.pos < z => IsHead(in[r.pos + 1])
      /\ \A q \in 2 .. z : IsHead(in[q]) => q + in[q][3] <= z
  BY <1>1, <1>2, <1>6 DEF Flows, Fits
<1>10. k <= l
  <2>1. UnitAt(w, p, b, k, l)
    BY <1>4, <1>5, <1>8 DEF UnitAt
  <2>2. QED
    BY <1>8, <1>9, <2>1, ChainAt DEF LinkedAt
<1>11. IF k = 0 THEN Len(g) = b /\ r.total = 0 /\ r.cur = 0
       ELSE Len(g) = b + k - 1 /\ r.total = l /\ r.cur = k - 1
  BY <1>3, <1>5, <1>8, <1>9 DEF Stands
<1>12. Modulus \in Nat /\ Modulus > 0
  BY StreamNumbers
<1>13. r \in [in : Seq(Units), pos : Nat, total : 0 .. Modulus - 1, cur : 0 .. Modulus - 1]
  BY DEF RcvType
<1>14. CASE k > 0
  <2>1. Len(g) = b + k - 1 /\ r.total = l /\ r.cur = k - 1 /\ r.pos = 0 /\ p = 1
    BY <1>2, <1>3, <1>5, <1>9, <1>11, <1>14
  <2>2. PICK d \in Nat : d = l - k + 1 /\ d > 0
    BY <1>10
  <2>3. Rest(r) = d
    <3>1. PICK x, y \in 0 .. Modulus - 1 : x = l /\ y = k - 1 /\ y <= x
      <4>1. l \in 0 .. Modulus - 1 /\ k - 1 \in 0 .. Modulus - 1 /\ k - 1 <= l
        BY <1>4, <1>10, <1>12, <1>14
      <4>2. QED
        BY <4>1
    <3>2. Rest(r) = x - y
      BY <2>1, <3>1, RestIs
    <3>3. QED
      BY <2>2, <3>1, <3>2
  <2>4. Unpacked(r) = MidMessage(r)
    BY <2>2, <2>3 DEF Unpacked
  <2>5. CASE d > z
    <3>1. PICK n : n = [r EXCEPT !.cur = (r.cur + z) % Modulus, !.pos = z]
      OBVIOUS
    <3>2. Unpacked(r).data = in /\ Unpacked(r).r = n
      BY <1>1, <1>2, <2>3, <2>4, <2>5, <3>1 DEF MidMessage
    <3>3. (r.cur + z) % Modulus = k + (z - p)
      <4>1. k - 1 + z \in 0 .. Modulus - 1
        BY <1>4, <1>12, <1>14, <2>2, <2>5
      <4>2. PICK x \in 0 .. Modulus - 1 : x = k - 1 + z
        BY <4>1
      <4>3. r.cur + z = x /\ x = k + (z - p)
        BY <2>1, <4>2
      <4>4. x % Modulus = x
        BY SmallIs
      <4>5. QED
        BY <4>3, <4>4
    <3>4. Reads(n, in, z, l, k + (z - p))
      BY <1>1, <1>13, <2>1, <3>1, <3>3 DEF Reads
    <3>5. PICK a \in Nat : a = 0
      OBVIOUS
    <3>6. Spans(z, Len(g), p, b, k, l, a, z)
      BY <1>2, <1>14, <2>1, <2>2, <2>5, <3>5 DEF Spans
    <3>7. Piece(in, in, a, z)
      BY <1>1, <1>2, <3>5 DEF Piece
    <3>8. a + z = z /\ z < p + (l - k)
      BY <2>1, <2>2, <2>5, <3>5
    <3>9. Flows(n, s, g \o in, t)
      BY <1>1, <1>2, <1>4, <3>4, <3>6, <3>7, <3>8, TakenFlows
    <3>10. QED
      BY <3>2, <3>9
  <2>6. CASE ~(d > z)
    <3>1. PICK n : n = [r EXCEPT !.pos = d, !.total = 0, !.cur = 0]
      OBVIOUS
    <3>2. PICK data : data = SubSeq(in, 1, d)
      OBVIOUS
    <3>3. Unpacked(r).data = data /\ Unpacked(r).r = n
      BY <1>1, <1>2, <2>3, <2>4, <2>6, <3>1, <3>2 DEF MidMessage
    <3>4. Reads(n, in, d, 0, 0)
      BY <1>1, <1>13, <3>1 DEF Reads
    <3>5. PICK a \in Nat : a = 0
      OBVIOUS
    <3>6. Piece(data, in, a, d)
      <4>1. d <= Len(in) /\ a <= d /\ a + 1 = 1 /\ d - a = d
        BY <1>2, <2>2, <2>6, <3>5
      <4>2. Piece(SubSeq(in, a + 1, d), in, a, d - a)
        BY <1>1, <4>1, PieceIs
      <4>3. QED
        BY <3>2, <4>1, <4>2
    <3>7. Spans(z, Len(g), p, b, k, l, a, d)
      BY <1>2, <1>14, <2>1, <2>2, <2>6, <3>5 DEF Spans
    <3>8. a + d = p + (l - k) /\ p + (l - k) = d
      BY <2>1, <2>2, <3>5
    <3>9. Reads(n, in, p + (l - k), 0, 0)
      BY <3>4, <3>8
    <3>10. Flows(n, s, g \o data, t)
      BY <1>1, <1>2, <1>4, <3>6, <3>7, <3>8, <3>9, TakenFlows
    <3>11. QED
      BY <3>3, <3>10
  <2>7. QED
    BY <2>5, <2>6
<1>15. CASE k = 0
  <2>1. Len(g) = b /\ r.total = 0 /\ r.cur = 0 /\ IsHead(u)
    BY <1>5, <1>11, <1>15
  <2>2. Rest(r) = 0
    <3>1. PICK x \in 0 .. Modulus - 1 : x = 0
      BY <1>12
    <3>2. Rest(r) = x - x
      BY <2>1, <3>1, RestIs
    <3>3. QED
      BY <3>1, <3>2
  <2>3. r.in[r.pos + 1] = u
    BY <1>1, <1>3, <1>5
  <2>4. CASE l = 0
    <3>1. PICK n : n = [r EXCEPT !.pos = p]
      OBVIOUS
    <3>2. Unpacked(r).data = <<>> /\ Unpacked(r).r = n
      <4>1. Unpacked(r) = [data |-> <<>>, call |-> FALSE, r |-> [r EXCEPT !.pos = @ + 1]]
        BY <1>5, <2>1, <2>2, <2>3, <2>4 DEF Unpacked
      <4>2. QED
        BY <1>3, <3>1, <4>1
    <3>3. Reads(n, in, p, 0, 0)
      BY <1>1, <1>13, <2>1, <3>1 DEF Reads
    <3>4. PICK d, data : d \in Nat /\ d = 0 /\ data = <<>>
      OBVIOUS
    <3>5. Piece(data, in, p, d)
      BY <3>4 DEF Piece
    <3>6. Spans(z, Len(g), p, b, k, l, p, d)
      BY <1>2, <1>15, <2>1, <2>4, <3>4 DEF Spans
    <3>7. p + d = p + (l - k) /\ p + (l - k) = p
      BY <1>15, <2>4, <3>4
    <3>8. Reads(n, in, p + (l - k), 0, 0)
      BY <3>3, <3>7
    <3>9. Flows(n, s, g \o data, t)
      BY <1>1, <1>2, <1>4, <3>5, <3>6, <3>7, <3>8, TakenFlows
    <3>10. QED
      BY <3>2, <3>4, <3>9
  <2>5. CASE l > 0
    <3>1. Unpacked(r) = AtHead(r)
      BY <1>5, <2>1, <2>2, <2>3, <2>5 DEF Unpacked
    <3>2. CASE p + l <= z
      <4>1. PICK n : n = [[r EXCEPT !.total = l, !.cur = l] EXCEPT !.pos = p + l, !.total = 0, !.cur = 0]
        OBVIOUS
      <4>2. PICK data : data = SubSeq(in, p + 1, p + l)
        OBVIOUS
      <4>3. Unpacked(r).data = data /\ Unpacked(r).r = n
        <5>1. ~(l > z - 1)
          BY <1>2, <3>2
        <5>2. (r.cur + l) % Modulus = l
          <6>1. PICK x \in 0 .. Modulus - 1 : x = l
            BY <1>4, <1>12
          <6>2. x % Modulus = x /\ r.cur + l = x
            BY <2>1, <6>1, SmallIs
          <6>3. QED
            BY <6>1, <6>2
        <5>3. PICK m : m = [r EXCEPT !.total = l, !.cur = l]
          OBVIOUS
        <5>4. m.pos = r.pos /\ m.total = l /\ m.cur = l
          BY <1>13, <5>3
        <5>5. r.pos + 1 + l = p + l /\ r.pos + 2 = p + 1 /\ ~(p + l > z)
          BY <1>2, <1>3, <3>2
        <5>6. AtHead(r) = [data |-> data, call |-> TRUE, r |-> n]
          <6>1. n = [m EXCEPT !.pos = @ + 1 + l, !.total = 0, !.cur = 0]
            BY <4>1, <5>3, <5>4, <5>5
          <6>2. AtHead(r) = IF r.pos + 1 + l > z THEN [data |-> <<>>, call |-> FALSE, r |-> [m EXCEPT !.pos = z]]
                            ELSE [data |-> SubSeq(in, r.pos + 2, r.pos + 1 + l), call |-> TRUE,
                                  r |-> IF m.cur = m.total THEN [m EXCEPT !.pos = @ + 1 + l, !.total = 0, !.cur = 0]
                                        ELSE [m EXCEPT !.pos = @ + 1 + l]]
            BY <1>1, <1>2, <1>5, <2>3, <5>1, <5>2, <5>3 DEF AtHead
          <6>3. QED
            BY <4>2, <5>4, <5>5, <6>1, <6>2
        <5>7. QED
          BY <3>1, <5>6
      <4>4. Reads(n, in, p + l, 0, 0)
        BY <1>1, <1>13, <4>1 DEF Reads
      <4>5. PICK e \in Nat : e = p + l
        BY <1>3
      <4>6. Piece(data, in, p, l)
        <5>1. e <= Len(in) /\ p <= e /\ p \in Nat /\ e - p = l
          BY <1>2, <3>2, <4>5
        <5>2. Piece(SubSeq(in, p + 1, e), in, p, e - p)
          BY <1>1, <5>1, PieceIs
        <5>3. QED
          BY <4>2, <4>5, <5>1, <5>2
      <4>7. Spans(z, Len(g), p, b, k, l, p, l)
        BY <1>2, <1>15, <2>1, <3>2 DEF Spans
      <4>8. p + l = p + (l - k)
        BY <1>15
      <4>9. Flows(n, s, g \o data, t)
        BY <1>1, <1>2, <1>4, <4>4, <4>6, <4>7, <4>8, TakenFlows
      <4>10. QED
        BY <4>3, <4>9
    <3>3. CASE ~(p + l <= z)
      <4>1. p = 1 /\ r.pos = 0
        <5>1. ~(p \in 2 .. z)
          BY <1>5, <1>9, <2>1, <3>3
        <5>2. QED
          BY <1>2, <1>3, <5>1
      <4>2. PICK d \in Nat : d = z - 1 /\ d < l /\ z >= 1
        <5>1. z - 1 \in Nat /\ z - 1 < l /\ z >= 1
          BY <1>2, <3>3, <4>1
        <5>2. QED
          BY <5>1
      <4>3. PICK m : m = [r EXCEPT !.total = l, !.cur = d]
        OBVIOUS
      <4>4. m.pos = 0 /\ m.total = l /\ m.cur = d /\ m.in = in
        BY <1>1, <1>13, <4>1, <4>3
      <4>5. PICK n : n = [m EXCEPT !.pos = @ + 1 + d]
        OBVIOUS
      <4>6. PICK data : data = SubSeq(in, 2, z)
        OBVIOUS
      <4>7. Unpacked(r).data = data /\ Unpacked(r).r = n
        <5>1. l > z - 1
          BY <4>2
        <5>2. (r.cur + d) % Modulus = d
          <6>1. PICK x \in 0 .. Modulus - 1 : x = d
            BY <1>4, <1>12, <4>2
          <6>2. x % Modulus = x /\ r.cur + d = x
            BY <2>1, <6>1, SmallIs
          <6>3. QED
            BY <6>1, <6>2
        <5>3. r.pos + 1 + d = z /\ r.pos + 2 = 2 /\ ~(z > z)
          BY <4>1, <4>2
        <5>4. AtHead(r) = [data |-> data, call |-> TRUE, r |-> n]
          <6>1. AtHead(r) = IF r.pos + 1 + d > z THEN [data |-> <<>>, call |-> FALSE, r |-> [m EXCEPT !.pos = z]]
                            ELSE [data |-> SubSeq(in, r.pos + 2, r.pos + 1 + d), call |-> TRUE,
                                  r |-> IF m.cur = m.total THEN [m EXCEPT !.pos = @ + 1 + d, !.total = 0, !.cur = 0]
                                        ELSE [m EXCEPT !.pos = @ + 1 + d]]
            BY <1>1, <1>2, <1>5, <2>3, <4>2, <4>3, <5>1, <5>2 DEF AtHead
          <6>2. m.cur # m.total
            BY <4>2, <4>4
          <6>3. QED
            BY <4>5, <4>6, <5>3, <6>1, <6>2
        <5>5. QED
          BY <3>1, <5>4
      <4>8. Reads(n, in, z, l, k + (z - p))
        <5>1. 0 + 1 + d = z /\ d = k + (z - p)
          BY <1>15, <4>1, <4>2
        <5>2. n.in = in /\ n.pos = 0 + 1 + d /\ n.total = l /\ n.cur = d
          BY <1>13, <4>3, <4>4, <4>5
        <5>3. QED
          BY <5>1, <5>2 DEF Reads
      <4>9. Piece(data, in, p, d)
        <5>1. z <= Len(in) /\ p <= z /\ p \in Nat /\ z - p = d /\ p + 1 = 2
          BY <1>2, <4>1, <4>2
        <5>2. Piece(SubSeq(in, p + 1, z), in, p, z - p)
          BY <1>1, <5>1, PieceIs
        <5>3. QED
          BY <4>6, <5>1, <5>2
      <4>10. Spans(z, Len(g), p, b, k, l, p, d)
        BY <1>2, <1>15, <2>1, <4>1, <4>2 DEF Spans
      <4>11. p + d = z /\ z < p + (l - k)
        BY <1>15, <4>1, <4>2
      <4>12. Flows(n, s, g \o data, t)
        BY <1>1, <1>2, <1>4, <4>8, <4>9, <4>10, <4>11, TakenFlows
      <4>13. QED
        BY <4>7, <4>12
    <3>4. QED
      BY <3>2, <3>3
  <2>6. QED
    BY <2>4, <2>5
<1>16. QED
  BY <1>14, <1>15

\* Every step keeps the reader's variables.
LEMMA StreamsStep ==
  ASSUME IInv, Next
  PROVE  StreamsInv'
<1>1. /\ frames \in [Incs -> 0 .. MaxFrames] /\ sent \in [Incs -> Seq(Units)] /\ DOMAIN got = Incs
      /\ stream \in [Incs -> Seq(Units)] /\ cut \subseteq Incs
      /\ rcv \in [Incs -> RcvType] /\ \A i \in Incs : rcv[i].pos <= Len(rcv[i].in) /\ Len(rcv[i].in) <= ReadMax
  BY DEF IInv, StreamsInv
<1>2. ASSUME UNCHANGED <<stream, frames, sent, rcv, got, cut>> PROVE StreamsInv'
  BY <1>1, <1>2 DEF StreamsInv
<1>3. ASSUME NEW i \in Incs, NEW k \in 1 .. ReadMax, Read(i, k)
      PROVE  StreamsInv'
  <2>1. CASE UNCHANGED <<stream, rcv, cut>>
    BY <1>2, <1>3, <2>1 DEF Read
  <2>2. CASE ~UNCHANGED <<stream, rcv, cut>>
    <3>1. PICK in : in = SubSeq(stream[i], 1, k)
      OBVIOUS
    <3>2. PICK rest : rest = SubSeq(stream[i], k + 1, Len(stream[i]))
      OBVIOUS
    <3>3. /\ stream' = [stream EXCEPT ![i] = rest] /\ rcv' = [rcv EXCEPT ![i].in = in, ![i].pos = 0]
          /\ cut' \subseteq cut \cup {i} /\ UNCHANGED <<frames, sent, got>> /\ k \in 1 .. Len(stream[i])
      BY <1>3, <2>2, <3>1, <3>2 DEF Read
    <3>4. stream[i] \in Seq(Units) /\ Len(stream[i]) \in Nat /\ k \in Nat /\ k >= 1
      BY <1>1, <3>3, LenProperties
    <3>5. \A j \in 1 .. Len(stream[i]) : stream[i][j] \in Units
      BY <3>4, ElementOfSeq
    <3>6. in \in Seq(Units) /\ Len(in) = k
      <4>1. \A j \in 1 .. k : stream[i][j] \in Units
        BY <3>3, <3>4, <3>5
      <4>2. in \in Seq(Units) /\ Len(in) = IF 1 <= k THEN k - 1 + 1 ELSE 0
        BY <3>1, <3>4, <4>1, SubSeqProperties
      <4>3. QED
        BY <3>4, <4>2
    <3>7. rest \in Seq(Units)
      <4>1. \A j \in k + 1 .. Len(stream[i]) : stream[i][j] \in Units
        BY <3>4, <3>5
      <4>2. QED
        BY <3>2, <3>4, <4>1, SubSeqProperties
    <3>8. PICK n : n = [rcv[i] EXCEPT !.in = in, !.pos = 0]
      OBVIOUS
    <3>9. n \in RcvType /\ n.in = in /\ n.pos = 0
      BY <1>1, <3>6, <3>8 DEF RcvType
    <3>10. rcv' = [rcv EXCEPT ![i] = n]
      BY <3>3, <3>8
    <3>11. rcv' \in [Incs -> RcvType] /\ rcv'[i] = n /\ \A j \in Incs : j # i => rcv'[j] = rcv[j]
      BY <1>1, <3>9, <3>10
    <3>12. \A j \in Incs : rcv'[j].pos <= Len(rcv'[j].in) /\ Len(rcv'[j].in) <= ReadMax
      <4>1. rcv'[i].pos <= Len(rcv'[i].in) /\ Len(rcv'[i].in) <= ReadMax
        BY <3>4, <3>6, <3>9, <3>11, StreamNumbers
      <4>2. QED
        BY <1>1, <3>11, <4>1
    <3>13. stream' \in [Incs -> Seq(Units)] /\ cut' \subseteq Incs
      BY <1>1, <3>3, <3>7
    <3>14. QED
      BY <1>1, <3>3, <3>11, <3>12, <3>13 DEF StreamsInv
  <2>3. QED
    BY <2>1, <2>2
<1>4. ASSUME NEW i \in Incs, Unpack(i)
      PROVE  StreamsInv'
  <2>1. UNCHANGED <<stream, frames, sent, cut>> /\ DOMAIN got' = Incs
    BY <1>1, <1>4 DEF Unpack
  <2>2. CASE UNCHANGED rcv
    BY <1>1, <2>1, <2>2 DEF StreamsInv
  <2>3. rcv[i] \in RcvType /\ rcv[i].pos \in Nat /\ Len(rcv[i].in) \in Nat
    BY <1>1, LenProperties DEF RcvType
  <2>4. CASE ~UNCHANGED rcv
    <3>1. PICK n : rcv' = [rcv EXCEPT ![i] = n] /\ n \in RcvType /\ n.pos <= Len(n.in) /\ Len(n.in) <= ReadMax
      <4>1. CASE rcv[i].pos = Len(rcv[i].in)
        <5>1. rcv' = [rcv EXCEPT ![i].in = <<>>, ![i].pos = 0]
          BY <1>4, <2>4, <4>1 DEF Unpack
        <5>2. PICK n : n = [rcv[i] EXCEPT !.in = <<>>, !.pos = 0]
          OBVIOUS
        <5>3. n \in RcvType /\ n.in = <<>> /\ n.pos = 0
          <6>1. <<>> \in Seq(Units)
            OBVIOUS
          <6>2. QED
            BY <2>3, <5>2, <6>1 DEF RcvType
        <5>4. n.pos <= Len(n.in) /\ Len(n.in) <= ReadMax
          BY <5>3, StreamNumbers
        <5>5. QED
          BY <5>1, <5>2, <5>3, <5>4
      <4>2. CASE rcv[i].pos # Len(rcv[i].in)
        <5>1. rcv' = [rcv EXCEPT ![i] = Unpacked(rcv[i]).r]
          BY <1>4, <2>4, <4>2 DEF Unpack
        <5>2. rcv[i].pos < Len(rcv[i].in)
          BY <1>1, <2>3, <4>2
        <5>3. /\ Unpacked(rcv[i]).r \in RcvType /\ Unpacked(rcv[i]).r.in = rcv[i].in
              /\ Unpacked(rcv[i]).r.pos <= Len(rcv[i].in)
          BY <2>3, <5>2, UnpackedIs
        <5>4. QED
          BY <1>1, <5>1, <5>3
      <4>3. QED
        BY <4>1, <4>2
    <3>2. rcv' \in [Incs -> RcvType] /\ \A j \in Incs : rcv'[j] = IF j = i THEN n ELSE rcv[j]
      BY <1>1, <3>1
    <3>3. QED
      BY <1>1, <2>1, <3>1, <3>2 DEF StreamsInv
  <2>5. QED
    BY <2>2, <2>4
<1>5. ASSUME NEW i \in Incs, NEW len \in Lengths, Send(i, len)
      PROVE  StreamsInv'
  <2>1. PICK m : m = Frame(Len(sent[i]), len)
    OBVIOUS
  <2>2. PICK l : l = Load(Len(sent[i]), len)
    OBVIOUS
  <2>3. /\ frames[i] < MaxFrames /\ frames' = [frames EXCEPT ![i] = @ + 1]
        /\ stream' = [stream EXCEPT ![i] = @ \o m] /\ sent' = [sent EXCEPT ![i] = @ \o l]
        /\ UNCHANGED <<rcv, got, cut>>
    BY <1>5, <2>1, <2>2 DEF Send
  <2>4. frames[i] + 1 \in 0 .. MaxFrames
    BY <1>1, <2>3, StreamNumbers
  <2>5. Len(sent[i]) \in Nat
    BY <1>1, LenProperties
  <2>6. m \in Seq(Units) /\ l \in Seq(Units)
    BY <2>1, <2>2, <2>5, FrameIs
  <2>7. stream[i] \o m \in Seq(Units) /\ sent[i] \o l \in Seq(Units)
    BY <1>1, <2>6, ConcatProperties
  <2>8. stream' \in [Incs -> Seq(Units)] /\ sent' \in [Incs -> Seq(Units)]
    BY <1>1, <2>3, <2>7
  <2>9. frames' \in [Incs -> 0 .. MaxFrames]
    BY <1>1, <2>3, <2>4
  <2>10. QED
    BY <1>1, <2>3, <2>8, <2>9 DEF StreamsInv
<1>6. ASSUME NEW a \in Apps, Create(a) \/ Ask(a) \/ Destroy(a) \/ AppStep(a)
      PROVE  UNCHANGED <<stream, frames, sent, rcv, got, cut>>
  <2>1. ASSUME Create(a) \/ Ask(a) \/ Destroy(a) \/ Connect(a) \/ List(a) \/ Join(a)
        PROVE  UNCHANGED <<stream, frames, sent, rcv, got, cut>>
    BY <2>1 DEF Create, Ask, Destroy, Connect, List, Join, reading
  <2>2. ASSUME NEW pc, NEW next, Regist(a, pc, next) \/ Shut(a, next) \/ FreeConn(a, next) \/ SetNull(a, next)
        PROVE  UNCHANGED <<stream, frames, sent, rcv, got, cut>>
    BY <2>2 DEF Regist, Shut, FreeConn, SetNull, reading
  <2>3. ASSUME Compose(a) \/ LastNode(a) \/ WriteRegist(a) \/ WriteConf(a) \/ WriteRequest(a)
        PROVE  UNCHANGED <<stream, frames, sent, rcv, got, cut>>
    BY <2>3 DEF Compose, LastNode, WriteRegist, WriteConf, WriteRequest, reading
  <2>4. QED
    BY <1>6, <2>1, <2>2, <2>3 DEF AppStep
<1>7. ASSUME NEW i \in Incs, ReaderStep(i) \/ Close(i) \/ \E len \in Lengths : Send(i, len)
      PROVE  StreamsInv'
  <2>1. ASSUME NEW next, Shut(i, next) \/ FreeConn(i, next) \/ SetNull(i, next)
        PROVE  UNCHANGED <<stream, frames, sent, rcv, got, cut>>
    BY <2>1 DEF Shut, FreeConn, SetNull, reading
  <2>2. ASSUME Top(i) \/ Enter(i) \/ ReadEof(i) \/ Callback(i) \/ Compose(i) \/ WriteRequest(i) \/ Close(i)
        PROVE  UNCHANGED <<stream, frames, sent, rcv, got, cut>>
    BY <2>2 DEF Top, Enter, ReadEof, Callback, Compose, WriteRequest, Close, reading
  <2>3. QED
    BY <1>2, <1>3, <1>4, <1>5, <1>7, <2>1, <2>2 DEF ReaderStep
<1>8. QED
  BY <1>2, <1>6, <1>7 DEF Next

\* A step that leaves what was sent, read and given alone, and after which no reader waits for
\* a read that did not before.
LEMMA FlowKept ==
  ASSUME FlowInv, UNCHANGED reading,
         \A i \in Incs : job'[i].pc \in Waiting => job[i].pc \in Waiting
  PROVE  FlowInv'
<1>1. stream' = stream /\ sent' = sent /\ rcv' = rcv /\ got' = got /\ cut' = cut
  BY DEF reading
<1>2. QED
  BY <1>1 DEF FlowInv

\* The steps of a thread that are not about what the server sends.
LEMMA FlowPasses ==
  ASSUME IInv, NEW t \in Threads, UNCHANGED reading,
         \/ UNCHANGED job
         \/ \E pc \in AppPcs \cup ReaderPcs : Goto(t, pc) /\ (pc \in Waiting => job[t].pc \in Waiting)
         \/ Finish(t)
         \/ \E i : job' = [job EXCEPT ![t] = [pc |-> "write", i |-> i]]
  PROVE  FlowInv'
<1>1. FlowInv
  BY DEF IInv
<1> SUFFICES ASSUME NEW k \in Incs PROVE job'[k].pc \in Waiting => job[k].pc \in Waiting
  BY <1>1, FlowKept
<1>2. k \in Threads /\ k \notin Apps /\ job \in [Threads -> JobType]
  BY Kept
<1>3. CASE UNCHANGED job
  BY <1>3
<1>4. ASSUME NEW pc \in AppPcs \cup ReaderPcs, Goto(t, pc), pc \in Waiting => job[t].pc \in Waiting
      PROVE  job'[k].pc \in Waiting => job[k].pc \in Waiting
  <2>1. job'[t] = [pc |-> pc, i |-> job[t].i] /\ \A u \in Threads : u # t => job'[u] = job[u]
    BY <1>4, GotoGoes
  <2>2. job'[t].pc = pc
    BY <2>1
  <2>3. QED
    BY <1>2, <1>4, <2>1, <2>2
<1>5. CASE Finish(t)
  <2>1. /\ job'[t] = IF t \in Apps THEN Idle ELSE [pc |-> "unpack", i |-> t]
        /\ \A u \in Threads : u # t => job'[u] = job[u]
    BY <1>5, FinishGoes
  <2>2. CASE k = t
    <3>1. job'[k] = [pc |-> "unpack", i |-> t]
      BY <1>2, <2>1, <2>2
    <3>2. QED
      BY <3>1 DEF Waiting
  <2>3. CASE k # t
    BY <1>2, <2>1, <2>3
  <2>4. QED
    BY <2>2, <2>3
<1>6. ASSUME NEW i, job' = [job EXCEPT ![t] = [pc |-> "write", i |-> i]]
      PROVE  job'[k].pc \in Waiting => job[k].pc \in Waiting
  <2>1. CASE k = t
    <3>1. job'[k].pc = "write"
      BY <1>2, <1>6, <2>1
    <3>2. QED
      BY <3>1 DEF Waiting
  <2>2. CASE k # t
    BY <1>2, <1>6, <2>2
  <2>3. QED
    BY <2>1, <2>2
<1>7. QED
  BY <1>3, <1>4, <1>5, <1>6

\* A request, from a thread of the application or from a callback.
LEMMA FlowRequests ==
  ASSUME IInv, NEW t \in Threads, fault = None, Compose(t) \/ WriteRequest(t)
  PROVE  FlowInv'
<1>1. UNCHANGED reading
  BY DEF Compose, WriteRequest
<1>2. ASSUME UNCHANGED job \/ Finish(t) PROVE FlowInv'
  BY <1>1, <1>2, FlowPasses
<1>3. ASSUME NEW i, job' = [job EXCEPT ![t] = [pc |-> "write", i |-> i]] PROVE FlowInv'
  BY <1>1, <1>3, FlowPasses
<1>4. CASE Compose(t)
  <2>1. UNCHANGED job \/ Finish(t) \/ job' = [job EXCEPT ![t] = [pc |-> "write", i |-> Found]]
    BY <1>4 DEF Compose, Fault
  <2>2. QED
    BY <1>2, <1>3, <2>1
<1>5. CASE WriteRequest(t)
  <2>1. Write(t, "request") /\ (fault' = None => Finish(t))
    BY <1>5 DEF WriteRequest
  <2>2. UNCHANGED job \/ fault' = None
    BY <2>1 DEF Write, Fault
  <2>3. QED
    BY <1>2, <2>1, <2>2
<1>6. QED
  BY <1>4, <1>5

\* ne_doip_connection_destroy, by ne_doip_node_destroy or by the reader at its end.
LEMMA FlowCloses ==
  ASSUME IInv, NEW t \in Threads, NEW next \in {"join", "ended"},
         Shut(t, next) \/ FreeConn(t, next) \/ SetNull(t, next)
  PROVE  FlowInv'
<1>1. UNCHANGED reading
  BY DEF Shut, FreeConn, SetNull
<1>2. {"join", "ended", "free", "null"} \subseteq AppPcs \cup ReaderPcs
  BY DEF AppPcs, ReaderPcs
<1>3. ASSUME NEW pc \in {"join", "ended", "free", "null"}, Goto(t, pc) PROVE FlowInv'
  <2>1. pc \in AppPcs \cup ReaderPcs /\ pc \notin Waiting
    BY <1>2, <1>3 DEF Waiting
  <2>2. QED
    BY <1>1, <1>3, <2>1, FlowPasses
<1>4. UNCHANGED job \/ Goto(t, next) \/ Goto(t, "free") \/ Goto(t, "null")
  BY DEF Shut, FreeConn, SetNull, Fault
<1>5. CASE UNCHANGED job
  BY <1>1, <1>5, FlowPasses
<1>6. QED
  BY <1>3, <1>4, <1>5

\* What the steps of a reader and of the server use of IInv.
LEMMA FlowKnown ==
  ASSUME IInv, NEW i \in Incs
  PROVE  /\ rcv \in [Incs -> RcvType] /\ stream \in [Incs -> Seq(Units)] /\ sent \in [Incs -> Seq(Units)]
         /\ DOMAIN got = Incs /\ cut \subseteq Incs /\ frames \in [Incs -> 0 .. MaxFrames]
         /\ rcv[i] \in RcvType /\ stream[i] \in Seq(Units) /\ sent[i] \in Seq(Units)
         /\ rcv[i].pos \in Nat /\ Len(rcv[i].in) \in Nat /\ rcv[i].pos <= Len(rcv[i].in)
         /\ job[i].pc \in Waiting => rcv[i].in = <<>>
         /\ i \notin cut => Flows(rcv[i], stream[i], got[i], sent[i])
<1>1. StreamsInv /\ FlowInv
  BY DEF IInv
<1>2. rcv[i] \in RcvType /\ stream[i] \in Seq(Units) /\ sent[i] \in Seq(Units) /\ rcv[i].pos <= Len(rcv[i].in)
  BY <1>1 DEF StreamsInv
<1>3. rcv[i].pos \in Nat /\ Len(rcv[i].in) \in Nat
  BY <1>2, LenProperties DEF RcvType
<1>4. QED
  BY <1>1, <1>2, <1>3 DEF StreamsInv, FlowInv

\* A step that is about one node.
LEMMA FlowChanged ==
  ASSUME IInv, NEW i \in Incs,
         \A j \in Incs : j # i => /\ rcv'[j] = rcv[j] /\ stream'[j] = stream[j] /\ got'[j] = got[j] /\ sent'[j] = sent[j]
                                  /\ job'[j] = job[j] /\ (j \in cut' <=> j \in cut),
         job'[i].pc \in Waiting => rcv'[i].in = <<>>,
         i \notin cut' => Flows(rcv'[i], stream'[i], got'[i], sent'[i])
  PROVE  FlowInv'
<1> SUFFICES ASSUME NEW j \in Incs
             PROVE  /\ job'[j].pc \in Waiting => rcv'[j].in = <<>>
                    /\ j \notin cut' => Flows(rcv'[j], stream'[j], got'[j], sent'[j])
  BY DEF FlowInv
<1>1. CASE j = i
  BY <1>1
<1>2. CASE j # i
  BY <1>2, FlowKnown
<1>3. QED
  BY <1>1, <1>2

\* A wrong use of memory leaves what was sent, read and given alone.
LEMMA FlowFaults ==
  ASSUME IInv, UNCHANGED <<reading, job>>
  PROVE  FlowInv'
<1>1. FlowInv /\ UNCHANGED reading
  BY DEF IInv
<1>2. QED
  BY <1>1, FlowKept

\* ne_doip_connection_read
LEMMA FlowRead ==
  ASSUME IInv, NEW i \in Incs, NEW k \in 1 .. ReadMax, Read(i, k)
  PROVE  FlowInv'
<1>1. CASE node[i].conn = "freed"
  <2>1. UNCHANGED <<reading, job>>
    BY <1>1 DEF Read, Fault, reading
  <2>2. QED
    BY <2>1, FlowFaults
<1>2. CASE node[i].conn # "freed"
  <2>1. PICK in : in = SubSeq(stream[i], 1, k)
    OBVIOUS
  <2>2. PICK rest : rest = SubSeq(stream[i], k + 1, Len(stream[i]))
    OBVIOUS
  <2>3. PICK n : n = [rcv[i] EXCEPT !.in = in, !.pos = 0]
    OBVIOUS
  <2>4. /\ job[i].pc = "blocked" /\ k \in 1 .. Len(stream[i])
        /\ stream' = [stream EXCEPT ![i] = rest] /\ Goto(i, "unpack")
        /\ rcv' = [rcv EXCEPT ![i].in = in, ![i].pos = 0] /\ UNCHANGED <<sent, got>>
        /\ cut' = IF \E p \in 2 .. k : IsHead(in[p]) /\ p + in[p][3] > k THEN cut \cup {i} ELSE cut
    BY <1>2, <2>1, <2>2 DEF Read
  <2>5. rcv' = [rcv EXCEPT ![i] = n]
    BY <2>3, <2>4
  <2>6. rcv'[i] = n /\ stream'[i] = rest /\ sent'[i] = sent[i] /\ got'[i] = got[i]
    BY <2>4, <2>5, FlowKnown
  <2>7. job'[i].pc = "unpack" /\ \A j \in Incs : j # i => job'[j] = job[j]
    <3>1. i \in Threads /\ Incs \subseteq Threads /\ "unpack" \in AppPcs \cup ReaderPcs
      BY Kept DEF ReaderPcs
    <3>2. job'[i] = [pc |-> "unpack", i |-> job[i].i] /\ \A u \in Threads : u # i => job'[u] = job[u]
      BY <2>4, <3>1, GotoGoes
    <3>3. QED
      BY <3>1, <3>2
  <2>8. \A j \in Incs : j # i => /\ rcv'[j] = rcv[j] /\ stream'[j] = stream[j] /\ got'[j] = got[j] /\ sent'[j] = sent[j]
                                 /\ job'[j] = job[j] /\ (j \in cut' <=> j \in cut)
    BY <2>4, <2>5, <2>7, FlowKnown
  <2>9. ASSUME i \notin cut' PROVE Flows(n, rest, got[i], sent[i])
    <3>1. i \notin cut /\ ~\E p \in 2 .. k : IsHead(in[p]) /\ p + in[p][3] > k
      BY <2>4, <2>9
    <3>2. rcv[i].in = <<>>
      BY <2>4, FlowKnown DEF Waiting
    <3>3. rcv[i].pos = 0
      BY <3>2, FlowKnown
    <3>4. ASSUME NEW p \in 2 .. k, IsHead(in[p]) PROVE p + in[p][3] <= k
      <4>1. k \in Nat /\ p \in 1 .. Len(stream[i]) /\ p \in 1 .. k /\ p \in Nat
        BY <2>4, FlowKnown, LenProperties
      <4>2. in[p] = stream[i][p]
        <5>1. PICK w : w = stream[i]
          OBVIOUS
        <5>2. w \in Seq(Units) /\ in = SubSeq(w, 1, k) /\ k \in 1 .. Len(w) /\ Len(w) \in Nat
          BY <2>1, <2>4, <5>1, FlowKnown, LenProperties
        <5>3. Piece(in, w, 0, k)
          BY <4>1, <5>2, PieceIs
        <5>4. QED
          BY <4>1, <5>1, <5>3 DEF Piece
      <4>3. stream[i][p] \in Units
        BY <4>1, FlowKnown, ElementOfSeq
      <4>4. PICK m \in Nat : m = in[p][3]
        <5>1. in[p][3] \in Lengths
          BY <4>2, <4>3 DEF Units
        <5>2. QED
          BY <5>1, StreamNumbers
      <4>5. ~(p + m > k)
        BY <3>1, <3>4, <4>4
      <4>6. QED
        BY <4>1, <4>4, <4>5
    <3>5. QED
      BY <2>1, <2>2, <2>3, <2>4, <3>1, <3>2, <3>3, <3>4, FlowKnown, ReadFlows
  <2>10. QED
    BY <2>6, <2>7, <2>8, <2>9, FlowChanged DEF Waiting
<1>3. QED
  BY <1>1, <1>2

\* ne_doip_node_unpack
LEMMA FlowUnpack ==
  ASSUME IInv, NEW i \in Incs, Unpack(i)
  PROVE  FlowInv'
<1>1. UNCHANGED <<stream, sent, cut>> /\ job[i].pc = "unpack"
  BY DEF Unpack
<1>2. "top" \in AppPcs \cup ReaderPcs /\ "callback" \in AppPcs \cup ReaderPcs /\ i \in Threads /\ Incs \subseteq Threads
  BY Kept DEF ReaderPcs
<1>3. CASE node[i].conn = "freed"
  <2>1. UNCHANGED <<reading, job>>
    BY <1>3 DEF Unpack, Fault, reading
  <2>2. QED
    BY <2>1, FlowFaults
<1>4. CASE node[i].conn # "freed" /\ rcv[i].pos = Len(rcv[i].in)
  <2>1. PICK n : n = [rcv[i] EXCEPT !.in = <<>>, !.pos = 0]
    OBVIOUS
  <2>2. rcv' = [rcv EXCEPT ![i].in = <<>>, ![i].pos = 0] /\ Goto(i, "top") /\ UNCHANGED got
    BY <1>4 DEF Unpack
  <2>3. rcv' = [rcv EXCEPT ![i] = n]
    BY <2>1, <2>2
  <2>4. rcv'[i] = n /\ \A j \in Incs : j # i => rcv'[j] = rcv[j]
    BY <2>3, FlowKnown
  <2>5. \A u \in Threads : u # i => job'[u] = job[u]
    BY <1>2, <2>2, GotoGoes
  <2>6. n.in = <<>>
    BY <2>1, FlowKnown DEF RcvType
  <2>7. i \notin cut => Flows(n, stream[i], got[i], sent[i])
    BY <1>4, <2>1, FlowKnown, TopFlows
  <2>8. QED
    BY <1>1, <1>2, <2>2, <2>4, <2>5, <2>6, <2>7, FlowChanged
<1>5. CASE node[i].conn # "freed" /\ rcv[i].pos # Len(rcv[i].in)
  <2>1. PICK n : n = Unpacked(rcv[i]).r
    OBVIOUS
  <2>2. PICK d : d = Unpacked(rcv[i]).data
    OBVIOUS
  <2>3. rcv' = [rcv EXCEPT ![i] = n] /\ got' = [got EXCEPT ![i] = @ \o d] /\ (Goto(i, "callback") \/ UNCHANGED job)
    BY <1>5, <2>1, <2>2 DEF Unpack
  <2>4. /\ rcv'[i] = n /\ \A j \in Incs : j # i => rcv'[j] = rcv[j]
        /\ got'[i] = got[i] \o d /\ \A j \in Incs : j # i => got'[j] = got[j]
    BY <2>3, FlowKnown
  <2>5. job'[i].pc \in {"callback", "unpack"} /\ \A j \in Incs : j # i => job'[j] = job[j]
    <3>1. CASE Goto(i, "callback")
      <4>1. job'[i] = [pc |-> "callback", i |-> job[i].i] /\ \A u \in Threads : u # i => job'[u] = job[u]
        BY <1>2, <3>1, GotoGoes
      <4>2. QED
        BY <1>2, <4>1
    <3>2. CASE UNCHANGED job
      BY <1>1, <3>2
    <3>3. QED
      BY <2>3, <3>1, <3>2
  <2>6. i \notin cut => Flows(n, stream[i], got[i] \o d, sent[i])
    <3>1. rcv[i].pos < Len(rcv[i].in)
      BY <1>5, FlowKnown
    <3>2. QED
      BY <2>1, <2>2, <3>1, FlowKnown, UnpackFlows
  <2>7. QED
    BY <1>1, <2>4, <2>5, <2>6, FlowChanged DEF Waiting
<1>6. QED
  BY <1>3, <1>4, <1>5

\* The server sends.
LEMMA FlowSend ==
  ASSUME IInv, NEW i \in Incs, NEW len \in Lengths, Send(i, len)
  PROVE  FlowInv'
<1>1. PICK m : m = Frame(Len(sent[i]), len)
  OBVIOUS
<1>2. PICK l : l = Load(Len(sent[i]), len)
  OBVIOUS
<1>3. /\ UNCHANGED <<rcv, got, cut, job>>
      /\ stream' = [stream EXCEPT ![i] = @ \o m] /\ sent' = [sent EXCEPT ![i] = @ \o l]
  BY <1>1, <1>2 DEF Send
<1>4. /\ stream'[i] = stream[i] \o m /\ sent'[i] = sent[i] \o l
      /\ \A j \in Incs : j # i => stream'[j] = stream[j] /\ sent'[j] = sent[j]
  BY <1>3, FlowKnown
<1>5. i \notin cut => Flows(rcv[i], stream[i] \o m, got[i], sent[i] \o l)
  BY <1>1, <1>2, FlowKnown, SendFlows
<1>6. QED
  BY <1>3, <1>4, <1>5, FlowKnown, FlowChanged

\* ne_doip_client_connect makes a node of which the reader has not begun.
LEMMA FlowConnect ==
  ASSUME IInv, NEW a \in Apps, Connect(a)
  PROVE  FlowInv'
<1>1. FlowInv /\ UNCHANGED reading
  BY DEF IInv, Connect
<1>2. a \notin Incs /\ a \in Threads /\ Incs \subseteq Threads /\ job \in [Threads -> JobType]
  BY Kept
<1>3. ASSUME NEW i \in Incs, node[i].at = "none",
             job' = [job EXCEPT ![a] = [pc |-> "list", i |-> i], ![i] = [pc |-> "top", i |-> i]]
      PROVE  FlowInv'
  <2>1. job[i].pc = "idle"
    <3>1. Stage(i)
      BY DEF IInv, OwnersInv
    <3>2. QED
      BY <1>3, <3>1 DEF Stage
  <2>2. \A j \in Incs : j # i => job'[j] = job[j]
    BY <1>2, <1>3
  <2>3. \A j \in Incs : job'[j].pc \in Waiting => job[j].pc \in Waiting
    BY <2>1, <2>2 DEF Waiting
  <2>4. QED
    BY <1>1, <2>3, FlowKept
<1>4. CASE job' = [job EXCEPT ![a] = Idle]
  <2>1. \A j \in Incs : job'[j] = job[j]
    BY <1>2, <1>4
  <2>2. QED
    BY <1>1, <2>1, FlowKept
<1>5. QED
  BY <1>3, <1>4 DEF Connect

\* The steps of an application thread that move only its own place.
LEMMA FlowApps ==
  ASSUME IInv, NEW a \in Apps, UNCHANGED reading, \A j \in Incs : job'[j] = job[j]
  PROVE  FlowInv'
<1>1. FlowInv
  BY DEF IInv
<1>2. QED
  BY <1>1, FlowKept

\* The reader's other steps: where it waits for a read it has waited for one.
LEMMA FlowReader ==
  ASSUME IInv, NEW i \in Incs, Top(i) \/ Enter(i) \/ ReadEof(i) \/ Callback(i)
  PROVE  FlowInv'
<1>1. UNCHANGED reading
  BY DEF Top, Enter, ReadEof, Callback
<1>2. i \in Threads
  BY Kept
<1>3. ASSUME UNCHANGED job PROVE FlowInv'
  BY <1>1, <1>3, FlowFaults
<1>4. ASSUME NEW pc \in {"read", "blocked", "top", "shut", "ask", "unpack"}, Goto(i, pc),
             pc \in Waiting => job[i].pc \in Waiting
      PROVE  FlowInv'
  <2>1. pc \in AppPcs \cup ReaderPcs
    BY DEF ReaderPcs
  <2>2. QED
    BY <1>1, <1>2, <1>4, <2>1, FlowPasses
<1>5. CASE Top(i)
  <2>1. job[i].pc = "top" /\ (UNCHANGED job \/ Goto(i, "read"))
    BY <1>5 DEF Top, Fault
  <2>2. QED
    BY <1>3, <1>4, <2>1 DEF Waiting
<1>6. CASE Enter(i)
  <2>1. job[i].pc = "read" /\ (UNCHANGED job \/ Goto(i, "blocked") \/ Goto(i, "top"))
    BY <1>6 DEF Enter, Fault
  <2>2. QED
    BY <1>3, <1>4, <2>1 DEF Waiting
<1>7. CASE ReadEof(i)
  <2>1. UNCHANGED job \/ Goto(i, "shut")
    BY <1>7 DEF ReadEof, Fault
  <2>2. QED
    BY <1>3, <1>4, <2>1 DEF Waiting
<1>8. CASE Callback(i)
  <2>1. Goto(i, "ask") \/ Goto(i, "unpack")
    BY <1>8 DEF Callback
  <2>2. QED
    BY <1>4, <2>1 DEF Waiting
<1>9. QED
  BY <1>5, <1>6, <1>7, <1>8

\* The other steps of an application thread change no job but its own.
LEMMA AppsOwn ==
  ASSUME IInv, NEW a \in Apps, fault = None,
         \/ Create(a) \/ Ask(a) \/ Destroy(a) \/ List(a) \/ Join(a) \/ LastNode(a)
         \/ (\E pc, next : Regist(a, pc, next)) \/ WriteRegist(a) \/ WriteConf(a)
  PROVE  UNCHANGED reading /\ \A j \in Incs : job'[j] = job[j]
<1>1. a \notin Incs /\ a \in Threads /\ Incs \subseteq Threads /\ job \in [Threads -> JobType]
  BY Kept
<1>2. UNCHANGED reading
  BY DEF Create, Ask, Destroy, List, Join, LastNode, Regist, WriteRegist, WriteConf
<1>3. ASSUME NEW e, job' = [job EXCEPT ![a] = e] PROVE \A j \in Incs : job'[j] = job[j]
  BY <1>1, <1>3
<1>4. ASSUME NEW pc, Goto(a, pc) PROVE \A j \in Incs : job'[j] = job[j]
  BY <1>1, <1>4 DEF Goto
<1>5. ASSUME Finish(a) PROVE \A j \in Incs : job'[j] = job[j]
  BY <1>3, <1>5 DEF Finish
<1>6. ASSUME UNCHANGED job PROVE \A j \in Incs : job'[j] = job[j]
  BY <1>6
<1>7. CASE Create(a) \/ Ask(a) \/ Join(a)
  BY <1>4, <1>7 DEF Create, Ask, Join
<1>8. CASE Destroy(a)
  BY <1>3, <1>8 DEF Destroy, Start
<1>9. CASE List(a) \/ LastNode(a)
  <2>1. UNCHANGED job \/ Goto(a, "regist") \/ Finish(a)
    BY <1>9 DEF List, LastNode, Fault
  <2>2. QED
    BY <1>2, <1>4, <1>5, <1>6, <2>1
<1>10. ASSUME NEW pc, NEW next, Regist(a, pc, next) PROVE \A j \in Incs : job'[j] = job[j]
  <2>1. UNCHANGED job \/ Goto(a, next) \/ job' = [job EXCEPT ![a] = Idle]
    BY <1>10 DEF Regist, Fault
  <2>2. QED
    BY <1>3, <1>4, <1>6, <2>1
<1>11. CASE WriteRegist(a) \/ WriteConf(a)
  <2>1. Write(a, "create") /\ (fault' = None => Goto(a, "conf") \/ Finish(a))
    BY <1>11 DEF WriteRegist, WriteConf
  <2>2. UNCHANGED job \/ fault' = None
    BY <2>1 DEF Write, Fault
  <2>3. QED
    BY <1>2, <1>4, <1>5, <1>6, <2>1, <2>2
<1>12. QED
  BY <1>2, <1>7, <1>8, <1>9, <1>10, <1>11

\* Every step keeps the flow.
LEMMA FlowStep ==
  ASSUME IInv, Next
  PROVE  FlowInv'
<1>1. fault = None
  BY DEF Next
<1>2. ASSUME NEW t \in Threads, Compose(t) \/ WriteRequest(t) PROVE FlowInv'
  BY <1>1, <1>2, FlowRequests
<1>3. ASSUME NEW t \in Threads, NEW next \in {"join", "ended"}, Shut(t, next) \/ FreeConn(t, next) \/ SetNull(t, next)
      PROVE  FlowInv'
  BY <1>3, FlowCloses
<1>4. ASSUME NEW a \in Apps, Create(a) \/ Ask(a) \/ Destroy(a) \/ AppStep(a)
      PROVE  FlowInv'
  <2>1. a \in Threads
    BY Kept
  <2>2. ASSUME \/ Create(a) \/ Ask(a) \/ Destroy(a) \/ List(a) \/ Join(a) \/ LastNode(a)
               \/ (\E pc, next : Regist(a, pc, next)) \/ WriteRegist(a) \/ WriteConf(a)
        PROVE  FlowInv'
    BY <1>1, <2>2, AppsOwn, FlowApps
  <2>3. CASE Connect(a)
    BY <2>3, FlowConnect
  <2>4. CASE Compose(a) \/ WriteRequest(a)
    BY <1>2, <2>1, <2>4
  <2>5. CASE Shut(a, "join") \/ FreeConn(a, "join") \/ SetNull(a, "join")
    BY <1>3, <2>1, <2>5
  <2>6. QED
    BY <1>4, <2>2, <2>3, <2>4, <2>5 DEF AppStep
<1>5. ASSUME NEW i \in Incs, ReaderStep(i)
      PROVE  FlowInv'
  <2>1. i \in Threads
    BY Kept
  <2>2. CASE Top(i) \/ Enter(i) \/ ReadEof(i) \/ Callback(i)
    BY <2>2, FlowReader
  <2>3. CASE (\E k \in 1 .. ReadMax : Read(i, k)) \/ Unpack(i)
    BY <2>3, FlowRead, FlowUnpack
  <2>4. CASE Compose(i) \/ WriteRequest(i)
    BY <1>2, <2>1, <2>4
  <2>5. CASE Shut(i, "ended") \/ FreeConn(i, "ended") \/ SetNull(i, "ended")
    BY <1>3, <2>1, <2>5
  <2>6. QED
    BY <1>5, <2>2, <2>3, <2>4, <2>5 DEF ReaderStep
<1>6. ASSUME NEW i \in Incs, Close(i) \/ \E len \in Lengths : Send(i, len)
      PROVE  FlowInv'
  <2>1. CASE Close(i)
    <3>1. UNCHANGED <<reading, job>>
      BY <2>1 DEF Close
    <3>2. QED
      BY <3>1, FlowFaults
  <2>2. QED
    BY <1>6, <2>1, FlowSend
<1>7. QED
  BY <1>4, <1>5, <1>6 DEF Next

\* The invariant holds at first.
LEMMA InitInv == Init => IInv
<1> SUFFICES ASSUME Init PROVE IInv
  OBVIOUS
<1>1. StreamsInv
  <2>1. <<>> \in Seq(Units) /\ Len(<<>>) = 0
    OBVIOUS
  <2>2. Empty \in RcvType /\ Empty.in = <<>> /\ Empty.pos = 0
    <3>1. 0 \in 0 .. Modulus - 1
      BY StreamNumbers
    <3>2. QED
      BY <2>1, <3>1 DEF Empty, RcvType
  <2>3. QED
    BY <2>1, <2>2, StreamNumbers DEF Init, StreamsInv
<1>2. Idle \in JobType /\ Idle.pc = "idle"
  BY Numbers DEF Idle, JobType, AppPcs
<1>3. Fresh \in NodeType /\ Fresh.at = "none"
  <2>1. <<None, "create">> \in (Threads \cup {None}) \X {"create", "request"}
    OBVIOUS
  <2>2. QED
    BY <2>1 DEF Fresh, NodeType
<1>4. Len(list) = 0 /\ list \in Seq(Incs)
  BY DEF Init
<1>5. \A t \in Threads : job[t] = Idle
  BY DEF Init
<1>6. Apps \subseteq Threads /\ Incs \subseteq Threads
  BY DEF Threads
<1>7. TypesInv
  BY <1>2, <1>3, <1>4 DEF Init, TypesInv
<1>8. \A t \in Threads : AtPlace(t, job[t]) /\ Writer(t)
  BY <1>2, <1>5 DEF AtPlace, Writer, AppPcs, ReaderPcs
<1>9. \A a \in Apps : Destroyer(a) /\ Maker(a)
  BY <1>2, <1>5, <1>6 DEF Destroyer, Maker, Destroying
<1>10. \A i \in Incs : Stage(i)
  <2>1. \A i \in Incs : node[i] = Fresh
    BY DEF Init
  <2>2. QED
    BY <1>2, <1>3, <1>4, <1>5, <1>6, <2>1 DEF Stage
<1>11. MessagesIntact
  BY DEF Init, MessagesIntact
<1>12. FlowInv
  <2> SUFFICES ASSUME NEW i \in Incs PROVE rcv[i].in = <<>> /\ Flows(rcv[i], stream[i], got[i], sent[i])
    BY DEF FlowInv
  <2>1. PICK e : e = <<>>
    OBVIOUS
  <2>2. e \in Seq(Units) /\ Len(e) = 0 /\ e \o e = e
    BY <2>1
  <2>3. stream[i] = e /\ sent[i] = e /\ got[i] = e /\ rcv[i] = Empty
    BY <2>1 DEF Init
  <2>4. Empty.in = e /\ Empty.pos = 0 /\ Empty.total = 0 /\ Empty.cur = 0
    BY <2>1 DEF Empty
  <2>5. Begins(e, e) /\ Chained(e, 0) /\ Placed(e, e) /\ Stands(Empty, e, 0, 0) /\ Fits(Empty)
    BY <2>2, <2>4 DEF Begins, Chained, Placed, Stands, Fits
  <2>6. Flows(Empty, e, e, e)
    BY <2>2, <2>4, <2>5 DEF Flows
  <2>7. QED
    BY <2>1, <2>3, <2>4, <2>6
<1>13. QED
  BY <1>1, <1>4, <1>7, <1>8, <1>9, <1>10, <1>11, <1>12 DEF IInv, OwnersInv

\* The invariant is inductive.
LEMMA StepInv == IInv /\ [Next]_vars => IInv'
<1> SUFFICES ASSUME IInv, [Next]_vars PROVE IInv'
  OBVIOUS
<1>1. CASE Next
  BY <1>1, OwnersStep, IntactStep, StreamsStep, FlowStep DEF IInv
<1>2. CASE UNCHANGED vars
  <2>1. StreamsInv'
    BY <1>2 DEF IInv, StreamsInv, vars
  <2>2. TypesInv'
    BY <1>2 DEF IInv, TypesInv, vars
  <2>3. OwnersInv'
    BY <1>2 DEF IInv, OwnersInv, AtPlace, Writer, Destroyer, Maker, Stage, vars
  <2>4. FlowInv'
    BY <1>2 DEF IInv, FlowInv, vars
  <2>5. QED
    BY <1>2, <2>1, <2>2, <2>3, <2>4 DEF IInv, MessagesIntact, vars
<1>3. QED
  BY <1>1, <1>2

\* The invariant holds in every state.
LEMMA Invariant == Spec => []IInv
BY InitInv, StepInv, PTL DEF Spec

\* What the application has is a prefix of what was sent.
LEMMA PrefixIs ==
  ASSUME NEW g \in Seq(Units), NEW t \in Seq(Units), Begins(g, t)
  PROVE  IsPrefix(g, t)
<1>1. Len(g) \in Nat /\ Len(t) \in Nat /\ Len(g) <= Len(t) /\ \A p \in 1 .. Len(g) : g[p] = t[p]
  BY LenProperties DEF Begins
<1>2. \A p \in 1 .. Len(g) : t[p] \in Units /\ g[p] \in Units
  BY <1>1, ElementOfSeq
<1>3. PICK a : a = SubSeq(g, 1, Len(g))
  OBVIOUS
<1>4. PICK b : b = SubSeq(t, 1, Len(g))
  OBVIOUS
<1>5. a \in Seq(Units) /\ Len(a) = Len(g) /\ \A p \in 1 .. Len(g) : a[p] = g[p]
  BY <1>1, <1>2, <1>3, SubSeqProperties
<1>6. b \in Seq(Units) /\ Len(b) = Len(g) /\ \A p \in 1 .. Len(g) : b[p] = t[p]
  BY <1>1, <1>2, <1>4, SubSeqProperties
<1>7. a = b
  BY <1>1, <1>5, <1>6, SeqEqual
<1>8. QED
  BY <1>1, <1>3, <1>4, <1>7 DEF IsPrefix

\* It is all of it if it is as long.
LEMMA BegunIsWhole ==
  ASSUME NEW g \in Seq(Units), NEW t \in Seq(Units), Begins(g, t), Len(g) = Len(t)
  PROVE  g = t
<1>1. \A p \in 1 .. Len(g) : g[p] = t[p]
  BY DEF Begins
<1>2. QED
  BY <1>1, SeqEqual

\* What TypeOK says follows.
LEMMA TypesFollow == IInv => TypeOK
<1> SUFFICES ASSUME IInv PROVE TypeOK
  OBVIOUS
<1>1. /\ \A t \in Threads : AtPlace(t, job[t])
      /\ \A i \in Incs : Stage(i)
  BY DEF IInv, OwnersInv
<1>2. \A i \in Incs : i \in ToSet(list) <=> \E p \in 1 .. Len(list) : list[p] = i
  BY Kept, LenProperties DEF ToSet
<1>3. /\ frames \in [Incs -> 0 .. MaxFrames]
      /\ rcv \in [Incs -> RcvType] /\ \A i \in Incs : rcv[i].pos <= Len(rcv[i].in) /\ Len(rcv[i].in) <= ReadMax
      /\ cut \subseteq Incs
  BY DEF IInv, StreamsInv
<1>4. ASSUME NEW i \in Incs
      PROVE  /\ frames[i] \in 0 .. MaxFrames
             /\ rcv[i].pos \in 0 .. Len(rcv[i].in) /\ Len(rcv[i].in) <= ReadMax
             /\ rcv[i].total \in 0 .. Modulus - 1 /\ rcv[i].cur \in 0 .. Modulus - 1
  <2>1. rcv[i] \in RcvType /\ Len(rcv[i].in) \in Nat
    BY <1>3, LenProperties DEF RcvType
  <2>2. QED
    BY <1>3, <2>1 DEF RcvType
<1>5. \A t \in Threads : job[t].i \in 0 .. MaxNodes
  BY Kept DEF JobType
<1>6. ASSUME NEW i \in Incs
      PROVE  /\ job[i].pc \in ReaderPcs
             /\ job[i].pc = "idle" <=> node[i].at = "none"
             /\ node[i].at = "listed" <=> i \in ToSet(list)
             /\ node[i].at = "freed" => job[i].pc = "ended"
  BY <1>1, <1>2, Kept DEF AtPlace, Stage
<1>7. node \in [Incs -> NodeType]
  BY Kept
<1>8. QED
  BY <1>3, <1>4, <1>5, <1>6, <1>7, Kept DEF TypeOK, NodeType, ReaderPcs

-----------------------------------------------------------------------------
\* Theorems

\* The variables of the library and of its readers keep their types, for any threads, nodes,
\* lengths and reads; a node is in the list exactly while it is listed, and it is freed only
\* when its reader has ended.
THEOREM TypeCorrect == Spec => []TypeOK
BY Invariant, TypesFollow, PTL

\* Two messages are mixed up only if one of them is a registration, which is composed and
\* written without the lock: requests, from any threads, callbacks included, never mix.
THEOREM MessagesCorrect == Spec => []MessagesIntact
<1>1. IInv => MessagesIntact
  BY DEF IInv
<1>2. QED
  BY <1>1, Invariant, PTL

\* The application is given the payload of the messages as the server sent it, in its order,
\* nothing twice and nothing left out, and has all of it when everything was read; but for a
\* node of which a read ended within a message that began within that read.
THEOREM PayloadCorrect == Spec => []PayloadWhole
<1>1. IInv => PayloadWhole
  <2> SUFFICES ASSUME IInv, NEW i \in Incs \ cut
               PROVE  /\ IsPrefix(got[i], sent[i])
                      /\ stream[i] = <<>> /\ rcv[i].in = <<>> => got[i] = sent[i]
    BY DEF PayloadWhole
  <2>1. PICK g : g = got[i]
    OBVIOUS
  <2>2. PICK t : t = sent[i]
    OBVIOUS
  <2>3. t \in Seq(Units) /\ rcv[i].pos \in Nat /\ rcv[i].pos <= Len(rcv[i].in) /\ Flows(rcv[i], stream[i], g, t)
    BY <2>1, <2>2, FlowKnown
  <2>4. g \in Seq(Units) /\ Begins(g, t) /\ Stands(rcv[i], rcv[i].in \o stream[i], Len(g), Len(t))
    BY <2>3 DEF Flows
  <2>5. IsPrefix(g, t)
    BY <2>3, <2>4, PrefixIs
  <2>6. ASSUME stream[i] = <<>>, rcv[i].in = <<>> PROVE g = t
    <3>1. rcv[i].pos = 0
      BY <2>3, <2>6
    <3>2. rcv[i].in \o stream[i] = <<>>
      BY <2>6
    <3>3. Len(g) = Len(t)
      BY <2>4, <3>1, <3>2 DEF Stands
    <3>4. QED
      BY <2>3, <2>4, <3>3, BegunIsWhole
  <2>7. QED
    BY <2>1, <2>2, <2>5, <2>6
<1>2. QED
  BY <1>1, Invariant, PTL
=============================================================================
