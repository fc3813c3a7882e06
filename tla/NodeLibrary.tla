--------------------------- MODULE NodeLibrary ---------------------------
(***************************************************************************)
(* The client library of local nodes (ne_doip_node.c and                   *)
(* ne_doip_node_manager.c): application threads create and destroy a node  *)
(* and send through it; a reader thread per node takes the messages of the *)
(* server apart and calls the application back.                            *)
(*                                                                         *)
(* One logical address is modelled: a node is an incarnation of it. All    *)
(* entry points but the reader take node_list_sync; ne_doip_node_create    *)
(* gives it back before it writes, ne_doip_node_destroy keeps it while it  *)
(* waits for the reader's end.                                             *)
(***************************************************************************)
EXTENDS Integers, Sequences, FiniteSets, SequencesExt

CONSTANTS
    Apps,       \* application threads
    MaxNodes,   \* bound: how many times the node may be created
    Lengths,    \* payload lengths of diagnostic messages; 0 is a confirmation
    MaxFrames,  \* bound: messages from the server to a node
    ReadMax,    \* bound: what one read returns
    Replies,    \* whether the application sends from its callback
    UserConf,   \* whether it registers a callback for confirmations
    Modulus,    \* 2^32: lengths are unsigned
    None

Incs    == 1 .. MaxNodes
Threads == Apps \cup Incs      \* the reader of a node has the node's number

ASSUME NodeAssumption ==
    /\ MaxNodes \in Nat /\ MaxFrames \in Nat /\ ReadMax \in Nat /\ Modulus \in Nat \ {0}
    /\ Lengths \subseteq Nat /\ \A l \in Lengths : l < Modulus
    /\ Apps \cap Incs = {} /\ None \notin Threads /\ Replies \in BOOLEAN /\ UserConf \in BOOLEAN

VARIABLES
    lib,     \* whether g_node_list is there
    list,    \* g_node_list->node_list
    lock,    \* the holder of node_list_sync
    node,    \* the nodes: memory, connection, the pointer to it, the server's end, out
    stream,  \* what the server has sent to a node that was not read yet
    frames,  \* history: how many messages the server has sent to a node
    sent,    \* history: the payload of these messages
    rcv,     \* what the reader works on: connection->in, pos, diag_data_*
    got,     \* history: the payload a node's application was given
    cut,     \* history: nodes for which a read ended in a message that began in its middle
    job,     \* what a thread does, and with which node
    fault,   \* the wrong use of memory that ends the process
    garbled  \* history: pairs of operations of which one sent what the other had composed

vars == <<lib, list, lock, node, stream, frames, sent, rcv, got, cut, job, fault, garbled>>

Idle   == [pc |-> "idle", i |-> 0]
Fresh  == [at |-> "none", conn |-> "none", ptr |-> FALSE, peer |-> "open", known |-> FALSE, out |-> <<None, "create">>]
Empty  == [in |-> <<>>, pos |-> 0, total |-> 0, cur |-> 0]

\* Types; also, a node is in the list exactly while it is listed, and it is freed only when
\* its reader, whose argument it is, has ended.
TypeOK ==
    /\ lib \in BOOLEAN /\ list \in Seq(Incs) /\ lock \in Threads \cup {None}
    /\ node \in [Incs -> [at : {"none", "made", "listed", "removed", "freed"}, conn : {"none", "open", "closed", "freed"},
                          ptr : BOOLEAN, peer : {"open", "closed"}, known : BOOLEAN,
                          out : (Threads \cup {None}) \X {"create", "request"}]]
    /\ \A i \in Incs :
           /\ frames[i] \in 0 .. MaxFrames
           /\ rcv[i].pos \in 0 .. Len(rcv[i].in) /\ Len(rcv[i].in) <= ReadMax
           /\ rcv[i].total \in 0 .. Modulus - 1 /\ rcv[i].cur \in 0 .. Modulus - 1
    /\ \A t \in Threads : job[t].i \in 0 .. MaxNodes
    /\ \A i \in Incs :
           /\ job[i].pc \in {"idle", "top", "read", "blocked", "unpack", "callback", "ask", "write", "shut", "free", "null", "ended"}
           /\ job[i].pc = "idle" <=> node[i].at = "none"
           /\ node[i].at = "listed" <=> i \in ToSet(list)
           /\ node[i].at = "freed" => job[i].pc = "ended"
    /\ cut \subseteq Incs /\ fault \in {None, "freed", "null", "twice"}
    /\ garbled \subseteq SUBSET {"create", "request"}

Init ==
    /\ lib = FALSE /\ list = <<>> /\ lock = None
    /\ node = [i \in Incs |-> Fresh]
    /\ stream = [i \in Incs |-> <<>>] /\ frames = [i \in Incs |-> 0] /\ sent = [i \in Incs |-> <<>>]
    /\ rcv = [i \in Incs |-> Empty] /\ got = [i \in Incs |-> <<>>] /\ cut = {}
    /\ job = [t \in Threads |-> Idle]
    /\ fault = None /\ garbled = {}

-----------------------------------------------------------------------------
\* Helpers

reading == <<stream, frames, sent, rcv, got, cut>>

Goto(t, pc) == job' = [job EXCEPT ![t].pc = pc]
Start(t, pc, i) == job' = [job EXCEPT ![t] = [pc |-> pc, i |-> i]]
EndsReader(t) == job' = [job EXCEPT ![t] = Idle]

Finish(t) == job' = [job EXCEPT ![t] = IF t \in Apps THEN Idle ELSE [pc |-> "unpack", i |-> t]]
Fault(why) == fault' = why /\ UNCHANGED <<job, node, garbled>>

Free == lock = None

\* ne_doip_node_list_find_by_address: the first node of the list, 0 if none
Found == IF list = <<>> THEN 0 ELSE Head(list)

\* what a message is on the socket, its head, then its payload; b is how much payload was
\* sent before it, which tells the units of the messages apart
Load(b, len) == [k \in 1 .. len |-> <<b, k, len>>]
Frame(b, len) == <<<<b, 0, len>>>> \o Load(b, len)
IsHead(u) == u[2] = 0

-----------------------------------------------------------------------------
\* ne_doip_node_create

\* the library is made if it is not there; the address is looked up under the lock
Create(a) ==
    /\ job[a] = Idle /\ Free
    /\ \E i \in Incs : node[i].at = "none"
    /\ lib' = TRUE
    /\ Found = 0 /\ Goto(a, "connect")
    /\ UNCHANGED <<list, lock, node, reading, fault, garbled>>

\* ne_doip_client_connect: the socket, the connection, the reader
Connect(a) ==
    /\ job[a].pc = "connect"
    /\ \/ \E i \in Incs :
              /\ node[i].at = "none" /\ \A j \in 1 .. i - 1 : node[j].at # "none"
              /\ node' = [node EXCEPT ![i] = [@ EXCEPT !.at = "made", !.conn = "open", !.ptr = TRUE]]
              /\ job' = [job EXCEPT ![a] = [pc |-> "list", i |-> i], ![i] = [pc |-> "top", i |-> i]]
       \/ job' = [job EXCEPT ![a] = Idle] /\ UNCHANGED node
    /\ UNCHANGED <<lib, list, lock, reading, fault, garbled>>

List(a) ==
    LET i == job[a].i IN
    /\ job[a].pc = "list"
    /\ IF ~lib THEN Fault("null") /\ UNCHANGED list
       ELSE /\ Free
            /\ list' = Append(list, i) /\ node' = [node EXCEPT ![i].at = "listed"]
            /\ Goto(a, "regist") /\ UNCHANGED <<fault, garbled>>
    /\ UNCHANGED <<lib, lock, reading>>

\* REGIST, then REGIST_USER_CONF, are composed and written without the lock
Regist(a, pc, next) ==
    LET i == job[a].i IN
    /\ job[a].pc = pc
    /\ IF pc = "regist" /\ ~node[i].ptr THEN job' = [job EXCEPT ![a] = Idle] /\ UNCHANGED <<node, fault, garbled>>
       ELSE IF node[i].conn = "freed" THEN Fault("freed")
       ELSE /\ node' = [node EXCEPT ![i].out = <<a, "create">>]
            /\ Goto(a, next) /\ UNCHANGED <<fault, garbled>>
    /\ UNCHANGED <<lib, list, lock, reading>>

-----------------------------------------------------------------------------
\* ne_doip_connection_write of what is in connection->out, which should be what the
\* thread has composed

Write(t, kind) ==
    LET i == job[t].i IN
    IF node[i].conn = "freed" THEN Fault("freed")
    ELSE /\ garbled' = IF node[i].out # <<t, kind>> THEN garbled \cup {{kind, node[i].out[2]}} ELSE garbled
         /\ node' = [node EXCEPT ![i].known = @ \/ kind = "create"]
         /\ UNCHANGED fault

WriteRegist(a) ==
    /\ job[a].pc = "write regist"
    /\ Write(a, "create")
    /\ fault' = None => IF UserConf THEN Goto(a, "conf") ELSE Finish(a)
    /\ UNCHANGED <<lib, list, lock, reading>>

WriteConf(a) ==
    /\ job[a].pc = "write conf"
    /\ Write(a, "create")
    /\ fault' = None => Finish(a)
    /\ UNCHANGED <<lib, list, lock, reading>>

-----------------------------------------------------------------------------
\* ne_doip_node_diag_data_request, ne_doip_node_send_user_conf_result: by an application
\* thread, or by the reader from a callback

Ask(a) ==
    /\ job[a] = Idle /\ lib
    /\ Goto(a, "ask")
    /\ UNCHANGED <<lib, list, lock, node, reading, fault, garbled>>

\* the request keeps the lock until it is written
WritesUnlocked(t) == UNCHANGED lock

Locks(t) == lock' = t

Compose(t) ==
    /\ job[t].pc = "ask"
    /\ IF ~lib THEN Fault("null") /\ UNCHANGED lock
       ELSE /\ Free
            /\ IF Found = 0 \/ (Found # 0 /\ ~node[Found].ptr) THEN Finish(t) /\ UNCHANGED <<lock, node, fault, garbled>>
               ELSE IF node[Found].conn = "freed" THEN Fault("freed") /\ UNCHANGED lock
               ELSE /\ Locks(t)
                    /\ node' = [node EXCEPT ![Found].out = <<t, "request">>]
                    /\ job' = [job EXCEPT ![t] = [pc |-> "write", i |-> Found]]
                    /\ UNCHANGED <<fault, garbled>>
    /\ UNCHANGED <<lib, list, reading>>

WriteRequest(t) ==
    /\ job[t].pc = "write"
    /\ Write(t, "request")
    /\ fault' = None => Finish(t) /\ lock' = IF lock = t THEN None ELSE lock
    /\ fault' # None => UNCHANGED lock
    /\ UNCHANGED <<lib, list, reading>>

-----------------------------------------------------------------------------
\* ne_doip_node_destroy

\* the node leaves the list; the lock is kept
Destroy(a) ==
    /\ job[a] = Idle /\ lib /\ Free /\ Found # 0
    /\ lock' = a
    /\ list' = Tail(list) /\ node' = [node EXCEPT ![Found].at = "removed"]
    /\ Start(a, "shut", Found)
    /\ UNCHANGED <<lib, reading, fault, garbled>>

\* ne_doip_connection_destroy: shutdown and close
Shut(t, next) ==
    LET i == job[t].i IN
    /\ job[t].pc = "shut"
    /\ IF ~node[i].ptr THEN Goto(t, next) /\ UNCHANGED <<node, fault, garbled>>
       ELSE IF node[i].conn = "freed" THEN Fault("freed")
       ELSE node' = [node EXCEPT ![i].conn = "closed"] /\ Goto(t, "free") /\ UNCHANGED <<fault, garbled>>
    /\ UNCHANGED <<lib, list, lock, reading>>

\* free(connection), then connection = NULL
FreeConn(t, next) ==
    LET i == job[t].i IN
    /\ job[t].pc = "free"
    /\ IF ~node[i].ptr THEN Goto(t, next) /\ UNCHANGED <<node, fault, garbled>>
       ELSE IF node[i].conn = "freed" THEN Fault("twice")
       ELSE node' = [node EXCEPT ![i].conn = "freed"] /\ Goto(t, "null") /\ UNCHANGED <<fault, garbled>>
    /\ UNCHANGED <<lib, list, lock, reading>>

SetNull(t, next) ==
    /\ job[t].pc = "null"
    /\ node' = [node EXCEPT ![job[t].i].ptr = FALSE]
    /\ Goto(t, next)
    /\ UNCHANGED <<lib, list, lock, reading, fault, garbled>>

\* ne_doip_thread_stop: the reader is joined; then the node is freed and the lock given back

Joined(i) == job[i].pc = "ended"

Join(a) ==
    LET i == job[a].i IN
    /\ job[a].pc = "join" /\ Joined(i)
    /\ node' = [node EXCEPT ![i].at = "freed"]
    /\ lock' = None
    /\ Goto(a, "last")
    /\ UNCHANGED <<lib, list, reading, fault, garbled>>

\* the last node takes the library with it, without the lock
LastNode(a) ==
    /\ job[a].pc = "last"
    /\ IF ~lib THEN Fault("null") /\ UNCHANGED lib
       ELSE lib' = (list # <<>>) /\ Finish(a) /\ UNCHANGED <<node, fault, garbled>>
    /\ UNCHANGED <<list, lock, reading>>

-----------------------------------------------------------------------------
\* The server's end of the socket

Send(i, len) ==
    /\ node[i].known /\ node[i].peer = "open" /\ node[i].conn = "open" /\ frames[i] < MaxFrames
    /\ frames' = [frames EXCEPT ![i] = @ + 1]
    /\ stream' = [stream EXCEPT ![i] = @ \o Frame(Len(sent[i]), len)]
    /\ sent' = [sent EXCEPT ![i] = @ \o Load(Len(sent[i]), len)]
    /\ UNCHANGED <<lib, list, lock, node, rcv, got, cut, job, fault, garbled>>

Close(i) ==
    /\ node[i].conn = "open" /\ node[i].peer = "open"
    /\ node' = [node EXCEPT ![i].peer = "closed"]
    /\ UNCHANGED <<lib, list, lock, reading, job, fault, garbled>>

-----------------------------------------------------------------------------
\* ne_doip_pthread_proc, the reader of node i

\* ne_doip_connection_read clears connection->in
Top(i) ==
    /\ job[i].pc = "top"
    /\ IF ~node[i].ptr THEN Fault("null")
       ELSE IF node[i].conn = "freed" THEN Fault("freed")
       ELSE Goto(i, "read") /\ UNCHANGED <<node, fault, garbled>>
    /\ UNCHANGED <<lib, list, lock, reading>>

\* read blocks on an open socket; on a closed one it fails, and the loop goes on
Enter(i) ==
    /\ job[i].pc = "read"
    /\ IF node[i].conn = "freed" THEN Fault("freed")
       ELSE Goto(i, IF node[i].conn = "open" THEN "blocked" ELSE "top") /\ UNCHANGED <<node, fault, garbled>>
    /\ UNCHANGED <<lib, list, lock, reading>>

\* read returns some of what was sent; a head comes with some of its payload, because
\* the server writes them together
Read(i, k) ==
    LET in == SubSeq(stream[i], 1, k) IN
    /\ job[i].pc = "blocked" /\ k \in 1 .. Len(stream[i])
    /\ ~(IsHead(in[k]) /\ in[k][3] > 0)
    /\ IF node[i].conn = "freed" THEN Fault("freed") /\ UNCHANGED <<stream, rcv, cut>>
       ELSE /\ stream' = [stream EXCEPT ![i] = SubSeq(@, k + 1, Len(@))]
            /\ rcv' = [rcv EXCEPT ![i].in = in, ![i].pos = 0]
            /\ cut' = IF \E p \in 2 .. k : IsHead(in[p]) /\ p + in[p][3] > k THEN cut \cup {i} ELSE cut
            /\ Goto(i, "unpack") /\ UNCHANGED <<node, fault, garbled>>
    /\ UNCHANGED <<lib, list, lock, frames, sent, got>>

\* End of file: after shutdown, or when the server has closed. The number of bytes is
\* still stored in the connection.
NotWoken(i) == node[i].peer = "closed" /\ stream[i] = <<>>

AtEnd(i) == node[i].conn \in {"closed", "freed"} \/ (node[i].peer = "closed" /\ stream[i] = <<>>)

ReadEof(i) ==
    /\ job[i].pc = "blocked" /\ AtEnd(i)
    /\ IF node[i].conn = "freed" THEN Fault("freed") ELSE Goto(i, "shut") /\ UNCHANGED <<node, fault, garbled>>
    /\ UNCHANGED <<lib, list, lock, reading>>

\* ne_doip_node_unpack_exec at position pos of what was read. In the middle of a message
\* all that was read belongs to it, whatever pos is; at a head the length of what was
\* read counts from its beginning, whatever pos is.
RestOfAll(r) == r.total

Rest(r) == (r.total - r.cur + Modulus) % Modulus

MidMessage(r) ==
    IF Rest(r) > Len(r.in)
    THEN [data |-> r.in, call |-> TRUE, r |-> [r EXCEPT !.cur = (@ + Len(r.in)) % Modulus, !.pos = Len(r.in)]]
    ELSE [data |-> SubSeq(r.in, 1, Rest(r)), call |-> TRUE, r |-> [r EXCEPT !.pos = Rest(r), !.total = 0, !.cur = 0]]

AtHead(r) ==
    LET len == r.in[r.pos + 1][3]
        take == IF len > Len(r.in) - 1 THEN Len(r.in) - 1 ELSE len
        s == [r EXCEPT !.total = len, !.cur = (@ + take) % Modulus]
    IN  IF r.pos + 1 + take > Len(r.in) THEN [data |-> <<>>, call |-> FALSE, r |-> [s EXCEPT !.pos = Len(r.in)]]
        ELSE [data |-> SubSeq(r.in, r.pos + 2, r.pos + 1 + take), call |-> TRUE,
              r |-> IF s.cur = s.total THEN [s EXCEPT !.pos = @ + 1 + take, !.total = 0, !.cur = 0]
                    ELSE [s EXCEPT !.pos = @ + 1 + take]]

Unpacked(r) ==
    LET u == r.in[r.pos + 1] IN
    IF Rest(r) > 0 THEN MidMessage(r)
    ELSE IF IsHead(u) /\ u[3] > 0 THEN AtHead(r)
    ELSE IF IsHead(u) THEN [data |-> <<>>, call |-> FALSE, r |-> [r EXCEPT !.pos = @ + 1]]
    ELSE [data |-> <<>>, call |-> FALSE, r |-> [r EXCEPT !.pos = Len(r.in)]]

\* the application replies when the message is complete
Unpack(i) ==
    LET u == Unpacked(rcv[i]) IN
    /\ job[i].pc = "unpack"
    /\ IF node[i].conn = "freed" THEN Fault("freed") /\ UNCHANGED <<rcv, got>>
       ELSE IF rcv[i].pos = Len(rcv[i].in)
       THEN /\ rcv' = [rcv EXCEPT ![i].in = <<>>, ![i].pos = 0]
            /\ Goto(i, "top") /\ UNCHANGED <<got, node, fault, garbled>>
       ELSE /\ rcv' = [rcv EXCEPT ![i] = u.r]
            /\ got' = [got EXCEPT ![i] = @ \o u.data]
            /\ IF Replies /\ u.call /\ u.r.total = 0 THEN Goto(i, "callback") ELSE UNCHANGED job
            /\ UNCHANGED <<node, fault, garbled>>
    /\ UNCHANGED <<lib, list, lock, stream, frames, sent, cut>>

\* the callback calls ne_doip_node_diag_data_request
Callback(i) ==
    /\ job[i].pc = "callback"
    /\ IF lib THEN Goto(i, "ask") ELSE Goto(i, "unpack")
    /\ UNCHANGED <<lib, list, lock, node, reading, fault, garbled>>

-----------------------------------------------------------------------------

AppStep(a) ==
    \/ Connect(a) \/ List(a) \/ Regist(a, "regist", "write regist") \/ WriteRegist(a)
    \/ Regist(a, "conf", "write conf") \/ WriteConf(a) \/ Compose(a) \/ WriteRequest(a)
    \/ Shut(a, "join") \/ FreeConn(a, "join") \/ SetNull(a, "join") \/ Join(a) \/ LastNode(a)

ReaderStep(i) ==
    \/ Top(i) \/ Enter(i) \/ (\E k \in 1 .. ReadMax : Read(i, k)) \/ ReadEof(i) \/ Unpack(i) \/ Callback(i)
    \/ Compose(i) \/ WriteRequest(i) \/ Shut(i, "ended") \/ FreeConn(i, "ended") \/ SetNull(i, "ended")

Next ==
    /\ fault = None
    /\ \/ \E a \in Apps : Create(a) \/ Ask(a) \/ Destroy(a) \/ AppStep(a)
       \/ \E i \in Incs : ReaderStep(i) \/ Close(i) \/ (\E len \in Lengths : Send(i, len))

Spec == Init /\ [][Next]_vars

\* The threads run; a lock that is given back again and again is got some time.
Fairness ==
    /\ \A a \in Apps : WF_vars(fault = None /\ AppStep(a))
    /\ \A i \in Incs : WF_vars(fault = None /\ ReaderStep(i))

FairSpec == Spec /\ Fairness

-----------------------------------------------------------------------------
\* Properties

\* A message is sent as it was composed, or one of two that were mixed up is a
\* registration, which ne_doip_node_create composes and writes without the lock.
MessagesIntact == \A g \in garbled : "create" \in g

\* The application is given the payload as it was sent, nothing twice and nothing left
\* out, and all of it when everything was read, unless a read ended in the middle of a
\* message that had begun in the middle of the read.
PayloadWhole ==
    \A i \in Incs \ cut :
        /\ IsPrefix(got[i], sent[i])
        /\ stream[i] = <<>> /\ rcv[i].in = <<>> => got[i] = sent[i]

\* The reader is in a callback of the connection that a works on.
Blocked(a) == \E i \in Incs : job[a].i = i /\ job[i].pc \in {"callback", "ask"}

\* ne_doip_node_destroy returns, unless the reader is in a callback that waits for the
\* lock, or memory was used wrongly.
DestroyReturns ==
    \A a \in Apps : job[a].pc = "shut" ~> (job[a].pc = "idle" \/ fault # None \/ Blocked(a))

\* ne_doip_node.h says of ne_doip_node_destroy "The function execution returns
\* NE_DOIP_RESULT_OK successfully."
DestroyCompletes ==
    \A a \in Apps : job[a].pc = "shut" ~> (job[a].pc = "idle" \/ fault # None)
=============================================================================
