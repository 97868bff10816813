------------------------------- MODULE Proxy -------------------------------
(***************************************************************************)
(* The data plane of the proxy: the single-threaded event loop of          *)
(* gf_core.c over edge-triggered epoll (event/gf_epoll.c), the handlers of *)
(* client connections (gf_request.c, gf_response.c, gf_client.c) and of    *)
(* server connections (gf_server.c), the pool of connection structures     *)
(* (gf_connection.c) and the timeout tree of gf_message.c, for one server  *)
(* pool with auto_eject_hosts off and no redis_auth (the defaults).        *)
(*                                                                         *)
(* A step of the loop is one stage of one handler for one message; pc says *)
(* which.  Between two stages the kernel, the clients and the servers may  *)
(* act, and they change sockets only.  A request is one whole message: its *)
(* parsing is external here.                                               *)
(***************************************************************************)
EXTENDS Integers, Sequences, FiniteSets, SequencesExt

CONSTANTS NConn,              \* bound: conn structures the process allocates
          NServer,            \* servers of the pool
          MaxSd,              \* bound: sockets ever opened
          MaxClient,          \* bound: clients that connect
          MaxMsg,             \* bound: requests that take an id
          MaxFault,           \* bound: misbehaviours of clients and servers
          MaxFull,            \* bound: short writes
          NEvent,             \* evb->nevent: events one epoll_wait returns
          MAX_NCCONN,         \* ctx->max_ncconn
          SERVER_CONNECTIONS, \* pool->server_connections
          TIMEOUT,            \* is pool->timeout set (not -1)?
          CONNECT,            \* outcomes of server_connect to explore
          CLIENT_ITEMS,       \* what clients may write
          SERVER_FAULTS       \* how servers may misbehave

None == 0
Pool == -1                    \* the pool: owner of the clients; its listener
ErrorReply == 0               \* the response msg_get_error makes

Conn == 1..NConn
Server == 1..NServer
Msg == 1..MaxMsg
Sd == 1..MaxSd
Outcome == {"inprogress", "connected", "refused", "nosocket"}
ServerFault == {"early", "fail", "eof", "reset", "unreachable"}

ASSUME ConstantsAssumption ==
    /\ NConn \in Nat /\ NServer \in Nat \ {0}
    /\ MaxSd \in Nat /\ MaxSd < NConn   \* memory is not exhausted
    /\ MaxClient \in Nat /\ MaxMsg \in Nat
    /\ MaxFault \in Nat /\ MaxFull \in Nat
    /\ NEvent \in Nat \ {0}
    /\ MAX_NCCONN \in Nat
    /\ SERVER_CONNECTIONS \in Nat \ {0}
    /\ TIMEOUT \in BOOLEAN
    /\ CONNECT \subseteq Outcome
    /\ CLIENT_ITEMS \subseteq {"get", "set", "quit", "eof", "reset"}
    /\ SERVER_FAULTS \subseteq ServerFault

VARIABLES
    conn,        \* struct conn: the allocated and the free ones
    free_connq,  \* the free list, newest first, then what malloc would give
    s_conn_q,    \* per server: its connections, least recently used first
    msg,         \* the requests: struct msg
    clock,       \* insertions into the timeout tree so far: the tree's key
    sock,        \* kernel side: sockets, and what the peer has in flight
    nsd,         \* sockets opened so far
    nmsg,        \* requests written by clients so far
    nfault,      \* misbehaviours so far
    nfull,       \* short writes so far
    backlog,     \* clients waiting to be accepted
    pc,          \* where the event loop is
    cur,         \* the connection whose handler runs
    cmsg,        \* the request that req_forward forwards
    scur,        \* the server connection it forwards to
    wr,          \* EVENT_WRITE is still to be handled for cur
    batch,       \* events returned by epoll_wait and not handled yet
    asked,       \* history, per client socket: requests that expect a reply
    answered     \* history, per client socket: <<request, reply>> written

tables == <<conn, free_connq, s_conn_q>>
requests == <<msg, clock>>
control == <<pc, cur, cmsg, scur, wr, batch>>
bounds == <<nsd, nmsg, nfault, nfull, backlog>>
history == <<asked, answered>>
vars == <<tables, requests, sock, control, bounds, history>>

-----------------------------------------------------------------------------
(* Data.  conn.owner is None for a free structure, Pool for a client     *)
(* connection (its owner is the pool) and the server otherwise; sd is None *)
(* for -1.  msg.tmo is tmo_rbe.data: None when not in the tree.            *)

ConnRec == [client : BOOLEAN, owner : Server \cup {None, Pool},
            sd : Sd \cup {None}, imsg_q : Seq(Msg), omsg_q : Seq(Msg),
            send_active : BOOLEAN, eof : BOOLEAN, done : BOOLEAN,
            err : BOOLEAN, connecting : BOOLEAN, connected : BOOLEAN]

MsgRec == [st : {"unread", "live", "freed"}, owner : Conn \cup {None},
           noreply : BOOLEAN, done : BOOLEAN, error : BOOLEAN,
           swallow : BOOLEAN, peer : Msg \cup {None},
           tmo : Conn \cup {None}, key : Nat, part : BOOLEAN]

Item == ({"get", "set", "rsp", "fail"} \X Msg) \cup ({"quit", "eof"} \X {None})

SockRec == [open : BOOLEAN, ptr : Conn \cup {None}, server : BOOLEAN,
            up : BOOLEAN, inq : Seq(Item), kerr : BOOLEAN, hup : BOOLEAN,
            full : BOOLEAN, rdy : BOOLEAN, wire : Seq(Msg)]

Event == [c : Conn \cup {Pool}, in : BOOLEAN, out : BOOLEAN, err : BOOLEAN]

NoConn == [client |-> FALSE, owner |-> None, sd |-> None,
           imsg_q |-> <<>>, omsg_q |-> <<>>, send_active |-> FALSE,
           eof |-> FALSE, done |-> FALSE, err |-> FALSE,
           connecting |-> FALSE, connected |-> FALSE]

NoMsg == [st |-> "unread", owner |-> None, noreply |-> FALSE, done |-> FALSE,
          error |-> FALSE, swallow |-> FALSE, peer |-> None, tmo |-> None,
          key |-> 0, part |-> FALSE]

NoSock == [open |-> FALSE, ptr |-> None, server |-> FALSE, up |-> FALSE,
           inq |-> <<>>, kerr |-> FALSE, hup |-> FALSE, full |-> FALSE,
           rdy |-> FALSE, wire |-> <<>>]

PC == {"wait", "event", "accept", "recv", "forward", "enqueue", "reject",
       "error", "send", "check", "timeout", "crash"}

TypeOK ==
    /\ conn \in [Conn -> ConnRec]
    /\ free_connq \in Seq(Conn)
    /\ s_conn_q \in [Server -> Seq(Conn)]
    /\ msg \in [Msg -> MsgRec]
    /\ clock \in Nat
    /\ sock \in [Sd -> SockRec]
    /\ nsd \in 0..MaxSd
    /\ nmsg \in 0..MaxMsg
    /\ nfault \in 0..MaxFault
    /\ nfull \in 0..MaxFull
    /\ backlog \in Nat
    /\ pc \in PC
    /\ cur \in Conn \cup {None}
    /\ cmsg \in Msg \cup {None}
    /\ scur \in Conn \cup {None}
    /\ wr \in BOOLEAN
    /\ batch \in Seq(Event)
    /\ asked \in [Sd -> Seq(Msg)]
    /\ answered \in [Sd -> Seq(Msg \X (Msg \cup {ErrorReply}))]

Init ==
    /\ conn = [c \in Conn |-> NoConn]
    /\ free_connq = [c \in Conn |-> c]
    /\ s_conn_q = [s \in Server |-> <<>>]
    /\ msg = [m \in Msg |-> NoMsg]
    /\ clock = 0
    /\ sock = [d \in Sd |-> NoSock]
    /\ nsd = 0 /\ nmsg = 0 /\ nfault = 0 /\ nfull = 0 /\ backlog = 0
    /\ pc = "wait" /\ cur = None /\ cmsg = None /\ scur = None /\ wr = FALSE
    /\ batch = <<>>
    /\ asked = [d \in Sd |-> <<>>]
    /\ answered = [d \in Sd |-> <<>>]

-----------------------------------------------------------------------------
(* Kernel: epoll.  rdy says that the socket is on the ready list: an edge  *)
(* (data, FIN, RST, connect done, room to write) or an EPOLL_CTL_MOD puts  *)
(* it there, epoll_wait takes it off and reports what is true by then.     *)
(* hup is a socket whose connect() was refused at once: event_add_conn     *)
(* asked for IN and OUT and nothing changes that any more.                 *)

CanRead(d) == sock[d].inq # <<>> \/ sock[d].hup \/ sock[d].kerr
CanWrite(d) == sock[d].hup \/ sock[d].kerr \/ (sock[d].up /\ ~sock[d].full)

EventOf(d) == [c |-> sock[d].ptr, in |-> CanRead(d),
               out |-> sock[d].hup \/ (CanWrite(d) /\ conn[sock[d].ptr].send_active),
               err |-> sock[d].kerr]

Reported(d) == /\ sock[d].open /\ sock[d].rdy /\ sock[d].ptr # None
               /\ EventOf(d).in \/ EventOf(d).out

Accepting == [c |-> Pool, in |-> TRUE, out |-> FALSE, err |-> FALSE]

Attached(c) == conn[c].owner # None
Clients == {c \in Conn : conn[c].client /\ Attached(c)}   \* ncurr_cconn

\* mutant: the interest in EVENT_WRITE is not recorded
MutNoAddOut(cn, c) == cn
\* mutant: no EPOLL_CTL_MOD, so an idle writable socket raises no edge
MutNoRearm(sk, cn, c) == sk

event_add_out(cn, c) == [cn EXCEPT ![c].send_active = TRUE]
Rearmed(sk, cn, c) == IF cn[c].send_active THEN sk
                      ELSE [sk EXCEPT ![cn[c].sd].rdy = TRUE]
\* event_del_out: its EPOLL_CTL_MOD queues a socket again that can be read.
Disarmed(sk, cn, c) == IF cn[c].send_active /\ CanRead(cn[c].sd)
                       THEN [sk EXCEPT ![cn[c].sd].rdy = TRUE] ELSE sk

-----------------------------------------------------------------------------
(* Requests: the timeout tree and req_put.                                 *)

tmo_rbt == {m \in Msg : msg[m].tmo # None}

msg_tmo_min == CHOOSE m \in tmo_rbt : \A n \in tmo_rbt : msg[m].key <= msg[n].key

\* mutant: the node is reset to key -1
MutTmoKey(r) == [r EXCEPT !.tmo = None, !.key = -1]

msg_tmo_delete(r) == [r EXCEPT !.tmo = None, !.key = 0]

req_put(r) == [msg_tmo_delete(r) EXCEPT !.st = "freed", !.peer = None]

\* mutant: a swallowed request is not put
MutSwallowedKept(r) == [r EXCEPT !.done = TRUE]
\* rsp_filter: the response nobody waits for came, request and response go.
Swallowed(r) == [req_put(r) EXCEPT !.done = TRUE]

HeadDone(mg, q) == q # <<>> /\ mg[Head(q)].done

-----------------------------------------------------------------------------
(* Environment: clients, servers and the kernel.                           *)

Faulty == nfault < MaxFault /\ nfault' = nfault + 1

ClientConnects ==
    /\ nsd + backlog < MaxSd
    /\ backlog + Cardinality({d \in 1..nsd : ~sock[d].server}) < MaxClient
    /\ backlog' = backlog + 1
    /\ UNCHANGED <<tables, requests, sock, control, history, nsd, nmsg, nfault, nfull>>

IsClientSd(d) == sock[d].open /\ ~sock[d].server
Arrives(d, item) == sock' = [sock EXCEPT ![d].inq = Append(@, item), ![d].rdy = TRUE]

ClientSends(d, kind) ==
    /\ IsClientSd(d) /\ ~sock[d].kerr
    /\ kind \in {"get", "set"} \cap CLIENT_ITEMS
    /\ nmsg < MaxMsg
    /\ <<"eof", None>> \notin ToSet(sock[d].inq)
    /\ nmsg' = nmsg + 1
    /\ Arrives(d, <<kind, nmsg + 1>>)
    /\ UNCHANGED <<tables, requests, control, history, nsd, nfault, nfull, backlog>>

ClientStops(d, kind) ==
    /\ IsClientSd(d) /\ ~sock[d].kerr
    /\ kind \in {"quit", "eof"} \cap CLIENT_ITEMS
    /\ <<"eof", None>> \notin ToSet(sock[d].inq)
    /\ Faulty
    /\ Arrives(d, <<kind, None>>)
    /\ UNCHANGED <<tables, requests, control, history, nsd, nmsg, nfull, backlog>>

Resets(d) == sock' = [sock EXCEPT ![d].kerr = TRUE, ![d].rdy = TRUE, ![d].wire = <<>>]

ClientResets(d) ==
    /\ IsClientSd(d) /\ ~sock[d].kerr
    /\ "reset" \in CLIENT_ITEMS
    /\ Faulty
    /\ Resets(d)
    /\ UNCHANGED <<tables, requests, control, history, nsd, nmsg, nfull, backlog>>

IsServerSd(d) == /\ sock[d].open /\ sock[d].server /\ sock[d].up
                 /\ ~sock[d].kerr /\ <<"eof", None>> \notin ToSet(sock[d].inq)

Answers(d, kind) ==
    sock' = [sock EXCEPT ![d].inq = Append(@, <<kind, Head(sock[d].wire)>>),
                         ![d].wire = Tail(@), ![d].rdy = TRUE]

ServerReplies(d) ==
    /\ IsServerSd(d) /\ sock[d].wire # <<>>
    /\ ~msg[Head(sock[d].wire)].part
    /\ Answers(d, "rsp")
    /\ UNCHANGED <<tables, requests, control, bounds, history>>

ServerRepliesEarly(d) ==
    /\ IsServerSd(d) /\ sock[d].wire # <<>> /\ "early" \in SERVER_FAULTS
    /\ msg[Head(sock[d].wire)].part
    /\ Faulty
    /\ Answers(d, "rsp")
    /\ UNCHANGED <<tables, requests, control, history, nsd, nmsg, nfull, backlog>>

ServerFails(d) ==
    /\ IsServerSd(d) /\ sock[d].wire # <<>> /\ "fail" \in SERVER_FAULTS
    /\ Faulty
    /\ Answers(d, "fail")
    /\ UNCHANGED <<tables, requests, control, history, nsd, nmsg, nfull, backlog>>

ServerCloses(d) ==
    /\ IsServerSd(d) /\ "eof" \in SERVER_FAULTS
    /\ Faulty
    /\ sock' = [sock EXCEPT ![d].inq = Append(@, <<"eof", None>>),
                            ![d].wire = <<>>, ![d].rdy = TRUE]
    /\ UNCHANGED <<tables, requests, control, history, nsd, nmsg, nfull, backlog>>

ServerResets(d) ==
    /\ IsServerSd(d) /\ "reset" \in SERVER_FAULTS
    /\ Faulty
    /\ Resets(d)
    /\ UNCHANGED <<tables, requests, control, history, nsd, nmsg, nfull, backlog>>

Connecting(d) == /\ sock[d].open /\ sock[d].server
                 /\ ~sock[d].up /\ ~sock[d].kerr /\ ~sock[d].hup

ConnectSucceeds(d) ==
    /\ Connecting(d)
    /\ sock' = [sock EXCEPT ![d].up = TRUE, ![d].rdy = TRUE]
    /\ UNCHANGED <<tables, requests, control, bounds, history>>

ConnectFails(d) ==
    /\ Connecting(d) /\ "unreachable" \in SERVER_FAULTS
    /\ Faulty
    /\ Resets(d)
    /\ UNCHANGED <<tables, requests, control, history, nsd, nmsg, nfull, backlog>>

SocketDrains(d) ==
    /\ sock[d].open /\ sock[d].full
    /\ sock' = [sock EXCEPT ![d].full = FALSE, ![d].rdy = TRUE]
    /\ UNCHANGED <<tables, requests, control, bounds, history>>

-----------------------------------------------------------------------------
(* Closing a connection.  cn and mg are conn and msg as the caller left    *)
(* them; core_close takes the socket out of epoll first.                   *)

\* mutant: requests that servers still hold are freed too
MutAbandonedPut(r) == req_put(r)
Abandoned(r) == IF r.done THEN req_put(r) ELSE [r EXCEPT !.swallow = TRUE]

client_close(cn, mg, sk, c) ==
    LET q == ToSet(cn[c].omsg_q)
    IN /\ msg' = [m \in Msg |->
                     IF m \in q THEN Abandoned(mg[m]) ELSE mg[m]]
       /\ conn' = [cn EXCEPT ![c].owner = None, ![c].sd = None,
                             ![c].omsg_q = <<>>]
       /\ sock' = [sk EXCEPT ![cn[c].sd].open = FALSE]
       /\ free_connq' = <<c>> \o free_connq
       /\ UNCHANGED s_conn_q

\* mutant: the connection stays in s_conn_q
MutNoUnref(q, c) == q

server_unref(q, c) == RemoveAt(q, CHOOSE i \in DOMAIN q : q[i] = c)

Fail(r) == [r EXCEPT !.done = TRUE, !.error = TRUE]

\* The queues are walked only when the descriptor is not open.
server_close(cn, mg, sk, c) ==
    LET iq == ToSet(cn[c].imsg_q)
        oq == ToSet(cn[c].omsg_q)
        walked == [m \in Msg |->
                     IF m \notin iq \cup oq THEN mg[m]
                     ELSE IF mg[m].swallow \/ mg[m].noreply THEN req_put(mg[m])
                     ELSE IF m \in iq THEN Fail(mg[m])
                     ELSE Fail(msg_tmo_delete(mg[m]))]
        woken == {k \in Conn : /\ HeadDone(walked, cn[k].omsg_q)
                               /\ \E m \in iq \cup oq :
                                     /\ ~mg[m].swallow /\ ~mg[m].noreply
                                     /\ mg[m].owner = k}
        put == [cn EXCEPT ![c].owner = None, ![c].connected = FALSE]
    IN /\ s_conn_q' = [s_conn_q EXCEPT ![cn[c].owner] = server_unref(@, c)]
       /\ free_connq' = <<c>> \o free_connq
       /\ IF cn[c].sd # None
          THEN /\ conn' = put
               /\ msg' = mg
               /\ sock' = sk
          ELSE /\ conn' = [k \in Conn |->
                             IF k = c THEN [put[c] EXCEPT !.imsg_q = <<>>, !.omsg_q = <<>>]
                             ELSE IF k \in woken THEN [put[k] EXCEPT !.send_active = TRUE]
                             ELSE put[k]]
               /\ msg' = walked
               /\ sock' = [d \in Sd |->
                             IF \E k \in woken : cn[k].sd = d /\ ~cn[k].send_active
                             THEN [sk[d] EXCEPT !.rdy = TRUE] ELSE sk[d]]

Crash == /\ pc' = "crash"
         /\ UNCHANGED <<tables, msg, sock>>

\* Closing a structure that is in the free list dereferences its owner, NULL.
core_close(cn, mg, c, after) ==
    IF cn[c].owner = None THEN Crash
    ELSE LET k == [cn EXCEPT ![c].send_active = FALSE]
             sk == [sock EXCEPT ![cn[c].sd].ptr = None]
         IN /\ IF cn[c].client THEN client_close(k, mg, sk, c)
                               ELSE server_close(k, mg, sk, c)
            /\ pc' = after

-----------------------------------------------------------------------------
(* The event loop: epoll_wait, core_core for each event, core_timeout.     *)

Sources == {d \in Sd : Reported(d)} \cup (IF backlog > 0 THEN {Pool} ELSE {})

event_wait ==
    /\ pc = "wait"
    /\ \E k \in 1..NEvent : \E src \in [1..k -> Sources] :
         /\ \A i, j \in 1..k : src[i] = src[j] => i = j
         /\ batch' = [i \in 1..k |-> IF src[i] = Pool THEN Accepting
                                                      ELSE EventOf(src[i])]
         /\ sock' = [d \in Sd |-> IF d \in ToSet(src)
                                  THEN [sock[d] EXCEPT !.rdy = FALSE] ELSE sock[d]]
    /\ pc' = "event"
    /\ UNCHANGED <<tables, requests, bounds, history, cur, cmsg, scur, wr>>

event_wait_timeout ==
    /\ pc = "wait" /\ tmo_rbt # {}
    /\ pc' = "timeout"
    /\ UNCHANGED <<tables, requests, sock, bounds, history, cur, cmsg, scur, wr, batch>>

EventsHandled ==
    /\ pc = "event" /\ batch = <<>>
    /\ pc' = "timeout"
    /\ UNCHANGED <<tables, requests, sock, bounds, history, cur, cmsg, scur, wr, batch>>

core_core ==
    /\ pc = "event" /\ batch # <<>>
    /\ batch' = Tail(batch)
    /\ LET e == Head(batch)
       IN \/ /\ e.c = Pool
             /\ pc' = "accept"
             /\ UNCHANGED <<tables, msg, sock, cur, wr>>
          \/ /\ e.c # Pool /\ ~Attached(e.c)
             /\ UNCHANGED <<tables, msg, sock, cur, wr, pc>>
          \/ /\ e.c # Pool /\ Attached(e.c) /\ e.err
             /\ core_close([conn EXCEPT ![e.c].err = TRUE], msg, e.c, "event")
             /\ UNCHANGED <<cur, wr>>
          \/ /\ e.c # Pool /\ Attached(e.c) /\ ~e.err
             /\ pc' = IF e.in THEN "recv" ELSE "send"
             /\ cur' = e.c
             /\ wr' = (e.in /\ e.out)
             /\ UNCHANGED <<tables, msg, sock>>
    /\ UNCHANGED <<clock, bounds, history, cmsg, scur>>

\* After msg_recv or msg_send returns to core_core.
CheckConn ==
    /\ pc = "check"
    /\ IF conn[cur].done \/ conn[cur].err
       THEN core_close(conn, msg, cur, "event") /\ cur' = None /\ wr' = FALSE
       ELSE /\ IF wr THEN pc' = "send" /\ wr' = FALSE /\ UNCHANGED cur
                     ELSE pc' = "event" /\ cur' = None /\ UNCHANGED wr
            /\ UNCHANGED <<tables, msg, sock>>
    /\ UNCHANGED <<clock, bounds, history, cmsg, scur, batch>>

Settled(m) == msg[m].error \/ msg[m].done

\* The oldest request in the tree; all have the timeout of the one pool.
core_timeout ==
    /\ pc = "timeout"
    /\ \/ /\ tmo_rbt # {} => ~Settled(msg_tmo_min)   \* now < then
          /\ pc' = "wait"
          /\ UNCHANGED <<tables, msg, sock>>
       \/ /\ tmo_rbt # {}
          /\ LET m == msg_tmo_min
                 c == msg[m].tmo
                 mg == [msg EXCEPT ![m] = msg_tmo_delete(@)]
             IN IF Settled(m)
                THEN msg' = mg /\ UNCHANGED <<tables, sock, pc>>
                ELSE core_close([conn EXCEPT ![c].err = TRUE], mg, c, "timeout")
    /\ UNCHANGED <<clock, bounds, history, cur, cmsg, scur, wr, batch>>

-----------------------------------------------------------------------------
(* Accepting clients.                                                      *)

ProxyAgain ==
    /\ pc = "accept" /\ backlog = 0
    /\ pc' = "event"
    /\ UNCHANGED <<tables, requests, sock, bounds, history, cur, cmsg, scur, wr, batch>>

\* mutant: one client more than max_ncconn is accepted
MutOneMore == Cardinality(Clients) > MAX_NCCONN

TooManyClients == Cardinality(Clients) >= MAX_NCCONN

proxy_accept ==
    /\ pc = "accept" /\ backlog > 0
    /\ backlog' = backlog - 1
    /\ IF TooManyClients
       THEN UNCHANGED <<tables, sock, nsd>>
       ELSE LET c == Head(free_connq)
            IN /\ nsd < MaxSd /\ free_connq # <<>>
               /\ nsd' = nsd + 1
               /\ conn' = [conn EXCEPT ![c] =
                             [NoConn EXCEPT !.client = TRUE, !.owner = Pool,
                                            !.sd = nsd + 1, !.send_active = TRUE]]
               /\ free_connq' = Tail(free_connq)
               /\ sock' = [sock EXCEPT ![nsd + 1] =
                             [NoSock EXCEPT !.open = TRUE, !.ptr = c,
                                            !.up = TRUE, !.rdy = TRUE]]
               /\ UNCHANGED s_conn_q
    /\ UNCHANGED <<requests, control, history, nmsg, nfault, nfull>>

-----------------------------------------------------------------------------
(* Reading.  msg_recv reads until the socket has nothing more or a read    *)
(* did not fill its buffer.                                                *)

Sk(c) == sock[conn[c].sd]
Next1(c) == Head(Sk(c).inq)
Consumed(c) == [sock EXCEPT ![conn[c].sd].inq = Tail(@)]
Readable(c) == ~conn[c].eof /\ ~Sk(c).kerr /\ Sk(c).inq # <<>>

\* After a message: a read that did not fill its buffer was the last one.  It
\* leaves a FIN that follows the data unread; what came after the read has an
\* edge of its own.
ReadOn(s) == {"recv"} \cup
             IF s.inq # <<>> /\ (s.rdy \/ Head(s.inq)[1] = "eof") THEN {"check"} ELSE {}

recv_again ==
    /\ pc = "recv" /\ ~conn[cur].eof /\ ~Sk(cur).kerr /\ Sk(cur).inq = <<>>
    /\ pc' = "check"
    /\ UNCHANGED <<tables, requests, sock, bounds, history, cur, cmsg, scur, wr, batch>>

recv_error ==
    /\ pc = "recv" /\ ~conn[cur].eof /\ Sk(cur).kerr
    /\ conn' = [conn EXCEPT ![cur].err = TRUE]
    /\ pc' = "check"
    /\ UNCHANGED <<free_connq, s_conn_q, requests, sock, bounds, history,
                   cur, cmsg, scur, wr, batch>>

\* req_recv_done on a request that is forwarded.
req_recv_done ==
    /\ pc = "recv" /\ conn[cur].client /\ Readable(cur)
    /\ Next1(cur)[1] \in {"get", "set"}
    /\ LET m == Next1(cur)[2]
           noreply == Next1(cur)[1] = "set"
       IN /\ msg' = [msg EXCEPT ![m] = [NoMsg EXCEPT !.st = "live", !.owner = cur,
                                                     !.noreply = noreply]]
          /\ asked' = IF noreply THEN asked
                      ELSE [asked EXCEPT ![conn[cur].sd] = Append(@, m)]
          /\ cmsg' = m
    /\ sock' = Consumed(cur)
    /\ pc' = "forward"
    /\ UNCHANGED <<tables, clock, bounds, answered, cur, scur, wr, batch>>

\* req_filter on quit; what was read along with it is dropped.
req_filter_quit ==
    /\ pc = "recv" /\ conn[cur].client /\ Readable(cur)
    /\ Next1(cur)[1] = "quit"
    /\ \E k \in 1..Len(Sk(cur).inq) :
         sock' = [sock EXCEPT ![conn[cur].sd].inq = SubSeq(@, k + 1, Len(@))]
    /\ conn' = [conn EXCEPT ![cur].eof = TRUE, ![cur].done = conn[cur].omsg_q = <<>>]
    /\ pc' = "check"
    /\ UNCHANGED <<free_connq, s_conn_q, requests, bounds, history,
                   cur, cmsg, scur, wr, batch>>

\* req_recv_next after end of file: done once nothing is outstanding.
req_recv_next_eof ==
    /\ pc = "recv" /\ conn[cur].client
    /\ conn[cur].eof \/ (Readable(cur) /\ Next1(cur)[1] = "eof")
    /\ conn' = [conn EXCEPT ![cur].eof = TRUE,
                            ![cur].done = @ \/ conn[cur].omsg_q = <<>>]
    /\ pc' = "check"
    /\ UNCHANGED <<free_connq, s_conn_q, requests, sock, bounds, history,
                   cur, cmsg, scur, wr, batch>>

ServerReads(c, kinds) == /\ pc = "recv" /\ ~conn[c].client
                         /\ Readable(c) /\ Next1(c)[1] \in kinds

rsp_recv_next_eof ==
    /\ ServerReads(cur, {"eof"})
    /\ conn' = [conn EXCEPT ![cur].eof = TRUE, ![cur].done = TRUE]
    /\ pc' = "check"
    /\ UNCHANGED <<free_connq, s_conn_q, requests, sock, bounds, history,
                   cur, cmsg, scur, wr, batch>>

\* mutant: such a response is dropped and the connection kept
MutStrayDropped ==
    /\ ServerReads(cur, {"rsp", "fail"})
    /\ conn[cur].omsg_q = <<>> \/ Next1(cur)[1] = "fail"
    /\ sock' = Consumed(cur)
    /\ UNCHANGED <<tables, requests, control, bounds, history>>

\* rsp_filter on a stray response and on one that reports a failure.
rsp_filter_close ==
    /\ ServerReads(cur, {"rsp", "fail"})
    /\ conn[cur].omsg_q = <<>> \/ Next1(cur)[1] = "fail"
    /\ sock' = Consumed(cur)
    /\ conn' = [conn EXCEPT ![cur].err = TRUE, ![cur].done = TRUE]
    /\ pc' = "check"
    /\ UNCHANGED <<free_connq, s_conn_q, requests, bounds, history,
                   cur, cmsg, scur, wr, batch>>

\* mutant: out_q is a stack
MutDequeuedLast(cn, c) == [cn EXCEPT ![c].omsg_q = Front(@)]

Dequeued(cn, c) == [cn EXCEPT ![c].omsg_q = Tail(@)]

rsp_filter_swallow ==
    /\ ServerReads(cur, {"rsp"}) /\ conn[cur].omsg_q # <<>>
    /\ LET pmsg == Head(conn[cur].omsg_q)
       IN /\ msg[pmsg].swallow
          /\ msg' = [msg EXCEPT ![pmsg] = Swallowed(@)]
    /\ sock' = Consumed(cur)
    /\ conn' = Dequeued(conn, cur)
    /\ pc' \in ReadOn(sock'[conn[cur].sd])
    /\ UNCHANGED <<free_connq, s_conn_q, clock, bounds, history,
                   cur, cmsg, scur, wr, batch>>

rsp_forward ==
    /\ ServerReads(cur, {"rsp"}) /\ conn[cur].omsg_q # <<>>
    /\ LET pmsg == Head(conn[cur].omsg_q)
           c_conn == msg[pmsg].owner
           cn == Dequeued(conn, cur)
       IN /\ ~msg[pmsg].swallow
          /\ msg' = [msg EXCEPT ![pmsg] = [msg_tmo_delete(@) EXCEPT
                                             !.done = TRUE, !.peer = Next1(cur)[2]]]
          /\ IF HeadDone(msg', conn[c_conn].omsg_q)
             THEN /\ conn' = event_add_out(cn, c_conn)
                  /\ sock' = Rearmed(Consumed(cur), conn, c_conn)
             ELSE /\ conn' = cn
                  /\ sock' = Consumed(cur)
    /\ pc' \in ReadOn(sock'[conn[cur].sd])
    /\ UNCHANGED <<free_connq, s_conn_q, clock, bounds, history,
                   cur, cmsg, scur, wr, batch>>

-----------------------------------------------------------------------------
(* req_forward, up to the connection server_pool_conn picks.  The key may  *)
(* hash to any server.                                                     *)

\* mutant: inserted at the head of out_q
MutOutstandingFirst(c, m) == IF msg[m].noreply THEN conn
                             ELSE [conn EXCEPT ![c].omsg_q = <<m>> \o @]

Outstanding(c, m) == IF msg[m].noreply THEN conn
                     ELSE [conn EXCEPT ![c].omsg_q = Append(@, m)]

\* Past the bound on sockets, socket() fails.
Outcomes == IF nsd + backlog < MaxSd THEN CONNECT ELSE {"nosocket"}

\* server_conn gets a new connection and server_connect opens its socket.
ForwardOnNew(s, o) ==
    /\ pc = "forward" /\ Len(s_conn_q[s]) < SERVER_CONNECTIONS
    /\ free_connq # <<>>
    /\ LET c == Head(free_connq)
           sd == IF o = "nosocket" THEN None ELSE nsd + 1
       IN /\ conn' = [Outstanding(cur, cmsg) EXCEPT ![c] =
                        [NoConn EXCEPT !.owner = s, !.sd = sd,
                           !.send_active = o # "nosocket",
                           !.err = o \in {"refused", "nosocket"},
                           !.connecting = o = "inprogress",
                           !.connected = o = "connected"]]
          /\ IF o = "nosocket" THEN UNCHANGED <<sock, nsd>>
             ELSE /\ nsd' = sd
                  /\ sock' = [sock EXCEPT ![sd] =
                        [NoSock EXCEPT !.open = TRUE, !.ptr = c, !.server = TRUE,
                           !.up = o = "connected", !.hup = o = "refused",
                           !.rdy = o # "inprogress"]]
          /\ scur' = c
          /\ s_conn_q' = [s_conn_q EXCEPT ![s] = Append(@, c)]
    /\ free_connq' = Tail(free_connq)
    /\ pc' = IF o \in {"refused", "nosocket"} THEN "reject" ELSE "enqueue"
    /\ UNCHANGED <<requests, history, nmsg, nfault, nfull, backlog, cur, cmsg, wr, batch>>

\* server_conn rotates the least recently used connection of a full server.
ForwardOnLru(s) ==
    /\ pc = "forward" /\ Len(s_conn_q[s]) >= SERVER_CONNECTIONS
    /\ LET c == Head(s_conn_q[s])
       IN /\ scur' = c
          /\ pc' = IF conn[c].err THEN "reject" ELSE "enqueue"
          /\ s_conn_q' = [s_conn_q EXCEPT ![s] = Append(Tail(@), c)]
    /\ conn' = Outstanding(cur, cmsg)
    /\ UNCHANGED <<free_connq, requests, sock, bounds, history, cur, cmsg, wr, batch>>

\* server_connect failed: server_pool_conn closes the connection.
ForwardRejected ==
    /\ pc = "reject"
    /\ server_close(conn, msg, sock, scur)
    /\ pc' = "error" /\ scur' = None
    /\ UNCHANGED <<clock, bounds, history, cur, cmsg, wr, batch>>

req_forward_error ==
    /\ pc = "error"
    /\ LET r == [msg[cmsg] EXCEPT !.done = TRUE, !.error = TRUE]
       IN msg' = [msg EXCEPT ![cmsg] = IF r.noreply THEN req_put(r) ELSE r]
    /\ IF ~msg[cmsg].noreply /\ HeadDone(msg', conn[cur].omsg_q)
       THEN conn' = event_add_out(conn, cur) /\ sock' = Rearmed(sock, conn, cur)
       ELSE UNCHANGED <<conn, sock>>
    /\ pc' \in ReadOn(Sk(cur)) /\ cmsg' = None
    /\ UNCHANGED <<free_connq, s_conn_q, clock, bounds, history, cur, scur, wr, batch>>

\* mutant: only the first request of in_q gets a timer
MutTimedFirst(m) == TIMEOUT /\ ~msg[m].noreply /\ conn[scur].imsg_q = <<>>

Timed(m) == TIMEOUT /\ ~msg[m].noreply

\* event_add_out on an idle server connection, then enqueue_inq.
ForwardEnqueue ==
    /\ pc = "enqueue"
    /\ LET idle == conn[scur].imsg_q = <<>>
           timed == Timed(cmsg)
           cn == IF idle THEN event_add_out(conn, scur) ELSE conn
       IN /\ conn' = [cn EXCEPT ![scur].imsg_q = Append(@, cmsg)]
          /\ sock' = IF idle THEN Rearmed(sock, conn, scur) ELSE sock
          /\ msg' = IF timed THEN [msg EXCEPT ![cmsg].tmo = scur,
                                              ![cmsg].key = clock + 1] ELSE msg
          /\ clock' = IF timed THEN clock + 1 ELSE clock
    /\ pc' \in ReadOn(Sk(cur)) /\ cmsg' = None /\ scur' = None
    /\ UNCHANGED <<free_connq, s_conn_q, bounds, history, cur, wr, batch>>

-----------------------------------------------------------------------------
(* Writing to a client.                                                    *)

Short == nfull < MaxFull /\ nfull' = nfull + 1
Writing(c, client) == pc = "send" /\ conn[c].client = client
Blocked(c) == Sk(c).full \/ ~Sk(c).up                     \* EAGAIN

\* With nothing outstanding, req_done dereferences a NULL request.
rsp_send_next_empty ==
    /\ Writing(cur, TRUE) /\ conn[cur].omsg_q = <<>>
    /\ Crash
    /\ UNCHANGED <<clock, bounds, history, cur, cmsg, scur, wr, batch>>

rsp_send_next_wait ==
    /\ Writing(cur, TRUE)
    /\ conn[cur].omsg_q # <<>> /\ ~HeadDone(msg, conn[cur].omsg_q)
    /\ pc' = "check"
    /\ UNCHANGED <<tables, requests, sock, bounds, history, cur, cmsg, scur, wr, batch>>

CanSend(c) == IF conn[c].client THEN HeadDone(msg, conn[c].omsg_q)
                                ELSE conn[c].imsg_q # <<>>

send_error ==
    /\ pc = "send" /\ CanSend(cur) /\ Sk(cur).kerr
    /\ conn' = [conn EXCEPT ![cur].err = TRUE]
    /\ pc' = "check"
    /\ UNCHANGED <<free_connq, s_conn_q, requests, sock, bounds, history,
                   cur, cmsg, scur, wr, batch>>

\* rsp_send_next, a complete writev and rsp_send_done.
rsp_send_done ==
    /\ Writing(cur, TRUE) /\ CanSend(cur) /\ ~Sk(cur).kerr /\ ~Blocked(cur)
    /\ LET pmsg == Head(conn[cur].omsg_q)
           reply == IF msg[pmsg].error THEN ErrorReply ELSE msg[pmsg].peer
       IN /\ answered' = [answered EXCEPT ![conn[cur].sd] =
                            Append(@, <<pmsg, reply>>)]
          /\ msg' = [msg EXCEPT ![pmsg] = req_put(@)]
    /\ conn' = Dequeued(conn, cur)
    /\ UNCHANGED <<free_connq, s_conn_q, clock, sock, control, bounds, asked>>

rsp_send_short ==
    /\ Writing(cur, TRUE) /\ CanSend(cur) /\ ~Sk(cur).kerr
    /\ IF Blocked(cur) THEN UNCHANGED <<sock, nfull>>
       ELSE Short /\ sock' = [sock EXCEPT ![conn[cur].sd].full = TRUE]
    /\ pc' = "check"
    /\ UNCHANGED <<tables, requests, history, nsd, nmsg, nfault, backlog,
                   cur, cmsg, scur, wr, batch>>

-----------------------------------------------------------------------------
(* Writing to a server.                                                    *)

\* What it calls at the end, post_connect, is not in the repository.
server_connected(c) ==
    [conn EXCEPT ![c].connecting = FALSE,
                 ![c].connected = @ \/ conn[c].connecting]

req_send_next_empty ==
    /\ Writing(cur, FALSE) /\ conn[cur].imsg_q = <<>>
    /\ conn' = [server_connected(cur) EXCEPT ![cur].send_active = FALSE]
    /\ sock' = Disarmed(sock, conn, cur)
    /\ pc' = "check"
    /\ UNCHANGED <<free_connq, s_conn_q, requests, bounds, history,
                   cur, cmsg, scur, wr, batch>>

\* The server sees a request when its first byte is written.
Transmit(sk, d, m) ==
    IF msg[m].part \/ msg[m].noreply \/ ~IsServerSd(d) THEN sk
    ELSE [sk EXCEPT ![d].wire = Append(@, m)]

\* From in_q to out_q, where it waits for its response.
SentOut(cn, c) == [cn EXCEPT ![c].imsg_q = Tail(@),
                             ![c].omsg_q = Append(@, Head(cn[c].imsg_q))]

\* req_send_next, a complete writev and req_send_done.
req_send_done ==
    /\ Writing(cur, FALSE) /\ CanSend(cur) /\ ~Sk(cur).kerr /\ ~Blocked(cur)
    /\ LET m == Head(conn[cur].imsg_q)
           cn == server_connected(cur)
       IN /\ IF msg[m].noreply
             THEN /\ conn' = [cn EXCEPT ![cur].imsg_q = Tail(@)]
                  /\ msg' = [msg EXCEPT ![m] = req_put(@)]
             ELSE /\ conn' = SentOut(cn, cur)
                  /\ msg' = [msg EXCEPT ![m].part = FALSE]
          /\ sock' = Transmit(sock, conn[cur].sd, m)
    /\ UNCHANGED <<free_connq, s_conn_q, clock, control, bounds, history>>

req_send_short ==
    /\ Writing(cur, FALSE) /\ CanSend(cur) /\ ~Sk(cur).kerr
    /\ conn' = server_connected(cur)
    /\ LET m == Head(conn[cur].imsg_q)
           d == conn[cur].sd
       IN \/ /\ Blocked(cur)
             /\ UNCHANGED <<sock, msg, nfull>>
          \/ /\ ~Blocked(cur) /\ Short
             /\ sock' = [Transmit(sock, d, m) EXCEPT ![d].full = TRUE]
             /\ msg' = [msg EXCEPT ![m].part = TRUE]
    /\ pc' = "check"
    /\ UNCHANGED <<free_connq, s_conn_q, clock, history, nsd, nmsg, nfault, backlog,
                   cur, cmsg, scur, wr, batch>>

-----------------------------------------------------------------------------

Recv == \/ recv_again \/ recv_error
        \/ req_recv_done \/ req_filter_quit \/ req_recv_next_eof
        \/ rsp_recv_next_eof \/ rsp_filter_close \/ rsp_filter_swallow
        \/ rsp_forward

Forward == \/ \E s \in Server :
                \/ \E o \in Outcomes : ForwardOnNew(s, o)
                \/ ForwardOnLru(s)
           \/ ForwardRejected \/ req_forward_error \/ ForwardEnqueue

Send == \/ rsp_send_next_empty \/ rsp_send_next_wait \/ send_error
        \/ rsp_send_done \/ rsp_send_short
        \/ req_send_next_empty \/ req_send_done \/ req_send_short

Loop == \/ event_wait \/ event_wait_timeout \/ EventsHandled \/ core_core
        \/ CheckConn \/ core_timeout \/ ProxyAgain \/ proxy_accept
        \/ Recv \/ Forward \/ Send

Peers == \/ ClientConnects
         \/ \E d \in Sd :
              \/ \E k \in CLIENT_ITEMS : ClientSends(d, k) \/ ClientStops(d, k)
              \/ ClientResets(d)
              \/ ServerReplies(d) \/ ServerRepliesEarly(d) \/ ServerFails(d)
              \/ ServerCloses(d) \/ ServerResets(d)
              \/ ConnectSucceeds(d) \/ ConnectFails(d) \/ SocketDrains(d)

Next == Loop \/ Peers

Spec == Init /\ [][Next]_vars

\* The process is never descheduled for ever, pending connects end, a peer
\* reads what it is sent and a server answers.
Kernel == \E d \in Sd : ConnectSucceeds(d) \/ SocketDrains(d)
FairSpec == /\ Spec
            /\ WF_vars(Loop)
            /\ WF_vars(Kernel)
            /\ WF_vars(\E d \in Sd : ServerReplies(d))

-----------------------------------------------------------------------------
(* Safety.                                                                 *)

Written(d) == [i \in DOMAIN answered[d] |-> answered[d][i][1]]
Taken(c) == IF pc = "forward" /\ cur = c /\ ~msg[cmsg].noreply
            THEN <<cmsg>> ELSE <<>>

(* Responses leave on a client's socket in the order in which its requests *)
(* arrived, without a gap or a repetition: what was written, then out_q,   *)
(* is what was asked (gf_connection.c:80-83).                              *)
ResponsesInOrder ==
    /\ \A c \in Clients : Written(conn[c].sd) \o conn[c].omsg_q \o Taken(c)
                            = asked[conn[c].sd]
    /\ \A d \in Sd : IsPrefix(Written(d), asked[d])

(* A client never gets the response of another request, although the only  *)
(* pairing is by position in the server's out_q (rsp_forward) and servers  *)
(* may answer a request before it was sent completely (rsp_filter).        *)
ResponsesPaired ==
    \A d \in Sd : \A i \in DOMAIN answered[d] :
        answered[d][i][2] \in {ErrorReply, answered[d][i][1]}

Servers == {c \in Conn : ~conn[c].client /\ Attached(c)}
Queued(c) == ToSet(conn[c].imsg_q) \cup ToSet(conn[c].omsg_q)

\* The requests that what d holds answers: a FIN, if any, comes last.
Replies(d) == LET q == sock[d].inq
                  n == IF q # <<>> /\ Last(q)[1] = "eof" THEN Len(q) - 1 ELSE Len(q)
              IN [i \in 1..n |-> q[i][2]]
InFlight(c) == Replies(conn[c].sd) \o Sk(c).wire
HalfSent(c) == IF conn[c].imsg_q = <<>> THEN <<>>
               ELSE LET m == Head(conn[c].imsg_q)
                    IN IF msg[m].part /\ ~msg[m].noreply THEN <<m>> ELSE <<>>

(* out_q of a server connection, then the request half written, is what    *)
(* the server has yet to answer, in order, until the connection breaks.    *)
ServerFifoInSync ==
    \A c \in Servers :
        conn[c].sd # None /\ ~conn[c].done /\ ~conn[c].err
        => /\ IsPrefix(InFlight(c), conn[c].omsg_q \o HalfSent(c))
           /\ IsServerSd(conn[c].sd)
              => InFlight(c) = conn[c].omsg_q \o HalfSent(c)

(* req_put never frees a request that a connection or the timeout tree     *)
(* still holds.                                                            *)
NoUseAfterFree ==
    /\ \A c \in Servers \cup Clients : \A m \in Queued(c) : msg[m].st = "live"
    /\ \A m \in tmo_rbt : msg[m].st = "live"
    /\ cmsg # None => msg[cmsg].st = "live"

(* A request waiting on a server is either swallowed, its client being     *)
(* gone, or in the out_q of a client that is still there: rsp_forward and  *)
(* server_close follow msg->owner without a check.  It is not done yet.    *)
OwnerWaits ==
    \A c \in Servers : \A m \in Queued(c) :
        /\ ~msg[m].done
        /\ ~msg[m].noreply =>
             \/ msg[m].swallow /\ \A k \in Clients : m \notin Queued(k)
             \/ /\ ~msg[m].swallow
                /\ msg[m].owner \in Clients
                /\ m \in Queued(msg[m].owner)

(* No request is in two queues of servers, nor twice in one.               *)
QueuedOnce ==
    \A c, k \in Servers :
        LET p == conn[c].imsg_q \o conn[c].omsg_q
            q == conn[k].imsg_q \o conn[k].omsg_q
        IN \A i \in DOMAIN p, j \in DOMAIN q :
              p[i] = q[j] => c = k /\ i = j

(* The queues of servers are what the servers see: the right requests, in  *)
(* their order, each in one place.                                         *)
QueuesInSync == ServerFifoInSync /\ QueuedOnce

(* The requests that queues, connections and timers name are there, and    *)
(* their clients too, as long as they wait.                                *)
RequestsAreThere == NoUseAfterFree /\ OwnerWaits

(* The clock of a request ticks from in_q until it leaves out_q            *)
(* (gf_request.c:303-310), and names the connection it waits on.           *)
QueuedHaveTimer ==
    TIMEOUT => \A c \in Servers : \A m \in Queued(c) :
                   ~msg[m].noreply => msg[m].tmo = c

(* A server connection with requests to send will be woken up: its socket  *)
(* is on the ready list, or an edge is still to come (event_del_out when   *)
(* in_q is empty, event_add_out when it stops being empty).                *)
NoLostServerWakeup ==
    pc = "wait" => \A c \in Servers : conn[c].imsg_q # <<>> =>
        /\ conn[c].send_active
        /\ Sk(c).rdy \/ Sk(c).full \/ ~Sk(c).up

(* Every structure is in the free list once, or in s_conn_q of its server  *)
(* once, or an open client connection; no server has more connections than *)
(* server_connections (conn_put, server_ref, server_unref, server_conn).   *)
ConnPools ==
    /\ \A c \in Conn :
         /\ c \in ToSet(free_connq) <=> ~Attached(c)
         /\ \A s \in Server : c \in ToSet(s_conn_q[s]) <=> conn[c].owner = s
    /\ IsInjective(free_connq)
    /\ \A s \in Server :
         /\ IsInjective(s_conn_q[s])
         /\ Len(s_conn_q[s]) <= SERVER_CONNECTIONS

(* proxy_accept keeps the clients within ctx->max_ncconn, also when one    *)
(* event accepts several and closed structures are reused.                 *)
ClientLimit == Cardinality(Clients) <= MAX_NCCONN

-----------------------------------------------------------------------------
(* Progress.                                                               *)

ToSend(m) == \E c \in Servers : m \in ToSet(conn[c].imsg_q)

(* A request in the in_q of a server leaves it: it is put on the wire.     *)
RequestsReachWire ==
    \A m \in Msg : ToSend(m) ~> (~ToSend(m) \/ pc = "crash")

(* A request nobody waits for, noreply or swallowed because its client     *)
(* went away, does not stay for ever (req_send_done, rsp_filter).          *)
UnwantedAreFreed ==
    \A m \in Msg :
        msg[m].st = "live" /\ (msg[m].noreply \/ msg[m].swallow)
        ~> (msg[m].st = "freed" \/ pc = "crash")

-----------------------------------------------------------------------------
(* What comments and assertions of the source say, and the code violates.  *)

(* "nothing is outstanding, initiate close?" (gf_response.c:314): a write  *)
(* event for a client without outstanding requests is harmless.            *)
SendWithNothingOutstanding == pc # "crash"

(* "closing the server connection which would end up sending SERVER_ERROR  *)
(* to all clients that have requests pending on this server connection"    *)
(* (gf_response.c:182-183): a request that waits for its response is one   *)
(* that an open server connection holds.                                   *)
PendingAreHeld ==
    \A m \in Msg :
        msg[m].st = "live" /\ ~msg[m].done /\ ~msg[m].noreply /\ m # cmsg
        => \E c \in Servers : m \in Queued(c)

(* "timeout expired req and all the outstanding req on the timing out      *)
(* server" (gf_core.c:298-301): core_timeout closes a server connection.   *)
TimeoutClosesServers ==
    [][pc = "timeout" => pc' # "crash" /\ Clients' = Clients]_vars

Completed(c, m) == /\ c \in Clients /\ conn[c].omsg_q # <<>>
                   /\ Head(conn[c].omsg_q) = m /\ msg[m].done

(* "(a) -> (b) -> (c) -> (d) is the normal flow of transaction"            *)
(* (gf_message.c:113-116): once rsp_forward completed the request at the   *)
(* head of out_q, (d) sends the response.                                  *)
CompletedIsSent ==
    \A c \in Conn, m \in Msg :
        Completed(c, m) ~> (~Completed(c, m) \/ pc = "crash")

FinUnread(d) == sock[d].server /\ sock[d].ptr # None /\ <<"eof", None>> \in ToSet(sock[d].inq)

(* "On a FIN from a server, we close the connection immediately"           *)
(* (gf_response.c:119-126): the FIN of a server takes its connection out.  *)
ServerFinCloses ==
    \A d \in Sd : FinUnread(d) ~> (~FinUnread(d) \/ pc = "crash")

=============================================================================
