----------------------------- MODULE ProxyRequests -----------------------------
(***************************************************************************)
(* Requests and responses, for every value of the constants of Proxy.      *)
(*                                                                         *)
(* Where the requests are: Proper == IInv /\ Wiring /\ Requests is         *)
(* inductive.  Wiring (ProxyProofs) joins structures and sockets; Requests *)
(* says of every request where it is: Unread of those that no one has read *)
(* (each in one place of one socket), Queueing of the others (in the out_q *)
(* of the client that asked, and in one queue of one server connection     *)
(* until it is done).  RequestsAreThere and QueuedHaveTimer follow from    *)
(* it, but are not inductive: that a freed message is in no queue needs    *)
(* that each is in the queues once.                                        *)
(*                                                                         *)
(* Wakeups: what waits to be sent is sent (NoLostServerWakeup).            *)
(*                                                                         *)
(* ResponsesInOrder is proved from Ordered: what was written to a client,  *)
(* its out_q and the request being forwarded are, joined, all it asked.    *)
(* ResponsesPaired and QueuesInSync are proved from Pairing: for each      *)
(* server connection, what the server has seen and not answered is out_q,  *)
(* with the request half written, and if the connection broke a prefix of  *)
(* it (Agree).  A response that is read is then of the head of out_q,      *)
(* which is all that rsp_forward looks at.                                 *)
(***************************************************************************)
EXTENDS ProxyProofs

-----------------------------------------------------------------------------
(* Requests nobody read yet: unused, each in one place of one socket.      *)
IsAsk(x) == x[1] \in {"get", "set"}

(* The requests that a socket holds were never read.                       *)
Fresh(d) ==
    \A i \in DOMAIN sock[d].inq : IsAsk(sock[d].inq[i]) =>
        /\ sock[d].inq[i][2] <= nmsg
        /\ msg[sock[d].inq[i][2]].st = "unread"

(* No request is held twice.                                               *)
AskedOnce ==
    \A d, e \in Sd : \A i \in DOMAIN sock[d].inq, j \in DOMAIN sock[e].inq :
        /\ IsAsk(sock[d].inq[i]) /\ IsAsk(sock[e].inq[j])
        /\ sock[d].inq[i][2] = sock[e].inq[j][2]
        => d = e /\ i = j

(* Requests that the proxy has not read are unused.                        *)
Unread ==
    /\ \A m \in Msg : m > nmsg => msg[m].st = "unread"
    /\ \A d \in Sd : Fresh(d)
    /\ AskedOnce

(* The requests of q are among those of p, each where n says.              *)
Sub(p, q) == \E n \in Int : \A i \in DOMAIN p :
                IsAsk(p[i]) => n + i \in DOMAIN q /\ p[i] = q[n + i]

(* A queue, what is left of it and what is added of other kinds bring no   *)
(* request.                                                                *)
LEMMA SubFacts ==
    ASSUME NEW S, NEW q \in Seq(S)
    PROVE  /\ Sub(q, q) /\ Sub(<<>>, q)
           /\ \A p \in Seq(S) : Suffix(p, q) => Sub(p, q)
           /\ \A x \in S : ~IsAsk(x) => Sub(Append(q, x), q)
<1> DEFINE z == 0
<1>0. z \in Int /\ \A i \in Int : z + i = i
    OBVIOUS
<1> HIDE DEF z
<1>1. Sub(q, q)
  <2>1. DOMAIN q = 1..Len(q)
      BY LenProperties
  <2>2. \A i \in DOMAIN q : z + i \in DOMAIN q /\ q[i] = q[z + i]
      BY <1>0, <2>1
  <2> QED BY <1>0, <2>2 DEF Sub
<1>2. Sub(<<>>, q)
  <2>1. DOMAIN <<>> = {}
      OBVIOUS
  <2>2. 0 \in Int
      OBVIOUS
  <2> QED BY <2>1, <2>2 DEF Sub
<1>3. ASSUME NEW p \in Seq(S), Suffix(p, q)
      PROVE  Sub(p, q)
  <2>1. PICK n \in 0..Len(q) : /\ Len(p) = Len(q) - n
                               /\ \A i \in 1..Len(p) : p[i] = q[n + i]
      BY <1>3 DEF Suffix
  <2>2. \A i \in DOMAIN p : n + i \in DOMAIN q /\ p[i] = q[n + i]
    <3>1. /\ DOMAIN q = 1..Len(q) /\ DOMAIN p = 1..Len(p)
          /\ Len(q) \in Nat /\ Len(p) \in Nat
        BY LenProperties
    <3> QED BY <2>1, <3>1
  <2> QED BY <2>1, <2>2 DEF Sub
<1>4. ASSUME NEW x \in S, ~IsAsk(x)
      PROVE  Sub(Append(q, x), q)
  <2>1. /\ DOMAIN Append(q, x) = 1..(Len(q) + 1) /\ DOMAIN q = 1..Len(q)
        /\ \A i \in 1..(Len(q) + 1) : Append(q, x)[i] = IF i = Len(q) + 1 THEN x ELSE q[i]
      BY AppendProperties
  <2>2. \A i \in DOMAIN Append(q, x) : IsAsk(Append(q, x)[i]) =>
           z + i \in DOMAIN q /\ Append(q, x)[i] = q[z + i]
    <3> SUFFICES ASSUME NEW i \in DOMAIN Append(q, x), IsAsk(Append(q, x)[i])
                 PROVE  z + i \in DOMAIN q /\ Append(q, x)[i] = q[z + i]
        OBVIOUS
    <3>1. i \in 1..(Len(q) + 1) /\ i # Len(q) + 1 /\ Len(q) \in Nat
        BY <1>4, <2>1, LenProperties
    <3>2. i \in 1..Len(q) /\ z + i = i
        BY <1>0, <3>1
    <3> QED BY <2>1, <3>1, <3>2
  <2> QED BY <1>0, <2>2 DEF Sub
<1> QED BY <1>1, <1>2, <1>3, <1>4

(* A step that brings no request and frees none of them leaves the unread  *)
(* ones unread.                                                            *)
LEMMA UnreadKept ==
    ASSUME IInv, IInv', Unread, nmsg' = nmsg,
           \A m \in Msg : msg[m].st = "unread" => msg'[m].st = "unread",
           \A d \in Sd : Sub(sock'[d].inq, sock[d].inq)
    PROVE  Unread'
<1>1. \A m \in Msg : m > nmsg' => msg'[m].st = "unread"
    BY DEF Unread
<1>2. \A d \in Sd : sock[d].inq \in Seq(Item) /\ sock[d].inq \in Seq(Item)
    BY SockTypes
<1>3. ASSUME NEW d \in Sd, NEW i \in DOMAIN sock[d].inq, IsAsk(sock[d].inq[i])
      PROVE  sock[d].inq[i][2] \in Msg
  <2>1. sock[d].inq[i] \in Item
      BY <1>2
  <2> QED BY <1>3, <2>1 DEF Item, IsAsk
<1>4. ASSUME NEW d \in Sd
      PROVE  Fresh(d)'
  <2>1. PICK n \in Int : \A i \in DOMAIN sock'[d].inq : IsAsk(sock'[d].inq[i]) =>
           n + i \in DOMAIN sock[d].inq /\ sock'[d].inq[i] = sock[d].inq[n + i]
      BY DEF Sub
  <2>2. ASSUME NEW i \in DOMAIN sock'[d].inq, IsAsk(sock'[d].inq[i])
        PROVE  /\ sock'[d].inq[i][2] <= nmsg'
               /\ msg'[sock'[d].inq[i][2]].st = "unread"
    <3>1. n + i \in DOMAIN sock[d].inq /\ sock'[d].inq[i] = sock[d].inq[n + i]
        BY <2>1, <2>2
    <3>2. IsAsk(sock[d].inq[n + i]) /\ sock[d].inq[n + i][2] \in Msg
        BY <1>3, <2>2, <3>1
    <3>3. sock[d].inq[n + i][2] <= nmsg /\ msg[sock[d].inq[n + i][2]].st = "unread"
        BY <3>1, <3>2 DEF Unread, Fresh
    <3> QED BY <3>1, <3>2, <3>3
  <2> QED BY <2>2 DEF Fresh
<1>5. ASSUME NEW d \in Sd, NEW e \in Sd,
             NEW i \in DOMAIN sock'[d].inq, NEW j \in DOMAIN sock'[e].inq,
             IsAsk(sock'[d].inq[i]), IsAsk(sock'[e].inq[j]),
             sock'[d].inq[i][2] = sock'[e].inq[j][2]
      PROVE  d = e /\ i = j
  <2>1. PICK n \in Int : \A x \in DOMAIN sock'[d].inq : IsAsk(sock'[d].inq[x]) =>
           n + x \in DOMAIN sock[d].inq /\ sock'[d].inq[x] = sock[d].inq[n + x]
      BY DEF Sub
  <2>2. PICK k \in Int : \A x \in DOMAIN sock'[e].inq : IsAsk(sock'[e].inq[x]) =>
           k + x \in DOMAIN sock[e].inq /\ sock'[e].inq[x] = sock[e].inq[k + x]
      BY DEF Sub
  <2>3. d = e /\ n + i = k + j
      BY <1>5, <2>1, <2>2 DEF Unread, AskedOnce
  <2>4. d = e /\ n + i = n + j
    <3>1. n + j \in DOMAIN sock[d].inq /\ sock'[d].inq[j] = sock[d].inq[n + j]
        BY <1>5, <2>1, <2>3
    <3>2. n + i \in DOMAIN sock[d].inq /\ sock'[d].inq[i] = sock[d].inq[n + i]
        BY <1>5, <2>1
    <3> QED BY <1>5, <2>3, <3>1, <3>2 DEF Unread, AskedOnce
  <2>5. i \in Int /\ j \in Int
    <3>1. sock'[d].inq \in Seq(Item)
        BY DEF IInv, TypeOK, SockRec
    <3> QED BY <2>3, <3>1
  <2> QED BY <2>4, <2>5
<1> QED BY <1>1, <1>4, <1>5 DEF Unread, AskedOnce

-----------------------------------------------------------------------------
(* A request in the out_q of client k.                                     *)
Owned(k, m) == /\ msg[m].st = "live" /\ msg[m].owner = k
               /\ ~msg[m].swallow /\ ~msg[m].noreply

(* The out_q of a client (conn->omsg_q) holds its own live requests, each  *)
(* once.                                                                   *)
ClientFit(k) == k \in Clients =>
    /\ IsInjective(conn[k].omsg_q)
    /\ \A m \in ToSet(conn[k].omsg_q) : Owned(k, m)

(* A request in a queue of server connection c.                            *)
OwnedOrNot(m) == \/ msg[m].swallow
                 \/ /\ msg[m].owner \in Clients
                    /\ m \in ToSet(conn[msg[m].owner].omsg_q)

(* A request in a queue of c is live and not done, has its timer there,    *)
(* and its client (unless it left) has it in its out_q.                    *)
Waits(c, m) ==
    /\ msg[m].st = "live" /\ ~msg[m].done /\ ~msg[m].error
    /\ ~msg[m].noreply => /\ TIMEOUT => msg[m].tmo = c
                          /\ OwnedOrNot(m)
    /\ msg[m].noreply => m \notin ToSet(conn[c].omsg_q)

(* The queues of a server connection hold requests that wait, each once.   *)
ServerFit(c) == c \in Servers =>
    /\ IsInjective(conn[c].imsg_q) /\ IsInjective(conn[c].omsg_q)
    /\ ToSet(conn[c].imsg_q) \cap ToSet(conn[c].omsg_q) = {}
    /\ \A m \in Queued(c) : Waits(c, m)

(* No request is at two servers.                                           *)
QueuesApart == \A c, k \in Servers : c # k => Queued(c) \cap Queued(k) = {}

(* A timer that is set belongs to a live request (the tree of timeouts     *)
(* holds no freed message).                                                *)
TimedLive == \A m \in Msg : msg[m].tmo # None => msg[m].st = "live"

(* The request that req_forward forwards.                                  *)
Forwarded == pc \in Forwarding =>
    /\ msg[cmsg].st = "live" /\ ~msg[cmsg].done /\ ~msg[cmsg].error
    /\ ~msg[cmsg].swallow /\ msg[cmsg].owner = cur
    /\ \A c \in Servers : cmsg \notin Queued(c)
    /\ cmsg \in ToSet(conn[cur].omsg_q) <=> pc # "forward" /\ ~msg[cmsg].noreply

(* Where the requests are.                                                 *)
Queueing ==
    /\ \A k \in Conn : ClientFit(k) /\ ServerFit(k)
    /\ QueuesApart /\ TimedLive /\ Forwarded

(* Where all requests are, read or not.                                    *)
Requests == Unread /\ Queueing

(* Queues hold requests, each once.                                        *)
LEMMA QueueTypes ==
    ASSUME IInv, NEW k \in Conn
    PROVE  /\ conn[k].imsg_q \in Seq(Msg) /\ conn[k].omsg_q \in Seq(Msg)
           /\ Queued(k) \subseteq Msg
           /\ ToSet(conn[k].imsg_q) \subseteq Msg /\ ToSet(conn[k].omsg_q) \subseteq Msg
<1>1. conn[k].imsg_q \in Seq(Msg) /\ conn[k].omsg_q \in Seq(Msg)
    BY DEF IInv, TypeOK, ConnRec
<1> QED BY <1>1 DEF Queued, ToSet

(* The head of a queue is in it.                                           *)
LEMMA HeadIn ==
    ASSUME NEW q \in Seq(Msg), q # <<>>
    PROVE  Head(q) \in ToSet(q) /\ Head(q) \in Msg
  BY TailFacts

(* What closing a connection does to a request.                            *)
LEMMA ClosingMsgs ==
    ASSUME IInv, NEW c \in Conn, Closing(c), NEW m \in Msg
    PROVE  /\ conn[c].client /\ m \in ToSet(conn[c].omsg_q) /\ msg[m].done
              => msg'[m].st = "freed" /\ msg'[m].tmo = None
           /\ conn[c].client /\ m \in ToSet(conn[c].omsg_q) /\ ~msg[m].done
              => /\ msg'[m].st = msg[m].st /\ msg'[m].swallow
                 /\ ~msg'[m].done /\ msg'[m].error = msg[m].error
                 /\ msg'[m].noreply = msg[m].noreply
                 /\ msg'[m].tmo = msg[m].tmo \/ (msg'[m].tmo = None /\ msg[m].tmo = c)
           /\ ~(conn[c].client /\ m \in ToSet(conn[c].omsg_q))
              => /\ msg'[m].st = msg[m].st /\ msg'[m].swallow = msg[m].swallow
                 /\ msg'[m].done = msg[m].done /\ msg'[m].error = msg[m].error
                 /\ msg'[m].noreply = msg[m].noreply /\ msg'[m].owner = msg[m].owner
                 /\ msg'[m].tmo = msg[m].tmo \/ (msg'[m].tmo = None /\ msg[m].tmo = c)
<1>1. PICK mg \in [Msg -> MsgRec] :
         /\ Closes(c, mg)
         /\ \/ mg = msg
            \/ \E n \in Msg : msg[n].tmo = c /\ mg = [msg EXCEPT ![n] = msg_tmo_delete(@)]
    BY DEF Closing
<1>2. msg \in [Msg -> MsgRec]
    BY DEF IInv, TypeOK
<1>3. /\ mg[m].st = msg[m].st /\ mg[m].swallow = msg[m].swallow
      /\ mg[m].done = msg[m].done /\ mg[m].error = msg[m].error
      /\ mg[m].noreply = msg[m].noreply /\ mg[m].owner = msg[m].owner
      /\ mg[m].tmo = msg[m].tmo \/ (mg[m].tmo = None /\ msg[m].tmo = c)
  <2>1. CASE mg = msg
      BY <2>1
  <2>2. ASSUME NEW n \in Msg, msg[n].tmo = c, mg = [msg EXCEPT ![n] = msg_tmo_delete(@)]
        PROVE  /\ mg[m].st = msg[m].st /\ mg[m].swallow = msg[m].swallow
               /\ mg[m].done = msg[m].done /\ mg[m].error = msg[m].error
               /\ mg[m].noreply = msg[m].noreply /\ mg[m].owner = msg[m].owner
               /\ mg[m].tmo = msg[m].tmo \/ (mg[m].tmo = None /\ msg[m].tmo = c)
    <3> DEFINE y == msg_tmo_delete(msg[n])
    <3>1. mg = [msg EXCEPT ![n] = y]
        BY <1>2, <2>2
    <3>2. /\ y.st = msg[n].st /\ y.swallow = msg[n].swallow
          /\ y.done = msg[n].done /\ y.error = msg[n].error
          /\ y.noreply = msg[n].noreply /\ y.owner = msg[n].owner
          /\ y.tmo = None
        BY <1>2, PutFacts
    <3> HIDE DEF y
    <3>3. CASE m = n
        BY <1>2, <2>2, <3>1, <3>2, <3>3
    <3>4. CASE m # n
        BY <1>2, <3>1, <3>4
    <3> QED BY <3>3, <3>4
  <2> QED BY <1>1, <2>1, <2>2
<1>4. mg[m] \in MsgRec
    OBVIOUS
<1>5. CASE conn[c].client /\ m \in ToSet(conn[c].omsg_q)
  <2>1. msg'[m] = Abandoned(mg[m])
      BY <1>1, <1>5 DEF Closes
  <2>2. mg[m].done => msg'[m].st = "freed" /\ msg'[m].tmo = None
    <3> DEFINE y == req_put(mg[m])
    <3>1. y.st = "freed" /\ y.tmo = None /\ (mg[m].done => Abandoned(mg[m]) = y)
        BY <1>4, PutFacts
    <3> HIDE DEF y
    <3> QED BY <2>1, <3>1
  <2>3. ~mg[m].done => /\ msg'[m].st = mg[m].st /\ msg'[m].tmo = mg[m].tmo
                       /\ msg'[m].swallow /\ ~msg'[m].done
                       /\ msg'[m].error = mg[m].error /\ msg'[m].noreply = mg[m].noreply
      BY <1>4, <2>1, PutFacts
  <2> QED BY <1>3, <1>5, <2>2, <2>3
<1>6. CASE ~(conn[c].client /\ m \in ToSet(conn[c].omsg_q))
  <2>1. msg'[m] = mg[m]
      BY <1>1, <1>6 DEF Closes
  <2> QED BY <1>3, <1>6, <2>1
<1> QED BY <1>5, <1>6

(* Nor to what sockets hold.                                               *)
LEMMA ClosingSocks ==
    ASSUME IInv, NEW c \in Conn, Closing(c), NEW d \in Sd
    PROVE  /\ sock'[d].inq = sock[d].inq /\ sock'[d].wire = sock[d].wire
           /\ sock'[d].server = sock[d].server /\ sock'[d].up = sock[d].up
           /\ sock'[d].kerr = sock[d].kerr /\ sock'[d].rdy = sock[d].rdy
           /\ sock'[d].full = sock[d].full /\ sock'[d].hup = sock[d].hup
<1> DEFINE p == sock'[d].ptr
           o == sock'[d].open
           y == sock'[d]
<1>1. y = [sock[d] EXCEPT !.ptr = p, !.open = o]
    BY DEF Closing, Closes
<1>2. sock[d] \in SockRec
    BY DEF IInv, TypeOK
<1> HIDE DEF p, o, y
<1>3. /\ y.inq = sock[d].inq /\ y.wire = sock[d].wire
      /\ y.server = sock[d].server /\ y.up = sock[d].up
      /\ y.kerr = sock[d].kerr /\ y.rdy = sock[d].rdy
      /\ y.full = sock[d].full /\ y.hup = sock[d].hup
    BY <1>1, <1>2 DEF SockRec
<1> QED BY <1>3 DEF y

-----------------------------------------------------------------------------

(* The inductive invariant of the requests.                                *)
Proper == IInv /\ Wiring /\ Requests

(* The requests that queues hold are live.                                 *)
LEMMA QueuedLive ==
    ASSUME Proper, NEW k \in Conn, Attached(k), NEW m \in Queued(k)
    PROVE  m \in Msg /\ msg[m].st = "live"
<1>1. m \in Msg
    BY QueueTypes DEF Proper
<1>2. CASE conn[k].client
  <2>1. k \in Clients /\ ClientFit(k)
      BY <1>2 DEF Clients, Proper, Requests, Queueing
  <2>2. conn[k].imsg_q = <<>>
      BY <1>2 DEF Proper, Wiring, Structures
  <2>3. m \in ToSet(conn[k].omsg_q)
      BY <2>2 DEF Queued, ToSet
  <2> QED BY <1>1, <2>1, <2>3 DEF ClientFit, Owned
<1>3. CASE ~conn[k].client
  <2>1. k \in Servers /\ ServerFit(k)
      BY <1>3 DEF Servers, Proper, Requests, Queueing
  <2> QED BY <1>1, <2>1 DEF ServerFit, Waits
<1> QED BY <1>2, <1>3

(* Reading brings no request.                                              *)
LEMMA ReadSub ==
    ASSUME IInv, cur \in Conn, conn[cur].sd \in Sd, SocksRead
    PROVE  \A d \in Sd : Sub(sock'[d].inq, sock[d].inq)
<1> SUFFICES ASSUME NEW d \in Sd PROVE Sub(sock'[d].inq, sock[d].inq)
    OBVIOUS
<1>1. sock[d].inq \in Seq(Item)
    BY SockTypes
<1>2. CASE d = conn[cur].sd
  <2>1. sock[d].inq # <<>> /\ sock'[d].inq = Tail(sock[d].inq)
      BY <1>2 DEF SocksRead, Sk
  <2>2. Tail(sock[d].inq) \in Seq(Item) /\ Suffix(Tail(sock[d].inq), sock[d].inq)
      BY <1>1, <2>1, TailFacts, SuffixFacts
  <2> QED BY <1>1, <2>1, <2>2, SubFacts
<1>3. CASE d # conn[cur].sd
    BY <1>1, <1>3, SubFacts DEF SocksRead
<1> QED BY <1>2, <1>3

(* req_recv_done: the request that was read is in no socket any more.      *)
LEMMA UnreadTaken ==
    ASSUME Proper, IInv', NEW m \in Msg, Taking(m)
    PROVE  Unread'
<1> DEFINE e == conn[cur].sd
<1>1. /\ IInv /\ Unread
      /\ pc = "recv" /\ cur \in Conn /\ nmsg' = nmsg
      /\ SocksRead /\ IsAsk(Next1(cur)) /\ Next1(cur)[2] = m
      /\ \A n \in Msg \ {m} : msg'[n] = msg[n]
    BY DEF Proper, Requests, Taking, Clients, IsAsk
<1>2. e \in Sd /\ \A d \in Sd : sock[d].inq \in Seq(Item)
    BY <1>1, CurFacts, SockTypes DEF Handling
<1>3. /\ sock[e].inq # <<>> /\ sock'[e].inq = Tail(sock[e].inq)
      /\ \A d \in Sd \ {e} : sock'[d].inq = sock[d].inq
      /\ Head(sock[e].inq) = Next1(cur)
    BY <1>1, <1>2 DEF SocksRead, Next1, Sk
<1> HIDE DEF e
<1>4. /\ 1 \in DOMAIN sock[e].inq /\ sock[e].inq[1] = Next1(cur)
      /\ DOMAIN sock'[e].inq \subseteq Nat
      /\ \A i \in DOMAIN sock'[e].inq : /\ i + 1 \in DOMAIN sock[e].inq
                                        /\ sock'[e].inq[i] = sock[e].inq[i + 1]
                                        /\ i + 1 # 1
  <2> DEFINE q == sock[e].inq
  <2>1. q \in Seq(Item) /\ q # <<>>
      BY <1>2, <1>3
  <2> HIDE DEF q
  <2>2. /\ Head(q) = q[1] /\ 1 \in DOMAIN q
        /\ Tail(q) \in Seq(Item) /\ DOMAIN Tail(q) = 1..(Len(q) - 1)
        /\ DOMAIN q = 1..Len(q) /\ Len(q) \in Nat
        /\ \A i \in 1..(Len(q) - 1) : Tail(q)[i] = q[i + 1]
    <3>1. /\ Len(q) \in Nat /\ Len(q) # 0
          /\ DOMAIN q = 1..Len(q)
        BY <2>1, LenProperties, EmptySeq
    <3>2. /\ Tail(q) \in Seq(Item) /\ Len(Tail(q)) = Len(q) - 1
          /\ \A i \in 1..Len(Tail(q)) : Tail(q)[i] = q[i + 1]
        BY <2>1, HeadTailProperties
    <3>3. DOMAIN Tail(q) = 1..Len(Tail(q))
        BY <3>2, LenProperties
    <3> QED BY <2>1, <3>1, <3>2, <3>3
  <2>3. \A i \in 1..(Len(q) - 1) : i + 1 \in 1..Len(q) /\ i + 1 # 1 /\ i \in Nat
      BY <2>2
  <2> QED BY <1>3, <2>2, <2>3 DEF q
<1>5. \A k \in Msg : k > nmsg' => msg'[k].st = "unread"
  <2>1. m <= nmsg
      BY <1>1, <1>2, <1>4 DEF Unread, Fresh
  <2>2. nmsg \in Nat /\ m \in Nat
      BY DEF Proper, IInv, TypeOK, Msg
  <2>3. ASSUME NEW k \in Msg, k > nmsg PROVE k # m
      BY <2>1, <2>2, <2>3
  <2> QED BY <1>1, <2>3 DEF Unread
(* Where an item was before.                                               *)
<1>6. ASSUME NEW d \in Sd, NEW i \in DOMAIN sock'[d].inq
      PROVE  \E j \in DOMAIN sock[d].inq : /\ sock'[d].inq[i] = sock[d].inq[j]
                                           /\ j = IF d = e THEN i + 1 ELSE i
                                           /\ d # e \/ j # 1
    BY <1>3, <1>4, <1>6
<1>7. ASSUME NEW d \in Sd
      PROVE  Fresh(d)'
  <2> SUFFICES ASSUME NEW i \in DOMAIN sock'[d].inq, IsAsk(sock'[d].inq[i])
               PROVE  /\ sock'[d].inq[i][2] <= nmsg'
                      /\ msg'[sock'[d].inq[i][2]].st = "unread"
      BY DEF Fresh
  <2>1. PICK j \in DOMAIN sock[d].inq : sock'[d].inq[i] = sock[d].inq[j] /\ (d # e \/ j # 1)
      BY <1>6
  <2>2. sock[d].inq[j][2] <= nmsg /\ msg[sock[d].inq[j][2]].st = "unread"
      BY <1>1, <2>1 DEF Unread, Fresh
  <2>3. sock[d].inq[j][2] # m
      BY <1>1, <1>2, <1>4, <2>1 DEF Unread, AskedOnce
  <2>4. sock[d].inq[j][2] \in Msg
    <3>1. sock[d].inq[j] \in Item
        BY <1>2
    <3> QED BY <2>1, <3>1 DEF Item, IsAsk
  <2> QED BY <1>1, <2>1, <2>2, <2>3, <2>4
<1>8. AskedOnce'
  <2> SUFFICES ASSUME NEW d \in Sd, NEW f \in Sd,
                      NEW i \in DOMAIN sock'[d].inq, NEW j \in DOMAIN sock'[f].inq,
                      IsAsk(sock'[d].inq[i]), IsAsk(sock'[f].inq[j]),
                      sock'[d].inq[i][2] = sock'[f].inq[j][2]
               PROVE  d = f /\ i = j
      BY DEF AskedOnce
  <2>1. PICK x \in DOMAIN sock[d].inq : /\ sock'[d].inq[i] = sock[d].inq[x]
                                        /\ x = IF d = e THEN i + 1 ELSE i
      BY <1>6
  <2>2. PICK y \in DOMAIN sock[f].inq : /\ sock'[f].inq[j] = sock[f].inq[y]
                                        /\ y = IF f = e THEN j + 1 ELSE j
      BY <1>6
  <2>3. d = f /\ x = y
      BY <1>1, <2>1, <2>2 DEF Unread, AskedOnce
  <2> QED BY <1>4, <2>1, <2>2, <2>3
<1> QED BY <1>5, <1>7, <1>8 DEF Unread

(* A client asks with a request never used.                                *)
LEMMA UnreadAsked ==
    ASSUME Proper, IInv', NEW d \in Sd, Asking(d)
    PROVE  Unread'
<1>1. IInv /\ Unread /\ msg' = msg /\ sock[d].inq \in Seq(Item)
      /\ \A e \in Sd \ {d} : sock'[e] = sock[e]
    BY SockTypes DEF Proper, Requests, Asking, SockSteps, LoopStill
<1>2. \A e \in Sd : sock[e].inq \in Seq(Item)
    BY <1>1, SockTypes
<1>3. CASE nmsg' = nmsg
  <2>1. PICK k \in {"quit", "eof"} : sock'[d].inq = Append(sock[d].inq, <<k, None>>)
    <3>1. nmsg \in Nat
        BY <1>1 DEF IInv, TypeOK
    <3>2. nmsg' # nmsg + 1
        BY <1>3, <3>1
    <3> QED BY <3>2 DEF Asking
  <2>2. <<k, None>> \in Item /\ ~IsAsk(<<k, None>>)
      BY DEF Item, IsAsk
  <2>3. \A e \in Sd : Sub(sock'[e].inq, sock[e].inq)
      BY <1>1, <1>2, <2>1, <2>2, SubFacts
  <2> QED BY <1>1, <1>3, <2>3, UnreadKept
<1>4. CASE nmsg' # nmsg
  <2>1. PICK k \in {"get", "set"} : sock'[d].inq = Append(sock[d].inq, <<k, nmsg + 1>>)
      BY <1>4 DEF Asking
  <2>2. nmsg' = nmsg + 1 /\ nmsg < MaxMsg
      BY <1>4 DEF Asking
  <2>3. nmsg \in Nat /\ nmsg + 1 \in Msg /\ Msg \subseteq Nat
      BY <1>1, <2>2, ConstantsAssumption DEF IInv, TypeOK, Msg
  <2> DEFINE q == sock[d].inq
             x == <<k, nmsg + 1>>
  <2>4. /\ DOMAIN sock'[d].inq = 1..(Len(q) + 1) /\ DOMAIN q = 1..Len(q) /\ Len(q) \in Nat
        /\ \A i \in 1..(Len(q) + 1) : sock'[d].inq[i] = IF i = Len(q) + 1 THEN x ELSE q[i]
    <3>1. q \in Seq(Item) /\ x \in Item /\ sock'[d].inq = Append(q, x)
        BY <1>1, <2>1, <2>3 DEF Item
    <3> HIDE DEF q, x
    <3> QED BY <3>1, AppendProperties, LenProperties
(* An item was there before or is the new request.                         *)
  <2>5. ASSUME NEW e \in Sd, NEW i \in DOMAIN sock'[e].inq
        PROVE  \/ i \in DOMAIN sock[e].inq /\ sock'[e].inq[i] = sock[e].inq[i]
               \/ e = d /\ i = Len(q) + 1 /\ sock'[e].inq[i][2] = nmsg + 1
    <3>1. CASE e # d
        BY <1>1, <2>5, <3>1
    <3>2. CASE e = d
      <4>1. i \in 1..(Len(q) + 1)
          BY <2>4, <2>5, <3>2
      <4>2. CASE i = Len(q) + 1
          BY <2>4, <3>2, <4>1, <4>2
      <4>3. CASE i # Len(q) + 1
          BY <2>4, <3>2, <4>1, <4>3
      <4> QED BY <4>2, <4>3
    <3> QED BY <3>1, <3>2
  <2>6. ASSUME NEW e \in Sd, NEW i \in DOMAIN sock[e].inq, IsAsk(sock[e].inq[i])
        PROVE  sock[e].inq[i][2] \in Msg /\ sock[e].inq[i][2] <= nmsg
               /\ msg[sock[e].inq[i][2]].st = "unread" /\ sock[e].inq[i][2] # nmsg + 1
    <3>1. sock[e].inq[i] \in Item
        BY <1>2
    <3>2. sock[e].inq[i][2] \in Msg
        BY <2>6, <3>1 DEF Item, IsAsk
    <3>3. sock[e].inq[i][2] <= nmsg /\ msg[sock[e].inq[i][2]].st = "unread"
        BY <1>1, <2>6 DEF Unread, Fresh
    <3> QED BY <2>3, <3>2, <3>3
  <2>7. msg[nmsg + 1].st = "unread"
    <3>1. nmsg + 1 > nmsg
        BY <2>3
    <3> QED BY <1>1, <2>3, <3>1 DEF Unread
  <2>8. \A n \in Msg : n > nmsg' => msg'[n].st = "unread"
    <3>1. \A n \in Msg : n > nmsg + 1 => n > nmsg
        BY <2>3
    <3> QED BY <1>1, <2>2, <3>1 DEF Unread
  <2>9. ASSUME NEW e \in Sd
        PROVE  Fresh(e)'
    <3> SUFFICES ASSUME NEW i \in DOMAIN sock'[e].inq, IsAsk(sock'[e].inq[i])
                 PROVE  /\ sock'[e].inq[i][2] <= nmsg'
                        /\ msg'[sock'[e].inq[i][2]].st = "unread"
        BY DEF Fresh
    <3>1. CASE i \in DOMAIN sock[e].inq /\ sock'[e].inq[i] = sock[e].inq[i]
      <4>1. sock[e].inq[i][2] \in Nat /\ sock[e].inq[i][2] <= nmsg
            /\ msg[sock[e].inq[i][2]].st = "unread"
          BY <2>3, <2>6, <3>1
      <4> QED BY <1>1, <2>2, <2>3, <3>1, <4>1
    <3>2. CASE sock'[e].inq[i][2] = nmsg + 1
        BY <1>1, <2>2, <2>3, <2>7, <3>2
    <3> QED BY <2>5, <3>1, <3>2
  <2>10. AskedOnce'
    <3> HIDE DEF q
    <3> SUFFICES ASSUME NEW e \in Sd, NEW f \in Sd,
                      NEW i \in DOMAIN sock'[e].inq, NEW j \in DOMAIN sock'[f].inq,
                      IsAsk(sock'[e].inq[i]), IsAsk(sock'[f].inq[j]),
                      sock'[e].inq[i][2] = sock'[f].inq[j][2]
               PROVE  e = f /\ i = j
      BY DEF AskedOnce
    <3>1. CASE i \in DOMAIN sock[e].inq /\ sock'[e].inq[i] = sock[e].inq[i]
      <4>1. sock'[e].inq[i][2] # nmsg + 1
          BY <2>6, <3>1
      <4>2. j \in DOMAIN sock[f].inq /\ sock'[f].inq[j] = sock[f].inq[j]
          BY <2>5, <4>1
      <4> QED BY <1>1, <3>1, <4>2 DEF Unread, AskedOnce
    <3>2. CASE e = d /\ i = Len(q) + 1 /\ sock'[e].inq[i][2] = nmsg + 1
      <4>1. ~(j \in DOMAIN sock[f].inq /\ sock'[f].inq[j] = sock[f].inq[j])
          BY <2>6, <3>2
      <4> QED BY <2>5, <3>2, <4>1
    <3> QED BY <2>5, <3>1, <3>2
  <2> QED BY <2>8, <2>9, <2>10 DEF Unread
<1> QED BY <1>3, <1>4

-----------------------------------------------------------------------------

(* Every step leaves the requests that nobody read unread.                 *)
LEMMA UnreadStep ==
    ASSUME Proper, IInv', LoopDoes \/ PeersDo
    PROVE  Unread'
<1>1. IInv /\ Unread /\ Sockets /\ \A d \in Sd : sock[d].inq \in Seq(Item)
    BY SockTypes DEF Proper, Requests, Wiring
<1>2. \A d \in Sd : sock'[d].inq \in Seq(Item)
    BY DEF IInv, TypeOK, SockRec
<1>3. ASSUME nmsg' = nmsg, NEW m \in Msg, msg[m].st # "unread",
             \A n \in Msg \ {m} : msg'[n] = msg[n],
             \A d \in Sd : Sub(sock'[d].inq, sock[d].inq)
      PROVE  Unread'
  <2>1. \A n \in Msg : msg[n].st = "unread" => msg'[n].st = "unread"
      BY <1>3
  <2> QED BY <1>1, <1>3, <2>1, UnreadKept
<1>4. ASSUME nmsg' = nmsg, msg' = msg, \A d \in Sd : Sub(sock'[d].inq, sock[d].inq)
      PROVE  Unread'
    BY <1>1, <1>4, UnreadKept
<1>5. ASSUME \A d \in Sd : sock'[d].inq = sock[d].inq
      PROVE  \A d \in Sd : Sub(sock'[d].inq, sock[d].inq)
    BY <1>1, <1>5, SubFacts
<1>6. CASE Idle
  <2>1. \A d \in Sd : Sub(sock'[d].inq, sock[d].inq)
      BY <1>1, <1>2, <1>6, SubFacts DEF Idle, SockKept
  <2> QED BY <1>4, <1>6, <2>1 DEF Idle
<1>7. ASSUME NEW c \in Conn, Closing(c)
      PROVE  Unread'
  <2>1. nmsg' = nmsg /\ \A d \in Sd : sock'[d].inq = sock[d].inq
      BY <1>1, <1>7, ClosingSocks DEF Closing
  <2>2. ASSUME NEW m \in Msg, msg[m].st = "unread"
        PROVE  msg'[m].st = "unread"
    <3>1. ~(conn[c].client /\ m \in ToSet(conn[c].omsg_q))
      <4>1. CASE conn[c].client /\ m \in ToSet(conn[c].omsg_q)
        <5>1. Attached(c)
            BY <1>7 DEF Closing, Closes
        <5>2. m \in Queued(c)
            BY <4>1 DEF Queued
        <5> QED BY <2>2, <5>1, <5>2, QueuedLive
      <4> QED BY <4>1
    <3> QED BY <1>1, <1>7, <2>2, <3>1, ClosingMsgs
  <2>3. \A m \in Msg : msg[m].st = "unread" => msg'[m].st = "unread"
      BY <2>2
  <2> QED BY <1>1, <1>5, <2>1, <2>3, UnreadKept
<1>8. ASSUME NEW m \in Msg, Settling(m)
      PROVE  Unread'
  <2>1. /\ nmsg' = nmsg /\ sock' = sock /\ msg \in [Msg -> MsgRec]
        /\ msg' = [msg EXCEPT ![m] = msg_tmo_delete(@)]
      BY <1>1, <1>8 DEF Settling, IInv, TypeOK
  <2> DEFINE y == msg_tmo_delete(msg[m])
  <2>2. y.st = msg[m].st
    <3>1. msg[m] \in MsgRec
        BY <2>1
    <3> QED BY <3>1, PutFacts
  <2>3. msg' = [msg EXCEPT ![m] = y]
      BY <2>1
  <2> HIDE DEF y
  <2>4. \A n \in Msg : msg'[n].st = msg[n].st
      BY <2>1, <2>2, <2>3
  <2> QED BY <1>1, <1>5, <2>1, <2>4, UnreadKept
<1>9. ASSUME NEW c \in Conn, NEW d, Opening(c, d), msg' = msg, nmsg' = nmsg
      PROVE  Unread'
  <2>1. \A e \in Sd : sock'[e].inq = sock[e].inq \/ sock'[e].inq = <<>>
      BY <1>9 DEF Opening
  <2>2. \A e \in Sd : Sub(sock'[e].inq, sock[e].inq)
      BY <1>1, <2>1, SubFacts
  <2> QED BY <1>4, <1>9, <2>2
<1>10. ASSUME NEW c \in Conn, NEW d \in Sd, Admitting(c, d)
       PROVE  Unread'
  <2>1. d # None
      BY DEF Sd, None
  <2> QED BY <1>9, <1>10, <2>1 DEF Admitting, Opening
<1>11. ASSUME NEW c \in Conn, NEW d \in Sd \cup {None}, ReservingNew(c, d)
       PROVE  Unread'
    BY <1>9, <1>11 DEF ReservingNew, Reserving
<1>12. CASE ReservingOld \/ Refusing(scur)
    BY <1>4, <1>5, <1>12 DEF ReservingOld, ReservingLru, Reserving, Refusing
<1>13. ASSUME pc \in Forwarding
       PROVE  msg[cmsg].st = "live"
    BY <1>13 DEF Proper, Requests, Queueing, Forwarded
<1>14. CASE Erring(cmsg)
  <2>1. msg[cmsg].st # "unread"
      BY <1>13, <1>14 DEF Erring, Forwarding
  <2> QED BY <1>3, <1>5, <1>14, <2>1 DEF Erring, SocksSame
<1>15. CASE Enqueuing(cmsg, scur)
  <2>1. msg[cmsg].st # "unread"
      BY <1>13, <1>15 DEF Enqueuing, Forwarding
  <2> QED BY <1>3, <1>5, <1>15, <2>1 DEF Enqueuing, SocksSame
<1>16. ASSUME NEW m \in Msg, Taking(m) PROVE Unread'
    BY <1>16, UnreadTaken
<1>17. ASSUME NEW m \in Msg, Responding(m) PROVE Unread'
  <2>1. /\ cur \in Conn /\ Attached(cur) /\ conn[cur].omsg_q # <<>>
        /\ m = Head(conn[cur].omsg_q) /\ SocksRead /\ pc = "recv" /\ nmsg' = nmsg
        /\ \A n \in Msg \ {m} : msg'[n] = msg[n]
      BY <1>17 DEF Responding, Servers
  <2>2. m \in Queued(cur)
      BY <1>1, <2>1, QueueTypes, HeadIn DEF Queued
  <2>3. msg[m].st # "unread"
      BY <2>1, <2>2, QueuedLive
  <2>4. \A d \in Sd : Sub(sock'[d].inq, sock[d].inq)
      BY <1>1, <2>1, CurFacts, ReadSub DEF Handling
  <2> QED BY <1>3, <2>1, <2>3, <2>4
<1>18. ASSUME NEW m \in Msg, Answering(m) PROVE Unread'
  <2>1. /\ cur \in Conn /\ Attached(cur) /\ conn[cur].omsg_q # <<>>
        /\ m = Head(conn[cur].omsg_q) /\ sock' = sock /\ nmsg' = nmsg
        /\ \A n \in Msg \ {m} : msg'[n] = msg[n]
      BY <1>18 DEF Answering, Clients
  <2>2. m \in Queued(cur)
      BY <1>1, <2>1, QueueTypes, HeadIn DEF Queued
  <2>3. msg[m].st # "unread"
      BY <2>1, <2>2, QueuedLive
  <2> QED BY <1>3, <1>5, <2>1, <2>3
<1>19. ASSUME NEW m \in Msg, Sending(m) \/ Halving(m) PROVE Unread'
  <2>1. /\ cur \in Conn /\ Attached(cur) /\ conn[cur].imsg_q # <<>>
        /\ m = Head(conn[cur].imsg_q) /\ nmsg' = nmsg
        /\ \A d \in Sd : sock'[d].inq = sock[d].inq
        /\ \A n \in Msg \ {m} : msg'[n] = msg[n]
      BY <1>19 DEF Sending, Halving, Writes, Wired, Servers
  <2>2. m \in Queued(cur)
      BY <1>1, <2>1, QueueTypes, HeadIn DEF Queued
  <2>3. msg[m].st # "unread"
      BY <2>1, <2>2, QueuedLive
  <2> QED BY <1>3, <1>5, <2>1, <2>3
<1>20. CASE Resting
    BY <1>4, <1>5, <1>20 DEF Resting, LoopStill
<1>21. ASSUME NEW d \in Sd, Asking(d) PROVE Unread'
    BY <1>21, UnreadAsked
<1>22. ASSUME NEW d \in Sd, Replying(d) PROVE Unread'
  <2>1. /\ msg' = msg /\ nmsg' = nmsg /\ \A e \in Sd \ {d} : sock'[e] = sock[e]
        /\ sock[d].wire \in Seq(Msg)
      BY <1>1, <1>22, SockTypes DEF Replying, SockSteps, LoopStill
  <2>2. \E x \in Item : ~IsAsk(x) /\ sock'[d].inq = Append(sock[d].inq, x)
    <3>1. CASE sock'[d].inq = Append(sock[d].inq, <<"eof", None>>)
      <4>1. <<"eof", None>> \in Item /\ ~IsAsk(<<"eof", None>>)
          BY DEF Item, IsAsk
      <4> QED BY <3>1, <4>1
    <3>2. ASSUME NEW k \in {"rsp", "fail"}, sock[d].wire # <<>>,
                 sock'[d].inq = Append(sock[d].inq, <<k, Head(sock[d].wire)>>)
          PROVE  \E x \in Item : ~IsAsk(x) /\ sock'[d].inq = Append(sock[d].inq, x)
      <4>1. Head(sock[d].wire) \in Msg
          BY <2>1, <3>2
      <4>2. <<k, Head(sock[d].wire)>> \in Item /\ ~IsAsk(<<k, Head(sock[d].wire)>>)
          BY <4>1 DEF Item, IsAsk
      <4> QED BY <3>2, <4>2
    <3> QED BY <1>22, <3>1, <3>2 DEF Replying
  <2>3. \A e \in Sd : Sub(sock'[e].inq, sock[e].inq)
      BY <1>1, <2>1, <2>2, SubFacts
  <2> QED BY <1>4, <2>1, <2>3
<1>23. ASSUME NEW d \in Sd, Changing(d) PROVE Unread'
  <2>1. /\ msg' = msg /\ nmsg' = nmsg
        /\ \A e \in Sd : sock'[e].inq = sock[e].inq
      BY <1>23 DEF Changing, SockSteps, LoopStill
  <2> QED BY <1>4, <1>5, <2>1
<1> QED BY <1>6, <1>7, <1>8, <1>10, <1>11, <1>12, <1>14, <1>15, <1>16, <1>17, <1>18,
           <1>19, <1>20, <1>21, <1>22, <1>23 DEF LoopDoes, PeersDo

-----------------------------------------------------------------------------

(* The out_q of a client that is not touched, nor its requests, stays fit. *)
LEMMA ClientKept ==
    ASSUME Proper, NEW k \in Conn,
           (k \in Clients)' => k \in Clients /\ conn'[k].omsg_q = conn[k].omsg_q,
           \A m \in ToSet(conn[k].omsg_q) :
              /\ msg'[m].st = msg[m].st /\ msg'[m].owner = msg[m].owner
              /\ msg'[m].swallow = msg[m].swallow /\ msg'[m].noreply = msg[m].noreply
    PROVE  ClientFit(k)'
<1>1. ClientFit(k)
    BY DEF Proper, Requests, Queueing
<1> QED BY <1>1 DEF ClientFit, Owned

(* What keeps a request waiting.                                           *)
Unmoved(m) ==
    /\ msg'[m].st = msg[m].st /\ (msg'[m].done => msg[m].done)
    /\ (msg'[m].error => msg[m].error) /\ msg'[m].noreply = msg[m].noreply
    /\ TIMEOUT /\ ~msg[m].noreply => msg'[m].tmo = msg[m].tmo

(* The queues of a server connection that are not touched, nor their       *)
(* requests, stay fit.                                                     *)
LEMMA ServerKept ==
    ASSUME Proper, NEW c \in Conn,
           (c \in Servers)' => /\ c \in Servers
                               /\ conn'[c].imsg_q = conn[c].imsg_q
                               /\ conn'[c].omsg_q = conn[c].omsg_q,
           \A m \in Queued(c) : c \in Servers =>
              Unmoved(m) /\ (OwnedOrNot(m) => OwnedOrNot(m)')
    PROVE  ServerFit(c)'
<1> SUFFICES ASSUME (c \in Servers)' PROVE ServerFit(c)'
    BY DEF ServerFit
<1>1. /\ ServerFit(c) /\ c \in Servers
      /\ conn'[c].imsg_q = conn[c].imsg_q /\ conn'[c].omsg_q = conn[c].omsg_q
    BY DEF Proper, Requests, Queueing
<1>2. Queued(c)' = Queued(c)
    BY <1>1 DEF Queued
<1>3. ASSUME NEW m \in Queued(c)
      PROVE  Waits(c, m)'
    BY <1>1, <1>3 DEF ServerFit, Waits, Unmoved
<1> QED BY <1>1, <1>2, <1>3 DEF ServerFit

(* Queues that only lose requests stay apart.                              *)
LEMMA ApartKept ==
    ASSUME Proper, \A c \in Conn : (c \in Servers)' /\ Queued(c)' # {} =>
                                   c \in Servers /\ Queued(c)' \subseteq Queued(c)
    PROVE  QueuesApart'
<1>1. QueuesApart
    BY DEF Proper, Requests, Queueing
<1>2. Servers' \subseteq Conn
    BY DEF Servers
<1> SUFFICES ASSUME NEW c \in Servers', NEW k \in Servers', c # k
             PROVE  Queued(c)' \cap Queued(k)' = {}
    BY DEF QueuesApart
<1> QED BY <1>1, <1>2 DEF QueuesApart

(* A request stays with its client while the client has it, or is          *)
(* swallowed.                                                              *)
LEMMA OwnedKept ==
    ASSUME Proper, NEW m, msg'[m].swallow = msg[m].swallow \/ msg'[m].swallow,
           msg'[m].owner = msg[m].owner \/ msg'[m].swallow,
           \A k \in Clients : msg[m].owner = k /\ m \in ToSet(conn[k].omsg_q) =>
              \/ msg'[m].swallow
              \/ (k \in Clients)' /\ m \in ToSet(conn'[k].omsg_q)
    PROVE  OwnedOrNot(m) => OwnedOrNot(m)'
  BY DEF OwnedOrNot

(* Steps that touch no queue, and of the requests at most a timer that is  *)
(* not needed any more.                                                    *)
LEMMA QueueingKept ==
    ASSUME Proper, \A k \in Conn : Kept(k),
           \A m \in Msg :
              /\ msg'[m].st = msg[m].st /\ msg'[m].owner = msg[m].owner
              /\ msg'[m].swallow = msg[m].swallow /\ msg'[m].noreply = msg[m].noreply
              /\ msg'[m].done = msg[m].done /\ msg'[m].error = msg[m].error
              /\ \/ msg'[m].tmo = msg[m].tmo
                 \/ msg'[m].tmo = None /\ (msg[m].done \/ msg[m].error),
           \/ pc' \notin Forwarding
           \/ pc' = pc /\ cmsg' = cmsg /\ cur' = cur
    PROVE  Queueing'
<1>1. /\ IInv /\ \A k \in Conn : ClientFit(k) /\ ServerFit(k)
      /\ QueuesApart /\ TimedLive /\ Forwarded
    BY DEF Proper, Requests, Queueing
<1>2. Clients' = Clients /\ Servers' = Servers
    BY DEF Clients, Servers, Kept, Attached
<1>3. ASSUME NEW k \in Conn
      PROVE  ClientFit(k)'
    BY <1>1, <1>2, QueueTypes, ClientKept DEF Kept
<1>4. ASSUME NEW k \in Conn
      PROVE  ServerFit(k)'
  <2>1. ASSUME NEW m \in Queued(k), k \in Servers
        PROVE  Unmoved(m) /\ (OwnedOrNot(m) => OwnedOrNot(m)')
    <3>1. m \in Msg
        BY <1>1, QueueTypes
    <3>2. ~msg[m].done /\ ~msg[m].error
        BY <1>1, <2>1 DEF ServerFit, Waits
    <3>3. \A x \in Clients : conn'[x].omsg_q = conn[x].omsg_q
        BY DEF Kept, Clients
    <3> QED BY <1>2, <3>1, <3>2, <3>3, OwnedKept DEF Unmoved
  <2> QED BY <1>2, <2>1, ServerKept DEF Kept
<1>5. QueuesApart'
  <2>1. \A c \in Conn : Queued(c)' = Queued(c)
      BY DEF Queued, Kept
  <2> QED BY <1>2, <2>1, ApartKept
<1>6. TimedLive'
    BY <1>1 DEF TimedLive
<1>7. Forwarded'
  <2> SUFFICES ASSUME pc' \in Forwarding PROVE Forwarded'
      BY DEF Forwarded
  <2>1. pc' = pc /\ cmsg' = cmsg /\ cur' = cur
      OBVIOUS
  <2>2. cmsg \in Msg /\ cur \in Conn
      BY <1>1, <2>1 DEF IInv, Control, Forwarding, Handling
  <2>3. conn'[cur].omsg_q = conn[cur].omsg_q /\ \A c \in Servers : Queued(c)' = Queued(c)
      BY <2>2 DEF Kept, Queued, Servers
  <2> QED BY <1>1, <1>2, <2>1, <2>2, <2>3 DEF Forwarded
<1> QED BY <1>3, <1>4, <1>5, <1>6, <1>7 DEF Queueing

-----------------------------------------------------------------------------

(* The parts of the invariant.                                             *)
LEMMA ProperParts ==
    ASSUME Proper
    PROVE  /\ IInv /\ Sockets /\ Structures /\ Stage /\ Unread
           /\ \A k \in Conn : ClientFit(k) /\ ServerFit(k)
           /\ QueuesApart /\ TimedLive /\ Forwarded
           /\ msg \in [Msg -> MsgRec] /\ conn \in [Conn -> ConnRec]
  BY DEF Proper, Requests, Queueing, Wiring, IInv, TypeOK

(* Steps that leave the queues and what matters of the requests.           *)
LEMMA QueueingIdle ==
    ASSUME Proper, \/ Idle
                   \/ \E m \in Msg : Settling(m) \/ Halving(m)
                   \/ PeersDo
    PROVE  Queueing'
<1>1. CASE Idle
    BY <1>1, QueueingKept DEF Idle
<1>2. ASSUME NEW m \in Msg, Settling(m)
      PROVE  Queueing'
  <2> DEFINE y == msg_tmo_delete(msg[m])
  <2>1. /\ conn' = conn /\ msg' = [msg EXCEPT ![m] = msg_tmo_delete(@)]
        /\ (msg[m].error \/ msg[m].done) /\ pc' = pc /\ pc = "timeout"
      BY <1>2 DEF Settling, Settled
  <2>2. msg[m] \in MsgRec /\ msg \in [Msg -> MsgRec]
      BY ProperParts
  <2>3. /\ y.st = msg[m].st /\ y.owner = msg[m].owner /\ y.swallow = msg[m].swallow
        /\ y.noreply = msg[m].noreply /\ y.done = msg[m].done
        /\ y.error = msg[m].error /\ y.tmo = None
      BY <2>2, PutFacts
  <2>4. msg' = [msg EXCEPT ![m] = y]
      BY <2>1, <2>2
  <2> HIDE DEF y
  <2>5. \A k \in Conn : Kept(k)
      BY <2>1 DEF Kept
  <2>6. msg'[m] = y /\ \A n \in Msg \ {m} : msg'[n] = msg[n]
      BY <2>2, <2>4
  <2>7. pc' \notin Forwarding /\ (msg[m].done \/ msg[m].error)
      BY <1>2 DEF Forwarding, Settling, Settled
  <2> QED BY <2>3, <2>5, <2>6, <2>7, QueueingKept
<1>3. ASSUME NEW m \in Msg, Halving(m)
      PROVE  Queueing'
  <2> DEFINE y == [msg[m] EXCEPT !.part = TRUE]
  <2>1. /\ \A k \in Conn : Kept(k)
        /\ pc' \notin Forwarding
        /\ msg'[m] = y /\ \A n \in Msg \ {m} : msg'[n] = msg[n]
      BY <1>3 DEF Halving, Writes, Forwarding
  <2>2. msg[m] \in MsgRec
      BY ProperParts
  <2>3. /\ y.st = msg[m].st /\ y.owner = msg[m].owner /\ y.swallow = msg[m].swallow
        /\ y.noreply = msg[m].noreply /\ y.done = msg[m].done
        /\ y.error = msg[m].error /\ y.tmo = msg[m].tmo
      BY <2>2 DEF MsgRec
  <2> HIDE DEF y
  <2> QED BY <2>1, <2>3, QueueingKept
<1>4. CASE PeersDo
  <2>1. /\ conn' = conn /\ msg' = msg /\ pc' = pc /\ cmsg' = cmsg /\ cur' = cur
      BY <1>4 DEF PeersDo, Asking, Replying, Changing, Resting, SockSteps, LoopStill
  <2>2. \A k \in Conn : Kept(k)
      BY <2>1 DEF Kept
  <2> QED BY <2>1, <2>2, QueueingKept
<1> QED BY <1>1, <1>2, <1>3, <1>4

(* A connection is closed.                                                 *)
LEMMA QueueingClosed ==
    ASSUME Proper, NEW c \in Conn, Closing(c)
    PROVE  Queueing'
<1>1. /\ Attached(c) /\ conn'[c].owner = None
      /\ \A k \in Conn \ {c} : conn'[k] = conn[k]
      /\ pc' \notin Forwarding
    BY DEF Closing, Closes
<1>2. /\ Clients' = Clients \ {c} /\ Servers' = Servers \ {c}
      /\ Clients \subseteq Conn /\ Servers \subseteq Conn
    BY <1>1 DEF Clients, Servers, Attached
<1>3. IInv /\ TimedLive /\ \A k \in Conn : ClientFit(k) /\ ServerFit(k)
    BY ProperParts
<1> DEFINE Dropped(m) == conn[c].client /\ m \in ToSet(conn[c].omsg_q)
<1>4. \A m : Dropped(m) => c \in Clients /\ msg[m].owner = c
    BY <1>1, <1>3 DEF ClientFit, Clients, Owned
<1>5. /\ \A m \in Msg : Dropped(m) /\ msg[m].done
                        => msg'[m].st = "freed" /\ msg'[m].tmo = None
      /\ \A m \in Msg : Dropped(m) /\ ~msg[m].done
                        => /\ msg'[m].st = msg[m].st /\ msg'[m].swallow
                           /\ ~msg'[m].done /\ msg'[m].error = msg[m].error
                           /\ msg'[m].noreply = msg[m].noreply
                           /\ \/ msg'[m].tmo = msg[m].tmo
                              \/ msg'[m].tmo = None /\ msg[m].tmo = c
      /\ \A m \in Msg : ~Dropped(m)
                        => /\ msg'[m].st = msg[m].st /\ msg'[m].swallow = msg[m].swallow
                           /\ msg'[m].done = msg[m].done /\ msg'[m].error = msg[m].error
                           /\ msg'[m].noreply = msg[m].noreply
                           /\ msg'[m].owner = msg[m].owner
                           /\ \/ msg'[m].tmo = msg[m].tmo
                              \/ msg'[m].tmo = None /\ msg[m].tmo = c
    BY <1>3, ClosingMsgs
<1> HIDE DEF Dropped
<1>6. ASSUME NEW k \in Conn
      PROVE  ClientFit(k)'
  <2>1. ASSUME (k \in Clients)'
        PROVE  /\ k \in Clients /\ k # c /\ conn'[k].omsg_q = conn[k].omsg_q
               /\ \A m \in ToSet(conn[k].omsg_q) : ~Dropped(m) /\ m \in Msg
    <3>1. k \in Clients /\ k # c /\ conn'[k] = conn[k]
        BY <1>1, <1>2, <2>1
    <3>2. \A m \in ToSet(conn[k].omsg_q) : msg[m].owner = k
        BY <1>3, <3>1 DEF ClientFit, Owned
    <3> QED BY <1>3, <1>4, <3>1, <3>2, QueueTypes
  <2> SUFFICES ASSUME (k \in Clients)' PROVE ClientFit(k)'
      BY DEF ClientFit
  <2> QED BY <1>5, <2>1, ClientKept
<1>7. ASSUME NEW k \in Conn
      PROVE  ServerFit(k)'
  <2> SUFFICES ASSUME (k \in Servers)' PROVE ServerFit(k)'
      BY DEF ServerFit
  <2>1. k \in Servers /\ k # c /\ conn'[k] = conn[k]
      BY <1>1, <1>2
  <2>2. ASSUME NEW m \in Queued(k)
        PROVE  Unmoved(m) /\ (OwnedOrNot(m) => OwnedOrNot(m)')
    <3>1. m \in Msg
        BY <1>3, QueueTypes
    <3>2. /\ ~msg[m].done /\ (TIMEOUT /\ ~msg[m].noreply => msg[m].tmo = k)
        BY <1>3, <2>1 DEF ServerFit, Waits
    <3>3. Unmoved(m)
      <4>1. CASE Dropped(m)
          BY <1>5, <2>1, <3>1, <3>2, <4>1 DEF Unmoved
      <4>2. CASE ~Dropped(m)
          BY <1>5, <2>1, <3>1, <3>2, <4>2 DEF Unmoved
      <4> QED BY <4>1, <4>2
    <3>4. CASE Dropped(m)
        BY <1>5, <3>1, <3>2, <3>3, <3>4 DEF OwnedOrNot
    <3>5. CASE ~Dropped(m)
      <4>1. msg'[m].swallow = msg[m].swallow /\ msg'[m].owner = msg[m].owner
          BY <1>5, <3>1, <3>5
      <4>2. \A x \in Clients : m \in ToSet(conn[x].omsg_q) =>
               x \in Clients' /\ conn'[x] = conn[x]
          BY <1>1, <1>2, <3>5 DEF Dropped, Clients
      <4> QED BY <3>3, <4>1, <4>2 DEF OwnedOrNot
    <3> QED BY <3>4, <3>5
  <2> QED BY <2>1, <2>2, ServerKept
<1>8. QueuesApart'
  <2>1. \A k \in Conn \ {c} : Queued(k)' = Queued(k)
      BY <1>1 DEF Queued
  <2> QED BY <1>2, <2>1, ApartKept
<1>9. TimedLive'
    BY <1>3, <1>5 DEF TimedLive
<1> QED BY <1>1, <1>6, <1>7, <1>8, <1>9 DEF Queueing, Forwarded

-----------------------------------------------------------------------------
(* A queue of a server that only lost requests.                            *)
LEMMA ServerShrunk ==
    ASSUME Proper, NEW c \in Conn,
           (c \in Servers)' =>
              /\ c \in Servers
              /\ IsInjective(conn'[c].imsg_q) /\ IsInjective(conn'[c].omsg_q)
              /\ ToSet(conn'[c].imsg_q) \subseteq ToSet(conn[c].imsg_q)
              /\ ToSet(conn'[c].omsg_q) \subseteq ToSet(conn[c].omsg_q)
              /\ \A m \in Queued(c)' : Unmoved(m) /\ (OwnedOrNot(m) => OwnedOrNot(m)')
    PROVE  ServerFit(c)'
<1> SUFFICES ASSUME (c \in Servers)' PROVE ServerFit(c)'
    BY DEF ServerFit
<1>1. ServerFit(c) /\ c \in Servers
    BY ProperParts
<1>2. Queued(c)' \subseteq Queued(c)
    BY DEF Queued
<1>3. ASSUME NEW m \in Queued(c)'
      PROVE  Waits(c, m)'
    BY <1>1, <1>2, <1>3 DEF ServerFit, Waits, Unmoved
<1> QED BY <1>1, <1>3 DEF ServerFit

(* A request that is not live is in no queue.                              *)
LEMMA NotQueued ==
    ASSUME Proper, NEW m \in Msg, msg[m].st # "live"
    PROVE  /\ \A k \in Servers : m \notin Queued(k)
           /\ \A k \in Clients : m \notin ToSet(conn[k].omsg_q)
  BY QueuedLive DEF Servers, Clients, Queued

(* Tables that do not change have the same clients and servers.            *)
LEMMA SameOwners ==
    ASSUME \A k \in Conn : /\ conn'[k].client = conn[k].client
                           /\ conn'[k].owner = conn[k].owner
    PROVE  Clients' = Clients /\ Servers' = Servers
  BY DEF Clients, Servers, Attached

(* The request that a client sent was not read before.                     *)
LEMMA ReadUnread ==
    ASSUME Proper, NEW m \in Msg, Taking(m)
    PROVE  msg[m].st = "unread"
<1> DEFINE e == conn[cur].sd
<1>1. e \in Sd /\ IsAsk(Next1(cur)) /\ sock[e].inq # <<>> /\ Next1(cur) = Head(sock[e].inq)
    BY ProperParts, CurFacts DEF Taking, Handling, IsAsk, SocksRead, Next1, Sk
<1>2. sock[e].inq \in Seq(Item)
    BY <1>1, ProperParts, SockTypes
<1>3. 1 \in DOMAIN sock[e].inq /\ Head(sock[e].inq) = sock[e].inq[1]
  <2> DEFINE q == sock[e].inq
  <2>1. q \in Seq(Item) /\ q # <<>>
      BY <1>1, <1>2
  <2> HIDE DEF q
  <2>2. Len(q) \in Nat /\ Len(q) # 0 /\ DOMAIN q = 1..Len(q)
      BY <2>1, LenProperties, EmptySeq
  <2> QED BY <2>1, <2>2 DEF q
<1> QED BY <1>1, <1>3, ProperParts DEF Unread, Fresh, Taking

(* A request is read.                                                      *)
LEMMA QueueingTaken ==
    ASSUME Proper, NEW m \in Msg, Taking(m)
    PROVE  Queueing'
<1>1. /\ conn' = conn /\ cur' = cur /\ cmsg' = m /\ pc' = "forward" /\ cur \in Clients
      /\ \A n \in Msg \ {m} : msg'[n] = msg[n]
      /\ msg'[m].st = "live" /\ msg'[m].owner = cur /\ ~msg'[m].done /\ ~msg'[m].error
      /\ ~msg'[m].swallow /\ msg'[m].tmo = None
    BY DEF Taking
<1>2. msg[m].st = "unread"
    BY ReadUnread
<1>3. /\ \A k \in Servers : m \notin Queued(k)
      /\ \A k \in Clients : m \notin ToSet(conn[k].omsg_q)
    BY <1>2, NotQueued
<1>4. Clients' = Clients /\ Servers' = Servers
    BY <1>1 DEF Clients, Servers, Attached
<1>5. ASSUME NEW k \in Conn PROVE ClientFit(k)'
  <2> SUFFICES ASSUME (k \in Clients)' PROVE ClientFit(k)'
      BY DEF ClientFit
  <2>1. \A n \in ToSet(conn[k].omsg_q) : n \in Msg \ {m}
      BY <1>3, <1>4, ProperParts, QueueTypes
  <2> QED BY <1>1, <1>4, <2>1, ClientKept
<1>6. ASSUME NEW k \in Conn PROVE ServerFit(k)'
  <2> SUFFICES ASSUME (k \in Servers)' PROVE ServerFit(k)'
      BY DEF ServerFit
  <2>1. \A n \in Queued(k) : n \in Msg \ {m}
      BY <1>3, <1>4, ProperParts, QueueTypes
  <2>2. \A n \in Queued(k) : Unmoved(n) /\ (OwnedOrNot(n) => OwnedOrNot(n)')
      BY <1>1, <1>4, <2>1 DEF Unmoved, OwnedOrNot
  <2> QED BY <1>1, <1>4, <2>2, ServerKept
<1>7. QueuesApart'
    BY <1>1, <1>4, ApartKept DEF Queued
<1>8. TimedLive'
  <2> SUFFICES ASSUME NEW n \in Msg, msg'[n].tmo # None PROVE msg'[n].st = "live"
      BY DEF TimedLive
  <2> QED BY <1>1, ProperParts DEF TimedLive
<1>9. Forwarded'
    BY <1>1, <1>3, <1>4 DEF Forwarded, Queued
<1> QED BY <1>5, <1>6, <1>7, <1>8, <1>9 DEF Queueing

(* The response of p comes.                                                *)
LEMMA QueueingResponded ==
    ASSUME Proper, NEW p \in Msg, Responding(p)
    PROVE  Queueing'
<1> DEFINE q == conn[cur].omsg_q
<1>1. /\ cur \in Servers /\ cur \in Conn /\ cur' = cur /\ q # <<>> /\ p = Head(q) /\ q \in Seq(Msg)
      /\ conn'[cur].imsg_q = conn[cur].imsg_q /\ conn'[cur].omsg_q = Tail(q)
      /\ \A k \in Conn \ {cur} : Kept(k)
      /\ \A n \in Msg \ {p} : msg'[n] = msg[n]
      /\ msg'[p].tmo = None /\ pc' \notin Forwarding
      /\ msg'[p].owner = msg[p].owner /\ msg'[p].noreply = msg[p].noreply
      /\ msg'[p].swallow = msg[p].swallow
      /\ ~msg[p].swallow => msg'[p].st = msg[p].st
    BY ProperParts, QueueTypes DEF Responding, Servers, Requeued, Forwarding
<1>2. Clients' = Clients /\ Servers' = Servers
    BY SameOwners DEF Responding, Requeued, Kept
<1>3. ServerFit(cur) /\ QueuesApart /\ IInv
    BY <1>1, ProperParts
<1>4. IsInjective(q) /\ ToSet(conn[cur].imsg_q) \cap ToSet(q) = {} /\ p \in ToSet(q)
  <2>1. p \in ToSet(q)
    <3> HIDE DEF q
    <3> QED BY <1>1, HeadIn
  <2> QED BY <1>1, <1>3, <2>1 DEF ServerFit
<1>5. IsInjective(Tail(q)) /\ ToSet(Tail(q)) = ToSet(q) \ {p}
    BY <1>1, <1>4, TailFacts
<1>6. p \in Queued(cur) /\ Queued(cur)' = Queued(cur) \ {p}
    BY <1>1, <1>4, <1>5 DEF Queued
<1>7. \A k \in Servers \ {cur} : p \notin Queued(k)
    BY <1>1, <1>3, <1>6 DEF QueuesApart
<1> HIDE DEF q
<1>8. \A x \in Clients : conn'[x].omsg_q = conn[x].omsg_q
    BY <1>1 DEF Clients, Servers, Kept
<1>9. ASSUME NEW k \in Conn PROVE ClientFit(k)'
  <2> SUFFICES ASSUME (k \in Clients)' PROVE ClientFit(k)'
      BY DEF ClientFit
  <2>1. k \in Clients /\ conn'[k].omsg_q = conn[k].omsg_q
      BY <1>2, <1>8
  <2>2. \A n \in ToSet(conn[k].omsg_q) : n \in Msg /\ ~msg[n].swallow
      BY <1>3, <2>1, ProperParts, QueueTypes DEF ClientFit, Owned
  <2>3. ASSUME NEW n \in ToSet(conn[k].omsg_q)
        PROVE  /\ msg'[n].st = msg[n].st /\ msg'[n].owner = msg[n].owner
               /\ msg'[n].swallow = msg[n].swallow /\ msg'[n].noreply = msg[n].noreply
      BY <1>1, <2>2
  <2> QED BY <2>1, <2>3, ClientKept
<1>10. ASSUME NEW n \in Msg \ {p}
       PROVE  Unmoved(n) /\ (OwnedOrNot(n) => OwnedOrNot(n)')
    BY <1>1, <1>2, <1>8 DEF Unmoved, OwnedOrNot
<1>11. ASSUME NEW k \in Conn PROVE ServerFit(k)'
  <2> SUFFICES ASSUME (k \in Servers)' PROVE ServerFit(k)'
      BY DEF ServerFit
  <2>1. CASE k = cur
    <3>1. \A n \in Queued(cur)' : n \in Msg \ {p}
        BY <1>1, <1>3, <1>6, QueueTypes
    <3> QED BY <1>1, <1>3, <1>5, <1>10, <2>1, <3>1, ServerShrunk DEF ServerFit, q
  <2>2. CASE k # cur
    <3>1. k \in Servers /\ \A n \in Queued(k) : n \in Msg \ {p}
        BY <1>2, <1>3, <1>7, <2>2, QueueTypes
    <3> QED BY <1>1, <1>10, <2>2, <3>1, ServerKept DEF Kept
  <2> QED BY <2>1, <2>2
<1>12. QueuesApart'
  <2>1. \A k \in Conn \ {cur} : Queued(k)' = Queued(k)
      BY <1>1 DEF Kept, Queued
  <2> QED BY <1>1, <1>2, <1>6, <2>1, ApartKept
<1>13. TimedLive'
  <2> SUFFICES ASSUME NEW n \in Msg, msg'[n].tmo # None PROVE msg'[n].st = "live"
      BY DEF TimedLive
  <2> QED BY <1>1, ProperParts DEF TimedLive
<1> QED BY <1>1, <1>9, <1>11, <1>12, <1>13 DEF Queueing, Forwarded

(* A response leaves for its client.                                       *)
LEMMA QueueingAnswered ==
    ASSUME Proper, NEW p \in Msg, Answering(p)
    PROVE  Queueing'
<1> DEFINE q == conn[cur].omsg_q
<1>1. /\ cur \in Clients /\ cur \in Conn /\ cur' = cur /\ q # <<>> /\ p = Head(q) /\ q \in Seq(Msg)
      /\ conn'[cur].omsg_q = Tail(q) /\ msg[p].done
      /\ \A k \in Conn \ {cur} : Kept(k)
      /\ \A n \in Msg \ {p} : msg'[n] = msg[n]
      /\ msg'[p].tmo = None /\ pc' \notin Forwarding
    BY ProperParts, QueueTypes DEF Answering, Clients, Requeued, Forwarding
<1>2. Clients' = Clients /\ Servers' = Servers
    BY SameOwners DEF Answering, Requeued, Kept
<1>3. ClientFit(cur) /\ IInv
    BY <1>1, ProperParts
<1>4. IsInjective(q) /\ p \in ToSet(q) /\ msg[p].owner = cur
  <2>1. p \in ToSet(q)
    <3> HIDE DEF q
    <3> QED BY <1>1, HeadIn
  <2> QED BY <1>1, <1>3, <2>1 DEF ClientFit, Owned
<1>5. IsInjective(Tail(q)) /\ ToSet(Tail(q)) = ToSet(q) \ {p}
    BY <1>1, <1>4, TailFacts
<1>6. \A k \in Servers : p \notin Queued(k)
    BY <1>1, ProperParts DEF ServerFit, Waits, Servers
<1>7. cur \notin Servers /\ \A k \in Conn \ {cur} : conn'[k].omsg_q = conn[k].omsg_q
    BY <1>1 DEF Clients, Servers, Kept
<1>8. ASSUME NEW k \in Conn PROVE ClientFit(k)'
  <2> SUFFICES ASSUME (k \in Clients)' PROVE ClientFit(k)'
      BY DEF ClientFit
  <2>1. k \in Clients /\ ClientFit(k)
      BY <1>2, ProperParts
  <2>2. \A n \in ToSet(conn[k].omsg_q) : n \in Msg /\ Owned(k, n)
      BY <1>3, <2>1, QueueTypes DEF ClientFit
  <2>3. CASE k = cur
    <3>1. \A n \in ToSet(Tail(q)) : n \in Msg \ {p} /\ Owned(k, n)
        BY <1>5, <2>2, <2>3
    <3>2. \A n \in ToSet(Tail(q)) : Owned(k, n)'
        BY <1>1, <3>1 DEF Owned
    <3> QED BY <1>1, <1>5, <2>3, <3>2 DEF ClientFit
  <2>4. CASE k # cur
    <3>1. \A n \in ToSet(conn[k].omsg_q) : n \in Msg \ {p}
        BY <1>4, <2>2, <2>4 DEF Owned
    <3> QED BY <1>1, <1>7, <2>1, <2>4, <3>1, ClientKept
  <2> QED BY <2>3, <2>4
<1>9. ASSUME NEW k \in Conn PROVE ServerFit(k)'
  <2> SUFFICES ASSUME (k \in Servers)' PROVE ServerFit(k)'
      BY DEF ServerFit
  <2>1. k \in Servers /\ k # cur
      BY <1>2, <1>7
  <2>2. ASSUME NEW n \in Queued(k)
        PROVE  Unmoved(n) /\ (OwnedOrNot(n) => OwnedOrNot(n)')
    <3>1. n \in Msg \ {p}
        BY <1>3, <1>6, <2>1, QueueTypes
    <3>2. \A x \in Clients : n \in ToSet(conn[x].omsg_q) => n \in ToSet(conn'[x].omsg_q)
        BY <1>1, <1>5, <1>7, <3>1 DEF Clients
    <3> QED BY <1>1, <1>2, <3>1, <3>2 DEF Unmoved, OwnedOrNot
  <2> QED BY <1>1, <2>1, <2>2, ServerKept DEF Kept
<1>10. QueuesApart'
  <2>1. \A k \in Conn \ {cur} : Queued(k)' = Queued(k)
      BY <1>1 DEF Kept, Queued
  <2> QED BY <1>2, <1>7, <2>1, ApartKept
<1>11. TimedLive'
  <2> SUFFICES ASSUME NEW n \in Msg, msg'[n].tmo # None PROVE msg'[n].st = "live"
      BY DEF TimedLive
  <2> QED BY <1>1, ProperParts DEF TimedLive
<1> QED BY <1>1, <1>8, <1>9, <1>10, <1>11 DEF Queueing, Forwarded

-----------------------------------------------------------------------------
(* A client is accepted.                                                   *)
LEMMA QueueingAccepted ==
    ASSUME Proper, NEW c \in Conn, NEW d \in Sd, Admitting(c, d)
    PROVE  Queueing'
<1>1. /\ msg' = msg /\ \A k \in Conn \ {c} : conn'[k] = conn[k]
      /\ c \notin Clients /\ c \notin Servers
      /\ conn'[c].client /\ conn'[c].omsg_q = <<>> /\ conn'[c].owner # None
      /\ pc' \notin Forwarding
    BY DEF Admitting, Clients, Servers, Forwarding
<1>2. Clients' = Clients \cup {c} /\ Servers' = Servers
    BY <1>1 DEF Clients, Servers, Attached
<1>3. ASSUME NEW k \in Conn PROVE ClientFit(k)'
  <2>1. CASE k = c
    <3>1. IsInjective(<<>>) /\ ToSet(<<>>) = {}
        BY DEF IsInjective, ToSet
    <3> QED BY <1>1, <2>1, <3>1 DEF ClientFit
  <2>2. CASE k # c
      BY <1>1, <1>2, <2>2, ClientKept
  <2> QED BY <2>1, <2>2
<1>4. \A n : OwnedOrNot(n) => OwnedOrNot(n)'
    BY <1>1, <1>2 DEF OwnedOrNot, Clients
<1>5. ASSUME NEW k \in Conn PROVE ServerFit(k)'
    BY <1>1, <1>2, <1>4, ServerKept DEF Unmoved
<1>6. QueuesApart'
  <2>1. \A k \in Servers : Queued(k)' = Queued(k)
      BY <1>1 DEF Servers, Queued
  <2> QED BY <1>2, <2>1, ApartKept
<1>7. TimedLive'
    BY <1>1, ProperParts DEF TimedLive
<1> QED BY <1>1, <1>3, <1>5, <1>6, <1>7 DEF Queueing, Forwarded

(* server_connect failed.                                                  *)
LEMMA QueueingRefused ==
    ASSUME Proper, NEW c, Refusing(c)
    PROVE  Queueing'
<1>1. /\ msg' = msg /\ \A k \in Conn \ {c} : conn'[k] = conn[k]
      /\ c \in Conn /\ c \in Servers /\ c \notin Clients /\ conn'[c].owner = None
      /\ cur' = cur /\ cmsg' = cmsg /\ pc = "reject" /\ pc' = "error"
      /\ cur \in Conn \ {c}
    BY DEF Refusing, Clients, Servers
<1>2. Clients' = Clients /\ Servers' = Servers \ {c}
    BY <1>1 DEF Clients, Servers, Attached
<1>3. ASSUME NEW k \in Conn PROVE ClientFit(k)'
    BY <1>1, <1>2, ClientKept
<1>4. \A n : OwnedOrNot(n) => OwnedOrNot(n)'
    BY <1>1, <1>2 DEF OwnedOrNot, Clients
<1>5. ASSUME NEW k \in Conn PROVE ServerFit(k)'
    BY <1>1, <1>2, <1>4, ServerKept DEF Unmoved
<1>6. \A k \in Servers \ {c} : Queued(k)' = Queued(k)
    BY <1>1 DEF Servers, Queued
<1>7. QueuesApart'
    BY <1>2, <1>6, ApartKept
<1>8. TimedLive'
    BY <1>1, ProperParts DEF TimedLive
<1>9. Forwarded'
  <2>1. /\ msg[cmsg].st = "live" /\ ~msg[cmsg].done /\ ~msg[cmsg].error
        /\ ~msg[cmsg].swallow /\ msg[cmsg].owner = cur
        /\ \A k \in Servers : cmsg \notin Queued(k)
        /\ cmsg \in ToSet(conn[cur].omsg_q) <=> ~msg[cmsg].noreply
      BY <1>1, ProperParts DEF Forwarded, Forwarding
  <2>2. \A k \in Servers' : cmsg \notin Queued(k)'
      BY <1>2, <1>6, <2>1
  <2> QED BY <1>1, <2>1, <2>2 DEF Forwarded
<1> QED BY <1>3, <1>5, <1>7, <1>8, <1>9 DEF Queueing

(* Forwarding failed.                                                      *)
LEMMA QueueingErred ==
    ASSUME Proper, NEW m, Erring(m)
    PROVE  Queueing'
<1>1. /\ m \in Msg /\ pc' \notin Forwarding /\ \A k \in Conn : Kept(k)
      /\ \A n \in Msg \ {m} : msg'[n] = msg[n]
      /\ msg'[m].owner = msg[m].owner
      /\ msg'[m].noreply = msg[m].noreply /\ msg'[m].swallow = msg[m].swallow
      /\ msg[m].noreply => msg'[m].tmo = None
      /\ ~msg[m].noreply => msg'[m].st = msg[m].st /\ msg'[m].tmo = msg[m].tmo
    BY DEF Erring, Forwarding
<1>2. Clients' = Clients /\ Servers' = Servers
    BY <1>1, SameOwners DEF Kept
<1>3. \A k \in Servers : m \notin Queued(k)
    BY ProperParts DEF Forwarded, Erring, Forwarding
<1>4. ASSUME NEW k \in Conn PROVE ClientFit(k)'
  <2> SUFFICES ASSUME (k \in Clients)' PROVE ClientFit(k)'
      BY DEF ClientFit
  <2>1. \A n \in ToSet(conn[k].omsg_q) : n \in Msg /\ ~msg[n].noreply
      BY <1>2, ProperParts, QueueTypes DEF ClientFit, Owned
  <2>2. ASSUME NEW n \in ToSet(conn[k].omsg_q)
        PROVE  /\ msg'[n].st = msg[n].st /\ msg'[n].owner = msg[n].owner
               /\ msg'[n].swallow = msg[n].swallow /\ msg'[n].noreply = msg[n].noreply
      BY <1>1, <2>1
  <2> QED BY <1>1, <1>2, <2>2, ClientKept DEF Kept
<1>5. ASSUME NEW n \in Msg PROVE OwnedOrNot(n) => OwnedOrNot(n)'
    BY <1>1, <1>2 DEF OwnedOrNot, Clients, Kept
<1>6. ASSUME NEW k \in Conn PROVE ServerFit(k)'
  <2> SUFFICES ASSUME (k \in Servers)' PROVE ServerFit(k)'
      BY DEF ServerFit
  <2>1. \A n \in Queued(k) : n \in Msg \ {m}
      BY <1>2, <1>3, ProperParts, QueueTypes
  <2>2. \A n \in Queued(k) : Unmoved(n)
      BY <1>1, <2>1 DEF Unmoved
  <2> QED BY <1>1, <1>2, <1>5, <2>1, <2>2, ServerKept DEF Kept
<1>7. QueuesApart'
  <2>1. \A k \in Conn : Queued(k)' = Queued(k)
      BY <1>1 DEF Queued, Kept
  <2> QED BY <1>2, <2>1, ApartKept
<1>8. TimedLive'
  <2> SUFFICES ASSUME NEW n \in Msg, msg'[n].tmo # None PROVE msg'[n].st = "live"
      BY DEF TimedLive
  <2> QED BY <1>1, ProperParts DEF TimedLive
<1> QED BY <1>1, <1>4, <1>6, <1>7, <1>8 DEF Queueing, Forwarded

(* The request enters the in_q of server connection c.                     *)
LEMMA QueueingEnqueued ==
    ASSUME Proper, NEW m, NEW c, Enqueuing(m, c)
    PROVE  Queueing'
<1>1. /\ m \in Msg /\ pc' \notin Forwarding /\ \A k \in Conn \ {c} : Kept(k)
      /\ c \in Conn /\ c \in Servers /\ c \notin Clients
      /\ conn'[c].imsg_q = Append(conn[c].imsg_q, m) /\ conn'[c].omsg_q = conn[c].omsg_q
      /\ \A n \in Msg \ {m} : msg'[n] = msg[n]
      /\ msg'[m].st = msg[m].st /\ msg'[m].owner = msg[m].owner
      /\ msg'[m].noreply = msg[m].noreply /\ msg'[m].swallow = msg[m].swallow
      /\ msg'[m].done = msg[m].done /\ msg'[m].error = msg[m].error
      /\ TIMEOUT /\ ~msg[m].noreply => msg'[m].tmo = c
    BY DEF Enqueuing, Forwarding, Servers, Clients, Requeued
<1>2. Clients' = Clients /\ Servers' = Servers
    BY SameOwners DEF Enqueuing, Requeued, Kept
<1>3. /\ msg[m].st = "live" /\ ~msg[m].done /\ ~msg[m].error
      /\ \A k \in Servers : m \notin Queued(k)
      /\ ~msg[m].noreply => OwnedOrNot(m)
    BY ProperParts DEF Forwarded, Enqueuing, Forwarding, OwnedOrNot
<1>4. /\ conn[c].imsg_q \in Seq(Msg) /\ conn[c].omsg_q \in Seq(Msg)
      /\ ServerFit(c) /\ IInv
    BY <1>1, ProperParts, QueueTypes
<1>5. m \notin ToSet(conn[c].imsg_q) /\ m \notin ToSet(conn[c].omsg_q)
    BY <1>1, <1>3 DEF Queued
<1>6. /\ ToSet(conn'[c].imsg_q) = ToSet(conn[c].imsg_q) \cup {m}
      /\ IsInjective(conn'[c].imsg_q)
    BY <1>1, <1>4, <1>5, AppendFacts DEF ServerFit
<1>7. \A k \in Clients : conn'[k].omsg_q = conn[k].omsg_q
    BY <1>1 DEF Clients, Kept
<1>8. ASSUME NEW k \in Conn PROVE ClientFit(k)'
  <2> SUFFICES ASSUME (k \in Clients)' PROVE ClientFit(k)'
      BY DEF ClientFit
  <2>1. k \in Clients /\ \A n \in ToSet(conn[k].omsg_q) : n \in Msg
      BY <1>2, <1>4, QueueTypes
  <2>2. ASSUME NEW n \in ToSet(conn[k].omsg_q)
        PROVE  /\ msg'[n].st = msg[n].st /\ msg'[n].owner = msg[n].owner
               /\ msg'[n].swallow = msg[n].swallow /\ msg'[n].noreply = msg[n].noreply
      BY <1>1, <2>1
  <2> QED BY <1>7, <2>1, <2>2, ClientKept
<1>9. ASSUME NEW n \in Msg PROVE OwnedOrNot(n) => OwnedOrNot(n)'
  <2>1. msg'[n].owner = msg[n].owner /\ msg'[n].swallow = msg[n].swallow
      BY <1>1
  <2> QED BY <1>2, <1>7, <2>1 DEF OwnedOrNot
<1>10. ASSUME NEW k \in Conn PROVE ServerFit(k)'
  <2> SUFFICES ASSUME (k \in Servers)' PROVE ServerFit(k)'
      BY DEF ServerFit
  <2>1. \A n \in Queued(k) : n \in Msg \ {m}
      BY <1>2, <1>3, ProperParts, QueueTypes
  <2>2. \A n \in Queued(k) : Unmoved(n) /\ (OwnedOrNot(n) => OwnedOrNot(n)')
      BY <1>1, <1>9, <2>1 DEF Unmoved
  <2>3. CASE k # c
      BY <1>1, <1>2, <2>2, <2>3, ServerKept DEF Kept
  <2>4. CASE k = c
    <3>1. ASSUME NEW n \in Queued(c) PROVE Waits(c, n)'
        BY <1>1, <1>4, <2>2, <2>4, <3>1 DEF ServerFit, Waits, Unmoved
    <3>2. Waits(c, m)'
        BY <1>1, <1>3, <1>5, <1>9 DEF Waits
    <3>3. \A n \in Queued(c)' : n \in Queued(c) \/ n = m
        BY <1>1, <1>6 DEF Queued
    <3>4. ToSet(conn'[c].imsg_q) \cap ToSet(conn'[c].omsg_q) = {}
        BY <1>1, <1>4, <1>5, <1>6 DEF ServerFit
    <3>5. \A n \in Queued(c)' : Waits(c, n)'
        BY <3>1, <3>2, <3>3
    <3> QED BY <1>1, <1>4, <1>6, <2>4, <3>4, <3>5 DEF ServerFit
  <2> QED BY <2>3, <2>4
<1>11. QueuesApart'
  <2>1. \A k \in Conn \ {c} : Queued(k)' = Queued(k)
      BY <1>1 DEF Queued, Kept
  <2>2. Queued(c)' = Queued(c) \cup {m}
      BY <1>1, <1>6 DEF Queued
  <2>3. QueuesApart /\ Servers \subseteq Conn
      BY ProperParts DEF Servers
  <2> SUFFICES ASSUME NEW k \in Servers, NEW j \in Servers, k # j
               PROVE  Queued(k)' \cap Queued(j)' = {}
      BY <1>2 DEF QueuesApart
  <2> QED BY <1>3, <2>1, <2>2, <2>3 DEF QueuesApart
<1>12. TimedLive'
  <2> SUFFICES ASSUME NEW n \in Msg, msg'[n].tmo # None PROVE msg'[n].st = "live"
      BY DEF TimedLive
  <2> QED BY <1>1, <1>3, ProperParts DEF TimedLive
<1> QED BY <1>1, <1>8, <1>10, <1>11, <1>12 DEF Queueing, Forwarded

-----------------------------------------------------------------------------
(* The request of a client enters its out_q.                               *)
LEMMA QueueingReserved ==
    ASSUME Proper, NEW S \in SUBSET Conn,
           Reserving, cur \notin S, S \cap Clients = {}, S \cap Servers = {},
           \A k \in Conn \ ({cur} \cup S) : conn'[k] = conn[k],
           \A k \in S : /\ conn'[k].imsg_q = <<>> /\ conn'[k].omsg_q = <<>>
                        /\ conn'[k].owner # None /\ ~conn'[k].client
    PROVE  Queueing'
<1> DEFINE q == conn[cur].omsg_q
<1>1. /\ cur \in Clients /\ cur \in Conn /\ cur \notin Servers /\ cur' = cur
      /\ cmsg \in Msg /\ cmsg' = cmsg
      /\ pc = "forward" /\ pc' \in {"reject", "enqueue"} /\ msg' = msg
      /\ conn'[cur].client /\ conn'[cur].owner = conn[cur].owner
      /\ conn'[cur].omsg_q = IF msg[cmsg].noreply THEN q ELSE Append(q, cmsg)
    BY DEF Reserving, Clients, Servers
<1>2. Clients' = Clients /\ Servers' = Servers \cup S
    BY <1>1 DEF Clients, Servers, Attached
<1>3. /\ msg[cmsg].st = "live" /\ ~msg[cmsg].done /\ ~msg[cmsg].error
      /\ ~msg[cmsg].swallow /\ msg[cmsg].owner = cur
      /\ \A k \in Servers : cmsg \notin Queued(k)
      /\ cmsg \notin ToSet(q)
    BY <1>1, ProperParts DEF Forwarded, Forwarding
<1>4. q \in Seq(Msg) /\ ClientFit(cur)
    BY <1>1, ProperParts, QueueTypes
<1>5. /\ ToSet(conn'[cur].omsg_q) = IF msg[cmsg].noreply THEN ToSet(q) ELSE ToSet(q) \cup {cmsg}
      /\ IsInjective(conn'[cur].omsg_q)
  <2>1. IsInjective(q)
      BY <1>1, <1>4 DEF ClientFit
  <2> HIDE DEF q
  <2>2. ToSet(Append(q, cmsg)) = ToSet(q) \cup {cmsg} /\ IsInjective(Append(q, cmsg))
      BY <1>1, <1>3, <1>4, <2>1, AppendFacts
  <2> QED BY <1>1, <2>1, <2>2
<1>6. \A k \in Clients \ {cur} : conn'[k] = conn[k]
    BY <1>1 DEF Clients
<1>7. \A k \in Servers : conn'[k] = conn[k]
    BY <1>1 DEF Servers
<1>8. ASSUME NEW k \in Conn PROVE ClientFit(k)'
  <2>1. CASE k = cur
    <3>1. \A n \in ToSet(q) : Owned(cur, n)
        BY <1>1, <1>4 DEF ClientFit
    <3>2. \A n \in ToSet(conn'[cur].omsg_q) : Owned(cur, n)'
        BY <1>1, <1>3, <1>5, <3>1 DEF Owned
    <3> QED BY <1>1, <1>5, <2>1, <3>2 DEF ClientFit
  <2>2. CASE k # cur
      BY <1>1, <1>2, <1>6, <2>2, ClientKept
  <2> QED BY <2>1, <2>2
<1>9. ASSUME NEW n, OwnedOrNot(n) PROVE OwnedOrNot(n)'
    BY <1>1, <1>2, <1>5, <1>6, <1>9 DEF OwnedOrNot
<1>10. \A k \in S : Queued(k)' = {} /\ IsInjective(conn'[k].imsg_q) /\ IsInjective(conn'[k].omsg_q)
    BY DEF Queued, ToSet, IsInjective
<1>11. ASSUME NEW k \in Conn PROVE ServerFit(k)'
  <2>1. CASE k \in S
    <3>1. ToSet(conn'[k].imsg_q) \cap ToSet(conn'[k].omsg_q) = {}
        BY <2>1 DEF ToSet
    <3> QED BY <1>10, <2>1, <3>1 DEF ServerFit
  <2>2. CASE k \notin S
      BY <1>1, <1>2, <1>7, <1>9, <2>2, ServerKept DEF Unmoved
  <2> QED BY <2>1, <2>2
<1>12. \A k \in Servers : Queued(k)' = Queued(k)
    BY <1>7 DEF Queued
<1>13. QueuesApart'
  <2>1. ASSUME NEW k \in Conn, k \in Servers', Queued(k)' # {}
        PROVE  k \in Servers /\ Queued(k)' \subseteq Queued(k)
      BY <1>2, <1>10, <1>12, <2>1
  <2> QED BY <2>1, ApartKept
<1>14. TimedLive'
    BY <1>1, ProperParts DEF TimedLive
<1>15. Forwarded'
  <2>1. \A k \in Servers' : cmsg \notin Queued(k)'
      BY <1>2, <1>3, <1>10, <1>12
  <2>2. pc' \in Forwarding /\ pc' # "forward"
      BY <1>1 DEF Forwarding
  <2> QED BY <1>1, <1>3, <1>5, <2>1, <2>2 DEF Forwarded
<1> QED BY <1>8, <1>11, <1>13, <1>14, <1>15 DEF Queueing

(* A request leaves for its server.                                        *)
LEMMA QueueingSent ==
    ASSUME Proper, NEW m \in Msg, Sending(m)
    PROVE  Queueing'
<1> DEFINE q == conn[cur].imsg_q
           o == conn[cur].omsg_q
<1>1. /\ cur \in Servers /\ cur \in Conn /\ cur' = cur /\ cur \notin Clients
      /\ q # <<>> /\ m = Head(q) /\ q \in Seq(Msg) /\ o \in Seq(Msg)
      /\ conn'[cur].imsg_q = Tail(q)
      /\ conn'[cur].omsg_q = IF msg[m].noreply THEN o ELSE Append(o, m)
      /\ \A k \in Conn \ {cur} : Kept(k)
      /\ \A n \in Msg \ {m} : msg'[n] = msg[n]
      /\ pc' \notin Forwarding
      /\ msg[m].noreply => msg'[m].tmo = None
      /\ ~msg[m].noreply => msg'[m] = [msg[m] EXCEPT !.part = FALSE]
    BY ProperParts, QueueTypes DEF Sending, Writes, Servers, Clients, Requeued, Forwarding
<1>2. ~msg[m].noreply =>
         /\ msg'[m].st = msg[m].st /\ msg'[m].owner = msg[m].owner
         /\ msg'[m].noreply = msg[m].noreply /\ msg'[m].swallow = msg[m].swallow
         /\ msg'[m].done = msg[m].done /\ msg'[m].error = msg[m].error
         /\ msg'[m].tmo = msg[m].tmo
  <2> DEFINE y == [msg[m] EXCEPT !.part = FALSE]
  <2>1. msg[m] \in MsgRec
      BY ProperParts
  <2>2. /\ y.st = msg[m].st /\ y.owner = msg[m].owner
        /\ y.noreply = msg[m].noreply /\ y.swallow = msg[m].swallow
        /\ y.done = msg[m].done /\ y.error = msg[m].error
        /\ y.tmo = msg[m].tmo
      BY <2>1 DEF MsgRec
  <2>3. ~msg[m].noreply => msg'[m] = y
      BY <1>1
  <2> HIDE DEF y
  <2> QED BY <2>2, <2>3
<1>3. Clients' = Clients /\ Servers' = Servers
    BY SameOwners DEF Sending, Requeued, Kept
<1>4. ServerFit(cur) /\ QueuesApart /\ IInv
    BY <1>1, ProperParts
<1>5. /\ IsInjective(q) /\ IsInjective(o) /\ ToSet(q) \cap ToSet(o) = {}
      /\ m \in ToSet(q) /\ m \notin ToSet(o)
  <2>1. m \in ToSet(q)
    <3> HIDE DEF q
    <3> QED BY <1>1, HeadIn
  <2> QED BY <1>1, <1>4, <2>1 DEF ServerFit
<1>6. Waits(cur, m) /\ \A n \in Queued(cur) : Waits(cur, n)
    BY <1>1, <1>4, <1>5 DEF ServerFit, Queued
<1>7. IsInjective(Tail(q)) /\ ToSet(Tail(q)) = ToSet(q) \ {m}
  <2> HIDE DEF q
  <2> QED BY <1>1, <1>5, TailFacts
<1>8. /\ IsInjective(conn'[cur].omsg_q)
      /\ ToSet(conn'[cur].omsg_q) = IF msg[m].noreply THEN ToSet(o) ELSE ToSet(o) \cup {m}
  <2> HIDE DEF o
  <2>1. ToSet(Append(o, m)) = ToSet(o) \cup {m} /\ IsInjective(Append(o, m))
      BY <1>1, <1>5, AppendFacts
  <2> QED BY <1>1, <1>5, <2>1
<1>9. /\ Queued(cur) = ToSet(q) \cup ToSet(o)
      /\ Queued(cur)' = ToSet(Tail(q)) \cup ToSet(conn'[cur].omsg_q)
    BY <1>1 DEF Queued
<1> HIDE DEF q, o
<1>10. /\ Queued(cur)' \subseteq Queued(cur)
       /\ msg[m].noreply => m \notin Queued(cur)'
    BY <1>5, <1>7, <1>8, <1>9
<1>11. \A k \in Servers \ {cur} : m \notin Queued(k)
    BY <1>1, <1>4, <1>5, <1>9 DEF QueuesApart
<1>12. \A k \in Clients : conn'[k].omsg_q = conn[k].omsg_q
    BY <1>1 DEF Clients, Kept
<1>13. ASSUME NEW k \in Conn PROVE ClientFit(k)'
  <2> SUFFICES ASSUME (k \in Clients)' PROVE ClientFit(k)'
      BY DEF ClientFit
  <2>1. k \in Clients /\ \A n \in ToSet(conn[k].omsg_q) : n \in Msg /\ ~msg[n].noreply
      BY <1>3, <1>4, ProperParts, QueueTypes DEF ClientFit, Owned
  <2>2. ASSUME NEW n \in ToSet(conn[k].omsg_q)
        PROVE  /\ msg'[n].st = msg[n].st /\ msg'[n].owner = msg[n].owner
               /\ msg'[n].swallow = msg[n].swallow /\ msg'[n].noreply = msg[n].noreply
      BY <1>1, <1>2, <2>1
  <2> QED BY <1>12, <2>1, <2>2, ClientKept
<1>14. ASSUME NEW n \in Msg, n # m \/ ~msg[m].noreply
       PROVE  Unmoved(n) /\ (OwnedOrNot(n) => OwnedOrNot(n)')
  <2>1. /\ msg'[n].st = msg[n].st /\ msg'[n].owner = msg[n].owner
        /\ msg'[n].noreply = msg[n].noreply /\ msg'[n].swallow = msg[n].swallow
        /\ msg'[n].done = msg[n].done /\ msg'[n].error = msg[n].error
        /\ msg'[n].tmo = msg[n].tmo
      BY <1>1, <1>2, <1>14
  <2> QED BY <1>3, <1>12, <2>1 DEF Unmoved, OwnedOrNot
<1>15. ASSUME NEW k \in Conn PROVE ServerFit(k)'
  <2> SUFFICES ASSUME (k \in Servers)' PROVE ServerFit(k)'
      BY DEF ServerFit
  <2>1. CASE k # cur
    <3>1. k \in Servers /\ \A n \in Queued(k) : n \in Msg /\ n # m
        BY <1>3, <1>4, <1>11, <2>1, QueueTypes
    <3> QED BY <1>1, <1>14, <2>1, <3>1, ServerKept DEF Kept
  <2>2. CASE k = cur
    <3>1. ASSUME NEW n \in Queued(cur)' PROVE Waits(cur, n)'
      <4>1. n \in Msg /\ (n # m \/ ~msg[m].noreply) /\ n \in Queued(cur) /\ Waits(cur, n)
          BY <1>1, <1>4, <1>6, <1>10, <3>1, QueueTypes
      <4>2. msg[n].noreply => n \notin ToSet(conn'[cur].omsg_q)
          BY <1>8, <4>1 DEF Waits, o
      <4> QED BY <1>1, <1>14, <4>1, <4>2 DEF Waits, Unmoved
    <3>2. ToSet(conn'[cur].imsg_q) \cap ToSet(conn'[cur].omsg_q) = {}
        BY <1>1, <1>5, <1>7, <1>8
    <3> QED BY <1>1, <1>7, <1>8, <2>2, <3>1, <3>2 DEF ServerFit
  <2> QED BY <2>1, <2>2
<1>16. QueuesApart'
  <2>1. \A k \in Conn \ {cur} : Queued(k)' = Queued(k)
      BY <1>1 DEF Kept, Queued
  <2> QED BY <1>1, <1>3, <1>10, <2>1, ApartKept
<1>17. TimedLive'
  <2> SUFFICES ASSUME NEW n \in Msg, msg'[n].tmo # None PROVE msg'[n].st = "live"
      BY DEF TimedLive
  <2> QED BY <1>1, <1>2, ProperParts DEF TimedLive
<1> QED BY <1>1, <1>13, <1>15, <1>16, <1>17 DEF Queueing, Forwarded

-----------------------------------------------------------------------------

(* Every step leaves the requests where they should be.                    *)
LEMMA QueueingStep ==
    ASSUME Proper, IInv', LoopDoes \/ PeersDo
    PROVE  Queueing'
<1>1. ASSUME NEW c \in Conn, NEW d \in Sd \cup {None}, ReservingNew(c, d)
      PROVE  Queueing'
  <2>1. /\ Reserving /\ c # cur /\ {c} \cap Clients = {} /\ {c} \cap Servers = {}
        /\ conn'[c].imsg_q = <<>> /\ conn'[c].omsg_q = <<>>
        /\ conn'[c].owner # None /\ ~conn'[c].client
        /\ \A k \in Conn \ {c, cur} : conn'[k] = conn[k]
      BY <1>1 DEF ReservingNew, Opening, Clients, Servers
  <2> QED BY <2>1, QueueingReserved
<1>2. ASSUME ReservingOld PROVE Queueing'
  <2>1. Reserving /\ \A k \in Conn \ {cur} : conn'[k] = conn[k]
      BY <1>2 DEF ReservingOld, ReservingLru
  <2> QED BY <2>1, QueueingReserved
<1>3. CASE PeersDo
    BY <1>3, QueueingIdle
<1>4. CASE LoopDoes
    BY <1>1, <1>2, <1>4, QueueingIdle, QueueingClosed, QueueingAccepted, QueueingTaken,
       QueueingResponded, QueueingRefused, QueueingErred, QueueingEnqueued,
       QueueingAnswered, QueueingSent DEF LoopDoes
<1> QED BY <1>3, <1>4

(* At the start no request was read.                                       *)
LEMMA InitRequests == Init => Requests
<1> SUFFICES ASSUME Init PROVE Requests
    OBVIOUS
<1>1. Clients = {} /\ Servers = {}
    BY DEF Init, NoConn, Clients, Servers, Attached
<1>2. /\ \A d \in Sd : sock[d].inq = <<>>
      /\ \A m \in Msg : msg[m].st = "unread" /\ msg[m].tmo = None
    BY DEF Init, NoSock, NoMsg
<1>3. pc = "wait"
    BY DEF Init
<1>4. Unread
    BY <1>2 DEF Unread, Fresh, AskedOnce
<1>5. Queueing
    BY <1>1, <1>2, <1>3 DEF Queueing, ClientFit, ServerFit, QueuesApart, TimedLive,
                            Forwarded, Forwarding
<1> QED BY <1>4, <1>5 DEF Requests

(* A step that changes nothing moves no request.                           *)
LEMMA RequestsStill == ASSUME Requests, UNCHANGED vars PROVE Requests'
<1>1. UNCHANGED <<conn, sock, msg, nmsg, pc, cur, cmsg>>
    BY DEF vars, tables, requests, control, bounds
<1>2. Unread'
    BY <1>1 DEF Requests, Unread, Fresh, AskedOnce
<1>3. Clients' = Clients /\ Servers' = Servers /\ \A k \in Conn : Queued(k)' = Queued(k)
    BY <1>1 DEF Clients, Servers, Attached, Queued
<1>4. \A k \in Conn : ClientFit(k)'
    BY <1>1, <1>3 DEF Requests, Queueing, ClientFit, Owned
<1>5. \A k, m : Waits(k, m) => Waits(k, m)'
    BY <1>1, <1>3 DEF Waits, OwnedOrNot
<1>6. \A k \in Conn : ServerFit(k)'
    BY <1>1, <1>3, <1>5 DEF Requests, Queueing, ServerFit
<1>7. QueuesApart' /\ TimedLive' /\ Forwarded'
    BY <1>1, <1>3 DEF Requests, Queueing, QueuesApart, TimedLive, Forwarded, Queued, Servers
<1> QED BY <1>2, <1>4, <1>6, <1>7 DEF Requests, Queueing

(* The invariant holds at the start.                                       *)
LEMMA InitProper == Init => Proper
    BY InitIInv, InitWiring, InitRequests DEF Proper

(* The invariant is inductive.                                             *)
LEMMA ProperNext == ASSUME Proper, [Next]_vars PROVE Proper'
<1>1. IInv'
    BY PeersStep, LoopStep, StutterStep DEF Next, Proper
<1>2. CASE UNCHANGED vars
    BY <1>1, <1>2, WiringStill, RequestsStill DEF Proper
<1>3. CASE Next
  <2>1. LoopDoes \/ PeersDo
      BY <1>3, NextEffect DEF Proper
  <2>2. Wiring'
      BY <1>1, <2>1, SocketsStep, StructuresStep, StageStep DEF Proper, Wiring
  <2>3. Requests'
      BY <1>1, <2>1, UnreadStep, QueueingStep DEF Requests
  <2> QED BY <1>1, <2>2, <2>3 DEF Proper
<1> QED BY <1>2, <1>3

(* The invariant holds in every state of every behaviour.                  *)
LEMMA AlwaysProper == Spec => []Proper
<1>1. Proper /\ [Next]_vars => Proper'
    BY ProperNext
<1> QED BY InitProper, <1>1, PTL DEF Spec

(* For every number of structures, requests and servers: a request that a  *)
(* server connection waits for, or has yet to send, is live, and the       *)
(* client that asked for it has it in its out_q, so that rsp_forward and   *)
(* server_close never touch a freed message.                               *)
THEOREM ProxyRequestsAreThere == Spec => []RequestsAreThere
<1>1. Proper => RequestsAreThere
  <2> SUFFICES ASSUME Proper PROVE RequestsAreThere
      OBVIOUS
  <2>1. NoUseAfterFree
    <3>1. \A c \in Servers \cup Clients : c \in Conn /\ Attached(c)
        BY DEF Servers, Clients
    <3>2. cmsg # None => msg[cmsg].st = "live"
        BY ProperParts DEF Stage, Forwarded
    <3> QED BY <3>1, <3>2, QueuedLive, ProperParts DEF NoUseAfterFree, TimedLive, tmo_rbt
  <2>2. OwnerWaits
    <3> SUFFICES ASSUME NEW c \in Servers, NEW m \in Queued(c)
                 PROVE  /\ ~msg[m].done
                        /\ ~msg[m].noreply =>
                             \/ msg[m].swallow /\ \A k \in Clients : m \notin Queued(k)
                             \/ /\ ~msg[m].swallow
                                /\ msg[m].owner \in Clients
                                /\ m \in Queued(msg[m].owner)
        BY DEF OwnerWaits
    <3>1. Waits(c, m)
        BY ProperParts DEF ServerFit, Servers
    <3>2. ASSUME NEW k \in Clients
          PROVE  /\ Queued(k) = ToSet(conn[k].omsg_q)
                 /\ m \in Queued(k) => Owned(k, m)
      <4>1. k \in Conn /\ conn[k].imsg_q = <<>>
          BY ProperParts DEF Clients, Structures
      <4>2. ToSet(<<>>) = {}
          BY DEF ToSet
      <4> QED BY <4>1, <4>2, ProperParts DEF Queued, ClientFit
    <3> QED BY <3>1, <3>2 DEF Waits, OwnedOrNot, Owned
  <2> QED BY <2>1, <2>2 DEF RequestsAreThere
<1> QED BY AlwaysProper, <1>1, PTL

(* With a timeout set, every request that wants a reply and is at a server *)
(* has its timer at that very connection: core_timeout never closes        *)
(* another one, and no request waits without end (msg_tmo_insert in        *)
(* req_server_enqueue_imsgq).                                              *)
THEOREM ProxyQueuedHaveTimer == Spec => []QueuedHaveTimer
<1>1. Proper => QueuedHaveTimer
    BY ProperParts DEF QueuedHaveTimer, ServerFit, Waits, Servers
<1> QED BY AlwaysProper, <1>1, PTL

(* Two queues that hold no element in common, each without a repeat, hold  *)
(* none twice together.                                                    *)
LEMMA JoinedOnce ==
    ASSUME NEW S, NEW p \in Seq(S), NEW q \in Seq(S), IsInjective(p), IsInjective(q),
           ToSet(p) \cap ToSet(q) = {}
    PROVE  /\ \A i \in DOMAIN (p \o q) : (p \o q)[i] \in ToSet(p) \cup ToSet(q)
           /\ \A i, j \in DOMAIN (p \o q) : (p \o q)[i] = (p \o q)[j] => i = j
<1> DEFINE s == p \o q
<1>1. /\ Len(p) \in Nat /\ Len(q) \in Nat /\ DOMAIN p = 1..Len(p) /\ DOMAIN q = 1..Len(q)
      /\ DOMAIN s = 1..(Len(p) + Len(q))
      /\ \A i \in 1..(Len(p) + Len(q)) : s[i] = IF i <= Len(p) THEN p[i] ELSE q[i - Len(p)]
    BY LenProperties, ConcatProperties
<1> HIDE DEF s
<1>2. ASSUME NEW i \in DOMAIN s
      PROVE  \/ i \in DOMAIN p /\ s[i] = p[i] /\ s[i] \in ToSet(p)
             \/ i - Len(p) \in DOMAIN q /\ s[i] = q[i - Len(p)] /\ s[i] \in ToSet(q)
  <2>1. CASE i <= Len(p)
      BY <1>1, <2>1 DEF ToSet
  <2>2. CASE ~(i <= Len(p))
      BY <1>1, <2>2 DEF ToSet
  <2> QED BY <2>1, <2>2
<1>3. ASSUME NEW i \in DOMAIN s, NEW j \in DOMAIN s, s[i] = s[j] PROVE i = j
  <2>1. CASE i \in DOMAIN p /\ s[i] = p[i] /\ s[i] \in ToSet(p)
    <3>1. j \in DOMAIN p /\ s[j] = p[j]
        BY <1>2, <1>3, <2>1
    <3> QED BY <1>3, <2>1, <3>1 DEF IsInjective
  <2>2. CASE i - Len(p) \in DOMAIN q /\ s[i] = q[i - Len(p)] /\ s[i] \in ToSet(q)
    <3>1. j - Len(p) \in DOMAIN q /\ s[j] = q[j - Len(p)]
        BY <1>2, <1>3, <2>2
    <3>2. i - Len(p) = j - Len(p)
        BY <1>3, <2>2, <3>1 DEF IsInjective
    <3> QED BY <1>1, <3>2
  <2> QED BY <1>2, <2>1, <2>2
<1> QED BY <1>2, <1>3 DEF s

(* No request is twice in the queues of a server connection, nor in those  *)
(* of two of them.                                                         *)
LEMMA ProperOnce == ASSUME Proper PROVE QueuedOnce
<1>1. \A c \in Servers : c \in Conn /\ ServerFit(c)
    BY ProperParts DEF Servers
<1> SUFFICES ASSUME NEW c \in Servers, NEW k \in Servers,
                    NEW i \in DOMAIN (conn[c].imsg_q \o conn[c].omsg_q),
                    NEW j \in DOMAIN (conn[k].imsg_q \o conn[k].omsg_q),
                    (conn[c].imsg_q \o conn[c].omsg_q)[i] = (conn[k].imsg_q \o conn[k].omsg_q)[j]
             PROVE  c = k /\ i = j
    BY DEF QueuedOnce
<1>2. \A x \in Servers : conn[x].imsg_q \in Seq(Msg) /\ conn[x].omsg_q \in Seq(Msg)
    BY <1>1, ProperParts, QueueTypes
<1> DEFINE all(x) == conn[x].imsg_q \o conn[x].omsg_q
<1>3. ASSUME NEW x \in Servers
      PROVE  /\ \A a \in DOMAIN all(x) : all(x)[a] \in Queued(x)
             /\ \A a, b \in DOMAIN all(x) : all(x)[a] = all(x)[b] => a = b
  <2> DEFINE p == conn[x].imsg_q
             q == conn[x].omsg_q
  <2>1. /\ p \in Seq(Msg) /\ q \in Seq(Msg) /\ IsInjective(p) /\ IsInjective(q)
        /\ ToSet(p) \cap ToSet(q) = {}
        /\ Queued(x) = ToSet(p) \cup ToSet(q)
      BY <1>1, <1>2 DEF ServerFit, Queued
  <2> HIDE DEF p, q
  <2>2. /\ \A a \in DOMAIN (p \o q) : (p \o q)[a] \in Queued(x)
        /\ \A a, b \in DOMAIN (p \o q) : (p \o q)[a] = (p \o q)[b] => a = b
      BY <2>1, JoinedOnce
  <2> QED BY <2>2 DEF p, q
<1>4. i \in DOMAIN all(c) /\ j \in DOMAIN all(k) /\ all(c)[i] = all(k)[j]
    OBVIOUS
<1> HIDE DEF all
<1>5. c = k
    BY <1>3, <1>4, ProperParts DEF QueuesApart
<1>6. i = j
    BY <1>3, <1>4, <1>5
<1> QED BY <1>5, <1>6

-----------------------------------------------------------------------------
(***************************************************************************)
(* No server connection is left asleep.                                    *)
(*                                                                         *)
(* Proper /\ Wakeups is inductive.  NoLostServerWakeup speaks of the       *)
(* moment when the loop waits; the invariant follows the wake-up through a *)
(* turn of the loop: from the ready list to the events collected           *)
(* (InBatch), to the read and the write handler (Served), and back to the  *)
(* ready list or to a socket that is full.  It is stronger than            *)
(* NoLostServerWakeup in one more way: a connection whose send_active is   *)
(* set is awake even with nothing to send, as req_forward adds no EPOLLOUT *)
(* to it then.                                                             *)
(***************************************************************************)

(* The event of c that the loop has collected and not handled yet.         *)
InBatch(c) == \E i \in DOMAIN batch : batch[i].c = c /\ (batch[i].out \/ batch[i].err)

(* The loop serves c, and is going to write or close.                      *)
Served(c) == /\ cur = c
             /\ \/ wr \/ pc = "send"
                \/ pc = "check" /\ (conn[c].err \/ conn[c].done)

(* Something will bring c to its write handler, or close it: an edge that  *)
(* is or will be reported, an event that is collected, or the handler that *)
(* runs.                                                                   *)
Awake(c) == Sk(c).rdy \/ Sk(c).full \/ ~Sk(c).up \/ InBatch(c) \/ Served(c)

(* send_active (EPOLLOUT) tells whether c waits to write; when it does it  *)
(* will be woken up.  It is more than the requests in in_q need: that the  *)
(* second request in in_q adds no EPOLLOUT rests on it.                    *)
Roused(c) == c \in Servers =>
    /\ conn[c].imsg_q # <<>> => conn[c].send_active
    /\ conn[c].sd # None /\ conn[c].send_active => Awake(c)

(* core_core leaves nothing to the next turn.                              *)
Turns == /\ pc \in {"wait", "event", "accept", "timeout", "send"} => ~wr
         /\ pc \in {"wait", "timeout"} => batch = <<>>

(* What holds between any two steps of a turn.                             *)
Wakeups == (\A c \in Conn : Roused(c)) /\ Turns

(* The step does not concern c, or wakes it.                               *)
Undisturbed(c) == (c \in Servers)' =>
    /\ c \in Servers /\ conn'[c].imsg_q = conn[c].imsg_q /\ conn'[c].sd = conn[c].sd
    /\ conn'[c].send_active = conn[c].send_active
    /\ conn[c].sd # None =>
         \/ sock'[conn[c].sd].rdy
         \/ /\ sock[conn[c].sd].rdy => sock'[conn[c].sd].rdy
            /\ sock'[conn[c].sd].full = sock[conn[c].sd].full
            /\ sock'[conn[c].sd].up = sock[conn[c].sd].up
    /\ InBatch(c) => InBatch(c)'
    /\ Served(c) => Served(c)'

(* A connection that a step does not concern, or wakes, stays roused.      *)
LEMMA RousedKept ==
    ASSUME NEW c, Roused(c), Undisturbed(c)
    PROVE  Roused(c)'
<1> SUFFICES ASSUME (c \in Servers)'
             PROVE  /\ conn'[c].imsg_q # <<>> => conn'[c].send_active
                    /\ conn'[c].sd # None /\ conn'[c].send_active => Awake(c)'
    BY DEF Roused
<1>1. /\ c \in Servers /\ conn'[c].imsg_q = conn[c].imsg_q /\ conn'[c].sd = conn[c].sd
      /\ conn'[c].send_active = conn[c].send_active
      /\ InBatch(c) => InBatch(c)'
      /\ Served(c) => Served(c)'
      /\ conn[c].sd # None =>
           \/ sock'[conn[c].sd].rdy
           \/ /\ sock[conn[c].sd].rdy => sock'[conn[c].sd].rdy
              /\ sock'[conn[c].sd].full = sock[conn[c].sd].full
              /\ sock'[conn[c].sd].up = sock[conn[c].sd].up
    BY DEF Undisturbed
<1>2. ASSUME conn'[c].sd # None, conn'[c].send_active PROVE Awake(c)'
  <2>1. Awake(c)
      BY <1>1, <1>2 DEF Roused
  <2>2. Awake(c)' <=> \/ sock'[conn[c].sd].rdy \/ sock'[conn[c].sd].full
                      \/ ~sock'[conn[c].sd].up \/ InBatch(c)' \/ Served(c)'
      BY <1>1 DEF Awake, Sk
  <2> QED BY <1>1, <1>2, <2>1, <2>2 DEF Awake, Sk
<1> QED BY <1>1, <1>2 DEF Roused

(* Connections that are not served, in a step that leaves the batch.       *)
LEMMA ServedOther ==
    ASSUME NEW c, cur' # c \/ (~wr' /\ pc' \notin {"send", "check"}),
           cur # c \/ (~wr /\ pc \notin {"send", "check"})
    PROVE  ~Served(c) /\ ~Served(c)'
    BY DEF Served

(* An event that is collected stays so while the loop handles another.     *)
LEMMA SameBatch ==
    ASSUME NEW c, batch' = batch PROVE InBatch(c) => InBatch(c)'
    BY DEF InBatch

(* The other connections, while the loop serves one.                       *)
LEMMA RousedOther ==
    ASSUME NEW c, Roused(c), c # cur, cur' = cur, batch' = batch,
           (c \in Servers)' =>
             /\ c \in Servers /\ conn'[c].imsg_q = conn[c].imsg_q
             /\ conn'[c].sd = conn[c].sd
             /\ conn'[c].send_active = conn[c].send_active
             /\ conn[c].sd # None =>
                  \/ sock'[conn[c].sd].rdy
                  \/ /\ sock[conn[c].sd].rdy => sock'[conn[c].sd].rdy
                     /\ sock'[conn[c].sd].full = sock[conn[c].sd].full
                     /\ sock'[conn[c].sd].up = sock[conn[c].sd].up
    PROVE  Roused(c)'
<1>1. ~Served(c)
    BY DEF Served
<1>2. Undisturbed(c)
    BY <1>1, SameBatch DEF Undisturbed
<1> QED BY <1>2, RousedKept

(* event_wait: what is taken off the ready list is collected.              *)
LEMMA WakeupsWait ==
    ASSUME Proper, Wakeups, event_wait
    PROVE  Wakeups'
<1>1. IInv /\ Sockets /\ Structures
    BY ProperParts
<1>2. /\ pc = "wait" /\ ~wr /\ batch = <<>> /\ pc' = "event" /\ wr' = wr /\ conn' = conn
    BY DEF event_wait, Wakeups, Turns, tables
<1>3. PICK k \in 1..NEvent : \E src \in [1..k -> Sources] :
         /\ \A i, j \in 1..k : src[i] = src[j] => i = j
         /\ batch' = [i \in 1..k |-> IF src[i] = Pool THEN Accepting
                                                      ELSE EventOf(src[i])]
         /\ sock' = [d \in Sd |-> IF d \in ToSet(src)
                                  THEN [sock[d] EXCEPT !.rdy = FALSE] ELSE sock[d]]
    BY DEF event_wait
<1>4. PICK src \in [1..k -> Sources] :
         /\ batch' = [i \in 1..k |-> IF src[i] = Pool THEN Accepting
                                                      ELSE EventOf(src[i])]
         /\ sock' = [d \in Sd |-> IF d \in ToSet(src)
                                  THEN [sock[d] EXCEPT !.rdy = FALSE] ELSE sock[d]]
    BY <1>3
<1>5. ASSUME NEW c \in Conn PROVE Roused(c)'
  <2>1. Roused(c) /\ (c \in Servers)' = (c \in Servers)
      BY <1>2 DEF Wakeups, Servers, Attached
  <2>2. ASSUME c \in Servers, conn[c].sd # None, conn[c].send_active
        PROVE  Awake(c)'
    <3> DEFINE d == conn[c].sd
    <3>1. d \in Sd /\ Attached(c) /\ ~conn[c].client /\ sock[d] \in SockRec
        BY <1>1, <2>2 DEF IInv, TypeOK, ConnRec, Servers
    <3>2. sock[d].ptr = c
        BY <1>1, <2>2, <3>1 DEF Sockets
    <3>3. sock[d].rdy \/ sock[d].full \/ ~sock[d].up
        BY <1>2, <2>1, <2>2 DEF Roused, Awake, Served, InBatch, Sk
    <3>4. /\ sock'[d].full = sock[d].full /\ sock'[d].up = sock[d].up
          /\ sock'[d].rdy = sock[d].rdy \/ d \in ToSet(src)
        BY <1>4, <3>1 DEF SockRec
    <3>5. Sk(c)' = sock'[d]
        BY <1>2 DEF Sk
    <3>6. CASE ~(d \in ToSet(src))
        BY <3>3, <3>4, <3>5, <3>6 DEF Awake
    <3>7. CASE sock[d].full \/ ~sock[d].up
        BY <3>4, <3>5, <3>7 DEF Awake
    <3>8. CASE d \in ToSet(src) /\ ~sock[d].full /\ sock[d].up
      <4>1. PICK i \in 1..k : src[i] = d
          BY <3>8 DEF ToSet
      <4>2. d # Pool
          BY <3>1, ConstantsAssumption DEF Sd, Pool
      <4>3. batch'[i] = EventOf(d) /\ DOMAIN batch' = 1..k
          BY <1>4, <4>1, <4>2
      <4>4. EventOf(d).c = c
          BY <3>2 DEF EventOf
      <4>5. EventOf(d).out
          BY <2>2, <3>2, <3>8 DEF EventOf, CanWrite
      <4>6. InBatch(c)'
          BY <4>1, <4>3, <4>4, <4>5 DEF InBatch
      <4> QED BY <4>6 DEF Awake
    <3> QED BY <3>6, <3>7, <3>8
  <2> QED BY <1>2, <2>1, <2>2 DEF Roused
<1>6. Turns'
    BY <1>2 DEF Turns
<1> QED BY <1>5, <1>6 DEF Wakeups

-----------------------------------------------------------------------------
(* A step that leaves structures and sockets alone.                        *)
LEMMA RousedAlone ==
    ASSUME NEW c, Roused(c), conn' = conn, sock' = sock,
           InBatch(c) => InBatch(c)', Served(c) => Served(c)'
    PROVE  Roused(c)'
<1>1. Undisturbed(c)
    BY DEF Undisturbed, Servers, Attached
<1> QED BY <1>1, RousedKept

(* Closing c leaves the others as they are.                                *)
LEMMA RousedClosed ==
    ASSUME IInv, NEW c \in Conn, NEW mg, Closes(c, mg), NEW k \in Conn, Roused(k),
           k # c => (InBatch(k) => InBatch(k)') /\ (Served(k) => Served(k)')
    PROVE  Roused(k)'
<1>1. CASE k = c
  <2>1. k \notin Servers'
      BY <1>1 DEF Closes, Servers, Attached
  <2> QED BY <2>1 DEF Roused
<1>2. CASE k # c
  <2>1. conn'[k] = conn[k] /\ ((k \in Servers)' <=> k \in Servers)
      BY <1>2 DEF Closes, Servers, Attached
  <2>2. conn[k].sd # None =>
          /\ sock'[conn[k].sd].rdy = sock[conn[k].sd].rdy
          /\ sock'[conn[k].sd].full = sock[conn[k].sd].full
          /\ sock'[conn[k].sd].up = sock[conn[k].sd].up
    <3>1. SUFFICES ASSUME conn[k].sd # None
                   PROVE  /\ sock'[conn[k].sd].rdy = sock[conn[k].sd].rdy
                          /\ sock'[conn[k].sd].full = sock[conn[k].sd].full
                          /\ sock'[conn[k].sd].up = sock[conn[k].sd].up
        OBVIOUS
    <3> DEFINE d == conn[k].sd
    <3>2. d \in Sd /\ sock[d] \in SockRec
        BY <3>1 DEF IInv, TypeOK, ConnRec
    <3>3. sock'[d] = [sock[d] EXCEPT !.ptr = sock'[d].ptr, !.open = sock'[d].open]
        BY <3>2 DEF Closes
    <3> HIDE DEF d
    <3>4. sock'[d].rdy = sock[d].rdy /\ sock'[d].full = sock[d].full /\ sock'[d].up = sock[d].up
        BY <3>2, <3>3 DEF SockRec
    <3> QED BY <3>4 DEF d
  <2>3. Undisturbed(k)
      BY <1>2, <2>1, <2>2 DEF Undisturbed
  <2> QED BY <2>3, RousedKept
<1> QED BY <1>1, <1>2

(* epoll_wait that times out, and the ends of the handlers' loops.         *)
LEMMA WakeupsTurn ==
    ASSUME Proper, Wakeups, event_wait_timeout \/ EventsHandled \/ ProxyAgain
    PROVE  Wakeups'
<1>1. /\ pc \in {"wait", "event", "accept"} /\ pc' \in {"timeout", "event"}
      /\ conn' = conn /\ sock' = sock /\ wr' = wr /\ batch' = batch
      /\ pc' = "timeout" => batch = <<>>
    BY DEF event_wait_timeout, EventsHandled, ProxyAgain, tables, Wakeups, Turns
<1>2. ~wr
    BY <1>1 DEF Wakeups, Turns
<1>3. ASSUME NEW c \in Conn PROVE Roused(c)'
  <2>1. Roused(c) /\ ~Served(c) /\ (InBatch(c) => InBatch(c)')
      BY <1>1, <1>2, SameBatch DEF Wakeups, Served
  <2> QED BY <1>1, <2>1, RousedAlone
<1>4. Turns'
    BY <1>1, <1>2 DEF Turns
<1> QED BY <1>3, <1>4 DEF Wakeups

(* The event of a connection is handled, or another one's.                 *)
LEMMA HeadHandled ==
    ASSUME IInv, batch # <<>>, batch' = Tail(batch), NEW c, InBatch(c)
    PROVE  \/ InBatch(c)'
           \/ Head(batch).c = c /\ (Head(batch).out \/ Head(batch).err)
<1>1. batch \in Seq(Event)
    BY DEF IInv, TypeOK
<1>2. PICK i \in DOMAIN batch : batch[i].c = c /\ (batch[i].out \/ batch[i].err)
    BY DEF InBatch
<1>3. CASE i = 1
    BY <1>1, <1>2, <1>3
<1>4. CASE i # 1
  <2>1. i \in 1..Len(batch) /\ i \in Nat /\ Len(batch) \in Nat
      BY <1>1, <1>2
  <2>2. /\ batch' \in Seq(Event) /\ Len(batch') = Len(batch) - 1
        /\ \A j \in 1..Len(batch') : batch'[j] = batch[j + 1]
      BY <1>1, HeadTailProperties
  <2>3. i - 1 \in 1..Len(batch') /\ batch'[i - 1] = batch[i] /\ DOMAIN batch' = 1..Len(batch')
      BY <1>4, <2>1, <2>2
  <2> QED BY <1>2, <2>3 DEF InBatch
<1> QED BY <1>3, <1>4

(* core_core and core_timeout set err before they close.                   *)
LEMMA ErrAlike ==
    ASSUME IInv, NEW STATE c, c \in Conn
    PROVE  Alike([conn EXCEPT ![c].err = TRUE], c)
<1> DEFINE cn == [conn EXCEPT ![c].err = TRUE]
<1>1. conn \in [Conn -> ConnRec] /\ TRUE \in BOOLEAN
    BY DEF IInv, TypeOK
<1>2. Edited(cn)
    BY <1>1, ConnEdited, FlagFacts
<1>3. Flagged(cn, conn, c)
    BY <1>1, FlagsOnly
<1> HIDE DEF cn
<1>4. Alike(cn, c)
    BY <1>1, <1>2, <1>3, FlaggedFacts DEF Alike
<1> QED BY <1>4 DEF cn

(* core_core: a connection whose event says that it may write is served,   *)
(* after it was read from if the event says that too.                      *)
LEMMA WakeupsCore ==
    ASSUME Proper, Wakeups, core_core
    PROVE  Wakeups'
<1> DEFINE e == Head(batch)
<1>0. IInv /\ Structures
    BY ProperParts
<1>1. pc = "event" /\ batch # <<>> /\ batch' = Tail(batch) /\ ~wr
    BY DEF core_core, Wakeups, Turns
<1>2. e \in Event
    BY <1>0, <1>1 DEF IInv, TypeOK
<1>3. \A c \in Conn : Roused(c) /\ ~Served(c)
    BY <1>1 DEF Wakeups, Served
<1>4. \A c : InBatch(c) => InBatch(c)' \/ (e.c = c /\ (e.out \/ e.err))
    BY <1>0, <1>1, HeadHandled
<1>5. \/ /\ e.c = Pool /\ pc' = "accept" /\ conn' = conn /\ sock' = sock /\ wr' = wr
      \/ /\ e.c # Pool /\ ~Attached(e.c) /\ conn' = conn /\ sock' = sock /\ wr' = wr /\ pc' = pc
      \/ /\ e.c # Pool /\ Attached(e.c) /\ e.err /\ wr' = wr
         /\ core_close([conn EXCEPT ![e.c].err = TRUE], msg, e.c, "event")
      \/ /\ e.c # Pool /\ Attached(e.c) /\ ~e.err
         /\ pc' = (IF e.in THEN "recv" ELSE "send") /\ cur' = e.c /\ wr' = (e.in /\ e.out)
         /\ conn' = conn /\ sock' = sock
    BY DEF core_core, tables
<1> HIDE DEF e
<1>6. CASE e.c = Pool /\ pc' = "accept" /\ conn' = conn /\ sock' = sock /\ wr' = wr
  <2>1. ASSUME NEW c \in Conn PROVE Roused(c)'
    <3>1. c # Pool
        BY DEF Conn, Pool
    <3> QED BY <1>3, <1>4, <1>6, <3>1, RousedAlone
  <2> QED BY <1>1, <1>6, <2>1 DEF Wakeups, Turns
<1>7. CASE e.c # Pool /\ ~Attached(e.c) /\ conn' = conn /\ sock' = sock /\ wr' = wr /\ pc' = pc
  <2>1. ASSUME NEW c \in Conn PROVE Roused(c)'
    <3>1. CASE c = e.c
        BY <1>7, <3>1 DEF Roused, Servers, Attached
    <3>2. CASE c # e.c
        BY <1>3, <1>4, <1>7, <3>2, RousedAlone
    <3> QED BY <3>1, <3>2
  <2> QED BY <1>1, <1>7, <2>1 DEF Wakeups, Turns
<1>8. CASE /\ e.c # Pool /\ Attached(e.c) /\ e.err /\ wr' = wr
           /\ core_close([conn EXCEPT ![e.c].err = TRUE], msg, e.c, "event")
  <2>1. e.c \in Conn
      BY <1>2, <1>8 DEF Event
  <2>2. msg \in [Msg -> MsgRec] /\ conn \in [Conn -> ConnRec]
      BY <1>0 DEF IInv, TypeOK
  <2>3. Alike([conn EXCEPT ![e.c].err = TRUE], e.c)
      BY <1>0, <2>1, ErrAlike
  <2>4. pc' = "event" /\ Closes(e.c, msg)
      BY <1>0, <1>8, <2>1, <2>2, <2>3, CoreClosed
  <2>5. ASSUME NEW c \in Conn PROVE Roused(c)'
      BY <1>0, <1>3, <1>4, <2>1, <2>4, <2>5, RousedClosed
  <2> QED BY <1>1, <1>8, <2>4, <2>5 DEF Wakeups, Turns
<1>9. CASE /\ e.c # Pool /\ Attached(e.c) /\ ~e.err
           /\ pc' = (IF e.in THEN "recv" ELSE "send") /\ cur' = e.c /\ wr' = (e.in /\ e.out)
           /\ conn' = conn /\ sock' = sock
  <2>1. ASSUME NEW c \in Conn PROVE Roused(c)'
    <3>1. CASE c = e.c
      <4>1. CASE InBatch(c) /\ ~InBatch(c)'
        <5>1. e.out
            BY <1>4, <1>9, <4>1
        <5>2. Served(c)'
            BY <1>9, <3>1, <5>1 DEF Served
        <5>3. Awake(c)'
            BY <5>2 DEF Awake
        <5> QED BY <1>3, <1>9, <5>3 DEF Roused, Servers, Attached
      <4>2. CASE InBatch(c) => InBatch(c)'
          BY <1>3, <1>9, <4>2, RousedAlone
      <4> QED BY <4>1, <4>2
    <3>2. CASE c # e.c
        BY <1>3, <1>4, <1>9, <3>2, RousedAlone
    <3> QED BY <3>1, <3>2
  <2>2. Turns'
      BY <1>9 DEF Turns
  <2> QED BY <2>1, <2>2 DEF Wakeups
<1> QED BY <1>5, <1>6, <1>7, <1>8, <1>9

-----------------------------------------------------------------------------
(* CheckConn: a connection that has an event to write left goes on with    *)
(* it; one that failed is closed.                                          *)
LEMMA WakeupsCheck ==
    ASSUME Proper, Wakeups, CheckConn
    PROVE  Wakeups'
<1>0. IInv /\ Structures
    BY ProperParts
<1>1. pc = "check" /\ batch' = batch
    BY DEF CheckConn
<1>2. /\ cur \in Conn /\ Attached(cur) /\ msg \in [Msg -> MsgRec]
      /\ conn \in [Conn -> ConnRec]
    BY <1>0, <1>1 DEF IInv, TypeOK, Control, Handling
<1>3. \A c \in Conn : Roused(c) /\ (InBatch(c) => InBatch(c)')
    BY <1>1, SameBatch DEF Wakeups
<1>4. CASE core_close(conn, msg, cur, "event") /\ cur' = None /\ wr' = FALSE
  <2>1. Alike(conn, cur)
      BY <1>0, ConnEdited DEF Alike
  <2>2. pc' = "event" /\ Closes(cur, msg)
      BY <1>0, <1>2, <1>4, <2>1, CoreClosed
  <2>3. ASSUME NEW c \in Conn PROVE Roused(c)'
    <3>1. c # cur => ~Served(c)
        BY DEF Served
    <3> QED BY <1>0, <1>2, <1>3, <2>2, <3>1, RousedClosed
  <2>4. Turns'
      BY <1>4, <2>2 DEF Turns
  <2> QED BY <2>3, <2>4 DEF Wakeups
<1>5. CASE /\ ~(conn[cur].done \/ conn[cur].err)
           /\ IF wr THEN pc' = "send" /\ wr' = FALSE /\ UNCHANGED cur
                    ELSE pc' = "event" /\ cur' = None /\ UNCHANGED wr
           /\ UNCHANGED <<tables, msg, sock>>
  <2>1. conn' = conn /\ sock' = sock
      BY <1>5 DEF tables
  <2>2. ASSUME NEW c \in Conn PROVE Roused(c)'
    <3>1. ASSUME Served(c) PROVE Served(c)'
      <4>1. c = cur /\ wr
          BY <1>1, <1>5, <3>1 DEF Served
      <4> QED BY <1>5, <4>1 DEF Served
    <3> QED BY <1>3, <2>1, <3>1, RousedAlone
  <2>3. Turns'
      BY <1>5 DEF Turns
  <2> QED BY <2>2, <2>3 DEF Wakeups
<1> QED BY <1>4, <1>5 DEF CheckConn

(* core_timeout closes the connection of an expired request.               *)
LEMMA WakeupsTimeout ==
    ASSUME Proper, Wakeups, core_timeout
    PROVE  Wakeups'
<1>0. IInv /\ Structures /\ TypeOK
    BY ProperParts DEF IInv
<1>1. /\ pc = "timeout" /\ batch' = batch /\ wr' = wr /\ batch = <<>> /\ ~wr
    BY DEF core_timeout, Wakeups, Turns
<1>2. msg \in [Msg -> MsgRec]
    BY <1>0 DEF TypeOK
<1>3. \A c \in Conn : Roused(c) /\ (InBatch(c) => InBatch(c)') /\ ~Served(c)
    BY <1>1, SameBatch DEF Wakeups, Served
<1>4. ASSUME conn' = conn, sock' = sock PROVE Wakeups'
  <2>1. \A c \in Conn : Roused(c)'
      BY <1>3, <1>4, RousedAlone
  <2> QED BY <1>1, <2>1 DEF Wakeups, Turns
<1>5. CASE pc' = "wait" /\ UNCHANGED <<tables, msg, sock>>
    BY <1>4, <1>5 DEF tables
<1>6. CASE tmo_rbt # {} /\ ~(pc' = "wait" /\ UNCHANGED <<tables, msg, sock>>)
  <2> DEFINE m == msg_tmo_min
             c == msg[m].tmo
             mg == [msg EXCEPT ![m] = msg_tmo_delete(@)]
             cn == [conn EXCEPT ![c].err = TRUE]
  <2>1. m \in tmo_rbt
      BY <1>0, <1>6, TmoMin
  <2>2. m \in Msg /\ c \in Conn
      BY <1>2, <2>1 DEF tmo_rbt, MsgRec
  <2>3. mg \in [Msg -> MsgRec]
      BY <1>2, <2>2, ReqPutType
  <2>4. \/ UNCHANGED <<tables, sock>>
        \/ core_close(cn, mg, c, "timeout")
      BY <1>6 DEF core_timeout
  <2>5. CASE UNCHANGED <<tables, sock>>
      BY <1>4, <2>5 DEF tables
  <2>6. CASE core_close(cn, mg, c, "timeout")
    <3> HIDE DEF mg, c
    <3>1. Alike(cn, c)
        BY <1>0, <2>2, ErrAlike
    <3> HIDE DEF cn
    <3>2. \/ pc' = "crash" /\ UNCHANGED <<tables, msg, sock>>
          \/ pc' = "timeout" /\ Closes(c, mg)
        BY <1>0, <2>2, <2>3, <2>6, <3>1, CoreClosed
    <3>3. CASE pc' = "crash" /\ UNCHANGED <<tables, msg, sock>>
        BY <1>4, <3>3 DEF tables
    <3>4. CASE pc' = "timeout" /\ Closes(c, mg)
      <4>1. Served(c)' => FALSE
          BY <1>1, <3>4 DEF Served
      <4>2. ASSUME NEW k \in Conn PROVE Roused(k)'
          BY <1>0, <1>3, <2>2, <3>4, RousedClosed
      <4> QED BY <1>1, <3>4, <4>2 DEF Wakeups, Turns
    <3> QED BY <3>2, <3>3, <3>4
  <2> QED BY <2>4, <2>5, <2>6
<1> QED BY <1>5, <1>6 DEF core_timeout

(* proxy_accept: a new client is no server connection.                     *)
LEMMA WakeupsAccept ==
    ASSUME Proper, Wakeups, proxy_accept
    PROVE  Wakeups'
<1>0. IInv /\ Sockets
    BY ProperParts
<1>1. /\ pc = "accept" /\ pc' = pc /\ cur' = cur /\ wr' = wr /\ batch' = batch
    BY DEF proxy_accept, control
<1>2. \A c \in Conn : Roused(c) /\ (InBatch(c) => InBatch(c)') /\ ~Served(c)
    BY <1>1, SameBatch DEF Wakeups, Turns, Served
<1>3. Turns'
    BY <1>1 DEF Wakeups, Turns
<1>4. CASE UNCHANGED <<tables, sock, nsd>>
    BY <1>2, <1>3, <1>4, RousedAlone DEF tables, Wakeups
<1>5. CASE ~UNCHANGED <<tables, sock, nsd>>
  <2> DEFINE c == Head(free_connq)
             d == nsd + 1
  <2>1. /\ nsd < MaxSd /\ free_connq # <<>>
        /\ conn' = [conn EXCEPT ![c] = [NoConn EXCEPT !.client = TRUE, !.owner = Pool,
                                 !.sd = d, !.send_active = TRUE]]
        /\ \E k : sock' = [sock EXCEPT ![d] = k]
      BY <1>5 DEF proxy_accept
  <2>2. c \in Conn /\ ~Attached(c) /\ sock \in [Sd -> SockRec] /\ conn \in [Conn -> ConnRec]
      BY <1>0, <2>1, FreeHead DEF IInv, TypeOK
  <2>3. conn'[c].client /\ \A k \in Conn \ {c} : conn'[k] = conn[k]
      BY <2>1, <2>2
  <2> HIDE DEF c
  <2>4. ASSUME NEW k \in Conn PROVE Roused(k)'
    <3>1. CASE k = c
        BY <2>3, <3>1 DEF Roused, Servers
    <3>2. CASE k # c
      <4>1. conn'[k] = conn[k]
          BY <2>3, <3>2
      <4>2. k \in Servers /\ conn[k].sd # None => sock'[conn[k].sd] = sock[conn[k].sd]
        <5>1. SUFFICES ASSUME k \in Servers, conn[k].sd # None
                       PROVE  sock'[conn[k].sd] = sock[conn[k].sd]
            OBVIOUS
        <5>2. conn[k].sd \in Sd /\ nsd \in Nat
            BY <1>0, <5>1 DEF IInv, TypeOK, ConnRec
        <5>3. conn[k].sd <= nsd
            BY <1>0, <5>1 DEF Sockets, Servers
        <5>4. conn[k].sd # d
            BY <5>2, <5>3 DEF Sd
        <5> HIDE DEF d
        <5> QED BY <2>1, <2>2, <5>2, <5>4
      <4>3. Undisturbed(k)
          BY <1>2, <4>1, <4>2 DEF Undisturbed, Servers, Attached
      <4> QED BY <1>2, <4>3, RousedKept
    <3> QED BY <3>1, <3>2
  <2> QED BY <1>3, <2>4 DEF Wakeups
<1> QED BY <1>4, <1>5

-----------------------------------------------------------------------------
(* x leaves what wakes k up.                                               *)
Watches(x, cn, k) ==
    /\ x[k].client = cn[k].client /\ x[k].owner = cn[k].owner /\ x[k].sd = cn[k].sd
    /\ x[k].imsg_q = cn[k].imsg_q /\ x[k].send_active = cn[k].send_active

(* Edges stay, and what a write finds.                                     *)
Edges(d) == /\ sock[d].rdy => sock'[d].rdy
            /\ sock'[d].full = sock[d].full /\ sock'[d].up = sock[d].up

(* The handlers that touch no in_q.                                        *)
LEMMA WakeupsHandler ==
    ASSUME Proper, Wakeups, pc \notin {"send", "check"},
           pc' \notin {"wait", "event", "accept", "timeout", "send"},
           cur' = cur, wr' = wr, batch' = batch,
           \A k \in Conn : \/ Watches(conn', conn, k)
                           \/ k \notin Servers'
                           \/ Roused(k)',
           \A d \in Sd : d <= nsd => Edges(d)
    PROVE  Wakeups'
<1>0. IInv /\ Sockets
    BY ProperParts
<1>1. ASSUME NEW k \in Conn, Watches(conn', conn, k) PROVE Roused(k)'
  <2>1. Roused(k) /\ (InBatch(k) => InBatch(k)') /\ (Served(k) => Served(k)')
      BY SameBatch DEF Wakeups, Served
  <2>2. k \in Servers' => k \in Servers
      BY <1>1 DEF Watches, Servers, Attached
  <2>3. k \in Servers /\ conn[k].sd # None => conn[k].sd \in Sd /\ conn[k].sd <= nsd
      BY <1>0 DEF IInv, TypeOK, ConnRec, Sockets, Servers
  <2>4. Undisturbed(k)
      BY <1>1, <2>1, <2>2, <2>3 DEF Undisturbed, Watches, Edges
  <2> QED BY <2>1, <2>4, RousedKept
<1>2. \A k \in Conn : Roused(k)'
    BY <1>1 DEF Roused
<1>3. Turns'
    BY DEF Turns
<1> QED BY <1>2, <1>3 DEF Wakeups

(* conn_recv takes no edge off.                                            *)
LEMMA EdgesConsumed ==
    ASSUME IInv, pc = "recv", Sk(cur).inq # <<>>, sock' = Consumed(cur)
    PROVE  \A d \in Sd : Edges(d)
    BY ConsumedFacts DEF Edges, SockAlike

(* Sockets that do not change keep their edges.                            *)
LEMMA EdgesSame == ASSUME sock' = sock PROVE \A d \in Sd : Edges(d)
    BY DEF Edges

(* Reading that changes flags at most.                                     *)
LEMMA WakeupsRead ==
    ASSUME Proper, Wakeups,
           \/ recv_again \/ recv_error \/ req_filter_quit \/ req_recv_next_eof
           \/ rsp_recv_next_eof \/ rsp_filter_close \/ req_recv_done
    PROVE  Wakeups'
<1>0. IInv /\ conn \in [Conn -> ConnRec] /\ sock \in [Sd -> SockRec]
    BY ProperParts DEF IInv, TypeOK
<1>1. /\ pc = "recv" /\ pc' \in {"check", "forward"}
      /\ cur' = cur /\ wr' = wr /\ batch' = batch
    BY DEF recv_again, recv_error, req_filter_quit, req_recv_next_eof, ServerReads,
           rsp_recv_next_eof, rsp_filter_close, req_recv_done
<1>2. cur \in Conn /\ conn[cur].sd \in Sd /\ conn[cur] \in ConnRec
    BY <1>0, <1>1, CurFacts DEF Handling
<1>3. \A k \in Conn : Watches(conn', conn, k)
  <2> SUFFICES ASSUME NEW k \in Conn PROVE Watches(conn', conn, k)
      OBVIOUS
  <2>1. CASE conn' = conn
      BY <2>1 DEF Watches
  <2>2. CASE conn' = [conn EXCEPT ![cur].err = TRUE]
      BY <1>0, <1>2, <2>2 DEF Watches, ConnRec
  <2>3. ASSUME NEW STATE b, b \in BOOLEAN,
               conn' = [conn EXCEPT ![cur].eof = TRUE, ![cur].done = b]
        PROVE  Watches(conn', conn, k)
      BY <1>0, <1>2, <2>3 DEF Watches, ConnRec
  <2>4. CASE conn' = [conn EXCEPT ![cur].err = TRUE, ![cur].done = TRUE]
      BY <1>0, <1>2, <2>4 DEF Watches, ConnRec
  <2>5. CASE recv_again \/ req_recv_done
      BY <2>1, <2>5 DEF recv_again, req_recv_done, tables
  <2>6. CASE recv_error
      BY <2>2, <2>6 DEF recv_error
  <2>7. CASE req_filter_quit
    <3>1. conn' = [conn EXCEPT ![cur].eof = TRUE, ![cur].done = (conn[cur].omsg_q = <<>>)]
        BY <2>7 DEF req_filter_quit
    <3> QED BY <2>3, <3>1
  <2>8. CASE req_recv_next_eof
    <3> DEFINE b == conn[cur].done \/ conn[cur].omsg_q = <<>>
    <3>1. conn' = [conn EXCEPT ![cur].eof = TRUE, ![cur].done = b]
        BY <1>0, <1>2, <2>8 DEF req_recv_next_eof
    <3>2. b \in BOOLEAN
        OBVIOUS
    <3> HIDE DEF b
    <3> QED BY <2>3, <3>1, <3>2
  <2>9. CASE rsp_recv_next_eof
      BY <2>3, <2>9 DEF rsp_recv_next_eof
  <2>10. CASE rsp_filter_close
      BY <2>4, <2>10 DEF rsp_filter_close
  <2> QED BY <2>5, <2>6, <2>7, <2>8, <2>9, <2>10
<1>4. \A d \in Sd : Edges(d)
  <2>1. CASE recv_again \/ recv_error \/ req_recv_next_eof \/ rsp_recv_next_eof
      BY <2>1, EdgesSame DEF recv_again, recv_error, req_recv_next_eof, rsp_recv_next_eof
  <2>2. CASE req_recv_done \/ rsp_filter_close
      BY <1>0, <1>1, <2>2, EdgesConsumed DEF req_recv_done, rsp_filter_close, ServerReads, Readable
  <2>3. CASE req_filter_quit
    <3>1. PICK k : sock' = [sock EXCEPT ![conn[cur].sd].inq = SubSeq(@, k + 1, Len(@))]
        BY <2>3 DEF req_filter_quit
    <3>2. \A d \in Sd : /\ sock'[d].rdy = sock[d].rdy /\ sock'[d].full = sock[d].full
                        /\ sock'[d].up = sock[d].up
        BY <1>0, <1>2, <3>1 DEF SockRec
    <3> QED BY <3>2 DEF Edges
  <2> QED BY <2>1, <2>2, <2>3
<1> QED BY <1>1, <1>3, <1>4, WakeupsHandler

-----------------------------------------------------------------------------
(* event_add_out on a client wakes that client and no one else.            *)
LEMMA AddedOutOther ==
    ASSUME NEW STATE cn, cn \in [Conn -> ConnRec], NEW STATE c, c \in Conn, NEW k \in Conn
    PROVE  LET x == event_add_out(cn, c)
           IN /\ k # c => Watches(x, cn, k)
              /\ x[k].client = cn[k].client
    BY DEF event_add_out, Watches, ConnRec

(* A response moves the head of out_q, and may wake its client up.         *)
LEMMA WakeupsResponse ==
    ASSUME Proper, Wakeups, rsp_filter_swallow \/ rsp_forward
    PROVE  Wakeups'
<1> DEFINE q == conn[cur].omsg_q
           t == Tail(q)
           w == [conn EXCEPT ![cur].omsg_q = t]
           k == msg[Head(q)].owner
<1>0. IInv /\ conn \in [Conn -> ConnRec] /\ sock \in [Sd -> SockRec]
    BY ProperParts DEF IInv, TypeOK
<1>1. /\ pc = "recv" /\ pc' \in {"check", "recv"} /\ q # <<>>
      /\ cur' = cur /\ wr' = wr /\ batch' = batch /\ ~conn[cur].client
      /\ Sk(cur).inq # <<>>
    BY DEF rsp_filter_swallow, rsp_forward, ServerReads, Readable, ReadOn
<1>2. cur \in Conn /\ conn[cur].sd \in Sd /\ cur \in Servers
    BY <1>0, <1>1, CurFacts DEF Handling, IInv, Control, Servers
<1>3. \/ conn' = w /\ sock' = Consumed(cur)
      \/ /\ conn' = event_add_out(w, k) /\ sock' = Rearmed(Consumed(cur), conn, k)
         /\ ~msg[Head(q)].swallow
  <2>1. Dequeued(conn, cur) = w
      BY <1>0, <1>2 DEF Dequeued
  <2> HIDE DEF w
  <2> QED BY <2>1 DEF rsp_filter_swallow, rsp_forward
<1>4. q \in Seq(Msg)
    BY <1>0, <1>2 DEF ConnRec
<1>5. ~msg[Head(q)].swallow => k \in Clients
  <2> DEFINE p == Head(q)
  <2>1. p \in ToSet(q) /\ p \in Msg
      BY <1>1, <1>4, HeadIn
  <2>2. Waits(cur, p)
      BY <1>2, <2>1, ProperParts DEF ServerFit, Queued
  <2> QED BY <2>1, <2>2 DEF Waits, OwnedOrNot
<1>6. /\ w \in [Conn -> ConnRec]
      /\ \A x \in Conn : Watches(w, conn, x)
  <2>1. t \in Seq(Msg)
    <3> HIDE DEF q
    <3> QED BY <1>1, <1>4
  <2> HIDE DEF t
  <2>2. w \in [Conn -> ConnRec]
      BY <1>0, <1>2, <2>1, DequeuedFacts DEF OmsgSet
  <2>3. \A x \in Conn : Watches(w, conn, x)
      BY <1>0, <1>2, <2>1 DEF Watches, ConnRec
  <2> QED BY <2>2, <2>3
<1> HIDE DEF w, t, q
<1>7. CASE conn' = w /\ sock' = Consumed(cur)
  <2>1. \A d \in Sd : Edges(d)
      BY <1>0, <1>1, <1>7, EdgesConsumed
  <2> QED BY <1>1, <1>6, <1>7, <2>1, WakeupsHandler
<1>8. CASE /\ conn' = event_add_out(w, k) /\ sock' = Rearmed(Consumed(cur), conn, k)
           /\ ~msg[Head(q)].swallow
  <2>1. k \in Conn /\ conn[k].client
      BY <1>5, <1>8 DEF Clients
  <2> HIDE DEF k
  <2>2. ASSUME NEW x \in Conn PROVE Watches(conn', conn, x) \/ x \notin Servers'
    <3>1. x # k => Watches(conn', w, x)
        BY <1>6, <1>8, <2>1, AddedOutOther
    <3>2. conn'[k].client = w[k].client
        BY <1>6, <1>8, <2>1, AddedOutOther
    <3>3. w[k].client = conn[k].client /\ Watches(w, conn, x)
        BY <1>6, <2>1 DEF Watches
    <3> QED BY <2>1, <3>1, <3>2, <3>3 DEF Watches, Servers
  <2>3. ASSUME NEW d \in Sd PROVE Edges(d)
    <3> DEFINE sk == Consumed(cur)
    <3>1. sk \in [Sd -> SockRec]
        BY <1>0, <1>1, ReadFacts DEF IInv, TypeOK
    <3>2. SockAlike(sk[d], sock[d]) /\ sk[d].rdy = sock[d].rdy /\ sk[d].full = sock[d].full
        BY <1>0, <1>1, ConsumedFacts
    <3>3. sock' = Rearmed(sk, conn, k)
        BY <1>8
    <3> HIDE DEF sk
    <3>4. /\ SockAlike(sock'[d], sk[d]) /\ sock'[d].full = sk[d].full
          /\ sk[d].rdy => sock'[d].rdy
        BY <3>1, <3>3, RearmedFacts
    <3> QED BY <3>2, <3>4 DEF Edges, SockAlike
  <2> QED BY <1>1, <2>2, <2>3, WakeupsHandler
<1> QED BY <1>3, <1>7, <1>8

(* req_forward_error wakes the client that asked.                          *)
LEMMA WakeupsError ==
    ASSUME Proper, Wakeups, req_forward_error
    PROVE  Wakeups'
<1>0. IInv /\ conn \in [Conn -> ConnRec] /\ sock \in [Sd -> SockRec]
    BY ProperParts DEF IInv, TypeOK
<1>1. /\ pc = "error" /\ pc' \in {"check", "recv"}
      /\ cur' = cur /\ wr' = wr /\ batch' = batch
      /\ \/ conn' = event_add_out(conn, cur) /\ sock' = Rearmed(sock, conn, cur)
         \/ UNCHANGED <<conn, sock>>
    BY DEF req_forward_error, ReadOn
<1>2. cur \in Conn /\ conn[cur].client
    BY <1>0, <1>1 DEF Handling, Forwarding, IInv, Control
<1>3. CASE conn' = event_add_out(conn, cur) /\ sock' = Rearmed(sock, conn, cur)
  <2>1. ASSUME NEW x \in Conn PROVE Watches(conn', conn, x) \/ x \notin Servers'
      BY <1>0, <1>2, <1>3, AddedOutOther DEF Servers
  <2>2. \A d \in Sd : Edges(d)
      BY <1>0, <1>3, RearmedFacts DEF Edges, SockAlike
  <2> QED BY <1>1, <2>1, <2>2, WakeupsHandler
<1>4. CASE UNCHANGED <<conn, sock>>
  <2>1. \A x \in Conn : Watches(conn', conn, x)
      BY <1>4 DEF Watches
  <2>2. \A d \in Sd : Edges(d)
      BY <1>4, EdgesSame
  <2> QED BY <1>1, <2>1, <2>2, WakeupsHandler
<1> QED BY <1>1, <1>3, <1>4

(* ForwardRejected closes a connection and leaves the others.              *)
LEMMA WakeupsRejected ==
    ASSUME Proper, Wakeups, ForwardRejected
    PROVE  Wakeups'
<1>0. IInv /\ Structures
    BY ProperParts
<1>1. /\ pc = "reject" /\ pc' = "error"
      /\ cur' = cur /\ wr' = wr /\ batch' = batch
    BY DEF ForwardRejected
<1>2. Refusing(scur)
    BY <1>0, RefuseEffect
<1>3. \A x \in Conn : Watches(conn', conn, x) \/ x \notin Servers'
    BY <1>2 DEF Refusing, Watches, Servers, Attached
<1>4. \A d \in Sd : Edges(d)
    BY <1>2, EdgesSame DEF Refusing
<1> QED BY <1>1, <1>3, <1>4, WakeupsHandler

-----------------------------------------------------------------------------
(* server_conn rotates: no connection is touched but the client's out_q.   *)
LEMMA WakeupsLru ==
    ASSUME Proper, Wakeups, NEW s \in Server, ForwardOnLru(s)
    PROVE  Wakeups'
<1>0. IInv /\ conn \in [Conn -> ConnRec]
    BY ProperParts DEF IInv, TypeOK
<1>1. /\ pc = "forward" /\ pc' \in {"enqueue", "reject"}
      /\ cur' = cur /\ wr' = wr /\ batch' = batch
      /\ conn' = Outstanding(cur, cmsg) /\ sock' = sock
    BY DEF ForwardOnLru
<1>2. cur \in Conn /\ conn[cur].client
    BY <1>0, <1>1 DEF Handling, Forwarding, IInv, Control
<1>3. OmsgSet(conn', conn, cur, IF msg[cmsg].noreply THEN conn[cur].omsg_q
                                ELSE Append(conn[cur].omsg_q, cmsg))
    BY <1>0, <1>1, OutstandingEffect, Zenon
<1>4. \A x \in Conn : Watches(conn', conn, x)
    BY <1>2, <1>3 DEF OmsgSet, Watches
<1>5. \A d \in Sd : Edges(d)
    BY <1>1, EdgesSame
<1> QED BY <1>1, <1>4, <1>5, WakeupsHandler

(* server_connect asks for EPOLLOUT at once (event_add_conn), and has an   *)
(* edge when connect() ends.                                               *)
LEMMA WakeupsNew ==
    ASSUME Proper, Wakeups, NEW s \in Server, NEW o \in Outcomes, ForwardOnNew(s, o)
    PROVE  Wakeups'
<1>a. IInv /\ pc = "forward" /\ free_connq # <<>>
    BY ProperParts DEF ForwardOnNew
<1>b. PICK c \in Conn : c = Head(free_connq) /\ ~Attached(c)
    BY <1>a, FreeHead
<1> DEFINE sd == IF o = "nosocket" THEN None ELSE nsd + 1
           cn == Outstanding(cur, cmsg)
           r == [NoConn EXCEPT !.owner = s, !.sd = sd,
                           !.send_active = o # "nosocket",
                           !.err = o \in {"refused", "nosocket"},
                           !.connecting = o = "inprogress",
                           !.connected = o = "connected"]
           k == [NoSock EXCEPT !.open = TRUE, !.ptr = c, !.server = TRUE,
                           !.up = o = "connected", !.hup = o = "refused",
                           !.rdy = o # "inprogress"]
<1>0. IInv /\ conn \in [Conn -> ConnRec] /\ sock \in [Sd -> SockRec]
    BY ProperParts DEF IInv, TypeOK
<1>1. /\ pc = "forward" /\ pc' \in {"enqueue", "reject"} /\ free_connq # <<>>
      /\ cur' = cur /\ wr' = wr /\ batch' = batch
      /\ conn' = [cn EXCEPT ![c] = r]
      /\ IF o = "nosocket" THEN UNCHANGED <<sock, nsd>>
         ELSE nsd' = sd /\ sock' = [sock EXCEPT ![sd] = k]
    BY <1>b DEF ForwardOnNew
<1>2. cur \in Conn /\ Attached(cur) /\ c \in Conn /\ ~Attached(c)
    BY <1>0, <1>1, <1>b DEF Handling, Forwarding, IInv, Control
<1>3. OmsgSet(cn, conn, cur, IF msg[cmsg].noreply THEN conn[cur].omsg_q
                             ELSE Append(conn[cur].omsg_q, cmsg))
    BY <1>0, <1>1, OutstandingEffect
<1>4. c # cur
    BY <1>2
<1>5. nsd \in Nat /\ (o # "nosocket" => nsd + 1 \in Sd)
  <2>1. nsd \in Nat /\ MaxSd \in Nat /\ backlog \in Nat
      BY <1>0, ConstantsAssumption DEF IInv, TypeOK
  <2>2. o # "nosocket" => nsd + backlog < MaxSd
      BY DEF Outcomes
  <2> QED BY <2>1, <2>2 DEF Sd
<1>6. r.imsg_q = <<>> /\ r.sd = sd
    BY DEF NoConn
<1>7. k.rdy \/ ~k.up
    BY DEF NoSock
<1> HIDE DEF r, k, cn
<1>8. conn'[c] = r /\ \A x \in Conn \ {c} : conn'[x] = cn[x]
    BY <1>1, <1>2, <1>3 DEF OmsgSet
<1>9. Roused(c)'
  <2>1. o = "nosocket" => conn'[c].sd = None
      BY <1>6, <1>8
  <2>2. o # "nosocket" => sock'[conn'[c].sd] = k
    <3>1. ASSUME o # "nosocket" PROVE sock'[sd] = k
      <4>1. sd = nsd + 1
          BY <3>1
      <4> HIDE DEF sd
      <4> QED BY <1>0, <1>1, <1>5, <3>1, <4>1
    <3> QED BY <1>6, <1>8, <3>1
  <2>3. o # "nosocket" => Awake(c)'
      BY <1>7, <2>2 DEF Awake, Sk
  <2> QED BY <1>6, <1>8, <2>1, <2>3 DEF Roused
<1>10. \A x \in Conn : Watches(conn', conn, x) \/ Roused(x)'
    BY <1>2, <1>3, <1>8, <1>9 DEF OmsgSet, Watches
<1>11. ASSUME NEW d \in Sd, d <= nsd PROVE Edges(d)
  <2>1. sock'[d] = sock[d]
    <3>1. CASE o = "nosocket"
        BY <1>1, <3>1
    <3>2. CASE o # "nosocket"
      <4>1. sd = nsd + 1 /\ sock' = [sock EXCEPT ![sd] = k]
          BY <1>1, <3>2
      <4> HIDE DEF sd
      <4>2. d # sd
          BY <1>5, <1>11, <4>1 DEF Sd
      <4> QED BY <1>0, <4>1, <4>2
    <3> QED BY <3>1, <3>2
  <2> QED BY <2>1 DEF Edges
<1> QED BY <1>1, <1>10, <1>11, WakeupsHandler

(* req_forward adds EPOLLOUT when in_q was empty; when it was not, it was  *)
(* added before and not removed since.                                     *)
LEMMA WakeupsEnqueue ==
    ASSUME Proper, Wakeups, ForwardEnqueue
    PROVE  Wakeups'
<1>0. IInv /\ conn \in [Conn -> ConnRec] /\ sock \in [Sd -> SockRec]
    BY ProperParts DEF IInv, TypeOK
<1>1. /\ pc = "enqueue" /\ pc' \in {"recv", "check"}
      /\ cur' = cur /\ wr' = wr /\ batch' = batch
    BY DEF ForwardEnqueue, ReadOn
<1>a. Enqueuing(cmsg, scur)
    BY <1>0, EnqueueEffect
<1>b. PICK c \in Conn : c = scur
    BY <1>a DEF Enqueuing, Servers
<1>2. Enqueuing(cmsg, c)
    BY <1>a, <1>b
<1>3. c \in Servers /\ c \in Conn /\ cur \in Clients /\ c # cur
    BY <1>2 DEF Enqueuing, Servers, Clients
<1>4. \A d \in Sd : Edges(d)
    BY <1>2 DEF Enqueuing, Livelier, SocksSame, SockAlike, Edges
<1>5. ASSUME NEW x \in Conn, x # c PROVE Watches(conn', conn, x)
  <2>1. conn'[x] = conn[x]
    <3> DEFINE cn == IF conn[scur].imsg_q = <<>> THEN event_add_out(conn, scur) ELSE conn
               q == Append(cn[scur].imsg_q, cmsg)
    <3>1. conn' = [cn EXCEPT ![scur].imsg_q = q]
      <4>1. conn' = [cn EXCEPT ![scur].imsg_q = Append(@, cmsg)]
          BY DEF ForwardEnqueue
      <4>2. cn \in [Conn -> ConnRec]
          BY <1>0, <1>3, <1>b, AddedOut
      <4> HIDE DEF cn
      <4> QED BY <1>3, <1>b, <4>1, <4>2
    <3>2. cn \in [Conn -> ConnRec] /\ cn[x] = conn[x]
        BY <1>0, <1>3, <1>5, <1>b, AddedOut
    <3> HIDE DEF cn, q
    <3> QED BY <1>5, <1>b, <3>1, <3>2
  <2> QED BY <2>1 DEF Watches
<1>6. Roused(c)'
  <2>1. Roused(c) /\ ~Served(c) /\ (InBatch(c) => InBatch(c)')
      BY <1>1, <1>3, SameBatch DEF Wakeups, Served
  <2>2. /\ conn'[c].sd = conn[c].sd
        /\ conn[c].send_active => conn'[c].send_active
        /\ conn[c].imsg_q = <<>> => /\ conn'[c].send_active
                                    /\ ~conn[c].send_active => sock'[conn[c].sd].rdy
      BY <1>2, <1>3 DEF Enqueuing, Requeued, Livelier
  <2>3. conn[c].imsg_q # <<>> => conn[c].send_active
      BY <1>3, <2>1 DEF Roused
  <2>4. conn'[c].send_active
      BY <2>2, <2>3
  <2>5. ASSUME conn[c].sd # None PROVE Awake(c)'
    <3>1. conn[c].sd \in Sd
        BY <1>0, <1>3, <2>5 DEF ConnRec
    <3>2. CASE sock'[conn[c].sd].rdy
        BY <2>2, <3>2 DEF Awake, Sk
    <3>3. CASE conn[c].send_active
      <4>1. Awake(c)
          BY <1>3, <2>1, <2>5, <3>3 DEF Roused
      <4>2. Edges(conn[c].sd)
          BY <1>4, <3>1
      <4>3. Sk(c)' = sock'[conn[c].sd]
          BY <2>2 DEF Sk
      <4> QED BY <2>1, <4>1, <4>2, <4>3 DEF Awake, Sk, Edges
    <3> QED BY <2>2, <2>3, <3>2, <3>3
  <2> QED BY <2>2, <2>4, <2>5 DEF Roused
<1> QED BY <1>1, <1>4, <1>5, <1>6, WakeupsHandler

-----------------------------------------------------------------------------
(* While one connection writes, the others are left alone.                 *)
LEMMA WakeupsWriter ==
    ASSUME Proper, Wakeups, pc = "send",
           pc' \in {"send", "check", "crash"},
           cur' = cur, wr' = wr, batch' = batch,
           \A k \in Conn \ {cur} : Watches(conn', conn, k),
           \A d \in Sd : d # conn[cur].sd => Edges(d),
           Roused(cur)'
    PROVE  Wakeups'
<1>0. IInv /\ Sockets
    BY ProperParts
<1>1. cur \in Conn /\ Attached(cur) /\ conn[cur].sd \in Sd
    BY <1>0, CurFacts DEF Handling, IInv, Control
<1>2. ASSUME NEW k \in Conn, k # cur PROVE Roused(k)'
  <2>1. Roused(k) /\ Watches(conn', conn, k)
      BY <1>2 DEF Wakeups
  <2>2. k \in Servers' => k \in Servers
      BY <2>1 DEF Watches, Servers, Attached
  <2>3. k \in Servers /\ conn[k].sd # None => Edges(conn[k].sd)
    <3>1. k \in Servers /\ conn[k].sd # None => conn[k].sd \in Sd
        BY <1>0 DEF IInv, TypeOK, ConnRec
    <3>2. k \in Servers /\ conn[k].sd # None => conn[k].sd # conn[cur].sd
        BY <1>0, <1>1, <1>2, OwnSocket DEF Servers
    <3> QED BY <3>1, <3>2
  <2> QED BY <1>2, <2>1, <2>2, <2>3, RousedOther DEF Watches, Edges
<1>3. Turns'
    BY DEF Wakeups, Turns
<1>4. Roused(cur)' => \A k \in Conn : k = cur => Roused(k)'
    OBVIOUS
<1> QED BY <1>2, <1>3, <1>4 DEF Wakeups

(* Writing to a client.                                                    *)
LEMMA WakeupsReply ==
    ASSUME Proper, Wakeups, rsp_send_next_empty \/ rsp_send_next_wait \/
                            rsp_send_done \/ rsp_send_short
    PROVE  Wakeups'
<1>0. IInv /\ conn \in [Conn -> ConnRec] /\ sock \in [Sd -> SockRec]
    BY ProperParts DEF IInv, TypeOK
<1>1. /\ pc = "send" /\ pc' \in {"send", "check", "crash"} /\ conn[cur].client
      /\ cur' = cur /\ wr' = wr /\ batch' = batch
    BY DEF rsp_send_next_empty, rsp_send_next_wait, rsp_send_done, rsp_send_short,
           Writing, Crash, control
<1>2. cur \in Conn /\ conn[cur].sd \in Sd
    BY <1>0, <1>1, CurFacts DEF Handling
<1>3. \A k \in Conn \ {cur} : conn'[k] = conn[k]
  <2>1. CASE rsp_send_next_empty \/ rsp_send_next_wait \/ rsp_send_short
      BY <2>1 DEF rsp_send_next_empty, rsp_send_next_wait, rsp_send_short, Crash, tables
  <2>2. CASE rsp_send_done
      BY <1>0, <2>2, AnswerEffect DEF Answering
  <2> QED BY <2>1, <2>2
<1>4. conn'[cur].client
  <2>1. CASE rsp_send_next_empty \/ rsp_send_next_wait \/ rsp_send_short
      BY <1>1, <2>1 DEF rsp_send_next_empty, rsp_send_next_wait, rsp_send_short, Crash, tables
  <2>2. CASE rsp_send_done
      BY <1>0, <1>1, <2>2, AnswerEffect DEF Answering, Requeued
  <2> QED BY <2>1, <2>2
<1>5. \A d \in Sd : d # conn[cur].sd => Edges(d)
  <2>1. \A d \in Sd : d # conn[cur].sd => sock'[d] = sock[d]
    <3>1. CASE rsp_send_next_empty \/ rsp_send_next_wait \/ rsp_send_done
        BY <3>1 DEF rsp_send_next_empty, rsp_send_next_wait, rsp_send_done, Crash
    <3>2. CASE rsp_send_short
        BY <1>0, <1>2, <3>2 DEF rsp_send_short
    <3> QED BY <3>1, <3>2
  <2> QED BY <2>1 DEF Edges
<1>6. Roused(cur)'
    BY <1>1, <1>4 DEF Roused, Servers
<1>7. \A k \in Conn \ {cur} : Watches(conn', conn, k)
    BY <1>3 DEF Watches
<1> QED BY <1>1, <1>5, <1>6, <1>7, WakeupsWriter

(* A write that fails leads to core_close.                                 *)
LEMMA WakeupsSendError ==
    ASSUME Proper, Wakeups, send_error
    PROVE  Wakeups'
<1>0. IInv /\ conn \in [Conn -> ConnRec]
    BY ProperParts DEF IInv, TypeOK
<1>1. /\ pc = "send" /\ pc' = "check" /\ conn' = [conn EXCEPT ![cur].err = TRUE]
      /\ cur' = cur /\ wr' = wr /\ batch' = batch /\ sock' = sock
    BY DEF send_error
<1>2. cur \in Conn /\ conn[cur] \in ConnRec
    BY <1>0, <1>1, CurFacts DEF Handling
<1>3. \A k \in Conn : Watches(conn', conn, k)
    BY <1>0, <1>1, <1>2 DEF Watches, ConnRec
<1>4. conn'[cur].err
    BY <1>0, <1>1, <1>2 DEF ConnRec
<1>5. Served(cur)'
    BY <1>1, <1>4 DEF Served
<1>6. Roused(cur)'
  <2>1. Roused(cur) /\ Watches(conn', conn, cur)
      BY <1>2, <1>3 DEF Wakeups
  <2>2. cur' \in Servers' => cur \in Servers
      BY <1>1, <2>1 DEF Watches, Servers, Attached
  <2> QED BY <1>1, <1>5, <2>1, <2>2 DEF Roused, Watches, Awake
<1>7. \A d \in Sd : Edges(d)
    BY <1>1, EdgesSame
<1> QED BY <1>1, <1>3, <1>6, <1>7, WakeupsWriter

(* req_send_next with nothing to send removes EPOLLOUT; in_q is empty.     *)
LEMMA WakeupsNothing ==
    ASSUME Proper, Wakeups, req_send_next_empty
    PROVE  Wakeups'
<1>0. IInv /\ conn \in [Conn -> ConnRec] /\ sock \in [Sd -> SockRec]
    BY ProperParts DEF IInv, TypeOK
<1>1. /\ pc = "send" /\ pc' = "check" /\ conn[cur].imsg_q = <<>>
      /\ conn' = [server_connected(cur) EXCEPT ![cur].send_active = FALSE]
      /\ cur' = cur /\ wr' = wr /\ batch' = batch
      /\ sock' = Disarmed(sock, conn, cur)
    BY DEF req_send_next_empty, Writing
<1>2. cur \in Conn /\ conn[cur] \in ConnRec
    BY <1>0, <1>1, CurFacts DEF Handling
<1> DEFINE x == server_connected(cur)
<1>3. x \in [Conn -> ConnRec] /\ x[cur].imsg_q = conn[cur].imsg_q
      /\ \A k \in Conn : Watches(x, conn, k)
    BY <1>0, <1>1, <1>2, ConnectedAs DEF Watches
<1> HIDE DEF x
<1>4. conn' = [x EXCEPT ![cur].send_active = FALSE]
    BY <1>1 DEF x
<1>5. /\ ~conn'[cur].send_active /\ conn'[cur].imsg_q = <<>>
      /\ \A k \in Conn \ {cur} : conn'[k] = x[k]
  <2>1. x[cur] \in ConnRec
      BY <1>2, <1>3
  <2> QED BY <1>1, <1>2, <1>3, <1>4, <2>1 DEF ConnRec
<1>6. Roused(cur)'
    BY <1>1, <1>5 DEF Roused
<1>7. \A k \in Conn \ {cur} : Watches(conn', conn, k)
    BY <1>3, <1>5 DEF Watches
<1>8. \A d \in Sd : Edges(d)
    BY <1>0, <1>1, DisarmedFacts DEF Edges, SockAlike
<1> QED BY <1>1, <1>6, <1>7, <1>8, WakeupsWriter

(* req_send_done goes on sending.                                          *)
LEMMA WakeupsSent ==
    ASSUME Proper, Wakeups, req_send_done
    PROVE  Wakeups'
<1>0. IInv /\ conn \in [Conn -> ConnRec]
    BY ProperParts DEF IInv, TypeOK
<1>1. PICK m \in Msg : Sending(m)
    BY <1>0, SendEffect
<1>2. /\ pc = "send" /\ pc' = "send" /\ cur' = cur /\ wr' = wr /\ batch' = batch
      /\ cur \in Servers /\ conn[cur].imsg_q # <<>>
    BY <1>1 DEF Sending, Writes
<1>3. /\ \A k \in Conn : conn'[k].send_active = conn[k].send_active
      /\ \A k \in Conn \ {cur} : Kept(k)
    BY <1>1 DEF Sending, Writes, Requeued
<1>4. \A k \in Conn \ {cur} : Watches(conn', conn, k)
    BY <1>3 DEF Watches, Kept
<1>5. conn[cur].send_active
    BY <1>2 DEF Wakeups, Roused, Servers
<1>6. Served(cur)'
    BY <1>2 DEF Served
<1>7. Roused(cur)'
  <2>1. conn'[cur].send_active
      BY <1>2, <1>3, <1>5 DEF Servers
  <2> QED BY <1>2, <1>6, <2>1 DEF Roused, Awake
<1>8. \A d \in Sd : Edges(d)
  <2>1. PICK n \in Msg : \A d \in Sd : LET x == Transmit(sock, conn[cur].sd, n)
                         IN sock' = x
    <3>1. sock' = Transmit(sock, conn[cur].sd, Head(conn[cur].imsg_q))
        BY DEF req_send_done
    <3>2. Head(conn[cur].imsg_q) \in Msg
        BY <1>1 DEF Sending, Writes
    <3> QED BY <3>1, <3>2
  <2>2. conn[cur].sd \in Sd
      BY <1>1 DEF Sending, Writes
  <2> QED BY <1>0, <2>1, <2>2, WiredFacts DEF Edges, SockAlike
<1> QED BY <1>2, <1>4, <1>7, <1>8, WakeupsWriter

(* A short write: the socket is full, and drains with an edge.             *)
LEMMA WakeupsShort ==
    ASSUME Proper, Wakeups, req_send_short
    PROVE  Wakeups'
<1> DEFINE m == Head(conn[cur].imsg_q)
           d == conn[cur].sd
           x == server_connected(cur)
           y == Transmit(sock, d, m)
<1>0. IInv /\ conn \in [Conn -> ConnRec] /\ sock \in [Sd -> SockRec]
    BY ProperParts DEF IInv, TypeOK
<1>1. /\ Writing(cur, FALSE) /\ CanSend(cur) /\ ~Sk(cur).kerr
      /\ pc = "send" /\ pc' = "check" /\ cur' = cur /\ wr' = wr /\ batch' = batch
      /\ conn' = x
      /\ \/ Blocked(cur) /\ sock' = sock
         \/ ~Blocked(cur) /\ sock' = [y EXCEPT ![d].full = TRUE]
    BY DEF req_send_short, Writing
<1>2. cur \in Servers /\ cur \in Conn /\ conn[cur].imsg_q # <<>> /\ m \in Msg /\ d \in Sd
    BY <1>0, <1>1, WriteFacts
<1>3. \A k \in Conn : Watches(x, conn, k)
    BY <1>0, <1>1, ConnectedAs DEF Watches
<1>4. y \in [Sd -> SockRec] /\ \A e \in Sd : /\ SockAlike(y[e], sock[e])
                                             /\ y[e].rdy = sock[e].rdy /\ y[e].full = sock[e].full
    BY <1>0, <1>2, WiredFacts
<1> HIDE DEF x, y, m, d
<1>5. \A k \in Conn : Watches(conn', conn, k)
    BY <1>1, <1>3
<1>6. \A e \in Sd : e # d => Edges(e)
    BY <1>1, <1>4 DEF Edges, SockAlike
<1>7. sock'[d].full \/ ~sock'[d].up
  <2>1. CASE Blocked(cur) /\ sock' = sock
      BY <2>1 DEF Blocked, Sk, d
  <2>2. CASE sock' = [y EXCEPT ![d].full = TRUE]
    <3>1. y[d] \in SockRec
        BY <1>2, <1>4
    <3> QED BY <1>2, <1>4, <2>2, <3>1 DEF SockRec
  <2> QED BY <1>1, <2>1, <2>2
<1>8. conn'[cur].sd = d
    BY <1>2, <1>5 DEF Watches, d
<1>9. Roused(cur)'
  <2>1. Awake(cur)'
      BY <1>1, <1>7, <1>8 DEF Awake, Sk
  <2>2. conn[cur].send_active
      BY <1>2 DEF Wakeups, Roused
  <2>3. conn'[cur].send_active
      BY <1>2, <1>5, <2>2 DEF Watches
  <2> QED BY <1>1, <2>1, <2>3 DEF Roused
<1>10. \A e \in Sd : e # conn[cur].sd => Edges(e)
    BY <1>6 DEF d
<1> QED BY <1>1, <1>5, <1>9, <1>10, WakeupsWriter

-----------------------------------------------------------------------------
(* What peers do raises an edge whenever it changes what a write finds.    *)
LEMMA WakeupsPeers ==
    ASSUME Proper, Wakeups, Peers
    PROVE  Wakeups'
<1>0. IInv
    BY ProperParts
<1>1. PICK d : Resting \/ (d \in Sd /\ (Asking(d) \/ Replying(d) \/ Changing(d)))
    BY <1>0, PeersEffect
<1>2. LoopStill
    BY <1>1 DEF Resting, Asking, Replying, Changing, SockSteps
<1>3. ASSUME NEW e \in Sd
      PROVE  \/ sock'[e].rdy
             \/ /\ sock[e].rdy => sock'[e].rdy
                /\ sock'[e].full = sock[e].full /\ sock'[e].up = sock[e].up
  <2>1. CASE Resting
      BY <2>1 DEF Resting
  <2>2. CASE SockSteps(d)
      BY <2>2 DEF SockSteps
  <2> QED BY <1>1, <2>1, <2>2 DEF Asking, Replying, Changing
<1>4. ASSUME NEW c \in Conn PROVE Roused(c)'
  <2>1. Roused(c) /\ (InBatch(c) => InBatch(c)') /\ (Served(c) => Served(c)')
      BY <1>2, SameBatch DEF Wakeups, LoopStill, Served
  <2>2. conn' = conn /\ (c \in Servers' => c \in Servers)
      BY <1>2 DEF LoopStill, Servers, Attached
  <2>3. conn[c].sd # None => conn[c].sd \in Sd
      BY <1>0 DEF IInv, TypeOK, ConnRec
  <2>4. Undisturbed(c)
      BY <1>3, <2>1, <2>2, <2>3 DEF Undisturbed
  <2> QED BY <2>1, <2>4, RousedKept
<1>5. Turns'
    BY <1>2 DEF Wakeups, Turns, LoopStill
<1> QED BY <1>4, <1>5 DEF Wakeups

(* The invariant is inductive.                                             *)
LEMMA WakeupsNext ==
    ASSUME Proper, Wakeups, [Next]_vars
    PROVE  Wakeups'
<1>1. CASE Loop
  <2>1. CASE event_wait \/ event_wait_timeout \/ EventsHandled \/ ProxyAgain
      BY <2>1, WakeupsWait, WakeupsTurn
  <2>2. CASE core_core \/ CheckConn \/ core_timeout \/ proxy_accept
      BY <2>2, WakeupsCore, WakeupsCheck, WakeupsTimeout, WakeupsAccept
  <2>3. CASE Recv
      BY <2>3, WakeupsRead, WakeupsResponse DEF Recv
  <2>4. CASE Forward
      BY <2>4, WakeupsLru, WakeupsNew, WakeupsEnqueue, WakeupsError, WakeupsRejected DEF Forward
  <2>5. CASE Send
      BY <2>5, WakeupsReply, WakeupsSendError, WakeupsNothing, WakeupsSent, WakeupsShort DEF Send
  <2> QED BY <1>1, <2>1, <2>2, <2>3, <2>4, <2>5 DEF Loop
<1>2. CASE Peers
    BY <1>2, WakeupsPeers
<1>3. CASE UNCHANGED vars
  <2>1. /\ conn' = conn /\ sock' = sock /\ batch' = batch /\ wr' = wr /\ pc' = pc /\ cur' = cur
      BY <1>3 DEF vars, tables, control
  <2>2. ASSUME NEW c \in Conn PROVE Roused(c)'
      BY <2>1, RousedAlone, SameBatch DEF Wakeups, Served
  <2>3. Turns'
      BY <2>1 DEF Wakeups, Turns
  <2> QED BY <2>2, <2>3 DEF Wakeups
<1> QED BY <1>1, <1>2, <1>3 DEF Next

(* At the start there is no connection to wake up.                         *)
LEMMA InitWakeups == Init => Wakeups
<1> SUFFICES ASSUME Init PROVE Wakeups
    OBVIOUS
<1>1. \A c \in Conn : c \notin Servers
    BY DEF Init, NoConn, Servers, Attached
<1> QED BY <1>1 DEF Init, Wakeups, Roused, Turns

(* Between two handlers, at epoll_wait, what keeps a connection awake is   *)
(* its socket.                                                             *)
LEMMA WakeupsWake == ASSUME Proper, Wakeups PROVE NoLostServerWakeup
<1> SUFFICES ASSUME pc = "wait", NEW c \in Servers, conn[c].imsg_q # <<>>
             PROVE  /\ conn[c].send_active
                    /\ Sk(c).rdy \/ Sk(c).full \/ ~Sk(c).up
    BY DEF NoLostServerWakeup
<1>1. c \in Conn /\ Attached(c) /\ Structures
    BY ProperParts DEF Servers
<1>2. conn[c].sd # None
    BY <1>1 DEF Structures
<1>3. conn[c].send_active /\ Awake(c)
    BY <1>1, <1>2 DEF Wakeups, Roused
<1>4. ~InBatch(c) /\ ~Served(c)
    BY DEF Wakeups, Turns, InBatch, Served
<1> QED BY <1>3, <1>4 DEF Awake

(* The two invariants hold in every state of every behaviour.              *)
LEMMA AlwaysWakeups == Spec => [](Proper /\ Wakeups)
<1>1. Init => Proper /\ Wakeups
    BY InitProper, InitWakeups
<1>2. Proper /\ Wakeups /\ [Next]_vars => (Proper /\ Wakeups)'
    BY ProperNext, WakeupsNext
<1> QED BY <1>1, <1>2, PTL DEF Spec

(* For every number of clients, servers and requests: when the loop waits, *)
(* a server connection with requests to send has asked for EPOLLOUT, and   *)
(* its socket is on the ready list, or is full or not connected yet, which *)
(* brings an edge when it ends.  No order of handlers loses the wake-up    *)
(* between event_del_out (req_send_next) and event_add_out (req_forward).  *)
THEOREM ProxyNoLostServerWakeup == Spec => []NoLostServerWakeup
<1>1. Proper /\ Wakeups => NoLostServerWakeup
    BY WakeupsWake
<1> QED BY <1>1, AlwaysWakeups, PTL

-----------------------------------------------------------------------------
(* Joining sequences.                                                      *)
LEMMA JoinFacts ==
    ASSUME NEW S, NEW p \in Seq(S), NEW q \in Seq(S), NEW x \in S
    PROVE  /\ p \o q \in Seq(S) /\ Append(p, x) \in Seq(S) /\ <<x>> \in Seq(S)
           /\ (p \o q) \o <<x>> = Append(p \o q, x)
           /\ p \o Append(q, x) = Append(p \o q, x)
           /\ p \o <<>> = p /\ <<>> \o q = q
<1>1. p \o q \in Seq(S) /\ Append(p, x) \in Seq(S) /\ <<x>> \in Seq(S)
    BY ConcatProperties, AppendProperties
<1>2. (p \o q) \o <<x>> = Append(p \o q, x)
    BY <1>1, AppendIsConcat
<1>3. Append(q, x) = q \o <<x>>
    BY AppendIsConcat
<1>4. p \o (q \o <<x>>) = (p \o q) \o <<x>>
    BY <1>1, ConcatAssociative
<1>5. p \o <<>> = p /\ <<>> \o q = q
    BY ConcatEmptySeq
<1> QED BY <1>1, <1>2, <1>3, <1>4, <1>5

(* Moving the head of one queue to the end of another (rsp_send_done,      *)
(* req_send_done) leaves what they are together.                           *)
LEMMA MoveFacts ==
    ASSUME NEW S, NEW p \in Seq(S), NEW q \in Seq(S), q # <<>>
    PROVE  /\ q = <<Head(q)>> \o Tail(q)
           /\ Append(p, Head(q)) \o Tail(q) = p \o q
<1>1. Head(q) \in S /\ Tail(q) \in Seq(S) /\ Len(Tail(q)) = Len(q) - 1
      /\ \A i \in 1..Len(Tail(q)) : Tail(q)[i] = q[i + 1]
    BY HeadTailProperties
<1> DEFINE h == Head(q)
           t == Tail(q)
<1>2. Len(q) \in Nat /\ Len(q) # 0 /\ h = q[1]
    BY EmptySeq, LenProperties
<1>3. h \in S /\ t \in Seq(S) /\ Len(t) = Len(q) - 1 /\ \A i \in 1..(Len(q) - 1) : t[i] = q[i + 1]
    BY <1>1
<1> HIDE DEF h, t
<1>4. <<h>> \in Seq(S) /\ Len(<<h>>) = 1 /\ <<h>>[1] = h
    BY <1>3
<1>5. /\ <<h>> \o t \in Seq(S) /\ Len(<<h>> \o t) = Len(q)
      /\ \A i \in 1..Len(q) : (<<h>> \o t)[i] = IF i <= 1 THEN h ELSE t[i - 1]
  <2>1. /\ <<h>> \o t \in Seq(S) /\ Len(<<h>> \o t) = Len(<<h>>) + Len(t)
        /\ \A i \in 1..(Len(<<h>>) + Len(t)) :
              (<<h>> \o t)[i] = IF i <= Len(<<h>>) THEN <<h>>[i] ELSE t[i - Len(<<h>>)]
      BY <1>3, <1>4, ConcatProperties
  <2>2. Len(<<h>>) + Len(t) = Len(q)
      BY <1>2, <1>3, <1>4
  <2>3. \A i \in 1..Len(q) : i <= 1 => i = 1
      BY <1>2
  <2> QED BY <1>4, <2>1, <2>2, <2>3
<1>6. \A i \in 1..Len(q) : (<<h>> \o t)[i] = q[i]
    BY <1>2, <1>3, <1>5
<1>7. q = <<h>> \o t
    BY <1>5, <1>6, SeqEqual
<1>8. Append(p, h) \o t = p \o q
  <2>1. Append(p, h) = p \o <<h>>
      BY <1>3, AppendIsConcat
  <2>2. (p \o <<h>>) \o t = p \o (<<h>> \o t)
      BY <1>3, <1>4, ConcatAssociative
  <2> QED BY <1>7, <2>1, <2>2
<1> QED BY <1>7, <1>8 DEF h, t

(* p is a prefix of what it was joined with.                               *)
LEMMA PrefixJoin ==
    ASSUME NEW S, NEW p \in Seq(S), NEW q \in Seq(S)
    PROVE  IsPrefix(p, p \o q)
<1> DEFINE s == p \o q
<1>1. /\ Len(p) \in Nat /\ Len(q) \in Nat /\ s \in Seq(S) /\ Len(s) = Len(p) + Len(q)
      /\ \A i \in 1..Len(p) : s[i] = p[i] /\ s[i] \in S /\ p[i] \in S
  <2>1. /\ Len(p) \in Nat /\ Len(q) \in Nat /\ DOMAIN p = 1..Len(p)
        /\ s \in Seq(S) /\ Len(s) = Len(p) + Len(q)
        /\ \A i \in 1..(Len(p) + Len(q)) : s[i] = IF i <= Len(p) THEN p[i] ELSE q[i - Len(p)]
      BY LenProperties, ConcatProperties
  <2>2. \A i \in 1..Len(p) : i \in 1..(Len(p) + Len(q)) /\ i <= Len(p)
      BY <2>1
  <2> HIDE DEF s
  <2>3. \A i \in 1..Len(p) : p[i] \in S
      BY <2>1
  <2> QED BY <2>1, <2>2, <2>3
<1> HIDE DEF s
<1>2. /\ SubSeq(p, 1, Len(p)) \in Seq(S) /\ SubSeq(s, 1, Len(p)) \in Seq(S)
      /\ Len(SubSeq(p, 1, Len(p))) = Len(p) /\ Len(SubSeq(s, 1, Len(p))) = Len(p)
      /\ \A i \in 1..Len(p) : SubSeq(p, 1, Len(p))[i] = p[i] /\ SubSeq(s, 1, Len(p))[i] = s[i]
    BY <1>1, SubSeqProperties
<1>3. SubSeq(p, 1, Len(p)) = SubSeq(s, 1, Len(p))
    BY <1>1, <1>2, SeqEqual
<1> QED BY <1>1, <1>3 DEF IsPrefix, s

(* What a prefix lacks.                                                    *)
LEMMA PrefixIs ==
    ASSUME NEW S, NEW p \in Seq(S), NEW s \in Seq(S), IsPrefix(p, s)
    PROVE  \E q \in Seq(S) : s = p \o q
<1>1. /\ Len(p) \in Nat /\ Len(s) \in Nat /\ Len(p) <= Len(s)
      /\ SubSeq(s, 1, Len(p)) = SubSeq(p, 1, Len(p))
      /\ DOMAIN p = 1..Len(p) /\ DOMAIN s = 1..Len(s)
    BY LenProperties DEF IsPrefix
<1>2. \A i \in 1..Len(p) : p[i] \in S /\ s[i] \in S
    BY <1>1
<1>3. /\ \A i \in 1..Len(p) : SubSeq(p, 1, Len(p))[i] = p[i] /\ SubSeq(s, 1, Len(p))[i] = s[i]
    BY <1>1, <1>2, SubSeqProperties
<1>4. \A i \in 1..Len(p) : p[i] = s[i]
    BY <1>1, <1>3
<1> DEFINE n == Len(p)
           q == SubSeq(s, n + 1, Len(s))
<1>5. q \in Seq(S) /\ Len(q) = Len(s) - n /\ \A i \in 1..(Len(s) - n) : q[i] = s[n + i]
  <2>1. n + 1 \in Int /\ Len(s) \in Int /\ \A i \in (n + 1)..Len(s) : s[i] \in S
      BY <1>1
  <2>2. /\ q \in Seq(S) /\ Len(q) = IF n + 1 <= Len(s) THEN Len(s) - (n + 1) + 1 ELSE 0
        /\ \A i \in 1..(Len(s) - (n + 1) + 1) : q[i] = s[(n + 1) + i - 1]
    <3> DEFINE k == n + 1
               l == Len(s)
    <3>1. k \in Int /\ l \in Int /\ \A i \in k..l : s[i] \in S
        BY <2>1
    <3> HIDE DEF k, l
    <3>2. /\ SubSeq(s, k, l) \in Seq(S)
          /\ Len(SubSeq(s, k, l)) = IF k <= l THEN l - k + 1 ELSE 0
          /\ \A i \in 1..(l - k + 1) : SubSeq(s, k, l)[i] = s[k + i - 1]
        BY <3>1, SubSeqProperties
    <3> QED BY <3>2 DEF k, l
  <2> HIDE DEF q
  <2>3. /\ \A i \in 1..(Len(s) - n) : /\ i \in 1..(Len(s) - (n + 1) + 1)
                                      /\ (n + 1) + i - 1 = n + i
        /\ (IF n + 1 <= Len(s) THEN Len(s) - (n + 1) + 1 ELSE 0) = Len(s) - n
    <3> DEFINE l == Len(s)
    <3>1. n \in Nat /\ l \in Nat /\ n <= l
        BY <1>1
    <3> HIDE DEF n, l
    <3>2. (IF n + 1 <= l THEN l - (n + 1) + 1 ELSE 0) = l - n
        BY <3>1
    <3>3. \A i \in 1..(l - n) : i \in 1..(l - (n + 1) + 1) /\ (n + 1) + i - 1 = n + i
        BY <3>1
    <3> QED BY <3>2, <3>3 DEF l
  <2>4. Len(q) = Len(s) - n
      BY <2>2, <2>3
  <2>5. ASSUME NEW i \in 1..(Len(s) - n) PROVE q[i] = s[n + i]
      BY <2>2, <2>3
  <2> QED BY <2>2, <2>4, <2>5
<1> HIDE DEF q
<1>6. /\ p \o q \in Seq(S) /\ Len(p \o q) = Len(p) + Len(q)
      /\ \A i \in 1..(Len(p) + Len(q)) : (p \o q)[i] = IF i <= Len(p) THEN p[i] ELSE q[i - Len(p)]
    BY <1>5, ConcatProperties
<1>7. Len(p \o q) = Len(s) /\ Len(p) + Len(q) = Len(s)
    BY <1>1, <1>5, <1>6
<1>8. \A i \in 1..Len(s) : s[i] = (p \o q)[i]
  <2> SUFFICES ASSUME NEW i \in 1..Len(s) PROVE s[i] = (p \o q)[i]
      OBVIOUS
  <2>1. CASE i <= Len(p)
      BY <1>1, <1>4, <1>6, <1>7, <2>1
  <2>2. CASE ~(i <= Len(p))
    <3>1. i - n \in 1..(Len(s) - n) /\ n + (i - n) = i
        BY <1>1, <2>2
    <3> QED BY <1>5, <1>6, <1>7, <2>2, <3>1
  <2> QED BY <2>1, <2>2
<1>9. s = p \o q
  <2> DEFINE u == p \o q
  <2>1. u \in Seq(S) /\ Len(s) = Len(u) /\ \A i \in 1..Len(s) : s[i] = u[i]
      BY <1>6, <1>7, <1>8
  <2> HIDE DEF u
  <2>2. s = u
      BY <2>1, SeqEqual
  <2> QED BY <2>2 DEF u
<1> QED BY <1>5, <1>9

(* A prefix stays one when the sequence grows.                             *)
LEMMA PrefixGrows ==
    ASSUME NEW S, NEW p \in Seq(S), NEW s \in Seq(S), IsPrefix(p, s), NEW x \in S
    PROVE  IsPrefix(p, Append(s, x))
<1>1. PICK q \in Seq(S) : s = p \o q
    BY PrefixIs
<1>2. Append(q, x) \in Seq(S)
    BY AppendProperties
<1>3. p \o Append(q, x) = Append(p \o q, x)
    BY JoinFacts
<1> QED BY <1>1, <1>2, <1>3, PrefixJoin

-----------------------------------------------------------------------------
(* The first components of a sequence of pairs.                            *)
Firsts(s) == [i \in DOMAIN s |-> s[i][1]]

(* A request and the reply it got.                                         *)
Sent == Msg \X (Msg \cup {ErrorReply})

(* The requests that were answered.                                        *)
LEMMA FirstsType ==
    ASSUME NEW q \in Seq(Sent)
    PROVE  /\ Firsts(q) \in Seq(Msg) /\ Len(Firsts(q)) = Len(q)
           /\ \A i \in 1..Len(q) : Firsts(q)[i] = q[i][1]
<1>1. Len(q) \in Nat /\ DOMAIN q = 1..Len(q) /\ \A i \in 1..Len(q) : q[i] \in Sent
    BY LenProperties
<1>2. \A i \in 1..Len(q) : q[i][1] \in Msg
    BY <1>1 DEF Sent
<1>3. Firsts(q) = [i \in 1..Len(q) |-> q[i][1]]
    BY <1>1 DEF Firsts
<1> QED BY <1>1, <1>2, <1>3

(* The requests that were answered, after one more is.                     *)
LEMMA FirstsAppend ==
    ASSUME NEW q \in Seq(Sent), NEW x \in Sent
    PROVE  Firsts(Append(q, x)) = Append(Firsts(q), x[1])
<1> DEFINE t == Append(q, x)
           f == Firsts(q)
           p == x[1]
<1>1. /\ t \in Seq(Sent) /\ Len(t) = Len(q) + 1 /\ Len(q) \in Nat
      /\ \A i \in 1..Len(q) : t[i] = q[i]
      /\ t[Len(q) + 1] = x
    BY AppendProperties, LenProperties
<1>2. /\ f \in Seq(Msg) /\ Len(f) = Len(q) /\ \A i \in 1..Len(q) : f[i] = q[i][1]
    BY FirstsType
<1>3. p \in Msg
    BY DEF Sent
<1>4. t[Len(q) + 1][1] = p
    BY <1>1
<1> HIDE DEF t, f, p
<1>5. /\ Firsts(t) \in Seq(Msg) /\ Len(Firsts(t)) = Len(t)
      /\ \A i \in 1..Len(t) : Firsts(t)[i] = t[i][1]
    BY <1>1, FirstsType
<1>6. /\ Append(f, p) \in Seq(Msg) /\ Len(Append(f, p)) = Len(f) + 1
      /\ \A i \in 1..Len(f) : Append(f, p)[i] = f[i]
      /\ Append(f, p)[Len(f) + 1] = p
    BY <1>2, <1>3, AppendProperties
<1> DEFINE g == Firsts(t)
           h == Append(f, p)
<1>7. /\ g \in Seq(Msg) /\ h \in Seq(Msg) /\ Len(g) = Len(q) + 1 /\ Len(h) = Len(q) + 1
      /\ \A i \in 1..(Len(q) + 1) : g[i] = t[i][1]
      /\ \A i \in 1..Len(q) : h[i] = q[i][1]
      /\ h[Len(q) + 1] = p
    BY <1>1, <1>2, <1>5, <1>6
<1> HIDE DEF g, h
<1>8. ASSUME NEW i \in 1..(Len(q) + 1) PROVE g[i] = h[i]
  <2>1. CASE i = Len(q) + 1
      BY <1>4, <1>7, <2>1
  <2>2. CASE i # Len(q) + 1
    <3>1. i \in 1..Len(q)
        BY <1>1, <2>2
    <3> QED BY <1>1, <1>7, <3>1
  <2> QED BY <2>1, <2>2
<1>9. g = h
    BY <1>1, <1>7, <1>8, SeqEqual
<1> QED BY <1>9 DEF g, h, t, f, p

(* The requests answered to a client are the first components of what was  *)
(* written.                                                                *)
LEMMA WrittenIs == \A d : Written(d) = Firsts(answered[d])
  BY DEF Written, Firsts

(* What was asked and what was written are requests.                       *)
LEMMA WrittenTypes == ASSUME IInv, NEW d \in Sd PROVE Written(d) \in Seq(Msg) /\ asked[d] \in Seq(Msg)
<1>1. answered[d] \in Seq(Sent) /\ asked[d] \in Seq(Msg)
    BY DEF IInv, TypeOK, Sent
<1>2. Firsts(answered[d]) \in Seq(Msg)
    BY <1>1, FirstsType
<1> QED BY <1>1, <1>2, WrittenIs

(* Clients have sockets, each its own.                                     *)
LEMMA ClientSocket ==
    ASSUME Proper, NEW c \in Clients
    PROVE  /\ c \in Conn /\ Attached(c) /\ conn[c].client /\ conn[c].sd \in Sd
           /\ conn[c].omsg_q \in Seq(Msg) /\ conn[c].sd <= nsd
           /\ \A k \in Clients : conn[k].sd = conn[c].sd => k = c
<1>1. c \in Conn /\ Attached(c) /\ conn[c].client
    BY DEF Clients
<1>2. conn[c].sd \in Sd \cup {None} /\ conn[c].omsg_q \in Seq(Msg)
    BY <1>1, ProperParts DEF ConnRec
<1>3. conn[c].sd # None
    BY <1>1, ProperParts DEF IInv, Control, Server, Pool
<1>4. conn[c].sd <= nsd
    BY <1>1, <1>3, ProperParts DEF Sockets
<1>5. ASSUME NEW k \in Clients, conn[k].sd = conn[c].sd PROVE k = c
    BY <1>1, <1>3, <1>5, OwnSocket, ProperParts DEF Clients
<1> QED BY <1>1, <1>2, <1>3, <1>4, <1>5

-----------------------------------------------------------------------------
(* What was written, out_q and the request being forwarded are what was    *)
(* asked.                                                                  *)
InOrder(c) == c \in Clients =>
    Written(conn[c].sd) \o conn[c].omsg_q \o Taken(c) = asked[conn[c].sd]

(* So what was written is always a prefix of what was asked, in its order. *)
Ordered == /\ \A c \in Conn : InOrder(c)
           /\ \A d \in Sd : IsPrefix(Written(d), asked[d])

(* Clients the step does not serve.                                        *)
LEMMA OrderKept ==
    ASSUME Proper, NEW c \in Conn, InOrder(c),
           (c \in Clients)' => /\ c \in Clients /\ conn'[c].sd = conn[c].sd
                               /\ conn'[c].omsg_q = conn[c].omsg_q
                               /\ answered'[conn[c].sd] = answered[conn[c].sd]
                               /\ asked'[conn[c].sd] = asked[conn[c].sd]
                               /\ Taken(c)' = Taken(c)
    PROVE  InOrder(c)'
<1> SUFFICES ASSUME (c \in Clients)' PROVE InOrder(c)'
    BY DEF InOrder
<1>1. Written(conn[c].sd)' = Written(conn[c].sd)
    BY DEF Written
<1> QED BY <1>1 DEF InOrder

(* Only the client that is served has a request on its way to out_q.       *)
LEMMA NoneTaken ==
    ASSUME NEW c, pc # "forward" \/ cur # c
    PROVE  Taken(c) = <<>>
  BY DEF Taken

(* When only more is asked, what was written remains a prefix.             *)
LEMMA PrefixesKept ==
    ASSUME Proper, Ordered, answered' = answered,
           \A d \in Sd : \/ asked'[d] = asked[d]
                         \/ \E x \in Msg : asked'[d] = Append(asked[d], x)
    PROVE  \A d \in Sd : IsPrefix(Written(d), asked[d])'
<1> SUFFICES ASSUME NEW d \in Sd PROVE IsPrefix(Written(d)', asked'[d])
    OBVIOUS
<1>1. Written(d)' = Written(d)
    BY DEF Written
<1>2. Written(d) \in Seq(Msg) /\ asked[d] \in Seq(Msg) /\ IsPrefix(Written(d), asked[d])
    BY WrittenTypes, ProperParts DEF Ordered
<1>3. CASE asked'[d] = asked[d]
    BY <1>1, <1>2, <1>3
<1>4. ASSUME NEW x \in Msg, asked'[d] = Append(asked[d], x)
      PROVE  IsPrefix(Written(d)', asked'[d])
  <2>1. IsPrefix(Written(d), Append(asked[d], x))
      BY <1>2, PrefixGrows
  <2> QED BY <1>1, <1>4, <2>1
<1> QED BY <1>3, <1>4

(* Steps that serve no client.                                             *)
LEMMA OrderApart ==
    ASSUME Proper, Ordered, asked' = asked, answered' = answered,
           \A k \in Conn : (k \in Clients)' =>
               /\ k \in Clients /\ conn'[k].sd = conn[k].sd
               /\ conn'[k].omsg_q = conn[k].omsg_q,
           \A k \in Conn : Taken(k)' = Taken(k)
    PROVE  Ordered'
<1>1. \A d \in Sd : IsPrefix(Written(d), asked[d])'
    BY PrefixesKept
<1>2. ASSUME NEW c \in Conn PROVE InOrder(c)'
    BY OrderKept DEF Ordered
<1> QED BY <1>1, <1>2 DEF Ordered

(* req_recv_done: the request is the last one asked.                       *)
LEMMA OrderTaken ==
    ASSUME Proper, Ordered, NEW m \in Msg, Taking(m)
    PROVE  Ordered'
<1>1. /\ pc = "recv" /\ pc' = "forward" /\ cmsg' = m /\ cur' = cur /\ conn' = conn
      /\ answered' = answered /\ cur \in Clients
      /\ asked' = IF msg'[m].noreply THEN asked
                  ELSE [asked EXCEPT ![conn[cur].sd] = Append(@, m)]
      /\ asked \in [Sd -> Seq(Msg)]
    BY ProperParts DEF Taking, IInv, TypeOK
<1> DEFINE e == conn[cur].sd
<1>2. e \in Sd /\ \A k \in Clients \ {cur} : conn[k].sd # e
    BY <1>1, ClientSocket
<1>3. \A d \in Sd \ {e} : asked'[d] = asked[d]
    BY <1>1
<1>4. asked'[e] = IF msg'[m].noreply THEN asked[e] ELSE Append(asked[e], m)
    BY <1>1, <1>2
<1> HIDE DEF e
<1>5. \A d \in Sd : IsPrefix(Written(d), asked[d])'
  <2>1. \A d \in Sd : \/ asked'[d] = asked[d]
                      \/ \E x \in Msg : asked'[d] = Append(asked[d], x)
      BY <1>3, <1>4
  <2> QED BY <1>1, <2>1, PrefixesKept
<1>6. Clients' = Clients
    BY <1>1 DEF Clients, Attached
<1>7. ASSUME NEW c \in Conn, c # cur PROVE InOrder(c)'
  <2>1. c \in Clients => conn[c].sd \in Sd \ {e}
      BY <1>2, <1>7, ClientSocket
  <2>2. Taken(c) = <<>> /\ Taken(c)' = <<>>
      BY <1>1, <1>7 DEF Taken
  <2>3. InOrder(c)
      BY DEF Ordered
  <2> QED BY <1>1, <1>3, <1>6, <2>1, <2>2, <2>3, OrderKept
<1>8. InOrder(cur)'
  <2> DEFINE w == Written(e)
             o == conn[cur].omsg_q
  <2>1. w \in Seq(Msg) /\ o \in Seq(Msg)
      BY <1>1, <1>2, WrittenTypes, ClientSocket, ProperParts
  <2>2. (w \o o) \o <<>> = asked[e]
    <3>1. InOrder(cur) /\ Taken(cur) = <<>>
        BY <1>1 DEF Taken, Ordered, Clients
    <3> QED BY <1>1, <3>1 DEF InOrder, e
  <2>3. Written(e)' = w
    <3>1. e' = e
        BY <1>1 DEF e
    <3> QED BY <1>1, <3>1 DEF Written
  <2>4. e' = e /\ conn'[cur'].sd = e /\ conn'[cur'].omsg_q = o
      BY <1>1 DEF e
  <2> HIDE DEF w, o
  <2>5. w \o o \in Seq(Msg)
      BY <2>1, ConcatProperties
  <2>6. w \o o = asked[e]
      BY <2>2, <2>5, ConcatEmptySeq
  <2>7. CASE msg'[m].noreply
    <3>1. Taken(cur)' = <<>>
        BY <1>1, <2>7 DEF Taken
    <3> QED BY <1>4, <2>2, <2>3, <2>4, <2>7, <3>1 DEF InOrder
  <2>8. CASE ~msg'[m].noreply
    <3>1. Taken(cur)' = <<m>>
        BY <1>1, <2>8 DEF Taken
    <3>2. (w \o o) \o <<m>> = Append(w \o o, m)
        BY <2>1, <2>5, AppendIsConcat
    <3> QED BY <1>4, <2>3, <2>4, <2>6, <2>8, <3>1, <3>2 DEF InOrder
  <2> QED BY <2>7, <2>8
<1>9. \A c \in Conn : InOrder(c)'
    BY <1>1, <1>7, <1>8
<1> QED BY <1>5, <1>9 DEF Ordered

-----------------------------------------------------------------------------

(* proxy_accept: a new client has asked for nothing.                       *)
LEMMA OrderAccepted ==
    ASSUME Proper, Ordered, NEW c \in Conn, NEW d \in Sd, Admitting(c, d)
    PROVE  Ordered'
<1>1. /\ pc' = pc /\ pc = "accept" /\ asked' = asked /\ answered' = answered
      /\ \A k \in Conn \ {c} : conn'[k] = conn[k]
      /\ conn'[c].sd = d /\ conn'[c].omsg_q = <<>> /\ d = nsd + 1
    BY DEF Admitting
<1>2. \A k : Taken(k) = <<>> /\ Taken(k)' = <<>>
    BY <1>1 DEF Taken
<1>3. \A e \in Sd : IsPrefix(Written(e), asked[e])'
    BY <1>1, PrefixesKept
<1>4. asked[d] = <<>> /\ answered[d] = <<>>
  <2>1. nsd \in Nat
      BY ProperParts DEF IInv, TypeOK
  <2>2. d > nsd
      BY <1>1, <2>1
  <2> QED BY <2>2, ProperParts DEF Sockets
<1>5. ASSUME NEW k \in Conn PROVE InOrder(k)'
  <2>1. CASE k # c
    <3>1. (k \in Clients)' => k \in Clients /\ conn'[k] = conn[k]
        BY <1>1, <2>1 DEF Clients, Attached
    <3> QED BY <1>1, <1>2, <3>1, OrderKept DEF Ordered
  <2>2. CASE k = c
    <3>1. Written(d)' = <<>> /\ asked'[d] = <<>>
        BY <1>1, <1>4 DEF Written
    <3>2. (<<>> \o <<>>) \o <<>> = <<>>
      <4>1. <<>> \in Seq(Msg)
          OBVIOUS
      <4> QED BY <4>1, ConcatEmptySeq
    <3>3. Written(conn[c].sd)' = Written(d)'
        BY <1>1
    <3> QED BY <1>1, <1>2, <2>2, <3>1, <3>2, <3>3 DEF InOrder
  <2> QED BY <2>1, <2>2
<1> QED BY <1>3, <1>5 DEF Ordered

(* The request read passes to out_q, or needs no reply.                    *)
LEMMA OrderReserved ==
    ASSUME Proper, Ordered, Reserving,
           \A k \in Conn \ {cur} : \/ conn'[k] = conn[k]
                                   \/ ~conn'[k].client
    PROVE  Ordered'
<1> DEFINE e == conn[cur].sd
           o == conn[cur].omsg_q
           w == Written(e)
<1>1. /\ pc = "forward" /\ pc' # "forward" /\ asked' = asked /\ answered' = answered
      /\ cur' = cur /\ cmsg' = cmsg /\ msg' = msg
      /\ cur \in Clients /\ cur \in Conn /\ cmsg \in Msg
      /\ conn'[cur].sd = e
      /\ conn'[cur].omsg_q = IF msg[cmsg].noreply THEN o ELSE Append(o, cmsg)
    BY DEF Reserving, Clients
<1>2. \A d \in Sd : IsPrefix(Written(d), asked[d])'
    BY <1>1, PrefixesKept
<1>3. \A k : Taken(k)' = <<>>
    BY <1>1 DEF Taken
<1>4. ASSUME NEW k \in Conn, k # cur PROVE InOrder(k)'
  <2>1. (k \in Clients)' => k \in Clients /\ conn'[k] = conn[k]
      BY <1>4 DEF Clients, Attached
  <2>2. Taken(k) = <<>>
      BY <1>4 DEF Taken
  <2> QED BY <1>1, <1>3, <2>1, <2>2, OrderKept DEF Ordered
<1>5. e \in Sd /\ o \in Seq(Msg) /\ w \in Seq(Msg)
    BY <1>1, ClientSocket, WrittenTypes, ProperParts
<1>6. (w \o o) \o Taken(cur) = asked[e]
    BY <1>1 DEF Ordered, InOrder
<1>7. InOrder(cur)'
  <2>1. Written(conn[cur].sd)' = w /\ asked'[conn'[cur'].sd] = asked[e]
      BY <1>1 DEF Written
  <2>2. CASE msg[cmsg].noreply
    <3>1. Taken(cur) = <<>>
        BY <2>2 DEF Taken
    <3> QED BY <1>1, <1>3, <1>6, <2>1, <2>2, <3>1 DEF InOrder
  <2>3. CASE ~msg[cmsg].noreply
    <3>1. Taken(cur) = <<cmsg>>
        BY <1>1, <2>3 DEF Taken
    <3> HIDE DEF w, o, e
    <3>2. w \o o \in Seq(Msg) /\ w \o Append(o, cmsg) = Append(w \o o, cmsg)
          /\ (w \o o) \o <<cmsg>> = Append(w \o o, cmsg)
        BY <1>1, <1>5, JoinFacts
    <3>3. (w \o Append(o, cmsg)) \o <<>> = (w \o o) \o <<cmsg>>
      <4>1. Append(w \o o, cmsg) \in Seq(Msg)
          BY <1>1, <3>2, AppendProperties
      <4> QED BY <3>2, <4>1, ConcatEmptySeq
    <3> QED BY <1>1, <1>3, <1>6, <2>1, <2>3, <3>1, <3>3 DEF InOrder
  <2> QED BY <2>2, <2>3
<1>8. \A k \in Conn : InOrder(k)'
    BY <1>1, <1>4, <1>7
<1> QED BY <1>2, <1>8 DEF Ordered

(* rsp_send_done: the head of out_q is what is written next.               *)
LEMMA OrderAnswered ==
    ASSUME Proper, Ordered, NEW p \in Msg, Answering(p)
    PROVE  Ordered'
<1> DEFINE e == conn[cur].sd
           o == conn[cur].omsg_q
           w == Written(e)
           x == <<p, IF msg[p].error THEN ErrorReply ELSE msg[p].peer>>
<1>1. /\ pc = "send" /\ pc' = "send" /\ asked' = asked /\ cur' = cur
      /\ cur \in Clients /\ cur \in Conn /\ e \in Sd
      /\ answered' = [answered EXCEPT ![e] = Append(@, x)]
      /\ \A k \in Conn \ {cur} : conn'[k] = conn[k]
      /\ conn'[cur].sd = e /\ conn'[cur].omsg_q = Tail(o)
      /\ o # <<>> /\ p = Head(o)
    BY DEF Answering, Clients, Requeued
<1>2. /\ answered \in [Sd -> Seq(Sent)] /\ x \in Sent /\ x[1] = p
      /\ o \in Seq(Msg) /\ w \in Seq(Msg)
  <2>1. answered \in [Sd -> Seq(Sent)] /\ msg[p] \in MsgRec
      BY ProperParts DEF IInv, TypeOK, Sent
  <2>2. CASE msg[p].error
      BY <1>1, <2>1, <2>2, ClientSocket, WrittenTypes, ProperParts DEF Sent
  <2>3. CASE ~msg[p].error /\ msg[p].peer \in Msg
      BY <1>1, <2>1, <2>3, ClientSocket, WrittenTypes, ProperParts DEF Sent
  <2>4. CASE ~msg[p].error /\ msg[p].peer = None
      BY <1>1, <2>1, <2>4, ClientSocket, WrittenTypes, ProperParts DEF Sent, None, ErrorReply
  <2> QED BY <2>1, <2>2, <2>3, <2>4 DEF MsgRec
<1>3. Written(e)' = Append(w, p)
  <2>1. e' = e /\ answered'[e] = Append(answered[e], x) /\ answered[e] \in Seq(Sent)
      BY <1>1, <1>2
  <2>2. Firsts(Append(answered[e], x)) = Append(Firsts(answered[e]), x[1])
    <3> HIDE DEF x, e
    <3> QED BY <1>2, <2>1, FirstsAppend
  <2>3. Written(e)' = Firsts(answered'[e])
      BY <2>1 DEF Written, Firsts
  <2> QED BY <1>2, <2>1, <2>2, <2>3, WrittenIs
<1>4. \A k : Taken(k) = <<>> /\ Taken(k)' = <<>>
    BY <1>1 DEF Taken
<1>5. /\ Append(w, p) \o Tail(o) = w \o o /\ w \o o \in Seq(Msg)
      /\ Append(w, p) \in Seq(Msg) /\ Tail(o) \in Seq(Msg)
  <2> HIDE DEF w, o
  <2> QED BY <1>1, <1>2, MoveFacts, ConcatProperties, AppendProperties, HeadTailProperties
<1>6. w \o o = asked[e]
  <2>1. (w \o o) \o <<>> = asked[e]
      BY <1>1, <1>4 DEF Ordered, InOrder
  <2> QED BY <1>5, <2>1, ConcatEmptySeq
<1>7. InOrder(cur)'
  <2>1. (Append(w, p) \o Tail(o)) \o <<>> = w \o o
      BY <1>5, ConcatEmptySeq
  <2> QED BY <1>1, <1>3, <1>4, <1>6, <2>1 DEF InOrder
<1>8. \A d \in Sd \ {e} : answered'[d] = answered[d]
    BY <1>1, <1>2
<1>9. ASSUME NEW k \in Conn, k # cur PROVE InOrder(k)'
  <2>1. k \in Clients => conn[k].sd \in Sd \ {e}
      BY <1>1, <1>9, ClientSocket
  <2>2. (k \in Clients)' => k \in Clients /\ conn'[k] = conn[k]
      BY <1>1, <1>9 DEF Clients, Attached
  <2> QED BY <1>1, <1>4, <1>8, <2>1, <2>2, OrderKept DEF Ordered
<1>10. ASSUME NEW d \in Sd PROVE IsPrefix(Written(d), asked[d])'
  <2>1. CASE d # e
    <3>1. Written(d)' = Written(d)
        BY <1>8, <2>1 DEF Written
    <3> QED BY <1>1, <3>1 DEF Ordered
  <2>2. CASE d = e
    <3>1. IsPrefix(Append(w, p), Append(w, p) \o Tail(o))
        BY <1>5, PrefixJoin
    <3>2. Written(d)' = Append(w, p)
        BY <1>1, <1>3, <2>2
    <3> QED BY <1>1, <1>5, <1>6, <2>2, <3>1, <3>2
  <2> QED BY <2>1, <2>2
<1>11. \A k \in Conn : InOrder(k)'
    BY <1>1, <1>7, <1>9
<1> QED BY <1>10, <1>11 DEF Ordered

-----------------------------------------------------------------------------

(* Every step keeps the order.                                             *)
LEMMA OrderStep ==
    ASSUME Proper, Ordered, LoopDoes \/ PeersDo
    PROVE  Ordered'
<1>1. ASSUME asked' = asked, answered' = answered, pc # "forward", pc' # "forward",
             \A k \in Conn : (k \in Clients)' => Kept(k)
      PROVE  Ordered'
  <2>1. \A k \in Conn : Taken(k)' = Taken(k)
      BY <1>1 DEF Taken
  <2>2. \A k \in Conn : (k \in Clients)' =>
               /\ k \in Clients /\ conn'[k].sd = conn[k].sd
               /\ conn'[k].omsg_q = conn[k].omsg_q
      BY <1>1 DEF Kept, Clients, Attached
  <2> QED BY <1>1, <2>1, <2>2, OrderApart
<1>2. CASE Idle
    BY <1>1, <1>2 DEF Idle, Forwarding
<1>3. ASSUME NEW c \in Conn, Closing(c) PROVE Ordered'
  <2>1. \A k \in Conn : (k \in Clients)' => k # c /\ conn'[k] = conn[k]
      BY <1>3 DEF Closing, Closes, Clients, Attached
  <2> QED BY <1>1, <1>3, <2>1 DEF Closing, Forwarding, Kept
<1>4. ASSUME NEW m \in Msg, Settling(m) PROVE Ordered'
    BY <1>1, <1>4 DEF Settling, Kept
<1>5. ASSUME NEW m \in Msg, Responding(m) PROVE Ordered'
  <2>1. \A k \in Conn : (k \in Clients)' => k # cur /\ Kept(k)
      BY <1>5 DEF Responding, Requeued, Clients, Servers, Attached
  <2> QED BY <1>1, <1>5, <2>1 DEF Responding
<1>6. CASE Refusing(scur)
  <2>1. \A k \in Conn : (k \in Clients)' => k # scur /\ conn'[k] = conn[k]
      BY <1>6 DEF Refusing, Clients, Attached
  <2> QED BY <1>1, <1>6, <2>1 DEF Refusing, Kept
<1>7. CASE Erring(cmsg)
    BY <1>1, <1>7 DEF Erring
<1>8. CASE Enqueuing(cmsg, scur)
  <2>1. \A k \in Conn : (k \in Clients)' => k # scur /\ Kept(k)
      BY <1>8 DEF Enqueuing, Requeued, Clients, Servers, Attached
  <2> QED BY <1>1, <1>8, <2>1 DEF Enqueuing
<1>9. ASSUME NEW m \in Msg, Sending(m) \/ Halving(m) PROVE Ordered'
  <2>1. \A k \in Conn : (k \in Clients)' => Kept(k)
      BY <1>9 DEF Sending, Halving, Writes, Requeued, Clients, Servers, Attached
  <2> QED BY <1>1, <1>9, <2>1 DEF Sending, Halving, Writes
<1>10. ASSUME NEW c \in Conn, NEW d \in Sd \cup {None}, ReservingNew(c, d)
       PROVE  Ordered'
  <2>1. Reserving /\ \A k \in Conn \ {cur} : conn'[k] = conn[k] \/ ~conn'[k].client
      BY <1>10 DEF ReservingNew
  <2> QED BY <2>1, OrderReserved
<1>11. CASE ReservingOld
    BY <1>11, OrderReserved DEF ReservingOld, ReservingLru
<1>12. CASE PeersDo
  <2>1. LoopStill
      BY <1>12 DEF PeersDo, Resting, Asking, Replying, Changing, SockSteps
  <2>2. \A k \in Conn : Taken(k)' = Taken(k)
      BY <2>1 DEF LoopStill, Taken
  <2> QED BY <2>1, <2>2, OrderApart DEF LoopStill, Clients, Attached
<1>13. CASE LoopDoes
    BY <1>2, <1>3, <1>4, <1>5, <1>6, <1>7, <1>8, <1>9, <1>10, <1>11, <1>13,
       OrderAccepted, OrderTaken, OrderAnswered DEF LoopDoes
<1> QED BY <1>12, <1>13

(* A step that changes nothing keeps the order.                            *)
LEMMA OrderStill == ASSUME Proper, Ordered, UNCHANGED vars PROVE Ordered'
<1>1. UNCHANGED <<conn, msg, asked, answered, pc, cur, cmsg>>
    BY DEF vars, tables, requests, control, history
<1>2. \A k \in Conn : Taken(k)' = Taken(k)
    BY <1>1 DEF Taken
<1> QED BY <1>1, <1>2, OrderApart DEF Clients, Attached

(* At the start nothing is asked.                                          *)
LEMMA InitOrdered == Init => Ordered
<1> SUFFICES ASSUME Init PROVE Ordered
    OBVIOUS
<1>1. \A c \in Conn : c \notin Clients
    BY DEF Init, NoConn, Clients, Attached
<1>2. ASSUME NEW d \in Sd PROVE IsPrefix(Written(d), asked[d])
  <2>1. Written(d) = <<>> /\ asked[d] = <<>>
      BY DEF Init, Written
  <2>2. <<>> \in Seq(Msg) /\ <<>> \o <<>> = <<>>
      BY ConcatEmptySeq
  <2> QED BY <2>1, <2>2, PrefixJoin
<1> QED BY <1>1, <1>2 DEF Ordered, InOrder

(* The order holds in every state of every behaviour.                      *)
LEMMA AlwaysOrdered == Spec => []Ordered
<1>1. Proper /\ Ordered /\ [Next]_vars => Ordered'
  <2> SUFFICES ASSUME Proper, Ordered, [Next]_vars PROVE Ordered'
      OBVIOUS
  <2>1. CASE Next
    <3>1. LoopDoes \/ PeersDo
        BY <2>1, NextEffect DEF Proper
    <3> QED BY <3>1, OrderStep
  <2>2. CASE UNCHANGED vars
      BY <2>2, OrderStill
  <2> QED BY <2>1, <2>2
<1> QED BY AlwaysProper, InitOrdered, <1>1, PTL DEF Spec

(* For every number of clients, servers and requests: a client gets its    *)
(* responses in the order of its requests, none left out and none twice    *)
(* (rsp_send_next writes the head of out_q only when it is done).          *)
THEOREM ProxyResponsesInOrder == Spec => []ResponsesInOrder
<1>1. Proper /\ Ordered => ResponsesInOrder
    BY DEF Ordered, InOrder, ResponsesInOrder, Clients
<1> QED BY AlwaysProper, AlwaysOrdered, <1>1, PTL

-----------------------------------------------------------------------------
(* The requests that a stream of responses answers.                        *)
Ends(q) == q # <<>> /\ Last(q)[1] = "eof"

(* As Replies, of any sequence.                                            *)
RepliesOf(q) == [i \in 1..(IF Ends(q) THEN Len(q) - 1 ELSE Len(q)) |-> q[i][2]]

(* Requests, or none.                                                      *)
Id == Msg \cup {None}

(* What a socket holds answers these requests.                             *)
LEMMA RepliesIs == \A d : Replies(d) = RepliesOf(sock[d].inq)
  BY DEF Replies, RepliesOf, Ends

(* What a socket holds.                                                    *)
LEMMA ItemFacts ==
    ASSUME NEW q \in Seq(Item)
    PROVE  /\ Len(q) \in Nat /\ DOMAIN q = 1..Len(q) /\ (q # <<>> => Len(q) # 0)
           /\ \A i \in 1..Len(q) : q[i] \in Item /\ q[i][2] \in Id
           /\ q # <<>> => Head(q) = q[1] /\ Last(q) = q[Len(q)]
           /\ <<"eof", None>> \notin ToSet(q) => ~Ends(q)
<1>1. Len(q) \in Nat /\ DOMAIN q = 1..Len(q) /\ \A i \in 1..Len(q) : q[i] \in Item
    BY LenProperties
<1>2. q # <<>> => Len(q) # 0 /\ Head(q) = q[1] /\ Last(q) = q[Len(q)]
    BY EmptySeq, <1>1 DEF Last
<1>3. \A x \in Item : x[2] \in Id /\ (x[1] = "eof" => x = <<"eof", None>>)
    BY DEF Item, Id
<1>4. Ends(q) => <<"eof", None>> \in ToSet(q)
  <2> SUFFICES ASSUME Ends(q) PROVE <<"eof", None>> \in ToSet(q)
      OBVIOUS
  <2>1. Len(q) \in 1..Len(q) /\ q[Len(q)][1] = "eof"
      BY <1>1, <1>2 DEF Ends
  <2>2. q[Len(q)] = <<"eof", None>>
      BY <1>1, <1>3, <2>1
  <2> QED BY <1>1, <2>1, <2>2 DEF ToSet
<1> QED BY <1>1, <1>2, <1>3, <1>4

(* The requests answered by what a socket holds, but for its FIN.          *)
LEMMA RepliesType ==
    ASSUME NEW q \in Seq(Item)
    PROVE  /\ RepliesOf(q) \in Seq(Id)
           /\ Len(RepliesOf(q)) = IF Ends(q) THEN Len(q) - 1 ELSE Len(q)
           /\ Len(RepliesOf(q)) <= Len(q)
           /\ \A i \in 1..Len(RepliesOf(q)) : RepliesOf(q)[i] = q[i][2]
           /\ RepliesOf(<<>>) = <<>>
<1> DEFINE n == IF Ends(q) THEN Len(q) - 1 ELSE Len(q)
<1>1. n \in Nat /\ n <= Len(q)
    BY ItemFacts DEF Ends
<1>2. RepliesOf(q) = [i \in 1..n |-> q[i][2]]
    BY DEF RepliesOf
<1>3. \A i \in 1..n : q[i][2] \in Id
    BY <1>1, ItemFacts
<1>4. RepliesOf(<<>>) = <<>>
    BY DEF RepliesOf, Ends
<1>5. n = IF Ends(q) THEN Len(q) - 1 ELSE Len(q)
    OBVIOUS
<1> HIDE DEF n
<1>6. RepliesOf(q) \in Seq(Id) /\ Len(RepliesOf(q)) = n /\ \A i \in 1..n : RepliesOf(q)[i] = q[i][2]
    BY <1>1, <1>2, <1>3
<1> QED BY <1>1, <1>4, <1>5, <1>6

(* A response that comes answers one request more; a FIN answers none.     *)
LEMMA RepliesGrow ==
    ASSUME NEW q \in Seq(Item), <<"eof", None>> \notin ToSet(q)
    PROVE  /\ \A k \in {"rsp", "fail"}, m \in Msg :
                 RepliesOf(Append(q, <<k, m>>)) = Append(RepliesOf(q), m)
           /\ RepliesOf(Append(q, <<"eof", None>>)) = RepliesOf(q)
<1>1. ASSUME NEW x \in Item
      PROVE  LET t == Append(q, x)
             IN /\ t \in Seq(Item) /\ Len(t) = Len(q) + 1 /\ Len(q) \in Nat
                /\ \A i \in 1..Len(q) : t[i] = q[i]
                /\ t[Len(q) + 1] = x /\ (Ends(t) <=> x[1] = "eof")
  <2> DEFINE t == Append(q, x)
  <2>1. /\ t \in Seq(Item) /\ Len(t) = Len(q) + 1 /\ Len(q) \in Nat /\ t # <<>>
        /\ \A i \in 1..Len(q) : t[i] = q[i]
        /\ t[Len(q) + 1] = x
      BY AppendProperties, LenProperties
  <2> HIDE DEF t
  <2>2. Last(t) = x
      BY <2>1, ItemFacts
  <2> QED BY <2>1, <2>2 DEF Ends, t
<1>2. ~Ends(q) /\ Len(q) \in Nat
    BY ItemFacts
<1> DEFINE r == RepliesOf(q)
<1>3. r \in Seq(Id) /\ Len(r) = Len(q) /\ \A i \in 1..Len(q) : r[i] = q[i][2]
    BY <1>2, RepliesType
<1>4. ASSUME NEW k \in {"rsp", "fail"}, NEW m \in Msg
      PROVE  RepliesOf(Append(q, <<k, m>>)) = Append(r, m)
  <2> DEFINE x == <<k, m>>
             t == Append(q, x)
  <2>1. x \in Item /\ x[1] # "eof" /\ x[2] = m
      BY DEF Item
  <2>2. /\ t \in Seq(Item) /\ Len(t) = Len(q) + 1 /\ ~Ends(t)
        /\ \A i \in 1..Len(q) : t[i] = q[i]
        /\ t[Len(q) + 1] = x
      BY <1>1, <2>1
  <2> HIDE DEF r, x, t
  <2> DEFINE f == RepliesOf(t)
             g == Append(r, m)
  <2>3. f \in Seq(Id) /\ Len(f) = Len(q) + 1 /\ \A i \in 1..(Len(q) + 1) : f[i] = t[i][2]
      BY <2>2, RepliesType
  <2>4. /\ g \in Seq(Id) /\ Len(g) = Len(q) + 1 /\ \A i \in 1..Len(q) : g[i] = r[i]
        /\ g[Len(q) + 1] = m
    <3>1. m \in Id
        BY DEF Id
    <3> QED BY <1>3, <3>1, AppendProperties
  <2> HIDE DEF f, g
  <2>5. ASSUME NEW i \in 1..(Len(q) + 1) PROVE f[i] = g[i]
    <3>1. CASE i = Len(q) + 1
      <4>1. t[i][2] = m
          BY <2>1, <2>2, <3>1
      <4>2. f[i] = t[i][2]
          BY <2>3
      <4>3. g[i] = m
          BY <2>4, <3>1
      <4> QED BY <4>1, <4>2, <4>3
    <3>2. CASE i # Len(q) + 1
      <4>1. i \in 1..Len(q)
          BY <1>2, <3>2
      <4>2. f[i] = t[i][2]
          BY <2>3
      <4>3. t[i] = q[i]
          BY <2>2, <4>1
      <4>4. g[i] = r[i] /\ r[i] = q[i][2]
          BY <1>3, <2>4, <4>1
      <4> QED BY <4>2, <4>3, <4>4
    <3> QED BY <3>1, <3>2
  <2>6. f = g
      BY <2>3, <2>4, <2>5, SeqEqual
  <2> QED BY <2>6 DEF f, g, t, x, r
<1>5. RepliesOf(Append(q, <<"eof", None>>)) = r
  <2> DEFINE x == <<"eof", None>>
             t == Append(q, x)
  <2>1. x \in Item /\ x[1] = "eof"
      BY DEF Item
  <2>2. /\ t \in Seq(Item) /\ Len(t) = Len(q) + 1 /\ Ends(t)
        /\ \A i \in 1..Len(q) : t[i] = q[i]
      BY <1>1, <2>1
  <2> HIDE DEF r, x, t
  <2> DEFINE f == RepliesOf(t)
  <2>3. f \in Seq(Id) /\ Len(f) = Len(q) /\ \A i \in 1..Len(q) : f[i] = t[i][2]
    <3>1. Len(t) - 1 = Len(q)
        BY <1>2, <2>2
    <3> QED BY <2>2, <3>1, RepliesType
  <2> HIDE DEF f
  <2>4. ASSUME NEW i \in 1..Len(q) PROVE f[i] = r[i]
      BY <1>3, <2>2, <2>3, <2>4
  <2>6. f = r
      BY <1>3, <2>3, <2>4, SeqEqual
  <2> QED BY <2>6 DEF f, t, x
<1> QED BY <1>4, <1>5 DEF r

(* A response that is read leaves the rest.                                *)
LEMMA RepliesShrink ==
    ASSUME NEW q \in Seq(Item), q # <<>>, Head(q)[1] # "eof"
    PROVE  RepliesOf(q) = <<Head(q)[2]>> \o RepliesOf(Tail(q))
<1> DEFINE t == Tail(q)
           r == RepliesOf(q)
           u == RepliesOf(t)
           h == Head(q)[2]
<1>1. /\ t \in Seq(Item) /\ Len(t) = Len(q) - 1 /\ Len(q) \in Nat /\ Len(q) # 0
      /\ \A i \in 1..(Len(q) - 1) : t[i] = q[i + 1]
      /\ h \in Id /\ q[1][2] = h /\ q[1][1] # "eof"
    BY HeadTailProperties, ItemFacts
<1>2. Ends(t) <=> Ends(q)
  <2> HIDE DEF t
  <2>1. Last(q) = q[Len(q)]
      BY ItemFacts
  <2>2. CASE Len(q) = 1
    <3>1. t = <<>>
        BY <1>1, <2>2, EmptySeq
    <3> QED BY <1>1, <2>1, <2>2, <3>1 DEF Ends
  <2>3. CASE Len(q) # 1
    <3>1. Len(t) \in Nat /\ Len(t) # 0 /\ Len(t) \in 1..(Len(q) - 1) /\ Len(t) + 1 = Len(q)
        BY <1>1, <2>3
    <3>2. t # <<>>
        BY <3>1, EmptySeq
    <3>3. Last(t) = t[Len(t)]
        BY <1>1, <3>2, ItemFacts
    <3>4. Last(t) = Last(q)
        BY <1>1, <2>1, <3>1, <3>3
    <3> QED BY <3>2, <3>4 DEF Ends
  <2> QED BY <2>2, <2>3
<1> HIDE DEF t
<1>3. /\ r \in Seq(Id) /\ Len(r) = IF Ends(q) THEN Len(q) - 1 ELSE Len(q)
      /\ \A i \in 1..Len(r) : r[i] = q[i][2]
    BY RepliesType
<1>4. /\ u \in Seq(Id) /\ Len(u) = IF Ends(q) THEN Len(t) - 1 ELSE Len(t)
      /\ \A i \in 1..Len(u) : u[i] = t[i][2]
    BY <1>1, <1>2, RepliesType
<1> HIDE DEF r, u, h
<1>5. Len(r) = Len(u) + 1 /\ Len(u) \in Nat
  <2>1. Len(u) \in Nat
      BY <1>4, LenProperties
  <2> QED BY <1>1, <1>3, <1>4, <2>1
<1>6. Len(u) <= Len(q) - 1
    BY <1>1, <1>4, <1>5
<1>7. /\ <<h>> \o u \in Seq(Id) /\ Len(<<h>> \o u) = Len(r)
      /\ \A i \in 1..Len(r) : (<<h>> \o u)[i] = IF i = 1 THEN h ELSE u[i - 1]
  <2>1. <<h>> \in Seq(Id) /\ Len(<<h>>) = 1 /\ <<h>>[1] = h
      BY <1>1
  <2>2. /\ <<h>> \o u \in Seq(Id) /\ Len(<<h>> \o u) = Len(<<h>>) + Len(u)
        /\ \A i \in 1..(Len(<<h>>) + Len(u)) :
              (<<h>> \o u)[i] = IF i <= Len(<<h>>) THEN <<h>>[i] ELSE u[i - Len(<<h>>)]
      BY <1>4, <2>1, ConcatProperties
  <2>3. Len(<<h>>) + Len(u) = Len(r)
      BY <1>5, <2>1
  <2>4. \A i \in 1..Len(r) : i <= 1 <=> i = 1
      BY <1>5
  <2> QED BY <2>1, <2>2, <2>3, <2>4
<1> DEFINE g == <<h>> \o u
<1>8. g \in Seq(Id) /\ Len(g) = Len(r) /\ \A i \in 1..Len(r) : g[i] = IF i = 1 THEN h ELSE u[i - 1]
    BY <1>7
<1> HIDE DEF g
<1>9. ASSUME NEW i \in 1..Len(r) PROVE r[i] = g[i]
  <2>1. CASE i = 1
      BY <1>1, <1>3, <1>8, <2>1
  <2>2. CASE i # 1
    <3>1. i - 1 \in 1..Len(u) /\ i - 1 \in 1..(Len(q) - 1) /\ (i - 1) + 1 = i
        BY <1>1, <1>5, <1>6, <2>2
    <3>2. r[i] = q[i][2]
        BY <1>3
    <3>3. u[i - 1] = t[i - 1][2]
        BY <1>4, <3>1
    <3>4. t[i - 1] = q[i]
        BY <1>1, <3>1
    <3>5. g[i] = u[i - 1]
        BY <1>8, <2>2
    <3> QED BY <3>2, <3>3, <3>4, <3>5
  <2> QED BY <2>1, <2>2
<1>10. r = g
    BY <1>3, <1>8, <1>9, SeqEqual
<1> QED BY <1>10 DEF r, g, h, u, t

-----------------------------------------------------------------------------
(* What was sent first is still first.                                     *)
LEMMA PrefixLess ==
    ASSUME NEW S, NEW p \in Seq(S), NEW q \in Seq(S), NEW s \in Seq(S), IsPrefix(p \o q, s)
    PROVE  IsPrefix(p, s)
<1>1. p \o q \in Seq(S)
    BY ConcatProperties
<1>2. PICK r \in Seq(S) : s = (p \o q) \o r
    BY <1>1, PrefixIs
<1>3. q \o r \in Seq(S) /\ (p \o q) \o r = p \o (q \o r)
    BY ConcatProperties, ConcatAssociative
<1>4. IsPrefix(p, p \o (q \o r))
    BY <1>3, PrefixJoin
<1> QED BY <1>2, <1>3, <1>4

(* A sequence is a prefix of itself.                                       *)
LEMMA PrefixSelf ==
    ASSUME NEW S, NEW p \in Seq(S)
    PROVE  IsPrefix(p, p)
<1>1. <<>> \in Seq(S) /\ p \o <<>> = p
    BY ConcatEmptySeq
<1>2. IsPrefix(p, p \o <<>>)
    BY <1>1, PrefixJoin
<1> QED BY <1>1, <1>2

(* The first of what was put in front.                                     *)
LEMMA FirstJoined ==
    ASSUME NEW S, NEW x \in S, NEW a \in Seq(S)
    PROVE  <<x>> \in Seq(S) /\ <<x>> \o a \in Seq(S) /\ (<<x>> \o a)[1] = x
<1>1. <<x>> \in Seq(S) /\ Len(<<x>>) = 1 /\ <<x>>[1] = x
    OBVIOUS
<1>2. Len(a) \in Nat /\ <<x>> \o a \in Seq(S)
    BY <1>1, LenProperties, ConcatProperties
<1>3. \A i \in 1..(Len(<<x>>) + Len(a)) : (<<x>> \o a)[i] =
          IF i <= Len(<<x>>) THEN <<x>>[i] ELSE a[i - Len(<<x>>)]
    BY <1>1, ConcatProperties
<1>4. 1 \in 1..(Len(<<x>>) + Len(a)) /\ 1 <= Len(<<x>>)
    BY <1>1, <1>2
<1> QED BY <1>1, <1>2, <1>3, <1>4

(* Prefixes have the same head, and go on as prefixes.                     *)
LEMMA PrefixTail ==
    ASSUME NEW S, NEW x \in S, NEW y \in S, NEW a \in Seq(S), NEW b \in Seq(S),
           IsPrefix(<<x>> \o a, <<y>> \o b)
    PROVE  x = y /\ IsPrefix(a, b)
<1>1. /\ <<x>> \in Seq(S) /\ <<x>> \o a \in Seq(S) /\ (<<x>> \o a)[1] = x
      /\ <<y>> \in Seq(S) /\ <<y>> \o b \in Seq(S) /\ (<<y>> \o b)[1] = y
    BY FirstJoined
<1>2. PICK r \in Seq(S) : <<y>> \o b = (<<x>> \o a) \o r
  <2> DEFINE u == <<x>> \o a
             v == <<y>> \o b
  <2>1. u \in Seq(S) /\ v \in Seq(S) /\ IsPrefix(u, v)
      BY <1>1
  <2> HIDE DEF u, v
  <2>2. \E r \in Seq(S) : v = u \o r
      BY <2>1, PrefixIs
  <2> QED BY <2>2 DEF u, v
<1>3. a \o r \in Seq(S) /\ (<<x>> \o a) \o r = <<x>> \o (a \o r)
    BY <1>1, ConcatProperties, ConcatAssociative
<1>4. (<<x>> \o (a \o r))[1] = x
    BY <1>3, FirstJoined
<1>5. x = y
    BY <1>1, <1>2, <1>3, <1>4
<1>6. <<x>> \o b = <<x>> \o (a \o r)
    BY <1>2, <1>3, <1>5
<1>7. b = a \o r
    BY <1>1, <1>3, <1>6, ConcatSimplifications
<1> QED BY <1>5, <1>7, PrefixJoin

(* What the server has yet to answer, and what the proxy waits for: the    *)
(* same, while the connection is open to both.                             *)
Agree(seen, sent, both) == IsPrefix(seen, sent) /\ (both => seen = sent)

(* The first response is of the first request (rsp_forward dequeues the    *)
(* head of out_q), and the rest agrees.                                    *)
LEMMA AgreeAnswered ==
    ASSUME NEW x \in Id, NEW y \in Id, NEW a \in Seq(Id), NEW b \in Seq(Id),
           NEW both \in BOOLEAN, Agree(<<x>> \o a, <<y>> \o b, both)
    PROVE  x = y /\ Agree(a, b, both)
<1>1. x = y /\ IsPrefix(a, b)
    BY PrefixTail DEF Agree
<1>2. both => a = b
  <2> SUFFICES ASSUME both PROVE a = b
      OBVIOUS
  <2>1. <<x>> \o a = <<x>> \o b
      BY <1>1 DEF Agree
  <2> QED BY <2>1, FirstJoined, ConcatSimplifications
<1> QED BY <1>1, <1>2 DEF Agree

(* One more request is written: the server sees it, if it still reads.     *)
LEMMA AgreeWritten ==
    ASSUME NEW z \in Id, NEW a \in Seq(Id), NEW b \in Seq(Id),
           NEW both \in BOOLEAN, Agree(a, b, both)
    PROVE  Agree(IF both THEN Append(a, z) ELSE a, Append(b, z), both)
<1>1. CASE both
  <2>1. a = b /\ Append(b, z) \in Seq(Id)
      BY <1>1, AppendProperties DEF Agree
  <2>2. IsPrefix(Append(b, z), Append(b, z))
      BY <2>1, PrefixSelf
  <2> QED BY <1>1, <2>1, <2>2 DEF Agree
<1>2. CASE ~both
    BY <1>2, PrefixGrows DEF Agree
<1> QED BY <1>1, <1>2

(* A broken connection loses what the server had not answered: what it did *)
(* answer is still what was asked first.                                   *)
LEMMA AgreeBroken ==
    ASSUME NEW a \in Seq(Id), NEW w \in Seq(Id), NEW b \in Seq(Id),
           NEW both, Agree(a \o w, b, both)
    PROVE  Agree(a, b, FALSE)
  BY PrefixLess DEF Agree

(* Every request and what the kernel holds has its type.                   *)
LEMMA MsgsAreIds == ASSUME NEW q \in Seq(Msg) PROVE q \in Seq(Id)
<1>1. Len(q) \in Nat /\ DOMAIN q = 1..Len(q) /\ q = [i \in 1..Len(q) |-> q[i]]
    BY LenProperties
<1>2. \A i \in 1..Len(q) : q[i] \in Id
    BY <1>1 DEF Id
<1> QED BY <1>1, <1>2

-----------------------------------------------------------------------------
(* A server connection and its server agree; only the head of in_q is half *)
(* written, and nothing is, before connect() ends.                         *)
Synced(c) == c \in Servers =>
    /\ \A m \in ToSet(conn[c].imsg_q) : msg[m].part => m = Head(conn[c].imsg_q)
    /\ conn[c].sd # None =>
         /\ ~Sk(c).up => conn[c].omsg_q = <<>> /\ HalfSent(c) = <<>>
         /\ ~conn[c].done /\ ~conn[c].err
            => Agree(InFlight(c), conn[c].omsg_q \o HalfSent(c), IsServerSd(conn[c].sd))

(* A server that is not connected yet says and sees nothing.               *)
Silent(d) == sock[d].server /\ ~sock[d].up => sock[d].inq = <<>> /\ sock[d].wire = <<>>

(* A request whose response came has the response of its own.              *)
Matched(m) == msg[m].st = "live" /\ msg[m].done /\ ~msg[m].error => msg[m].peer = m

(* A request that is forwarded has not been written yet.                   *)
Whole == pc \in Forwarding => ~msg[cmsg].part

(* The inductive invariant of the pairing of responses with requests.      *)
Pairing == /\ \A c \in Conn : Synced(c)
           /\ \A d \in Sd : Silent(d)
           /\ \A m \in Msg : Matched(m)
           /\ Whole /\ ResponsesPaired

(* The types of the queues of a server connection.                         *)
LEMMA PairTypes ==
    ASSUME Proper, NEW c \in Conn
    PROVE  /\ conn[c].omsg_q \in Seq(Id) /\ HalfSent(c) \in Seq(Id)
           /\ conn[c].omsg_q \o HalfSent(c) \in Seq(Id)
           /\ conn[c].sd \in Sd => /\ Replies(conn[c].sd) \in Seq(Id)
                                   /\ Sk(c).wire \in Seq(Id)
                                   /\ InFlight(c) \in Seq(Id)
<1>1. conn[c].omsg_q \in Seq(Id) /\ conn[c].imsg_q \in Seq(Msg)
    BY ProperParts, QueueTypes, MsgsAreIds
<1>2. HalfSent(c) \in Seq(Id)
  <2>1. CASE conn[c].imsg_q = <<>>
      BY <2>1 DEF HalfSent
  <2>2. CASE conn[c].imsg_q # <<>>
    <3>1. Head(conn[c].imsg_q) \in Id
        BY <1>1, <2>2, HeadIn DEF Id
    <3>2. <<Head(conn[c].imsg_q)>> \in Seq(Id)
        BY <3>1
    <3> QED BY <2>2, <3>2 DEF HalfSent
  <2> QED BY <2>1, <2>2
<1>3. ASSUME conn[c].sd \in Sd
      PROVE  Replies(conn[c].sd) \in Seq(Id) /\ Sk(c).wire \in Seq(Id)
  <2>1. sock[conn[c].sd].inq \in Seq(Item) /\ sock[conn[c].sd].wire \in Seq(Msg)
      BY <1>3, ProperParts, SockTypes
  <2> QED BY <2>1, RepliesType, RepliesIs, MsgsAreIds DEF Sk
<1>4. conn[c].omsg_q \o HalfSent(c) \in Seq(Id)
    BY <1>1, <1>2, ConcatProperties
<1>5. conn[c].sd \in Sd => InFlight(c) \in Seq(Id)
    BY <1>3, ConcatProperties DEF InFlight
<1> QED BY <1>1, <1>2, <1>3, <1>4, <1>5

(* Steps that do not serve the connection.                                 *)
SockKeeps(d) ==
    /\ sock'[d].open = sock[d].open /\ sock'[d].server = sock[d].server
    /\ sock'[d].up = sock[d].up /\ sock'[d].kerr = sock[d].kerr
    /\ sock'[d].wire = sock[d].wire

(* A connection that is not served, whose requests are not touched, stays  *)
(* in agreement.                                                           *)
LEMMA SyncedKept ==
    ASSUME Proper, NEW c \in Conn, Synced(c),
           (c \in Servers)' =>
             /\ c \in Servers /\ conn'[c].sd = conn[c].sd
             /\ conn'[c].imsg_q = conn[c].imsg_q /\ conn'[c].omsg_q = conn[c].omsg_q
             /\ \A m \in ToSet(conn[c].imsg_q) : /\ msg'[m].part = msg[m].part
                                                 /\ msg'[m].noreply = msg[m].noreply
             /\ conn[c].sd # None => SockKeeps(conn[c].sd)
             /\ ~conn'[c].done /\ ~conn'[c].err
                => /\ ~conn[c].done /\ ~conn[c].err
                   /\ conn[c].sd # None => sock'[conn[c].sd].inq = sock[conn[c].sd].inq
    PROVE  Synced(c)'
<1> SUFFICES ASSUME (c \in Servers)' PROVE Synced(c)'
    BY DEF Synced
<1>1. conn[c].imsg_q \in Seq(Msg)
    BY ProperParts, QueueTypes
<1>2. HalfSent(c)' = HalfSent(c)
  <2>1. CASE conn[c].imsg_q = <<>>
      BY <2>1 DEF HalfSent
  <2>2. CASE conn[c].imsg_q # <<>>
    <3>1. Head(conn[c].imsg_q) \in ToSet(conn[c].imsg_q)
        BY <1>1, <2>2, HeadIn
    <3> QED BY <2>2, <3>1 DEF HalfSent
  <2> QED BY <2>1, <2>2
<1>3. ASSUME conn[c].sd # None, ~conn'[c].done, ~conn'[c].err
      PROVE  InFlight(c)' = InFlight(c) /\ IsServerSd(conn[c].sd)' = IsServerSd(conn[c].sd)
  <2>1. sock'[conn[c].sd].inq = sock[conn[c].sd].inq /\ SockKeeps(conn[c].sd)
      BY <1>3
  <2> QED BY <2>1 DEF InFlight, Replies, Sk, IsServerSd, SockKeeps
<1>4. conn[c].sd # None => Sk(c)'.up = Sk(c).up
    BY DEF Sk, SockKeeps
<1> QED BY <1>2, <1>3, <1>4 DEF Synced

(* A request that a server connection holds is not in another's queue, nor *)
(* done, nor the one being forwarded.                                      *)
LEMMA QueuedApart ==
    ASSUME Proper, NEW c \in Conn, c \in Servers, NEW m \in ToSet(conn[c].imsg_q)
    PROVE  /\ m \in Msg /\ msg[m].st = "live" /\ ~msg[m].done
           /\ m \notin ToSet(conn[c].omsg_q)
           /\ \A k \in Servers \ {c} : m \notin Queued(k)
           /\ pc \in Forwarding => m # cmsg
<1>1. m \in Queued(c) /\ ServerFit(c) /\ QueuesApart /\ Forwarded
    BY ProperParts DEF Queued
<1>2. m \in Msg
    BY ProperParts, QueueTypes
<1> QED BY <1>1, <1>2 DEF ServerFit, Waits, QueuesApart, Forwarded

-----------------------------------------------------------------------------

(* A server connection has its own socket.                                 *)
LEMMA ServerSocket ==
    ASSUME Proper, NEW c \in Conn, c \in Servers, conn[c].sd # None
    PROVE  /\ conn[c].sd \in Sd /\ sock[conn[c].sd].server /\ sock[conn[c].sd].open
           /\ sock[conn[c].sd].ptr = c
           /\ \A k \in Conn : Attached(k) /\ conn[k].sd = conn[c].sd => k = c
<1>1. Attached(c) /\ ~conn[c].client /\ conn[c] \in ConnRec
    BY ProperParts DEF Servers
<1>2. conn[c].sd \in Sd
    BY <1>1 DEF ConnRec
<1> QED BY <1>1, <1>2, ProperParts, OwnSocket DEF Sockets

(* The response that is read answers the head of out_q.                    *)
LEMMA HeadAnswered ==
    ASSUME Proper, Pairing, NEW p \in Msg, Responding(p)
    PROVE  Next1(cur)[2] = p /\ Synced(cur)'
<1> DEFINE e == conn[cur].sd
           q == sock[e].inq
           o == conn[cur].omsg_q
           h == HalfSent(cur)
           w == sock[e].wire
           x == Head(q)[2]
           on == IsServerSd(e)
<1>1. /\ cur \in Conn /\ cur \in Servers /\ cur' = cur /\ pc = "recv"
      /\ o # <<>> /\ p = Head(o) /\ Next1(cur)[1] = "rsp"
      /\ conn'[cur].client = conn[cur].client /\ conn'[cur].owner = conn[cur].owner
      /\ conn'[cur].sd = e /\ conn'[cur].imsg_q = conn[cur].imsg_q
      /\ conn'[cur].omsg_q = Tail(o) /\ SocksRead
      /\ \A n \in Msg \ {p} : msg'[n] = msg[n]
      /\ conn'[cur].done = conn[cur].done /\ conn'[cur].err = conn[cur].err
    BY DEF Responding, Servers, Requeued, FlagsKept
<1>2. ~conn[cur].done /\ ~conn[cur].err /\ e # None
    BY <1>1, ProperParts DEF Structures, Servers
<1>3. e \in Sd /\ Sk(cur) = sock[e]
    BY <1>1, <1>2, ServerSocket DEF Sk
<1>4. q \in Seq(Item) /\ q # <<>> /\ Head(q)[1] = "rsp" /\ Next1(cur)[2] = x
    BY <1>1, <1>3, ProperParts, SockTypes DEF SocksRead, Next1
<1>5. /\ SockAlike(sock'[e], sock[e]) /\ sock'[e].wire = w /\ sock'[e].inq = Tail(q)
    BY <1>1, <1>3 DEF SocksRead
<1>6. /\ h \in Seq(Id) /\ o \in Seq(Id) /\ o \in Seq(Msg) /\ o \o h \in Seq(Id)
      /\ w \in Seq(Id) /\ RepliesOf(q) \in Seq(Id)
    BY <1>1, <1>3, PairTypes, RepliesIs, ProperParts, QueueTypes
<1>7. Agree(RepliesOf(q) \o w, o \o h, on)
  <2>1. Synced(cur)
      BY <1>1 DEF Pairing
  <2>2. InFlight(cur) = RepliesOf(q) \o w
      BY <1>3, RepliesIs DEF InFlight
  <2> QED BY <1>1, <1>2, <2>1, <2>2 DEF Synced
<1>8. /\ Tail(q) \in Seq(Item) /\ RepliesOf(q) = <<x>> \o RepliesOf(Tail(q))
      /\ x \in Id /\ RepliesOf(Tail(q)) \in Seq(Id)
  <2>1. Head(q)[1] # "eof"
      BY <1>4
  <2>2. Tail(q) \in Seq(Item) /\ Head(q) \in Item
      BY <1>4, HeadTailProperties
  <2>3. x \in Id
      BY <2>2 DEF Item, Id
  <2> HIDE DEF q
  <2> QED BY <1>4, <2>1, <2>2, <2>3, RepliesShrink, RepliesType DEF x
<1>9. /\ RepliesOf(q) \o w = <<x>> \o (RepliesOf(Tail(q)) \o w)
      /\ RepliesOf(Tail(q)) \o w \in Seq(Id)
  <2> HIDE DEF q, w, x
  <2>1. <<x>> \in Seq(Id)
      BY <1>8
  <2> DEFINE r == RepliesOf(Tail(q))
  <2>2. r \in Seq(Id) /\ RepliesOf(q) = <<x>> \o r
      BY <1>8
  <2> HIDE DEF r
  <2>3. (<<x>> \o r) \o w = <<x>> \o (r \o w) /\ r \o w \in Seq(Id)
      BY <1>6, <2>1, <2>2, ConcatAssociative, ConcatProperties
  <2> QED BY <2>2, <2>3 DEF r
<1>10. /\ o \o h = <<p>> \o (Tail(o) \o h) /\ Tail(o) \o h \in Seq(Id) /\ p \in Id
  <2> HIDE DEF o, h
  <2>1. p \in Id /\ <<p>> \in Seq(Id)
      BY DEF Id
  <2>2. Tail(o) \in Seq(Id) /\ o = <<p>> \o Tail(o)
      BY <1>1, <1>6, HeadTailProperties, MoveFacts
  <2> DEFINE t == Tail(o)
  <2>3. t \in Seq(Id) /\ o = <<p>> \o t
      BY <2>2
  <2> HIDE DEF t
  <2>4. (<<p>> \o t) \o h = <<p>> \o (t \o h) /\ t \o h \in Seq(Id)
      BY <1>6, <2>1, <2>3, ConcatAssociative, ConcatProperties
  <2> QED BY <2>1, <2>3, <2>4 DEF t
<1>11. x = p /\ Agree(RepliesOf(Tail(q)) \o w, Tail(o) \o h, on)
  <2> DEFINE a == RepliesOf(Tail(q)) \o w
             b == Tail(o) \o h
  <2>1. a \in Seq(Id) /\ b \in Seq(Id) /\ Agree(<<x>> \o a, <<p>> \o b, on)
      BY <1>7, <1>9, <1>10
  <2>2. on \in BOOLEAN
      BY DEF IsServerSd
  <2> HIDE DEF a, b, x, on
  <2>3. x = p /\ Agree(a, b, on)
      BY <1>8, <1>10, <2>1, <2>2, AgreeAnswered
  <2> QED BY <2>3 DEF a, b
<1>12. InFlight(cur)' = RepliesOf(Tail(q)) \o w
    BY <1>1, <1>3, <1>5, RepliesIs DEF InFlight, Replies, RepliesOf, Ends, Sk
<1>13. HalfSent(cur)' = h
  <2>1. CASE conn[cur].imsg_q = <<>>
      BY <1>1, <2>1 DEF HalfSent
  <2>2. CASE conn[cur].imsg_q # <<>>
    <3>1. conn[cur].imsg_q \in Seq(Msg)
        BY <1>1, ProperParts, QueueTypes
    <3>2. Head(conn[cur].imsg_q) \in ToSet(conn[cur].imsg_q)
        BY <2>2, <3>1, HeadIn
    <3>3. p \in ToSet(o)
        BY <1>1, <1>6, HeadIn
    <3>4. Head(conn[cur].imsg_q) \in Msg \ {p}
        BY <1>1, <3>2, <3>3, QueuedApart
    <3> QED BY <1>1, <2>2, <3>4 DEF HalfSent
  <2> QED BY <2>1, <2>2
<1>14. IsServerSd(e)' => on
  <2>1. <<"eof", None>> \in ToSet(q) => <<"eof", None>> \in ToSet(Tail(q))
    <3> HIDE DEF q
    <3> SUFFICES ASSUME <<"eof", None>> \in ToSet(q) PROVE <<"eof", None>> \in ToSet(Tail(q))
        OBVIOUS
    <3>1. PICK i \in 1..Len(q) : q[i] = <<"eof", None>>
        BY <1>4, LenProperties DEF ToSet
    <3>2. Head(q) = q[1] /\ Len(q) \in Nat /\ Len(Tail(q)) = Len(q) - 1
          /\ \A j \in 1..Len(Tail(q)) : Tail(q)[j] = q[j + 1]
        BY <1>4, HeadTailProperties, ItemFacts
    <3>3. i # 1
        BY <1>4, <3>1, <3>2
    <3>4. i - 1 \in 1..Len(Tail(q)) /\ (i - 1) + 1 = i
        BY <3>2, <3>3
    <3>5. Tail(q)[i - 1] = <<"eof", None>>
        BY <3>1, <3>2, <3>4
    <3>6. DOMAIN Tail(q) = 1..Len(Tail(q))
        BY <1>8, LenProperties
    <3> QED BY <3>4, <3>5, <3>6 DEF ToSet
  <2>2. e' = e
      BY <1>1
  <2> QED BY <1>3, <1>5, <2>1, <2>2 DEF IsServerSd, SockAlike
<1>15. Synced(cur)'
  <2>1. \A m \in ToSet(conn[cur].imsg_q) : msg'[m].part = msg[m].part
    <3> SUFFICES ASSUME NEW m \in ToSet(conn[cur].imsg_q) PROVE msg'[m].part = msg[m].part
        OBVIOUS
    <3>1. p \in ToSet(o)
        BY <1>1, <1>6, HeadIn
    <3>2. m \in Msg \ {p}
        BY <1>1, <3>1, QueuedApart
    <3> QED BY <1>1, <3>2
  <2>2. Synced(cur) /\ Sk(cur).up
    <3>1. Synced(cur) /\ Silent(e)
        BY <1>1, <1>3 DEF Pairing
    <3>2. sock[e].server
        BY <1>1, <1>2, ServerSocket
    <3> QED BY <1>3, <1>4, <3>1, <3>2 DEF Silent
  <2>3. Sk(cur)'.up
      BY <1>1, <1>3, <1>5, <2>2 DEF Sk, SockAlike
  <2>4. Agree(InFlight(cur)', Tail(o) \o HalfSent(cur)', IsServerSd(e)')
      BY <1>11, <1>12, <1>13, <1>14 DEF Agree
  <2>5. e' = e /\ conn'[cur'].omsg_q = Tail(o) /\ conn'[cur'].imsg_q = conn[cur].imsg_q
      BY <1>1
  <2>6. \A m \in ToSet(conn[cur].imsg_q) : msg'[m].part => m = Head(conn[cur].imsg_q)
      BY <1>1, <2>1, <2>2 DEF Synced
  <2> QED BY <2>3, <2>4, <2>5, <2>6 DEF Synced
<1> QED BY <1>4, <1>11, <1>15

-----------------------------------------------------------------------------
(* What is written is what is waited for.                                  *)
LEMMA SyncedWritten ==
    ASSUME Proper, Pairing, NEW m \in Msg, Sending(m) \/ Halving(m)
    PROVE  Synced(cur)'
<1> DEFINE e == conn[cur].sd
           i == conn[cur].imsg_q
           o == conn[cur].omsg_q
           h == HalfSent(cur)
           on == IsServerSd(e)
           new == ~msg[m].part /\ ~msg[m].noreply
<1>1. /\ Writes(m) /\ cur \in Conn /\ cur \in Servers /\ cur' = cur /\ pc = "send"
      /\ e \in Sd /\ sock[e].up /\ i # <<>> /\ m = Head(i)
      /\ conn'[cur].client = conn[cur].client /\ conn'[cur].owner = conn[cur].owner
      /\ conn'[cur].sd = e
      /\ \A n \in Msg \ {m} : msg'[n] = msg[n]
      /\ conn'[cur].done = conn[cur].done /\ conn'[cur].err = conn[cur].err
      /\ i \in Seq(Msg) /\ o \in Seq(Msg) /\ IsInjective(i) /\ msg[m] \in MsgRec
    BY ProperParts, QueueTypes DEF Sending, Halving, Writes, Servers, Requeued, FlagsKept, Kept,
                                   ServerFit
<1>2. ~conn[cur].done /\ ~conn[cur].err /\ e # None
    BY <1>1, ProperParts DEF Structures, Servers, Sd, None
<1>3. /\ SockAlike(sock'[e], sock[e]) /\ sock'[e].inq = sock[e].inq
      /\ sock'[e].wire = IF on /\ new THEN Append(sock[e].wire, m) ELSE sock[e].wire
    BY <1>1 DEF Writes, Wired
<1>4. IsServerSd(e)' = on /\ Sk(cur)'.up /\ Sk(cur).up
    BY <1>1, <1>3 DEF IsServerSd, SockAlike, Sk
<1>5. h = IF msg[m].part /\ ~msg[m].noreply THEN <<m>> ELSE <<>>
    BY <1>1 DEF HalfSent
<1>6. /\ Agree(InFlight(cur), o \o h, on) /\ m \in Id /\ m \in Msg
      /\ o \in Seq(Id) /\ h \in Seq(Id) /\ o \o h \in Seq(Id)
      /\ Replies(e) \in Seq(Id) /\ sock[e].wire \in Seq(Id) /\ InFlight(cur) \in Seq(Id)
      /\ InFlight(cur) = Replies(e) \o sock[e].wire
      /\ \A n \in ToSet(i) : msg[n].part => n = m
    BY <1>1, <1>2, PairTypes DEF Pairing, Synced, Id, InFlight, Sk
<1>7. InFlight(cur)' = IF on /\ new THEN Append(InFlight(cur), m) ELSE InFlight(cur)
  <2>1. Replies(e)' = Replies(e) /\ InFlight(cur)' = Replies(e) \o sock'[e].wire
      BY <1>1, <1>3 DEF Replies, InFlight, Sk
  <2> DEFINE r == Replies(e)
             w == sock[e].wire
  <2>2. r \in Seq(Id) /\ w \in Seq(Id) /\ InFlight(cur) = r \o w
      BY <1>6
  <2> HIDE DEF r, w
  <2>3. r \o Append(w, m) = Append(r \o w, m)
      BY <1>6, <2>2, JoinFacts
  <2> QED BY <1>3, <2>1, <2>2, <2>3 DEF r, w
<1>8. /\ conn'[cur].omsg_q \o HalfSent(cur)' = IF new THEN Append(o \o h, m) ELSE o \o h
      /\ \A n \in ToSet(conn'[cur].imsg_q) : msg'[n].part => n = Head(conn'[cur].imsg_q)
  <2>1. ASSUME Halving(m)
        PROVE  /\ conn'[cur].omsg_q \o HalfSent(cur)' = IF new THEN Append(o \o h, m) ELSE o \o h
               /\ \A n \in ToSet(conn'[cur].imsg_q) : msg'[n].part => n = Head(conn'[cur].imsg_q)
    <3>1. /\ conn'[cur].imsg_q = i /\ conn'[cur].omsg_q = o
          /\ msg'[m].part /\ msg'[m].noreply = msg[m].noreply
        BY <1>1, <2>1 DEF Halving, Kept, MsgRec
    <3>2. HalfSent(cur)' = IF ~msg[m].noreply THEN <<m>> ELSE <<>>
        BY <1>1, <3>1 DEF HalfSent
    <3>3. \A n \in ToSet(i) : msg'[n].part => n = Head(i)
      <4>1. \A n \in ToSet(i) : n \in Msg
          BY <1>1 DEF ToSet
      <4> QED BY <1>1, <1>6, <4>1
    <3>4. CASE new
      <4>1. HalfSent(cur)' = <<m>> /\ h = <<>>
          BY <1>5, <3>2, <3>4
      <4> HIDE DEF o, h
      <4>2. o \o <<>> = o /\ o \o <<m>> = Append(o, m)
          BY <1>6, AppendIsConcat, ConcatEmptySeq
      <4> QED BY <3>1, <3>3, <3>4, <4>1, <4>2
    <3>5. CASE ~new
      <4>1. HalfSent(cur)' = h
          BY <1>5, <3>2, <3>5
      <4> QED BY <3>1, <3>3, <3>5, <4>1
    <3> QED BY <3>4, <3>5
  <2>2. ASSUME Sending(m)
        PROVE  /\ conn'[cur].omsg_q \o HalfSent(cur)' = IF new THEN Append(o \o h, m) ELSE o \o h
               /\ \A n \in ToSet(conn'[cur].imsg_q) : msg'[n].part => n = Head(conn'[cur].imsg_q)
    <3> DEFINE t == Tail(i)
    <3>1. /\ conn'[cur].imsg_q = t
          /\ conn'[cur].omsg_q = IF msg[m].noreply THEN o ELSE Append(o, m)
        BY <2>2 DEF Sending, Requeued
    <3>2. \A n \in ToSet(t) : n \in Msg \ {m} /\ n \in ToSet(i)
      <4>1. ToSet(i) \subseteq Msg
          BY <1>1 DEF ToSet
      <4>2. i \in Seq(Msg) /\ i # <<>> /\ IsInjective(i) /\ m = Head(i)
          BY <1>1
      <4> HIDE DEF i
      <4>3. ToSet(Tail(i)) = ToSet(i) \ {m}
          BY <4>2, TailFacts
      <4> QED BY <4>1, <4>3
    <3>3. \A n \in ToSet(t) : ~msg'[n].part
        BY <1>1, <1>6, <3>2
    <3>4. HalfSent(cur)' = <<>>
      <4>1. CASE t = <<>>
          BY <1>1, <3>1, <4>1 DEF HalfSent
      <4>2. CASE t # <<>>
        <5>1. t \in Seq(Msg)
            BY <1>1, HeadTailProperties
        <5>2. Head(t) \in ToSet(t)
            BY <4>2, <5>1, HeadIn
        <5>3. ~msg'[Head(t)].part
            BY <3>3, <5>2
        <5> HIDE DEF t
        <5> QED BY <1>1, <3>1, <4>2, <5>3 DEF HalfSent
      <4> QED BY <4>1, <4>2
    <3>5. CASE msg[m].noreply
        BY <1>5, <3>1, <3>3, <3>4, <3>5
    <3>6. CASE ~msg[m].noreply /\ msg[m].part
      <4> HIDE DEF o
      <4>1. /\ Append(o, m) \in Seq(Id) /\ Append(o, m) \o <<>> = Append(o, m)
            /\ o \o <<m>> = Append(o, m)
          BY <1>6, AppendProperties, AppendIsConcat, ConcatEmptySeq
      <4>2. h = <<m>> /\ ~new
          BY <1>5, <3>6
      <4> QED BY <3>1, <3>3, <3>4, <3>6, <4>1, <4>2
    <3>7. CASE ~msg[m].noreply /\ ~msg[m].part
      <4> HIDE DEF o
      <4>1. /\ Append(o, m) \in Seq(Id) /\ Append(o, m) \o <<>> = Append(o, m)
            /\ o \o <<>> = o
          BY <1>6, AppendProperties, ConcatEmptySeq
      <4>2. h = <<>> /\ new
          BY <1>5, <3>7
      <4> QED BY <3>1, <3>3, <3>4, <3>7, <4>1, <4>2
    <3> QED BY <3>5, <3>6, <3>7
  <2> QED BY <2>1, <2>2
<1>9. Agree(InFlight(cur)', conn'[cur].omsg_q \o HalfSent(cur)', IsServerSd(e)')
  <2> DEFINE a == InFlight(cur)
             b == o \o h
  <2>1. a \in Seq(Id) /\ b \in Seq(Id) /\ on \in BOOLEAN /\ Agree(a, b, on)
      BY <1>6 DEF IsServerSd
  <2>2. InFlight(cur)' = IF on /\ new THEN Append(a, m) ELSE a
      BY <1>7
  <2>3. conn'[cur].omsg_q \o HalfSent(cur)' = IF new THEN Append(b, m) ELSE b
      BY <1>8
  <2>4. IsServerSd(e)' = on
      BY <1>4
  <2>5. Agree(IF on THEN Append(a, m) ELSE a, Append(b, m), on)
    <3> HIDE DEF a, b, on
    <3> QED BY <1>6, <2>1, AgreeWritten
  <2> HIDE DEF a, b, on, new
  <2>6. CASE new
    <3>1. InFlight(cur)' = IF on THEN Append(a, m) ELSE a
        BY <2>2, <2>6
    <3>2. conn'[cur].omsg_q \o HalfSent(cur)' = Append(b, m)
        BY <2>3, <2>6
    <3> QED BY <2>4, <2>5, <3>1, <3>2, Zenon
  <2>7. CASE ~new
    <3>1. InFlight(cur)' = a
        BY <2>2, <2>7
    <3>2. conn'[cur].omsg_q \o HalfSent(cur)' = b
        BY <2>3, <2>7
    <3> QED BY <2>1, <2>4, <3>1, <3>2, Zenon
  <2> QED BY <2>6, <2>7
<1>10. e' = e /\ conn'[cur'] = conn'[cur]
    BY <1>1
<1> QED BY <1>4, <1>8, <1>9, <1>10 DEF Synced

-----------------------------------------------------------------------------
(* A request that joins in_q is the last.                                  *)
LEMMA SyncedEnqueued ==
    ASSUME Proper, Pairing, NEW m \in Msg, NEW c \in Conn, Enqueuing(m, c)
    PROVE  Synced(c)'
<1> DEFINE i == conn[c].imsg_q
           a == Append(i, m)
<1>1. /\ c \in Servers /\ m = cmsg /\ pc = "enqueue" /\ SocksSame
      /\ conn'[c].client = conn[c].client /\ conn'[c].owner = conn[c].owner
      /\ conn'[c].sd = conn[c].sd /\ conn'[c].imsg_q = a
      /\ conn'[c].omsg_q = conn[c].omsg_q
      /\ conn'[c].done = conn[c].done /\ conn'[c].err = conn[c].err
      /\ \A n \in Msg \ {m} : msg'[n] = msg[n]
      /\ msg'[m].part = msg[m].part /\ msg'[m].noreply = msg[m].noreply
      /\ i \in Seq(Msg)
    BY ProperParts, QueueTypes DEF Enqueuing, Requeued, FlagsKept
<1>2. ~msg[m].part /\ m \notin Queued(c)
    BY <1>1, ProperParts DEF Pairing, Whole, Forwarding, Forwarded
<1>3. \A n \in Msg : msg'[n].part = msg[n].part /\ msg'[n].noreply = msg[n].noreply
    BY <1>1
<1>4. Synced(c)
    BY DEF Pairing
<1>5. a \in Seq(Msg) /\ ToSet(a) = ToSet(i) \cup {m} /\ a # <<>>
      /\ (i # <<>> => Head(a) = Head(i)) /\ (i = <<>> => Head(a) = m)
      /\ ToSet(i) \subseteq Msg /\ (i # <<>> => Head(i) \in Msg)
  <2> HIDE DEF i
  <2>1. /\ a \in Seq(Msg) /\ Len(a) = Len(i) + 1 /\ Len(i) \in Nat
        /\ a[Len(i) + 1] = m /\ \A j \in 1..Len(i) : a[j] = i[j]
        /\ DOMAIN i = 1..Len(i) /\ DOMAIN a = 1..(Len(i) + 1)
        /\ i = <<>> <=> Len(i) = 0
      BY <1>1, AppendProperties, LenProperties, EmptySeq
  <2>2. a # <<>>
      BY <2>1, EmptySeq
  <2>3. Head(a) = a[1] /\ (i # <<>> => Head(i) = i[1] /\ Head(i) \in Msg)
      BY <1>1, <2>1, <2>2, HeadTailProperties
  <2> HIDE DEF a
  <2>4. i # <<>> => 1 \in 1..Len(i)
      BY <2>1
  <2>5. ToSet(a) = ToSet(i) \cup {m}
    <3>1. \A j \in 1..(Len(i) + 1) : j \in 1..Len(i) \/ j = Len(i) + 1
        BY <2>1
    <3>2. \A j \in 1..Len(i) : j \in 1..(Len(i) + 1)
        BY <2>1
    <3>3. Len(i) + 1 \in 1..(Len(i) + 1)
        BY <2>1
    <3> QED BY <2>1, <3>1, <3>2, <3>3 DEF ToSet
  <2>6. ToSet(i) \subseteq Msg
      BY <1>1, <2>1 DEF ToSet
  <2> QED BY <2>1, <2>2, <2>3, <2>4, <2>5, <2>6
<1>6. HalfSent(c)' = HalfSent(c)
  <2>1. CASE i = <<>>
    <3>1. Head(a) = m /\ ~msg'[m].part /\ a # <<>>
        BY <1>2, <1>3, <1>5, <2>1
    <3>2. HalfSent(c) = <<>>
        BY <2>1 DEF HalfSent
    <3> HIDE DEF a
    <3>3. HalfSent(c)' = <<>>
        BY <1>1, <3>1 DEF HalfSent
    <3> QED BY <3>2, <3>3
  <2>2. CASE i # <<>>
    <3>1. Head(a) = Head(i) /\ a # <<>> /\ Head(i) \in Msg
        BY <1>5, <2>2
    <3> HIDE DEF a
    <3>2. HalfSent(c)' = IF msg'[Head(i)].part /\ ~msg'[Head(i)].noreply THEN <<Head(i)>> ELSE <<>>
        BY <1>1, <3>1 DEF HalfSent
    <3> QED BY <1>3, <2>2, <3>1, <3>2 DEF HalfSent
  <2> QED BY <2>1, <2>2
<1>7. \A n \in ToSet(a) : msg'[n].part => n = Head(a)
  <2>1. \A n \in ToSet(i) : msg[n].part => n = Head(i)
      BY <1>1, <1>4 DEF Synced
  <2>2. i = <<>> => ToSet(i) = {}
      BY DEF ToSet
  <2> HIDE DEF a, i
  <2> QED BY <1>2, <1>3, <1>5, <2>1, <2>2
<1>8. ASSUME conn[c].sd # None
      PROVE  /\ InFlight(c)' = InFlight(c) /\ IsServerSd(conn[c].sd)' = IsServerSd(conn[c].sd)
             /\ Sk(c)'.up = Sk(c).up
  <2>1. conn[c].sd \in Sd
      BY <1>1, <1>8, ServerSocket
  <2>2. LET d == conn[c].sd IN /\ SockAlike(sock'[d], sock[d])
            /\ sock'[d].inq = sock[d].inq /\ sock'[d].wire = sock[d].wire
      BY <1>1, <2>1 DEF SocksSame
  <2> QED BY <1>1, <2>2 DEF InFlight, Replies, Sk, IsServerSd, SockAlike
<1> HIDE DEF a
<1> QED BY <1>1, <1>4, <1>6, <1>7, <1>8 DEF Synced

(* The server answers what it saw first, or closes.                        *)
LEMMA SyncedReplied ==
    ASSUME Proper, Pairing, NEW d \in Sd, Replying(d), NEW c \in Conn, c \in Servers, conn[c].sd = d
    PROVE  Synced(c)'
<1> DEFINE q == sock[d].inq
           w == sock[d].wire
           b == conn[c].omsg_q \o HalfSent(c)
<1>1. /\ conn' = conn /\ msg' = msg /\ IsServerSd(d) /\ sock'[d].up = sock[d].up
      /\ q \in Seq(Item) /\ w \in Seq(Msg) /\ w \in Seq(Id) /\ d # None
      /\ <<"eof", None>> \notin ToSet(q)
  <2>1. q \in Seq(Item) /\ w \in Seq(Msg)
      BY ProperParts, SockTypes
  <2>2. w \in Seq(Id)
    <3> HIDE DEF w
    <3> QED BY <2>1, MsgsAreIds
  <2>3. d # None
      BY DEF Sd, None
  <2> QED BY <2>1, <2>2, <2>3 DEF Replying, SockSteps, LoopStill, IsServerSd
<1>2. Servers' = Servers /\ HalfSent(c)' = HalfSent(c) /\ b' = b /\ Sk(c)'.up = Sk(c).up
    BY <1>1 DEF Servers, Attached, HalfSent, Sk
<1>3. Synced(c) /\ RepliesOf(q) \in Seq(Id) /\ b \in Seq(Id)
    BY <1>1, RepliesType, PairTypes DEF Pairing
<1>4. InFlight(c) = RepliesOf(q) \o w
    BY RepliesIs DEF InFlight, Sk
<1>5. InFlight(c)' = RepliesOf(sock'[d].inq) \o sock'[d].wire
    BY <1>1 DEF InFlight, Sk, Replies, RepliesOf, Ends
<1>6. CASE w # <<>> /\ sock'[d].wire = Tail(w)
           /\ \E k \in {"rsp", "fail"} : sock'[d].inq = Append(q, <<k, Head(w)>>)
  <2>1. Head(w) \in Msg
      BY <1>1, <1>6, HeadIn
  <2>2. RepliesOf(sock'[d].inq) = Append(RepliesOf(q), Head(w))
    <3>1. PICK k \in {"rsp", "fail"} : sock'[d].inq = Append(q, <<k, Head(w)>>)
        BY <1>6
    <3> DEFINE h == Head(w)
    <3>2. h \in Msg /\ sock'[d].inq = Append(q, <<k, h>>)
        BY <2>1, <3>1
    <3> HIDE DEF h, q
    <3>3. RepliesOf(Append(q, <<k, h>>)) = Append(RepliesOf(q), h)
        BY <1>1, <3>2, RepliesGrow
    <3> QED BY <3>2, <3>3 DEF h
  <2>3. Append(RepliesOf(q), Head(w)) \o Tail(w) = RepliesOf(q) \o w
    <3> DEFINE r == RepliesOf(q)
    <3>1. r \in Seq(Id)
        BY <1>3
    <3> HIDE DEF r, w
    <3>2. Append(r, Head(w)) \o Tail(w) = r \o w
        BY <1>1, <1>6, <3>1, MoveFacts
    <3> QED BY <3>2 DEF r
  <2>4. InFlight(c)' = InFlight(c)
      BY <1>4, <1>5, <1>6, <2>2, <2>3
  <2>5. ~conn[c].done /\ ~conn[c].err => Agree(InFlight(c)', b, IsServerSd(d)')
    <3>1. ~conn[c].done /\ ~conn[c].err => Agree(InFlight(c), b, TRUE)
        BY <1>1, <1>3 DEF Synced
    <3> QED BY <2>4, <3>1 DEF Agree
  <2> QED BY <1>1, <1>2, <1>3, <2>5 DEF Synced
<1>7. CASE sock'[d].wire = <<>> /\ sock'[d].inq = Append(q, <<"eof", None>>)
  <2>1. RepliesOf(sock'[d].inq) = RepliesOf(q)
      BY <1>1, <1>7, RepliesGrow
  <2>2. InFlight(c)' = RepliesOf(q)
      BY <1>3, <1>5, <1>7, <2>1, ConcatEmptySeq
  <2>3. ~IsServerSd(d)'
    <3>1. <<"eof", None>> \in Item
        BY DEF Item
    <3>2. /\ sock'[d].inq[Len(q) + 1] = <<"eof", None>>
          /\ Len(q) + 1 \in DOMAIN sock'[d].inq
      <4> HIDE DEF q
      <4>1. /\ Append(q, <<"eof", None>>) \in Seq(Item)
            /\ Len(Append(q, <<"eof", None>>)) = Len(q) + 1 /\ Len(q) \in Nat
            /\ Append(q, <<"eof", None>>)[Len(q) + 1] = <<"eof", None>>
          BY <1>1, <3>1, AppendProperties, LenProperties
      <4>2. Len(q) + 1 \in DOMAIN Append(q, <<"eof", None>>)
          BY <4>1, LenProperties
      <4> QED BY <1>7, <4>1, <4>2
    <3> QED BY <3>2 DEF IsServerSd, ToSet
  <2>4. ASSUME ~conn[c].done, ~conn[c].err PROVE Agree(InFlight(c)', b, FALSE)
    <3>1. Agree(RepliesOf(q) \o w, b, IsServerSd(d))
        BY <1>1, <1>3, <1>4, <2>4 DEF Synced
    <3> DEFINE r == RepliesOf(q)
    <3>2. r \in Seq(Id)
        BY <1>3
    <3> HIDE DEF r, w, b
    <3>3. Agree(r, b, FALSE)
        BY <1>1, <1>3, <3>1, <3>2, AgreeBroken DEF r
    <3> QED BY <2>2, <3>3 DEF r
  <2>5. ~conn[c].done /\ ~conn[c].err => Agree(InFlight(c)', b, IsServerSd(d)')
      BY <2>3, <2>4 DEF Agree
  <2> QED BY <1>1, <1>2, <1>3, <2>5 DEF Synced
<1> QED BY <1>1, <1>6, <1>7 DEF Replying

-----------------------------------------------------------------------------

(* Nothing agrees with nothing.                                            *)
LEMMA NothingSaid ==
    /\ RepliesOf(<<>>) = <<>> /\ <<>> \o <<>> = <<>>
    /\ \A both : Agree(<<>>, <<>>, both)
<1>1. <<>> \in Seq(Item) /\ <<>> \in Seq(Id)
    OBVIOUS
<1>2. RepliesOf(<<>>) = <<>>
    BY <1>1, RepliesType
<1>3. <<>> \o <<>> = <<>>
    BY <1>1, ConcatEmptySeq
<1>4. IsPrefix(<<>>, <<>>)
    BY <1>1, PrefixSelf
<1> QED BY <1>2, <1>3, <1>4 DEF Agree

(* A connect() ends, or the connection breaks.                             *)
LEMMA SyncedChanged ==
    ASSUME Proper, Pairing, NEW d \in Sd, Changing(d), NEW c \in Conn, c \in Servers, conn[c].sd = d
    PROVE  Synced(c)'
<1> DEFINE b == conn[c].omsg_q \o HalfSent(c)
<1>1. /\ conn' = conn /\ msg' = msg /\ sock'[d].inq = sock[d].inq
      /\ sock'[d].open = sock[d].open /\ sock'[d].server = sock[d].server /\ d # None
      /\ sock[d].inq \in Seq(Item) /\ sock[d].wire \in Seq(Msg) /\ sock[d] \in SockRec
    BY ProperParts, SockTypes DEF Changing, SockSteps, LoopStill, Sd, None
<1>2. Servers' = Servers /\ HalfSent(c)' = HalfSent(c) /\ b' = b
    BY <1>1 DEF Servers, Attached, HalfSent
<1>3. /\ Synced(c) /\ RepliesOf(sock[d].inq) \in Seq(Id) /\ b \in Seq(Id)
      /\ sock[d].wire \in Seq(Id) /\ Silent(d) /\ sock[d].server
    BY <1>1, RepliesType, PairTypes, MsgsAreIds, ServerSocket DEF Pairing
<1>4. InFlight(c) = RepliesOf(sock[d].inq) \o sock[d].wire
    BY RepliesIs DEF InFlight, Sk
<1>5. InFlight(c)' = RepliesOf(sock[d].inq) \o sock'[d].wire
    BY <1>1 DEF InFlight, Sk, Replies, RepliesOf, Ends
<1>6. CASE sock'[d].kerr = sock[d].kerr /\ sock'[d].wire = sock[d].wire
           /\ (sock[d].up => sock'[d].up)
  <2>1. CASE sock[d].up
    <3>1. IsServerSd(d)' = IsServerSd(d)
        BY <1>1, <1>6, <2>1, <1>3 DEF IsServerSd, SockRec
    <3>2. InFlight(c)' = InFlight(c) /\ Sk(c)'.up
        BY <1>1, <1>4, <1>5, <1>6, <2>1 DEF Sk
    <3> QED BY <1>1, <1>2, <1>3, <3>1, <3>2 DEF Synced
  <2>2. CASE ~sock[d].up
    <3>1. sock[d].inq = <<>> /\ sock[d].wire = <<>>
        BY <1>3, <2>2 DEF Silent
    <3>2. InFlight(c)' = <<>>
        BY <1>5, <1>6, <3>1, NothingSaid
    <3>3. conn[c].omsg_q = <<>> /\ HalfSent(c) = <<>>
        BY <1>1, <1>3, <2>2 DEF Synced, Sk
    <3>4. b = <<>>
        BY <3>3, NothingSaid
    <3>5. Agree(<<>>, <<>>, IsServerSd(d)')
        BY NothingSaid
    <3>6. Agree(InFlight(c)', b', IsServerSd(d)')
        BY <1>2, <3>2, <3>4, <3>5
    <3> QED BY <1>1, <1>2, <1>3, <3>3, <3>6 DEF Synced
  <2> QED BY <2>1, <2>2
<1>7. CASE sock'[d].kerr /\ sock'[d].wire = <<>> /\ sock'[d].up = sock[d].up
  <2>1. InFlight(c)' = RepliesOf(sock[d].inq) /\ ~IsServerSd(d)' /\ Sk(c)'.up = Sk(c).up
      BY <1>1, <1>3, <1>5, <1>7, ConcatEmptySeq DEF IsServerSd, Sk
  <2>2. ASSUME ~conn[c].done, ~conn[c].err PROVE Agree(InFlight(c)', b, FALSE)
    <3>1. Agree(RepliesOf(sock[d].inq) \o sock[d].wire, b, IsServerSd(d))
        BY <1>1, <1>3, <1>4, <2>2 DEF Synced
    <3> DEFINE r == RepliesOf(sock[d].inq)
               w == sock[d].wire
    <3>2. r \in Seq(Id) /\ w \in Seq(Id)
        BY <1>3
    <3> HIDE DEF r, w, b
    <3>3. Agree(r, b, FALSE)
        BY <1>3, <3>1, <3>2, AgreeBroken DEF r, w
    <3> QED BY <2>1, <3>3 DEF r
  <2>3. ~conn[c].done /\ ~conn[c].err => Agree(InFlight(c)', b, IsServerSd(d)')
      BY <2>1, <2>2 DEF Agree
  <2> QED BY <1>1, <1>2, <1>3, <2>1, <2>3 DEF Synced
<1> QED BY <1>6, <1>7 DEF Changing

(* A new connection.                                                       *)
LEMMA SyncedOpened ==
    ASSUME Proper, NEW c \in Conn, NEW d \in Sd \cup {None}, Opening(c, d)
    PROVE  Synced(c)'
<1>1. conn'[c].imsg_q = <<>> /\ conn'[c].omsg_q = <<>> /\ conn'[c].sd = d
    BY DEF Opening
<1>2. HalfSent(c)' = <<>> /\ ToSet(<<>>) = {}
    BY <1>1 DEF HalfSent, ToSet
<1>3. <<>> \o <<>> = <<>> /\ <<>> \in Seq(Id)
    BY NothingSaid
<1>4. ASSUME d # None PROVE InFlight(c)' = <<>>
  <2>1. sock'[d].inq = <<>> /\ sock'[d].wire = <<>>
      BY <1>4 DEF Opening
  <2>2. Replies(d)' = RepliesOf(<<>>)
      BY <2>1 DEF Replies, RepliesOf, Ends
  <2>3. RepliesOf(<<>>) = <<>>
      BY NothingSaid
  <2> QED BY <1>1, <1>3, <2>1, <2>2, <2>3 DEF InFlight, Sk
<1>5. Agree(<<>>, <<>>, IsServerSd(d)')
    BY NothingSaid
<1>6. conn'[c].omsg_q \o HalfSent(c)' = <<>>
    BY <1>1, <1>2, <1>3
<1> QED BY <1>1, <1>2, <1>4, <1>5, <1>6 DEF Synced

(* What closing does to what the pairing knows of a request.               *)
LEMMA ClosingPairs ==
    ASSUME IInv, NEW c \in Conn, Closing(c), NEW m \in Msg
    PROVE  /\ ~msg[m].done => msg'[m].part = msg[m].part /\ msg'[m].noreply = msg[m].noreply
           /\ msg'[m].st # "live" \/ ~msg'[m].done \/
              (/\ msg'[m].peer = msg[m].peer /\ msg'[m].done = msg[m].done
               /\ msg'[m].st = msg[m].st /\ msg'[m].error = msg[m].error)
<1>1. PICK mg \in [Msg -> MsgRec] :
         /\ Closes(c, mg)
         /\ \/ mg = msg
            \/ \E n \in Msg : msg[n].tmo = c /\ mg = [msg EXCEPT ![n] = msg_tmo_delete(@)]
    BY DEF Closing
<1>2. msg \in [Msg -> MsgRec]
    BY DEF IInv, TypeOK
<1>3. /\ mg[m].st = msg[m].st /\ mg[m].part = msg[m].part
      /\ mg[m].done = msg[m].done /\ mg[m].error = msg[m].error
      /\ mg[m].noreply = msg[m].noreply /\ mg[m].peer = msg[m].peer
  <2>1. CASE mg = msg
      BY <2>1
  <2>2. ASSUME NEW n \in Msg, mg = [msg EXCEPT ![n] = msg_tmo_delete(@)]
        PROVE  /\ mg[m].st = msg[m].st /\ mg[m].part = msg[m].part
               /\ mg[m].done = msg[m].done /\ mg[m].error = msg[m].error
               /\ mg[m].noreply = msg[m].noreply /\ mg[m].peer = msg[m].peer
    <3> DEFINE y == msg_tmo_delete(msg[n])
    <3>1. mg = [msg EXCEPT ![n] = y]
        BY <1>2, <2>2
    <3>2. /\ y.st = msg[n].st /\ y.part = msg[n].part
          /\ y.done = msg[n].done /\ y.error = msg[n].error
          /\ y.noreply = msg[n].noreply /\ y.peer = msg[n].peer
        BY <1>2, PutFacts
    <3> HIDE DEF y
    <3>3. CASE m = n
        BY <1>2, <3>1, <3>2, <3>3
    <3>4. CASE m # n
        BY <1>2, <3>1, <3>4
    <3> QED BY <3>3, <3>4
  <2> QED BY <1>1, <2>1, <2>2
<1>4. mg[m] \in MsgRec
    OBVIOUS
<1>5. CASE conn[c].client /\ m \in ToSet(conn[c].omsg_q)
  <2>1. msg'[m] = Abandoned(mg[m])
      BY <1>1, <1>5 DEF Closes
  <2>2. mg[m].done => msg'[m].st = "freed"
    <3> DEFINE y == req_put(mg[m])
    <3>1. y.st = "freed" /\ (mg[m].done => Abandoned(mg[m]) = y)
        BY <1>4, PutFacts
    <3> HIDE DEF y
    <3> QED BY <2>1, <3>1
  <2>3. ~mg[m].done => /\ msg'[m].part = mg[m].part /\ ~msg'[m].done
                       /\ msg'[m].noreply = mg[m].noreply
      BY <1>4, <2>1, PutFacts
  <2> QED BY <1>3, <2>2, <2>3
<1>6. CASE ~(conn[c].client /\ m \in ToSet(conn[c].omsg_q))
  <2>1. msg'[m] = mg[m]
      BY <1>1, <1>6 DEF Closes
  <2> QED BY <1>3, <2>1
<1> QED BY <1>5, <1>6

-----------------------------------------------------------------------------
(* Steps that leave every server connection's queues alone.                *)
LEMMA SyncedApart ==
    ASSUME Proper, Pairing, NEW c \in Conn,
           (c \in Servers)' =>
             /\ c \in Servers /\ conn'[c].sd = conn[c].sd
             /\ conn'[c].imsg_q = conn[c].imsg_q /\ conn'[c].omsg_q = conn[c].omsg_q
             /\ conn'[c].done = conn[c].done /\ conn'[c].err = conn[c].err
             /\ conn[c].sd # None => /\ SockKeeps(conn[c].sd)
                                     /\ sock'[conn[c].sd].inq = sock[conn[c].sd].inq,
           \/ msg' = msg
           \/ \E m \in Msg :
                /\ \A n \in Msg \ {m} : msg'[n] = msg[n]
                /\ \A k \in Servers : m \notin ToSet(conn[k].imsg_q)
    PROVE  Synced(c)'
<1> SUFFICES ASSUME (c \in Servers)' PROVE Synced(c)'
    BY DEF Synced
<1>1. Synced(c) /\ c \in Servers
    BY DEF Pairing
<1>2. \A m \in ToSet(conn[c].imsg_q) : /\ msg'[m].part = msg[m].part
                                       /\ msg'[m].noreply = msg[m].noreply
  <2>1. ToSet(conn[c].imsg_q) \subseteq Msg
      BY ProperParts, QueueTypes
  <2> QED BY <1>1, <2>1
<1> QED BY <1>1, <1>2, SyncedKept

(* Reading, flagging, closing and deleting timers keep every other         *)
(* connection in agreement; a connection that ends is excepted.            *)
LEMMA SyncedIdle ==
    ASSUME Proper, Pairing, NEW c \in Conn,
           \/ Idle \/ (\E k \in Conn : Closing(k)) \/ (\E m \in Msg : Settling(m))
    PROVE  Synced(c)'
<1>1. Synced(c) /\ (c \in Servers => \A m \in ToSet(conn[c].imsg_q) : m \in Msg /\ ~msg[m].done)
    BY QueuedApart DEF Pairing
<1>2. c \in Servers /\ conn[c].sd # None => conn[c].sd \in Sd
    BY ServerSocket
<1>3. CASE Idle
  <2>1. (c \in Servers)' => c \in Servers
      BY <1>3 DEF Idle, Kept, Servers, Attached
  <2>2. \A d \in Sd : SockKeeps(d)
      BY <1>3 DEF Idle, SockKept, SockKeeps
  <2>3. c \in Servers /\ ~conn'[c].done /\ ~conn'[c].err
            => /\ ~conn[c].done /\ ~conn[c].err
               /\ conn[c].sd # None => sock'[conn[c].sd].inq = sock[conn[c].sd].inq
      BY <1>3 DEF Idle, Servers
  <2>4. msg' = msg /\ Kept(c)
      BY <1>3 DEF Idle
  <2> QED BY <1>1, <1>2, <2>1, <2>2, <2>3, <2>4, SyncedKept DEF Kept
<1>4. ASSUME NEW k \in Conn, Closing(k) PROVE Synced(c)'
  <2>1. (c \in Servers)' => c # k /\ c \in Servers /\ conn'[c] = conn[c]
      BY <1>4 DEF Closing, Closes, Servers, Attached
  <2>2. ASSUME NEW d \in Sd, c \in Servers, c # k, conn[c].sd = d
        PROVE  SockKeeps(d) /\ sock'[d].inq = sock[d].inq
    <3>1. d # conn[k].sd
      <4>1. Attached(k)
          BY <1>4 DEF Closing, Closes
      <4>2. d # None
          BY DEF Sd, None
      <4> QED BY <2>2, <4>1, <4>2, ServerSocket
    <3>2. sock'[d] = sock[d]
        BY <1>4, <3>1 DEF Closing, Closes
    <3> QED BY <3>2 DEF SockKeeps
  <2>3. c \in Servers => \A m \in ToSet(conn[c].imsg_q) :
             msg'[m].part = msg[m].part /\ msg'[m].noreply = msg[m].noreply
      BY <1>1, <1>4, ClosingPairs, ProperParts
  <2> QED BY <1>1, <1>2, <2>1, <2>2, <2>3, SyncedKept
<1>5. ASSUME NEW m \in Msg, Settling(m) PROVE Synced(c)'
  <2>1. /\ conn' = conn /\ sock' = sock /\ msg' = [msg EXCEPT ![m] = msg_tmo_delete(@)]
        /\ Servers' = Servers
      BY <1>5 DEF Settling, Servers, Attached
  <2>2. \A n \in Msg : msg'[n].part = msg[n].part /\ msg'[n].noreply = msg[n].noreply
    <3> DEFINE y == msg_tmo_delete(msg[m])
    <3>1. msg' = [msg EXCEPT ![m] = y] /\ msg \in [Msg -> MsgRec]
        BY <2>1, ProperParts
    <3>2. y.part = msg[m].part /\ y.noreply = msg[m].noreply
        BY <3>1, PutFacts
    <3> HIDE DEF y
    <3> QED BY <3>1, <3>2
  <2> QED BY <1>1, <2>1, <2>2, SyncedKept DEF SockKeeps
<1> QED BY <1>3, <1>4, <1>5

(* Steps that serve another connection, k.                                 *)
LEMMA SyncedOther ==
    ASSUME Proper, Pairing, NEW c \in Conn, NEW k \in Conn, c # k,
           NEW m \in Msg, \A n \in Msg \ {m} : msg'[n] = msg[n],
           \A x \in Servers \ {k} : m \notin ToSet(conn[x].imsg_q),
           Kept(c), FlagsKept, Attached(k),
           \A d \in Sd : d # conn[k].sd =>
               /\ SockAlike(sock'[d], sock[d])
               /\ sock'[d].inq = sock[d].inq /\ sock'[d].wire = sock[d].wire
    PROVE  Synced(c)'
<1> SUFFICES ASSUME (c \in Servers)' PROVE Synced(c)'
    BY DEF Synced
<1>1. c \in Servers /\ Synced(c)
    BY DEF Servers, Attached, Kept, Pairing
<1>2. conn[c].sd # None => /\ SockKeeps(conn[c].sd)
                           /\ sock'[conn[c].sd].inq = sock[conn[c].sd].inq
  <2> SUFFICES ASSUME conn[c].sd # None
               PROVE  /\ SockKeeps(conn[c].sd)
                      /\ sock'[conn[c].sd].inq = sock[conn[c].sd].inq
      OBVIOUS
  <2>1. conn[c].sd \in Sd /\ conn[c].sd # conn[k].sd
      BY <1>1, ServerSocket
  <2> QED BY <2>1 DEF SockKeeps, SockAlike
<1>3. \A n \in ToSet(conn[c].imsg_q) : /\ msg'[n].part = msg[n].part
                                       /\ msg'[n].noreply = msg[n].noreply
  <2>1. ToSet(conn[c].imsg_q) \subseteq Msg
      BY ProperParts, QueueTypes
  <2> QED BY <1>1, <2>1
<1> QED BY <1>1, <1>2, <1>3, SyncedKept DEF Kept, FlagsKept

-----------------------------------------------------------------------------

(* Every step keeps every server connection in agreement with its server.  *)
LEMMA SyncedStep ==
    ASSUME Proper, Pairing, NEW c \in Conn, LoopDoes \/ PeersDo
    PROVE  Synced(c)'
<1>1. CASE Idle \/ (\E k \in Conn : Closing(k)) \/ (\E m \in Msg : Settling(m))
    BY <1>1, SyncedIdle
<1>2. \A k \in Clients : k \in Conn /\ k \notin Servers /\ Attached(k)
    BY DEF Clients, Servers
<1>3. ASSUME NEW d, d = nsd + 1, d \in Sd
      PROVE  \A k \in Conn : Attached(k) => conn[k].sd # d
  <2>1. nsd \in Nat
      BY ProperParts DEF IInv, TypeOK
  <2>2. \A k \in Conn : Attached(k) /\ conn[k].sd # None => conn[k].sd <= nsd
      BY ProperParts DEF Sockets
  <2>3. ~(d <= nsd) /\ d # None
      BY <1>3, <2>1 DEF Sd, None
  <2> QED BY <2>2, <2>3
<1>4. c \in Servers => Attached(c) /\ (conn[c].sd # None => conn[c].sd \in Sd)
    BY ServerSocket DEF Servers
<1>5. ASSUME NEW k \in Conn, NEW d \in Sd, Admitting(k, d) PROVE Synced(c)'
  <2>1. (c \in Servers)' => c # k /\ c \in Servers /\ conn'[c] = conn[c]
      BY <1>5 DEF Admitting, Servers, Attached
  <2>2. c \in Servers => conn[c].sd # d
      BY <1>3, <1>4, <1>5 DEF Admitting
  <2>3. msg' = msg /\ \A e \in Sd \ {d} : sock'[e] = sock[e]
      BY <1>5 DEF Admitting
  <2> QED BY <1>4, <2>1, <2>2, <2>3, SyncedApart DEF SockKeeps
<1>6. ASSUME NEW m \in Msg, Taking(m) PROVE Synced(c)'
  <2>1. /\ conn' = conn /\ cur \in Clients /\ \A n \in Msg \ {m} : msg'[n] = msg[n]
        /\ \A d \in Sd : d # conn[cur].sd =>
               /\ SockAlike(sock'[d], sock[d])
               /\ sock'[d].inq = sock[d].inq /\ sock'[d].wire = sock[d].wire
      BY <1>6 DEF Taking, SocksRead
  <2>2. CASE c = cur
    <3>1. ~(c \in Servers)'
        BY <1>2, <2>1, <2>2 DEF Servers, Attached, Clients
    <3> QED BY <3>1 DEF Synced
  <2>3. CASE c # cur
    <3>1. \A x \in Servers : m \notin ToSet(conn[x].imsg_q)
        BY <1>6, ReadUnread, NotQueued DEF Queued
    <3>2. Kept(c) /\ FlagsKept
        BY <2>1 DEF Kept, FlagsKept
    <3> QED BY <1>2, <2>1, <2>3, <3>1, <3>2, SyncedOther
  <2> QED BY <2>2, <2>3
<1>7. ASSUME NEW p \in Msg, Responding(p) PROVE Synced(c)'
  <2>1. CASE c = cur
    <3>1. cur' = cur
        BY <1>7 DEF Responding
    <3>2. Synced(cur)'
        BY <1>7, HeadAnswered
    <3> QED BY <2>1, <3>1, <3>2 DEF Synced
  <2>2. CASE c # cur
    <3>1. /\ cur \in Conn /\ Attached(cur) /\ cur \in Servers /\ FlagsKept /\ Kept(c)
          /\ \A n \in Msg \ {p} : msg'[n] = msg[n]
          /\ conn[cur].omsg_q # <<>> /\ p = Head(conn[cur].omsg_q)
          /\ \A d \in Sd : d # conn[cur].sd =>
               /\ SockAlike(sock'[d], sock[d])
               /\ sock'[d].inq = sock[d].inq /\ sock'[d].wire = sock[d].wire
        BY <1>7, <2>2 DEF Responding, Requeued, Servers, SocksRead
    <3>2. p \in Queued(cur)
      <4>1. conn[cur].omsg_q \in Seq(Msg)
          BY <3>1, ProperParts, QueueTypes
      <4> QED BY <3>1, <4>1, HeadIn DEF Queued
    <3>3. \A x \in Servers \ {cur} : p \notin ToSet(conn[x].imsg_q)
        BY <3>1, <3>2, ProperParts DEF QueuesApart, Queued
    <3> QED BY <2>2, <3>1, <3>3, SyncedOther
  <2> QED BY <2>1, <2>2
<1>8. ASSUME NEW k \in Conn, NEW d \in Sd \cup {None}, ReservingNew(k, d) PROVE Synced(c)'
  <2>1. CASE c = k
      BY <1>8, <2>1, SyncedOpened DEF ReservingNew
  <2>2. CASE c # k
    <3>1. (c \in Servers)' => c \in Servers /\ conn'[c] = conn[c]
        BY <1>8, <2>2 DEF ReservingNew, Reserving, Servers, Attached, Clients
    <3>2. msg' = msg
        BY <1>8 DEF ReservingNew, Reserving
    <3>3. c \in Servers /\ conn[c].sd # None => sock'[conn[c].sd] = sock[conn[c].sd]
        BY <1>3, <1>4, <1>8 DEF ReservingNew, Opening
    <3> QED BY <3>1, <3>2, <3>3, SyncedApart DEF SockKeeps
  <2> QED BY <2>1, <2>2
<1>9. CASE ReservingOld
  <2>1. (c \in Servers)' => c \in Servers /\ conn'[c] = conn[c]
      BY <1>9 DEF ReservingOld, ReservingLru, Reserving, Servers, Attached, Clients
  <2>2. msg' = msg /\ sock' = sock
      BY <1>9 DEF ReservingOld, ReservingLru, Reserving
  <2> QED BY <2>1, <2>2, SyncedApart DEF SockKeeps
<1>10. CASE Refusing(scur)
  <2>1. (c \in Servers)' => c \in Servers /\ conn'[c] = conn[c]
      BY <1>10 DEF Refusing, Servers, Attached
  <2>2. msg' = msg /\ sock' = sock
      BY <1>10 DEF Refusing
  <2> QED BY <2>1, <2>2, SyncedApart DEF SockKeeps
<1>11. CASE Erring(cmsg)
  <2>1. /\ Kept(c) /\ FlagsKept /\ SocksSame /\ cmsg \in Msg
        /\ \A n \in Msg \ {cmsg} : msg'[n] = msg[n]
      BY <1>11 DEF Erring
  <2>2. \A x \in Servers : cmsg \notin ToSet(conn[x].imsg_q)
      BY <1>11, ProperParts DEF Erring, Forwarded, Forwarding, Queued
  <2>3. (c \in Servers)' => c \in Servers
      BY <2>1 DEF Kept, Servers, Attached
  <2> QED BY <1>4, <2>1, <2>2, <2>3, SyncedApart DEF SockKeeps, SocksSame, SockAlike, Kept, FlagsKept
<1>12. CASE Enqueuing(cmsg, scur)
  <2>1. /\ scur \in Conn /\ scur \in Servers /\ Attached(scur) /\ FlagsKept /\ SocksSame
        /\ cmsg \in Msg /\ \A n \in Msg \ {cmsg} : msg'[n] = msg[n]
        /\ \A k \in Conn \ {scur} : Kept(k)
      BY <1>12 DEF Enqueuing, Servers, Requeued
  <2>2. \A x \in Servers : cmsg \notin ToSet(conn[x].imsg_q)
      BY <1>12, ProperParts DEF Enqueuing, Forwarded, Forwarding, Queued
  <2>3. CASE c = scur
    <3> DEFINE s == scur
    <3>1. s \in Conn /\ Enqueuing(cmsg, s) /\ c = s
        BY <1>12, <2>1, <2>3
    <3> QED BY <1>12, <2>1, <2>3, SyncedEnqueued
  <2>4. CASE c # scur
      BY <2>1, <2>2, <2>4, SyncedOther DEF SocksSame
  <2> QED BY <2>3, <2>4
<1>13. ASSUME NEW p \in Msg, Answering(p) PROVE Synced(c)'
  <2>1. /\ (c \in Servers)' => c \in Servers /\ conn'[c] = conn[c]
        /\ cur \in Clients /\ cur \in Conn /\ conn[cur].omsg_q # <<>> /\ p = Head(conn[cur].omsg_q)
        /\ msg[p].done /\ sock' = sock
        /\ \A n \in Msg \ {p} : msg'[n] = msg[n]
      BY <1>13 DEF Answering, Requeued, Clients, Servers, Attached
  <2>2. \A x \in Servers : p \notin ToSet(conn[x].imsg_q)
      BY <2>1, QueuedApart DEF Servers
  <2> QED BY <2>1, <2>2, SyncedApart DEF SockKeeps
<1>14. ASSUME NEW m \in Msg, Sending(m) \/ Halving(m) PROVE Synced(c)'
  <2>1. Writes(m) /\ FlagsKept /\ cur' = cur /\ cur \in Servers /\ cur \in Conn /\ Attached(cur)
        /\ conn[cur].imsg_q # <<>> /\ m = Head(conn[cur].imsg_q)
        /\ \A n \in Msg \ {m} : msg'[n] = msg[n]
      BY <1>14 DEF Sending, Halving, Writes, Servers
  <2>2. CASE c = cur
    <3>1. Synced(cur)'
        BY <1>14, SyncedWritten
    <3> QED BY <2>1, <2>2, <3>1 DEF Synced
  <2>3. CASE c # cur
    <3>1. Kept(c)
        BY <1>14, <2>3 DEF Sending, Halving, Requeued
    <3>2. m \in Queued(cur)
      <4>1. conn[cur].imsg_q \in Seq(Msg)
          BY <2>1, ProperParts, QueueTypes
      <4> QED BY <2>1, <4>1, HeadIn DEF Queued
    <3>3. \A x \in Servers \ {cur} : m \notin ToSet(conn[x].imsg_q)
        BY <2>1, <3>2, ProperParts DEF QueuesApart, Queued
    <3>4. \A d \in Sd : d # conn[cur].sd =>
               /\ SockAlike(sock'[d], sock[d])
               /\ sock'[d].inq = sock[d].inq /\ sock'[d].wire = sock[d].wire
        BY <2>1 DEF Writes, Wired
    <3> QED BY <2>1, <2>3, <3>1, <3>3, <3>4, SyncedOther
  <2> QED BY <2>2, <2>3
<1>15. CASE PeersDo
  <2>1. conn' = conn /\ msg' = msg /\ Servers' = Servers
      BY <1>15 DEF PeersDo, Resting, Asking, Replying, Changing, SockSteps, LoopStill,
                   Servers, Attached
  <2>2. ASSUME c \in Servers /\ conn[c].sd # None => sock'[conn[c].sd] = sock[conn[c].sd]
        PROVE  Synced(c)'
      BY <2>1, <2>2, SyncedApart DEF SockKeeps
  <2>3. CASE Resting
      BY <2>2, <2>3 DEF Resting
  <2>4. ASSUME NEW d \in Sd, Asking(d) PROVE Synced(c)'
    <3>1. ~sock[d].server /\ \A e \in Sd \ {d} : sock'[e] = sock[e]
        BY <2>4 DEF Asking, SockSteps
    <3> QED BY <2>2, <3>1, ServerSocket
  <2>5. ASSUME NEW d \in Sd, Replying(d) \/ Changing(d) PROVE Synced(c)'
    <3>1. \A e \in Sd \ {d} : sock'[e] = sock[e]
        BY <2>5 DEF Replying, Changing, SockSteps
    <3>2. CASE c \in Servers /\ conn[c].sd = d
        BY <2>5, <3>2, SyncedReplied, SyncedChanged
    <3>3. CASE ~(c \in Servers /\ conn[c].sd = d)
        BY <2>2, <3>1, <3>3, <1>4
    <3> QED BY <3>2, <3>3
  <2> QED BY <1>15, <2>3, <2>4, <2>5 DEF PeersDo
<1>16. CASE LoopDoes
    BY <1>1, <1>5, <1>6, <1>7, <1>8, <1>9, <1>10, <1>11, <1>12, <1>13, <1>14, <1>16 DEF LoopDoes
<1> QED BY <1>15, <1>16

-----------------------------------------------------------------------------
(* Nothing comes from a server before connect() ends.                      *)
LEMMA SilentStep ==
    ASSUME Proper, IInv', Pairing, NEW d \in Sd, LoopDoes \/ PeersDo
    PROVE  Silent(d)'
<1> SUFFICES ASSUME sock'[d].server, ~sock'[d].up PROVE sock'[d].inq = <<>> /\ sock'[d].wire = <<>>
    BY DEF Silent
<1>1. Silent(d) /\ sock[d].inq \in Seq(Item)
    BY ProperParts, SockTypes DEF Pairing
<1>2. ASSUME sock'[d] = sock[d] PROVE sock'[d].inq = <<>> /\ sock'[d].wire = <<>>
    BY <1>1, <1>2 DEF Silent
<1>3. ASSUME SockAlike(sock'[d], sock[d]), sock'[d].inq = sock[d].inq,
             sock'[d].wire = sock[d].wire
      PROVE  sock'[d].inq = <<>> /\ sock'[d].wire = <<>>
    BY <1>1, <1>3 DEF Silent, SockAlike
<1>4. ASSUME SockAlike(sock'[d], sock[d]), SocksRead
      PROVE  sock'[d].inq = <<>> /\ sock'[d].wire = <<>>
  <2>1. sock[d].inq = <<>> /\ sock[d].wire = <<>>
      BY <1>1, <1>4 DEF Silent, SockAlike
  <2> QED BY <1>4, <2>1 DEF SocksRead, Sk
<1>5. CASE Idle
  <2>1. SockKept(d) /\ sock'[d].wire = sock[d].wire
      BY <1>5 DEF Idle
  <2>2. sock[d].inq = <<>> /\ sock[d].wire = <<>>
      BY <1>1, <2>1 DEF Silent, SockKept
  <2>3. Len(sock'[d].inq) = 0
    <3>1. PICK n \in 0..Len(<<>>) : Len(sock'[d].inq) = Len(<<>>) - n
        BY <2>1, <2>2 DEF SockKept, Suffix
    <3>2. Len(<<>>) = 0
        OBVIOUS
    <3> QED BY <3>1, <3>2
  <2>4. sock'[d].inq = <<>>
    <3>1. sock'[d].inq \in Seq(Item)
        BY DEF IInv, TypeOK, SockRec
    <3> QED BY <2>3, <3>1, EmptySeq
  <2> QED BY <2>1, <2>2, <2>4
<1>6. ASSUME NEW c \in Conn, Closing(c) PROVE sock'[d].inq = <<>> /\ sock'[d].wire = <<>>
    BY <1>1, <1>6, ClosingSocks, ProperParts DEF Silent
<1>7. ASSUME NEW c \in Conn, NEW e \in Sd, Admitting(c, e)
      PROVE  sock'[d].inq = <<>> /\ sock'[d].wire = <<>>
    BY <1>2, <1>7 DEF Admitting
<1>8. ASSUME NEW c \in Conn, NEW e \in Sd \cup {None}, ReservingNew(c, e)
      PROVE  sock'[d].inq = <<>> /\ sock'[d].wire = <<>>
    BY <1>2, <1>8 DEF ReservingNew, Opening
<1>9. ASSUME NEW m \in Msg, Sending(m) \/ Halving(m)
      PROVE  sock'[d].inq = <<>> /\ sock'[d].wire = <<>>
  <2>1. Wired(m)
      BY <1>9 DEF Sending, Halving, Writes
  <2>2. SockAlike(sock'[d], sock[d]) /\ ~IsServerSd(d)
      BY <2>1 DEF Wired, SockAlike, IsServerSd
  <2>3. sock'[d].inq = sock[d].inq /\ sock'[d].wire = sock[d].wire
      BY <2>1, <2>2 DEF Wired
  <2> QED BY <1>3, <2>2, <2>3
<1>10. CASE PeersDo
  <2>1. ASSUME NEW e \in Sd, Asking(e) \/ Replying(e) \/ Changing(e), d # e
        PROVE  sock'[d] = sock[d]
      BY <2>1 DEF Asking, Replying, Changing, SockSteps
  <2>2. ~Asking(d) /\ ~Replying(d)
      BY DEF Asking, Replying, IsServerSd, SockSteps
  <2>3. ASSUME Changing(d) PROVE sock'[d].inq = <<>> /\ sock'[d].wire = <<>>
      BY <1>1, <2>3 DEF Changing, SockSteps, Silent
  <2> QED BY <1>2, <1>10, <2>1, <2>2, <2>3 DEF PeersDo, Resting
<1>11. CASE LoopDoes
  <2>1. ASSUME \/ \E m \in Msg : Settling(m)
               \/ ReservingOld \/ Refusing(scur) \/ \E m \in Msg : Answering(m)
        PROVE  sock' = sock
      BY <2>1 DEF Settling, ReservingOld, ReservingLru, Refusing, Answering
  <2>2. ASSUME Erring(cmsg) \/ Enqueuing(cmsg, scur)
        PROVE  sock'[d].inq = <<>> /\ sock'[d].wire = <<>>
      BY <1>3, <2>2 DEF Erring, Enqueuing, SocksSame
  <2>3. ASSUME NEW m \in Msg, Taking(m) \/ Responding(m)
        PROVE  sock'[d].inq = <<>> /\ sock'[d].wire = <<>>
      BY <1>4, <2>3 DEF Taking, Responding, SocksRead
  <2> QED BY <1>2, <1>5, <1>6, <1>7, <1>8, <1>9, <1>11, <2>1, <2>2, <2>3 DEF LoopDoes
<1> QED BY <1>10, <1>11

(* Only the response of a request completes it.                            *)
LEMMA MatchedStep ==
    ASSUME Proper, Pairing, NEW n \in Msg, LoopDoes \/ PeersDo
    PROVE  Matched(n)'
<1>1. Matched(n) /\ msg \in [Msg -> MsgRec] /\ msg[n] \in MsgRec
    BY ProperParts DEF Pairing
<1>2. ASSUME msg'[n] = msg[n] PROVE Matched(n)'
    BY <1>1, <1>2 DEF Matched
<1>3. CASE Idle \/ ReservingOld \/ Refusing(scur) \/ PeersDo
    BY <1>2, <1>3 DEF Idle, ReservingOld, ReservingLru, Reserving, Refusing,
                      PeersDo, Resting, Asking, Replying, Changing, SockSteps, LoopStill
<1>4. ASSUME NEW c \in Conn, NEW d, Admitting(c, d) \/ ReservingNew(c, d)
      PROVE  Matched(n)'
    BY <1>2, <1>4 DEF Admitting, ReservingNew, Reserving
<1>5. ASSUME NEW c \in Conn, Closing(c) PROVE Matched(n)'
    BY <1>1, <1>5, ClosingPairs, ProperParts DEF Matched
<1>6. ASSUME NEW m \in Msg, Settling(m) PROVE Matched(n)'
  <2> DEFINE y == msg_tmo_delete(msg[m])
  <2>1. msg' = [msg EXCEPT ![m] = y]
      BY <1>1, <1>6 DEF Settling
  <2>2. /\ y.st = msg[m].st /\ y.done = msg[m].done /\ y.error = msg[m].error
        /\ y.peer = msg[m].peer
      BY <1>1, PutFacts
  <2> HIDE DEF y
  <2> QED BY <1>1, <1>2, <2>1, <2>2 DEF Matched
<1>7. ASSUME NEW m \in Msg, Taking(m) PROVE Matched(n)'
    BY <1>2, <1>7 DEF Taking, Matched
<1>8. ASSUME NEW m \in Msg, Responding(m) PROVE Matched(n)'
  <2>1. Next1(cur)[2] = m
      BY <1>8, HeadAnswered
  <2>2. CASE n = m
      BY <1>8, <2>1, <2>2 DEF Responding, Matched
  <2>3. CASE n # m
      BY <1>2, <1>8, <2>3 DEF Responding
  <2> QED BY <2>2, <2>3
<1>9. CASE Erring(cmsg)
    BY <1>2, <1>9 DEF Erring, Matched
<1>10. CASE Enqueuing(cmsg, scur)
  <2>1. ~msg[cmsg].done
      BY <1>10, ProperParts DEF Enqueuing, Forwarded, Forwarding
  <2> QED BY <1>2, <1>10, <2>1 DEF Enqueuing, Matched
<1>11. ASSUME NEW m \in Msg, Answering(m) PROVE Matched(n)'
    BY <1>2, <1>11 DEF Answering, Matched
<1>12. ASSUME NEW m \in Msg, Sending(m) \/ Halving(m) PROVE Matched(n)'
  <2>1. Writes(m)
      BY <1>12 DEF Sending, Halving
  <2>2. ~msg[m].done
    <3>1. /\ cur \in Conn /\ cur \in Servers /\ conn[cur].imsg_q # <<>>
          /\ m = Head(conn[cur].imsg_q) /\ conn[cur].imsg_q \in Seq(Msg)
        BY <2>1, ProperParts, QueueTypes DEF Writes, Servers
    <3> QED BY <3>1, HeadIn, QueuedApart
  <2>3. CASE n # m
      BY <1>2, <2>1, <2>3 DEF Writes
  <2>4. CASE n = m
    <3>1. msg'[m].st # "live" \/ msg'[m] = [msg[m] EXCEPT !.part = FALSE]
                              \/ msg'[m] = [msg[m] EXCEPT !.part = TRUE]
        BY <1>12 DEF Sending, Halving
    <3>2. msg'[m].st # "live" \/ ~msg'[m].done
        BY <1>1, <2>2, <2>4, <3>1 DEF MsgRec
    <3> QED BY <2>4, <3>2 DEF Matched
  <2> QED BY <2>3, <2>4
<1> QED BY <1>3, <1>4, <1>5, <1>6, <1>7, <1>8, <1>9, <1>10, <1>11, <1>12 DEF LoopDoes

(* No step but req_send_done and conn_send writes of a request, and they   *)
(* find it in in_q.                                                        *)
LEMMA WholeStep ==
    ASSUME Proper, Pairing, LoopDoes \/ PeersDo
    PROVE  Whole'
<1>1. Whole
    BY DEF Pairing
<1>2. CASE PeersDo
    BY <1>1, <1>2 DEF PeersDo, Resting, Asking, Replying, Changing, SockSteps, LoopStill, Whole
<1>3. CASE Idle \/ \E c \in Conn : Closing(c)
    BY <1>3 DEF Idle, Closing, Whole
<1>4. ASSUME \/ \E m \in Msg : Settling(m) \/ Responding(m) \/ Answering(m) \/ Sending(m) \/ Halving(m)
             \/ \E c \in Conn, d \in Sd : Admitting(c, d)
             \/ Erring(cmsg) \/ Enqueuing(cmsg, scur)
      PROVE  pc' \in {"timeout", "recv", "check", "send", "accept"}
    BY <1>4 DEF Settling, Responding, Answering, Sending, Halving, Writes, Admitting, Erring, Enqueuing
<1>5. ASSUME NEW m \in Msg, Taking(m) PROVE Whole'
    BY <1>5 DEF Taking, Whole
<1>6. CASE Reserving \/ Refusing(scur)
    BY <1>1, <1>6 DEF Reserving, Refusing, Whole, Forwarding
<1> QED BY <1>2, <1>3, <1>4, <1>5, <1>6 DEF LoopDoes, ReservingNew, ReservingOld, ReservingLru,
                                            Whole, Forwarding

(* What is written to a client is the response of the request.             *)
LEMMA PairedStep ==
    ASSUME Proper, Pairing, LoopDoes \/ PeersDo
    PROVE  ResponsesPaired'
<1>1. ResponsesPaired
    BY DEF Pairing
<1>2. ASSUME answered' = answered PROVE ResponsesPaired'
    BY <1>1, <1>2 DEF ResponsesPaired
<1>3. ASSUME NEW p \in Msg, Answering(p) PROVE ResponsesPaired'
  <2> DEFINE e == conn[cur].sd
             r == IF msg[p].error THEN ErrorReply ELSE msg[p].peer
  <2>1. /\ e \in Sd /\ cur \in Conn /\ cur \in Clients /\ conn[cur].omsg_q # <<>>
        /\ p = Head(conn[cur].omsg_q) /\ msg[p].done
        /\ answered' = [answered EXCEPT ![e] = Append(@, <<p, r>>)]
      BY <1>3 DEF Answering, Clients
  <2>2. r \in {ErrorReply, p}
    <3>1. p \in ToSet(conn[cur].omsg_q)
        BY <2>1, ProperParts, QueueTypes, HeadIn
    <3>2. msg[p].st = "live"
        BY <2>1, <3>1, ProperParts DEF ClientFit, Owned
    <3>3. Matched(p)
        BY DEF Pairing
    <3> QED BY <2>1, <3>2, <3>3 DEF Matched
  <2> HIDE DEF r
  <2> SUFFICES ASSUME NEW d \in Sd, NEW i \in DOMAIN answered'[d]
               PROVE  answered'[d][i][2] \in {ErrorReply, answered'[d][i][1]}
      BY DEF ResponsesPaired
  <2>3. answered \in [Sd -> Seq(Sent)]
      BY ProperParts DEF IInv, TypeOK, Sent
  <2>4. CASE d # e
      BY <1>1, <2>1, <2>3, <2>4 DEF ResponsesPaired
  <2>5. CASE d = e
    <3> DEFINE q == answered[e]
               x == <<p, r>>
    <3>1. q \in Seq(Sent) /\ answered'[e] = Append(q, x)
        BY <2>1, <2>3
    <3>2. x \in Sent
        BY <2>2 DEF Sent
    <3>3. x[1] = p /\ x[2] = r
        OBVIOUS
    <3>4. \A j \in DOMAIN q : q[j][2] \in {ErrorReply, q[j][1]}
        BY <1>1, <2>1 DEF ResponsesPaired
    <3> HIDE DEF q, x
    <3>5. /\ DOMAIN Append(q, x) = 1..(Len(q) + 1) /\ Len(q) \in Nat /\ DOMAIN q = 1..Len(q)
          /\ \A j \in 1..Len(q) : Append(q, x)[j] = q[j]
          /\ Append(q, x)[Len(q) + 1] = x
      <4>1. /\ Append(q, x) \in Seq(Sent) /\ Len(Append(q, x)) = Len(q) + 1 /\ Len(q) \in Nat
            /\ \A j \in 1..Len(q) : Append(q, x)[j] = q[j]
            /\ Append(q, x)[Len(q) + 1] = x
          BY <3>1, <3>2, AppendProperties, LenProperties
      <4> QED BY <3>1, <4>1, LenProperties
    <3>6. CASE i = Len(q) + 1
      <4>1. answered'[d][i] = x
          BY <2>5, <3>1, <3>5, <3>6
      <4> QED BY <2>2, <3>3, <4>1
    <3>7. CASE i # Len(q) + 1
      <4>1. i \in 1..Len(q)
          BY <2>5, <3>1, <3>5, <3>7
      <4>2. answered'[d][i] = q[i]
          BY <2>5, <3>1, <3>5, <4>1
      <4> QED BY <3>4, <3>5, <4>1, <4>2
    <3> QED BY <3>6, <3>7
  <2> QED BY <2>4, <2>5
<1>4. CASE PeersDo
    BY <1>2, <1>4 DEF PeersDo, Resting, Asking, Replying, Changing, SockSteps, LoopStill
<1>5. ASSUME LoopDoes, ~\E p \in Msg : Answering(p) PROVE answered' = answered
    BY <1>5 DEF LoopDoes, Idle, Closing, Settling, Admitting, Taking, Responding, ReservingNew,
        ReservingOld, ReservingLru, Reserving, Refusing, Erring, Enqueuing, Sending, Halving, Writes
<1> QED BY <1>2, <1>3, <1>4, <1>5

-----------------------------------------------------------------------------

(* At the start nothing was sent.                                          *)
LEMMA InitPairing == Init => Pairing
<1> SUFFICES ASSUME Init PROVE Pairing
    OBVIOUS
<1>1. \A c \in Conn : c \notin Servers
    BY DEF Init, NoConn, Servers, Attached
<1>2. \A d \in Sd : Silent(d)
    BY DEF Init, NoSock, Silent
<1>3. \A m \in Msg : Matched(m)
    BY DEF Init, NoMsg, Matched
<1>4. Whole
    BY DEF Init, Whole, Forwarding
<1>5. ResponsesPaired
  <2>1. \A d \in Sd : answered[d] = <<>>
      BY DEF Init
  <2> QED BY <2>1 DEF ResponsesPaired
<1> QED BY <1>1, <1>2, <1>3, <1>4, <1>5 DEF Pairing, Synced

(* A step that changes nothing keeps the pairing.                          *)
LEMMA PairingStill == ASSUME Proper, Pairing, UNCHANGED vars PROVE Pairing'
<1>1. UNCHANGED <<conn, msg, sock, answered, pc, cmsg>>
    BY DEF vars, tables, requests, control, history
<1>2. \A c \in Conn : Synced(c)'
    BY <1>1, SyncedApart DEF SockKeeps, Servers, Attached
<1>3. ResponsesPaired' /\ Whole'
    BY <1>1 DEF ResponsesPaired, Whole, Pairing
<1>4. \A d \in Sd : Silent(d)'
    BY <1>1 DEF Silent, Pairing
<1>5. \A m \in Msg : Matched(m)'
    BY <1>1 DEF Matched, Pairing
<1> QED BY <1>2, <1>3, <1>4, <1>5 DEF Pairing

(* The pairing holds in every state of every behaviour.                    *)
LEMMA AlwaysPairing == Spec => []Pairing
<1>1. Proper /\ Proper' /\ Pairing /\ [Next]_vars => Pairing'
  <2> SUFFICES ASSUME Proper, Proper', Pairing, [Next]_vars PROVE Pairing'
      OBVIOUS
  <2>1. CASE Next
    <3>1. LoopDoes \/ PeersDo
        BY <2>1, NextEffect DEF Proper
    <3>2. IInv'
        BY DEF Proper
    <3>3. \A c \in Conn : Synced(c)'
        BY <3>1, SyncedStep
    <3>4. \A d \in Sd : Silent(d)'
        BY <3>1, <3>2, SilentStep
    <3>5. \A m \in Msg : Matched(m)'
        BY <3>1, MatchedStep
    <3> QED BY <3>1, <3>3, <3>4, <3>5, WholeStep, PairedStep DEF Pairing
  <2>2. CASE UNCHANGED vars
      BY <2>2, PairingStill
  <2> QED BY <2>1, <2>2
<1> QED BY AlwaysProper, InitPairing, <1>1, PTL DEF Spec

(* For every number of clients, servers and requests, and whatever         *)
(* connections break: what is written to a client for a request is the     *)
(* response of that very request, or an error (rsp_forward pairs by        *)
(* position alone: no identifier is compared).                             *)
THEOREM ProxyResponsesPaired == Spec => []ResponsesPaired
<1>1. Pairing => ResponsesPaired
    BY DEF Pairing
<1> QED BY AlwaysPairing, <1>1, PTL

(* The out_q of a server connection is, in order, what its server has seen *)
(* and not answered: the assumption rsp_filter and rsp_forward rest on.    *)
THEOREM ProxyQueuesInSync == Spec => []QueuesInSync
<1>1. Pairing => ServerFifoInSync
    BY DEF Pairing, Synced, Agree, ServerFifoInSync, Servers
<1>2. Proper /\ Pairing => QueuesInSync
    BY <1>1, ProperOnce DEF QueuesInSync
<1> QED BY AlwaysProper, AlwaysPairing, <1>2, PTL

=============================================================================
