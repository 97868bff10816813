----------------------------- MODULE ProxyProofs -----------------------------
(***************************************************************************)
(* For every value of the constants of Proxy: its type invariant, the      *)
(* accounting of connection structures (ConnPools) and the limit on        *)
(* clients (ClientLimit).                                                  *)
(*                                                                         *)
(* The three are proved together as one inductive invariant, IInv, which   *)
(* adds Control: what pc promises about cur, cmsg and scur.  A handler     *)
(* that moves no structure between the tables preserves IInv by the lemma  *)
(* Quiet; those that move one do it through PoolsRelease (conn_put) or     *)
(* TakenPools (conn_get).                                                  *)
(*                                                                         *)
(* The second half says what each step does to sockets, structures and     *)
(* requests, and that every step keeps Wiring, which joins structures and  *)
(* sockets; the proofs of what becomes of the requests stand on it.        *)
(***************************************************************************)
EXTENDS Proxy, TLAPS, SequenceTheorems, FiniteSetTheorems, NaturalsInduction,
        WellFoundedInduction

-----------------------------------------------------------------------------
(* Queues.                                                                 *)

(* Pushing on a free list.                                                 *)
LEMMA PushFacts ==
    ASSUME NEW S, NEW q \in Seq(S), NEW c \in S
    PROVE  /\ <<c>> \o q \in Seq(S)
           /\ ToSet(<<c>> \o q) = ToSet(q) \cup {c}
           /\ IsInjective(q) /\ c \notin ToSet(q) => IsInjective(<<c>> \o q)
<1>1. /\ <<c>> \in Seq(S) /\ Len(<<c>>) = 1 /\ <<c>>[1] = c
    OBVIOUS
<1>2. /\ <<c>> \o q \in Seq(S)
      /\ Len(<<c>> \o q) = Len(q) + 1
      /\ \A i \in 1..(Len(q) + 1) : (<<c>> \o q)[i] = IF i <= 1 THEN c ELSE q[i - 1]
    BY <1>1, ConcatProperties
<1>3. /\ DOMAIN q = 1..Len(q) /\ Len(q) \in Nat
      /\ DOMAIN (<<c>> \o q) = 1..(Len(q) + 1)
    BY <1>2, LenProperties
<1>4. ToSet(<<c>> \o q) = ToSet(q) \cup {c}
  <2>1. ASSUME NEW x \in ToSet(q) PROVE x \in ToSet(<<c>> \o q)
    <3>1. PICK i \in 1..Len(q) : x = q[i]
        BY <2>1, <1>3 DEF ToSet
    <3>2. i + 1 \in 1..(Len(q) + 1) /\ (<<c>> \o q)[i + 1] = x
        BY <3>1, <1>2, <1>3
    <3> QED BY <3>2, <1>3 DEF ToSet
  <2>2. c \in ToSet(<<c>> \o q)
      BY <1>2, <1>3 DEF ToSet
  <2>3. ToSet(<<c>> \o q) \subseteq ToSet(q) \cup {c}
    <3>1. ASSUME NEW i \in 1..(Len(q) + 1) PROVE (<<c>> \o q)[i] \in ToSet(q) \cup {c}
        BY <1>2, <1>3 DEF ToSet
    <3> QED BY <3>1, <1>3 DEF ToSet
  <2> QED BY <2>1, <2>2, <2>3
<1>5. ASSUME IsInjective(q), c \notin ToSet(q) PROVE IsInjective(<<c>> \o q)
  <2>1. ASSUME NEW i \in 1..(Len(q) + 1), NEW j \in 1..(Len(q) + 1),
               (<<c>> \o q)[i] = (<<c>> \o q)[j]
        PROVE  i = j
    <3>1. \A k \in 1..Len(q) : q[k] # c
        BY <1>3, <1>5 DEF ToSet
    <3> QED BY <1>2, <1>3, <1>5, <2>1, <3>1 DEF IsInjective
  <2> QED BY <2>1, <1>3 DEF IsInjective
<1> QED BY <1>2, <1>4, <1>5

(* Taking the head of a queue.                                             *)
LEMMA TailFacts ==
    ASSUME NEW S, NEW q \in Seq(S), q # <<>>
    PROVE  /\ Head(q) \in S /\ Tail(q) \in Seq(S)
           /\ Len(Tail(q)) = Len(q) - 1
           /\ Head(q) \in ToSet(q)
           /\ IsInjective(q) => /\ ToSet(Tail(q)) = ToSet(q) \ {Head(q)}
                                /\ IsInjective(Tail(q))
<1>1. /\ Head(q) \in S /\ Tail(q) \in Seq(S) /\ Len(Tail(q)) = Len(q) - 1
      /\ \A i \in 1..Len(Tail(q)) : Tail(q)[i] = q[i + 1]
    BY HeadTailProperties
<1>2. /\ DOMAIN q = 1..Len(q) /\ Len(q) \in Nat \ {0} /\ Head(q) = q[1]
      /\ DOMAIN Tail(q) = 1..(Len(q) - 1)
    BY <1>1, LenProperties, EmptySeq
<1>3. Head(q) \in ToSet(q)
    BY <1>2 DEF ToSet
<1>4. ASSUME IsInjective(q)
      PROVE  ToSet(Tail(q)) = ToSet(q) \ {Head(q)} /\ IsInjective(Tail(q))
  <2>1. ASSUME NEW i \in 1..(Len(q) - 1)
        PROVE  Tail(q)[i] \in ToSet(q) /\ Tail(q)[i] # Head(q)
    <3>1. Tail(q)[i] = q[i + 1] /\ i + 1 \in 1..Len(q) /\ i + 1 # 1
        BY <1>1, <1>2
    <3> QED BY <3>1, <1>2, <1>4 DEF ToSet, IsInjective
  <2>2. ASSUME NEW i \in 1..Len(q), q[i] # Head(q) PROVE q[i] \in ToSet(Tail(q))
    <3>1. i - 1 \in 1..(Len(q) - 1) /\ Tail(q)[i - 1] = q[i]
        BY <1>1, <1>2, <2>2
    <3> QED BY <3>1, <1>2 DEF ToSet
  <2>3. IsInjective(Tail(q))
      BY <1>1, <1>2, <1>4 DEF IsInjective
  <2> QED BY <2>1, <2>2, <2>3, <1>2 DEF ToSet
<1> QED BY <1>1, <1>3, <1>4

(* Adding at the end of a queue.                                           *)
LEMMA AppendFacts ==
    ASSUME NEW S, NEW q \in Seq(S), NEW c \in S
    PROVE  /\ Append(q, c) \in Seq(S)
           /\ Len(Append(q, c)) = Len(q) + 1
           /\ ToSet(Append(q, c)) = ToSet(q) \cup {c}
           /\ IsInjective(q) /\ c \notin ToSet(q) => IsInjective(Append(q, c))
<1>1. /\ Append(q, c) \in Seq(S) /\ Len(Append(q, c)) = Len(q) + 1
      /\ \A i \in 1..(Len(q) + 1) : Append(q, c)[i] = IF i = Len(q) + 1 THEN c ELSE q[i]
    BY AppendProperties
<1>2. /\ DOMAIN q = 1..Len(q) /\ Len(q) \in Nat
      /\ DOMAIN Append(q, c) = 1..(Len(q) + 1)
    BY <1>1, LenProperties
<1>3. ToSet(Append(q, c)) = ToSet(q) \cup {c}
  <2>1. ASSUME NEW i \in 1..Len(q) PROVE q[i] \in ToSet(Append(q, c))
    <3>1. i \in 1..(Len(q) + 1) /\ Append(q, c)[i] = q[i]
        BY <1>1, <1>2
    <3> QED BY <3>1, <1>2 DEF ToSet
  <2>2. c \in ToSet(Append(q, c))
    <3>1. Len(q) + 1 \in 1..(Len(q) + 1) /\ Append(q, c)[Len(q) + 1] = c
        BY <1>1, <1>2
    <3> QED BY <3>1, <1>2 DEF ToSet
  <2>3. ASSUME NEW i \in 1..(Len(q) + 1) PROVE Append(q, c)[i] \in ToSet(q) \cup {c}
      BY <1>1, <1>2 DEF ToSet
  <2> QED BY <2>1, <2>2, <2>3, <1>2 DEF ToSet
<1>4. ASSUME IsInjective(q), c \notin ToSet(q) PROVE IsInjective(Append(q, c))
  <2>1. \A k \in 1..Len(q) : q[k] # c
      BY <1>2, <1>4 DEF ToSet
  <2> QED BY <1>1, <1>2, <1>4, <2>1 DEF IsInjective
<1> QED BY <1>1, <1>3, <1>4

(* server_unref takes one connection out of s_conn_q.                      *)
LEMMA UnrefFacts ==
    ASSUME NEW S, NEW q \in Seq(S), NEW c \in ToSet(q), IsInjective(q)
    PROVE  /\ server_unref(q, c) \in Seq(S)
           /\ Len(server_unref(q, c)) = Len(q) - 1
           /\ ToSet(server_unref(q, c)) = ToSet(q) \ {c}
           /\ IsInjective(server_unref(q, c))
<1> DEFINE i == CHOOSE k \in DOMAIN q : q[k] = c
           p == SubSeq(q, 1, i - 1)
           r == SubSeq(q, i + 1, Len(q))
           u == server_unref(q, c)
<1>1. DOMAIN q = 1..Len(q) /\ Len(q) \in Nat
    BY LenProperties
<1>2. i \in 1..Len(q) /\ q[i] = c
    BY <1>1 DEF ToSet
<1>3. u = p \o r
    BY DEF server_unref, RemoveAt
<1> HIDE DEF i
<1>4. /\ p \in Seq(S) /\ Len(p) = i - 1
      /\ \A k \in 1..(i - 1) : p[k] = q[k]
  <2>1. \A k \in 1..(i - 1) : q[k] \in S
      BY <1>1, <1>2, ElementOfSeq
  <2> QED BY <1>1, <1>2, <2>1, SubSeqProperties
<1>5. /\ r \in Seq(S) /\ Len(r) = Len(q) - i
      /\ \A k \in 1..(Len(q) - i) : r[k] = q[i + k]
  <2>1. \A k \in (i + 1)..Len(q) : q[k] \in S
      BY <1>1, <1>2, ElementOfSeq
  <2>2. /\ r \in Seq(S)
        /\ Len(r) = IF i + 1 <= Len(q) THEN Len(q) - (i + 1) + 1 ELSE 0
        /\ \A k \in 1..(Len(q) - (i + 1) + 1) : r[k] = q[i + 1 + k - 1]
      BY <1>1, <1>2, <2>1, SubSeqProperties
  <2> HIDE DEF r
  <2>3. Len(r) = Len(q) - i
    <3>1. i \in Int /\ Len(q) \in Int /\ i <= Len(q)
        BY <1>1, <1>2
    <3>2. Len(r) = IF i + 1 <= Len(q) THEN Len(q) - (i + 1) + 1 ELSE 0
        BY <2>2
    <3> QED BY <3>1, <3>2
  <2>4. ASSUME NEW k \in 1..(Len(q) - i) PROVE r[k] = q[i + k]
    <3>1. k \in 1..(Len(q) - (i + 1) + 1) /\ i + 1 + k - 1 = i + k
        BY <1>1, <1>2
    <3> QED BY <2>2, <3>1
  <2> QED BY <2>2, <2>3, <2>4
<1> HIDE DEF p, r
<1>6. /\ u \in Seq(S) /\ Len(u) = Len(q) - 1
      /\ \A k \in 1..(Len(q) - 1) : u[k] = IF k < i THEN q[k] ELSE q[k + 1]
  <2>1. /\ p \o r \in Seq(S) /\ Len(p \o r) = Len(p) + Len(r)
        /\ \A k \in 1..(Len(p) + Len(r)) :
             (p \o r)[k] = IF k <= Len(p) THEN p[k] ELSE r[k - Len(p)]
      BY <1>4, <1>5, ConcatProperties
  <2> QED BY <1>1, <1>2, <1>3, <1>4, <1>5, <2>1
<1> HIDE DEF u
<1>7. DOMAIN u = 1..(Len(q) - 1)
    BY <1>1, <1>6, LenProperties
<1>8. ASSUME NEW k \in 1..(Len(q) - 1) PROVE u[k] \in ToSet(q) /\ u[k] # c
  <2>1. PICK j \in 1..Len(q) : u[k] = q[j] /\ j # i
      BY <1>1, <1>2, <1>6
  <2> QED BY <1>1, <1>2, <2>1 DEF ToSet, IsInjective
<1>9. ASSUME NEW k \in 1..Len(q), q[k] # c PROVE q[k] \in ToSet(u)
  <2>1. k # i
      BY <1>2, <1>9
  <2>2. PICK j \in 1..(Len(q) - 1) : u[j] = q[k]
    <3>1. CASE k < i
      <4>1. k \in 1..(Len(q) - 1) /\ u[k] = q[k]
          BY <3>1, <1>1, <1>2, <1>6
      <4> QED BY <4>1
    <3>2. CASE k > i
      <4>1. k - 1 \in 1..(Len(q) - 1) /\ u[k - 1] = q[k]
          BY <3>2, <1>1, <1>2, <1>6
      <4> QED BY <4>1
    <3> QED BY <2>1, <3>1, <3>2, <1>2
  <2> QED BY <2>2, <1>7 DEF ToSet
<1>10. IsInjective(u)
    BY <1>1, <1>2, <1>6, <1>7 DEF IsInjective
<1>11. ToSet(u) = ToSet(q) \ {c}
    BY <1>1, <1>7, <1>8, <1>9 DEF ToSet
<1> QED BY <1>6, <1>10, <1>11 DEF u

-----------------------------------------------------------------------------
(* The invariant.                                                          *)

(* Control: what the program counter says of cur, cmsg and scur, and that  *)
(* a structure in use has a socket, except between server_connect failing  *)
(* and server_pool_conn closing what it got.                               *)
Handling == {"recv", "forward", "enqueue", "reject", "error", "send", "check"}
Forwarding == {"forward", "enqueue", "reject", "error"}

Control ==
    /\ pc \in Handling => cur \in Conn /\ Attached(cur)
    /\ pc \in Forwarding => cmsg \in Msg /\ conn[cur].client
    /\ pc \in {"enqueue", "reject"} => scur \in Conn /\ conn[scur].owner \in Server
    /\ \A c \in Conn : Attached(c) =>
         /\ (conn[c].client <=> conn[c].owner = Pool)
         /\ conn[c].sd = None => pc = "reject" /\ c = scur

IInv == TypeOK /\ ConnPools /\ Control /\ ClientLimit

(* The handlers run for a connection with a socket.                        *)
LEMMA CurFacts ==
    ASSUME IInv, pc \in Handling
    PROVE  /\ cur \in Conn /\ conn[cur] \in ConnRec
           /\ conn[cur].sd \in Sd
           /\ sock[conn[cur].sd] \in SockRec
<1>1. cur \in Conn /\ Attached(cur) /\ conn[cur] \in ConnRec
    BY DEF IInv, Control, TypeOK
<1>2. conn[cur].sd # None
  <2>1. SUFFICES ASSUME conn[cur].sd = None PROVE FALSE
      OBVIOUS
  <2>2. pc = "reject" /\ cur = scur
      BY <1>1, <2>1 DEF IInv, Control
  <2>3. conn[cur].client /\ conn[cur].owner \in Server
      BY <2>2 DEF IInv, Control, Forwarding
  <2>4. conn[cur].owner = Pool
      BY <1>1, <2>3 DEF IInv, Control
  <2> QED BY <2>3, <2>4 DEF Server, Pool
<1>3. conn[cur].sd \in Sd
    BY <1>1, <1>2 DEF ConnRec
<1> QED BY <1>1, <1>3 DEF IInv, TypeOK

(* A step after which no structure is a client that was none.              *)
LEMMA FewerClients ==
    ASSUME IInv, \A k \in Conn : conn'[k].client /\ Attached(k)' => k \in Clients
    PROVE  ClientLimit'
<1>1. Clients' \subseteq Clients
    BY DEF Clients, Attached
<1>2. IsFiniteSet(Clients)
  <2>1. IsFiniteSet(Conn) /\ Clients \subseteq Conn
      BY FS_Interval, ConstantsAssumption DEF Conn, Clients
  <2> QED BY <2>1, FS_Subset
<1>3. /\ Cardinality(Clients') <= Cardinality(Clients)
      /\ Cardinality(Clients) \in Nat /\ Cardinality(Clients') \in Nat
    BY <1>1, <1>2, FS_Subset, FS_CardinalityType
<1>4. Cardinality(Clients) <= MAX_NCCONN /\ MAX_NCCONN \in Nat
    BY ConstantsAssumption DEF IInv, ClientLimit
<1>5. Cardinality(Clients') <= MAX_NCCONN
    BY <1>3, <1>4
<1> QED BY <1>5 DEF ClientLimit

-----------------------------------------------------------------------------
(* The timeout tree.                                                       *)

(* The rbtree minimum exists: msg_tmo_min names a request of the tree.     *)
LEMMA TmoMin ==
    ASSUME TypeOK, tmo_rbt # {}
    PROVE  msg_tmo_min \in tmo_rbt
<1> DEFINE T == {msg[m].key : m \in tmo_rbt}
           R == {ss \in Nat \X Nat : ss[1] < ss[2]}
<1>1. /\ \A m \in tmo_rbt : msg[m].key \in Nat
      /\ \E m \in tmo_rbt : TRUE
    BY DEF TypeOK, MsgRec, tmo_rbt
<1>2. IsWellFoundedOn(R, Nat)
    BY NatLessThanWellFounded DEF OpToRel
<1>3. PICK x \in T : \A y \in T : <<y, x>> \notin R
  <2>1. T \subseteq Nat /\ T # {}
      BY <1>1
  <2> HIDE DEF T, R
  <2> QED BY <1>2, <2>1, WFMin
<1>4. ASSUME NEW y \in T PROVE x <= y
  <2>1. x \in Nat /\ y \in Nat
      BY <1>1
  <2>2. <<y, x>>[1] = y /\ <<y, x>>[2] = x /\ <<y, x>> \in Nat \X Nat
      BY <2>1
  <2>3. ~(y < x)
      BY <1>3, <2>2
  <2> QED BY <2>1, <2>3
<1>5. PICK m \in tmo_rbt : x = msg[m].key
    OBVIOUS
<1>6. \A n \in tmo_rbt : msg[m].key <= msg[n].key
    BY <1>4, <1>5
<1> QED BY <1>5, <1>6 DEF msg_tmo_min

-----------------------------------------------------------------------------
(* Initial state and peers.                                                *)

(* The invariant holds when the process starts.                            *)
LEMMA InitIInv == Init => IInv
<1> SUFFICES ASSUME Init PROVE IInv
    OBVIOUS
<1> USE ConstantsAssumption
<1>1. /\ NoConn \in ConnRec /\ NoMsg \in MsgRec /\ NoSock \in SockRec
    BY DEF NoConn, NoMsg, NoSock, ConnRec, MsgRec, SockRec
<1>2. /\ free_connq \in Seq(Conn) /\ ToSet(free_connq) = Conn
      /\ IsInjective(free_connq)
  <2>1. free_connq \in [1..NConn -> Conn] /\ \A c \in Conn : free_connq[c] = c
      BY DEF Init, Conn
  <2>2. free_connq \in Seq(Conn)
      BY <2>1, SeqDef
  <2> QED BY <2>1, <2>2 DEF ToSet, IsInjective, Conn
<1>3. TypeOK
  <2>1. /\ <<>> \in Seq(Conn) /\ <<>> \in Seq(Event) /\ <<>> \in Seq(Msg)
        /\ <<>> \in Seq(Msg \X (Msg \cup {ErrorReply}))
      OBVIOUS
  <2>2. /\ conn \in [Conn -> ConnRec] /\ msg \in [Msg -> MsgRec]
        /\ sock \in [Sd -> SockRec] /\ s_conn_q \in [Server -> Seq(Conn)]
        /\ asked \in [Sd -> Seq(Msg)]
        /\ answered \in [Sd -> Seq(Msg \X (Msg \cup {ErrorReply}))]
      BY <1>1, <2>1 DEF Init
  <2>3. 0 \in 0..MaxSd /\ 0 \in 0..MaxMsg /\ 0 \in 0..MaxFault /\ 0 \in 0..MaxFull
      OBVIOUS
  <2> QED BY <1>2, <2>1, <2>2, <2>3 DEF Init, TypeOK, PC
<1>4. \A s \in Server : ToSet(s_conn_q[s]) = {} /\ IsInjective(s_conn_q[s])
                        /\ Len(s_conn_q[s]) = 0
    BY DEF Init, ToSet, IsInjective
<1>5. \A c \in Conn : conn[c].owner = None /\ None \notin Server
    BY DEF Init, NoConn, None, Server
<1>6. ConnPools
    BY <1>2, <1>4, <1>5 DEF ConnPools, Attached
<1>7. Control
    BY <1>5 DEF Init, Control, Handling, Forwarding, Attached
<1>8. ClientLimit
  <2>1. Clients = {}
      BY <1>5 DEF Clients, Attached
  <2>2. Cardinality(Clients) = 0
      BY <2>1, FS_EmptySet
  <2> QED BY <2>2 DEF ClientLimit
<1> QED BY <1>3, <1>6, <1>7, <1>8 DEF IInv

(* Something arrives on a socket.                                          *)
LEMMA SockArrives ==
    ASSUME TypeOK, NEW d \in Sd, NEW x \in Item, Arrives(d, x)
    PROVE  sock' \in [Sd -> SockRec]
<1>1. sock[d] \in SockRec /\ Append(sock[d].inq, x) \in Seq(Item)
    BY DEF TypeOK, SockRec
<1>2. [sock[d] EXCEPT !.inq = Append(@, x), !.rdy = TRUE] \in SockRec
    BY <1>1 DEF SockRec
<1> QED BY <1>2 DEF Arrives, TypeOK

(* What peers do keeps the types.                                          *)
LEMMA TypePeers == ASSUME IInv, Peers PROVE TypeOK'
<1> USE ConstantsAssumption
<1> TypeOK
    BY DEF IInv
<1>1. CASE ClientConnects
    BY <1>1 DEF ClientConnects, TypeOK, tables, requests, control, history
<1>2. ASSUME NEW d \in Sd, NEW k \in CLIENT_ITEMS, ClientSends(d, k) PROVE TypeOK'
  <2>1. nmsg + 1 \in Msg /\ nmsg' \in 0..MaxMsg
      BY <1>2 DEF ClientSends, TypeOK, Msg
  <2>2. <<k, nmsg + 1>> \in Item
      BY <1>2, <2>1 DEF ClientSends, Item
  <2>3. sock' \in [Sd -> SockRec]
      BY <1>2, <2>2, SockArrives DEF ClientSends
  <2> QED BY <1>2, <2>1, <2>3 DEF ClientSends, TypeOK, tables, requests, control, history
<1>3. ASSUME NEW d \in Sd, NEW k \in CLIENT_ITEMS, ClientStops(d, k) PROVE TypeOK'
  <2>1. <<k, None>> \in Item
      BY <1>3 DEF ClientStops, Item
  <2>2. sock' \in [Sd -> SockRec]
      BY <1>3, <2>1, SockArrives DEF ClientStops
  <2> QED BY <1>3, <2>2 DEF ClientStops, Faulty, TypeOK, tables, requests, control, history
<1>4. ASSUME NEW d \in Sd, ClientResets(d) \/ ServerResets(d) \/ ConnectFails(d)
      PROVE  TypeOK'
  <2>1. sock' \in [Sd -> SockRec]
    <3>1. sock[d] \in SockRec /\ <<>> \in Seq(Msg)
        BY DEF TypeOK
    <3>2. [sock[d] EXCEPT !.kerr = TRUE, !.rdy = TRUE, !.wire = <<>>] \in SockRec
        BY <3>1 DEF SockRec
    <3> QED BY <1>4, <3>2 DEF ClientResets, ServerResets, ConnectFails, Resets, TypeOK
  <2> QED BY <1>4, <2>1 DEF ClientResets, ServerResets, ConnectFails, Faulty, TypeOK,
                            tables, requests, control, history
<1>5. ASSUME NEW d \in Sd, ServerReplies(d) \/ ServerRepliesEarly(d) \/ ServerFails(d)
      PROVE  TypeOK'
  <2>1. /\ sock[d].wire \in Seq(Msg) /\ sock[d].wire # <<>>
        /\ sock[d] \in SockRec
      BY <1>5 DEF ServerReplies, ServerRepliesEarly, ServerFails, TypeOK, SockRec
  <2>2. Head(sock[d].wire) \in Msg /\ Tail(sock[d].wire) \in Seq(Msg)
      BY <2>1
  <2>3. PICK k \in {"rsp", "fail"} : Answers(d, k)
      BY <1>5 DEF ServerReplies, ServerRepliesEarly, ServerFails
  <2>4. <<k, Head(sock[d].wire)>> \in Item
      BY <2>2 DEF Item
  <2>5. sock' \in [Sd -> SockRec]
    <3>1. Append(sock[d].inq, <<k, Head(sock[d].wire)>>) \in Seq(Item)
        BY <2>1, <2>4 DEF SockRec
    <3>2. [sock[d] EXCEPT !.inq = Append(@, <<k, Head(sock[d].wire)>>),
                          !.wire = Tail(@), !.rdy = TRUE] \in SockRec
        BY <2>1, <2>2, <3>1 DEF SockRec
    <3> QED BY <2>3, <3>2 DEF Answers, TypeOK
  <2>6. /\ UNCHANGED <<tables, requests, control, history, nsd, nmsg, nfull, backlog>>
        /\ nfault' = nfault \/ Faulty
      BY <1>5 DEF ServerReplies, ServerRepliesEarly, ServerFails, bounds
  <2> QED BY <2>5, <2>6 DEF Faulty, TypeOK, tables, requests, control, history
<1>6. ASSUME NEW d \in Sd, ServerCloses(d) PROVE TypeOK'
  <2>1. <<"eof", None>> \in Item
      BY DEF Item
  <2>2. sock' \in [Sd -> SockRec]
    <3>1. /\ sock[d] \in SockRec /\ <<>> \in Seq(Msg)
          /\ Append(sock[d].inq, <<"eof", None>>) \in Seq(Item)
        BY <2>1 DEF TypeOK, SockRec
    <3>2. [sock[d] EXCEPT !.inq = Append(@, <<"eof", None>>),
                          !.wire = <<>>, !.rdy = TRUE] \in SockRec
        BY <3>1 DEF SockRec
    <3> QED BY <1>6, <3>2 DEF ServerCloses, TypeOK
  <2>3. /\ UNCHANGED <<tables, requests, control, history, nsd, nmsg, nfull, backlog>>
        /\ Faulty
      BY <1>6 DEF ServerCloses
  <2> QED BY <2>2, <2>3 DEF Faulty, TypeOK, tables, requests, control, history
<1>7. ASSUME NEW d \in Sd, ConnectSucceeds(d) \/ SocketDrains(d) PROVE TypeOK'
  <2>1. sock' \in [Sd -> SockRec]
    <3>1. sock[d] \in SockRec
        BY DEF TypeOK
    <3>2. /\ [sock[d] EXCEPT !.up = TRUE, !.rdy = TRUE] \in SockRec
          /\ [sock[d] EXCEPT !.full = FALSE, !.rdy = TRUE] \in SockRec
        BY <3>1 DEF SockRec
    <3> QED BY <1>7, <3>2 DEF ConnectSucceeds, SocketDrains, TypeOK
  <2> QED BY <1>7, <2>1 DEF ConnectSucceeds, SocketDrains, TypeOK, tables, requests,
                            control, bounds, history
<1> QED BY <1>1, <1>2, <1>3, <1>4, <1>5, <1>6, <1>7 DEF Peers

-----------------------------------------------------------------------------
(* Closing connections.                                                    *)

(* What both ways to close a connection leave behind: c is back in the     *)
(* free list, at most the socket of c is gone and nothing else moved.      *)
Tables ==
    /\ conn \in [Conn -> ConnRec] /\ msg \in [Msg -> MsgRec]
    /\ sock \in [Sd -> SockRec]
    /\ free_connq \in Seq(Conn) /\ s_conn_q \in [Server -> Seq(Conn)]

Released(c) ==
    /\ Tables' /\ ConnPools'
    /\ conn'[c].owner = None
    /\ \A k \in Conn \ {c} : /\ conn'[k].owner = conn[k].owner
                             /\ conn'[k].client = conn[k].client
                             /\ conn'[k].sd = conn[k].sd

SameShape(cn) == \A k \in Conn : /\ cn[k].owner = conn[k].owner
                                 /\ cn[k].client = conn[k].client
                                 /\ cn[k].sd = conn[k].sd

(* What becomes of a request.                                              *)
LEMMA ReqPutType ==
    ASSUME NEW r \in MsgRec
    PROVE  req_put(r) \in MsgRec /\ msg_tmo_delete(r) \in MsgRec
           /\ Fail(r) \in MsgRec /\ Abandoned(r) \in MsgRec
           /\ Swallowed(r) \in MsgRec
<1>1. msg_tmo_delete(r) \in MsgRec
  <2>1. 0 \in Nat
      OBVIOUS
  <2> QED BY <2>1 DEF msg_tmo_delete, MsgRec
<1>2. \A x \in MsgRec : [x EXCEPT !.st = "freed", !.peer = None] \in MsgRec
    BY DEF MsgRec
<1>3. req_put(r) \in MsgRec
    BY <1>1, <1>2 DEF req_put
<1>4. Fail(r) \in MsgRec
    BY DEF Fail, MsgRec
<1>5. [r EXCEPT !.swallow = TRUE] \in MsgRec
    BY DEF MsgRec
<1>6. \A x \in MsgRec : [x EXCEPT !.done = TRUE] \in MsgRec
    BY DEF MsgRec
<1> QED BY <1>1, <1>3, <1>4, <1>5, <1>6 DEF Abandoned, Swallowed

(* The free list and the queues of the servers when c is given back.       *)
LEMMA PoolsRelease ==
    ASSUME IInv, NEW c \in Conn, Attached(c),
           conn' \in [Conn -> ConnRec], conn'[c].owner = None,
           \A k \in Conn \ {c} : conn'[k].owner = conn[k].owner,
           free_connq' = <<c>> \o free_connq,
           \/ conn[c].owner = Pool /\ s_conn_q' = s_conn_q
           \/ /\ conn[c].owner \in Server
              /\ s_conn_q' = [s_conn_q EXCEPT ![conn[c].owner] = server_unref(@, c)]
    PROVE  /\ free_connq' \in Seq(Conn) /\ s_conn_q' \in [Server -> Seq(Conn)]
           /\ ConnPools'
<1> USE ConstantsAssumption
<1>1. /\ free_connq \in Seq(Conn) /\ s_conn_q \in [Server -> Seq(Conn)]
      /\ IsInjective(free_connq) /\ c \notin ToSet(free_connq)
    BY DEF IInv, TypeOK, ConnPools
<1>2. /\ free_connq' \in Seq(Conn) /\ IsInjective(free_connq')
      /\ ToSet(free_connq') = ToSet(free_connq) \cup {c}
    BY <1>1, PushFacts
<1>3. ASSUME NEW k \in Conn PROVE k \in ToSet(free_connq') <=> ~Attached(k)'
  <2>1. k \in ToSet(free_connq) <=> ~Attached(k)
      BY DEF IInv, ConnPools
  <2>2. CASE k = c
      BY <1>2, <2>2 DEF Attached
  <2>3. CASE k # c
    <3>1. conn'[k].owner = conn[k].owner
        BY <2>3
    <3> QED BY <1>2, <2>1, <2>3, <3>1 DEF Attached
  <2> QED BY <2>2, <2>3
<1>4. None \notin Server /\ Pool \notin Server
    BY DEF Server, None, Pool
<1>5. ASSUME NEW s \in Server
      PROVE  /\ s_conn_q'[s] \in Seq(Conn) /\ IsInjective(s_conn_q'[s])
             /\ Len(s_conn_q'[s]) <= SERVER_CONNECTIONS
             /\ \A k \in Conn : k \in ToSet(s_conn_q'[s]) <=> conn'[k].owner = s
  <2>1. /\ s_conn_q[s] \in Seq(Conn) /\ IsInjective(s_conn_q[s])
        /\ Len(s_conn_q[s]) <= SERVER_CONNECTIONS /\ Len(s_conn_q[s]) \in Nat
        /\ \A k \in Conn : k \in ToSet(s_conn_q[s]) <=> conn[k].owner = s
    <3>1. s_conn_q[s] \in Seq(Conn) /\ Len(s_conn_q[s]) \in Nat
        BY <1>1
    <3>2. /\ IsInjective(s_conn_q[s]) /\ Len(s_conn_q[s]) <= SERVER_CONNECTIONS
          /\ \A k \in Conn : k \in ToSet(s_conn_q[s]) <=> conn[k].owner = s
        BY DEF IInv, ConnPools
    <3> QED BY <3>1, <3>2
  <2>2. CASE conn[c].owner # s
    <3>1. s_conn_q'[s] = s_conn_q[s]
        BY <1>1, <2>2
    <3> QED BY <1>4, <2>1, <2>2, <3>1
  <2>3. CASE conn[c].owner = s
    <3>1. s_conn_q'[s] = server_unref(s_conn_q[s], c)
        BY <1>1, <1>4, <2>3
    <3>2. c \in ToSet(s_conn_q[s])
        BY <2>1, <2>3
    <3>3. /\ s_conn_q'[s] \in Seq(Conn) /\ IsInjective(s_conn_q'[s])
          /\ Len(s_conn_q'[s]) = Len(s_conn_q[s]) - 1
          /\ ToSet(s_conn_q'[s]) = ToSet(s_conn_q[s]) \ {c}
        BY <2>1, <3>1, <3>2, UnrefFacts
    <3>4. Len(s_conn_q'[s]) <= SERVER_CONNECTIONS
        BY <2>1, <3>3
    <3> QED BY <1>4, <2>1, <3>3, <3>4
  <2> QED BY <2>2, <2>3
<1>6. s_conn_q' \in [Server -> Seq(Conn)]
  <2>1. s_conn_q' = [s \in Server |-> s_conn_q'[s]]
      BY <1>1
  <2> QED BY <1>5, <2>1
<1> QED BY <1>2, <1>3, <1>5, <1>6 DEF ConnPools

(* client_close gives the connection back.                                 *)
LEMMA ClientCloseStep ==
    ASSUME IInv,
           NEW STATE cn, cn \in [Conn -> ConnRec], SameShape(cn),
           NEW STATE mg, mg \in [Msg -> MsgRec],
           NEW STATE sk, sk \in [Sd -> SockRec],
           NEW STATE c, c \in Conn, conn[c].owner = Pool,
           client_close(cn, mg, sk, c)
    PROVE  Released(c)
<1>1. msg' \in [Msg -> MsgRec]
  <2>1. \A m \in Msg : mg[m] \in MsgRec /\ Abandoned(mg[m]) \in MsgRec
      BY ReqPutType
  <2> QED BY <2>1 DEF client_close
<1>2. sock' \in [Sd -> SockRec]
  <2>1. \A d \in Sd : [sk[d] EXCEPT !.open = FALSE] \in SockRec
      BY DEF SockRec
  <2> QED BY <2>1 DEF client_close
<1>3. conn' \in [Conn -> ConnRec]
  <2>1. <<>> \in Seq(Msg)
      OBVIOUS
  <2>2. \A r \in ConnRec :
          [r EXCEPT !.owner = None, !.sd = None, !.omsg_q = <<>>] \in ConnRec
      BY <2>1 DEF ConnRec
  <2>3. conn' = [cn EXCEPT ![c] =
                   [cn[c] EXCEPT !.owner = None, !.sd = None, !.omsg_q = <<>>]]
      BY DEF client_close
  <2> QED BY <2>2, <2>3
<1>4. /\ conn'[c].owner = None
      /\ \A k \in Conn \ {c} : conn'[k] = cn[k]
  <2>1. cn[c] \in ConnRec
      OBVIOUS
  <2> QED BY <2>1 DEF client_close, ConnRec
<1>5. Attached(c) /\ free_connq' = <<c>> \o free_connq /\ s_conn_q' = s_conn_q
    BY DEF client_close, Attached, Pool, None
<1>6. /\ free_connq' \in Seq(Conn) /\ s_conn_q' \in [Server -> Seq(Conn)]
      /\ ConnPools'
    BY <1>3, <1>4, <1>5, PoolsRelease DEF SameShape
<1> QED BY <1>1, <1>2, <1>3, <1>4, <1>6 DEF Released, Tables, SameShape

(* server_close gives it back, whether or not it walked the queues.        *)
LEMMA ServerCloseStep ==
    ASSUME IInv,
           NEW STATE cn, cn \in [Conn -> ConnRec], SameShape(cn),
           NEW STATE mg, mg \in [Msg -> MsgRec],
           NEW STATE sk, sk \in [Sd -> SockRec],
           NEW STATE c, c \in Conn, conn[c].owner \in Server,
           server_close(cn, mg, sk, c)
    PROVE  Released(c)
<1> DEFINE put == [cn EXCEPT ![c].owner = None, ![c].connected = FALSE]
<1>1. /\ put \in [Conn -> ConnRec] /\ put[c].owner = None
      /\ \A k \in Conn \ {c} : put[k] = cn[k]
  <2>1. cn[c] \in ConnRec
      OBVIOUS
  <2>2. [cn[c] EXCEPT !.owner = None, !.connected = FALSE] \in ConnRec
      BY <2>1 DEF ConnRec
  <2>3. [cn[c] EXCEPT !.owner = None, !.connected = FALSE].owner = None
      BY <2>1 DEF ConnRec
  <2> QED BY <2>2, <2>3
<1>2. /\ conn' \in [Conn -> ConnRec] /\ conn'[c].owner = None
      /\ \A k \in Conn \ {c} : /\ conn'[k].owner = cn[k].owner
                               /\ conn'[k].client = cn[k].client
                               /\ conn'[k].sd = cn[k].sd
      /\ sock' \in [Sd -> SockRec] /\ msg' \in [Msg -> MsgRec]
  <2>1. CASE cn[c].sd # None
      BY <2>1, <1>1 DEF server_close
  <2>2. CASE cn[c].sd = None
    <3>1. <<>> \in Seq(Msg)
        OBVIOUS
    <3>2. ASSUME NEW r \in ConnRec
          PROVE  /\ [r EXCEPT !.imsg_q = <<>>, !.omsg_q = <<>>] \in ConnRec
                 /\ [r EXCEPT !.imsg_q = <<>>, !.omsg_q = <<>>].owner = r.owner
                 /\ [r EXCEPT !.send_active = TRUE] \in ConnRec
                 /\ [r EXCEPT !.send_active = TRUE].owner = r.owner
                 /\ [r EXCEPT !.send_active = TRUE].client = r.client
                 /\ [r EXCEPT !.send_active = TRUE].sd = r.sd
        BY <3>1 DEF ConnRec
    <3>3. \A r \in SockRec : [r EXCEPT !.rdy = TRUE] \in SockRec
        BY DEF SockRec
    <3>4. /\ \A m \in Msg : /\ mg[m] \in MsgRec /\ req_put(mg[m]) \in MsgRec
                            /\ Fail(mg[m]) \in MsgRec
                            /\ Fail(msg_tmo_delete(mg[m])) \in MsgRec
        BY ReqPutType
    <3>5. /\ conn' \in [Conn -> ConnRec]
          /\ conn'[c] = [put[c] EXCEPT !.imsg_q = <<>>, !.omsg_q = <<>>]
          /\ \A k \in Conn \ {c} :
               conn'[k] = put[k] \/ conn'[k] = [put[k] EXCEPT !.send_active = TRUE]
      <4>1. ASSUME NEW k \in Conn
            PROVE  /\ k = c => conn'[k] = [put[c] EXCEPT !.imsg_q = <<>>, !.omsg_q = <<>>]
                   /\ k # c => \/ conn'[k] = put[k]
                               \/ conn'[k] = [put[k] EXCEPT !.send_active = TRUE]
          BY <2>2 DEF server_close
      <4>2. conn' = [k \in Conn |-> conn'[k]]
          BY <2>2 DEF server_close
      <4>3. \A k \in Conn : put[k] \in ConnRec
          BY <1>1
      <4> HIDE DEF put
      <4>4. ASSUME NEW k \in Conn PROVE conn'[k] \in ConnRec
        <5>1. /\ put[k] \in ConnRec
              /\ [put[k] EXCEPT !.imsg_q = <<>>, !.omsg_q = <<>>] \in ConnRec
              /\ [put[k] EXCEPT !.send_active = TRUE] \in ConnRec
            BY <4>3, <3>2
        <5>2. \/ conn'[k] = [put[k] EXCEPT !.imsg_q = <<>>, !.omsg_q = <<>>]
              \/ conn'[k] = put[k]
              \/ conn'[k] = [put[k] EXCEPT !.send_active = TRUE]
            BY <4>1, Zenon
        <5> QED BY <5>1, <5>2, Zenon
      <4> QED BY <4>1, <4>2, <4>4
    <3>6. msg' \in [Msg -> MsgRec]
        BY <2>2, <3>4 DEF server_close
    <3>7. sock' \in [Sd -> SockRec]
      <4>1. ASSUME NEW d \in Sd
            PROVE  sock'[d] = sk[d] \/ sock'[d] = [sk[d] EXCEPT !.rdy = TRUE]
          BY <2>2 DEF server_close
      <4>2. sock' = [d \in Sd |-> sock'[d]]
          BY <2>2 DEF server_close
      <4>3. \A d \in Sd : sock'[d] \in SockRec
          BY <3>3, <4>1
      <4> QED BY <4>2, <4>3
    <3>8. \A k \in Conn : put[k] \in ConnRec
        BY <1>1
    <3> QED BY <1>1, <3>2, <3>5, <3>6, <3>7, <3>8
  <2> QED BY <2>1, <2>2
<1>3. /\ Attached(c) /\ free_connq' = <<c>> \o free_connq
      /\ s_conn_q' = [s_conn_q EXCEPT ![conn[c].owner] = server_unref(@, c)]
  <2>1. cn[c].owner = conn[c].owner
      BY DEF SameShape
  <2>2. Attached(c)
      BY DEF Attached, Server, None
  <2> QED BY <2>1, <2>2 DEF server_close
<1>4. /\ free_connq' \in Seq(Conn) /\ s_conn_q' \in [Server -> Seq(Conn)]
      /\ ConnPools'
    BY <1>2, <1>3, PoolsRelease DEF SameShape
<1> QED BY <1>2, <1>4 DEF Released, Tables, SameShape

(* core_close gives the connection back, or dereferences NULL and crashes. *)
LEMMA CoreCloseStep ==
    ASSUME IInv,
           NEW STATE cn, cn \in [Conn -> ConnRec], SameShape(cn),
           NEW STATE mg, mg \in [Msg -> MsgRec],
           NEW STATE c, c \in Conn, NEW CONSTANT after,
           core_close(cn, mg, c, after)
    PROVE  \/ pc' = "crash" /\ UNCHANGED <<tables, msg, sock>>
           \/ pc' = after /\ Released(c)
<1> DEFINE k == [cn EXCEPT ![c].send_active = FALSE]
           sk == [sock EXCEPT ![cn[c].sd].ptr = None]
<1>1. CASE cn[c].owner = None
    BY <1>1 DEF core_close, Crash
<1>2. CASE cn[c].owner # None
  <2>1. cn[c] \in ConnRec
      OBVIOUS
  <2>2. LET r == [cn[c] EXCEPT !.send_active = FALSE]
        IN r \in ConnRec /\ r.owner = cn[c].owner /\ r.client = cn[c].client
           /\ r.sd = cn[c].sd
      BY <2>1 DEF ConnRec
  <2>3. k \in [Conn -> ConnRec] /\ SameShape(k)
      BY <2>2 DEF SameShape
  <2>4. sk \in [Sd -> SockRec]
    <3>1. \A r \in SockRec : [r EXCEPT !.ptr = None] \in SockRec
        BY DEF SockRec
    <3>2. sock \in [Sd -> SockRec]
        BY DEF IInv, TypeOK
    <3> QED BY <3>1, <3>2
  <2>5. /\ pc' = after
        /\ IF cn[c].client THEN client_close(k, mg, sk, c)
                           ELSE server_close(k, mg, sk, c)
      BY <1>2 DEF core_close
  <2>6. /\ (conn[c].client <=> conn[c].owner = Pool)
        /\ conn[c].owner \in Server \cup {Pool}
      BY <1>2 DEF IInv, TypeOK, Control, Attached, SameShape, ConnRec
  <2> HIDE DEF k, sk
  <2>7. CASE cn[c].client
      BY <2>3, <2>4, <2>5, <2>6, <2>7, ClientCloseStep DEF SameShape
  <2>8. CASE ~cn[c].client
      BY <2>3, <2>4, <2>5, <2>6, <2>8, ServerCloseStep DEF SameShape
  <2> QED BY <2>7, <2>8
<1> QED BY <1>1, <1>2

-----------------------------------------------------------------------------
(* Changes of conn that move no structure between the tables.              *)
Edited(cn) == cn \in [Conn -> ConnRec] /\ SameShape(cn)

(* Replacing one structure by a similar one.                               *)
LEMMA EditedAt ==
    ASSUME NEW STATE cn, Edited(cn), NEW STATE c, NEW STATE r,
           c \in Conn => /\ r \in ConnRec
                         /\ r.owner = cn[c].owner /\ r.client = cn[c].client
                         /\ r.sd = cn[c].sd
    PROVE  Edited([cn EXCEPT ![c] = r])
<1>1. [cn EXCEPT ![c] = r] \in [Conn -> ConnRec]
    BY DEF Edited
<1>2. ASSUME NEW k \in Conn
      PROVE  /\ [cn EXCEPT ![c] = r][k].owner = conn[k].owner
             /\ [cn EXCEPT ![c] = r][k].client = conn[k].client
             /\ [cn EXCEPT ![c] = r][k].sd = conn[k].sd
  <2>1. /\ cn[k].owner = conn[k].owner /\ cn[k].client = conn[k].client
        /\ cn[k].sd = conn[k].sd
      BY DEF Edited, SameShape
  <2>2. CASE k = c
    <3>1. [cn EXCEPT ![c] = r][k] = r
        BY <2>2 DEF Edited
    <3> QED BY <2>1, <2>2, <3>1
  <2>3. CASE k # c
    <3>1. [cn EXCEPT ![c] = r][k] = cn[k]
        BY <2>3 DEF Edited
    <3> QED BY <2>1, <3>1
  <2> QED BY <2>2, <2>3
<1> QED BY <1>1, <1>2 DEF Edited, SameShape

(* The structures as they are.                                             *)
LEMMA ConnEdited == ASSUME IInv PROVE Edited(conn)
    BY DEF IInv, TypeOK, Edited, SameShape

(* event_add_out, wherever it is called.                                   *)
LEMMA AddOutFacts ==
    ASSUME NEW STATE cn, Edited(cn), NEW STATE c,
           NEW STATE sk, sk \in [Sd -> SockRec]
    PROVE  Edited(event_add_out(cn, c)) /\ Rearmed(sk, conn, c) \in [Sd -> SockRec]
<1>1. \A x \in ConnRec : /\ [x EXCEPT !.send_active = TRUE] \in ConnRec
                         /\ [x EXCEPT !.send_active = TRUE].owner = x.owner
                         /\ [x EXCEPT !.send_active = TRUE].client = x.client
                         /\ [x EXCEPT !.send_active = TRUE].sd = x.sd
    BY DEF ConnRec
<1>2. \A x \in SockRec : [x EXCEPT !.rdy = TRUE] \in SockRec
    BY DEF SockRec
<1> DEFINE r == [cn[c] EXCEPT !.send_active = TRUE]
<1>3. c \in Conn => /\ r \in ConnRec /\ r.owner = cn[c].owner
                    /\ r.client = cn[c].client /\ r.sd = cn[c].sd
    BY <1>1 DEF Edited
<1>4. event_add_out(cn, c) = [cn EXCEPT ![c] = r]
    BY DEF event_add_out
<1> HIDE DEF r
<1>5. Edited([cn EXCEPT ![c] = r])
    BY <1>3, EditedAt
<1>6. Rearmed(sk, conn, c) \in [Sd -> SockRec]
    BY <1>2 DEF Rearmed
<1> QED BY <1>4, <1>5, <1>6

(* The queues of messages.                                                 *)
LEMMA QueueFacts ==
    ASSUME NEW STATE cn, Edited(cn), NEW STATE c, c \in Conn,
           NEW STATE q, q \in Seq(Msg)
    PROVE  /\ Edited([cn EXCEPT ![c].omsg_q = q])
           /\ Edited([cn EXCEPT ![c].imsg_q = q])
<1>1. cn[c] \in ConnRec
    BY DEF Edited
<1> DEFINE r == [cn[c] EXCEPT !.omsg_q = q]
           p == [cn[c] EXCEPT !.imsg_q = q]
<1>2. /\ r \in ConnRec /\ r.owner = cn[c].owner /\ r.client = cn[c].client
      /\ r.sd = cn[c].sd
      /\ p \in ConnRec /\ p.owner = cn[c].owner /\ p.client = cn[c].client
      /\ p.sd = cn[c].sd
    BY <1>1 DEF ConnRec
<1>3. /\ [cn EXCEPT ![c].omsg_q = q] = [cn EXCEPT ![c] = r]
      /\ [cn EXCEPT ![c].imsg_q = q] = [cn EXCEPT ![c] = p]
    OBVIOUS
<1> HIDE DEF r, p
<1>4. Edited([cn EXCEPT ![c] = r]) /\ Edited([cn EXCEPT ![c] = p])
    BY <1>2, EditedAt
<1> QED BY <1>3, <1>4

(* The flags.                                                              *)
LEMMA FlagFacts ==
    ASSUME NEW STATE cn, Edited(cn), NEW STATE c, c \in Conn,
           NEW STATE b, b \in BOOLEAN
    PROVE  /\ Edited([cn EXCEPT ![c].err = TRUE])
           /\ Edited([cn EXCEPT ![c].send_active = FALSE])
           /\ Edited([cn EXCEPT ![c].eof = TRUE, ![c].done = b])
           /\ Edited([cn EXCEPT ![c].err = TRUE, ![c].done = TRUE])
           /\ Edited([cn EXCEPT ![c].connecting = FALSE, ![c].connected = b])
<1>1. cn[c] \in ConnRec
    BY DEF Edited
<1> DEFINE e == [cn[c] EXCEPT !.err = TRUE]
           f == [cn[c] EXCEPT !.send_active = FALSE]
           g == [cn[c] EXCEPT !.eof = TRUE, !.done = b]
           h == [cn[c] EXCEPT !.err = TRUE, !.done = TRUE]
           k == [cn[c] EXCEPT !.connecting = FALSE, !.connected = b]
<1>2. \A r \in {e, f, g, h, k} :
        /\ r \in ConnRec /\ r.owner = cn[c].owner /\ r.client = cn[c].client
        /\ r.sd = cn[c].sd
  <2>1. e \in ConnRec /\ f \in ConnRec /\ g \in ConnRec /\ h \in ConnRec /\ k \in ConnRec
      BY <1>1 DEF ConnRec
  <2>2. \A r \in {e, f, g, h, k} :
          r.owner = cn[c].owner /\ r.client = cn[c].client /\ r.sd = cn[c].sd
      BY <1>1 DEF ConnRec
  <2> QED BY <2>1, <2>2
<1>3. /\ [cn EXCEPT ![c].err = TRUE] = [cn EXCEPT ![c] = e]
      /\ [cn EXCEPT ![c].send_active = FALSE] = [cn EXCEPT ![c] = f]
      /\ [cn EXCEPT ![c].eof = TRUE, ![c].done = b] = [cn EXCEPT ![c] = g]
      /\ [cn EXCEPT ![c].err = TRUE, ![c].done = TRUE] = [cn EXCEPT ![c] = h]
      /\ [cn EXCEPT ![c].connecting = FALSE, ![c].connected = b] = [cn EXCEPT ![c] = k]
    BY DEF Edited
<1> HIDE DEF e, f, g, h, k
<1>4. /\ Edited([cn EXCEPT ![c] = e]) /\ Edited([cn EXCEPT ![c] = f])
      /\ Edited([cn EXCEPT ![c] = g]) /\ Edited([cn EXCEPT ![c] = h])
      /\ Edited([cn EXCEPT ![c] = k])
    BY <1>2, EditedAt
<1> QED BY <1>3, <1>4

(* A step that moves no structure between the tables keeps them right.     *)
LEMMA Quiet ==
    ASSUME IInv, TypeOK', UNCHANGED <<free_connq, s_conn_q>>, SameShape(conn'),
           pc # "reject",
           pc' \in Handling => cur' \in Conn /\ Attached(cur'),
           pc' \in Forwarding => cmsg' \in Msg /\ conn[cur'].client,
           pc' \in {"enqueue", "reject"} =>
              scur' \in Conn /\ conn[scur'].owner \in Server
    PROVE  IInv'
<1>1. \A c \in Conn : Attached(c)' <=> Attached(c)
    BY DEF SameShape, Attached
<1>2. ConnPools'
    BY <1>1 DEF IInv, ConnPools, SameShape
<1>3. Control'
  <2>1. Forwarding \subseteq Handling /\ {"enqueue", "reject"} \subseteq Handling
      BY DEF Forwarding, Handling
  <2>2. pc' \in Handling => cur' \in Conn /\ Attached(cur)'
      BY <1>1
  <2>3. pc' \in Forwarding => cmsg' \in Msg /\ conn'[cur'].client
      BY <2>1, <2>2 DEF SameShape
  <2>4. pc' \in {"enqueue", "reject"} => scur' \in Conn /\ conn'[scur'].owner \in Server
      BY DEF SameShape
  <2>5. ASSUME NEW c \in Conn, Attached(c)'
        PROVE  (conn'[c].client <=> conn'[c].owner = Pool) /\ conn'[c].sd # None
    <3>1. Attached(c)
        BY <1>1, <2>5
    <3>2. /\ conn'[c].owner = conn[c].owner /\ conn'[c].client = conn[c].client
          /\ conn'[c].sd = conn[c].sd
        BY DEF SameShape
    <3>3. (conn[c].client <=> conn[c].owner = Pool) /\ conn[c].sd # None
        BY <3>1 DEF IInv, Control
    <3> QED BY <3>2, <3>3
  <2> QED BY <2>2, <2>3, <2>4, <2>5 DEF Control
<1>4. ClientLimit'
  <2>1. \A k \in Conn : conn'[k].client /\ Attached(k)' => k \in Clients
      BY <1>1 DEF SameShape, Clients
  <2> QED BY <2>1, FewerClients
<1> QED BY <1>2, <1>3, <1>4 DEF IInv

-----------------------------------------------------------------------------
(* The event loop.                                                         *)
(* Steps of the loop itself change nothing but control.                    *)
LEMMA UnmovedType ==
    ASSUME IInv, UNCHANGED <<tables, requests, sock, bounds, history>>,
           pc' \in PC, cur' \in Conn \cup {None}, cmsg' \in Msg \cup {None},
           scur' \in Conn \cup {None}, wr' \in BOOLEAN, batch' \in Seq(Event)
    PROVE  TypeOK' /\ UNCHANGED <<free_connq, s_conn_q>> /\ SameShape(conn')
<1>1. /\ conn' = conn /\ free_connq' = free_connq /\ s_conn_q' = s_conn_q
      /\ msg' = msg /\ clock' = clock /\ sock' = sock
      /\ nsd' = nsd /\ nmsg' = nmsg /\ nfault' = nfault /\ nfull' = nfull
      /\ backlog' = backlog /\ asked' = asked /\ answered' = answered
    BY DEF tables, requests, bounds, history
<1> QED BY <1>1 DEF IInv, TypeOK, SameShape

(* What epoll_wait reports of a socket is an event.                        *)
LEMMA EventOfType ==
    ASSUME TypeOK, NEW d \in Sd, Reported(d)
    PROVE  EventOf(d) \in Event
<1>1. sock[d] \in SockRec /\ sock[d].ptr \in Conn
    BY DEF TypeOK, SockRec, Reported
<1>2. /\ sock[d].kerr \in BOOLEAN /\ CanRead(d) \in BOOLEAN
      /\ (sock[d].hup \/ (CanWrite(d) /\ conn[sock[d].ptr].send_active)) \in BOOLEAN
    BY <1>1, Zenon DEF SockRec, CanRead
<1> QED BY <1>1, <1>2, Zenon DEF EventOf, Event

(* event_wait.                                                             *)
LEMMA EventWaitStep == ASSUME IInv, event_wait PROVE IInv'
<1>1. PICK k \in 1..NEvent : \E src \in [1..k -> Sources] :
         /\ batch' = [i \in 1..k |-> IF src[i] = Pool THEN Accepting
                                                      ELSE EventOf(src[i])]
         /\ sock' = [d \in Sd |-> IF d \in ToSet(src)
                                  THEN [sock[d] EXCEPT !.rdy = FALSE] ELSE sock[d]]
    BY DEF event_wait
<1>2. PICK src \in [1..k -> Sources] :
         /\ batch' = [i \in 1..k |-> IF src[i] = Pool THEN Accepting
                                                      ELSE EventOf(src[i])]
         /\ sock' = [d \in Sd |-> IF d \in ToSet(src)
                                  THEN [sock[d] EXCEPT !.rdy = FALSE] ELSE sock[d]]
    BY <1>1
<1>3. TypeOK
    BY DEF IInv
<1>4. batch' \in Seq(Event)
  <2>1. Accepting \in Event
      BY DEF Accepting, Event
  <2>2. ASSUME NEW i \in 1..k, src[i] # Pool PROVE EventOf(src[i]) \in Event
    <3>1. src[i] \in Sd /\ Reported(src[i])
        BY <2>2 DEF Sources
    <3> QED BY <1>3, <3>1, EventOfType
  <2>3. batch' \in [1..k -> Event]
      BY <1>2, <2>1, <2>2
  <2>4. k \in Nat
      BY ConstantsAssumption
  <2> QED BY <2>3, <2>4, SeqDef
<1>5. sock' \in [Sd -> SockRec]
  <2>1. \A r \in SockRec : [r EXCEPT !.rdy = FALSE] \in SockRec
      BY DEF SockRec
  <2> QED BY <1>2, <1>3, <2>1 DEF TypeOK
<1>6. /\ conn' = conn /\ free_connq' = free_connq /\ s_conn_q' = s_conn_q
      /\ msg' = msg /\ clock' = clock /\ nsd' = nsd /\ nmsg' = nmsg
      /\ nfault' = nfault /\ nfull' = nfull /\ backlog' = backlog
      /\ asked' = asked /\ answered' = answered
      /\ cur' = cur /\ cmsg' = cmsg /\ scur' = scur /\ wr' = wr
      /\ pc = "wait" /\ pc' = "event"
    BY DEF event_wait, tables, requests, bounds, history
<1>7. TypeOK' /\ SameShape(conn')
    BY <1>3, <1>4, <1>5, <1>6 DEF TypeOK, PC, SameShape
<1> QED BY <1>6, <1>7, Quiet DEF Handling, Forwarding

(* From one stage of the loop to the next.                                 *)
LEMMA TurnStep ==
    ASSUME IInv, event_wait_timeout \/ EventsHandled \/ ProxyAgain
    PROVE  IInv'
<1>1. /\ UNCHANGED <<tables, requests, sock, bounds, history>>
      /\ UNCHANGED <<cur, cmsg, scur, wr, batch>>
      /\ pc \in {"wait", "event", "accept"} /\ pc' \in {"event", "timeout"}
    BY DEF event_wait_timeout, EventsHandled, ProxyAgain
<1>2. /\ pc' \in PC /\ cur' \in Conn \cup {None} /\ cmsg' \in Msg \cup {None}
      /\ scur' \in Conn \cup {None} /\ wr' \in BOOLEAN /\ batch' \in Seq(Event)
    BY <1>1 DEF IInv, TypeOK, PC
<1>3. TypeOK' /\ UNCHANGED <<free_connq, s_conn_q>> /\ SameShape(conn')
    BY <1>1, <1>2, UnmovedType
<1> QED BY <1>1, <1>3, Quiet DEF Handling, Forwarding

(* After a connection was given back, or NULL was dereferenced.            *)
LEMMA ClosedStep ==
    ASSUME IInv, NEW STATE c, c \in Conn,
           \/ pc' = "crash" /\ UNCHANGED <<tables, msg, sock>>
           \/ pc' \in {"event", "timeout"} /\ Released(c),
           UNCHANGED <<clock, bounds, history, cmsg, scur>>,
           cur' \in Conn \cup {None}, wr' \in BOOLEAN, batch' \in Seq(Event),
           pc # "reject"
    PROVE  IInv'
<1>1. Tables'
    BY DEF Released, Tables, tables, IInv, TypeOK
<1>2. /\ clock' = clock /\ nsd' = nsd /\ nmsg' = nmsg /\ nfault' = nfault
      /\ nfull' = nfull /\ backlog' = backlog /\ asked' = asked
      /\ answered' = answered /\ cmsg' = cmsg /\ scur' = scur
    BY DEF bounds, history
<1>3. pc' \in PC
    BY DEF PC
<1>4. TypeOK'
    BY <1>1, <1>2, <1>3 DEF IInv, TypeOK, Tables
<1>5. pc' \notin Handling /\ pc' \notin Forwarding
    BY DEF Handling, Forwarding
<1>6. CASE pc' = "crash" /\ UNCHANGED <<tables, msg, sock>>
  <2>1. UNCHANGED <<free_connq, s_conn_q>> /\ SameShape(conn')
      BY <1>6 DEF tables, SameShape
  <2> QED BY <1>4, <1>5, <2>1, Quiet DEF Forwarding
<1>7. CASE pc' \in {"event", "timeout"} /\ Released(c)
  <2>1. ASSUME NEW k \in Conn, Attached(k)'
        PROVE  (conn'[k].client <=> conn'[k].owner = Pool) /\ conn'[k].sd # None
    <3>1. k # c
        BY <1>7, <2>1 DEF Released, Attached
    <3>2. /\ conn'[k].owner = conn[k].owner /\ conn'[k].client = conn[k].client
          /\ conn'[k].sd = conn[k].sd
        BY <1>7, <3>1 DEF Released
    <3>3. Attached(k)
        BY <2>1, <3>2 DEF Attached
    <3>4. (conn[k].client <=> conn[k].owner = Pool) /\ conn[k].sd # None
        BY <3>3 DEF IInv, Control
    <3> QED BY <3>2, <3>4
  <2>2. pc' \notin {"enqueue", "reject"}
      BY <1>7
  <2>3. Control'
      BY <1>5, <2>1, <2>2 DEF Control
  <2>4. ClientLimit'
    <3>1. \A k \in Conn : conn'[k].client /\ Attached(k)' => k \in Clients
        BY <1>7 DEF Released, Clients, Attached
    <3> QED BY <3>1, FewerClients
  <2> QED BY <1>4, <1>7, <2>3, <2>4 DEF IInv, Released
<1> QED BY <1>6, <1>7

(* core_core.                                                              *)
LEMMA CoreCoreStep == ASSUME IInv, core_core PROVE IInv'
<1> DEFINE e == Head(batch)
<1>1. /\ pc = "event" /\ batch' = Tail(batch) /\ batch # <<>>
      /\ UNCHANGED <<clock, bounds, history, cmsg, scur>>
    BY DEF core_core
<1>2. e \in Event /\ batch' \in Seq(Event)
    BY <1>1 DEF IInv, TypeOK
<1>3. /\ cur \in Conn \cup {None} /\ cmsg \in Msg \cup {None}
      /\ scur \in Conn \cup {None} /\ wr \in BOOLEAN
    BY DEF IInv, TypeOK
<1>4. ASSUME UNCHANGED <<tables, msg, sock>>, pc' \in {"accept", "event", "recv", "send"},
             cur' \in Conn \cup {None}, wr' \in BOOLEAN,
             pc' \in Handling => cur' \in Conn /\ Attached(cur')
      PROVE  IInv'
  <2>1. UNCHANGED <<tables, requests, sock, bounds, history>>
      BY <1>1, <1>4 DEF requests
  <2>2. pc' \in PC /\ cmsg' \in Msg \cup {None} /\ scur' \in Conn \cup {None}
      BY <1>1, <1>3, <1>4 DEF PC
  <2>3. TypeOK' /\ UNCHANGED <<free_connq, s_conn_q>> /\ SameShape(conn')
      BY <1>2, <1>4, <2>1, <2>2, UnmovedType
  <2> QED BY <1>1, <1>4, <2>3, Quiet DEF Forwarding
<1>5. CASE e.c = Pool /\ pc' = "accept" /\ UNCHANGED <<tables, msg, sock, cur, wr>>
    BY <1>3, <1>4, <1>5 DEF Handling
<1>6. CASE UNCHANGED <<tables, msg, sock, cur, wr, pc>>
    BY <1>1, <1>3, <1>4, <1>6 DEF Handling
<1>7. CASE /\ e.c # Pool
           /\ core_close([conn EXCEPT ![e.c].err = TRUE], msg, e.c, "event")
           /\ UNCHANGED <<cur, wr>>
  <2>1. e.c \in Conn
      BY <1>2, <1>7 DEF Event
  <2>2. Edited([conn EXCEPT ![e.c].err = TRUE])
      BY <2>1, ConnEdited, FlagFacts
  <2>3. msg \in [Msg -> MsgRec]
      BY DEF IInv, TypeOK
  <2> DEFINE d == e.c
             cn == [conn EXCEPT ![d].err = TRUE]
  <2>4. core_close(cn, msg, d, "event")
      BY <1>7
  <2>5. Edited(cn) /\ d \in Conn
      BY <2>1, <2>2
  <2> HIDE DEF d, cn
  <2>6. \/ pc' = "crash" /\ UNCHANGED <<tables, msg, sock>>
        \/ pc' = "event" /\ Released(d)
      BY <2>3, <2>4, <2>5, CoreCloseStep DEF Edited
  <2>7. cur' \in Conn \cup {None} /\ wr' \in BOOLEAN
      BY <1>3, <1>7
  <2> QED BY <1>1, <1>2, <2>5, <2>6, <2>7, ClosedStep
<1>8. CASE /\ e.c # Pool /\ Attached(e.c) /\ ~e.err
           /\ pc' = IF e.in THEN "recv" ELSE "send"
           /\ cur' = e.c
           /\ wr' = (e.in /\ e.out)
           /\ UNCHANGED <<tables, msg, sock>>
  <2>1. e.c \in Conn
      BY <1>2, <1>8 DEF Event
  <2>2. (e.in /\ e.out) \in BOOLEAN
      OBVIOUS
  <2>3. pc' \in {"recv", "send"}
      BY <1>8
  <2> QED BY <1>4, <1>8, <2>1, <2>2, <2>3
<1> QED BY <1>5, <1>6, <1>7, <1>8, Zenon DEF core_core

(* The end of a handler.                                                   *)
LEMMA CheckStep == ASSUME IInv, CheckConn PROVE IInv'
<1>1. /\ pc = "check" /\ UNCHANGED <<clock, bounds, history, cmsg, scur, batch>>
    BY DEF CheckConn
<1>2. /\ cur \in Conn /\ Attached(cur) /\ msg \in [Msg -> MsgRec]
      /\ cmsg \in Msg \cup {None}
      /\ scur \in Conn \cup {None} /\ wr \in BOOLEAN /\ batch' \in Seq(Event)
    BY <1>1 DEF IInv, TypeOK, Control, Handling
<1>3. CASE core_close(conn, msg, cur, "event") /\ cur' = None /\ wr' = FALSE
  <2>1. \/ pc' = "crash" /\ UNCHANGED <<tables, msg, sock>>
        \/ pc' = "event" /\ Released(cur)
      BY <1>2, <1>3, ConnEdited, CoreCloseStep DEF Edited
  <2> QED BY <1>1, <1>2, <1>3, <2>1, ClosedStep
<1>4. CASE /\ IF wr THEN pc' = "send" /\ wr' = FALSE /\ UNCHANGED cur
                    ELSE pc' = "event" /\ cur' = None /\ UNCHANGED wr
           /\ UNCHANGED <<tables, msg, sock>>
  <2>1. UNCHANGED <<tables, requests, sock, bounds, history>>
      BY <1>1, <1>4 DEF requests
  <2>2. /\ pc' \in {"send", "event"} /\ cur' \in Conn \cup {None} /\ wr' \in BOOLEAN
        /\ pc' = "send" => cur' = cur
      BY <1>2, <1>4
  <2>3. pc' \in PC /\ cmsg' \in Msg \cup {None} /\ scur' \in Conn \cup {None}
      BY <1>1, <1>2, <2>2 DEF PC
  <2>4. TypeOK' /\ UNCHANGED <<free_connq, s_conn_q>> /\ SameShape(conn')
      BY <1>2, <2>1, <2>2, <2>3, UnmovedType
  <2>5. pc' \in Handling => cur' \in Conn /\ Attached(cur')
      BY <1>2, <2>2 DEF Handling
  <2> QED BY <1>1, <2>2, <2>4, <2>5, Quiet DEF Forwarding
<1> QED BY <1>3, <1>4 DEF CheckConn

(* core_timeout.                                                           *)
LEMMA TimeoutStep == ASSUME IInv, core_timeout PROVE IInv'
<1>1. /\ pc = "timeout"
      /\ UNCHANGED <<clock, bounds, history, cur, cmsg, scur, wr, batch>>
    BY DEF core_timeout
<1>2. /\ TypeOK /\ msg \in [Msg -> MsgRec]
      /\ cur' \in Conn \cup {None} /\ cmsg' \in Msg \cup {None}
      /\ scur' \in Conn \cup {None} /\ wr' \in BOOLEAN /\ batch' \in Seq(Event)
    BY <1>1 DEF IInv, TypeOK
<1>3. CASE pc' = "wait" /\ UNCHANGED <<tables, msg, sock>>
  <2>1. UNCHANGED <<tables, requests, sock, bounds, history>>
      BY <1>1, <1>3 DEF requests
  <2>2. pc' \in PC
      BY <1>3 DEF PC
  <2>3. TypeOK' /\ UNCHANGED <<free_connq, s_conn_q>> /\ SameShape(conn')
      BY <1>2, <2>1, <2>2, UnmovedType
  <2> QED BY <1>1, <1>3, <2>3, Quiet DEF Handling, Forwarding
<1>4. CASE tmo_rbt # {} /\ ~(pc' = "wait" /\ UNCHANGED <<tables, msg, sock>>)
  <2> DEFINE m == msg_tmo_min
             c == msg[m].tmo
             mg == [msg EXCEPT ![m] = msg_tmo_delete(@)]
  <2>1. m \in tmo_rbt
      BY <1>2, <1>4, TmoMin
  <2>2. m \in Msg /\ c \in Conn
      BY <1>2, <2>1 DEF tmo_rbt, TypeOK, MsgRec
  <2>3. mg \in [Msg -> MsgRec]
      BY <1>2, <2>2, ReqPutType
  <2>4. \/ msg' = mg /\ UNCHANGED <<tables, sock, pc>>
        \/ core_close([conn EXCEPT ![c].err = TRUE], mg, c, "timeout")
      BY <1>4 DEF core_timeout
  <2> HIDE DEF mg, m, c
  <2>5. CASE msg' = mg /\ UNCHANGED <<tables, sock, pc>>
    <3>1. /\ conn' = conn /\ free_connq' = free_connq /\ s_conn_q' = s_conn_q
          /\ msg' \in [Msg -> MsgRec] /\ clock' = clock /\ sock' = sock
          /\ nsd' = nsd /\ nmsg' = nmsg /\ nfault' = nfault /\ nfull' = nfull
          /\ backlog' = backlog /\ asked' = asked /\ answered' = answered
          /\ pc' = pc
        BY <1>1, <2>3, <2>5 DEF tables, bounds, history
    <3>2. TypeOK' /\ SameShape(conn')
        BY <1>2, <3>1 DEF TypeOK, SameShape
    <3> QED BY <1>1, <3>1, <3>2, Quiet DEF Handling, Forwarding
  <2>6. CASE core_close([conn EXCEPT ![c].err = TRUE], mg, c, "timeout")
    <3> DEFINE cn == [conn EXCEPT ![c].err = TRUE]
    <3>1. Edited(cn)
        BY <2>2, ConnEdited, FlagFacts
    <3>2. core_close(cn, mg, c, "timeout")
        BY <2>6
    <3> HIDE DEF cn
    <3>3. \/ pc' = "crash" /\ UNCHANGED <<tables, msg, sock>>
          \/ pc' = "timeout" /\ Released(c)
        BY <2>2, <2>3, <3>1, <3>2, CoreCloseStep DEF Edited
    <3> QED BY <1>1, <1>2, <2>2, <3>3, ClosedStep
  <2> QED BY <2>4, <2>5, <2>6
<1> QED BY <1>3, <1>4 DEF core_timeout

-----------------------------------------------------------------------------
(* Accepting and reading.                                                  *)

(* The structure conn_get takes from the free list, for owner o.           *)
LEMMA TakenPools ==
    ASSUME IInv, free_connq # <<>>, NEW STATE o, o \in Server \cup {Pool},
           conn' \in [Conn -> ConnRec],
           conn'[Head(free_connq)].owner = o,
           \A k \in Conn \ {Head(free_connq)} : conn'[k].owner = conn[k].owner,
           free_connq' = Tail(free_connq),
           \/ o = Pool /\ s_conn_q' = s_conn_q
           \/ /\ o \in Server /\ Len(s_conn_q[o]) < SERVER_CONNECTIONS
              /\ s_conn_q' = [s_conn_q EXCEPT ![o] = Append(@, Head(free_connq))]
    PROVE  /\ Head(free_connq) \in Conn /\ ~Attached(Head(free_connq))
           /\ free_connq' \in Seq(Conn) /\ s_conn_q' \in [Server -> Seq(Conn)]
           /\ ConnPools'
<1> DEFINE c == Head(free_connq)
<1>1. /\ free_connq \in Seq(Conn) /\ s_conn_q \in [Server -> Seq(Conn)]
      /\ IsInjective(free_connq)
    BY DEF IInv, TypeOK, ConnPools
<1>2. /\ c \in Conn /\ c \in ToSet(free_connq)
      /\ free_connq' \in Seq(Conn) /\ IsInjective(free_connq')
      /\ ToSet(free_connq') = ToSet(free_connq) \ {c}
    BY <1>1, TailFacts
<1>3. ~Attached(c)
    BY <1>2 DEF IInv, ConnPools
<1>4. None \notin Server /\ Pool \notin Server /\ o # None /\ Pool # None
    BY DEF Server, None, Pool
<1>5. /\ conn'[c].owner = o /\ conn[c].owner = None
      /\ \A k \in Conn \ {c} : conn'[k].owner = conn[k].owner
    BY <1>3 DEF Attached
<1>6. \/ o = Pool /\ s_conn_q' = s_conn_q
      \/ /\ o \in Server /\ Len(s_conn_q[o]) < SERVER_CONNECTIONS
         /\ s_conn_q' = [s_conn_q EXCEPT ![o] = Append(@, c)]
    OBVIOUS
<1> HIDE DEF c
<1>7. ASSUME NEW k \in Conn PROVE k \in ToSet(free_connq') <=> ~Attached(k)'
  <2>1. k \in ToSet(free_connq) <=> ~Attached(k)
      BY DEF IInv, ConnPools
  <2>2. CASE k = c
      BY <1>2, <1>4, <1>5, <2>2 DEF Attached
  <2>3. CASE k # c
    <3>1. conn'[k].owner = conn[k].owner
        BY <1>5, <2>3
    <3> QED BY <1>2, <2>1, <2>3, <3>1 DEF Attached
  <2> QED BY <2>2, <2>3
<1>8. ASSUME NEW s \in Server
      PROVE  /\ s_conn_q'[s] \in Seq(Conn) /\ IsInjective(s_conn_q'[s])
             /\ Len(s_conn_q'[s]) <= SERVER_CONNECTIONS
             /\ \A k \in Conn : k \in ToSet(s_conn_q'[s]) <=> conn'[k].owner = s
  <2>1. /\ s_conn_q[s] \in Seq(Conn) /\ Len(s_conn_q[s]) \in Nat
        /\ SERVER_CONNECTIONS \in Nat
      BY <1>1, ConstantsAssumption
  <2>2. /\ IsInjective(s_conn_q[s]) /\ Len(s_conn_q[s]) <= SERVER_CONNECTIONS
        /\ \A k \in Conn : k \in ToSet(s_conn_q[s]) <=> conn[k].owner = s
      BY DEF IInv, ConnPools
  <2>3. CASE o # s
    <3>1. s_conn_q'[s] = s_conn_q[s]
        BY <1>1, <1>6, <2>3
    <3> QED BY <1>4, <1>5, <2>1, <2>2, <2>3, <3>1
  <2>4. CASE o = s
    <3>1. s_conn_q'[s] = Append(s_conn_q[s], c) /\ Len(s_conn_q[s]) < SERVER_CONNECTIONS
        BY <1>1, <1>4, <1>6, <2>4
    <3>2. c \notin ToSet(s_conn_q[s])
        BY <1>2, <1>4, <1>5, <2>2
    <3>3. /\ s_conn_q'[s] \in Seq(Conn) /\ IsInjective(s_conn_q'[s])
          /\ Len(s_conn_q'[s]) = Len(s_conn_q[s]) + 1
          /\ ToSet(s_conn_q'[s]) = ToSet(s_conn_q[s]) \cup {c}
        BY <1>2, <2>1, <2>2, <3>1, <3>2, AppendFacts
    <3>4. Len(s_conn_q'[s]) <= SERVER_CONNECTIONS
        BY <2>1, <3>1, <3>3
    <3> QED BY <1>5, <2>2, <2>4, <3>3, <3>4
  <2> QED BY <2>3, <2>4
<1>9. s_conn_q' \in [Server -> Seq(Conn)]
  <2>1. s_conn_q' = [s \in Server |-> s_conn_q'[s]]
      BY <1>1, <1>6
  <2> QED BY <1>8, <2>1
<1> QED BY <1>2, <1>3, <1>7, <1>8, <1>9 DEF ConnPools, c

(* proxy_accept.                                                           *)
LEMMA AcceptStep == ASSUME IInv, proxy_accept PROVE IInv'
<1> DEFINE c == Head(free_connq)
           r == [NoConn EXCEPT !.client = TRUE, !.owner = Pool,
                               !.sd = nsd + 1, !.send_active = TRUE]
<1>1. /\ msg' = msg /\ clock' = clock /\ asked' = asked /\ answered' = answered
      /\ nmsg' = nmsg /\ nfault' = nfault /\ nfull' = nfull
      /\ pc' = pc /\ cur' = cur /\ cmsg' = cmsg /\ scur' = scur /\ wr' = wr
      /\ batch' = batch /\ pc = "accept"
      /\ backlog' = backlog - 1 /\ backlog > 0
    BY DEF proxy_accept, requests, control, history
<1>2. TypeOK /\ backlog' \in Nat
    BY <1>1 DEF IInv, TypeOK
<1>3. CASE TooManyClients
  <2>1. /\ conn' = conn /\ free_connq' = free_connq /\ s_conn_q' = s_conn_q
        /\ sock' = sock /\ nsd' = nsd
      BY <1>3 DEF proxy_accept, tables
  <2>2. TypeOK' /\ SameShape(conn')
      BY <1>1, <1>2, <2>1 DEF TypeOK, SameShape
  <2> QED BY <1>1, <2>1, <2>2, Quiet DEF Handling, Forwarding
<1>4. CASE ~TooManyClients
  <2>1. /\ nsd < MaxSd /\ free_connq # <<>> /\ nsd' = nsd + 1
        /\ conn' = [conn EXCEPT ![c] = r]
        /\ free_connq' = Tail(free_connq) /\ s_conn_q' = s_conn_q
        /\ sock' = [sock EXCEPT ![nsd + 1] =
                      [NoSock EXCEPT !.open = TRUE, !.ptr = c,
                                     !.up = TRUE, !.rdy = TRUE]]
      BY <1>4 DEF proxy_accept
  <2>2. nsd + 1 \in Sd /\ nsd' \in 0..MaxSd /\ c \in Conn
    <3>1. c \in Conn
        BY <1>2, <2>1 DEF TypeOK
    <3>2. nsd \in Nat /\ MaxSd \in Nat /\ nsd < MaxSd /\ nsd' = nsd + 1
        BY <1>2, <2>1, ConstantsAssumption DEF TypeOK
    <3>3. nsd + 1 \in Sd /\ nsd' \in 0..MaxSd
        BY <3>2 DEF Sd
    <3> QED BY <3>1, <3>3
  <2>3. /\ r \in ConnRec /\ r.owner = Pool /\ r.client /\ r.sd # None
    <3>1. <<>> \in Seq(Msg)
        OBVIOUS
    <3>2. nsd + 1 # None
        BY <2>2 DEF Sd, None
    <3> QED BY <2>2, <3>1, <3>2 DEF NoConn, ConnRec
  <2>4. [NoSock EXCEPT !.open = TRUE, !.ptr = c, !.up = TRUE, !.rdy = TRUE] \in SockRec
    <3>1. <<>> \in Seq(Item) /\ <<>> \in Seq(Msg)
        OBVIOUS
    <3> QED BY <2>2, <3>1 DEF NoSock, SockRec
  <2>5. sock' \in [Sd -> SockRec]
      BY <1>2, <2>1, <2>4 DEF TypeOK
  <2> HIDE DEF r
  <2>6. /\ conn' \in [Conn -> ConnRec] /\ conn'[c] = r
        /\ \A k \in Conn \ {c} : conn'[k] = conn[k]
      BY <1>2, <2>1, <2>2, <2>3 DEF TypeOK
  <2>7. /\ ~Attached(c)
        /\ free_connq' \in Seq(Conn) /\ s_conn_q' \in [Server -> Seq(Conn)]
        /\ ConnPools'
      BY <2>1, <2>3, <2>6, TakenPools
  <2>8. TypeOK'
      BY <1>1, <1>2, <2>2, <2>5, <2>6, <2>7 DEF TypeOK
  <2>9. Control'
    <3>1. ASSUME NEW k \in Conn, Attached(k)'
          PROVE  (conn'[k].client <=> conn'[k].owner = Pool) /\ conn'[k].sd # None
      <4>1. CASE k = c
          BY <2>3, <2>6, <4>1
      <4>2. CASE k # c
        <5>1. conn'[k] = conn[k] /\ Attached(k)
            BY <2>6, <3>1, <4>2 DEF Attached
        <5>2. (conn[k].client <=> conn[k].owner = Pool) /\ conn[k].sd # None
            BY <1>1, <5>1 DEF IInv, Control
        <5> QED BY <5>1, <5>2
      <4> QED BY <4>1, <4>2
    <3>2. pc' \notin Handling /\ pc' \notin Forwarding /\ pc' \notin {"enqueue", "reject"}
        BY <1>1 DEF Handling, Forwarding
    <3> QED BY <3>1, <3>2 DEF Control
  <2>10. ClientLimit'
    <3>1. Clients' = Clients \cup {c} /\ c \notin Clients
      <4>1. \A k \in Conn : conn'[k].client /\ Attached(k)' <=> k \in Clients \cup {c}
        <5>1. c \in Clients'
            BY <2>2, <2>3, <2>6 DEF Clients, Attached, Pool, None
        <5>2. \A k \in Conn \ {c} : k \in Clients' <=> k \in Clients
            BY <2>6 DEF Clients, Attached
        <5> QED BY <5>1, <5>2 DEF Clients
      <4> QED BY <2>2, <2>7, <4>1 DEF Clients
    <3>2. IsFiniteSet(Clients)
      <4>1. IsFiniteSet(Conn) /\ Clients \subseteq Conn
          BY FS_Interval, ConstantsAssumption DEF Conn, Clients
      <4> QED BY <4>1, FS_Subset
    <3>3. /\ Cardinality(Clients') = Cardinality(Clients) + 1
          /\ Cardinality(Clients) \in Nat
        BY <3>1, <3>2, FS_AddElement, FS_CardinalityType
    <3>4. ~(Cardinality(Clients) >= MAX_NCCONN) /\ MAX_NCCONN \in Nat
        BY <1>4, ConstantsAssumption DEF TooManyClients
    <3>5. Cardinality(Clients') <= MAX_NCCONN
        BY <3>3, <3>4
    <3> QED BY <3>5 DEF ClientLimit
  <2> QED BY <2>7, <2>8, <2>9, <2>10 DEF IInv
<1> QED BY <1>3, <1>4

(* A handler that keeps its connection and leaves the pools alone.         *)
LEMMA HandlerStep ==
    ASSUME IInv, pc \in Handling \ {"reject"}, Edited(conn'),
           msg' \in [Msg -> MsgRec], sock' \in [Sd -> SockRec],
           UNCHANGED <<free_connq, s_conn_q, clock, nsd, nmsg, nfault, backlog>>,
           nfull' \in 0..MaxFull,
           asked' \in [Sd -> Seq(Msg)],
           answered' \in [Sd -> Seq(Msg \X (Msg \cup {ErrorReply}))],
           UNCHANGED <<cur, scur, wr, batch>>,
           cmsg' \in Msg \cup {None},
           \/ pc' \in {"recv", "send", "check", "crash"}
           \/ pc' = "forward" /\ cmsg' \in Msg /\ conn[cur].client
    PROVE  IInv'
<1>1. TypeOK /\ cur \in Conn /\ Attached(cur)
    BY DEF IInv, Control
<1>2. pc' \in PC
    BY DEF PC
<1>3. TypeOK'
    BY <1>1, <1>2 DEF TypeOK, Edited
<1>4. /\ SameShape(conn') /\ pc # "reject"
      /\ UNCHANGED <<free_connq, s_conn_q>>
    BY DEF Edited
<1>5. pc' \in Handling => cur' \in Conn /\ Attached(cur')
    BY <1>1
<1>6. pc' \in Forwarding => cmsg' \in Msg /\ conn[cur'].client
    BY DEF Forwarding
<1> QED BY <1>3, <1>4, <1>5, <1>6, Quiet

(* Taking the next item off the socket of the connection.                  *)
LEMMA ReadFacts ==
    ASSUME IInv, pc = "recv", Sk(cur).inq # <<>>
    PROVE  /\ Consumed(cur) \in [Sd -> SockRec]
           /\ Next1(cur) \in Item
           /\ Next1(cur)[1] \in {"get", "set", "rsp", "fail"} => Next1(cur)[2] \in Msg
<1>1. /\ conn[cur].sd \in Sd /\ Sk(cur) \in SockRec /\ sock \in [Sd -> SockRec]
    BY CurFacts DEF Handling, Sk, IInv, TypeOK
<1>2. Sk(cur).inq \in Seq(Item) /\ Tail(Sk(cur).inq) \in Seq(Item) /\ Next1(cur) \in Item
    BY <1>1 DEF SockRec, Next1
<1>3. [Sk(cur) EXCEPT !.inq = Tail(@)] \in SockRec
    BY <1>1, <1>2 DEF SockRec
<1>4. Consumed(cur) \in [Sd -> SockRec]
    BY <1>1, <1>3 DEF Consumed, Sk
<1>5. Next1(cur)[1] \in {"get", "set", "rsp", "fail"} => Next1(cur)[2] \in Msg
    BY <1>2 DEF Item
<1> QED BY <1>2, <1>4, <1>5

(* The handlers that read.                                                 *)
LEMMA RecvStep == ASSUME IInv, Recv PROVE IInv'
<1>1. /\ pc = "recv" /\ pc \in Handling \ {"reject"}
    BY DEF Recv, recv_again, recv_error, req_recv_done, req_filter_quit,
           req_recv_next_eof, rsp_recv_next_eof, rsp_filter_close,
           rsp_filter_swallow, rsp_forward, ServerReads, Handling
<1>2. /\ cur \in Conn /\ conn[cur] \in ConnRec /\ Edited(conn)
      /\ conn[cur].omsg_q \in Seq(Msg)
    BY <1>1, CurFacts, ConnEdited DEF ConnRec
<1>3. /\ msg \in [Msg -> MsgRec] /\ sock \in [Sd -> SockRec] /\ nfull \in 0..MaxFull
      /\ asked \in [Sd -> Seq(Msg)] /\ cmsg \in Msg \cup {None}
      /\ answered \in [Sd -> Seq(Msg \X (Msg \cup {ErrorReply}))]
    BY DEF IInv, TypeOK
<1>4. CASE recv_again
  <2>1. /\ conn' = conn /\ msg' = msg /\ sock' = sock /\ pc' = "check"
        /\ UNCHANGED <<free_connq, s_conn_q, clock, nsd, nmsg, nfault, backlog,
                       nfull, asked, answered, cur, scur, wr, batch, cmsg>>
      BY <1>4 DEF recv_again, tables, requests, bounds, history
  <2> QED BY <1>1, <1>2, <1>3, <2>1, HandlerStep
<1>5. CASE recv_error \/ req_recv_next_eof \/ rsp_recv_next_eof
  <2>1. /\ msg' = msg /\ sock' = sock /\ pc' = "check"
        /\ UNCHANGED <<free_connq, s_conn_q, clock, nsd, nmsg, nfault, backlog,
                       nfull, asked, answered, cur, scur, wr, batch, cmsg>>
      BY <1>5 DEF recv_error, req_recv_next_eof, rsp_recv_next_eof,
                  requests, bounds, history
  <2>2. CASE recv_error
    <3>1. Edited(conn')
        BY <1>2, <2>2, FlagFacts DEF recv_error
    <3> QED BY <1>1, <1>3, <2>1, <3>1, HandlerStep
  <2>3. CASE req_recv_next_eof
    <3> DEFINE b == conn[cur].done \/ conn[cur].omsg_q = <<>>
    <3>1. b \in BOOLEAN
        OBVIOUS
    <3>2. conn' = [conn EXCEPT ![cur].eof = TRUE, ![cur].done = b]
        BY <2>3, <1>2 DEF req_recv_next_eof, Edited
    <3> HIDE DEF b
    <3>3. Edited(conn')
        BY <1>2, <3>1, <3>2, FlagFacts
    <3> QED BY <1>1, <1>3, <2>1, <3>3, HandlerStep
  <2>4. CASE rsp_recv_next_eof
    <3>1. TRUE \in BOOLEAN
        OBVIOUS
    <3>2. Edited(conn')
        BY <1>2, <2>4, <3>1, FlagFacts DEF rsp_recv_next_eof
    <3> QED BY <1>1, <1>3, <2>1, <3>2, HandlerStep
  <2> QED BY <1>5, <2>2, <2>3, <2>4
<1>6. CASE req_recv_done
  <2> DEFINE m == Next1(cur)[2]
             noreply == Next1(cur)[1] = "set"
  <2>1. /\ Next1(cur)[1] \in {"get", "set"} /\ Sk(cur).inq # <<>> /\ conn[cur].client
        /\ sock' = Consumed(cur) /\ conn' = conn /\ pc' = "forward" /\ cmsg' = m
        /\ msg' = [msg EXCEPT ![m] = [NoMsg EXCEPT !.st = "live", !.owner = cur,
                                                   !.noreply = noreply]]
        /\ asked' = IF noreply THEN asked
                    ELSE [asked EXCEPT ![conn[cur].sd] = Append(@, m)]
        /\ UNCHANGED <<free_connq, s_conn_q, clock, nsd, nmsg, nfault, backlog,
                       nfull, answered, cur, scur, wr, batch>>
      BY <1>6 DEF req_recv_done, Readable, tables, bounds
  <2>2. m \in Msg /\ sock' \in [Sd -> SockRec] /\ conn[cur].sd \in Sd
      BY <1>1, <2>1, ReadFacts, CurFacts
  <2>3. [NoMsg EXCEPT !.st = "live", !.owner = cur, !.noreply = noreply] \in MsgRec
    <3>1. noreply \in BOOLEAN /\ 0 \in Nat
        OBVIOUS
    <3> QED BY <1>2, <3>1 DEF NoMsg, MsgRec
  <2> HIDE DEF m, noreply
  <2>4. msg' \in [Msg -> MsgRec]
      BY <1>3, <2>1, <2>2, <2>3
  <2>5. asked' \in [Sd -> Seq(Msg)]
    <3>1. \A d \in Sd : Append(asked[d], m) \in Seq(Msg)
        BY <1>3, <2>2
    <3> QED BY <1>3, <2>1, <3>1
  <2> QED BY <1>1, <1>2, <1>3, <2>1, <2>2, <2>4, <2>5, HandlerStep
<1>7. CASE req_filter_quit
  <2>1. PICK k \in 1..Len(Sk(cur).inq) :
           sock' = [sock EXCEPT ![conn[cur].sd].inq = SubSeq(@, k + 1, Len(@))]
      BY <1>7 DEF req_filter_quit
  <2>2. conn[cur].sd \in Sd /\ Sk(cur) \in SockRec
      BY <1>1, CurFacts DEF Sk
  <2>3. SubSeq(Sk(cur).inq, k + 1, Len(Sk(cur).inq)) \in Seq(Item)
    <3> DEFINE q == Sk(cur).inq
    <3>1. q \in Seq(Item) /\ Len(q) \in Nat
        BY <2>2 DEF SockRec
    <3>2. k \in Int /\ k >= 1
        BY <2>1, <3>1
    <3> HIDE DEF q
    <3>3. \A i \in (k + 1)..Len(q) : q[i] \in Item
        BY <3>1, <3>2, ElementOfSeq
    <3>4. SubSeq(q, k + 1, Len(q)) \in Seq(Item)
        BY <3>1, <3>2, <3>3, SubSeqProperties
    <3> QED BY <3>4 DEF q
  <2>4. [Sk(cur) EXCEPT !.inq = SubSeq(@, k + 1, Len(@))] \in SockRec
      BY <2>2, <2>3 DEF SockRec
  <2>5. sock' \in [Sd -> SockRec]
      BY <1>3, <2>1, <2>2, <2>4 DEF Sk
  <2> DEFINE b == conn[cur].omsg_q = <<>>
  <2>6. b \in BOOLEAN
      OBVIOUS
  <2>7. /\ conn' = [conn EXCEPT ![cur].eof = TRUE, ![cur].done = b]
        /\ msg' = msg /\ pc' = "check"
        /\ UNCHANGED <<free_connq, s_conn_q, clock, nsd, nmsg, nfault, backlog,
                       nfull, asked, answered, cur, scur, wr, batch, cmsg>>
      BY <1>7 DEF req_filter_quit, requests, bounds, history
  <2> HIDE DEF b
  <2>8. Edited(conn')
      BY <1>2, <2>6, <2>7, FlagFacts
  <2> QED BY <1>1, <1>3, <2>5, <2>7, <2>8, HandlerStep
<1>8. CASE rsp_filter_close
  <2>1. /\ Sk(cur).inq # <<>> /\ sock' = Consumed(cur)
        /\ conn' = [conn EXCEPT ![cur].err = TRUE, ![cur].done = TRUE]
        /\ msg' = msg /\ pc' = "check"
        /\ UNCHANGED <<free_connq, s_conn_q, clock, nsd, nmsg, nfault, backlog,
                       nfull, asked, answered, cur, scur, wr, batch, cmsg>>
      BY <1>8 DEF rsp_filter_close, ServerReads, Readable, requests, bounds, history
  <2>2. TRUE \in BOOLEAN
      OBVIOUS
  <2>3. Edited(conn') /\ sock' \in [Sd -> SockRec]
      BY <1>1, <1>2, <2>1, <2>2, FlagFacts, ReadFacts
  <2> QED BY <1>1, <1>3, <2>1, <2>3, HandlerStep
<1>9. CASE rsp_filter_swallow
  <2> DEFINE q == conn[cur].omsg_q
  <2>1. /\ Sk(cur).inq # <<>> /\ q # <<>> /\ sock' = Consumed(cur)
        /\ conn' = [conn EXCEPT ![cur].omsg_q = Tail(q)]
        /\ msg' = [msg EXCEPT ![Head(q)] = Swallowed(@)]
        /\ pc' \in {"recv", "check"}
        /\ UNCHANGED <<free_connq, s_conn_q, clock, nsd, nmsg, nfault, backlog,
                       nfull, asked, answered, cur, scur, wr, batch, cmsg>>
      BY <1>9, <1>2 DEF rsp_filter_swallow, ServerReads, Readable, Dequeued, Edited,
                        ReadOn, bounds, history
  <2>2. Head(q) \in Msg /\ Tail(q) \in Seq(Msg)
      BY <1>2, <2>1
  <2>3. msg' \in [Msg -> MsgRec]
      BY <1>3, <2>1, <2>2, ReqPutType
  <2> DEFINE t == Tail(q)
  <2>4. t \in Seq(Msg) /\ conn' = [conn EXCEPT ![cur].omsg_q = t]
      BY <2>1, <2>2
  <2>5. sock' \in [Sd -> SockRec]
      BY <1>1, <2>1, ReadFacts
  <2> HIDE DEF t, q
  <2>6. Edited(conn')
      BY <1>2, <2>4, QueueFacts
  <2> QED BY <1>1, <1>3, <2>1, <2>3, <2>5, <2>6, HandlerStep
<1>10. CASE rsp_forward
  <2> DEFINE q == conn[cur].omsg_q
             t == Tail(q)
             p == Head(q)
             k == msg[p].owner
             cn == [conn EXCEPT ![cur].omsg_q = t]
             r == [msg_tmo_delete(msg[p]) EXCEPT !.done = TRUE, !.peer = Next1(cur)[2]]
  <2>1. /\ Sk(cur).inq # <<>> /\ q # <<>> /\ Next1(cur)[1] = "rsp"
        /\ \/ conn' = event_add_out(cn, k) /\ sock' = Rearmed(Consumed(cur), conn, k)
           \/ conn' = cn /\ sock' = Consumed(cur)
        /\ msg' = [msg EXCEPT ![p] = r]
        /\ pc' \in {"recv", "check"}
        /\ UNCHANGED <<free_connq, s_conn_q, clock, nsd, nmsg, nfault, backlog,
                       nfull, asked, answered, cur, scur, wr, batch, cmsg>>
      BY <1>10, <1>2, <1>3 DEF rsp_forward, ServerReads, Readable, Dequeued, Edited,
                         ReadOn, bounds, history
  <2>2. p \in Msg /\ t \in Seq(Msg)
      BY <1>2, <2>1
  <2>3. r \in MsgRec
    <3>1. msg_tmo_delete(msg[p]) \in MsgRec /\ Next1(cur)[2] \in Msg
        BY <1>1, <1>3, <2>1, <2>2, ReqPutType, ReadFacts
    <3> QED BY <3>1 DEF MsgRec
  <2> HIDE DEF r, q, p, t
  <2>4. msg' \in [Msg -> MsgRec]
      BY <1>3, <2>1, <2>2, <2>3
  <2>5. Edited(cn) /\ Consumed(cur) \in [Sd -> SockRec]
      BY <1>1, <1>2, <2>1, <2>2, QueueFacts, ReadFacts
  <2> HIDE DEF cn, k
  <2>6. Edited(conn') /\ sock' \in [Sd -> SockRec]
      BY <2>1, <2>5, AddOutFacts
  <2> QED BY <1>1, <1>3, <2>1, <2>4, <2>6, HandlerStep
<1> QED BY <1>4, <1>5, <1>6, <1>7, <1>8, <1>9, <1>10 DEF Recv

-----------------------------------------------------------------------------
(* Forwarding.                                                             *)

(* client_enqueue_omsgq.                                                   *)
LEMMA OutstandingFacts ==
    ASSUME IInv, pc = "forward"
    PROVE  /\ Edited(Outstanding(cur, cmsg))
           /\ cur \in Conn /\ Attached(cur) /\ conn[cur].client /\ cmsg \in Msg
<1>1. cur \in Conn /\ Attached(cur) /\ conn[cur].client /\ cmsg \in Msg
    BY DEF IInv, Control, Handling, Forwarding
<1>2. Edited(conn) /\ conn[cur].omsg_q \in Seq(Msg)
    BY <1>1, ConnEdited DEF Edited, ConnRec
<1> DEFINE q == Append(conn[cur].omsg_q, cmsg)
<1>3. q \in Seq(Msg)
    BY <1>1, <1>2
<1>4. \/ Outstanding(cur, cmsg) = conn
      \/ Outstanding(cur, cmsg) = [conn EXCEPT ![cur].omsg_q = q]
    BY <1>1, <1>2 DEF Outstanding, Edited
<1> HIDE DEF q
<1>5. Edited([conn EXCEPT ![cur].omsg_q = q])
    BY <1>1, <1>2, <1>3, QueueFacts
<1> QED BY <1>1, <1>2, <1>4, <1>5

(* server_conn makes a connection.                                         *)
LEMMA NewStep ==
    ASSUME IInv, NEW s \in Server, NEW o \in Outcomes, ForwardOnNew(s, o)
    PROVE  IInv'
<1> DEFINE c == Head(free_connq)
           sd == IF o = "nosocket" THEN None ELSE nsd + 1
           cn == Outstanding(cur, cmsg)
           r == [NoConn EXCEPT !.owner = s, !.sd = sd,
                           !.send_active = o # "nosocket",
                           !.err = o \in {"refused", "nosocket"},
                           !.connecting = o = "inprogress",
                           !.connected = o = "connected"]
           k == [NoSock EXCEPT !.open = TRUE, !.ptr = c, !.server = TRUE,
                           !.up = o = "connected", !.hup = o = "refused",
                           !.rdy = o # "inprogress"]
<1>1. /\ pc = "forward" /\ Len(s_conn_q[s]) < SERVER_CONNECTIONS /\ free_connq # <<>>
      /\ conn' = [cn EXCEPT ![c] = r]
      /\ IF o = "nosocket" THEN UNCHANGED <<sock, nsd>>
         ELSE nsd' = sd /\ sock' = [sock EXCEPT ![sd] = k]
      /\ scur' = c
      /\ s_conn_q' = [s_conn_q EXCEPT ![s] = Append(@, c)]
      /\ free_connq' = Tail(free_connq)
      /\ pc' = IF o \in {"refused", "nosocket"} THEN "reject" ELSE "enqueue"
    BY DEF ForwardOnNew
<1>2. /\ msg' = msg /\ clock' = clock /\ asked' = asked /\ answered' = answered
      /\ nmsg' = nmsg /\ nfault' = nfault /\ nfull' = nfull /\ backlog' = backlog
      /\ cur' = cur /\ cmsg' = cmsg /\ wr' = wr /\ batch' = batch
    BY DEF ForwardOnNew, requests, history
<1>3. TypeOK /\ c \in Conn
    BY <1>1 DEF IInv, TypeOK
<1>4. /\ Edited(cn) /\ cur \in Conn /\ Attached(cur) /\ conn[cur].client /\ cmsg \in Msg
    BY <1>1, OutstandingFacts
<1>5. nsd' \in 0..MaxSd /\ (o # "nosocket" => nsd + 1 \in Sd) /\ sd \in Sd \cup {None}
  <2>1. nsd \in Nat /\ MaxSd \in Nat /\ nsd <= MaxSd /\ backlog \in Nat
      BY <1>3, ConstantsAssumption DEF TypeOK
  <2>2. CASE o = "nosocket"
      BY <1>1, <1>3, <2>2 DEF TypeOK
  <2>3. CASE o # "nosocket"
    <3>1. nsd + backlog < MaxSd
        BY <2>3 DEF Outcomes
    <3>2. nsd < MaxSd
        BY <2>1, <3>1
    <3>3. nsd' = nsd + 1
        BY <1>1, <2>3
    <3> QED BY <2>1, <2>3, <3>2, <3>3 DEF Sd
  <2> QED BY <2>2, <2>3
<1>6. /\ r \in ConnRec /\ r.owner = s /\ ~r.client /\ r.sd = sd
  <2>1. <<>> \in Seq(Msg)
      OBVIOUS
  <2>2. /\ (o # "nosocket") \in BOOLEAN /\ (o \in {"refused", "nosocket"}) \in BOOLEAN
        /\ (o = "inprogress") \in BOOLEAN /\ (o = "connected") \in BOOLEAN
      OBVIOUS
  <2> HIDE DEF sd
  <2> QED BY <1>5, <2>1, <2>2 DEF NoConn, ConnRec
<1>7. k \in SockRec
  <2>1. <<>> \in Seq(Msg) /\ <<>> \in Seq(Item)
      OBVIOUS
  <2>2. /\ (o # "inprogress") \in BOOLEAN /\ (o = "refused") \in BOOLEAN
        /\ (o = "connected") \in BOOLEAN
      OBVIOUS
  <2> QED BY <1>3, <2>1, <2>2 DEF NoSock, SockRec
<1>8. sd = None => o = "nosocket"
    BY <1>5 DEF Sd, None
<1> HIDE DEF r, k, cn
<1>9. sock' \in [Sd -> SockRec]
    BY <1>1, <1>3, <1>5, <1>7 DEF TypeOK
<1> HIDE DEF sd
<1>10. /\ conn' \in [Conn -> ConnRec] /\ conn'[c] = r
       /\ \A x \in Conn \ {c} : conn'[x] = cn[x]
    BY <1>1, <1>3, <1>4, <1>6 DEF Edited
<1>11. \A x \in Conn \ {c} : /\ conn'[x].owner = conn[x].owner
                             /\ conn'[x].client = conn[x].client
                             /\ conn'[x].sd = conn[x].sd
    BY <1>4, <1>10 DEF Edited, SameShape
<1>12. /\ ~Attached(c)
       /\ free_connq' \in Seq(Conn) /\ s_conn_q' \in [Server -> Seq(Conn)]
       /\ ConnPools'
  <2>1. s \in Server \cup {Pool}
      OBVIOUS
  <2> QED BY <1>1, <1>6, <1>10, <1>11, <2>1, TakenPools
<1>13. cur # c
    BY <1>4, <1>12
<1>14. pc' \in {"enqueue", "reject"} /\ (o = "nosocket" => pc' = "reject")
    BY <1>1
<1>15. TypeOK'
  <2>1. pc' \in PC /\ scur' \in Conn \cup {None}
      BY <1>1, <1>3, <1>14 DEF PC
  <2> QED BY <1>2, <1>3, <1>5, <1>9, <1>10, <1>12, <2>1 DEF TypeOK
<1>16. s # None /\ s # Pool
    BY DEF Server, None, Pool
<1>17. Control'
  <2>1. ASSUME NEW x \in Conn, Attached(x)'
        PROVE  /\ conn'[x].client <=> conn'[x].owner = Pool
               /\ conn'[x].sd = None => pc' = "reject" /\ x = scur'
    <3>1. CASE x = c
        BY <1>1, <1>6, <1>8, <1>10, <1>14, <1>16, <3>1
    <3>2. CASE x # c
      <4>1. /\ conn'[x].owner = conn[x].owner /\ conn'[x].client = conn[x].client
            /\ conn'[x].sd = conn[x].sd
          BY <1>11, <3>2
      <4>2. Attached(x)
          BY <2>1, <4>1 DEF Attached
      <4>3. (conn[x].client <=> conn[x].owner = Pool) /\ conn[x].sd # None
          BY <1>1, <4>2 DEF IInv, Control
      <4> QED BY <4>1, <4>3
    <3> QED BY <3>1, <3>2
  <2>2. cur' \in Conn /\ Attached(cur)' /\ cmsg' \in Msg /\ conn'[cur'].client
      BY <1>2, <1>4, <1>11, <1>13 DEF Attached
  <2>3. scur' \in Conn /\ conn'[scur'].owner \in Server
      BY <1>1, <1>3, <1>6, <1>10
  <2> QED BY <2>1, <2>2, <2>3 DEF Control
<1>18. ClientLimit'
  <2>1. ~conn'[c].client
      BY <1>6, <1>10
  <2>2. \A x \in Conn : conn'[x].client /\ Attached(x)' => x \in Clients
      BY <1>11, <2>1 DEF Clients, Attached
  <2> QED BY <2>2, FewerClients
<1> QED BY <1>12, <1>15, <1>17, <1>18 DEF IInv

(* server_conn rotates the queue.                                          *)
LEMMA LruStep ==
    ASSUME IInv, NEW s \in Server, ForwardOnLru(s)
    PROVE  IInv'
<1> DEFINE q == s_conn_q[s]
           c == Head(q)
<1>1. /\ pc = "forward" /\ Len(q) >= SERVER_CONNECTIONS
      /\ scur' = c /\ pc' \in {"enqueue", "reject"}
      /\ s_conn_q' = [s_conn_q EXCEPT ![s] = Append(Tail(@), c)]
      /\ conn' = Outstanding(cur, cmsg)
    BY DEF ForwardOnLru
<1>2. /\ free_connq' = free_connq /\ msg' = msg /\ clock' = clock /\ sock' = sock
      /\ nsd' = nsd /\ nmsg' = nmsg /\ nfault' = nfault /\ nfull' = nfull
      /\ backlog' = backlog /\ asked' = asked /\ answered' = answered
      /\ cur' = cur /\ cmsg' = cmsg /\ wr' = wr /\ batch' = batch
    BY DEF ForwardOnLru, requests, bounds, history
<1>3. /\ TypeOK /\ q \in Seq(Conn) /\ Len(q) \in Nat /\ IsInjective(q)
      /\ Len(q) <= SERVER_CONNECTIONS
      /\ \A k \in Conn : k \in ToSet(q) <=> conn[k].owner = s
  <2>1. q \in Seq(Conn) /\ TypeOK
      BY DEF IInv, TypeOK
  <2>2. /\ IsInjective(q) /\ Len(q) <= SERVER_CONNECTIONS
        /\ \A k \in Conn : k \in ToSet(q) <=> conn[k].owner = s
      BY DEF IInv, ConnPools
  <2> QED BY <2>1, <2>2
<1>4. q # <<>>
  <2>1. Len(q) > 0
      BY <1>1, <1>3, ConstantsAssumption
  <2> QED BY <1>3, <2>1
<1>5. /\ Edited(conn') /\ cur \in Conn /\ Attached(cur) /\ conn[cur].client /\ cmsg \in Msg
    BY <1>1, OutstandingFacts
<1>6. s_conn_q'[s] = Append(Tail(q), c)
    BY <1>1, <1>3 DEF TypeOK
<1>7. \A z \in Server \ {s} : s_conn_q'[z] = s_conn_q[z]
    BY <1>1, <1>3 DEF TypeOK
<1> HIDE DEF q
<1>8. /\ c \in Conn /\ c \in ToSet(q) /\ Tail(q) \in Seq(Conn)
      /\ Len(Tail(q)) = Len(q) - 1 /\ IsInjective(Tail(q))
      /\ ToSet(Tail(q)) = ToSet(q) \ {c}
    BY <1>3, <1>4, TailFacts
<1> HIDE DEF c
<1>9. /\ s_conn_q'[s] \in Seq(Conn) /\ IsInjective(s_conn_q'[s])
      /\ Len(s_conn_q'[s]) = Len(q) /\ ToSet(s_conn_q'[s]) = ToSet(q)
  <2> DEFINE t == Tail(q)
  <2>3. t \in Seq(Conn) /\ IsInjective(t) /\ c \notin ToSet(t) /\ c \in Conn
      BY <1>8
  <2> HIDE DEF t
  <2>1. /\ Append(t, c) \in Seq(Conn) /\ IsInjective(Append(t, c))
        /\ Len(Append(t, c)) = Len(t) + 1
        /\ ToSet(Append(t, c)) = ToSet(t) \cup {c}
      BY <2>3, AppendFacts
  <2>2. Len(Tail(q)) + 1 = Len(q)
      BY <1>3, <1>8
  <2> QED BY <1>6, <1>8, <2>1, <2>2 DEF t
<1>10. s_conn_q' \in [Server -> Seq(Conn)]
    BY <1>1, <1>3, <1>6, <1>9 DEF TypeOK
<1>11. TypeOK'
  <2>1. pc' \in PC /\ scur' \in Conn \cup {None}
      BY <1>1, <1>8 DEF PC
  <2> QED BY <1>2, <1>3, <1>5, <1>10, <2>1 DEF TypeOK, Edited
<1>12. \A x \in Conn : /\ conn'[x].owner = conn[x].owner
                       /\ conn'[x].client = conn[x].client
                       /\ conn'[x].sd = conn[x].sd
                       /\ Attached(x)' <=> Attached(x)
    BY <1>5 DEF Edited, SameShape, Attached
<1>13. ConnPools'
  <2>1. ASSUME NEW z \in Server
        PROVE  /\ IsInjective(s_conn_q'[z]) /\ Len(s_conn_q'[z]) <= SERVER_CONNECTIONS
               /\ \A x \in Conn : x \in ToSet(s_conn_q'[z]) <=> conn'[x].owner = z
    <3>1. CASE z = s
        BY <1>3, <1>9, <1>12, <3>1
    <3>2. CASE z # s
        BY <1>7, <1>12, <3>2 DEF IInv, ConnPools
    <3> QED BY <3>1, <3>2
  <2>2. /\ IsInjective(free_connq')
        /\ \A x \in Conn : x \in ToSet(free_connq') <=> ~Attached(x)'
      BY <1>2, <1>12 DEF IInv, ConnPools
  <2> QED BY <2>1, <2>2 DEF ConnPools
<1>14. Control'
  <2>1. ASSUME NEW x \in Conn, Attached(x)'
        PROVE  (conn'[x].client <=> conn'[x].owner = Pool) /\ conn'[x].sd # None
    <3>1. Attached(x)
        BY <1>12, <2>1
    <3>2. (conn[x].client <=> conn[x].owner = Pool) /\ conn[x].sd # None
        BY <1>1, <3>1 DEF IInv, Control
    <3> QED BY <1>12, <3>2
  <2>2. conn[c].owner = s
      BY <1>3, <1>8
  <2>3. scur' \in Conn /\ conn'[scur'].owner \in Server
      BY <1>1, <1>8, <1>12, <2>2
  <2>4. cur' \in Conn /\ Attached(cur)' /\ cmsg' \in Msg /\ conn'[cur'].client
      BY <1>2, <1>5, <1>12
  <2> QED BY <2>1, <2>3, <2>4 DEF Control
<1>15. ClientLimit'
  <2>1. \A x \in Conn : conn'[x].client /\ Attached(x)' => x \in Clients
      BY <1>12 DEF Clients
  <2> QED BY <2>1, FewerClients
<1> QED BY <1>11, <1>13, <1>14, <1>15 DEF IInv

(* server_pool_conn gives back the connection that server_connect failed.  *)
LEMMA RejectStep == ASSUME IInv, ForwardRejected PROVE IInv'
<1>1. /\ pc = "reject" /\ server_close(conn, msg, sock, scur)
      /\ pc' = "error" /\ scur' = None
      /\ clock' = clock /\ asked' = asked /\ answered' = answered
      /\ nsd' = nsd /\ nmsg' = nmsg /\ nfault' = nfault /\ nfull' = nfull
      /\ backlog' = backlog
      /\ cur' = cur /\ cmsg' = cmsg /\ wr' = wr /\ batch' = batch
    BY DEF ForwardRejected, bounds, history
<1>2. /\ scur \in Conn /\ conn[scur].owner \in Server
      /\ cur \in Conn /\ Attached(cur) /\ conn[cur].client /\ cmsg \in Msg
      /\ conn[cur].owner = Pool
    BY <1>1 DEF IInv, Control, Handling, Forwarding
<1>3. /\ Edited(conn) /\ msg \in [Msg -> MsgRec] /\ sock \in [Sd -> SockRec]
    BY ConnEdited DEF IInv, TypeOK
<1>4. Released(scur)
    BY <1>1, <1>2, <1>3, ServerCloseStep DEF Edited
<1>5. TypeOK'
  <2>1. pc' \in PC /\ scur' \in Conn \cup {None}
      BY <1>1 DEF PC
  <2> QED BY <1>1, <1>4, <2>1 DEF IInv, TypeOK, Released, Tables
<1>6. cur # scur
    BY <1>2 DEF Server, Pool
<1>7. Control'
  <2>1. ASSUME NEW x \in Conn, Attached(x)'
        PROVE  (conn'[x].client <=> conn'[x].owner = Pool) /\ conn'[x].sd # None
    <3>1. x # scur
        BY <1>4, <2>1 DEF Released, Attached
    <3>2. /\ conn'[x].owner = conn[x].owner /\ conn'[x].client = conn[x].client
          /\ conn'[x].sd = conn[x].sd
        BY <1>4, <3>1 DEF Released
    <3>3. Attached(x)
        BY <2>1, <3>2 DEF Attached
    <3>4. (conn[x].client <=> conn[x].owner = Pool) /\ conn[x].sd # None
        BY <3>1, <3>3 DEF IInv, Control
    <3> QED BY <3>2, <3>4
  <2>2. cur' \in Conn /\ Attached(cur)' /\ cmsg' \in Msg /\ conn'[cur'].client
      BY <1>1, <1>2, <1>4, <1>6 DEF Released, Attached
  <2>3. pc' \notin {"enqueue", "reject"}
      BY <1>1
  <2> QED BY <2>1, <2>2, <2>3 DEF Control
<1>8. ClientLimit'
  <2>1. \A x \in Conn : conn'[x].client /\ Attached(x)' => x \in Clients
      BY <1>4 DEF Released, Clients, Attached
  <2> QED BY <2>1, FewerClients
<1> QED BY <1>4, <1>5, <1>7, <1>8 DEF IInv, Released

(* req_forward_error.                                                      *)
LEMMA ForwardErrorStep == ASSUME IInv, req_forward_error PROVE IInv'
<1> DEFINE r == [msg[cmsg] EXCEPT !.done = TRUE, !.error = TRUE]
           x == IF r.noreply THEN req_put(r) ELSE r
<1>1. /\ pc = "error" /\ msg' = [msg EXCEPT ![cmsg] = x]
      /\ \/ conn' = event_add_out(conn, cur) /\ sock' = Rearmed(sock, conn, cur)
         \/ UNCHANGED <<conn, sock>>
      /\ pc' \in {"recv", "check"} /\ cmsg' = None
      /\ UNCHANGED <<free_connq, s_conn_q, clock, nsd, nmsg, nfault, backlog, nfull,
                     asked, answered, cur, scur, wr, batch>>
    BY DEF req_forward_error, ReadOn, bounds, history
<1>2. /\ msg \in [Msg -> MsgRec] /\ sock \in [Sd -> SockRec] /\ nfull \in 0..MaxFull
      /\ asked \in [Sd -> Seq(Msg)] /\ cmsg \in Msg
      /\ answered \in [Sd -> Seq(Msg \X (Msg \cup {ErrorReply}))]
    BY <1>1 DEF IInv, TypeOK, Control, Forwarding
<1>3. x \in MsgRec
  <2>1. r \in MsgRec
      BY <1>2 DEF MsgRec
  <2>2. req_put(r) \in MsgRec
      BY <2>1, ReqPutType
  <2> QED BY <2>1, <2>2
<1> HIDE DEF x
<1>4. msg' \in [Msg -> MsgRec]
    BY <1>1, <1>2, <1>3
<1>5. Edited(conn') /\ sock' \in [Sd -> SockRec]
    BY <1>1, <1>2, ConnEdited, AddOutFacts
<1>6. pc \in Handling \ {"reject"}
    BY <1>1 DEF Handling
<1> QED BY <1>1, <1>2, <1>4, <1>5, <1>6, HandlerStep

(* server_enqueue_imsgq.                                                   *)
LEMMA EnqueueStep == ASSUME IInv, ForwardEnqueue PROVE IInv'
<1> DEFINE cn == IF conn[scur].imsg_q = <<>> THEN event_add_out(conn, scur) ELSE conn
           t == Append(cn[scur].imsg_q, cmsg)
<1>1. /\ pc = "enqueue" /\ pc' \in {"recv", "check"} /\ cmsg' = None /\ scur' = None
      /\ conn' = [cn EXCEPT ![scur].imsg_q = Append(@, cmsg)]
      /\ sock' = Rearmed(sock, conn, scur) \/ sock' = sock
      /\ msg' = msg \/ msg' = [msg EXCEPT ![cmsg].tmo = scur, ![cmsg].key = clock + 1]
      /\ clock' = clock \/ clock' = clock + 1
      /\ free_connq' = free_connq /\ s_conn_q' = s_conn_q
      /\ nsd' = nsd /\ nmsg' = nmsg /\ nfault' = nfault /\ nfull' = nfull
      /\ backlog' = backlog /\ asked' = asked /\ answered' = answered
      /\ cur' = cur /\ wr' = wr /\ batch' = batch
    BY DEF ForwardEnqueue, ReadOn, bounds, history
<1>2. TypeOK /\ scur \in Conn /\ cur \in Conn /\ Attached(cur) /\ cmsg \in Msg
    BY <1>1 DEF IInv, Control, Handling, Forwarding
<1>3. Edited(conn) /\ sock \in [Sd -> SockRec]
    BY <1>2, ConnEdited DEF TypeOK
<1>4. Edited(cn) /\ sock' \in [Sd -> SockRec]
    BY <1>1, <1>3, AddOutFacts
<1>5. conn' = [cn EXCEPT ![scur].imsg_q = t]
    BY <1>1, <1>2, <1>4 DEF Edited
<1> HIDE DEF cn
<1>6. t \in Seq(Msg)
  <2>1. cn[scur] \in ConnRec
      BY <1>2, <1>4 DEF Edited
  <2>2. cn[scur].imsg_q \in Seq(Msg)
      BY <2>1 DEF ConnRec
  <2> QED BY <1>2, <2>2
<1> HIDE DEF t
<1>7. Edited(conn')
    BY <1>2, <1>4, <1>5, <1>6, QueueFacts
<1>8. clock' \in Nat
    BY <1>1, <1>2 DEF TypeOK
<1>9. msg' \in [Msg -> MsgRec]
  <2>1. msg[cmsg] \in MsgRec /\ clock + 1 \in Nat
      BY <1>2 DEF TypeOK
  <2>2. [msg[cmsg] EXCEPT !.tmo = scur, !.key = clock + 1] \in MsgRec
      BY <1>2, <2>1 DEF MsgRec
  <2> QED BY <1>1, <1>2, <2>2 DEF TypeOK
<1>10. TypeOK'
  <2>1. pc' \in PC /\ scur' \in Conn \cup {None} /\ cmsg' \in Msg \cup {None}
      BY <1>1 DEF PC
  <2> QED BY <1>1, <1>2, <1>4, <1>7, <1>8, <1>9, <2>1 DEF TypeOK, Edited
<1>11. pc' \notin Forwarding /\ pc' \notin {"enqueue", "reject"}
    BY <1>1 DEF Forwarding
<1> QED BY <1>1, <1>2, <1>7, <1>10, <1>11, Quiet DEF Edited

(* The handlers that forward.                                              *)
LEMMA ForwardStep == ASSUME IInv, Forward PROVE IInv'
    BY NewStep, LruStep, RejectStep, ForwardErrorStep, EnqueueStep DEF Forward

-----------------------------------------------------------------------------
(* Writing.                                                                *)

(* server_connected and, after it, the two ways a request leaves in_q.     *)
LEMMA ConnectedFacts ==
    ASSUME IInv, pc = "send"
    PROVE  Edited(server_connected(cur))
<1>1. cur \in Conn /\ Edited(conn)
    BY CurFacts, ConnEdited DEF Handling
<1> DEFINE r == [conn[cur] EXCEPT !.connecting = FALSE,
                                  !.connected = @ \/ conn[cur].connecting]
<1>2. conn[cur] \in ConnRec
    BY <1>1 DEF Edited
<1>3. /\ r \in ConnRec /\ r.owner = conn[cur].owner
      /\ r.client = conn[cur].client /\ r.sd = conn[cur].sd
  <2>1. (conn[cur].connected \/ conn[cur].connecting) \in BOOLEAN
      OBVIOUS
  <2> QED BY <1>2, <2>1 DEF ConnRec
<1>4. server_connected(cur) = [conn EXCEPT ![cur] = r]
    BY DEF server_connected
<1> HIDE DEF r
<1>5. Edited([conn EXCEPT ![cur] = r])
    BY <1>1, <1>3, EditedAt
<1> QED BY <1>4, <1>5

(* What the server sees of a write.                                        *)
LEMMA TransmitType ==
    ASSUME TypeOK, NEW d \in Sd, NEW m \in Msg
    PROVE  Transmit(sock, d, m) \in [Sd -> SockRec]
<1>1. sock[d] \in SockRec /\ sock[d].wire \in Seq(Msg)
    BY DEF TypeOK, SockRec
<1>2. Append(sock[d].wire, m) \in Seq(Msg)
    BY <1>1
<1>3. [sock[d] EXCEPT !.wire = Append(@, m)] \in SockRec
    BY <1>1, <1>2 DEF SockRec
<1> QED BY <1>3 DEF Transmit, TypeOK

(* The handlers that write.                                                *)
LEMMA SendStep == ASSUME IInv, Send PROVE IInv'
<1>1. /\ pc = "send" /\ pc \in Handling \ {"reject"}
    BY DEF Send, rsp_send_next_empty, rsp_send_next_wait, send_error, rsp_send_done,
           rsp_send_short, req_send_next_empty, req_send_done, req_send_short,
           Writing, Handling
<1>2. /\ cur \in Conn /\ conn[cur] \in ConnRec /\ Edited(conn)
      /\ conn[cur].omsg_q \in Seq(Msg) /\ conn[cur].imsg_q \in Seq(Msg)
      /\ conn[cur].sd \in Sd
    BY <1>1, CurFacts, ConnEdited DEF ConnRec
<1>3. /\ TypeOK /\ msg \in [Msg -> MsgRec] /\ sock \in [Sd -> SockRec]
      /\ nfull \in 0..MaxFull
      /\ asked \in [Sd -> Seq(Msg)] /\ cmsg \in Msg \cup {None}
      /\ answered \in [Sd -> Seq(Msg \X (Msg \cup {ErrorReply}))]
    BY DEF IInv, TypeOK
<1>4. \A m \in Msg : req_put(msg[m]) \in MsgRec
    BY <1>3, ReqPutType
<1>5. \A r \in SockRec : [r EXCEPT !.full = TRUE] \in SockRec
    BY DEF SockRec
<1>6. CASE rsp_send_next_empty \/ rsp_send_next_wait
  <2>1. /\ conn' = conn /\ msg' = msg /\ sock' = sock /\ pc' \in {"crash", "check"}
        /\ UNCHANGED <<free_connq, s_conn_q, clock, nsd, nmsg, nfault, backlog,
                       nfull, asked, answered, cur, scur, wr, batch, cmsg>>
      BY <1>6 DEF rsp_send_next_empty, rsp_send_next_wait, Crash,
                  tables, requests, bounds, history
  <2> QED BY <1>1, <1>2, <1>3, <2>1, HandlerStep
<1>7. CASE send_error
  <2>1. /\ conn' = [conn EXCEPT ![cur].err = TRUE]
        /\ msg' = msg /\ sock' = sock /\ pc' = "check"
        /\ UNCHANGED <<free_connq, s_conn_q, clock, nsd, nmsg, nfault, backlog,
                       nfull, asked, answered, cur, scur, wr, batch, cmsg>>
      BY <1>7 DEF send_error, requests, bounds, history
  <2>2. Edited(conn')
      BY <1>2, <2>1, FlagFacts
  <2> QED BY <1>1, <1>3, <2>1, <2>2, HandlerStep
<1>8. CASE rsp_send_done
  <2> DEFINE q == conn[cur].omsg_q
             p == Head(q)
             t == Tail(q)
             reply == IF msg[p].error THEN ErrorReply ELSE msg[p].peer
  <2>1. /\ q # <<>>
        /\ answered' = [answered EXCEPT ![conn[cur].sd] = Append(@, <<p, reply>>)]
        /\ msg' = [msg EXCEPT ![p] = req_put(@)]
        /\ conn' = [conn EXCEPT ![cur].omsg_q = t]
        /\ sock' = sock /\ asked' = asked /\ pc' = pc
        /\ UNCHANGED <<free_connq, s_conn_q, clock, nsd, nmsg, nfault, backlog,
                       nfull, cur, scur, wr, batch, cmsg>>
      BY <1>2, <1>8 DEF rsp_send_done, Writing, CanSend, HeadDone, Dequeued, Edited,
                        control, bounds
  <2>2. p \in Msg /\ t \in Seq(Msg)
      BY <1>2, <2>1
  <2>3. reply \in Msg \cup {ErrorReply}
      BY <1>3, <2>2 DEF MsgRec, None, ErrorReply
  <2> HIDE DEF q, p, t, reply
  <2>4. msg' \in [Msg -> MsgRec]
      BY <1>3, <1>4, <2>1, <2>2
  <2>5. answered' \in [Sd -> Seq(Msg \X (Msg \cup {ErrorReply}))]
    <3>1. <<p, reply>> \in Msg \X (Msg \cup {ErrorReply})
        BY <2>2, <2>3
    <3>2. \A d \in Sd : Append(answered[d], <<p, reply>>)
                          \in Seq(Msg \X (Msg \cup {ErrorReply}))
        BY <1>3, <3>1
    <3> QED BY <1>3, <2>1, <3>2
  <2>6. Edited(conn')
      BY <1>2, <2>1, <2>2, QueueFacts
  <2> QED BY <1>1, <1>3, <2>1, <2>4, <2>5, <2>6, HandlerStep
<1>9. CASE rsp_send_short
  <2>1. /\ conn' = conn /\ msg' = msg /\ pc' = "check"
        /\ \/ sock' = sock /\ nfull' = nfull
           \/ nfull < MaxFull /\ nfull' = nfull + 1
              /\ sock' = [sock EXCEPT ![conn[cur].sd].full = TRUE]
        /\ UNCHANGED <<free_connq, s_conn_q, clock, nsd, nmsg, nfault, backlog,
                       asked, answered, cur, scur, wr, batch, cmsg>>
      BY <1>9 DEF rsp_send_short, Short, tables, requests, history
  <2>2. nfull' \in 0..MaxFull
      BY <1>3, <2>1, ConstantsAssumption
  <2>3. sock' \in [Sd -> SockRec]
    <3>1. sock' = sock \/ sock' = [sock EXCEPT ![conn[cur].sd].full = TRUE]
        BY <2>1
    <3>2. [sock[conn[cur].sd] EXCEPT !.full = TRUE] \in SockRec
        BY <1>2, <1>3, <1>5
    <3> QED BY <1>2, <1>3, <3>1, <3>2
  <2> QED BY <1>1, <1>2, <1>3, <2>1, <2>2, <2>3, HandlerStep
<1>10. CASE req_send_next_empty
  <2> DEFINE cn == server_connected(cur)
  <2>1. /\ conn' = [cn EXCEPT ![cur].send_active = FALSE]
        /\ msg' = msg /\ sock' = Disarmed(sock, conn, cur) /\ pc' = "check"
        /\ UNCHANGED <<free_connq, s_conn_q, clock, nsd, nmsg, nfault, backlog,
                       nfull, asked, answered, cur, scur, wr, batch, cmsg>>
      BY <1>10 DEF req_send_next_empty, requests, bounds, history
  <2>2. Edited(cn)
      BY <1>1, ConnectedFacts
  <2> HIDE DEF cn
  <2>3. TRUE \in BOOLEAN
      OBVIOUS
  <2>4. Edited(conn')
      BY <1>2, <2>1, <2>2, <2>3, FlagFacts
  <2>5. sock' \in [Sd -> SockRec]
    <3>1. sock' = sock \/ sock' = [sock EXCEPT ![conn[cur].sd].rdy = TRUE]
        BY <2>1 DEF Disarmed
    <3>2. \A r \in SockRec : [r EXCEPT !.rdy = TRUE] \in SockRec
        BY DEF SockRec
    <3>3. [sock[conn[cur].sd] EXCEPT !.rdy = TRUE] \in SockRec
        BY <1>2, <1>3, <3>2
    <3> QED BY <1>2, <1>3, <3>1, <3>3
  <2> QED BY <1>1, <1>3, <2>1, <2>4, <2>5, HandlerStep
<1>11. CASE req_send_done
  <2> DEFINE q == conn[cur].imsg_q
             m == Head(q)
             t == Tail(q)
             u == Append(conn[cur].omsg_q, m)
             cn == server_connected(cur)
             p == [cn EXCEPT ![cur].imsg_q = t]
  <2>1. /\ q # <<>>
        /\ \/ conn' = [cn EXCEPT ![cur].imsg_q = Tail(@)]
              /\ msg' = [msg EXCEPT ![m] = req_put(@)]
           \/ conn' = SentOut(cn, cur) /\ msg' = [msg EXCEPT ![m].part = FALSE]
        /\ sock' = Transmit(sock, conn[cur].sd, m) /\ pc' = pc
        /\ UNCHANGED <<free_connq, s_conn_q, clock, nsd, nmsg, nfault, backlog,
                       nfull, asked, answered, cur, scur, wr, batch, cmsg>>
      BY <1>11 DEF req_send_done, Writing, CanSend, control, bounds, history
  <2>2. m \in Msg /\ t \in Seq(Msg) /\ u \in Seq(Msg)
      BY <1>2, <2>1
  <2>3. /\ Edited(cn) /\ cn[cur].imsg_q = q /\ cn[cur].omsg_q = conn[cur].omsg_q
        /\ cn[cur] \in ConnRec
    <3>1. Edited(cn)
        BY <1>1, ConnectedFacts
    <3>2. cn[cur].imsg_q = q /\ cn[cur].omsg_q = conn[cur].omsg_q
        BY <1>2 DEF server_connected, Edited, ConnRec
    <3> QED BY <1>2, <3>1, <3>2 DEF Edited
  <2>4. /\ [cn EXCEPT ![cur].imsg_q = Tail(@)] = p
        /\ SentOut(cn, cur) = [p EXCEPT ![cur].omsg_q = u]
    <3> HIDE DEF cn, t, q
    <3>1. [cn EXCEPT ![cur].imsg_q = Tail(@)] = p
        BY <1>2, <2>3 DEF Edited, t
    <3>2. SentOut(cn, cur) = [cn EXCEPT ![cur].imsg_q = t, ![cur].omsg_q = u]
        BY <1>2, <2>3 DEF SentOut, Edited, t, ConnRec
    <3> QED BY <1>2, <2>3, <3>1, <3>2 DEF Edited, ConnRec
  <2>5. msg' \in [Msg -> MsgRec]
    <3>1. \A r \in MsgRec : [r EXCEPT !.part = FALSE] \in MsgRec
        BY DEF MsgRec
    <3> QED BY <1>3, <1>4, <2>1, <2>2, <3>1
  <2>6. sock' \in [Sd -> SockRec]
      BY <1>2, <1>3, <2>1, <2>2, TransmitType
  <2> HIDE DEF cn, u, t, q, m
  <2>7. Edited(p)
      BY <1>2, <2>2, <2>3, QueueFacts
  <2> HIDE DEF p
  <2>8. Edited([p EXCEPT ![cur].omsg_q = u])
      BY <1>2, <2>2, <2>7, QueueFacts
  <2>9. Edited(conn')
      BY <2>1, <2>4, <2>7, <2>8
  <2> QED BY <1>1, <1>3, <2>1, <2>5, <2>6, <2>9, HandlerStep
<1>12. CASE req_send_short
  <2> DEFINE q == conn[cur].imsg_q
             m == Head(q)
             d == conn[cur].sd
             sk == Transmit(sock, d, m)
  <2>1. /\ ~conn[cur].client /\ q # <<>>
        /\ conn' = server_connected(cur) /\ pc' = "check"
        /\ \/ sock' = sock /\ nfull' = nfull /\ msg' = msg
           \/ /\ nfull < MaxFull /\ nfull' = nfull + 1
              /\ sock' = [sk EXCEPT ![d].full = TRUE]
              /\ msg' = [msg EXCEPT ![m].part = TRUE]
        /\ UNCHANGED <<free_connq, s_conn_q, clock, nsd, nmsg, nfault, backlog,
                       asked, answered, cur, scur, wr, batch, cmsg>>
      BY <1>2, <1>12 DEF req_send_short, Writing, CanSend, Short, history, ConnRec
  <2>2. m \in Msg /\ sk \in [Sd -> SockRec]
      BY <1>2, <1>3, <2>1, TransmitType
  <2>3. Edited(conn')
      BY <1>1, <2>1, ConnectedFacts
  <2>4. nfull' \in 0..MaxFull
      BY <1>3, <2>1, ConstantsAssumption
  <2> HIDE DEF sk, m
  <2>5. sock' \in [Sd -> SockRec]
    <3>1. sock' = sock \/ sock' = [sk EXCEPT ![d].full = TRUE]
        BY <2>1
    <3>2. d \in Sd /\ [sk[d] EXCEPT !.full = TRUE] \in SockRec
        BY <1>2, <1>5, <2>2
    <3> HIDE DEF d
    <3> QED BY <1>3, <2>2, <3>1, <3>2
  <2>6. msg' \in [Msg -> MsgRec]
    <3>1. \A r \in MsgRec : [r EXCEPT !.part = TRUE] \in MsgRec
        BY DEF MsgRec
    <3>2. msg' = msg \/ msg' = [msg EXCEPT ![m].part = TRUE]
        BY <2>1
    <3> QED BY <1>3, <2>2, <3>1, <3>2
  <2> QED BY <1>1, <1>3, <2>1, <2>3, <2>4, <2>5, <2>6, HandlerStep
<1> QED BY <1>6, <1>7, <1>8, <1>9, <1>10, <1>11, <1>12 DEF Send

-----------------------------------------------------------------------------
(* The induction.                                                          *)

(* Peers change sockets only.                                              *)
LEMMA PeersStep == ASSUME IInv, Peers PROVE IInv'
<1>1. TypeOK'
    BY TypePeers
<1>2. UNCHANGED <<tables, control>>
    BY DEF Peers, ClientConnects, ClientSends, ClientStops, ClientResets,
           ServerReplies, ServerRepliesEarly, ServerFails, ServerCloses,
           ServerResets, ConnectSucceeds, ConnectFails, SocketDrains
<1>3. ConnPools' /\ Control'
    BY <1>2 DEF IInv, ConnPools, Control, Attached, tables, control
<1>4. ClientLimit'
    BY <1>2 DEF IInv, ClientLimit, Clients, Attached, tables
<1> QED BY <1>1, <1>3, <1>4 DEF IInv

(* Every step of the event loop.                                           *)
LEMMA LoopStep == ASSUME IInv, Loop PROVE IInv'
    BY EventWaitStep, TurnStep, CoreCoreStep, CheckStep, TimeoutStep, AcceptStep,
       RecvStep, ForwardStep, SendStep DEF Loop

(* Nothing happens.                                                        *)
LEMMA StutterStep == ASSUME IInv, UNCHANGED vars PROVE IInv'
    BY DEF IInv, TypeOK, ConnPools, Control, ClientLimit, Clients, Attached, vars,
           tables, requests, control, bounds, history

(* IInv is inductive.                                                      *)
LEMMA Invariance == Spec => []IInv
<1>1. IInv /\ [Next]_vars => IInv'
    BY PeersStep, LoopStep, StutterStep DEF Next
<1> QED BY InitIInv, <1>1, PTL DEF Spec

(* Every variable keeps its type: the event loop never leaves a connection *)
(* or a request in a state outside the records of gf_connection.h and      *)
(* gf_message.h, whatever the peers do.                                    *)
THEOREM ProxyTypeCorrect == Spec => []TypeOK
<1>1. IInv => TypeOK
    BY DEF IInv
<1> QED BY Invariance, <1>1, PTL

(* conn_get, conn_put, server_ref and server_unref never lose a structure, *)
(* hand it out twice or give a server more than server_connections, over   *)
(* any interleaving of accepts, closes, refused connects and timeouts.     *)
THEOREM ProxyConnPools == Spec => []ConnPools
<1>1. IInv => ConnPools
    BY DEF IInv
<1> QED BY Invariance, <1>1, PTL

(* proxy_accept keeps the connected clients within ctx->max_ncconn,        *)
(* whatever the order of accepts, closes and reuse of structures.          *)
THEOREM ProxyClientLimit == Spec => []ClientLimit
<1>1. IInv => ClientLimit
    BY DEF IInv
<1> QED BY Invariance, <1>1, PTL

-----------------------------------------------------------------------------
(***************************************************************************)
(* What the steps of Proxy do, for the proofs of its other invariants.     *)
(*                                                                         *)
(* Each handler of the loop, and each action of the peers, is put here as  *)
(* its effect: which queue, flag, request and socket it changes, and what  *)
(* it leaves.  Several handlers have the same effect (Idle: those that     *)
(* move no request).  LoopEffect and PeersEffect say that there are no     *)
(* other steps; the invariants of ProxyRequests are then shown of the      *)
(* effects, one lemma for each.                                            *)
(*                                                                         *)
(* Sockets, Structures and Stage are the invariant that some effects rest  *)
(* on: a closed connection would have empty queues, and done or err is set *)
(* only on what core_close is called on next.                              *)
(***************************************************************************)
-----------------------------------------------------------------------------
(* The sockets: the connection in use names an open one, and the other way *)
(* round; sockets that were never opened are blank.                        *)
Sockets ==
    /\ \A c \in Conn : Attached(c) /\ conn[c].sd # None =>
         /\ sock[conn[c].sd].open /\ sock[conn[c].sd].ptr = c
         /\ sock[conn[c].sd].server <=> ~conn[c].client
         /\ conn[c].sd <= nsd
    /\ \A d \in Sd : d > nsd =>
         asked[d] = <<>> /\ answered[d] = <<>>

(* The structures.                                                         *)
Structures ==
    /\ \A c \in Conn : Attached(c) =>
         /\ conn[c].client => conn[c].imsg_q = <<>>
         /\ conn[c].sd = None => conn[c].imsg_q = <<>> /\ conn[c].omsg_q = <<>>
         /\ conn[c].done \/ conn[c].err => \/ pc = "check" /\ cur = c
                                           \/ pc = "reject" /\ scur = c

(* Only while it forwards does the loop hold a request (the local msg of   *)
(* req_recv_done).                                                         *)
Stage == cmsg # None => pc \in Forwarding

(* server_close finds the queues of a connection without a socket empty,   *)
(* so that it leaves the requests, the sockets and the other structures.   *)
LEMMA ServerClosed ==
    ASSUME NEW STATE cn, cn \in [Conn -> ConnRec],
           NEW STATE mg, mg \in [Msg -> MsgRec],
           NEW STATE sk, sk \in [Sd -> SockRec],
           NEW STATE c, c \in Conn,
           cn[c].sd = None => cn[c].imsg_q = <<>> /\ cn[c].omsg_q = <<>>,
           server_close(cn, mg, sk, c)
    PROVE  /\ msg' = mg /\ sock' = sk
           /\ \A k \in Conn \ {c} : conn'[k] = cn[k]
<1>1. cn[c] \in ConnRec
    OBVIOUS
<1>2. CASE cn[c].sd # None
    BY <1>1, <1>2 DEF server_close, ConnRec
<1>3. CASE cn[c].sd = None
  <2>1. cn[c].imsg_q = <<>> /\ cn[c].omsg_q = <<>>
      BY <1>3
  <2>2. ToSet(cn[c].imsg_q) = {} /\ ToSet(cn[c].omsg_q) = {}
      BY <2>1 DEF ToSet
  <2>3. msg' = mg
      BY <1>3, <2>2 DEF server_close
  <2>4. sock' = sk
      BY <1>3, <2>2 DEF server_close
  <2>5. \A k \in Conn \ {c} : conn'[k] = cn[k]
      BY <1>3, <2>2 DEF server_close
  <2> QED BY <2>3, <2>4, <2>5
<1> QED BY <1>2, <1>3

(* What closing c leaves of the other structures, sockets and requests.    *)
Closes(c, mg) ==
    /\ Attached(c) /\ conn'[c].owner = None
    /\ \A k \in Conn \ {c} : conn'[k] = conn[k]
    /\ \A d \in Sd : /\ d # conn[c].sd => sock'[d] = sock[d]
                     /\ sock'[d] = [sock[d] EXCEPT !.ptr = sock'[d].ptr,
                                                   !.open = sock'[d].open]
    /\ msg' = IF conn[c].client
              THEN [m \in Msg |-> IF m \in ToSet(conn[c].omsg_q)
                                  THEN Abandoned(mg[m]) ELSE mg[m]]
              ELSE mg

(* cn is conn but for flags of c.                                          *)
Alike(cn, c) ==
    /\ Edited(cn)
    /\ \A k \in Conn \ {c} : cn[k] = conn[k]
    /\ cn[c].imsg_q = conn[c].imsg_q /\ cn[c].omsg_q = conn[c].omsg_q

(* core_close, of a connection that may have been edited before            *)
(* (core_error sets no queue): it closes the connection by its kind, or    *)
(* stops at the assertion of client_close and server_close on one that is  *)
(* closed already.                                                         *)
LEMMA CoreClosed ==
    ASSUME IInv, Structures,
           NEW STATE c, c \in Conn,
           NEW STATE cn, Alike(cn, c),
           NEW STATE mg, mg \in [Msg -> MsgRec],
           NEW CONSTANT after,
           core_close(cn, mg, c, after)
    PROVE  \/ pc' = "crash" /\ UNCHANGED <<tables, msg, sock>> /\ ~Attached(c)
           \/ pc' = after /\ Closes(c, mg)
<1> DEFINE k == [cn EXCEPT ![c].send_active = FALSE]
           sk == [sock EXCEPT ![cn[c].sd].ptr = None]
<1>0. cn \in [Conn -> ConnRec] /\ SameShape(cn)
    BY DEF Alike, Edited
<1>1. cn[c] \in ConnRec /\ conn[c] \in ConnRec
    BY <1>0 DEF IInv, TypeOK
<1>2. /\ cn[c].owner = conn[c].owner /\ cn[c].client = conn[c].client
      /\ cn[c].sd = conn[c].sd
    BY <1>0 DEF SameShape
<1>3. CASE cn[c].owner = None
    BY <1>2, <1>3 DEF core_close, Crash, Attached
<1>4. CASE cn[c].owner # None
  <2>1. /\ pc' = after
        /\ IF cn[c].client THEN client_close(k, mg, sk, c)
                           ELSE server_close(k, mg, sk, c)
      BY <1>4 DEF core_close
  <2>2. /\ k \in [Conn -> ConnRec] /\ \A x \in Conn \ {c} : k[x] = conn[x]
        /\ k[c].owner = conn[c].owner /\ k[c].client = conn[c].client
        /\ k[c].sd = conn[c].sd /\ k[c].imsg_q = conn[c].imsg_q
        /\ k[c].omsg_q = conn[c].omsg_q
    <3> DEFINE r == [cn[c] EXCEPT !.send_active = FALSE]
    <3>1. /\ r \in ConnRec /\ r.owner = conn[c].owner /\ r.client = conn[c].client
          /\ r.sd = conn[c].sd /\ r.imsg_q = conn[c].imsg_q /\ r.omsg_q = conn[c].omsg_q
        BY <1>1, <1>2 DEF ConnRec, Alike
    <3>2. k = [cn EXCEPT ![c] = r]
        BY <1>0
    <3> HIDE DEF r, k
    <3> QED BY <1>0, <3>1, <3>2 DEF Alike
  <2>3. /\ sk \in [Sd -> SockRec]
        /\ \A d \in Sd : /\ d # conn[c].sd => sk[d] = sock[d]
                         /\ d = conn[c].sd => sk[d] = [sock[d] EXCEPT !.ptr = None]
    <3>1. sock \in [Sd -> SockRec]
        BY DEF IInv, TypeOK
    <3>2. \A r \in SockRec : [r EXCEPT !.ptr = None] \in SockRec
        BY DEF SockRec
    <3> QED BY <1>2, <3>1, <3>2
  <2>4. pc' = after /\ Attached(c) /\ Released(c)
    <3>1. Attached(c) /\ conn[c].owner # None
        BY <1>2, <1>4 DEF Attached
    <3>2. conn[c].client <=> conn[c].owner = Pool
        BY <3>1 DEF IInv, Control
    <3>3. conn[c].owner \in Server \cup {Pool}
        BY <1>1, <3>1 DEF ConnRec
    <3>4. SameShape(k)
        BY <2>2, <1>0 DEF SameShape, Alike, Edited
    <3> HIDE DEF k, sk
    <3>5. CASE conn[c].client
        BY <1>2, <2>1, <2>2, <2>3, <3>1, <3>2, <3>4, <3>5, ClientCloseStep
    <3>6. CASE ~conn[c].client
        BY <1>2, <2>1, <2>2, <2>3, <3>1, <3>2, <3>3, <3>4, <3>6, ServerCloseStep
    <3> QED BY <2>1, <3>1, <3>5, <3>6
  <2> HIDE DEF k, sk
  <2>5. conn'[c].owner = None
      BY <2>4 DEF Released
  <2>6. sock \in [Sd -> SockRec]
      BY DEF IInv, TypeOK
  <2>7. \A r \in SockRec : /\ r = [r EXCEPT !.ptr = r.ptr, !.open = r.open]
                           /\ LET x == [r EXCEPT !.ptr = None]
                              IN /\ x \in SockRec /\ x = [r EXCEPT !.ptr = x.ptr, !.open = x.open]
                                 /\ LET y == [x EXCEPT !.open = FALSE] IN
                                    y = [r EXCEPT !.ptr = y.ptr, !.open = y.open]
      BY DEF SockRec
  <2>8. CASE conn[c].client
    <3>1. client_close(k, mg, sk, c)
        BY <1>2, <2>1, <2>8
    <3>2. \A x \in Conn \ {c} : conn'[x] = conn[x]
        BY <2>2, <3>1 DEF client_close
    <3>3. msg' = [m \in Msg |-> IF m \in ToSet(conn[c].omsg_q)
                                  THEN Abandoned(mg[m]) ELSE mg[m]]
        BY <2>2, <3>1 DEF client_close
    <3>4. sock' = [sk EXCEPT ![conn[c].sd].open = FALSE]
        BY <2>2, <3>1 DEF client_close
    <3>5. ASSUME NEW d \in Sd
          PROVE /\ d # conn[c].sd => sock'[d] = sock[d]
                /\ sock'[d] = [sock[d] EXCEPT !.ptr = sock'[d].ptr,
                                                   !.open = sock'[d].open]
      <4>1. sock[d] \in SockRec
          BY <2>6
      <4>2. CASE d # conn[c].sd
          BY <2>3, <2>7, <3>4, <4>1, <4>2
      <4>3. CASE d = conn[c].sd
        <5>1. sock'[d] = [[sock[d] EXCEPT !.ptr = None] EXCEPT !.open = FALSE]
            BY <2>3, <3>4, <4>3
        <5> QED BY <2>7, <4>1, <4>3, <5>1
      <4> QED BY <4>2, <4>3
    <3> QED BY <2>4, <2>5, <2>8, <3>2, <3>3, <3>5 DEF Closes
  <2>9. CASE ~conn[c].client
    <3>1. server_close(k, mg, sk, c)
        BY <1>2, <2>1, <2>9
    <3>2. k[c].sd = None => k[c].imsg_q = <<>> /\ k[c].omsg_q = <<>>
        BY <2>2, <2>4 DEF Structures
    <3>3. /\ msg' = mg /\ sock' = sk
          /\ \A x \in Conn \ {c} : conn'[x] = conn[x]
        BY <2>2, <2>3, <3>1, <3>2, ServerClosed
    <3>5. ASSUME NEW d \in Sd
          PROVE /\ d # conn[c].sd => sock'[d] = sock[d]
                /\ sock'[d] = [sock[d] EXCEPT !.ptr = sock'[d].ptr,
                                                   !.open = sock'[d].open]
      <4>1. sock[d] \in SockRec
          BY <2>6
      <4>2. CASE d # conn[c].sd
          BY <2>3, <2>7, <3>3, <4>1, <4>2
      <4>3. CASE d = conn[c].sd
        <5>1. sock'[d] = [sock[d] EXCEPT !.ptr = None]
            BY <2>3, <3>3, <4>3
        <5> QED BY <2>7, <4>1, <4>3, <5>1
      <4> QED BY <4>2, <4>3
    <3> QED BY <2>4, <2>5, <2>9, <3>3, <3>5 DEF Closes
  <2> QED BY <2>4, <2>8, <2>9
<1> QED BY <1>3, <1>4

-----------------------------------------------------------------------------
(* What requests see of a structure.                                       *)
Kept(k) == /\ conn'[k].client = conn[k].client /\ conn'[k].owner = conn[k].owner
           /\ conn'[k].sd = conn[k].sd
           /\ conn'[k].imsg_q = conn[k].imsg_q /\ conn'[k].omsg_q = conn[k].omsg_q

(* Neither done nor err of the structure changes.                          *)
Sealed(k) == conn'[k].done = conn[k].done /\ conn'[k].err = conn[k].err

(* p is what is left of q after its first elements were taken.             *)
Suffix(p, q) == \E n \in 0..Len(q) : /\ Len(p) = Len(q) - n
                                     /\ \A i \in 1..Len(p) : p[i] = q[n + i]

(* What a handler leaves of a socket: it opens, closes and connects        *)
(* nothing, and only reads.                                                *)
SockKept(d) ==
    /\ sock'[d].open = sock[d].open /\ sock'[d].ptr = sock[d].ptr
    /\ sock'[d].server = sock[d].server /\ sock'[d].up = sock[d].up
    /\ sock'[d].kerr = sock[d].kerr /\ sock'[d].hup = sock[d].hup
    /\ Suffix(sock'[d].inq, sock[d].inq)

(* A sequence, its tail and its later part are suffixes of it (conn_recv   *)
(* takes from the front).                                                  *)
LEMMA SuffixFacts ==
    ASSUME NEW S, NEW q \in Seq(S)
    PROVE  /\ Suffix(q, q)
           /\ q # <<>> => Suffix(Tail(q), q)
           /\ \A k \in 1..Len(q) : Suffix(SubSeq(q, k + 1, Len(q)), q)
<1>1. Len(q) \in Nat
    OBVIOUS
<1>2. Suffix(q, q)
  <2>1. 0 \in 0..Len(q) /\ Len(q) = Len(q) - 0 /\ \A i \in 1..Len(q) : q[i] = q[0 + i]
      BY <1>1
  <2> QED BY <2>1 DEF Suffix
<1>3. ASSUME q # <<>> PROVE Suffix(Tail(q), q)
  <2>1. /\ Len(Tail(q)) = Len(q) - 1 /\ \A i \in 1..Len(Tail(q)) : Tail(q)[i] = q[i + 1]
      BY <1>3, HeadTailProperties
  <2>2. 1 \in 0..Len(q)
      BY <1>1, <1>3, EmptySeq
  <2>3. \A i \in 1..Len(Tail(q)) : Tail(q)[i] = q[1 + i]
      BY <1>1, <2>1
  <2> QED BY <2>1, <2>2, <2>3 DEF Suffix
<1>4. ASSUME NEW k \in 1..Len(q) PROVE Suffix(SubSeq(q, k + 1, Len(q)), q)
  <2> DEFINE p == SubSeq(q, k + 1, Len(q))
  <2>1. k \in Int /\ k >= 1 /\ k <= Len(q)
      BY <1>1
  <2>2. \A i \in (k + 1)..Len(q) : q[i] \in S
      BY <1>1, <2>1, ElementOfSeq
  <2>3. /\ Len(p) = IF k + 1 <= Len(q) THEN Len(q) - (k + 1) + 1 ELSE 0
        /\ \A i \in 1..(Len(q) - (k + 1) + 1) : p[i] = q[k + 1 + i - 1]
      BY <1>1, <2>1, <2>2, SubSeqProperties
  <2> HIDE DEF p
  <2>4. Len(p) = Len(q) - k
      BY <1>1, <2>1, <2>3
  <2>5. ASSUME NEW i \in 1..Len(p) PROVE p[i] = q[k + i]
    <3>1. i \in 1..(Len(q) - (k + 1) + 1) /\ k + 1 + i - 1 = k + i
        BY <1>1, <2>1, <2>4
    <3> QED BY <2>3, <3>1
  <2>6. k \in 0..Len(q)
      BY <2>1
  <2>7. Suffix(p, q)
      BY <2>4, <2>5, <2>6 DEF Suffix
  <2> QED BY <2>7 DEF p
<1> QED BY <1>2, <1>3, <1>4

(* An edit that only sets flags.                                           *)
Flagged(x, cn, c) ==
    \E r \in ConnRec :
         /\ x = [cn EXCEPT ![c] = r]
         /\ r.client = cn[c].client /\ r.owner = cn[c].owner /\ r.sd = cn[c].sd
         /\ r.imsg_q = cn[c].imsg_q /\ r.omsg_q = cn[c].omsg_q

(* The flag edits of the handlers (conn->err, send_active, eof, done,      *)
(* connected) touch no queue, owner or socket.                             *)
LEMMA FlagsOnly ==
    ASSUME NEW STATE cn, cn \in [Conn -> ConnRec], NEW STATE c, c \in Conn,
           NEW STATE b, b \in BOOLEAN
    PROVE  /\ Flagged([cn EXCEPT ![c].err = TRUE], cn, c)
           /\ Flagged([cn EXCEPT ![c].send_active = FALSE], cn, c)
           /\ Flagged([cn EXCEPT ![c].send_active = TRUE], cn, c)
           /\ Flagged([cn EXCEPT ![c].eof = TRUE, ![c].done = b], cn, c)
           /\ Flagged([cn EXCEPT ![c].err = TRUE, ![c].done = TRUE], cn, c)
           /\ Flagged([cn EXCEPT ![c].connecting = FALSE, ![c].connected = b], cn, c)
           /\ Flagged([[cn EXCEPT ![c].connecting = FALSE, ![c].connected = b]
                          EXCEPT ![c].send_active = FALSE], cn, c)
<1>1. cn[c] \in ConnRec
    OBVIOUS
<1> DEFINE P(r) == /\ r \in ConnRec
                   /\ r.client = cn[c].client /\ r.owner = cn[c].owner /\ r.sd = cn[c].sd
                   /\ r.imsg_q = cn[c].imsg_q /\ r.omsg_q = cn[c].omsg_q
           r1 == [cn[c] EXCEPT !.err = TRUE]
           r2 == [cn[c] EXCEPT !.send_active = FALSE]
           r3 == [cn[c] EXCEPT !.send_active = TRUE]
           r4 == [cn[c] EXCEPT !.eof = TRUE, !.done = b]
           r5 == [cn[c] EXCEPT !.err = TRUE, !.done = TRUE]
           r6 == [cn[c] EXCEPT !.connecting = FALSE, !.connected = b]
           r7 == [r6 EXCEPT !.send_active = FALSE]
<1>2. P(r1) /\ P(r2) /\ P(r3) /\ P(r4) /\ P(r5)
    BY <1>1 DEF ConnRec
<1>3. P(r6)
    BY <1>1 DEF ConnRec
<1>4. P(r7)
    BY <1>1 DEF ConnRec
<1>5. /\ [cn EXCEPT ![c].err = TRUE] = [cn EXCEPT ![c] = r1]
      /\ [cn EXCEPT ![c].send_active = FALSE] = [cn EXCEPT ![c] = r2]
      /\ [cn EXCEPT ![c].send_active = TRUE] = [cn EXCEPT ![c] = r3]
      /\ [cn EXCEPT ![c].eof = TRUE, ![c].done = b] = [cn EXCEPT ![c] = r4]
      /\ [cn EXCEPT ![c].err = TRUE, ![c].done = TRUE] = [cn EXCEPT ![c] = r5]
      /\ [cn EXCEPT ![c].connecting = FALSE, ![c].connected = b] = [cn EXCEPT ![c] = r6]
      /\ [[cn EXCEPT ![c].connecting = FALSE, ![c].connected = b]
                          EXCEPT ![c].send_active = FALSE] = [cn EXCEPT ![c] = r7]
    OBVIOUS
<1> HIDE DEF r1, r2, r3, r4, r5, r6, r7
<1> QED BY <1>2, <1>3, <1>4, <1>5 DEF Flagged

(* What a flag edit leaves.                                                *)
LEMMA FlaggedFacts ==
    ASSUME NEW STATE cn, cn \in [Conn -> ConnRec], NEW STATE c, c \in Conn,
           NEW ACTION x, Flagged(x, cn, c)
    PROVE  /\ x \in [Conn -> ConnRec]
           /\ \A k \in Conn :
                /\ x[k].client = cn[k].client /\ x[k].owner = cn[k].owner
                /\ x[k].sd = cn[k].sd
                /\ x[k].imsg_q = cn[k].imsg_q /\ x[k].omsg_q = cn[k].omsg_q
                /\ k # c => x[k] = cn[k]
<1>3. PICK r \in ConnRec :
         /\ x = [cn EXCEPT ![c] = r]
         /\ r.client = cn[c].client /\ r.owner = cn[c].owner /\ r.sd = cn[c].sd
         /\ r.imsg_q = cn[c].imsg_q /\ r.omsg_q = cn[c].omsg_q
    BY DEF Flagged
<1>4. \A k \in Conn : x[k] = IF k = c THEN r ELSE cn[k]
    BY <1>3
<1> QED BY <1>3, <1>4

(* Edits of sockets that a handler makes.                                  *)
SockAlike(x, y) ==
    /\ x.open = y.open /\ x.ptr = y.ptr /\ x.server = y.server /\ x.up = y.up
    /\ x.kerr = y.kerr /\ x.hup = y.hup

(* conn_recv takes the first item from the socket it reads, and nothing    *)
(* else.                                                                   *)
LEMMA ConsumedFacts ==
    ASSUME IInv, pc = "recv", Sk(cur).inq # <<>>
    PROVE  \A d \in Sd :
             /\ SockAlike(Consumed(cur)[d], sock[d])
             /\ Consumed(cur)[d].wire = sock[d].wire
             /\ Consumed(cur)[d].rdy = sock[d].rdy
             /\ Consumed(cur)[d].full = sock[d].full
             /\ Consumed(cur)[d].inq = IF d = conn[cur].sd THEN Tail(sock[d].inq)
                                                           ELSE sock[d].inq
<1>1. /\ conn[cur].sd \in Sd /\ Sk(cur) \in SockRec /\ sock \in [Sd -> SockRec]
    BY CurFacts DEF Handling, Sk, IInv, TypeOK
<1> DEFINE r == [Sk(cur) EXCEPT !.inq = Tail(@)]
<1>2. /\ SockAlike(r, Sk(cur)) /\ r.wire = Sk(cur).wire /\ r.rdy = Sk(cur).rdy
      /\ r.full = Sk(cur).full /\ r.inq = Tail(Sk(cur).inq)
    BY <1>1 DEF SockRec, SockAlike
<1>3. Consumed(cur) = [sock EXCEPT ![conn[cur].sd] = r]
    BY <1>1 DEF Consumed, Sk
<1> HIDE DEF r
<1>4. \A d \in Sd : Consumed(cur)[d] = IF d = conn[cur].sd THEN r ELSE sock[d]
    BY <1>1, <1>3
<1> QED BY <1>1, <1>2, <1>4 DEF SockAlike, Sk

(* event_add_out re-arms the descriptor: it brings an event and changes    *)
(* nothing else of a socket.                                               *)
LEMMA RearmedFacts ==
    ASSUME NEW STATE sk, sk \in [Sd -> SockRec], NEW STATE cn, NEW STATE c
    PROVE  \A d \in Sd :
             /\ SockAlike(Rearmed(sk, cn, c)[d], sk[d])
             /\ Rearmed(sk, cn, c)[d].wire = sk[d].wire
             /\ Rearmed(sk, cn, c)[d].inq = sk[d].inq
             /\ Rearmed(sk, cn, c)[d].full = sk[d].full
             /\ Rearmed(sk, cn, c)[d].rdy \in BOOLEAN
             /\ sk[d].rdy => Rearmed(sk, cn, c)[d].rdy
             /\ d = cn[c].sd /\ ~cn[c].send_active => Rearmed(sk, cn, c)[d].rdy
<1> DEFINE s == cn[c].sd
           r == [sk[s] EXCEPT !.rdy = TRUE]
<1>1. CASE cn[c].send_active
    BY <1>1 DEF Rearmed, SockAlike, SockRec
<1>2. CASE ~cn[c].send_active
  <2>1. Rearmed(sk, cn, c) = [sk EXCEPT ![s] = r]
      BY <1>2 DEF Rearmed
  <2>2. s \in Sd => /\ SockAlike(r, sk[s]) /\ r.wire = sk[s].wire /\ r.inq = sk[s].inq
                    /\ r.full = sk[s].full /\ r.rdy = TRUE
      BY DEF SockRec, SockAlike
  <2> HIDE DEF r, s
  <2>3. \A d \in Sd : Rearmed(sk, cn, c)[d] = IF d = s THEN r ELSE sk[d]
      BY <2>1
  <2>4. \A d \in Sd : sk[d].rdy \in BOOLEAN
      BY DEF SockRec
  <2> QED BY <2>2, <2>3, <2>4 DEF SockAlike, s
<1> QED BY <1>1, <1>2

(* event_del_out is an EPOLL_CTL_MOD as well: it may bring an event, takes *)
(* none away and changes nothing else of a socket.                         *)
LEMMA DisarmedFacts ==
    ASSUME NEW STATE sk, sk \in [Sd -> SockRec], NEW STATE cn, NEW STATE c
    PROVE  \A d \in Sd :
             /\ SockAlike(Disarmed(sk, cn, c)[d], sk[d])
             /\ Disarmed(sk, cn, c)[d].wire = sk[d].wire
             /\ Disarmed(sk, cn, c)[d].inq = sk[d].inq
             /\ Disarmed(sk, cn, c)[d].full = sk[d].full
             /\ sk[d].rdy => Disarmed(sk, cn, c)[d].rdy
<1> DEFINE s == cn[c].sd
           r == [sk[s] EXCEPT !.rdy = TRUE]
<1>1. CASE Disarmed(sk, cn, c) = sk
    BY <1>1 DEF SockAlike
<1>2. CASE Disarmed(sk, cn, c) = [sk EXCEPT ![s] = r]
  <2>1. s \in Sd => /\ SockAlike(r, sk[s]) /\ r.wire = sk[s].wire /\ r.inq = sk[s].inq
                    /\ r.full = sk[s].full /\ r.rdy = TRUE
      BY DEF SockRec, SockAlike
  <2> HIDE DEF r, s
  <2>2. \A d \in Sd : Disarmed(sk, cn, c)[d] = IF d = s THEN r ELSE sk[d]
      BY <1>2
  <2> QED BY <2>1, <2>2 DEF SockAlike
<1> QED BY <1>1, <1>2 DEF Disarmed

-----------------------------------------------------------------------------

(* A step that, for the requests, only reads or sets flags: queues,        *)
(* requests and what was asked and answered stay. A server connection      *)
(* whose input was dropped is about to be closed.                          *)
Idle ==
    /\ \A k \in Conn : Kept(k)
    /\ msg' = msg /\ nmsg' = nmsg /\ nsd' = nsd /\ asked' = asked
    /\ answered' = answered /\ cmsg' = cmsg
    /\ pc \notin Forwarding /\ pc' \notin Forwarding
    /\ \A d \in Sd : SockKept(d) /\ sock'[d].wire = sock[d].wire
    /\ \A k \in Conn :
         /\ Attached(k) /\ (conn'[k].done \/ conn'[k].err) => pc' = "check" /\ cur' = k
         /\ ~conn[k].client /\ Attached(k) /\ ~conn'[k].done /\ ~conn'[k].err
            => /\ ~conn[k].done /\ ~conn[k].err
               /\ conn[k].sd # None => sock'[conn[k].sd].inq = sock[conn[k].sd].inq

(* core_close on c; core_timeout deletes the timer of one request first.   *)
Closing(c) ==
    /\ pc \notin Forwarding /\ pc' \notin Forwarding
    /\ \E mg \in [Msg -> MsgRec] :
         /\ Closes(c, mg)
         /\ \/ mg = msg
            \/ \E m \in Msg : msg[m].tmo = c /\ mg = [msg EXCEPT ![m] = msg_tmo_delete(@)]
    /\ nmsg' = nmsg /\ nsd' = nsd /\ asked' = asked /\ answered' = answered
    /\ cmsg' = cmsg
    /\ \A k \in Conn \ {c} : Attached(k) => ~conn[k].done /\ ~conn[k].err

(* core_timeout finds a request whose timer outlived it: the timer is      *)
(* deleted.                                                                *)
Settling(m) ==
    /\ pc' = pc /\ pc = "timeout" /\ cur' = cur /\ cmsg' = cmsg
    /\ Settled(m) /\ msg' = [msg EXCEPT ![m] = msg_tmo_delete(@)]
    /\ UNCHANGED <<conn, sock, nmsg, nsd, asked, answered>>

(* A step that leaves structures and sockets alone.                        *)
LEMMA IdleAlone ==
    ASSUME IInv, Structures, UNCHANGED <<conn, sock>>,
           msg' = msg, nmsg' = nmsg, nsd' = nsd, asked' = asked,
           answered' = answered, cmsg' = cmsg,
           pc \notin Forwarding, pc' \notin Forwarding,
           \A k \in Conn : Attached(k) /\ (conn[k].done \/ conn[k].err)
                           => pc' = "check" /\ cur' = k
    PROVE  Idle
<1>1. \A d \in Sd : sock[d].inq \in Seq(Item)
    BY DEF IInv, TypeOK, SockRec
<1>2. \A d \in Sd : SockKept(d) /\ sock'[d].wire = sock[d].wire
    BY <1>1, SuffixFacts DEF SockKept
<1>3. \A k \in Conn : Kept(k)
    BY DEF Kept
<1> QED BY <1>2, <1>3, Zenon DEF Idle

(* event_wait collects events and touches no connection.                   *)
LEMMA WaitEffect == ASSUME IInv, Structures, event_wait PROVE Idle
<1>2. PICK S : sock' = [d \in Sd |-> IF d \in S
                                  THEN [sock[d] EXCEPT !.rdy = FALSE] ELSE sock[d]]
    BY DEF event_wait
<1>3. /\ conn' = conn /\ msg' = msg /\ nmsg' = nmsg /\ nsd' = nsd /\ asked' = asked
      /\ answered' = answered /\ cmsg' = cmsg
      /\ pc = "wait" /\ pc' = "event"
    BY DEF event_wait, tables, requests, bounds, history
<1>4. \A d \in Sd : /\ SockAlike(sock'[d], sock[d]) /\ sock'[d].inq = sock[d].inq
                    /\ sock'[d].wire = sock[d].wire
  <2>1. \A r \in SockRec : LET x == [r EXCEPT !.rdy = FALSE] IN
           SockAlike(x, r) /\ x.inq = r.inq /\ x.wire = r.wire
      BY DEF SockRec, SockAlike
  <2>2. \A r \in SockRec : SockAlike(r, r)
      BY DEF SockAlike
  <2>3. sock \in [Sd -> SockRec]
      BY DEF IInv, TypeOK
  <2> QED BY <1>2, <2>1, <2>2, <2>3
<1>5. \A d \in Sd : sock[d].inq \in Seq(Item)
    BY DEF IInv, TypeOK, SockRec
<1>6. \A d \in Sd : SockKept(d)
    BY <1>4, <1>5, SuffixFacts DEF SockKept, SockAlike
<1>7. \A k \in Conn : Kept(k)
    BY <1>3 DEF Kept
<1>8. \A k \in Conn : Attached(k) => ~conn[k].done /\ ~conn[k].err
    BY <1>3 DEF Structures
<1>9. \A k \in Conn : Attached(k) /\ conn[k].sd # None => conn[k].sd \in Sd
    BY DEF IInv, TypeOK, ConnRec
<1>10. /\ pc \notin Forwarding /\ pc' \notin Forwarding
    BY <1>3 DEF Forwarding
<1> QED BY <1>3, <1>4, <1>6, <1>7, <1>8, <1>9, <1>10 DEF Idle

(* event_wait that times out, and the returns to the loop, touch no        *)
(* connection.                                                             *)
LEMMA TurnEffect ==
    ASSUME IInv, Structures, event_wait_timeout \/ EventsHandled \/ ProxyAgain
    PROVE  Idle
<1>1. /\ UNCHANGED <<tables, requests, sock, bounds, history>>
      /\ UNCHANGED <<cur, cmsg, scur, wr, batch>>
      /\ pc \in {"wait", "event", "accept"} /\ pc' \in {"event", "timeout"}
    BY DEF event_wait_timeout, EventsHandled, ProxyAgain
<1>2. \A k \in Conn : Attached(k) => ~conn[k].done /\ ~conn[k].err
    BY <1>1 DEF Structures
<1>3. UNCHANGED <<conn, sock>> /\ msg' = msg /\ nmsg' = nmsg /\ nsd' = nsd
      /\ asked' = asked /\ answered' = answered /\ cmsg' = cmsg
    BY <1>1 DEF tables, requests, bounds, history
<1>4. /\ pc \notin Forwarding /\ pc' \notin Forwarding
    BY <1>1 DEF Forwarding
<1> QED BY <1>2, <1>3, <1>4, IdleAlone

(* core_core reads the error, marks what to serve, or closes.              *)
LEMMA CoreCoreEffect ==
    ASSUME IInv, Structures, core_core PROVE Idle \/ \E c \in Conn : Closing(c)
<1> DEFINE e == Head(batch)
<1>1. /\ pc = "event" /\ batch # <<>>
      /\ UNCHANGED <<clock, bounds, history, cmsg, scur>>
    BY DEF core_core
<1>2. /\ nmsg' = nmsg /\ nsd' = nsd /\ asked' = asked
      /\ answered' = answered /\ cmsg' = cmsg
    BY <1>1 DEF bounds, history
<1>3. \A k \in Conn : Attached(k) => ~conn[k].done /\ ~conn[k].err
    BY <1>1 DEF Structures
<1>4. ASSUME UNCHANGED <<tables, msg, sock>>, pc' \notin Forwarding PROVE Idle
  <2>1. UNCHANGED <<conn, sock>> /\ msg' = msg /\ pc \notin Forwarding
      BY <1>1, <1>4 DEF tables, Forwarding
  <2> QED BY <1>2, <1>3, <1>4, <2>1, IdleAlone
<1>5. CASE e.c = Pool /\ pc' = "accept" /\ UNCHANGED <<tables, msg, sock, cur, wr>>
    BY <1>4, <1>5 DEF Forwarding
<1>6. CASE UNCHANGED <<tables, msg, sock, cur, wr, pc>>
    BY <1>1, <1>4, <1>6 DEF Forwarding
<1>7. CASE /\ e.c # Pool
           /\ core_close([conn EXCEPT ![e.c].err = TRUE], msg, e.c, "event")
  <2> DEFINE d == e.c
             cn == [conn EXCEPT ![d].err = TRUE]
  <2>1. d \in Conn
    <3>1. e \in Event
        BY <1>1 DEF IInv, TypeOK
    <3> QED BY <1>7, <3>1 DEF Event
  <2>2. msg \in [Msg -> MsgRec] /\ conn \in [Conn -> ConnRec]
      BY DEF IInv, TypeOK
  <2>3. Alike(cn, d)
    <3>1. TRUE \in BOOLEAN
        OBVIOUS
    <3>2. Edited(cn)
        BY <2>1, <3>1, ConnEdited, FlagFacts
    <3>3. Flagged(cn, conn, d)
        BY <2>1, <2>2, <3>1, FlagsOnly
    <3> HIDE DEF cn
    <3> QED BY <2>1, <2>2, <3>2, <3>3, FlaggedFacts DEF Alike
  <2>4. core_close(cn, msg, d, "event")
      BY <1>7
  <2> HIDE DEF cn, d
  <2>5. \/ pc' = "crash" /\ UNCHANGED <<tables, msg, sock>>
        \/ pc' = "event" /\ Closes(d, msg)
      BY <2>1, <2>2, <2>3, <2>4, CoreClosed
  <2>6. CASE pc' = "crash" /\ UNCHANGED <<tables, msg, sock>>
      BY <1>4, <2>6 DEF Forwarding
  <2>7. CASE pc' = "event" /\ Closes(d, msg)
    <3>1. pc \notin Forwarding /\ pc' \notin Forwarding
        BY <1>1, <2>7 DEF Forwarding
    <3>2. Closing(d)
        BY <1>2, <1>3, <2>2, <2>7, <3>1, Zenon DEF Closing
    <3> QED BY <2>1, <3>2
  <2> QED BY <2>5, <2>6, <2>7
<1>8. CASE /\ pc' = IF e.in THEN "recv" ELSE "send"
           /\ UNCHANGED <<tables, msg, sock>>
    BY <1>4, <1>8 DEF Forwarding
<1> QED BY <1>5, <1>6, <1>7, <1>8, Zenon DEF core_core

(* The end of core_recv and core_send: on to the next event, or            *)
(* core_close.                                                             *)
LEMMA CheckEffect ==
    ASSUME IInv, Structures, CheckConn PROVE Idle \/ \E c \in Conn : Closing(c)
<1>1. /\ pc = "check" /\ UNCHANGED <<clock, bounds, history, cmsg, scur, batch>>
    BY DEF CheckConn
<1>2. /\ nmsg' = nmsg /\ nsd' = nsd /\ asked' = asked
      /\ answered' = answered /\ cmsg' = cmsg
    BY <1>1 DEF bounds, history
<1>3. /\ cur \in Conn /\ Attached(cur) /\ msg \in [Msg -> MsgRec]
      /\ conn \in [Conn -> ConnRec]
    BY <1>1 DEF IInv, TypeOK, Control, Handling
<1>4. \A k \in Conn \ {cur} : Attached(k) => ~conn[k].done /\ ~conn[k].err
    BY <1>1 DEF Structures
<1>5. CASE core_close(conn, msg, cur, "event")
  <2>1. Alike(conn, cur)
      BY ConnEdited DEF Alike
  <2>2. \/ pc' = "crash" /\ UNCHANGED <<tables, msg, sock>> /\ ~Attached(cur)
        \/ pc' = "event" /\ Closes(cur, msg)
      BY <1>3, <1>5, <2>1, CoreClosed
  <2>3. pc' = "event" /\ Closes(cur, msg)
      BY <1>3, <2>2
  <2>4. pc \notin Forwarding /\ pc' \notin Forwarding
      BY <1>1, <2>3 DEF Forwarding
  <2>5. Closing(cur)
      BY <1>2, <1>3, <1>4, <2>3, <2>4, Zenon DEF Closing
  <2> QED BY <1>3, <2>5
<1>6. CASE /\ ~(conn[cur].done \/ conn[cur].err)
           /\ IF wr THEN pc' = "send" /\ wr' = FALSE /\ UNCHANGED cur
                    ELSE pc' = "event" /\ cur' = None /\ UNCHANGED wr
           /\ UNCHANGED <<tables, msg, sock>>
  <2>1. \A k \in Conn : Attached(k) => ~conn[k].done /\ ~conn[k].err
      BY <1>4, <1>6
  <2>2. UNCHANGED <<conn, sock>> /\ msg' = msg
      BY <1>6 DEF tables
  <2>3. pc \notin Forwarding /\ pc' \notin Forwarding
      BY <1>1, <1>6 DEF Forwarding
  <2> QED BY <1>2, <2>1, <2>2, <2>3, IdleAlone
<1> QED BY <1>5, <1>6 DEF CheckConn

(* core_timeout: it goes on, deletes the timer of a settled request, or    *)
(* closes the server connection of one that expired.                       *)
LEMMA TimeoutEffect ==
    ASSUME IInv, Structures, core_timeout
    PROVE  \/ Idle
           \/ \E c \in Conn : Closing(c)
           \/ \E m \in Msg : Settling(m)
<1>1. /\ pc = "timeout"
      /\ UNCHANGED <<clock, bounds, history, cur, cmsg, scur, wr, batch>>
    BY DEF core_timeout
<1>2. /\ nmsg' = nmsg /\ nsd' = nsd /\ asked' = asked
      /\ answered' = answered /\ cmsg' = cmsg /\ cur' = cur
    BY <1>1 DEF bounds, history
<1>3. /\ TypeOK /\ msg \in [Msg -> MsgRec] /\ conn \in [Conn -> ConnRec]
    BY DEF IInv, TypeOK
<1>4. \A k \in Conn : Attached(k) => ~conn[k].done /\ ~conn[k].err
    BY <1>1 DEF Structures
<1>5. ASSUME UNCHANGED <<tables, msg, sock>>, pc' \notin Forwarding PROVE Idle
  <2>1. UNCHANGED <<conn, sock>> /\ msg' = msg /\ pc \notin Forwarding
      BY <1>1, <1>5 DEF tables, Forwarding
  <2> QED BY <1>2, <1>4, <1>5, <2>1, IdleAlone
<1>6. CASE pc' = "wait" /\ UNCHANGED <<tables, msg, sock>>
    BY <1>5, <1>6 DEF Forwarding
<1>7. CASE tmo_rbt # {} /\ ~(pc' = "wait" /\ UNCHANGED <<tables, msg, sock>>)
  <2> DEFINE m == msg_tmo_min
             c == msg[m].tmo
             mg == [msg EXCEPT ![m] = msg_tmo_delete(@)]
             cn == [conn EXCEPT ![c].err = TRUE]
  <2>1. m \in tmo_rbt
      BY <1>3, <1>7, TmoMin
  <2>2. m \in Msg /\ c \in Conn
      BY <1>3, <2>1 DEF tmo_rbt, TypeOK, MsgRec
  <2>3. mg \in [Msg -> MsgRec]
      BY <1>3, <2>2, ReqPutType
  <2>4. \/ msg' = mg /\ UNCHANGED <<tables, sock, pc>> /\ Settled(m)
        \/ core_close(cn, mg, c, "timeout")
      BY <1>7 DEF core_timeout
  <2>5. CASE msg' = mg /\ UNCHANGED <<tables, sock, pc>> /\ Settled(m)
    <3>1. Settling(m)
        BY <1>1, <1>2, <2>5 DEF Settling, tables
    <3> QED BY <2>2, <3>1
  <2>6. CASE core_close(cn, mg, c, "timeout")
    <3>1. Alike(cn, c)
      <4>1. TRUE \in BOOLEAN
          OBVIOUS
      <4>2. Edited(cn)
          BY <2>2, <4>1, ConnEdited, FlagFacts
      <4>3. Flagged(cn, conn, c)
          BY <1>3, <2>2, <4>1, FlagsOnly
      <4> HIDE DEF cn, c
      <4> QED BY <1>3, <2>2, <4>2, <4>3, FlaggedFacts DEF Alike
    <3> HIDE DEF cn
    <3>2. \/ pc' = "crash" /\ UNCHANGED <<tables, msg, sock>>
          \/ pc' = "timeout" /\ Closes(c, mg)
      <4> HIDE DEF mg, c
      <4> QED BY <2>2, <2>3, <2>6, <3>1, CoreClosed
    <3>3. CASE pc' = "crash" /\ UNCHANGED <<tables, msg, sock>>
        BY <1>5, <3>3 DEF Forwarding
    <3>4. CASE pc' = "timeout" /\ Closes(c, mg)
      <4>1. pc \notin Forwarding /\ pc' \notin Forwarding
          BY <1>1, <3>4 DEF Forwarding
      <4>2. \E n \in Msg : msg[n].tmo = c /\ mg = [msg EXCEPT ![n] = msg_tmo_delete(@)]
          BY <2>2
      <4> HIDE DEF mg, c
      <4>3. Closing(c)
          BY <1>2, <1>4, <2>3, <3>4, <4>1, <4>2, Zenon DEF Closing
      <4> QED BY <2>2, <4>3
    <3> QED BY <3>2, <3>3, <3>4
  <2> QED BY <2>4, <2>5, <2>6
<1> QED BY <1>6, <1>7 DEF core_timeout

-----------------------------------------------------------------------------
(* Two connections do not share a socket.                                  *)
LEMMA OwnSocket ==
    ASSUME IInv, Sockets, NEW c \in Conn, NEW k \in Conn, Attached(c), Attached(k),
           conn[c].sd # None, conn[c].sd = conn[k].sd
    PROVE  c = k
<1>1. sock[conn[c].sd].ptr = c
    BY DEF Sockets
<1>2. sock[conn[k].sd].ptr = k
    BY DEF Sockets
<1> QED BY <1>1, <1>2

(* The flags of one connection.                                            *)
LEMMA IdleFlags ==
    ASSUME IInv, Structures, Sockets,
           pc \in {"recv", "send"}, pc' = "check", cur' = cur,
           conn' = conn \/ Flagged(conn', conn, cur),
           msg' = msg, nmsg' = nmsg, nsd' = nsd, asked' = asked,
           answered' = answered, cmsg' = cmsg,
           \A d \in Sd : SockKept(d) /\ sock'[d].wire = sock[d].wire,
           \A d \in Sd : \/ sock'[d].inq = sock[d].inq
                         \/ /\ d = conn[cur].sd
                            /\ conn[cur].client \/ conn'[cur].done \/ conn'[cur].err
    PROVE  Idle
<1>1. cur \in Conn /\ Attached(cur) /\ conn[cur].sd \in Sd
    BY CurFacts DEF Handling, IInv, Control
<1>2. conn \in [Conn -> ConnRec]
    BY DEF IInv, TypeOK
<1>3. \A k \in Conn : Kept(k) /\ (k # cur => conn'[k] = conn[k])
  <2>1. CASE conn' = conn
      BY <2>1 DEF Kept
  <2>2. CASE conn' # conn
    <3>1. Flagged(conn', conn, cur)
        BY <2>2
    <3>2. \A k \in Conn :
                /\ conn'[k].client = conn[k].client /\ conn'[k].owner = conn[k].owner
                /\ conn'[k].sd = conn[k].sd
                /\ conn'[k].imsg_q = conn[k].imsg_q /\ conn'[k].omsg_q = conn[k].omsg_q
                /\ k # cur => conn'[k] = conn[k]
        BY <1>1, <1>2, <3>1, FlaggedFacts
    <3> QED BY <3>2, Zenon DEF Kept
  <2> QED BY <2>1, <2>2
<1>4. \A k \in Conn : Attached(k) => ~conn[k].done /\ ~conn[k].err
    BY DEF Structures
<1>5. \A k \in Conn : Attached(k) /\ (conn'[k].done \/ conn'[k].err) => k = cur
    BY <1>3, <1>4
<1>6. ASSUME NEW k \in Conn, ~conn[k].client, Attached(k), ~conn'[k].done, ~conn'[k].err,
             conn[k].sd # None
      PROVE  sock'[conn[k].sd].inq = sock[conn[k].sd].inq
  <2>1. conn[k].sd \in Sd
      BY <1>2, <1>6 DEF ConnRec
  <2>2. CASE conn[k].sd = conn[cur].sd
    <3>1. k = cur
        BY <1>1, <1>6, <2>1, <2>2, OwnSocket
    <3> QED BY <1>6, <2>1, <3>1
  <2>3. CASE conn[k].sd # conn[cur].sd
      BY <2>1, <2>3
  <2> QED BY <2>2, <2>3
<1>7. pc \notin Forwarding /\ pc' \notin Forwarding
    BY DEF Forwarding
<1>8. ASSUME NEW k \in Conn
      PROVE
         /\ Attached(k) /\ (conn'[k].done \/ conn'[k].err) => pc' = "check" /\ cur' = k
         /\ ~conn[k].client /\ Attached(k) /\ ~conn'[k].done /\ ~conn'[k].err
            => /\ ~conn[k].done /\ ~conn[k].err
               /\ conn[k].sd # None => sock'[conn[k].sd].inq = sock[conn[k].sd].inq
  <2>1. Attached(k) /\ (conn'[k].done \/ conn'[k].err) => pc' = "check" /\ cur' = k
      BY <1>5
  <2>2. ASSUME ~conn[k].client, Attached(k), ~conn'[k].done, ~conn'[k].err
        PROVE  /\ ~conn[k].done /\ ~conn[k].err
               /\ conn[k].sd # None => sock'[conn[k].sd].inq = sock[conn[k].sd].inq
      BY <1>4, <1>6, <2>2
  <2> QED BY <2>1, <2>2
<1>9. \A k \in Conn : Kept(k)
    BY <1>3
<1> QED BY <1>7, <1>8, <1>9, Zenon DEF Idle

(* Sockets that do not change are kept.                                    *)
LEMMA IdleSame ==
    ASSUME IInv, sock' = sock
    PROVE  \A d \in Sd : /\ SockKept(d) /\ sock'[d].wire = sock[d].wire
                         /\ sock'[d].inq = sock[d].inq
<1>1. \A d \in Sd : sock[d].inq \in Seq(Item)
    BY DEF IInv, TypeOK, SockRec
<1> QED BY <1>1, SuffixFacts DEF SockKept

(* The type of what a socket holds.                                        *)
LEMMA SockTypes ==
    ASSUME IInv
    PROVE  \A d \in Sd : /\ sock[d] \in SockRec /\ sock[d].inq \in Seq(Item)
                         /\ sock[d].wire \in Seq(Msg)
    BY DEF IInv, TypeOK, SockRec

(* What the handlers that only consume leave of the sockets.               *)
LEMMA ConsumedKept ==
    ASSUME IInv, pc = "recv", Sk(cur).inq # <<>>, sock' = Consumed(cur)
    PROVE  \A d \in Sd : /\ SockKept(d) /\ sock'[d].wire = sock[d].wire
                         /\ sock'[d].inq = IF d = conn[cur].sd THEN Tail(sock[d].inq)
                                                               ELSE sock[d].inq
<1>1. \A d \in Sd :
             /\ SockAlike(sock'[d], sock[d]) /\ sock'[d].wire = sock[d].wire
             /\ sock'[d].inq = IF d = conn[cur].sd THEN Tail(sock[d].inq)
                                                           ELSE sock[d].inq
    BY ConsumedFacts
<1>2. \A d \in Sd : sock[d].inq \in Seq(Item)
    BY SockTypes
<1>3. sock[conn[cur].sd].inq # <<>>
    BY DEF Sk
<1>4. \A d \in Sd : Suffix(sock'[d].inq, sock[d].inq)
    BY <1>1, <1>2, <1>3, SuffixFacts
<1> QED BY <1>1, <1>4 DEF SockKept, SockAlike

(* The receiving handlers that change no queue: conn_recv that finds       *)
(* nothing or fails, quit, and a FIN or a failing response.                *)
LEMMA RecvIdle ==
    ASSUME IInv, Structures, Sockets,
           \/ recv_again \/ recv_error \/ req_filter_quit \/ req_recv_next_eof
           \/ rsp_recv_next_eof \/ rsp_filter_close
    PROVE  Idle
<1>1. /\ pc = "recv" /\ pc' = "check" /\ cur' = cur /\ msg' = msg /\ nmsg' = nmsg
      /\ nsd' = nsd /\ asked' = asked /\ answered' = answered /\ cmsg' = cmsg
    BY DEF recv_again, recv_error, req_filter_quit,
           req_recv_next_eof, rsp_recv_next_eof, rsp_filter_close,
           ServerReads, requests, bounds, history
<1>2. cur \in Conn /\ conn[cur].sd \in Sd /\ conn \in [Conn -> ConnRec]
    BY <1>1, CurFacts DEF Handling, IInv, TypeOK
<1>3. CASE recv_again
  <2>1. conn' = conn /\ sock' = sock
      BY <1>3 DEF recv_again, tables
  <2>2. TRUE \in BOOLEAN
      OBVIOUS
  <2> QED BY <1>1, <1>2, <2>1, <2>2, IdleSame, IdleFlags, FlagsOnly
<1>4. CASE recv_error
  <2>1. conn' = [conn EXCEPT ![cur].err = TRUE] /\ sock' = sock
      BY <1>4 DEF recv_error
  <2>2. TRUE \in BOOLEAN
      OBVIOUS
  <2> QED BY <1>1, <1>2, <2>1, <2>2, IdleSame, IdleFlags, FlagsOnly
<1>5. CASE req_recv_next_eof
  <2> DEFINE b == conn[cur].done \/ conn[cur].omsg_q = <<>>
  <2>1. conn' = [conn EXCEPT ![cur].eof = TRUE, ![cur].done = b] /\ sock' = sock
      BY <1>2, <1>5 DEF req_recv_next_eof
  <2>2. b \in BOOLEAN
      OBVIOUS
  <2> HIDE DEF b
  <2> QED BY <1>1, <1>2, <2>1, <2>2, IdleSame, IdleFlags, FlagsOnly
<1>6. CASE rsp_recv_next_eof
  <2>1. conn' = [conn EXCEPT ![cur].eof = TRUE, ![cur].done = TRUE] /\ sock' = sock
      BY <1>6 DEF rsp_recv_next_eof
  <2>2. TRUE \in BOOLEAN
      OBVIOUS
  <2> QED BY <1>1, <1>2, <2>1, <2>2, IdleSame, IdleFlags, FlagsOnly
<1>7. CASE rsp_filter_close
  <2>1. /\ conn' = [conn EXCEPT ![cur].err = TRUE, ![cur].done = TRUE]
        /\ sock' = Consumed(cur) /\ Sk(cur).inq # <<>>
      BY <1>7 DEF rsp_filter_close, ServerReads, Readable
  <2>2. TRUE \in BOOLEAN
      OBVIOUS
  <2>3. \A d \in Sd : /\ SockKept(d) /\ sock'[d].wire = sock[d].wire
                      /\ d # conn[cur].sd => sock'[d].inq = sock[d].inq
      BY <1>1, <2>1, ConsumedKept
  <2>4. conn'[cur].done
    <3> DEFINE r == [conn[cur] EXCEPT !.err = TRUE, !.done = TRUE]
    <3>1. conn' = [conn EXCEPT ![cur] = r]
        BY <2>1
    <3>2. r.done
        BY <1>2 DEF ConnRec
    <3> HIDE DEF r
    <3> QED BY <1>2, <3>1, <3>2
  <2>5. Flagged(conn', conn, cur)
      BY <1>2, <2>1, <2>2, FlagsOnly
  <2> QED BY <1>1, <2>3, <2>4, <2>5, IdleFlags
<1>8. CASE req_filter_quit
  <2>1. PICK k \in 1..Len(Sk(cur).inq) :
           sock' = [sock EXCEPT ![conn[cur].sd].inq = SubSeq(@, k + 1, Len(@))]
      BY <1>8 DEF req_filter_quit
  <2> DEFINE b == conn[cur].omsg_q = <<>>
  <2>2. b \in BOOLEAN
      OBVIOUS
  <2>3. conn' = [conn EXCEPT ![cur].eof = TRUE, ![cur].done = b] /\ conn[cur].client
      BY <1>8 DEF req_filter_quit
  <2>4. \A d \in Sd : /\ SockKept(d) /\ sock'[d].wire = sock[d].wire
                      /\ d # conn[cur].sd => sock'[d].inq = sock[d].inq
    <3> DEFINE q == Sk(cur).inq
               p == SubSeq(q, k + 1, Len(q))
               r == [Sk(cur) EXCEPT !.inq = p]
    <3>1. Sk(cur) \in SockRec /\ q \in Seq(Item)
        BY <1>2, SockTypes DEF Sk
    <3>2. SockAlike(r, Sk(cur)) /\ r.wire = Sk(cur).wire /\ r.inq = p
        BY <3>1 DEF SockRec, SockAlike
    <3>3. Suffix(p, q)
      <4> HIDE DEF q
      <4> QED BY <2>1, <3>1, SuffixFacts DEF q
    <3>4. sock' = [sock EXCEPT ![conn[cur].sd] = r]
        BY <2>1 DEF Sk
    <3>5. sock \in [Sd -> SockRec]
        BY DEF IInv, TypeOK
    <3> HIDE DEF q, p, r
    <3>6. \A d \in Sd : sock'[d] = IF d = conn[cur].sd THEN r ELSE sock[d]
        BY <3>4, <3>5
    <3>7. \A d \in Sd : Suffix(sock[d].inq, sock[d].inq)
        BY SockTypes, SuffixFacts
    <3>8. \A d \in Sd : SockAlike(sock'[d], sock[d]) /\ sock'[d].wire = sock[d].wire
        BY <3>2, <3>6 DEF SockAlike, Sk
    <3>9. \A d \in Sd : Suffix(sock'[d].inq, sock[d].inq)
        BY <3>2, <3>3, <3>6, <3>7 DEF Sk, q
    <3> QED BY <3>6, <3>8, <3>9 DEF SockKept, SockAlike
  <2> HIDE DEF b
  <2>5. Flagged(conn', conn, cur)
      BY <1>2, <2>2, <2>3, FlagsOnly
  <2> QED BY <1>1, <2>3, <2>4, <2>5, IdleFlags
<1> QED BY <1>3, <1>4, <1>5, <1>6, <1>7, <1>8

(* The sending handlers that write nothing whole: nothing to send, a       *)
(* response not there yet, an error, a short write.                        *)
LEMMA SendIdle ==
    ASSUME IInv, Structures, Sockets,
           \/ rsp_send_next_empty \/ rsp_send_next_wait \/ send_error
           \/ rsp_send_short \/ req_send_next_empty
    PROVE  Idle
<1>1. /\ pc = "send" /\ msg' = msg /\ nmsg' = nmsg
      /\ nsd' = nsd /\ asked' = asked /\ answered' = answered /\ cmsg' = cmsg
    BY DEF rsp_send_next_empty, rsp_send_next_wait, send_error, rsp_send_short,
           req_send_next_empty, Writing, Crash, requests, bounds, history
<1>2. cur \in Conn /\ conn[cur].sd \in Sd /\ conn \in [Conn -> ConnRec]
    BY <1>1, CurFacts DEF Handling, IInv, TypeOK
<1>3. CASE rsp_send_next_empty
  <2>1. UNCHANGED <<conn, sock>> /\ pc' = "crash"
      BY <1>3 DEF rsp_send_next_empty, Crash, tables
  <2>2. \A k \in Conn : Attached(k) => ~conn[k].done /\ ~conn[k].err
      BY <1>1 DEF Structures
  <2>3. pc \notin Forwarding /\ pc' \notin Forwarding
      BY <1>1, <2>1 DEF Forwarding
  <2> QED BY <1>1, <2>1, <2>2, <2>3, IdleAlone
<1>4. CASE rsp_send_next_wait
  <2>1. conn' = conn /\ sock' = sock /\ pc' = "check" /\ cur' = cur
      BY <1>4 DEF rsp_send_next_wait, tables
  <2>2. TRUE \in BOOLEAN
      OBVIOUS
  <2> QED BY <1>1, <1>2, <2>1, <2>2, IdleSame, IdleFlags, FlagsOnly
<1>5. CASE send_error
  <2>1. /\ conn' = [conn EXCEPT ![cur].err = TRUE] /\ sock' = sock
        /\ pc' = "check" /\ cur' = cur
      BY <1>5 DEF send_error
  <2>2. TRUE \in BOOLEAN
      OBVIOUS
  <2> QED BY <1>1, <1>2, <2>1, <2>2, IdleSame, IdleFlags, FlagsOnly
<1>6. CASE rsp_send_short
  <2>1. /\ conn' = conn /\ pc' = "check" /\ cur' = cur
        /\ sock' = sock \/ sock' = [sock EXCEPT ![conn[cur].sd].full = TRUE]
      BY <1>6 DEF rsp_send_short, tables
  <2>2. TRUE \in BOOLEAN
      OBVIOUS
  <2>3. \A d \in Sd : /\ SockKept(d) /\ sock'[d].wire = sock[d].wire
                      /\ sock'[d].inq = sock[d].inq
    <3>1. CASE sock' = sock
        BY <3>1, IdleSame
    <3>2. CASE sock' = [sock EXCEPT ![conn[cur].sd].full = TRUE]
      <4>1. \A r \in SockRec : LET x == [r EXCEPT !.full = TRUE] IN
               SockAlike(x, r) /\ x.inq = r.inq /\ x.wire = r.wire
          BY DEF SockRec, SockAlike
      <4>2. \A r \in SockRec : SockAlike(r, r)
          BY DEF SockAlike
      <4>3. sock \in [Sd -> SockRec]
          BY DEF IInv, TypeOK
      <4>4. \A d \in Sd : /\ SockAlike(sock'[d], sock[d])
                          /\ sock'[d].inq = sock[d].inq /\ sock'[d].wire = sock[d].wire
          BY <1>2, <3>2, <4>1, <4>2, <4>3
      <4>5. \A d \in Sd : Suffix(sock[d].inq, sock[d].inq)
          BY SockTypes, SuffixFacts
      <4> QED BY <4>4, <4>5 DEF SockKept, SockAlike
    <3> QED BY <2>1, <3>1, <3>2
  <2> QED BY <1>1, <2>1, <2>2, <2>3, IdleFlags
<1>7. CASE req_send_next_empty
  <2> DEFINE b == conn[cur].connected \/ conn[cur].connecting
  <2>1. /\ sock' = Disarmed(sock, conn, cur) /\ pc' = "check" /\ cur' = cur
        /\ conn' = [server_connected(cur) EXCEPT ![cur].send_active = FALSE]
      BY <1>7 DEF req_send_next_empty
  <2>2. b \in BOOLEAN
      OBVIOUS
  <2>3. server_connected(cur) = [conn EXCEPT ![cur].connecting = FALSE, ![cur].connected = b]
      BY <1>2 DEF server_connected
  <2> HIDE DEF b
  <2>4. conn' = [[conn EXCEPT ![cur].connecting = FALSE, ![cur].connected = b]
                     EXCEPT ![cur].send_active = FALSE]
      BY <2>1, <2>3
  <2>5. Flagged(conn', conn, cur)
      BY <1>2, <2>2, <2>4, FlagsOnly
  <2>6. sock \in [Sd -> SockRec]
      BY DEF IInv, TypeOK
  <2>7. \A d \in Sd : /\ SockAlike(sock'[d], sock[d])
                      /\ sock'[d].inq = sock[d].inq /\ sock'[d].wire = sock[d].wire
      BY <2>1, <2>6, DisarmedFacts
  <2>8. \A d \in Sd : Suffix(sock[d].inq, sock[d].inq)
      BY SockTypes, SuffixFacts
  <2>9. \A d \in Sd : /\ SockKept(d) /\ sock'[d].wire = sock[d].wire
                      /\ sock'[d].inq = sock[d].inq
      BY <2>7, <2>8 DEF SockKept, SockAlike
  <2> QED BY <1>1, <2>1, <2>5, <2>9, IdleFlags
<1> QED BY <1>3, <1>4, <1>5, <1>6, <1>7

-----------------------------------------------------------------------------

(* No flag that ends a connection changes.                                 *)
FlagsKept == \A k \in Conn : conn'[k].done = conn[k].done /\ conn'[k].err = conn[k].err

(* Nothing is read, written, opened or closed.                             *)
SocksSame == \A d \in Sd : /\ SockAlike(sock'[d], sock[d])
                           /\ sock'[d].inq = sock[d].inq /\ sock'[d].wire = sock[d].wire

(* One item is read from the connection in use.                            *)
SocksRead ==
    /\ Sk(cur).inq # <<>>
    /\ \A d \in Sd : /\ SockAlike(sock'[d], sock[d]) /\ sock'[d].wire = sock[d].wire
                     /\ sock'[d].inq = IF d = conn[cur].sd THEN Tail(sock[d].inq)
                                                           ELSE sock[d].inq
(* The queues of c become iq and oq.                                       *)
Requeued(c, iq, oq) ==
    /\ \A k \in Conn \ {c} : Kept(k)
    /\ conn'[c].client = conn[c].client /\ conn'[c].owner = conn[c].owner
    /\ conn'[c].sd = conn[c].sd
    /\ conn'[c].imsg_q = iq /\ conn'[c].omsg_q = oq

(* req_recv_done: request m is made of what was read, and is forwarded     *)
(* next.                                                                   *)
Taking(m) ==
    /\ pc = "recv" /\ pc' = "forward" /\ cmsg' = m /\ cur' = cur /\ conn' = conn
    /\ cur \in Clients
    /\ m \in Msg /\ Next1(cur)[1] \in {"get", "set"} /\ Next1(cur)[2] = m
    /\ nmsg' = nmsg /\ nsd' = nsd /\ answered' = answered
    /\ \A n \in Msg \ {m} : msg'[n] = msg[n]
    /\ msg'[m].st = "live" /\ msg'[m].owner = cur /\ ~msg'[m].done /\ ~msg'[m].error
    /\ ~msg'[m].swallow /\ msg'[m].tmo = None /\ ~msg'[m].part
    /\ msg'[m].noreply <=> Next1(cur)[1] = "set"
    /\ asked' = IF msg'[m].noreply THEN asked
                ELSE [asked EXCEPT ![conn[cur].sd] = Append(@, m)]
    /\ SocksRead

(* req_recv_done does that.                                                *)
LEMMA TakeEffect == ASSUME IInv, req_recv_done PROVE \E m \in Msg : Taking(m)
<1> DEFINE m == Next1(cur)[2]
           noreply == Next1(cur)[1] = "set"
           r == [NoMsg EXCEPT !.st = "live", !.owner = cur, !.noreply = noreply]
<1>1. /\ Next1(cur)[1] \in {"get", "set"} /\ Sk(cur).inq # <<>> /\ conn[cur].client
      /\ sock' = Consumed(cur) /\ conn' = conn /\ pc = "recv" /\ pc' = "forward" /\ cmsg' = m
      /\ msg' = [msg EXCEPT ![m] = r]
      /\ asked' = IF noreply THEN asked
                  ELSE [asked EXCEPT ![conn[cur].sd] = Append(@, m)]
      /\ nmsg' = nmsg /\ nsd' = nsd /\ answered' = answered /\ cur' = cur
    BY DEF req_recv_done, Readable, tables, bounds
<1>2. m \in Msg /\ conn[cur].sd \in Sd /\ cur \in Conn
    BY <1>1, ReadFacts, CurFacts DEF Handling
<1>3. cur \in Clients
    BY <1>1, <1>2 DEF Clients, IInv, Control, Handling
<1>4. /\ r.st = "live" /\ r.owner = cur /\ ~r.done /\ ~r.error
      /\ ~r.swallow /\ r.tmo = None /\ ~r.part /\ r.noreply = noreply
    BY DEF NoMsg
<1>5. SocksRead
    BY <1>1, ConsumedFacts DEF SocksRead
<1>6. msg \in [Msg -> MsgRec]
    BY DEF IInv, TypeOK
<1> HIDE DEF m, r
<1>7. /\ msg'[m] = r /\ \A n \in Msg \ {m} : msg'[n] = msg[n]
    BY <1>1, <1>2, <1>6
<1>8. Next1(cur)[2] = m
    BY DEF m
<1>9. (Next1(cur)[1] = "set") <=> noreply
    OBVIOUS
<1> HIDE DEF noreply
<1>10. Taking(m)
    BY <1>1, <1>2, <1>3, <1>4, <1>5, <1>7, <1>8, <1>9 DEF Taking
<1> QED BY <1>2, <1>10

(* What a server's response does.                                          *)
Responding(p) ==
    /\ pc = "recv" /\ pc' \in {"recv", "check"} /\ cmsg' = cmsg /\ cur' = cur
    /\ cur \in Servers
    /\ conn[cur].omsg_q # <<>> /\ p = Head(conn[cur].omsg_q) /\ p \in Msg
    /\ Next1(cur)[1] = "rsp"
    /\ nmsg' = nmsg /\ nsd' = nsd /\ asked' = asked /\ answered' = answered
    /\ FlagsKept /\ Requeued(cur, conn[cur].imsg_q, Tail(conn[cur].omsg_q))
    /\ \A n \in Msg \ {p} : msg'[n] = msg[n]
    /\ msg'[p].done /\ msg'[p].tmo = None
    /\ msg'[p].owner = msg[p].owner /\ msg'[p].noreply = msg[p].noreply
    /\ msg'[p].swallow = msg[p].swallow /\ msg'[p].error = msg[p].error
    /\ msg'[p].part = msg[p].part
    /\ IF msg[p].swallow THEN msg'[p].st = "freed"
       ELSE msg'[p].st = msg[p].st /\ msg'[p].peer = Next1(cur)[2]
    /\ SocksRead

(* x is cn but for the queue q at c.                                       *)
OmsgSet(x, cn, c, q) ==
    /\ x \in [Conn -> ConnRec]
    /\ \A k \in Conn \ {c} : x[k] = cn[k]
    /\ x[c].client = cn[c].client /\ x[c].owner = cn[c].owner
    /\ x[c].sd = cn[c].sd /\ x[c].imsg_q = cn[c].imsg_q
    /\ x[c].omsg_q = q
    /\ x[c].done = cn[c].done /\ x[c].err = cn[c].err
    /\ x[c].send_active = cn[c].send_active

(* A dequeue from out_q touches out_q alone.                               *)
LEMMA DequeuedFacts ==
    ASSUME NEW STATE cn, cn \in [Conn -> ConnRec], NEW STATE c, c \in Conn,
           NEW STATE q, q \in Seq(Msg)
    PROVE  OmsgSet([cn EXCEPT ![c].omsg_q = q], cn, c, q)
<1> DEFINE r == [cn[c] EXCEPT !.omsg_q = q]
           x == [cn EXCEPT ![c].omsg_q = q]
<1>1. cn[c] \in ConnRec
    OBVIOUS
<1>2. /\ r \in ConnRec /\ r.client = cn[c].client /\ r.owner = cn[c].owner
      /\ r.sd = cn[c].sd /\ r.imsg_q = cn[c].imsg_q /\ r.omsg_q = q
      /\ r.done = cn[c].done /\ r.err = cn[c].err /\ r.send_active = cn[c].send_active
    BY <1>1 DEF ConnRec
<1>3. x = [cn EXCEPT ![c] = r]
    OBVIOUS
<1> HIDE DEF x, r
<1>4. x[c] = r /\ x \in [Conn -> ConnRec] /\ \A k \in Conn \ {c} : x[k] = cn[k]
    BY <1>2, <1>3
<1> QED BY <1>2, <1>4 DEF x, OmsgSet

(* event_add_out raises send_active of its connection and touches no       *)
(* queue.                                                                  *)
LEMMA AddedOut ==
    ASSUME NEW STATE cn, cn \in [Conn -> ConnRec], NEW STATE c
    PROVE  LET x == event_add_out(cn, c)
           IN /\ x \in [Conn -> ConnRec]
              /\ \A k \in Conn :
                   /\ x[k].client = cn[k].client /\ x[k].owner = cn[k].owner
                   /\ x[k].sd = cn[k].sd /\ x[k].imsg_q = cn[k].imsg_q
                   /\ x[k].omsg_q = cn[k].omsg_q
                   /\ x[k].done = cn[k].done /\ x[k].err = cn[k].err
                   /\ k # c => x[k] = cn[k]
                   /\ cn[k].send_active => x[k].send_active
              /\ c \in Conn => x[c].send_active
<1> DEFINE r == [cn[c] EXCEPT !.send_active = TRUE]
           x == event_add_out(cn, c)
<1>1. c \in Conn => cn[c] \in ConnRec
    OBVIOUS
<1>2. c \in Conn =>
      /\ r \in ConnRec /\ r.client = cn[c].client /\ r.owner = cn[c].owner
      /\ r.sd = cn[c].sd /\ r.imsg_q = cn[c].imsg_q /\ r.omsg_q = cn[c].omsg_q
      /\ r.done = cn[c].done /\ r.err = cn[c].err /\ r.send_active = TRUE
    BY <1>1 DEF ConnRec
<1>3. x = [cn EXCEPT ![c] = r]
    BY DEF event_add_out
<1> HIDE DEF x, r
<1>4. /\ c \in Conn => x[c] = r
      /\ x \in [Conn -> ConnRec] /\ \A k \in Conn \ {c} : x[k] = cn[k]
    BY <1>2, <1>3
<1> QED BY <1>2, <1>4 DEF x

(* What deleting the timer (msg_tmo_delete), req_put, the swallowing of a  *)
(* response and client_close make of a request.                            *)
LEMMA PutFacts ==
    ASSUME NEW r \in MsgRec
    PROVE  /\ msg_tmo_delete(r) \in MsgRec /\ req_put(r) \in MsgRec
           /\ Swallowed(r) \in MsgRec /\ Abandoned(r) \in MsgRec
           /\ \A x \in {msg_tmo_delete(r), req_put(r), Swallowed(r)} :
                /\ x.tmo = None /\ x.owner = r.owner /\ x.noreply = r.noreply
                /\ x.swallow = r.swallow /\ x.error = r.error /\ x.part = r.part
           /\ msg_tmo_delete(r).st = r.st /\ msg_tmo_delete(r).done = r.done
           /\ msg_tmo_delete(r).peer = r.peer
           /\ req_put(r).st = "freed" /\ Swallowed(r).st = "freed"
           /\ req_put(r).done = r.done /\ Swallowed(r).done
           /\ r.done => Abandoned(r) = req_put(r)
           /\ ~r.done => /\ Abandoned(r).st = r.st /\ Abandoned(r).tmo = r.tmo
                         /\ Abandoned(r).swallow /\ Abandoned(r).part = r.part
                         /\ Abandoned(r).owner = r.owner /\ ~Abandoned(r).done
                         /\ Abandoned(r).error = r.error /\ Abandoned(r).noreply = r.noreply
<1>1. /\ msg_tmo_delete(r) \in MsgRec
      /\ LET x == msg_tmo_delete(r) IN
                /\ x.tmo = None /\ x.owner = r.owner /\ x.noreply = r.noreply
                /\ x.swallow = r.swallow /\ x.error = r.error /\ x.part = r.part
                /\ x.st = r.st /\ x.done = r.done /\ x.peer = r.peer
    BY DEF MsgRec, msg_tmo_delete
<1>2. /\ req_put(r) \in MsgRec
      /\ LET x == req_put(r) IN
                /\ x.tmo = None /\ x.owner = r.owner /\ x.noreply = r.noreply
                /\ x.swallow = r.swallow /\ x.error = r.error /\ x.part = r.part
                /\ x.st = "freed" /\ x.done = r.done
    BY <1>1 DEF MsgRec, req_put
<1>3. /\ Swallowed(r) \in MsgRec
      /\ LET x == Swallowed(r) IN
                /\ x.tmo = None /\ x.owner = r.owner /\ x.noreply = r.noreply
                /\ x.swallow = r.swallow /\ x.error = r.error /\ x.part = r.part
                /\ x.st = "freed" /\ x.done
    BY <1>2 DEF MsgRec, Swallowed
<1>4. /\ r.done => Abandoned(r) = req_put(r)
      /\ ~r.done => Abandoned(r) = [r EXCEPT !.swallow = TRUE]
    BY DEF Abandoned
<1>5. LET x == [r EXCEPT !.swallow = TRUE] IN
          /\ x \in MsgRec /\ x.st = r.st /\ x.tmo = r.tmo /\ x.swallow
          /\ x.part = r.part /\ x.owner = r.owner /\ x.done = r.done
          /\ x.error = r.error /\ x.noreply = r.noreply
    BY DEF MsgRec
<1>6. Abandoned(r) \in MsgRec
    BY <1>2, <1>4, <1>5
<1> HIDE DEF Abandoned, Swallowed, req_put, msg_tmo_delete
<1>7. \A x \in {msg_tmo_delete(r), req_put(r), Swallowed(r)} :
                /\ x.tmo = None /\ x.owner = r.owner /\ x.noreply = r.noreply
                /\ x.swallow = r.swallow /\ x.error = r.error /\ x.part = r.part
    BY <1>1, <1>2, <1>3
<1> QED BY <1>1, <1>2, <1>3, <1>4, <1>5, <1>6, <1>7

-----------------------------------------------------------------------------

(* rsp_filter: a response to a request that nobody waits for is dropped    *)
(* with the request.                                                       *)
LEMMA SwallowEffect == ASSUME IInv, rsp_filter_swallow PROVE \E p \in Msg : Responding(p)
<1> DEFINE q == conn[cur].omsg_q
           p == Head(q)
           t == Tail(q)
           r == Swallowed(msg[p])
<1>1. /\ Sk(cur).inq # <<>> /\ q # <<>> /\ sock' = Consumed(cur)
      /\ conn' = [conn EXCEPT ![cur].omsg_q = Tail(@)]
      /\ msg' = [msg EXCEPT ![p] = r] /\ msg[p].swallow
      /\ pc = "recv" /\ pc' \in {"recv", "check"} /\ cmsg' = cmsg /\ cur' = cur
      /\ nmsg' = nmsg /\ nsd' = nsd /\ asked' = asked /\ answered' = answered
      /\ ~conn[cur].client /\ Next1(cur)[1] = "rsp"
    BY DEF rsp_filter_swallow, ServerReads, Readable, Dequeued, ReadOn, bounds, history
<1>2. cur \in Conn /\ conn \in [Conn -> ConnRec] /\ msg \in [Msg -> MsgRec]
    BY <1>1, CurFacts DEF Handling, IInv, TypeOK
<1>3. cur \in Servers
    BY <1>1, <1>2 DEF Servers, IInv, Control, Handling
<1>4. p \in Msg /\ t \in Seq(Msg)
  <2>1. q \in Seq(Msg)
      BY <1>2 DEF ConnRec
  <2> HIDE DEF q
  <2> QED BY <1>1, <2>1
<1>5. SocksRead
    BY <1>1, ConsumedFacts DEF SocksRead
<1>6. conn' = [conn EXCEPT ![cur].omsg_q = t]
    BY <1>1, <1>2
<1> HIDE DEF t, p, q
<1>7. FlagsKept /\ Requeued(cur, conn[cur].imsg_q, t)
    BY <1>2, <1>4, <1>6, DequeuedFacts DEF OmsgSet, FlagsKept, Requeued, Kept
<1>8. msg[p] \in MsgRec
    BY <1>2, <1>4
<1>9. r.tmo = None /\ r.owner = msg[p].owner /\ r.noreply = msg[p].noreply
      /\ r.swallow = msg[p].swallow /\ r.error = msg[p].error /\ r.part = msg[p].part
      /\ r.st = "freed" /\ r.done
    BY <1>8, PutFacts
<1> HIDE DEF r
<1>10. msg'[p] = r /\ \A n \in Msg \ {p} : msg'[n] = msg[n]
    BY <1>1, <1>2, <1>4
<1>11. conn[cur].omsg_q # <<>> /\ p = Head(conn[cur].omsg_q) /\ t = Tail(conn[cur].omsg_q)
    BY <1>1 DEF q, p, t
<1>12. Responding(p)
    BY <1>1, <1>3, <1>4, <1>5, <1>7, <1>9, <1>10, <1>11 DEF Responding
<1> QED BY <1>4, <1>12

(* rsp_forward does the same with a request that somebody waits for: it    *)
(* becomes done with this response.                                        *)
LEMMA RespondEffect ==
    ASSUME IInv, rsp_forward PROVE \E p \in Msg : Responding(p) /\ ~msg[p].swallow
<1> DEFINE q == conn[cur].omsg_q
           p == Head(q)
           t == Tail(q)
           w == [conn EXCEPT ![cur].omsg_q = t]
           k == msg[p].owner
           r == [msg_tmo_delete(msg[p]) EXCEPT !.done = TRUE, !.peer = Next1(cur)[2]]
<1>1. /\ Sk(cur).inq # <<>> /\ q # <<>>
      /\ \/ conn' = event_add_out(Dequeued(conn, cur), k)
            /\ sock' = Rearmed(Consumed(cur), conn, k)
         \/ conn' = Dequeued(conn, cur) /\ sock' = Consumed(cur)
      /\ ~msg[p].swallow
      /\ pc = "recv" /\ pc' \in {"recv", "check"} /\ cmsg' = cmsg /\ cur' = cur
      /\ nmsg' = nmsg /\ nsd' = nsd /\ asked' = asked /\ answered' = answered
      /\ ~conn[cur].client /\ Next1(cur)[1] = "rsp"
    BY DEF rsp_forward, ServerReads, Readable, ReadOn, bounds, history
<1>2. cur \in Conn /\ conn \in [Conn -> ConnRec] /\ msg \in [Msg -> MsgRec]
    BY <1>1, CurFacts DEF Handling, IInv, TypeOK
<1>3. cur \in Servers
    BY <1>1, <1>2 DEF Servers, IInv, Control, Handling
<1>4. p \in Msg /\ t \in Seq(Msg)
  <2>1. q \in Seq(Msg)
      BY <1>2 DEF ConnRec
  <2> HIDE DEF q
  <2> QED BY <1>1, <2>1
<1>5. msg' = [msg EXCEPT ![p] = r]
    BY DEF rsp_forward
<1>6. Dequeued(conn, cur) = w
    BY <1>2 DEF Dequeued
<1> HIDE DEF t, p, q
<1>7. /\ w \in [Conn -> ConnRec]
      /\ \A x \in Conn \ {cur} : w[x] = conn[x]
      /\ w[cur].client = conn[cur].client /\ w[cur].owner = conn[cur].owner
      /\ w[cur].sd = conn[cur].sd /\ w[cur].imsg_q = conn[cur].imsg_q
      /\ w[cur].omsg_q = t /\ w[cur].done = conn[cur].done /\ w[cur].err = conn[cur].err
    BY <1>2, <1>4, DequeuedFacts DEF OmsgSet
<1> HIDE DEF w, k
<1>8. \A x \in Conn : /\ conn'[x].client = w[x].client /\ conn'[x].owner = w[x].owner
                      /\ conn'[x].sd = w[x].sd /\ conn'[x].imsg_q = w[x].imsg_q
                      /\ conn'[x].omsg_q = w[x].omsg_q
                      /\ conn'[x].done = w[x].done /\ conn'[x].err = w[x].err
  <2>1. CASE conn' = event_add_out(w, k)
      BY <1>7, <2>1, AddedOut
  <2>2. CASE conn' = w
      BY <2>2
  <2> QED BY <1>1, <1>6, <2>1, <2>2
<1>9. FlagsKept /\ Requeued(cur, conn[cur].imsg_q, t)
    BY <1>2, <1>7, <1>8 DEF FlagsKept, Requeued, Kept
<1>10. SocksRead
  <2>1. sock \in [Sd -> SockRec] /\ Consumed(cur) \in [Sd -> SockRec]
      BY <1>1, ReadFacts DEF IInv, TypeOK
  <2>2. \A d \in Sd : /\ SockAlike(sock'[d], Consumed(cur)[d])
                      /\ sock'[d].inq = Consumed(cur)[d].inq
                      /\ sock'[d].wire = Consumed(cur)[d].wire
    <3> DEFINE sk == Consumed(cur)
    <3> HIDE DEF sk
    <3>1. CASE sock' = Rearmed(sk, conn, k)
        BY <2>1, <3>1, RearmedFacts DEF sk
    <3>2. CASE sock' = sk
        BY <3>2 DEF SockAlike, sk
    <3> QED BY <1>1, <3>1, <3>2 DEF sk
  <2> QED BY <1>1, <2>2, ConsumedFacts DEF SocksRead, SockAlike
<1>11. msg[p] \in MsgRec
    BY <1>2, <1>4
<1>12. r.tmo = None /\ r.owner = msg[p].owner /\ r.noreply = msg[p].noreply
      /\ r.swallow = msg[p].swallow /\ r.error = msg[p].error /\ r.part = msg[p].part
      /\ r.st = msg[p].st /\ r.done /\ r.peer = Next1(cur)[2]
  <2>1. msg_tmo_delete(msg[p]) \in MsgRec
      BY <1>11, PutFacts
  <2> DEFINE y == msg_tmo_delete(msg[p])
  <2>2. /\ y.tmo = None /\ y.owner = msg[p].owner /\ y.noreply = msg[p].noreply
        /\ y.swallow = msg[p].swallow /\ y.error = msg[p].error /\ y.part = msg[p].part
        /\ y.st = msg[p].st
      BY <1>11, PutFacts
  <2> HIDE DEF y
  <2>3. r = [y EXCEPT !.done = TRUE, !.peer = Next1(cur)[2]] /\ y \in MsgRec
      BY <2>1 DEF y
  <2> HIDE DEF r
  <2> QED BY <2>2, <2>3 DEF MsgRec
<1> HIDE DEF r
<1>13. msg'[p] = r /\ \A n \in Msg \ {p} : msg'[n] = msg[n]
    BY <1>2, <1>4, <1>5
<1>14. conn[cur].omsg_q # <<>> /\ p = Head(conn[cur].omsg_q) /\ t = Tail(conn[cur].omsg_q)
    BY <1>1 DEF q, p, t
<1>15. Responding(p)
    BY <1>1, <1>3, <1>4, <1>9, <1>10, <1>12, <1>13, <1>14 DEF Responding
<1> QED BY <1>1, <1>4, <1>15

(* What req_forward does with the client.                                  *)
Reserving ==
    /\ pc = "forward" /\ pc' \in {"reject", "enqueue"} /\ cmsg' = cmsg /\ cur' = cur
    /\ cur \in Clients /\ cmsg \in Msg
    /\ msg' = msg /\ nmsg' = nmsg /\ asked' = asked /\ answered' = answered
    /\ conn'[cur].client = conn[cur].client /\ conn'[cur].owner = conn[cur].owner
    /\ conn'[cur].sd = conn[cur].sd /\ conn'[cur].imsg_q = conn[cur].imsg_q
    /\ conn'[cur].done = conn[cur].done /\ conn'[cur].err = conn[cur].err
    /\ conn'[cur].send_active = conn[cur].send_active
    /\ conn'[cur].omsg_q = IF msg[cmsg].noreply THEN conn[cur].omsg_q
                           ELSE Append(conn[cur].omsg_q, cmsg)

(* A new structure c with socket d for it, or None.                        *)
Opening(c, d) ==
    /\ c \in Conn /\ ~Attached(c)
    /\ conn'[c].imsg_q = <<>> /\ conn'[c].omsg_q = <<>> /\ conn'[c].owner # None
    /\ conn'[c].sd = d
    /\ d = None => sock' = sock /\ nsd' = nsd
    /\ d # None => /\ d \in Sd /\ d = nsd + 1 /\ nsd' = d
                   /\ sock'[d].open /\ sock'[d].ptr = c /\ ~sock'[d].kerr
                   /\ sock'[d].inq = <<>> /\ sock'[d].wire = <<>>
                   /\ sock'[d].server <=> ~conn'[c].client
                   /\ \A e \in Sd \ {d} : sock'[e] = sock[e]

(* server_pool_conn made connection c, with or without a socket.           *)
ReservingNew(c, d) ==
    /\ Reserving /\ Opening(c, d) /\ c # cur /\ ~conn'[c].client /\ scur' = c
    /\ conn'[c].owner \in Server /\ ~conn'[c].done
    /\ conn'[c].err => pc' = "reject"
    /\ \A k \in Conn \ {c, cur} : conn'[k] = conn[k]

(* server_pool_conn took a connection there was.                           *)
ReservingLru ==
    /\ Reserving /\ nsd' = nsd /\ sock' = sock
    /\ \A k \in Conn \ {cur} : conn'[k] = conn[k]

(* req_forward puts a request that wants a reply in the out_q of its       *)
(* client, and touches nothing else.                                       *)
LEMMA OutstandingEffect ==
    ASSUME IInv, pc = "forward"
    PROVE  OmsgSet(Outstanding(cur, cmsg), conn, cur,
                   IF msg[cmsg].noreply THEN conn[cur].omsg_q
                   ELSE Append(conn[cur].omsg_q, cmsg))
<1>1. cur \in Conn /\ Attached(cur) /\ conn[cur].client /\ cmsg \in Msg
    BY DEF IInv, Control, Handling, Forwarding
<1>2. conn \in [Conn -> ConnRec] /\ conn[cur].omsg_q \in Seq(Msg)
    BY <1>1 DEF IInv, TypeOK, ConnRec
<1>3. CASE msg[cmsg].noreply
    BY <1>2, <1>3 DEF Outstanding, OmsgSet
<1>4. CASE ~msg[cmsg].noreply
  <2> DEFINE q == Append(conn[cur].omsg_q, cmsg)
  <2>1. q \in Seq(Msg)
      BY <1>1, <1>2
  <2>2. Outstanding(cur, cmsg) = [conn EXCEPT ![cur].omsg_q = q]
      BY <1>2, <1>4 DEF Outstanding
  <2>3. cur \in Conn /\ conn \in [Conn -> ConnRec]
      BY <1>1, <1>2
  <2>4. q = IF msg[cmsg].noreply THEN conn[cur].omsg_q
                                 ELSE Append(conn[cur].omsg_q, cmsg)
      BY <1>4
  <2> HIDE DEF q
  <2>5. OmsgSet([conn EXCEPT ![cur].omsg_q = q], conn, cur, q)
      BY <2>1, <2>3, DequeuedFacts
  <2>6. OmsgSet(Outstanding(cur, cmsg), conn, cur, q)
      BY <2>2, <2>5
  <2> QED BY <2>4, <2>6, Zenon
<1> QED BY <1>3, <1>4

-----------------------------------------------------------------------------

(* conn_get takes a structure that no connection uses.                     *)
LEMMA FreeHead ==
    ASSUME IInv, free_connq # <<>>
    PROVE  Head(free_connq) \in Conn /\ ~Attached(Head(free_connq))
<1>1. free_connq \in Seq(Conn)
    BY DEF IInv, TypeOK
<1>2. Head(free_connq) \in Conn /\ Head(free_connq) \in ToSet(free_connq)
    BY <1>1, TailFacts
<1> QED BY <1>2 DEF IInv, ConnPools

(* req_forward when server_conn makes a connection.                        *)
LEMMA NewEffect ==
    ASSUME IInv, NEW s \in Server, NEW o \in Outcomes, ForwardOnNew(s, o)
    PROVE  \E c \in Conn, d \in Sd \cup {None} : ReservingNew(c, d)
<1> DEFINE c == Head(free_connq)
           sd == IF o = "nosocket" THEN None ELSE nsd + 1
           cn == Outstanding(cur, cmsg)
           r == [NoConn EXCEPT !.owner = s, !.sd = sd,
                           !.send_active = o # "nosocket",
                           !.err = o \in {"refused", "nosocket"},
                           !.connecting = o = "inprogress",
                           !.connected = o = "connected"]
           k == [NoSock EXCEPT !.open = TRUE, !.ptr = c, !.server = TRUE,
                           !.up = o = "connected", !.hup = o = "refused",
                           !.rdy = o # "inprogress"]
<1>1. /\ pc = "forward" /\ free_connq # <<>>
      /\ conn' = [cn EXCEPT ![c] = r]
      /\ IF o = "nosocket" THEN UNCHANGED <<sock, nsd>>
         ELSE nsd' = sd /\ sock' = [sock EXCEPT ![sd] = k]
      /\ scur' = c
      /\ pc' = IF o \in {"refused", "nosocket"} THEN "reject" ELSE "enqueue"
    BY DEF ForwardOnNew
<1>2. /\ msg' = msg /\ asked' = asked /\ answered' = answered
      /\ nmsg' = nmsg /\ cur' = cur /\ cmsg' = cmsg
    BY DEF ForwardOnNew, requests, history
<1>3. TypeOK /\ c \in Conn /\ ~Attached(c) /\ sock \in [Sd -> SockRec]
    BY <1>1, FreeHead DEF IInv, TypeOK
<1>4. cur \in Clients /\ cmsg \in Msg /\ cur \in Conn /\ Attached(cur)
    BY <1>1 DEF IInv, Control, Handling, Forwarding, Clients
<1>5. OmsgSet(cn, conn, cur, IF msg[cmsg].noreply THEN conn[cur].omsg_q
                             ELSE Append(conn[cur].omsg_q, cmsg))
    BY <1>1, OutstandingEffect
<1>6. c # cur
    BY <1>3, <1>4
<1>7. o # "nosocket" => nsd + 1 \in Sd
  <2> SUFFICES ASSUME o # "nosocket" PROVE nsd + 1 \in Sd
      OBVIOUS
  <2>1. nsd \in Nat /\ MaxSd \in Nat /\ backlog \in Nat
      BY <1>3, ConstantsAssumption DEF TypeOK
  <2>2. nsd + backlog < MaxSd
      BY DEF Outcomes
  <2> QED BY <2>1, <2>2 DEF Sd
<1>8. None \notin Sd /\ s # None
    BY DEF None, Sd, Server
<1>9. /\ r.imsg_q = <<>> /\ r.omsg_q = <<>> /\ r.owner = s /\ r.sd = sd /\ ~r.client
      /\ ~r.done /\ r.err = (o \in {"refused", "nosocket"})
    BY DEF NoConn
<1>10. /\ k.open /\ k.ptr = c /\ ~k.kerr /\ k.inq = <<>> /\ k.wire = <<>> /\ k.server
    BY DEF NoSock
<1> HIDE DEF r, k, cn, c
<1>11. conn'[c] = r /\ \A x \in Conn \ {c} : conn'[x] = cn[x]
    BY <1>1, <1>3, <1>5 DEF OmsgSet
<1>12. \A x \in Conn \ {c, cur} : conn'[x] = conn[x]
    BY <1>5, <1>11 DEF OmsgSet
<1>13. Reserving
  <2>1. conn'[cur] = cn[cur]
      BY <1>4, <1>6, <1>11
  <2> QED BY <1>1, <1>2, <1>4, <1>5, <2>1 DEF Reserving, OmsgSet
<1>14. Opening(c, sd)
  <2>1. CASE o = "nosocket"
      BY <1>1, <1>3, <1>6, <1>8, <1>9, <1>11, <2>1 DEF Opening
  <2>2. CASE o # "nosocket"
    <3>1. sd \in Sd /\ sd = nsd + 1 /\ sd # None
        BY <1>7, <1>8, <2>2
    <3> HIDE DEF sd
    <3>2. sock'[sd] = k /\ nsd' = sd /\ \A e \in Sd \ {sd} : sock'[e] = sock[e]
        BY <1>1, <1>3, <2>2, <3>1
    <3> QED BY <1>3, <1>6, <1>8, <1>9, <1>10, <1>11, <3>1, <3>2 DEF Opening
  <2> QED BY <2>1, <2>2
<1>15. sd \in Sd \cup {None}
    BY <1>7
<1> HIDE DEF sd
<1>16. ReservingNew(c, sd)
    BY <1>1, <1>6, <1>9, <1>11, <1>12, <1>13, <1>14 DEF ReservingNew
<1> QED BY <1>3, <1>15, <1>16

(* req_forward when server_conn rotates the connections it has: none of    *)
(* them carries err, unless server_connect failed on it.                   *)
LEMMA LruEffect ==
    ASSUME IInv, NEW s \in Server, ForwardOnLru(s)
    PROVE  ReservingLru /\ (pc' = "reject" => \E c \in Conn : conn[c].err /\ Attached(c) /\ scur' = c)
<1>1. /\ pc = "forward" /\ pc' \in {"enqueue", "reject"}
      /\ conn' = Outstanding(cur, cmsg) /\ sock' = sock /\ nsd' = nsd
      /\ msg' = msg /\ asked' = asked /\ answered' = answered
      /\ nmsg' = nmsg /\ cur' = cur /\ cmsg' = cmsg
    BY DEF ForwardOnLru, requests, history, bounds
<1>2. cur \in Clients /\ cmsg \in Msg
    BY <1>1 DEF IInv, Control, Handling, Forwarding, Clients
<1>3. OmsgSet(conn', conn, cur, IF msg[cmsg].noreply THEN conn[cur].omsg_q
                             ELSE Append(conn[cur].omsg_q, cmsg))
    BY <1>1, OutstandingEffect, Zenon
<1>4. ReservingLru
    BY <1>1, <1>2, <1>3 DEF ReservingLru, Reserving, OmsgSet
<1>5. ASSUME pc' = "reject" PROVE \E c \in Conn : conn[c].err /\ Attached(c) /\ scur' = c
  <2> DEFINE c == Head(s_conn_q[s])
  <2>1. scur' = c /\ conn[c].err /\ Len(s_conn_q[s]) >= SERVER_CONNECTIONS
      BY <1>5 DEF ForwardOnLru
  <2>2. s_conn_q[s] \in Seq(Conn) /\ s_conn_q[s] # <<>>
      BY <2>1, ConstantsAssumption DEF IInv, TypeOK
  <2>3. c \in Conn /\ c \in ToSet(s_conn_q[s])
      BY <2>2, TailFacts
  <2>4. conn[c].owner = s /\ s # None
      BY <2>3 DEF IInv, ConnPools, Server, None
  <2> QED BY <2>1, <2>3, <2>4 DEF Attached
<1> QED BY <1>4, <1>5

(* proxy_accept.                                                           *)
Admitting(c, d) ==
    /\ pc = "accept" /\ pc' = pc /\ cur' = cur /\ cmsg' = cmsg
    /\ msg' = msg /\ nmsg' = nmsg /\ asked' = asked /\ answered' = answered
    /\ \A k \in Conn \ {c} : conn'[k] = conn[k]
    /\ c \in Conn /\ ~Attached(c)
    /\ conn'[c].imsg_q = <<>> /\ conn'[c].omsg_q = <<>> /\ conn'[c].owner # None
    /\ conn'[c].client /\ ~conn'[c].done /\ ~conn'[c].err
    /\ conn'[c].sd = d
    /\ d \in Sd /\ d = nsd + 1 /\ nsd' = d
    /\ sock'[d].open /\ sock'[d].ptr = c /\ ~sock'[d].kerr
    /\ sock'[d].inq = <<>> /\ sock'[d].wire = <<>> /\ ~sock'[d].server
    /\ \A e \in Sd \ {d} : sock'[e] = sock[e]

(* proxy_accept makes a client, or nothing of it.                          *)
LEMMA AcceptEffect ==
    ASSUME IInv, Structures, proxy_accept
    PROVE  Idle \/ \E c \in Conn, d \in Sd : Admitting(c, d)
<1>1. /\ pc = "accept" /\ pc' = pc /\ cur' = cur /\ cmsg' = cmsg
      /\ msg' = msg /\ nmsg' = nmsg /\ asked' = asked /\ answered' = answered
    BY DEF proxy_accept, requests, history, control
<1>2. CASE UNCHANGED <<tables, sock, nsd>>
  <2>1. UNCHANGED <<conn, sock>> /\ nsd' = nsd /\ pc \notin Forwarding /\ pc' \notin Forwarding
      BY <1>1, <1>2 DEF tables, Forwarding
  <2>2. \A k \in Conn : Attached(k) => ~conn[k].done /\ ~conn[k].err
      BY <1>1 DEF Structures
  <2> QED BY <1>1, <2>1, <2>2, IdleAlone
<1>3. CASE ~UNCHANGED <<tables, sock, nsd>>
  <2> DEFINE c == Head(free_connq)
             d == nsd + 1
             r == [NoConn EXCEPT !.client = TRUE, !.owner = Pool,
                                 !.sd = d, !.send_active = TRUE]
             k == [NoSock EXCEPT !.open = TRUE, !.ptr = c,
                                            !.up = TRUE, !.rdy = TRUE]
  <2>1. /\ nsd < MaxSd /\ free_connq # <<>> /\ nsd' = d
        /\ conn' = [conn EXCEPT ![c] = r] /\ sock' = [sock EXCEPT ![d] = k]
      BY <1>3 DEF proxy_accept
  <2>2. c \in Conn /\ ~Attached(c) /\ sock \in [Sd -> SockRec] /\ conn \in [Conn -> ConnRec]
      BY <2>1, FreeHead DEF IInv, TypeOK
  <2>3. d \in Sd
    <3>1. nsd \in 0..MaxSd /\ MaxSd \in Nat
        BY ConstantsAssumption DEF IInv, TypeOK
    <3> QED BY <2>1, <3>1 DEF Sd
  <2>4. /\ r.imsg_q = <<>> /\ r.omsg_q = <<>> /\ r.owner # None /\ r.client
        /\ ~r.done /\ ~r.err /\ r.sd = d
      BY DEF NoConn, Pool, None
  <2>5. /\ k.open /\ k.ptr = c /\ ~k.kerr /\ k.inq = <<>> /\ k.wire = <<>> /\ ~k.server
      BY DEF NoSock
  <2>6. d = nsd + 1
      OBVIOUS
  <2> HIDE DEF r, k, c, d
  <2>7. conn'[c] = r /\ \A x \in Conn \ {c} : conn'[x] = conn[x]
      BY <2>1, <2>2
  <2>8. sock'[d] = k /\ \A e \in Sd \ {d} : sock'[e] = sock[e]
      BY <2>1, <2>2, <2>3
  <2>9. Admitting(c, d)
      BY <1>1, <2>1, <2>2, <2>3, <2>4, <2>5, <2>6, <2>7, <2>8 DEF Admitting
  <2> QED BY <2>2, <2>3, <2>9
<1> QED BY <1>2, <1>3

(* server_pool_conn closes what it got.                                    *)
Refusing(c) ==
    /\ pc = "reject" /\ pc' = "error" /\ cmsg' = cmsg /\ cur' = cur
    /\ cur \in Clients /\ cmsg \in Msg
    /\ msg' = msg /\ nmsg' = nmsg /\ nsd' = nsd /\ asked' = asked /\ answered' = answered
    /\ sock' = sock /\ c = scur /\ c \in Servers /\ c # cur
    /\ conn'[c].owner = None
    /\ \A k \in Conn \ {c} : conn'[k] = conn[k]

(* server_pool_conn closes what it could not connect.                      *)
LEMMA RefuseEffect ==
    ASSUME IInv, Structures, ForwardRejected
    PROVE  Refusing(scur)
<1>1. /\ pc = "reject" /\ server_close(conn, msg, sock, scur)
      /\ pc' = "error" /\ asked' = asked /\ answered' = answered
      /\ nsd' = nsd /\ nmsg' = nmsg /\ cur' = cur /\ cmsg' = cmsg
    BY DEF ForwardRejected, bounds, history
<1>2. /\ scur \in Conn /\ conn[scur].owner \in Server
      /\ cur \in Conn /\ Attached(cur) /\ conn[cur].client /\ cmsg \in Msg
      /\ conn[cur].owner = Pool
    BY <1>1 DEF IInv, Control, Handling, Forwarding
<1>3. /\ conn \in [Conn -> ConnRec] /\ msg \in [Msg -> MsgRec] /\ sock \in [Sd -> SockRec]
      /\ SameShape(conn)
    BY DEF IInv, TypeOK, SameShape
<1>4. cur # scur /\ Attached(scur) /\ conn[scur].owner # Pool
    BY <1>2 DEF Server, Pool, Attached, None
<1>5. ~conn[scur].client
    BY <1>2, <1>4 DEF IInv, Control
<1>6. conn[scur].sd = None => conn[scur].imsg_q = <<>> /\ conn[scur].omsg_q = <<>>
    BY <1>2, <1>4 DEF Structures
<1>7. /\ msg' = msg /\ sock' = sock
      /\ \A k \in Conn \ {scur} : conn'[k] = conn[k]
    BY <1>1, <1>2, <1>3, <1>6, ServerClosed
<1>8. Released(scur)
    BY <1>1, <1>2, <1>3, ServerCloseStep
<1>9. conn'[scur].owner = None
    BY <1>8 DEF Released
<1>10. cur \in Clients /\ scur \in Servers
    BY <1>2, <1>4, <1>5 DEF Clients, Servers
<1> QED BY <1>1, <1>2, <1>4, <1>7, <1>9, <1>10 DEF Refusing

-----------------------------------------------------------------------------

(* req_forward_error completes request m with an error, or frees it when   *)
(* no reply is wanted.                                                     *)
Erring(m) ==
    /\ pc = "error" /\ pc' \in {"recv", "check"} /\ cmsg' = None /\ cur' = cur
    /\ cur \in Clients /\ m = cmsg /\ m \in Msg
    /\ nmsg' = nmsg /\ nsd' = nsd /\ asked' = asked /\ answered' = answered
    /\ FlagsKept /\ \A k \in Conn : Kept(k)
    /\ \A n \in Msg \ {m} : msg'[n] = msg[n]
    /\ msg'[m].done /\ msg'[m].error /\ msg'[m].owner = msg[m].owner
    /\ msg'[m].noreply = msg[m].noreply /\ msg'[m].swallow = msg[m].swallow
    /\ IF msg[m].noreply THEN msg'[m].st = "freed" /\ msg'[m].tmo = None
       ELSE msg'[m].st = msg[m].st /\ msg'[m].tmo = msg[m].tmo
    /\ SocksSame

(* Sockets that do not change are the same.                                *)
LEMMA SameSocks ==
    ASSUME IInv, sock' = sock PROVE SocksSame
    BY DEF SocksSame, SockAlike

(* req_forward_error does that.                                            *)
LEMMA ErrEffect == ASSUME IInv, req_forward_error PROVE Erring(cmsg)
<1> DEFINE r == [msg[cmsg] EXCEPT !.done = TRUE, !.error = TRUE]
           x == IF r.noreply THEN req_put(r) ELSE r
<1>1. /\ pc = "error" /\ msg' = [msg EXCEPT ![cmsg] = x]
      /\ \/ conn' = event_add_out(conn, cur) /\ sock' = Rearmed(sock, conn, cur)
         \/ UNCHANGED <<conn, sock>>
      /\ pc' \in {"recv", "check"} /\ cmsg' = None
      /\ nsd' = nsd /\ nmsg' = nmsg /\ asked' = asked /\ answered' = answered /\ cur' = cur
    BY DEF req_forward_error, ReadOn, bounds, history
<1>2. /\ msg \in [Msg -> MsgRec] /\ sock \in [Sd -> SockRec] /\ cmsg \in Msg
      /\ conn \in [Conn -> ConnRec] /\ msg[cmsg] \in MsgRec
    BY <1>1 DEF IInv, TypeOK, Control, Forwarding
<1>3. cur \in Clients
    BY <1>1 DEF IInv, Control, Handling, Forwarding, Clients
<1>4. /\ r \in MsgRec /\ r.noreply = msg[cmsg].noreply /\ r.done /\ r.error
      /\ r.owner = msg[cmsg].owner /\ r.swallow = msg[cmsg].swallow
      /\ r.st = msg[cmsg].st /\ r.tmo = msg[cmsg].tmo
    BY <1>2 DEF MsgRec
<1> HIDE DEF r
<1>5. /\ x.noreply = msg[cmsg].noreply /\ x.done /\ x.error
      /\ x.owner = msg[cmsg].owner /\ x.swallow = msg[cmsg].swallow
      /\ IF msg[cmsg].noreply THEN x.st = "freed" /\ x.tmo = None
         ELSE x.st = msg[cmsg].st /\ x.tmo = msg[cmsg].tmo
  <2>1. CASE r.noreply
    <3> DEFINE y == req_put(r)
    <3>1. /\ y.tmo = None /\ y.owner = r.owner /\ y.noreply = r.noreply
          /\ y.swallow = r.swallow /\ y.error = r.error
          /\ y.st = "freed" /\ y.done = r.done
        BY <1>4, PutFacts
    <3>2. x = y
        BY <2>1
    <3> HIDE DEF y, x
    <3> QED BY <1>4, <2>1, <3>1, <3>2
  <2>2. CASE ~r.noreply
      BY <1>4, <2>2
  <2> QED BY <2>1, <2>2
<1> HIDE DEF x
<1>6. msg'[cmsg] = x /\ \A n \in Msg \ {cmsg} : msg'[n] = msg[n]
    BY <1>1, <1>2
<1>7. FlagsKept /\ \A k \in Conn : Kept(k)
  <2>1. CASE conn' = event_add_out(conn, cur)
      BY <1>2, <2>1, AddedOut DEF FlagsKept, Kept
  <2>2. CASE conn' = conn
      BY <2>2 DEF FlagsKept, Kept
  <2> QED BY <1>1, <2>1, <2>2
<1>8. SocksSame
  <2>1. CASE sock' = Rearmed(sock, conn, cur)
      BY <1>2, <2>1, RearmedFacts DEF SocksSame
  <2>2. CASE sock' = sock
      BY <2>2, SameSocks
  <2> QED BY <1>1, <2>1, <2>2
<1> QED BY <1>1, <1>2, <1>3, <1>5, <1>6, <1>7, <1>8 DEF Erring

(* Nothing that kept a connection awake is lost.                           *)
Livelier ==
    /\ \A k \in Conn : conn[k].send_active => conn'[k].send_active
    /\ \A d \in Sd : (sock[d].rdy => sock'[d].rdy) /\ sock'[d].full = sock[d].full

(* The rest of req_forward: m joins the in_q of server connection c, with  *)
(* its timer, and c is woken when in_q was empty.                          *)
Enqueuing(m, c) ==
    /\ pc = "enqueue" /\ pc' \in {"recv", "check"} /\ cmsg' = None /\ cur' = cur
    /\ cur \in Clients /\ m = cmsg /\ m \in Msg /\ c = scur /\ c \in Servers
    /\ nmsg' = nmsg /\ nsd' = nsd /\ asked' = asked /\ answered' = answered
    /\ FlagsKept /\ Requeued(c, Append(conn[c].imsg_q, m), conn[c].omsg_q)
    /\ \A n \in Msg \ {m} : msg'[n] = msg[n]
    /\ msg'[m].st = msg[m].st /\ msg'[m].owner = msg[m].owner
    /\ msg'[m].noreply = msg[m].noreply /\ msg'[m].swallow = msg[m].swallow
    /\ msg'[m].done = msg[m].done /\ msg'[m].error = msg[m].error
    /\ msg'[m].part = msg[m].part
    /\ msg'[m].tmo = IF TIMEOUT /\ ~msg[m].noreply THEN c ELSE msg[m].tmo
    /\ SocksSame /\ Livelier /\ wr' = wr /\ batch' = batch
    /\ conn[c].imsg_q = <<>> => /\ conn'[c].send_active
                                /\ ~conn[c].send_active => sock'[conn[c].sd].rdy

(* An enqueue to in_q touches in_q alone.                                  *)
LEMMA EnqueuedFacts ==
    ASSUME NEW STATE cn, cn \in [Conn -> ConnRec], NEW STATE c, c \in Conn,
           NEW STATE q, q \in Seq(Msg)
    PROVE  LET x == [cn EXCEPT ![c].imsg_q = q]
           IN /\ x \in [Conn -> ConnRec]
              /\ \A k \in Conn \ {c} : x[k] = cn[k]
              /\ x[c].client = cn[c].client /\ x[c].owner = cn[c].owner
              /\ x[c].sd = cn[c].sd /\ x[c].omsg_q = cn[c].omsg_q
              /\ x[c].imsg_q = q
              /\ x[c].done = cn[c].done /\ x[c].err = cn[c].err
              /\ x[c].send_active = cn[c].send_active
<1> DEFINE r == [cn[c] EXCEPT !.imsg_q = q]
           x == [cn EXCEPT ![c].imsg_q = q]
<1>1. cn[c] \in ConnRec
    OBVIOUS
<1>2. /\ r \in ConnRec /\ r.client = cn[c].client /\ r.owner = cn[c].owner
      /\ r.sd = cn[c].sd /\ r.omsg_q = cn[c].omsg_q /\ r.imsg_q = q
      /\ r.done = cn[c].done /\ r.err = cn[c].err /\ r.send_active = cn[c].send_active
    BY <1>1 DEF ConnRec
<1>3. x = [cn EXCEPT ![c] = r]
    OBVIOUS
<1> HIDE DEF x, r
<1>4. x[c] = r /\ x \in [Conn -> ConnRec] /\ \A k \in Conn \ {c} : x[k] = cn[k]
    BY <1>2, <1>3
<1> QED BY <1>2, <1>4 DEF x

(* req_forward does that, for a request that is whole or a fragment.       *)
LEMMA EnqueueEffect == ASSUME IInv, ForwardEnqueue PROVE Enqueuing(cmsg, scur)
<1> DEFINE idle == conn[scur].imsg_q = <<>>
           cn == IF idle THEN event_add_out(conn, scur) ELSE conn
           t == Append(conn[scur].imsg_q, cmsg)
           r == IF TIMEOUT /\ ~msg[cmsg].noreply
                THEN [msg[cmsg] EXCEPT !.tmo = scur, !.key = clock + 1] ELSE msg[cmsg]
<1>1. /\ pc = "enqueue" /\ pc' \in {"recv", "check"} /\ cmsg' = None
      /\ conn' = [cn EXCEPT ![scur].imsg_q = Append(@, cmsg)]
      /\ sock' = IF idle THEN Rearmed(sock, conn, scur) ELSE sock
      /\ msg' = IF TIMEOUT /\ ~msg[cmsg].noreply
                THEN [msg EXCEPT ![cmsg].tmo = scur, ![cmsg].key = clock + 1] ELSE msg
      /\ nsd' = nsd /\ nmsg' = nmsg /\ asked' = asked /\ answered' = answered
      /\ cur' = cur /\ wr' = wr /\ batch' = batch
    BY DEF ForwardEnqueue, Timed, ReadOn, bounds, history
<1>2. /\ msg \in [Msg -> MsgRec] /\ sock \in [Sd -> SockRec] /\ cmsg \in Msg
      /\ conn \in [Conn -> ConnRec] /\ msg[cmsg] \in MsgRec /\ clock \in Nat
      /\ cur \in Clients /\ scur \in Conn /\ conn[scur].owner \in Server
    BY <1>1 DEF IInv, TypeOK, Control, Handling, Forwarding, Clients
<1>3. scur \in Servers /\ Attached(scur)
  <2>1. conn[scur].owner # None /\ conn[scur].owner # Pool
      BY <1>2 DEF Server, None, Pool
  <2> QED BY <1>2, <2>1 DEF Servers, IInv, Control, Attached
<1>4. /\ cn \in [Conn -> ConnRec]
      /\ \A k \in Conn :
                   /\ cn[k].client = conn[k].client /\ cn[k].owner = conn[k].owner
                   /\ cn[k].sd = conn[k].sd /\ cn[k].imsg_q = conn[k].imsg_q
                   /\ cn[k].omsg_q = conn[k].omsg_q
                   /\ cn[k].done = conn[k].done /\ cn[k].err = conn[k].err
                   /\ conn[k].send_active => cn[k].send_active
      /\ idle => cn[scur].send_active
  <2>1. CASE idle
      BY <1>2, <2>1, AddedOut
  <2>2. CASE ~idle
      BY <1>2, <2>2
  <2> QED BY <2>1, <2>2
<1>5. t \in Seq(Msg)
  <2>1. conn[scur].imsg_q \in Seq(Msg)
      BY <1>2 DEF ConnRec
  <2> QED BY <1>2, <2>1
<1>6. conn' = [cn EXCEPT ![scur].imsg_q = t]
    BY <1>1, <1>2, <1>4
<1> HIDE DEF cn, t
<1>7. /\ \A k \in Conn \ {scur} : conn'[k] = cn[k]
      /\ conn'[scur].client = cn[scur].client /\ conn'[scur].owner = cn[scur].owner
      /\ conn'[scur].sd = cn[scur].sd /\ conn'[scur].omsg_q = cn[scur].omsg_q
      /\ conn'[scur].imsg_q = t
      /\ conn'[scur].done = cn[scur].done /\ conn'[scur].err = cn[scur].err
      /\ conn'[scur].send_active = cn[scur].send_active
    BY <1>2, <1>4, <1>5, <1>6, EnqueuedFacts
<1>8. FlagsKept
    BY <1>4, <1>7 DEF FlagsKept
<1>9. Requeued(scur, Append(conn[scur].imsg_q, cmsg), conn[scur].omsg_q)
    BY <1>2, <1>4, <1>7 DEF Requeued, Kept, t
<1>10. /\ msg'[cmsg] = r /\ \A n \in Msg \ {cmsg} : msg'[n] = msg[n]
  <2>1. [msg EXCEPT ![cmsg].tmo = scur, ![cmsg].key = clock + 1]
           = [msg EXCEPT ![cmsg] = [msg[cmsg] EXCEPT !.tmo = scur, !.key = clock + 1]]
      BY <1>2
  <2> DEFINE y == [msg[cmsg] EXCEPT !.tmo = scur, !.key = clock + 1]
  <2>2. msg' = IF TIMEOUT /\ ~msg[cmsg].noreply THEN [msg EXCEPT ![cmsg] = y] ELSE msg
      BY <1>1, <2>1
  <2>3. r = IF TIMEOUT /\ ~msg[cmsg].noreply THEN y ELSE msg[cmsg]
      OBVIOUS
  <2> HIDE DEF y, r
  <2> QED BY <1>2, <2>2, <2>3
<1>11. /\ r.st = msg[cmsg].st /\ r.owner = msg[cmsg].owner /\ r.noreply = msg[cmsg].noreply
       /\ r.swallow = msg[cmsg].swallow /\ r.done = msg[cmsg].done
       /\ r.error = msg[cmsg].error /\ r.part = msg[cmsg].part
       /\ r.tmo = IF TIMEOUT /\ ~msg[cmsg].noreply THEN scur ELSE msg[cmsg].tmo
    BY <1>2 DEF MsgRec
<1> HIDE DEF r
<1>12. /\ SocksSame /\ \A d \in Sd : (sock[d].rdy => sock'[d].rdy) /\ sock'[d].full = sock[d].full
       /\ idle /\ ~conn[scur].send_active /\ conn[scur].sd \in Sd => sock'[conn[scur].sd].rdy
  <2>1. CASE idle
    <3>1. sock' = Rearmed(sock, conn, scur)
        BY <1>1, <2>1
    <3> QED BY <1>2, <3>1, RearmedFacts DEF SocksSame
  <2>2. CASE ~idle
      BY <1>1, <2>2, SameSocks
  <2> QED BY <2>1, <2>2
<1>13. conn[scur].sd \in Sd
  <2>1. conn[scur].sd # None
      BY <1>1, <1>2, <1>3 DEF IInv, Control
  <2> QED BY <1>2, <2>1 DEF ConnRec
<1>14. Livelier
    BY <1>4, <1>7, <1>12 DEF Livelier
<1>15. idle => conn'[scur].send_active
    BY <1>4, <1>7
<1> QED BY <1>1, <1>2, <1>3, <1>8, <1>9, <1>10, <1>11, <1>12, <1>13, <1>14, <1>15 DEF Enqueuing

(* rsp_send_done.                                                          *)
Answering(p) ==
    /\ pc = "send" /\ pc' = pc /\ cmsg' = cmsg /\ cur' = cur
    /\ cur \in Clients /\ conn[cur].sd \in Sd
    /\ conn[cur].omsg_q # <<>> /\ p = Head(conn[cur].omsg_q) /\ p \in Msg /\ msg[p].done
    /\ nmsg' = nmsg /\ nsd' = nsd /\ asked' = asked /\ sock' = sock
    /\ answered' = [answered EXCEPT ![conn[cur].sd] =
                       Append(@, <<p, IF msg[p].error THEN ErrorReply ELSE msg[p].peer>>)]
    /\ FlagsKept /\ Requeued(cur, conn[cur].imsg_q, Tail(conn[cur].omsg_q))
    /\ \A n \in Msg \ {p} : msg'[n] = msg[n]
    /\ msg'[p].st = "freed" /\ msg'[p].tmo = None
    /\ \A k \in Conn \ {cur} : conn'[k] = conn[k]
    /\ wr' = wr /\ batch' = batch

(* rsp_send_done dequeues, writes and frees the first request of the       *)
(* client.                                                                 *)
LEMMA AnswerEffect == ASSUME IInv, rsp_send_done PROVE \E p \in Msg : Answering(p)
<1> DEFINE q == conn[cur].omsg_q
           p == Head(q)
           t == Tail(q)
           r == req_put(msg[p])
<1>1. /\ pc = "send" /\ q # <<>> /\ msg[p].done /\ conn[cur].client
      /\ answered' = [answered EXCEPT ![conn[cur].sd] =
                        Append(@, <<p, IF msg[p].error THEN ErrorReply ELSE msg[p].peer>>)]
      /\ msg' = [msg EXCEPT ![p] = r]
      /\ conn' = [conn EXCEPT ![cur].omsg_q = Tail(@)]
      /\ sock' = sock /\ pc' = pc /\ cur' = cur /\ cmsg' = cmsg /\ wr' = wr /\ batch' = batch
      /\ nmsg' = nmsg /\ nsd' = nsd /\ asked' = asked
    BY DEF rsp_send_done, Writing, CanSend, HeadDone, Dequeued, control, bounds
<1>2. /\ cur \in Conn /\ conn \in [Conn -> ConnRec] /\ msg \in [Msg -> MsgRec]
      /\ conn[cur].sd \in Sd
    BY <1>1, CurFacts DEF Handling, IInv, TypeOK
<1>3. cur \in Clients
    BY <1>1, <1>2 DEF Clients, IInv, Control, Handling
<1>4. p \in Msg /\ t \in Seq(Msg)
  <2>1. q \in Seq(Msg)
      BY <1>2 DEF ConnRec
  <2> HIDE DEF q
  <2> QED BY <1>1, <2>1
<1>5. conn' = [conn EXCEPT ![cur].omsg_q = t]
    BY <1>1, <1>2
<1>6. conn[cur].omsg_q # <<>> /\ p = Head(conn[cur].omsg_q) /\ t = Tail(conn[cur].omsg_q)
    BY <1>1
<1> HIDE DEF t, p, q
<1>7. /\ FlagsKept /\ Requeued(cur, conn[cur].imsg_q, t)
      /\ \A k \in Conn \ {cur} : conn'[k] = conn[k]
    BY <1>2, <1>4, <1>5, DequeuedFacts DEF OmsgSet, FlagsKept, Requeued, Kept
<1>8. r.tmo = None /\ r.st = "freed"
  <2>1. msg[p] \in MsgRec
      BY <1>2, <1>4
  <2> QED BY <2>1, PutFacts
<1> HIDE DEF r
<1>9. msg'[p] = r /\ \A n \in Msg \ {p} : msg'[n] = msg[n]
    BY <1>1, <1>2, <1>4
<1>10. Answering(p)
    BY <1>1, <1>2, <1>3, <1>4, <1>6, <1>7, <1>8, <1>9, Zenon DEF Answering
<1> QED BY <1>4, <1>10

-----------------------------------------------------------------------------
(* What the server sees of a request that is written.                      *)
Wired(m) ==
    \A d \in Sd :
        /\ SockAlike(sock'[d], sock[d]) /\ sock'[d].inq = sock[d].inq
        /\ sock'[d].rdy = sock[d].rdy
        /\ sock'[d].wire = IF /\ d = conn[cur].sd /\ IsServerSd(d)
                              /\ ~msg[m].part /\ ~msg[m].noreply
                           THEN Append(sock[d].wire, m) ELSE sock[d].wire

(* req_send_next found m first in in_q and conn_send wrote of it.          *)
Writes(m) ==
    /\ pc = "send" /\ cmsg' = cmsg /\ cur' = cur
    /\ cur \in Servers /\ conn[cur].sd \in Sd /\ sock[conn[cur].sd].up
    /\ conn[cur].imsg_q # <<>> /\ m = Head(conn[cur].imsg_q) /\ m \in Msg
    /\ nmsg' = nmsg /\ nsd' = nsd /\ asked' = asked /\ answered' = answered
    /\ FlagsKept /\ Wired(m) /\ wr' = wr /\ batch' = batch
    /\ \A k \in Conn : conn'[k].send_active = conn[k].send_active
    /\ \A n \in Msg \ {m} : msg'[n] = msg[n]

(* A request leaves in_q.                                                  *)
Sending(m) ==
    /\ Writes(m) /\ pc' = pc
    /\ Requeued(cur, Tail(conn[cur].imsg_q),
                IF msg[m].noreply THEN conn[cur].omsg_q ELSE Append(conn[cur].omsg_q, m))
    /\ IF msg[m].noreply THEN msg'[m].st = "freed" /\ msg'[m].tmo = None
       ELSE msg'[m] = [msg[m] EXCEPT !.part = FALSE]

(* Half of it does.                                                        *)
Halving(m) ==
    /\ Writes(m) /\ pc' = "check"
    /\ \A k \in Conn : Kept(k)
    /\ msg'[m] = [msg[m] EXCEPT !.part = TRUE]

(* server_connected sets connected and connecting, and nothing that        *)
(* matters to the requests.                                                *)
LEMMA ConnectedAs ==
    ASSUME IInv, pc = "send"
    PROVE  /\ server_connected(cur) \in [Conn -> ConnRec]
           /\ \A k \in Conn :
                LET x == server_connected(cur)[k]
                IN /\ x.client = conn[k].client /\ x.owner = conn[k].owner
                   /\ x.sd = conn[k].sd /\ x.imsg_q = conn[k].imsg_q
                   /\ x.omsg_q = conn[k].omsg_q /\ x.done = conn[k].done
                   /\ x.err = conn[k].err /\ x.send_active = conn[k].send_active
<1>1. cur \in Conn /\ conn \in [Conn -> ConnRec]
    BY CurFacts DEF Handling, IInv, TypeOK
<1> DEFINE b == conn[cur].connected \/ conn[cur].connecting
           r == [conn[cur] EXCEPT !.connecting = FALSE, !.connected = b]
<1>2. b \in BOOLEAN
    OBVIOUS
<1>3. server_connected(cur) = [conn EXCEPT ![cur] = r]
    BY <1>1 DEF server_connected
<1> HIDE DEF b
<1>4. /\ r \in ConnRec /\ r.client = conn[cur].client /\ r.owner = conn[cur].owner
      /\ r.sd = conn[cur].sd /\ r.imsg_q = conn[cur].imsg_q
      /\ r.omsg_q = conn[cur].omsg_q /\ r.done = conn[cur].done
      /\ r.err = conn[cur].err /\ r.send_active = conn[cur].send_active
    BY <1>1, <1>2 DEF ConnRec
<1> HIDE DEF r
<1> QED BY <1>1, <1>3, <1>4

(* What reaches the server of a write: the request, once its last part     *)
(* does.                                                                   *)
LEMMA WiredFacts ==
    ASSUME IInv, NEW d \in Sd, NEW m \in Msg
    PROVE  LET x == Transmit(sock, d, m)
           IN /\ x \in [Sd -> SockRec]
              /\ \A e \in Sd :
                   /\ SockAlike(x[e], sock[e]) /\ x[e].inq = sock[e].inq
                   /\ x[e].rdy = sock[e].rdy /\ x[e].full = sock[e].full
                   /\ x[e].wire = IF e = d /\ IsServerSd(e) /\ ~msg[m].part /\ ~msg[m].noreply
                                  THEN Append(sock[e].wire, m) ELSE sock[e].wire
<1> DEFINE r == [sock[d] EXCEPT !.wire = Append(@, m)]
           b == IsServerSd(d) /\ ~msg[m].part /\ ~msg[m].noreply
<1>1. sock \in [Sd -> SockRec] /\ sock[d] \in SockRec
    BY DEF IInv, TypeOK
<1>2. Transmit(sock, d, m) \in [Sd -> SockRec]
    BY TransmitType DEF IInv
<1>3. Transmit(sock, d, m) = IF b THEN [sock EXCEPT ![d] = r] ELSE sock
    BY <1>1 DEF Transmit
<1>4. /\ SockAlike(r, sock[d]) /\ r.inq = sock[d].inq
      /\ r.rdy = sock[d].rdy /\ r.full = sock[d].full
      /\ r.wire = Append(sock[d].wire, m)
    BY <1>1 DEF SockRec, SockAlike
<1>5. \A e \in Sd : SockAlike(sock[e], sock[e])
    BY DEF SockAlike
<1>6. b => IsServerSd(d) /\ ~msg[m].part /\ ~msg[m].noreply
    OBVIOUS
<1>7. ~b => ~(IsServerSd(d) /\ ~msg[m].part /\ ~msg[m].noreply)
    OBVIOUS
<1> HIDE DEF r, b
<1>8. CASE b
  <2>1. Transmit(sock, d, m) = [sock EXCEPT ![d] = r]
      BY <1>3, <1>8
  <2> QED BY <1>1, <1>2, <1>4, <1>5, <1>6, <1>8, <2>1
<1>9. CASE ~b
  <2>1. Transmit(sock, d, m) = sock
      BY <1>3, <1>9
  <2> QED BY <1>1, <1>2, <1>5, <1>7, <1>9, <2>1
<1> QED BY <1>8, <1>9

(* What all writes to a server have in common.                             *)
LEMMA WriteFacts ==
    ASSUME IInv, Writing(cur, FALSE), CanSend(cur), ~Sk(cur).kerr
    PROVE  /\ pc = "send" /\ cur \in Servers /\ conn[cur].sd \in Sd
           /\ conn[cur].imsg_q # <<>> /\ Head(conn[cur].imsg_q) \in Msg
           /\ conn[cur].imsg_q \in Seq(Msg) /\ conn[cur].omsg_q \in Seq(Msg)
           /\ cur \in Conn /\ sock[conn[cur].sd] \in SockRec
           /\ ~Blocked(cur) => sock[conn[cur].sd].up
<1>1. pc = "send" /\ conn[cur].imsg_q # <<>> /\ ~conn[cur].client
    BY DEF Writing, CanSend
<1>2. /\ cur \in Conn /\ conn[cur].sd \in Sd /\ sock[conn[cur].sd] \in SockRec
      /\ conn[cur] \in ConnRec /\ Attached(cur)
    BY <1>1, CurFacts DEF Handling, IInv, Control
<1>3. conn[cur].imsg_q \in Seq(Msg) /\ conn[cur].omsg_q \in Seq(Msg)
    BY <1>2 DEF ConnRec
<1> QED BY <1>1, <1>2, <1>3 DEF Servers, Blocked, Sk

(* req_send_done moves the request from in_q to out_q, or frees it when no *)
(* reply is wanted.                                                        *)
LEMMA SendEffect == ASSUME IInv, req_send_done PROVE \E m \in Msg : Sending(m)
<1> DEFINE q == conn[cur].imsg_q
           m == Head(q)
           t == Tail(q)
           u == IF msg[m].noreply THEN conn[cur].omsg_q ELSE Append(conn[cur].omsg_q, m)
           cn == server_connected(cur)
           r == IF msg[m].noreply THEN req_put(msg[m]) ELSE [msg[m] EXCEPT !.part = FALSE]
<1>1. /\ pc = "send" /\ cur \in Servers /\ conn[cur].sd \in Sd
      /\ q # <<>> /\ m \in Msg /\ q \in Seq(Msg) /\ conn[cur].omsg_q \in Seq(Msg)
      /\ cur \in Conn /\ sock[conn[cur].sd].up
    BY WriteFacts DEF req_send_done
<1>2. msg \in [Msg -> MsgRec] /\ msg[m] \in MsgRec
    BY <1>1 DEF IInv, TypeOK
<1>3. /\ conn' = IF msg[m].noreply THEN [cn EXCEPT ![cur].imsg_q = Tail(@)]
                 ELSE SentOut(cn, cur)
      /\ msg' = IF msg[m].noreply THEN [msg EXCEPT ![m] = req_put(@)]
                ELSE [msg EXCEPT ![m].part = FALSE]
      /\ sock' = Transmit(sock, conn[cur].sd, m)
      /\ pc' = pc /\ cur' = cur /\ cmsg' = cmsg /\ wr' = wr /\ batch' = batch
      /\ nmsg' = nmsg /\ nsd' = nsd /\ asked' = asked /\ answered' = answered
    BY DEF req_send_done, control, bounds, history
<1>4. msg' = [msg EXCEPT ![m] = r]
    BY <1>2, <1>3
<1>5. /\ msg[m].noreply => r.st = "freed" /\ r.tmo = None
      /\ ~msg[m].noreply => r = [msg[m] EXCEPT !.part = FALSE]
    BY <1>2, PutFacts
<1>6. t \in Seq(Msg) /\ u \in Seq(Msg)
    BY <1>1
<1>7. /\ cn \in [Conn -> ConnRec]
      /\ \A k \in Conn :
           /\ cn[k].client = conn[k].client /\ cn[k].owner = conn[k].owner
           /\ cn[k].sd = conn[k].sd /\ cn[k].imsg_q = conn[k].imsg_q
           /\ cn[k].omsg_q = conn[k].omsg_q /\ cn[k].done = conn[k].done
           /\ cn[k].err = conn[k].err /\ cn[k].send_active = conn[k].send_active
    BY <1>1, ConnectedAs
<1> DEFINE p == [cn EXCEPT ![cur].imsg_q = t]
<1>8. conn' = [p EXCEPT ![cur].omsg_q = u]
  <2>1. cn[cur].imsg_q = q /\ cn[cur].omsg_q = conn[cur].omsg_q
      BY <1>1, <1>7
  <2> HIDE DEF cn
  <2>2. CASE ~msg[m].noreply
    <3>1. conn' = SentOut(cn, cur)
        BY <1>3, <2>2
    <3>2. conn' = [cn EXCEPT ![cur].imsg_q = Tail(@),
                             ![cur].omsg_q = Append(@, Head(cn[cur].imsg_q))]
        BY <3>1 DEF SentOut
    <3>3. /\ Tail(cn[cur].imsg_q) = t
          /\ Append(cn[cur].omsg_q, Head(cn[cur].imsg_q)) = u
        BY <2>1, <2>2
    <3> HIDE DEF t, u
    <3>4. conn' = [cn EXCEPT ![cur].imsg_q = t, ![cur].omsg_q = u]
        BY <1>1, <1>7, <3>2, <3>3 DEF ConnRec
    <3> QED BY <1>1, <1>7, <3>4 DEF ConnRec
  <2>3. CASE msg[m].noreply
    <3>1. conn' = p
        BY <1>3, <1>7, <2>1, <2>3
    <3>2. p[cur].omsg_q = u /\ p \in [Conn -> ConnRec]
      <4> DEFINE y == [cn[cur] EXCEPT !.imsg_q = t]
      <4>0. u = cn[cur].omsg_q
          BY <2>1, <2>3
      <4> HIDE DEF t, u
      <4>1. y \in ConnRec /\ y.omsg_q = u
          BY <1>1, <1>6, <1>7, <4>0 DEF ConnRec
      <4>2. p = [cn EXCEPT ![cur] = y]
          BY <1>1, <1>7
      <4> HIDE DEF y
      <4> QED BY <1>1, <1>7, <4>1, <4>2
    <3> HIDE DEF p, u
    <3>3. [p[cur] EXCEPT !.omsg_q = u] = p[cur]
        BY <1>1, <3>2 DEF ConnRec
    <3> QED BY <1>1, <3>1, <3>2, <3>3
  <2> QED BY <2>2, <2>3
<1>9. /\ p \in [Conn -> ConnRec] /\ \A k \in Conn \ {cur} : p[k] = cn[k]
      /\ p[cur].client = cn[cur].client /\ p[cur].owner = cn[cur].owner
      /\ p[cur].sd = cn[cur].sd /\ p[cur].omsg_q = cn[cur].omsg_q
      /\ p[cur].imsg_q = t
      /\ p[cur].done = cn[cur].done /\ p[cur].err = cn[cur].err
      /\ p[cur].send_active = cn[cur].send_active
  <2> HIDE DEF cn, t
  <2> QED BY <1>1, <1>6, <1>7, EnqueuedFacts
<1> HIDE DEF p, cn
<1>10. OmsgSet(conn', p, cur, u)
  <2> HIDE DEF u
  <2> QED BY <1>1, <1>6, <1>8, <1>9, DequeuedFacts
<1>11. FlagsKept /\ \A k \in Conn : conn'[k].send_active = conn[k].send_active
  <2> HIDE DEF u
  <2> QED BY <1>1, <1>7, <1>9, <1>10 DEF FlagsKept, OmsgSet
<1>12. Requeued(cur, t, u)
  <2> HIDE DEF u, t
  <2> QED BY <1>1, <1>7, <1>9, <1>10 DEF Requeued, Kept, OmsgSet
<1>13. Wired(m)
  <2> HIDE DEF m
  <2> QED BY <1>1, <1>3, WiredFacts DEF Wired
<1>14. msg'[m] = r /\ \A n \in Msg \ {m} : msg'[n] = msg[n]
  <2> HIDE DEF r, m
  <2> QED BY <1>1, <1>2, <1>4
<1>15. Writes(m)
    BY <1>1, <1>3, <1>11, <1>13, <1>14 DEF Writes
<1>16. Requeued(cur, Tail(conn[cur].imsg_q),
                IF msg[m].noreply THEN conn[cur].omsg_q ELSE Append(conn[cur].omsg_q, m))
    BY <1>12
<1> HIDE DEF r, m
<1>17. Sending(m)
    BY <1>3, <1>5, <1>14, <1>15, <1>16 DEF Sending
<1> QED BY <1>1, <1>17

(* conn_send that writes a part, or nothing because the socket is full.    *)
LEMMA HalveEffect ==
    ASSUME IInv, Structures, Sockets, req_send_short
    PROVE  Idle \/ \E m \in Msg : Halving(m)
<1> DEFINE q == conn[cur].imsg_q
           m == Head(q)
           d == conn[cur].sd
           cn == server_connected(cur)
<1>1. /\ pc = "send" /\ cur \in Servers /\ d \in Sd
      /\ q # <<>> /\ m \in Msg /\ q \in Seq(Msg)
      /\ cur \in Conn /\ (~Blocked(cur) => sock[conn[cur].sd].up)
    BY WriteFacts DEF req_send_short
<1>2. /\ conn' = cn /\ pc' = "check" /\ cur' = cur /\ cmsg' = cmsg /\ wr' = wr
      /\ batch' = batch /\ asked' = asked /\ answered' = answered /\ nsd' = nsd
      /\ nmsg' = nmsg
      /\ \/ sock' = sock /\ msg' = msg
         \/ /\ ~Blocked(cur)
            /\ sock' = [Transmit(sock, d, m) EXCEPT ![d].full = TRUE]
            /\ msg' = [msg EXCEPT ![m].part = TRUE]
    BY DEF req_send_short, history
<1>3. CASE sock' = sock /\ msg' = msg
  <2> DEFINE b == conn[cur].connected \/ conn[cur].connecting
  <2>1. b \in BOOLEAN
      OBVIOUS
  <2>2. conn \in [Conn -> ConnRec]
      BY DEF IInv, TypeOK
  <2>3. conn' = [conn EXCEPT ![cur].connecting = FALSE, ![cur].connected = b]
      BY <1>1, <1>2, <2>2 DEF server_connected
  <2> HIDE DEF b
  <2>4. Flagged(conn', conn, cur)
      BY <1>1, <2>1, <2>2, <2>3, FlagsOnly
  <2> QED BY <1>1, <1>2, <1>3, <2>4, IdleSame, IdleFlags
<1>4. CASE /\ ~Blocked(cur)
           /\ sock' = [Transmit(sock, d, m) EXCEPT ![d].full = TRUE]
           /\ msg' = [msg EXCEPT ![m].part = TRUE]
  <2> DEFINE x == Transmit(sock, d, m)
             r == [x[d] EXCEPT !.full = TRUE]
             y == [msg[m] EXCEPT !.part = TRUE]
  <2>1. /\ x \in [Sd -> SockRec]
        /\ \A e \in Sd :
             /\ SockAlike(x[e], sock[e]) /\ x[e].inq = sock[e].inq
             /\ x[e].rdy = sock[e].rdy
             /\ x[e].wire = IF e = d /\ IsServerSd(e) /\ ~msg[m].part /\ ~msg[m].noreply
                            THEN Append(sock[e].wire, m) ELSE sock[e].wire
    <3> HIDE DEF m, d
    <3> QED BY <1>1, WiredFacts
  <2> HIDE DEF x
  <2>2. /\ SockAlike(r, x[d]) /\ r.inq = x[d].inq /\ r.rdy = x[d].rdy
        /\ r.wire = x[d].wire
      BY <1>1, <2>1 DEF SockRec, SockAlike
  <2>3. sock' = [x EXCEPT ![d] = r]
      BY <1>4 DEF x
  <2> HIDE DEF r
  <2>4. Wired(m)
    <3>1. \A e \in Sd : e # d => sock'[e] = x[e]
        BY <1>1, <2>1, <2>3
    <3>2. sock'[d] = r
        BY <1>1, <2>1, <2>3
    <3> QED BY <1>1, <2>1, <2>2, <3>1, <3>2 DEF Wired, SockAlike
  <2>5. msg' = [msg EXCEPT ![m] = y] /\ msg \in [Msg -> MsgRec]
      BY <1>4 DEF IInv, TypeOK
  <2>6. /\ FlagsKept /\ \A k \in Conn : Kept(k)
        /\ \A k \in Conn : conn'[k].send_active = conn[k].send_active
      BY <1>1, <1>2, ConnectedAs DEF FlagsKept, Kept
  <2>7. msg'[m] = y /\ \A n \in Msg \ {m} : msg'[n] = msg[n]
    <3> HIDE DEF y, m
    <3> QED BY <1>1, <2>5
  <2>8. Writes(m)
      BY <1>1, <1>2, <1>4, <2>4, <2>6, <2>7 DEF Writes
  <2>9. Halving(m)
      BY <1>2, <2>6, <2>7, <2>8 DEF Halving
  <2> QED BY <1>1, <2>9
<1> QED BY <1>2, <1>3, <1>4

-----------------------------------------------------------------------------

(* The program does nothing.                                               *)
LoopStill ==
    UNCHANGED <<conn, msg, nsd, asked, answered, pc, cur, cmsg, scur, wr, batch>>

(* The peer of d does something: an edge is reported when it does, and     *)
(* none that waits is lost.                                                *)
SockSteps(d) ==
    /\ LoopStill /\ \A e \in Sd \ {d} : sock'[e] = sock[e]
    /\ sock'[d].open = sock[d].open /\ sock'[d].ptr = sock[d].ptr
    /\ sock'[d].server = sock[d].server /\ sock'[d].hup = sock[d].hup
    /\ sock[d].rdy => sock'[d].rdy
    /\ sock'[d].full # sock[d].full => sock'[d].rdy
    /\ sock[d].up # sock'[d].up => sock'[d].rdy

(* A client writes its next request, quits or ends its stream.             *)
Asking(d) ==
    /\ SockSteps(d) /\ sock[d].open /\ ~sock[d].server
    /\ sock'[d].up = sock[d].up /\ sock'[d].kerr = sock[d].kerr
    /\ sock'[d].wire = sock[d].wire
    /\ <<"eof", None>> \notin ToSet(sock[d].inq)
    /\ \/ /\ nmsg < MaxMsg /\ nmsg' = nmsg + 1
          /\ \E k \in {"get", "set"} : sock'[d].inq = Append(sock[d].inq, <<k, nmsg + 1>>)
       \/ /\ nmsg' = nmsg
          /\ \E k \in {"quit", "eof"} : sock'[d].inq = Append(sock[d].inq, <<k, None>>)

(* A server answers what it saw first, or ends its stream.                 *)
Replying(d) ==
    /\ SockSteps(d) /\ IsServerSd(d) /\ nmsg' = nmsg
    /\ sock'[d].up = sock[d].up /\ sock'[d].kerr = sock[d].kerr
    /\ \/ /\ sock[d].wire # <<>> /\ sock'[d].wire = Tail(sock[d].wire)
          /\ \E k \in {"rsp", "fail"} :
                sock'[d].inq = Append(sock[d].inq, <<k, Head(sock[d].wire)>>)
       \/ /\ sock'[d].wire = <<>>
          /\ sock'[d].inq = Append(sock[d].inq, <<"eof", None>>)

(* Nothing is brought.                                                     *)
Changing(d) ==
    /\ SockSteps(d) /\ nmsg' = nmsg /\ sock'[d].inq = sock[d].inq
    /\ \/ /\ sock'[d].kerr = sock[d].kerr /\ sock'[d].wire = sock[d].wire
          /\ sock[d].up => sock'[d].up
       \/ /\ sock'[d].kerr /\ sock'[d].wire = <<>> /\ sock'[d].up = sock[d].up

(* What comes to a socket is last in what it holds, and an edge is         *)
(* reported.                                                               *)
LEMMA ArriveFacts ==
    ASSUME IInv, NEW d \in Sd, NEW x \in Item, Arrives(d, x)
    PROVE  /\ \A e \in Sd \ {d} : sock'[e] = sock[e]
           /\ sock'[d].open = sock[d].open /\ sock'[d].ptr = sock[d].ptr
           /\ sock'[d].server = sock[d].server /\ sock'[d].hup = sock[d].hup
           /\ sock'[d].rdy /\ sock'[d].full = sock[d].full
           /\ sock'[d].up = sock[d].up /\ sock'[d].kerr = sock[d].kerr
           /\ sock'[d].wire = sock[d].wire
           /\ sock'[d].inq = Append(sock[d].inq, x)
<1> DEFINE r == [sock[d] EXCEPT !.inq = Append(@, x), !.rdy = TRUE]
<1>1. sock \in [Sd -> SockRec] /\ sock[d] \in SockRec
    BY DEF IInv, TypeOK
<1>2. sock' = [sock EXCEPT ![d] = r]
    BY <1>1 DEF Arrives
<1>3. /\ r.open = sock[d].open /\ r.ptr = sock[d].ptr
      /\ r.server = sock[d].server /\ r.hup = sock[d].hup
      /\ r.rdy /\ r.full = sock[d].full
      /\ r.up = sock[d].up /\ r.kerr = sock[d].kerr
      /\ r.wire = sock[d].wire /\ r.inq = Append(sock[d].inq, x)
    BY <1>1 DEF SockRec
<1> HIDE DEF r
<1>4. sock'[d] = r /\ \A e \in Sd \ {d} : sock'[e] = sock[e]
    BY <1>1, <1>2
<1> QED BY <1>3, <1>4

(* A reset loses what the server had not answered.                         *)
LEMMA ResetFacts ==
    ASSUME IInv, NEW d \in Sd, Resets(d)
    PROVE  /\ \A e \in Sd \ {d} : sock'[e] = sock[e]
           /\ sock'[d].open = sock[d].open /\ sock'[d].ptr = sock[d].ptr
           /\ sock'[d].server = sock[d].server /\ sock'[d].hup = sock[d].hup
           /\ sock'[d].rdy /\ sock'[d].full = sock[d].full
           /\ sock'[d].up = sock[d].up /\ sock'[d].kerr
           /\ sock'[d].wire = <<>> /\ sock'[d].inq = sock[d].inq
<1> DEFINE r == [sock[d] EXCEPT !.kerr = TRUE, !.rdy = TRUE, !.wire = <<>>]
<1>1. sock \in [Sd -> SockRec] /\ sock[d] \in SockRec
    BY DEF IInv, TypeOK
<1>2. sock' = [sock EXCEPT ![d] = r]
    BY <1>1 DEF Resets
<1>3. /\ r.open = sock[d].open /\ r.ptr = sock[d].ptr
      /\ r.server = sock[d].server /\ r.hup = sock[d].hup
      /\ r.rdy /\ r.full = sock[d].full
      /\ r.up = sock[d].up /\ r.kerr
      /\ r.wire = <<>> /\ r.inq = sock[d].inq
    BY <1>1 DEF SockRec
<1> HIDE DEF r
<1>4. sock'[d] = r /\ \A e \in Sd \ {d} : sock'[e] = sock[e]
    BY <1>1, <1>2
<1> QED BY <1>3, <1>4

(* A server answers the first request it has.                              *)
LEMMA AnswersFacts ==
    ASSUME IInv, NEW d \in Sd, NEW k \in {"rsp", "fail"},
           sock[d].wire # <<>>, Answers(d, k)
    PROVE  /\ \A e \in Sd \ {d} : sock'[e] = sock[e]
           /\ sock'[d].open = sock[d].open /\ sock'[d].ptr = sock[d].ptr
           /\ sock'[d].server = sock[d].server /\ sock'[d].hup = sock[d].hup
           /\ sock'[d].rdy /\ sock'[d].full = sock[d].full
           /\ sock'[d].up = sock[d].up /\ sock'[d].kerr = sock[d].kerr
           /\ sock'[d].wire = Tail(sock[d].wire)
           /\ sock'[d].inq = Append(sock[d].inq, <<k, Head(sock[d].wire)>>)
<1> DEFINE r == [sock[d] EXCEPT !.inq = Append(@, <<k, Head(sock[d].wire)>>),
                                !.wire = Tail(@), !.rdy = TRUE]
<1>1. sock \in [Sd -> SockRec] /\ sock[d] \in SockRec
    BY DEF IInv, TypeOK
<1>2. sock' = [sock EXCEPT ![d] = r]
    BY <1>1 DEF Answers
<1>3. /\ r.open = sock[d].open /\ r.ptr = sock[d].ptr
      /\ r.server = sock[d].server /\ r.hup = sock[d].hup
      /\ r.rdy /\ r.full = sock[d].full
      /\ r.up = sock[d].up /\ r.kerr = sock[d].kerr
      /\ r.wire = Tail(sock[d].wire)
      /\ r.inq = Append(sock[d].inq, <<k, Head(sock[d].wire)>>)
    BY <1>1 DEF SockRec
<1> HIDE DEF r
<1>4. sock'[d] = r /\ \A e \in Sd \ {d} : sock'[e] = sock[e]
    BY <1>1, <1>2
<1> QED BY <1>3, <1>4

(* Nothing happens but the passing of time.                                *)
Resting == LoopStill /\ sock' = sock /\ nmsg' = nmsg

(* Every action of the peers is one of these.                              *)
LEMMA PeersEffect ==
    ASSUME IInv, Peers
    PROVE  Resting \/ \E d \in Sd : Asking(d) \/ Replying(d) \/ Changing(d)
<1>1. CASE ClientConnects
    BY <1>1 DEF ClientConnects, Resting, LoopStill, tables, requests, control, history
<1>2. ASSUME NEW d \in Sd, NEW k \in CLIENT_ITEMS, ClientSends(d, k)
      PROVE  Asking(d)
  <2>1. /\ IsClientSd(d) /\ k \in {"get", "set"} /\ nmsg < MaxMsg
        /\ <<"eof", None>> \notin ToSet(sock[d].inq)
        /\ nmsg' = nmsg + 1 /\ Arrives(d, <<k, nmsg + 1>>) /\ LoopStill
      BY <1>2 DEF ClientSends, LoopStill, tables, requests, control, history
  <2>2. nmsg + 1 \in Msg
      BY <2>1, ConstantsAssumption DEF IInv, TypeOK, Msg
  <2>3. <<k, nmsg + 1>> \in Item
      BY <2>1, <2>2 DEF Item
  <2> QED BY <2>1, <2>3, ArriveFacts DEF Asking, SockSteps, IsClientSd
<1>3. ASSUME NEW d \in Sd, NEW k \in CLIENT_ITEMS, ClientStops(d, k)
      PROVE  Asking(d)
  <2>1. /\ IsClientSd(d) /\ k \in {"quit", "eof"}
        /\ <<"eof", None>> \notin ToSet(sock[d].inq)
        /\ nmsg' = nmsg /\ Arrives(d, <<k, None>>) /\ LoopStill
      BY <1>3 DEF ClientStops, LoopStill, tables, requests, control, history
  <2>2. <<k, None>> \in Item
      BY <2>1 DEF Item
  <2> QED BY <2>1, <2>2, ArriveFacts DEF Asking, SockSteps, IsClientSd
<1>4. ASSUME NEW d \in Sd, ClientResets(d) \/ ServerResets(d) \/ ConnectFails(d)
      PROVE  Changing(d)
  <2>1. Resets(d) /\ LoopStill /\ nmsg' = nmsg
      BY <1>4 DEF ClientResets, ServerResets, ConnectFails, LoopStill, tables, requests,
                  control, history
  <2> QED BY <2>1, ResetFacts DEF Changing, SockSteps
<1>5. ASSUME NEW d \in Sd, ServerReplies(d) \/ ServerRepliesEarly(d) \/ ServerFails(d)
      PROVE  Replying(d)
  <2>1. /\ IsServerSd(d) /\ sock[d].wire # <<>> /\ LoopStill /\ nmsg' = nmsg
        /\ \E k \in {"rsp", "fail"} : Answers(d, k)
      BY <1>5 DEF ServerReplies, ServerRepliesEarly, ServerFails, LoopStill, tables,
                  requests, control, history, bounds
  <2> QED BY <2>1, AnswersFacts DEF Replying, SockSteps
<1>6. ASSUME NEW d \in Sd, ServerCloses(d)
      PROVE  Replying(d)
  <2> DEFINE r == [sock[d] EXCEPT !.inq = Append(@, <<"eof", None>>),
                                  !.wire = <<>>, !.rdy = TRUE]
  <2>1. /\ IsServerSd(d) /\ LoopStill /\ nmsg' = nmsg
        /\ sock' = [sock EXCEPT ![d].inq = Append(@, <<"eof", None>>),
                                ![d].wire = <<>>, ![d].rdy = TRUE]
      BY <1>6 DEF ServerCloses, LoopStill, tables, requests, control, history
  <2>2. sock \in [Sd -> SockRec] /\ sock[d] \in SockRec
      BY DEF IInv, TypeOK
  <2>3. sock' = [sock EXCEPT ![d] = r]
      BY <2>1, <2>2
  <2>4. /\ r.open = sock[d].open /\ r.ptr = sock[d].ptr
        /\ r.server = sock[d].server /\ r.hup = sock[d].hup
        /\ r.rdy /\ r.full = sock[d].full
        /\ r.up = sock[d].up /\ r.kerr = sock[d].kerr
        /\ r.wire = <<>> /\ r.inq = Append(sock[d].inq, <<"eof", None>>)
      BY <2>2 DEF SockRec
  <2> HIDE DEF r
  <2>5. sock'[d] = r /\ \A e \in Sd \ {d} : sock'[e] = sock[e]
      BY <2>2, <2>3
  <2> QED BY <2>1, <2>4, <2>5 DEF Replying, SockSteps
<1>7. ASSUME NEW d \in Sd, ConnectSucceeds(d)
      PROVE  Changing(d)
  <2> DEFINE r == [sock[d] EXCEPT !.up = TRUE, !.rdy = TRUE]
  <2>1. /\ LoopStill /\ nmsg' = nmsg
        /\ sock' = [sock EXCEPT ![d].up = TRUE, ![d].rdy = TRUE]
      BY <1>7 DEF ConnectSucceeds, LoopStill, tables, requests, control, history, bounds
  <2>2. sock \in [Sd -> SockRec] /\ sock[d] \in SockRec
      BY DEF IInv, TypeOK
  <2>3. sock' = [sock EXCEPT ![d] = r]
      BY <2>1, <2>2
  <2>4. /\ r.open = sock[d].open /\ r.ptr = sock[d].ptr
        /\ r.server = sock[d].server /\ r.hup = sock[d].hup
        /\ r.rdy /\ r.full = sock[d].full
        /\ r.up /\ r.kerr = sock[d].kerr
        /\ r.wire = sock[d].wire /\ r.inq = sock[d].inq
      BY <2>2 DEF SockRec
  <2> HIDE DEF r
  <2>5. sock'[d] = r /\ \A e \in Sd \ {d} : sock'[e] = sock[e]
      BY <2>2, <2>3
  <2> QED BY <2>1, <2>4, <2>5 DEF Changing, SockSteps
<1>8. ASSUME NEW d \in Sd, SocketDrains(d)
      PROVE  Changing(d)
  <2> DEFINE r == [sock[d] EXCEPT !.full = FALSE, !.rdy = TRUE]
  <2>1. /\ LoopStill /\ nmsg' = nmsg
        /\ sock' = [sock EXCEPT ![d].full = FALSE, ![d].rdy = TRUE]
      BY <1>8 DEF SocketDrains, LoopStill, tables, requests, control, history, bounds
  <2>2. sock \in [Sd -> SockRec] /\ sock[d] \in SockRec
      BY DEF IInv, TypeOK
  <2>3. sock' = [sock EXCEPT ![d] = r]
      BY <2>1, <2>2
  <2>4. /\ r.open = sock[d].open /\ r.ptr = sock[d].ptr
        /\ r.server = sock[d].server /\ r.hup = sock[d].hup
        /\ r.rdy
        /\ r.up = sock[d].up /\ r.kerr = sock[d].kerr
        /\ r.wire = sock[d].wire /\ r.inq = sock[d].inq
      BY <2>2 DEF SockRec
  <2> HIDE DEF r
  <2>5. sock'[d] = r /\ \A e \in Sd \ {d} : sock'[e] = sock[e]
      BY <2>2, <2>3
  <2> QED BY <2>1, <2>4, <2>5 DEF Changing, SockSteps
<1> QED BY <1>1, <1>2, <1>3, <1>4, <1>5, <1>6, <1>7, <1>8 DEF Peers

-----------------------------------------------------------------------------

(* server_pool_conn took a connection there was, with a socket.            *)
ReservingOld == ReservingLru /\ pc' = "enqueue"

(* What one step does.                                                     *)
LoopDoes ==
    \/ Idle
    \/ \E c \in Conn : Closing(c)
    \/ \E m \in Msg : Settling(m)
    \/ \E c \in Conn, d \in Sd : Admitting(c, d)
    \/ \E m \in Msg : Taking(m)
    \/ \E m \in Msg : Responding(m)
    \/ \E c \in Conn, d \in Sd \cup {None} : ReservingNew(c, d)
    \/ ReservingOld
    \/ Refusing(scur)
    \/ Erring(cmsg)
    \/ Enqueuing(cmsg, scur)
    \/ \E m \in Msg : Answering(m)
    \/ \E m \in Msg : Sending(m)
    \/ \E m \in Msg : Halving(m)

(* What the peers do.                                                      *)
PeersDo == Resting \/ \E d \in Sd : Asking(d) \/ Replying(d) \/ Changing(d)

(* Every handler of the loop is one of the steps above: what the           *)
(* invariants below are proved from.                                       *)
LEMMA LoopEffect == ASSUME IInv, Structures, Sockets, Loop PROVE LoopDoes
<1>1. CASE event_wait \/ event_wait_timeout \/ EventsHandled \/ ProxyAgain
    BY <1>1, WaitEffect, TurnEffect DEF LoopDoes
<1>2. CASE core_core \/ CheckConn \/ core_timeout
    BY <1>2, CoreCoreEffect, CheckEffect, TimeoutEffect DEF LoopDoes
<1>3. CASE proxy_accept
    BY <1>3, AcceptEffect DEF LoopDoes
<1>4. CASE Recv
    BY <1>4, RecvIdle, TakeEffect, SwallowEffect, RespondEffect DEF Recv, LoopDoes
<1>5. CASE Forward
  <2>1. ASSUME NEW s \in Server, ForwardOnLru(s)
        PROVE  ReservingOld
    <3>1. ReservingLru /\ (pc' = "reject" => \E c \in Conn : conn[c].err /\ Attached(c))
        BY <2>1, LruEffect
    <3>2. pc = "forward" /\ pc' \in {"reject", "enqueue"}
        BY <3>1 DEF ReservingLru, Reserving
    <3> QED BY <3>1, <3>2 DEF Structures, ReservingOld
  <2>2. ASSUME NEW s \in Server, NEW o \in Outcomes, ForwardOnNew(s, o)
        PROVE  \E c \in Conn, d \in Sd \cup {None} : ReservingNew(c, d)
      BY <2>2, NewEffect
  <2>3. ForwardRejected => Refusing(scur)
      BY RefuseEffect
  <2>4. req_forward_error => Erring(cmsg)
      BY ErrEffect
  <2>5. ForwardEnqueue => Enqueuing(cmsg, scur)
      BY EnqueueEffect
  <2> QED BY <1>5, <2>1, <2>2, <2>3, <2>4, <2>5 DEF Forward, LoopDoes
<1>6. CASE Send
    BY <1>6, SendIdle, AnswerEffect, SendEffect, HalveEffect DEF Send, LoopDoes
<1> QED BY <1>1, <1>2, <1>3, <1>4, <1>5, <1>6 DEF Loop

(* The wiring stays when no connection gets another socket.                *)
LEMMA SocketsKept ==
    ASSUME IInv, Sockets, nsd' = nsd,
           \A k \in Conn : Attached(k)' => /\ Attached(k)
                                           /\ conn'[k].client = conn[k].client
                                           /\ conn'[k].sd = conn[k].sd,
           \A k \in Conn : Attached(k)' /\ conn[k].sd # None =>
              /\ sock'[conn[k].sd].open = sock[conn[k].sd].open
              /\ sock'[conn[k].sd].ptr = sock[conn[k].sd].ptr
              /\ sock'[conn[k].sd].server = sock[conn[k].sd].server,
           \A d \in Sd : d > nsd => asked'[d] = asked[d] /\ answered'[d] = answered[d]
    PROVE  Sockets'
<1> QED BY DEF Sockets

(* Nor when one gets a new one.                                            *)
LEMMA SocketsOpened ==
    ASSUME IInv, Sockets, NEW c \in Conn, NEW d, asked' = asked, answered' = answered,
           Opening(c, d),
           \A k \in Conn \ {c} : /\ conn'[k].owner = conn[k].owner
                                 /\ conn'[k].client = conn[k].client
                                 /\ conn'[k].sd = conn[k].sd
    PROVE  Sockets'
<1>1. nsd \in Nat /\ Sd \subseteq Nat
    BY ConstantsAssumption DEF IInv, TypeOK, Sd
<1>2. nsd' \in Nat /\ nsd <= nsd'
  <2>1. nsd' = nsd \/ nsd' = nsd + 1
      BY DEF Opening
  <2> QED BY <1>1, <2>1
<1>3. ASSUME NEW k \in Conn, Attached(k)', conn'[k].sd # None
      PROVE  /\ sock'[conn'[k].sd].open /\ sock'[conn'[k].sd].ptr = k
             /\ (sock'[conn'[k].sd].server <=> ~conn'[k].client)
             /\ conn'[k].sd <= nsd'
  <2>1. CASE k = c
    <3>1. conn'[c].sd = d /\ d # None
        BY <1>3, <2>1 DEF Opening
    <3>2. d \in Sd /\ nsd' = d
        BY <3>1 DEF Opening
    <3>3. d <= nsd'
        BY <1>1, <3>2
    <3> QED BY <2>1, <3>1, <3>3 DEF Opening
  <2>2. CASE k # c
    <3> DEFINE e == conn[k].sd
    <3>1. conn'[k].client = conn[k].client /\ conn'[k].sd = e /\ Attached(k)
        BY <1>3, <2>2 DEF Attached
    <3>2. /\ sock[e].open /\ sock[e].ptr = k
          /\ sock[e].server <=> ~conn[k].client
          /\ e <= nsd /\ e # None
        BY <1>3, <3>1 DEF Sockets
    <3>3. e \in Sd
        BY <3>2 DEF IInv, TypeOK, ConnRec
    <3> HIDE DEF e
    <3>4. sock'[e] = sock[e]
      <4>1. CASE d = None
          BY <4>1 DEF Opening
      <4>2. CASE d # None
        <5>1. d \in Sd /\ d = nsd + 1 /\ \A f \in Sd \ {d} : sock'[f] = sock[f]
            BY <4>2 DEF Opening
        <5>2. e # d
            BY <1>1, <3>2, <3>3, <5>1
        <5> QED BY <3>3, <5>1, <5>2
      <4> QED BY <4>1, <4>2
    <3>5. e <= nsd'
      <4>1. e \in Nat
          BY <1>1, <3>3
      <4>2. e <= nsd
          BY <3>2
      <4> QED BY <1>1, <1>2, <4>1, <4>2
    <3> QED BY <3>1, <3>2, <3>4, <3>5
  <2> QED BY <2>1, <2>2
<1>4. ASSUME NEW e \in Sd, e > nsd'
      PROVE  asked'[e] = <<>> /\ answered'[e] = <<>>
  <2>1. e > nsd
      BY <1>1, <1>2, <1>4
  <2> QED BY <2>1 DEF Sockets
<1> QED BY <1>3, <1>4, Zenon DEF Sockets

-----------------------------------------------------------------------------

(* What the handlers rely on between structures and sockets.               *)
Wiring == Sockets /\ Structures /\ Stage

(* The sockets in use are among those opened.                              *)
LEMMA OlderSocket ==
    ASSUME IInv, Sockets, NEW c \in Conn, Attached(c), conn[c].sd \in Sd
    PROVE  \A d \in Sd : d > nsd => d # conn[c].sd
<1>1. conn[c].sd <= nsd
    BY DEF Sockets, Sd, None
<1>2. nsd \in Nat /\ Sd \subseteq Nat
    BY ConstantsAssumption DEF IInv, TypeOK, Sd
<1>3. conn[c].sd \in Nat
    BY <1>2
<1>4. ASSUME NEW d \in Sd, d > nsd, d = conn[c].sd PROVE FALSE
  <2>1. d \in Nat /\ nsd \in Nat /\ d > nsd /\ d <= nsd
      BY <1>1, <1>2, <1>3, <1>4
  <2> QED BY ONLY <2>1
<1> QED BY <1>4

(* Every step keeps the sockets and the connections in agreement.          *)
LEMMA SocketsStep ==
    ASSUME IInv, IInv', Wiring, LoopDoes \/ PeersDo
    PROVE  Sockets'
<1>1. Sockets
    BY DEF Wiring
<1>2. conn \in [Conn -> ConnRec] /\ sock \in [Sd -> SockRec]
      /\ asked \in [Sd -> Seq(Msg)]
      /\ answered \in [Sd -> Seq(Msg \X (Msg \cup {ErrorReply}))]
    BY DEF IInv, TypeOK
<1>3. \A k \in Conn : conn[k].sd # None => conn[k].sd \in Sd
    BY <1>2 DEF ConnRec
<1>4. ASSUME nsd' = nsd, asked' = asked, answered' = answered,
             \A k \in Conn : Kept(k),
             \A d \in Sd : /\ sock'[d].open = sock[d].open
                           /\ sock'[d].ptr = sock[d].ptr
                           /\ sock'[d].server = sock[d].server
      PROVE  Sockets'
    BY <1>1, <1>3, <1>4, SocketsKept DEF Kept, Attached
<1>5. CASE Idle
    BY <1>4, <1>5 DEF Idle, SockKept
<1>6. ASSUME NEW c \in Conn, Closing(c)
      PROVE  Sockets'
  <2>1. /\ Attached(c) /\ conn'[c].owner = None
        /\ \A k \in Conn \ {c} : conn'[k] = conn[k]
        /\ \A d \in Sd : d # conn[c].sd => sock'[d] = sock[d]
        /\ nsd' = nsd /\ asked' = asked /\ answered' = answered
      BY <1>6 DEF Closing, Closes
  <2>2. ASSUME NEW k \in Conn, Attached(k)'
        PROVE  /\ Attached(k) /\ conn'[k].client = conn[k].client
               /\ conn'[k].sd = conn[k].sd /\ k # c
      BY <2>1, <2>2 DEF Attached
  <2>3. ASSUME NEW k \in Conn, Attached(k)', conn[k].sd # None
        PROVE  sock'[conn[k].sd] = sock[conn[k].sd]
      BY <1>1, <1>3, <2>1, <2>2, <2>3, OwnSocket
  <2> QED BY <1>1, <2>1, <2>2, <2>3, SocketsKept
<1>7. ASSUME NEW m \in Msg, Settling(m)
      PROVE  Sockets'
    BY <1>1, <1>7, SocketsKept DEF Settling, Attached
<1>8. ASSUME NEW c \in Conn, NEW d \in Sd, Admitting(c, d)
      PROVE  Sockets'
  <2>1. d # None
      BY DEF Sd, None
  <2>2. Opening(c, d)
      BY <1>8, <2>1 DEF Admitting, Opening
  <2>3. /\ asked' = asked /\ answered' = answered
        /\ \A k \in Conn \ {c} : conn'[k] = conn[k]
      BY <1>8 DEF Admitting
  <2> QED BY <1>1, <2>2, <2>3, SocketsOpened
<1>9. ASSUME NEW c \in Conn, NEW d \in Sd \cup {None}, ReservingNew(c, d)
      PROVE  Sockets'
  <2>1. /\ Opening(c, d) /\ asked' = asked /\ answered' = answered
        /\ conn'[cur].client = conn[cur].client /\ conn'[cur].owner = conn[cur].owner
        /\ conn'[cur].sd = conn[cur].sd
        /\ \A k \in Conn \ {c, cur} : conn'[k] = conn[k]
      BY <1>9 DEF ReservingNew, Reserving
  <2>2. \A k \in Conn \ {c} : /\ conn'[k].owner = conn[k].owner
                              /\ conn'[k].client = conn[k].client
                              /\ conn'[k].sd = conn[k].sd
      BY <2>1
  <2> QED BY <1>1, <2>1, <2>2, SocketsOpened
<1>10. CASE ReservingOld
  <2>1. /\ asked' = asked /\ answered' = answered /\ sock' = sock /\ nsd' = nsd
        /\ conn'[cur].client = conn[cur].client /\ conn'[cur].owner = conn[cur].owner
        /\ conn'[cur].sd = conn[cur].sd
        /\ \A k \in Conn \ {cur} : conn'[k] = conn[k]
      BY <1>10 DEF ReservingOld, ReservingLru, Reserving
  <2>2. \A k \in Conn : /\ conn'[k].owner = conn[k].owner
                        /\ conn'[k].client = conn[k].client
                        /\ conn'[k].sd = conn[k].sd
      BY <2>1
  <2> QED BY <1>1, <2>1, <2>2, SocketsKept DEF Attached
<1>11. CASE Refusing(scur)
  <2>1. /\ asked' = asked /\ answered' = answered /\ sock' = sock /\ nsd' = nsd
        /\ conn'[scur].owner = None
        /\ \A k \in Conn \ {scur} : conn'[k] = conn[k]
      BY <1>11 DEF Refusing
  <2>2. \A k \in Conn : Attached(k)' => /\ Attached(k)
                                        /\ conn'[k].client = conn[k].client
                                        /\ conn'[k].sd = conn[k].sd
      BY <2>1 DEF Attached
  <2> QED BY <1>1, <2>1, <2>2, SocketsKept
<1>12. CASE Erring(cmsg)
    BY <1>4, <1>12 DEF Erring, SocksSame, SockAlike
<1>13. ASSUME NEW c, NEW iq, NEW oq, nsd' = nsd, Requeued(c, iq, oq),
              \A d \in Sd : d > nsd => asked'[d] = asked[d] /\ answered'[d] = answered[d],
              \A d \in Sd : SockAlike(sock'[d], sock[d])
       PROVE  Sockets'
  <2>1. \A k \in Conn : /\ conn'[k].owner = conn[k].owner
                        /\ conn'[k].client = conn[k].client
                        /\ conn'[k].sd = conn[k].sd
      BY <1>13 DEF Requeued, Kept
  <2> QED BY <1>1, <1>3, <1>13, <2>1, SocketsKept DEF Attached, SockAlike
<1>14. CASE Enqueuing(cmsg, scur)
    BY <1>13, <1>14 DEF Enqueuing, SocksSame
<1>15. ASSUME NEW p \in Msg, Answering(p)
       PROVE  Sockets'
  <2> DEFINE y == Append(answered[conn[cur].sd],
                         <<p, IF msg[p].error THEN ErrorReply ELSE msg[p].peer>>)
  <2>1. /\ cur \in Conn /\ Attached(cur) /\ conn[cur].sd \in Sd
        /\ answered' = [answered EXCEPT ![conn[cur].sd] = y]
        /\ nsd' = nsd /\ asked' = asked /\ sock' = sock
        /\ Requeued(cur, conn[cur].imsg_q, Tail(conn[cur].omsg_q))
      BY <1>2, <1>15 DEF Answering, Clients
  <2> HIDE DEF y
  <2>2. \A d \in Sd : d > nsd => answered'[d] = answered[d]
      BY <1>1, <1>2, <2>1, OlderSocket
  <2>3. \A d \in Sd : SockAlike(sock'[d], sock[d])
      BY <2>1 DEF SockAlike
  <2> QED BY <1>13, <2>1, <2>2, <2>3
<1>16. ASSUME NEW m \in Msg, Taking(m)
       PROVE  Sockets'
  <2> DEFINE y == Append(asked[conn[cur].sd], m)
  <2>1. /\ cur \in Conn /\ Attached(cur) /\ pc = "recv"
        /\ asked' = asked \/ asked' = [asked EXCEPT ![conn[cur].sd] = y]
        /\ nsd' = nsd /\ answered' = answered /\ conn' = conn
        /\ \A d \in Sd : SockAlike(sock'[d], sock[d])
      BY <1>2, <1>16 DEF Taking, Clients, SocksRead
  <2>2. conn[cur].sd \in Sd
      BY <2>1, CurFacts DEF Handling
  <2> HIDE DEF y
  <2>3. \A d \in Sd : d > nsd => asked'[d] = asked[d]
      BY <1>1, <1>2, <2>1, <2>2, OlderSocket
  <2> QED BY <1>1, <1>3, <2>1, <2>3, SocketsKept DEF Attached, SockAlike
<1>17. ASSUME NEW m \in Msg, Responding(m) PROVE Sockets'
    BY <1>13, <1>17 DEF Responding, SocksRead
<1>18. ASSUME NEW m \in Msg, Sending(m) PROVE Sockets'
    BY <1>13, <1>18 DEF Sending, Writes, Wired
<1>19. ASSUME NEW m \in Msg, Halving(m) PROVE Sockets'
    BY <1>4, <1>19 DEF Halving, Writes, Wired, SockAlike
<1>20. CASE Resting
    BY <1>1, <1>20, SocketsKept DEF Resting, LoopStill, Attached
<1>21. ASSUME NEW d \in Sd, SockSteps(d) PROVE Sockets'
  <2>1. \A e \in Sd : /\ sock'[e].open = sock[e].open /\ sock'[e].ptr = sock[e].ptr
                      /\ sock'[e].server = sock[e].server
      BY <1>21 DEF SockSteps
  <2> QED BY <1>1, <1>3, <1>21, <2>1, SocketsKept DEF SockSteps, LoopStill, Attached
<1>22. CASE PeersDo
    BY <1>20, <1>21, <1>22 DEF PeersDo, Asking, Replying, Changing
<1> QED BY <1>5, <1>6, <1>7, <1>8, <1>9, <1>10, <1>11, <1>12, <1>14, <1>15, <1>16, <1>17,
           <1>18, <1>19, <1>22 DEF LoopDoes

-----------------------------------------------------------------------------
(* What Structures asks of one connection.                                 *)
Fit(k) == Attached(k) =>
            /\ conn[k].client => conn[k].imsg_q = <<>>
            /\ conn[k].sd = None => conn[k].imsg_q = <<>> /\ conn[k].omsg_q = <<>>
            /\ conn[k].done \/ conn[k].err => \/ pc = "check" /\ cur = k
                                              \/ pc = "reject" /\ scur = k

(* A structure that is not touched, and whose flags are clear, stays fit.  *)
LEMMA FitKept ==
    ASSUME Structures, NEW k \in Conn, Kept(k),
           Attached(k) => ~conn'[k].done /\ ~conn'[k].err
    PROVE  Fit(k)'
  BY DEF Structures, Fit, Kept, Attached

(* Every step leaves the structures fit: what sets done or err goes on to  *)
(* core_close.                                                             *)
LEMMA StructuresStep ==
    ASSUME IInv, IInv', Wiring, LoopDoes \/ PeersDo
    PROVE  Structures'
<1>1. Structures
    BY DEF Wiring
<1>2. SUFFICES ASSUME NEW k \in Conn PROVE Fit(k)'
    BY DEF Structures, Fit
<1>3. pc \notin {"check", "reject"} => (Attached(k) => ~conn[k].done /\ ~conn[k].err)
    BY <1>1 DEF Structures
<1>4. ASSUME conn'[k] = conn[k], Attached(k) => ~conn[k].done /\ ~conn[k].err
      PROVE  Fit(k)'
    BY <1>1, <1>4, FitKept DEF Kept
<1>5. ASSUME FlagsKept, Kept(k), pc \notin {"check", "reject"}
      PROVE  Fit(k)'
    BY <1>1, <1>3, <1>5, FitKept DEF FlagsKept
<1>6. CASE Idle
    BY <1>1, <1>6 DEF Idle, Fit, Structures, Kept, Attached
<1>7. ASSUME NEW c \in Conn, Closing(c)
      PROVE  Fit(k)'
  <2>1. /\ conn'[c].owner = None
        /\ k # c => conn'[k] = conn[k]
        /\ k # c /\ Attached(k) => ~conn[k].done /\ ~conn[k].err
      BY <1>7 DEF Closing, Closes
  <2> QED BY <1>4, <2>1 DEF Fit, Attached
<1>8. ASSUME NEW m \in Msg, Settling(m)
      PROVE  Fit(k)'
    BY <1>3, <1>4, <1>8 DEF Settling
<1>9. ASSUME NEW c \in Conn, NEW d \in Sd, Admitting(c, d)
      PROVE  Fit(k)'
  <2>1. CASE k = c
    <3>1. d # None
        BY DEF None, Sd
    <3>2. /\ conn'[c].imsg_q = <<>> /\ ~conn'[c].done /\ ~conn'[c].err
          /\ conn'[c].sd = d
        BY <1>9 DEF Admitting
    <3> QED BY <2>1, <3>1, <3>2 DEF Fit
  <2>2. CASE k # c
      BY <1>3, <1>4, <1>9, <2>2 DEF Admitting
  <2> QED BY <2>1, <2>2
<1>10. ASSUME Reserving, k = cur
       PROVE  Fit(k)'
  <2>1. /\ cur \in Clients /\ pc = "forward" /\ conn[k].sd \in Sd
      BY <1>10, CurFacts DEF Reserving, Handling
  <2>2. conn[k].client /\ Attached(k) /\ conn[k].sd # None
      BY <1>10, <2>1 DEF Clients, None, Sd
  <2> QED BY <1>1, <1>3, <1>10, <2>1, <2>2 DEF Reserving, Fit, Structures
<1>11. ASSUME NEW c \in Conn, NEW d \in Sd \cup {None}, ReservingNew(c, d)
       PROVE  Fit(k)'
  <2>1. CASE k = c
    <3>1. /\ conn'[c].imsg_q = <<>> /\ conn'[c].omsg_q = <<>> /\ ~conn'[c].done
          /\ scur' = c /\ (conn'[c].err => pc' = "reject")
        BY <1>11 DEF ReservingNew, Opening
    <3> QED BY <2>1, <3>1 DEF Fit
  <2>2. CASE k = cur
      BY <1>10, <1>11, <2>2 DEF ReservingNew
  <2>3. CASE k # c /\ k # cur
      BY <1>3, <1>4, <1>11, <2>3 DEF ReservingNew, Reserving
  <2> QED BY <2>1, <2>2, <2>3
<1>12. CASE ReservingOld
  <2>1. CASE k = cur
      BY <1>10, <1>12, <2>1 DEF ReservingOld, ReservingLru
  <2>2. CASE k # cur
      BY <1>3, <1>4, <1>12, <2>2 DEF ReservingOld, ReservingLru, Reserving
  <2> QED BY <2>1, <2>2
<1>13. CASE Refusing(scur)
  <2>1. CASE k = scur
      BY <1>13, <2>1 DEF Refusing, Fit, Attached
  <2>2. CASE k # scur
    <3>1. conn'[k] = conn[k] /\ pc = "reject"
        BY <1>13, <2>2 DEF Refusing
    <3>2. Attached(k) => ~conn[k].done /\ ~conn[k].err
        BY <1>1, <2>2, <3>1 DEF Structures
    <3> QED BY <1>4, <3>1, <3>2
  <2> QED BY <2>1, <2>2
<1>14. CASE Erring(cmsg)
    BY <1>5, <1>14 DEF Erring
<1>15. ASSUME NEW c \in Conn, NEW iq, NEW oq, FlagsKept, Requeued(c, iq, oq),
              pc \notin {"check", "reject"}, conn[c].client => iq = <<>>,
              conn[c].sd # None
       PROVE  Fit(k)'
  <2>1. CASE k = c
      BY <1>3, <1>15, <2>1 DEF Requeued, FlagsKept, Fit, Attached
  <2>2. CASE k # c
      BY <1>5, <1>15, <2>2 DEF Requeued
  <2> QED BY <2>1, <2>2
<1>16. pc \in Handling => cur \in Conn /\ conn[cur].sd # None
    BY CurFacts DEF Sd, None
<1>17. CASE Enqueuing(cmsg, scur)
  <2>1. /\ scur \in Conn /\ ~conn[scur].client /\ Attached(scur) /\ pc = "enqueue"
      BY <1>17 DEF Enqueuing, Servers
  <2>2. conn[scur].sd # None
      BY <2>1 DEF IInv, Control
  <2> QED BY <1>15, <1>17, <2>1, <2>2 DEF Enqueuing
<1>18. ASSUME NEW m \in Msg, Answering(m)
       PROVE  Fit(k)'
  <2>1. /\ pc = "send" /\ cur \in Conn /\ Attached(cur) /\ conn[cur].client
        /\ FlagsKept /\ Requeued(cur, conn[cur].imsg_q, Tail(conn[cur].omsg_q))
      BY <1>18 DEF Answering, Clients
  <2>2. conn[cur].imsg_q = <<>>
      BY <1>1, <2>1 DEF Structures
  <2> QED BY <1>15, <1>16, <2>1, <2>2 DEF Handling
<1>19. ASSUME NEW m \in Msg, Taking(m) PROVE Fit(k)'
    BY <1>3, <1>4, <1>19 DEF Taking
<1>20. ASSUME NEW m \in Msg, Responding(m) PROVE Fit(k)'
  <2>1. /\ pc = "recv" /\ cur \in Conn /\ ~conn[cur].client
        /\ FlagsKept /\ Requeued(cur, conn[cur].imsg_q, Tail(conn[cur].omsg_q))
      BY <1>20 DEF Responding, Servers
  <2> QED BY <1>15, <1>16, <2>1 DEF Handling
<1>21. ASSUME NEW m \in Msg, Sending(m) PROVE Fit(k)'
  <2> DEFINE oq == IF msg[m].noreply THEN conn[cur].omsg_q
                   ELSE Append(conn[cur].omsg_q, m)
  <2>1. /\ pc = "send" /\ cur \in Conn /\ ~conn[cur].client
        /\ FlagsKept /\ Requeued(cur, Tail(conn[cur].imsg_q), oq)
      BY <1>21 DEF Sending, Writes, Servers
  <2> HIDE DEF oq
  <2> QED BY <1>15, <1>16, <2>1 DEF Handling
<1>22. ASSUME NEW m \in Msg, Halving(m) PROVE Fit(k)'
    BY <1>5, <1>22 DEF Halving, Writes
<1>23. ASSUME LoopStill PROVE Fit(k)'
    BY <1>1, <1>23 DEF LoopStill, Structures, Fit, Attached
<1>24. CASE PeersDo
    BY <1>23, <1>24 DEF PeersDo, Asking, Replying, Changing, Resting, SockSteps
<1> QED BY <1>6, <1>7, <1>8, <1>9, <1>11, <1>12, <1>13, <1>14, <1>17, <1>18, <1>19,
           <1>20, <1>21, <1>22, <1>24 DEF LoopDoes

(* Every step keeps the request being forwarded to the stages of           *)
(* req_forward.                                                            *)
LEMMA StageStep ==
    ASSUME IInv, IInv', Wiring, LoopDoes \/ PeersDo
    PROVE  Stage'
<1>1. cmsg # None => pc \in Forwarding
    BY DEF Wiring, Stage
<1>2. CASE \/ Idle \/ \E c \in Conn : Closing(c)
           \/ \E m \in Msg : Settling(m)
           \/ \E c \in Conn, d \in Sd : Admitting(c, d)
    BY <1>1, <1>2 DEF Idle, Closing, Settling, Admitting, Stage, Forwarding
<1>3. CASE \/ \E m \in Msg : Responding(m) \/ Answering(m) \/ Sending(m) \/ Halving(m)
           \/ Erring(cmsg) \/ Enqueuing(cmsg, scur)
    BY <1>1, <1>3 DEF Responding, Answering, Sending, Halving, Writes, Erring, Enqueuing,
                      Stage, Forwarding
<1>4. CASE \/ \E m \in Msg : Taking(m)
           \/ \E c \in Conn, d \in Sd \cup {None} : ReservingNew(c, d)
           \/ ReservingOld \/ Refusing(scur)
    BY <1>4 DEF Taking, ReservingNew, ReservingOld, ReservingLru, Reserving, Refusing,
                Stage, Forwarding
<1>5. CASE PeersDo
    BY <1>1, <1>5 DEF PeersDo, Asking, Replying, Changing, Resting, SockSteps, LoopStill,
                      Stage
<1> QED BY <1>2, <1>3, <1>4, <1>5 DEF LoopDoes

(* The proxy starts with no connection.                                    *)
LEMMA InitWiring == Init => Wiring
<1> SUFFICES ASSUME Init PROVE Wiring
    OBVIOUS
<1>1. \A c \in Conn : conn[c].owner = None
    BY DEF Init, NoConn
<1> QED BY <1>1 DEF Init, Wiring, Sockets, Structures, Stage, Attached

(* Every step of the proxy, in a state that is wired, is one of the        *)
(* effects.                                                                *)
LEMMA NextEffect == ASSUME IInv, Wiring, Next PROVE LoopDoes \/ PeersDo
  BY LoopEffect, PeersEffect DEF Wiring, Next, PeersDo

(* A step that changes nothing keeps the wiring.                           *)
LEMMA WiringStill == ASSUME Wiring, UNCHANGED vars PROVE Wiring'
  BY DEF Wiring, Sockets, Structures, Stage, Attached, vars, tables, control, history,
         bounds

=============================================================================
