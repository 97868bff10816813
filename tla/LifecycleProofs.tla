--------------------------- MODULE LifecycleProofs --------------------------
(***************************************************************************)
(* Proofs about Lifecycle, for any configuration, limit of descriptors and *)
(* bounds.  The invariant IInv says where the process is: it starts, and a *)
(* failure finds what it unwinds (Started, with the depth of the call that *)
(* is next); it unwinds (Undone, by step); it stops (Stopped); or SIGINT   *)
(* ended it.  Each comes with what there is of blocks, descriptors,        *)
(* structures and the pid file.  First what the programs of main and of    *)
(* the error paths are, then what the functions of gf_connection.c do,     *)
(* then the calls one by one, and last what IInv says of the properties.   *)
(***************************************************************************)
EXTENDS Lifecycle, FiniteSetTheorems, SequenceTheorems, WellFoundedInduction, TLAPS

(* Where a call comes in the start of the process.                         *)
Rank(name) ==
    CASE name = "log_init" -> 1
      [] name = "gf_daemonize" -> 2
      [] name = "signal_init" -> 3
      [] name = "gf_create_pidfile" -> 4
      [] name = "core_ctx_alloc" -> 5
      [] name = "conf_create" -> 6
      [] name = "server_pool_array" -> 7
      [] name = "conf_pool_each_transform" -> 8
      [] name = "server_pool_each_calc_connections" -> 9
      [] name = "server_pool_each_run" -> 10
      [] name = "core_calc_connections" -> 11
      [] name = "stats_alloc" -> 12
      [] name = "current" -> 13
      [] name = "shadow" -> 14
      [] name = "sum" -> 15
      [] name = "stats_create_buf" -> 16
      [] name = "stats_listen" -> 17
      [] name = "pthread_create" -> 18
      [] name = "event_base_create" -> 19
      [] name = "server_each_preconnect" -> 20
      [] name = "proxy_each_init" -> 21
      [] name = "core_loop" -> 22
      [] OTHER -> 0

(* The calls of the start, alone or for a pool or a server.                *)
Calls == {x \in Name \X Nat \X Nat :
             /\ Rank(x[1]) \in 1..22
             /\ x[1] \in {"conf_pool_each_transform", "server_pool_each_run",
                          "server_each_preconnect", "proxy_each_init"} => x[2] \in Pool
             /\ x[1] = "server_each_preconnect" => x[3] \in 1..NSERVER[x[2]]
             /\ x[1] \in {"conf_pool_each_transform", "server_pool_each_run", "proxy_each_init"}
                  => x[3] = 0
             /\ x[1] \notin {"conf_pool_each_transform", "server_pool_each_run",
                             "server_each_preconnect", "proxy_each_init"} => x = Call(x[1])}

(* Calls in their order, none of them twice.                               *)
InOrder(s) == /\ s \in Seq(Calls)
              /\ \A i, j \in DOMAIN s : i < j => /\ Rank(s[i][1]) <= Rank(s[j][1])
                                                 /\ s[i] # s[j]

(* What is called when a failure unwinds from its k-th step on, and when   *)
(* the process stops.                                                      *)
Rest(k) == SubSeq(core_ctx_destroy \o Finish, k, 9)
StopRest(k) == SubSeq(core_stop, k, 9)

(* The step of it that the failure of a call begins with.                  *)
Depth(name) ==
    LET r == Rank(name)
    IN IF r <= 4 THEN 9 ELSE IF r = 5 THEN 8 ELSE IF r = 6 THEN 7 ELSE IF r = 7 THEN 6
       ELSE IF r <= 12 THEN 5 ELSE IF r <= 19 THEN 4 ELSE IF r = 20 THEN 2
       ELSE IF r = 21 THEN 1 ELSE 0

(* What the steps of the unwinding give back.                              *)
FreedBy(k) ==
    CASE k = 3 -> {Block("evb")}
      [] k = 4 -> {Block("stats"), Block("buf")} \cup (Map \X Pool)
      [] k = 5 -> {Block("pools")} \cup ({"pool", "servers", "continuum"} \X Pool)
      [] k = 6 -> {Block("conf")}
      [] k = 7 -> {Block("ctx")}
      [] OTHER -> {}
ClosedBy(k) == CASE k = 3 -> {"epoll"} [] k = 4 -> {"stats"} [] k = 9 -> {"log"} [] OTHER -> {}

(* What there is when the steps from k on are still to come.               *)
BlocksHeld(h, k) == h \subseteq UNION {FreedBy(j) : j \in k..9}
FdsHeld(f, k) == f \subseteq Std \cup {"stats epoll", "collector"}
                        \cup UNION {ClosedBy(j) : j \in k..9}
OwnersHeld(h, k) == \A c \in Conn : /\ h.conn[c].owner[1] = "client" => k <= 0
                                    /\ h.conn[c].owner[1] = "proxy" => k <= 1
                                    /\ h.conn[c].owner[1] = "server" => k <= 2
StructsHeld(h, k) == \A c \in Conn : /\ h.conn[c].st \in {"used", "free"} => k <= 8
                                     /\ h.conn[c].st = "freed" => k >= 9
FileHeld(n, k) == n.file => n.pidfile /\ k <= 9
HeldBy(hp, f, h, n, k) ==
    /\ BlocksHeld(hp, k) /\ FdsHeld(f, k) /\ OwnersHeld(h, k)
    /\ StructsHeld(h, k) /\ FileHeld(n, k)

(* Structures.                                                             *)
Structs(h) ==
    /\ h \in [conn : {h.conn}, freeq : {h.freeq}, nleak : {h.nleak},
              broken : {h.broken}, touched : {h.touched}]
    /\ h.conn \in [Conn -> [st : {"never", "used", "free", "freed"},
                           owner : Owner, open : BOOLEAN]]
    /\ h.freeq \in Seq(Conn) /\ h.nleak \in Nat
    /\ \A c \in Conn : /\ h.conn[c].st = "used" <=> h.conn[c].owner # Nobody
                       /\ h.conn[c].open => h.conn[c].st = "used"
    /\ IsInjective(h.freeq)
    /\ ToSet(h.freeq) = {c \in Conn : h.conn[c].st \in {"free", "freed"}}

(* Connections of the pools.                                               *)
Limits(h) ==
    \A p \in Pool :
        /\ Cardinality(OwnedBy(h, <<"proxy", p, 0>>)) <= 1
        /\ \A s \in 1..NSERVER[p] :
              Cardinality(OwnedBy(h, <<"server", p, s>>)) <= SERVER_CONNECTIONS[p]

Clients(h) == {c \in Conn : h.conn[c].owner[1] = "client"}
Clean(h) == h.touched \subseteq {Aggregator} /\ h.broken \subseteq Known

NoneFreed(h) == \A c \in Conn : h.conn[c].st # "freed"

(* What is not there is still to be called for.                            *)
Pending(td, hp, h, lim, ns, nc) ==
    /\ Block("conf") \notin hp => Call("conf_create") \in ToSet(td)
    /\ Block("pools") \notin hp => Call("server_pool_array") \in ToSet(td)
    /\ Block("stats") \notin hp => Call("stats_alloc") \in ToSet(td)
    /\ Call("server_pool_each_calc_connections") \in ToSet(td)
          => Call("core_calc_connections") \in ToSet(td)
    /\ Call("server_pool_each_calc_connections") \notin ToSet(td)
          => ns = MapThenSumSet(MaxOfPool, Pool) % WORD
    /\ Call("core_calc_connections") \notin ToSet(td)
          => nc = (lim - ns - RESERVED_FDS) % WORD
    /\ \A p \in Pool :
          /\ <<"proxy_each_init", p, 0>> \in ToSet(td) => OwnedBy(h, <<"proxy", p, 0>>) = {}
          /\ \A s \in 1..NSERVER[p] : <<"server_each_preconnect", p, s>> \in ToSet(td)
                 => OwnedBy(h, <<"server", p, s>>) = {}

(* While the process starts: a failure finds what it unwinds.              *)
Started(td, hp, f, h, n, lim, ns, nc) ==
    /\ InOrder(td) /\ Call("core_loop") \in ToSet(td) /\ NoneFreed(h)
    /\ HeldBy(hp, f, h, n, Depth(Head(td)[1]))
    /\ Pending(td, hp, h, lim, ns, nc)
Starts ==
    /\ ~stopping /\ ~interrupted
    /\ Started(todo, heap, fds, cs, nci, nfd, max_nsconn, max_ncconn)

(* While it unwinds.                                                       *)
Undone(td, hp, f, h, n, k) ==
    /\ td = Rest(k) /\ HeldBy(hp, f, h, n, k)
    /\ k <= 6 => Block("conf") \in hp
    /\ k <= 5 => Block("pools") \in hp
    /\ k <= 4 => Block("stats") \in hp
Undoes ==
    /\ ~stopping /\ ~interrupted
    /\ \E k \in 1..10 : Undone(todo, heap, fds, cs, nci, k)

(* While it stops: what was first in the unwinding comes second.           *)
Stopped(td, hp, f, h, n, k) ==
    LET j == IF k = 10 THEN 10 ELSE k - 1
    IN /\ td = StopRest(k)
       /\ BlocksHeld(hp, j) /\ FdsHeld(f, j) /\ FileHeld(n, j)
       /\ \A c \in Conn : /\ h.conn[c].owner[1] = "proxy" => j <= 1
                          /\ h.conn[c].owner[1] = "server" => j <= 2
Stops ==
    /\ stopping /\ ~interrupted
    /\ \E k \in 1..10 : Stopped(todo, heap, fds, cs, nci, k)

Ended == interrupted /\ todo = <<>>

IInv ==
    /\ TypeOK /\ Structs(cs) /\ Limits(cs)
    /\ Cardinality(Clients(cs)) <= max_ncconn
    /\ ~stopping => Clean(cs)
    /\ Starts \/ Undoes \/ Stops \/ Ended

(* A function over 1..n is a sequence.                                     *)
LEMMA SeqOfFun ==
    ASSUME NEW T, NEW n \in Nat, NEW f \in [1..n -> T]
    PROVE  f \in Seq(T) /\ Len(f) = n
OBVIOUS

(* The steps of core_ctx_destroy.                                          *)
LEMMA Destroys ==
    /\ Len(core_ctx_destroy) = 7 /\ core_ctx_destroy \in Seq(Name \X Nat \X Nat)
    /\ core_ctx_destroy[1] = Call("proxy_deinit")
    /\ core_ctx_destroy[2] = Call("server_pool_disconnect")
    /\ core_ctx_destroy[3] = Call("event_base_destroy")
    /\ core_ctx_destroy[4] = Call("stats_destroy")
    /\ core_ctx_destroy[5] = Call("server_pool_deinit")
    /\ core_ctx_destroy[6] = Call("conf_destroy")
    /\ core_ctx_destroy[7] = Call("gf_free")
<1> DEFINE t == <<"proxy_deinit", "server_pool_disconnect",
              "event_base_destroy", "stats_destroy", "server_pool_deinit",
              "conf_destroy", "gf_free">>
<1>1. /\ t[1] = "proxy_deinit" /\ t[2] = "server_pool_disconnect" /\ t[3] = "event_base_destroy"
      /\ t[4] = "stats_destroy" /\ t[5] = "server_pool_deinit" /\ t[6] = "conf_destroy"
      /\ t[7] = "gf_free"
    OBVIOUS
<1>2. \A i \in 1..7 : t[i] \in Name
    BY DEF Name
<1>3. core_ctx_destroy = [i \in 1..7 |-> Call(t[i])]
    BY DEF core_ctx_destroy
<1> HIDE DEF t
<1>4. core_ctx_destroy \in [1..7 -> Name \X Nat \X Nat]
    BY <1>2, <1>3 DEF Call
<1>5. Len(core_ctx_destroy) = 7 /\ core_ctx_destroy \in Seq(Name \X Nat \X Nat)
  <2> 7 \in Nat
      OBVIOUS
  <2> QED BY <1>4, SeqOfFun
<1>6. \A i \in 1..7 : core_ctx_destroy[i] = Call(t[i])
    BY <1>3
<1> QED
    BY <1>1, <1>5, <1>6

(* What main calls after a failure.                                        *)
LEMMA Finishes ==
    /\ Finish \in Seq(Name \X Nat \X Nat) /\ Len(Finish) = 2
    /\ Finish[1] = Call("conn_deinit") /\ Finish[2] = Call("gf_post_run")
<1>1. Call("conn_deinit") \in Name \X Nat \X Nat /\ Call("gf_post_run") \in Name \X Nat \X Nat
    BY DEF Call, Name
<1> QED
    BY <1>1 DEF Finish

(* The ends of a sequence of nine calls.                                   *)
LEMMA SuffixesAre ==
    ASSUME NEW T, NEW v \in Seq(T), Len(v) = 9
    PROVE  /\ SubSeq(v, 1, 9) = v /\ SubSeq(v, 10, 9) = <<>>
           /\ \A k \in 1..9 : /\ SubSeq(v, k, 9) # <<>> /\ Head(SubSeq(v, k, 9)) = v[k]
                              /\ Tail(SubSeq(v, k, 9)) = SubSeq(v, k + 1, 9)
<1>0. DOMAIN v = 1..9
    OBVIOUS
<1>1. SubSeq(v, 1, 9) = v
    OBVIOUS
<1>2. SubSeq(v, 10, 9) = <<>>
    OBVIOUS
<1>3. ASSUME NEW k \in 1..9
      PROVE  /\ SubSeq(v, k, 9) # <<>> /\ Head(SubSeq(v, k, 9)) = v[k]
             /\ Tail(SubSeq(v, k, 9)) = SubSeq(v, k + 1, 9)
  <2> DEFINE s == SubSeq(v, k, 9)
             r == SubSeq(v, k + 1, 9)
  <2> DEFINE e == 9
  <2>a. k \in Int /\ k + 1 \in Int /\ e \in Int /\ k >= 1 /\ k <= e
      OBVIOUS
  <2>0. e = Len(v)
      OBVIOUS
  <2>c. e - k + 1 = 10 - k /\ e - (k + 1) + 1 = 9 - k
      OBVIOUS
  <2> HIDE DEF e
  <2>b. \A i \in 1..e : v[i] \in T
    <3>1. v \in Seq(T)
        OBVIOUS
    <3> QED BY ONLY <2>0, <3>1, ElementOfSeq
  <2>d. (\A i \in k..e : v[i] \in T) /\ (\A i \in (k + 1)..e : v[i] \in T)
      BY ONLY <2>a, <2>b
  <2>e. /\ SubSeq(v, k, e) \in Seq(T) /\ Len(SubSeq(v, k, e)) = e - k + 1
        /\ \A i \in 1..(e - k + 1) : SubSeq(v, k, e)[i] = v[k + i - 1]
      BY ONLY <2>a, <2>d, SubSeqProperties
  <2>f. /\ SubSeq(v, k + 1, e) \in Seq(T)
        /\ Len(SubSeq(v, k + 1, e)) = IF k + 1 <= e THEN e - (k + 1) + 1 ELSE 0
        /\ \A i \in 1..(e - (k + 1) + 1) : SubSeq(v, k + 1, e)[i] = v[(k + 1) + i - 1]
      BY ONLY <2>a, <2>d, SubSeqProperties
  <2>g. e = 9
      BY DEF e
  <2>1. s \in Seq(T) /\ Len(s) = 10 - k /\ \A i \in 1..(10 - k) : s[i] = v[k + i - 1]
      BY <2>c, <2>e DEF e
  <2>h. \A i \in Int : (k + 1) + i - 1 = k + i
      BY <2>a
  <2>i. (IF k + 1 <= e THEN e - (k + 1) + 1 ELSE 0) = 9 - k
      BY <2>a, <2>g
  <2>2. r \in Seq(T) /\ Len(r) = 9 - k /\ \A i \in 1..(9 - k) : r[i] = v[k + i]
      BY <2>c, <2>f, <2>h, <2>i DEF e
  <2> HIDE DEF s, r
  <2>3. s # <<>> /\ Head(s) = v[k]
    <3>1. s[1] = v[k]
        BY <2>1
    <3> QED BY <2>1, <3>1
  <2>4. Tail(s) \in Seq(T) /\ Len(Tail(s)) = 9 - k /\ \A i \in 1..(9 - k) : Tail(s)[i] = s[i + 1]
      BY <2>1, <2>3
  <2>5. \A i \in 1..(9 - k) : Tail(s)[i] = r[i]
      BY <2>1, <2>2, <2>4
  <2>6. Tail(s) = r
      BY <2>2, <2>4, <2>5
  <2> QED BY <2>3, <2>6 DEF s, r
<1> QED
    BY <1>1, <1>2, <1>3

Undo == core_ctx_destroy \o Finish

(* What two sequences one after the other hold where.                      *)
LEMMA ConcatAt ==
    ASSUME NEW T, NEW a \in Seq(T), NEW b \in Seq(T), NEW n, Len(a) = n
    PROVE  /\ a \o b \in Seq(T) /\ Len(a \o b) = n + Len(b)
           /\ \A i \in 1..n : (a \o b)[i] = a[i]
           /\ \A i \in 1..Len(b) : (a \o b)[n + i] = b[i]
<1>1. Len(a) \in Nat /\ Len(b) \in Nat
    OBVIOUS
<1>2. \A i \in 1..Len(b) : Len(a) + i \in 1..(Len(a) + Len(b)) /\ ~(Len(a) + i <= Len(a))
                           /\ (Len(a) + i) - Len(a) = i
    BY <1>1
<1> QED
    BY <1>1, <1>2, ConcatProperties

(* The steps of unwinding.                                                 *)
LEMMA UndoIs ==
    /\ Undo \in Seq(Name \X Nat \X Nat) /\ Len(Undo) = 9
    /\ Undo[1] = Call("proxy_deinit") /\ Undo[2] = Call("server_pool_disconnect")
    /\ Undo[3] = Call("event_base_destroy") /\ Undo[4] = Call("stats_destroy")
    /\ Undo[5] = Call("server_pool_deinit") /\ Undo[6] = Call("conf_destroy")
    /\ Undo[7] = Call("gf_free") /\ Undo[8] = Call("conn_deinit")
    /\ Undo[9] = Call("gf_post_run")
<1> DEFINE m == core_ctx_destroy
           f == Finish
           T == Name \X Nat \X Nat
<1>0. m \in Seq(T) /\ f \in Seq(T) /\ Len(m) = 7 /\ Len(f) = 2
    BY Destroys, Finishes
<1> HIDE DEF m, f, T
<1>1. /\ m \o f \in Seq(T) /\ Len(m \o f) = 7 + Len(f)
      /\ \A i \in 1..7 : (m \o f)[i] = m[i]
      /\ \A i \in 1..Len(f) : (m \o f)[7 + i] = f[i]
  <2> DEFINE n == 7
  <2>1. Len(m) = n
      BY ONLY <1>0
  <2> HIDE DEF n
  <2>2. /\ m \o f \in Seq(T) /\ Len(m \o f) = n + Len(f)
        /\ \A i \in 1..n : (m \o f)[i] = m[i]
        /\ \A i \in 1..Len(f) : (m \o f)[n + i] = f[i]
    <3>1. m \in Seq(T) /\ f \in Seq(T)
        BY ONLY <1>0
    <3> QED BY ONLY <3>1, <2>1, ConcatAt
  <2> QED BY ONLY <2>2 DEF n
<1>2. (m \o f)[7 + 1] = f[1] /\ (m \o f)[7 + 2] = f[2]
    BY ONLY <1>1, <1>0, 1 \in 1..2, 2 \in 1..2
<1>3. 7 + 1 = 8 /\ 7 + 2 = 9
    OBVIOUS
<1>4. (m \o f)[8] = f[1] /\ (m \o f)[9] = f[2] /\ Len(m \o f) = 9
    BY ONLY <1>0, <1>1, <1>2, <1>3
<1>5. Undo = m \o f
    BY DEF Undo, m, f
<1>6. Undo \in Seq(T) /\ Len(Undo) = 9 /\ Undo[8] = f[1] /\ Undo[9] = f[2]
    BY ONLY <1>1, <1>4, <1>5
<1>7. /\ Undo[1] = m[1] /\ Undo[2] = m[2] /\ Undo[3] = m[3] /\ Undo[4] = m[4]
      /\ Undo[5] = m[5] /\ Undo[6] = m[6] /\ Undo[7] = m[7]
    BY ONLY <1>1, <1>5
<1> QED
    BY <1>6, <1>7, Destroys, Finishes DEF m, f, T

(* The steps of core_stop.                                                 *)
LEMMA StopIs ==
    /\ core_stop \in Seq(Name \X Nat \X Nat) /\ Len(core_stop) = 9
    /\ core_stop[1] = Call("conn_deinit")
    /\ core_stop[2] = Call("proxy_deinit") /\ core_stop[3] = Call("server_pool_disconnect")
    /\ core_stop[4] = Call("event_base_destroy") /\ core_stop[5] = Call("stats_destroy")
    /\ core_stop[6] = Call("server_pool_deinit") /\ core_stop[7] = Call("conf_destroy")
    /\ core_stop[8] = Call("gf_free") /\ core_stop[9] = Call("gf_post_run")
<1> DEFINE a == <<Call("conn_deinit")>>
           b == <<Call("gf_post_run")>>
           m == core_ctx_destroy
           T == Name \X Nat \X Nat
<1>1. /\ a \in Seq(T) /\ Len(a) = 1 /\ a[1] = Call("conn_deinit")
      /\ b \in Seq(T) /\ Len(b) = 1 /\ b[1] = Call("gf_post_run")
  <2>1. Call("conn_deinit") \in T /\ Call("gf_post_run") \in T
      BY DEF Call, Name
  <2> HIDE DEF T
  <2> QED BY <2>1
<1>2. m \in Seq(T) /\ Len(m) = 7
    BY Destroys
<1>3. core_stop = (a \o m) \o b
    BY DEF core_stop
<1> HIDE DEF a, b, m, T
<1>4. /\ a \o m \in Seq(T) /\ Len(a \o m) = 1 + Len(m)
      /\ \A i \in 1..1 : (a \o m)[i] = a[i]
      /\ \A i \in 1..Len(m) : (a \o m)[1 + i] = m[i]
  <2> DEFINE n == 1
  <2>1. Len(a) = n
      BY ONLY <1>1
  <2> HIDE DEF n
  <2>2. /\ a \o m \in Seq(T) /\ Len(a \o m) = n + Len(m)
        /\ \A i \in 1..n : (a \o m)[i] = a[i]
        /\ \A i \in 1..Len(m) : (a \o m)[n + i] = m[i]
    <3>1. a \in Seq(T) /\ m \in Seq(T)
        BY ONLY <1>1, <1>2
    <3> QED BY ONLY <3>1, <2>1, ConcatAt
  <2> QED BY ONLY <2>2 DEF n
<1>5. 1 + 7 = 8
    OBVIOUS
<1>6. Len(a \o m) = 8
    BY ONLY <1>2, <1>4, <1>5
<1>7. /\ (a \o m) \o b \in Seq(T) /\ Len((a \o m) \o b) = 8 + Len(b)
      /\ \A i \in 1..8 : ((a \o m) \o b)[i] = (a \o m)[i]
      /\ \A i \in 1..Len(b) : ((a \o m) \o b)[8 + i] = b[i]
  <2> DEFINE am == a \o m
         n == 8
  <2>1. am \in Seq(T) /\ Len(am) = n
      BY ONLY <1>4, <1>6
  <2> HIDE DEF am, n
  <2>2. /\ am \o b \in Seq(T) /\ Len(am \o b) = n + Len(b)
        /\ \A i \in 1..n : (am \o b)[i] = am[i]
        /\ \A i \in 1..Len(b) : (am \o b)[n + i] = b[i]
    <3>1. b \in Seq(T)
        BY ONLY <1>1
    <3> QED BY ONLY <2>1, <3>1, ConcatAt
  <2> QED BY ONLY <2>2 DEF am, n
<1>8. 1 + 1 = 2 /\ 1 + 2 = 3 /\ 1 + 3 = 4 /\ 1 + 4 = 5 /\ 1 + 5 = 6 /\ 1 + 6 = 7 /\ 8 + 1 = 9
    OBVIOUS
<1>9. /\ (a \o m)[1] = a[1] /\ (a \o m)[1 + 1] = m[1] /\ (a \o m)[1 + 2] = m[2]
      /\ (a \o m)[1 + 3] = m[3] /\ (a \o m)[1 + 4] = m[4] /\ (a \o m)[1 + 5] = m[5]
      /\ (a \o m)[1 + 6] = m[6] /\ (a \o m)[1 + 7] = m[7]
  <2>1. /\ 1 \in 1..1 /\ 1 \in 1..7 /\ 2 \in 1..7 /\ 3 \in 1..7 /\ 4 \in 1..7 /\ 5 \in 1..7
        /\ 6 \in 1..7 /\ 7 \in 1..7
      OBVIOUS
  <2> QED BY ONLY <1>4, <1>2, <2>1
<1>10. /\ core_stop[1] = (a \o m)[1] /\ core_stop[2] = (a \o m)[2] /\ core_stop[3] = (a \o m)[3]
       /\ core_stop[4] = (a \o m)[4] /\ core_stop[5] = (a \o m)[5] /\ core_stop[6] = (a \o m)[6]
       /\ core_stop[7] = (a \o m)[7] /\ core_stop[8] = (a \o m)[8]
  <2>1. /\ 1 \in 1..8 /\ 2 \in 1..8 /\ 3 \in 1..8 /\ 4 \in 1..8 /\ 5 \in 1..8 /\ 6 \in 1..8
        /\ 7 \in 1..8 /\ 8 \in 1..8
      OBVIOUS
  <2>2. \A i \in 1..8 : core_stop[i] = (a \o m)[i]
      BY ONLY <1>3, <1>7
  <2> QED BY ONLY <2>1, <2>2
<1>11. core_stop \in Seq(T) /\ Len(core_stop) = 9 /\ core_stop[9] = b[1]
  <2>1. ((a \o m) \o b)[8 + 1] = b[1]
      BY ONLY <1>1, <1>7, 1 \in 1..1
  <2> QED BY ONLY <1>1, <1>3, <1>7, <1>8, <2>1
<1>12. /\ core_stop[1] = a[1] /\ core_stop[2] = m[1] /\ core_stop[3] = m[2] /\ core_stop[4] = m[3]
       /\ core_stop[5] = m[4] /\ core_stop[6] = m[5] /\ core_stop[7] = m[6] /\ core_stop[8] = m[7]
    BY ONLY <1>5, <1>8, <1>9, <1>10
<1>13. /\ core_stop[1] = Call("conn_deinit") /\ core_stop[9] = Call("gf_post_run")
    BY ONLY <1>1, <1>11, <1>12
<1> QED
    BY <1>11, <1>12, <1>13, Destroys DEF m, T

(* Unwinding goes on with the next step.                                   *)
LEMMA RestIs ==
    /\ Rest(1) = Undo /\ Rest(10) = <<>>
    /\ \A k \in 1..9 : /\ Rest(k) # <<>> /\ Head(Rest(k)) = Undo[k]
                       /\ Tail(Rest(k)) = Rest(k + 1)
<1>1. Undo \in Seq(Name \X Nat \X Nat) /\ Len(Undo) = 9
    BY UndoIs
<1>2. /\ SubSeq(Undo, 1, 9) = Undo /\ SubSeq(Undo, 10, 9) = <<>>
      /\ \A k \in 1..9 : /\ SubSeq(Undo, k, 9) # <<>> /\ Head(SubSeq(Undo, k, 9)) = Undo[k]
                         /\ Tail(SubSeq(Undo, k, 9)) = SubSeq(Undo, k + 1, 9)
    BY ONLY <1>1, SuffixesAre
<1>3. \A k : Rest(k) = SubSeq(Undo, k, 9)
    BY DEF Rest, Undo
<1> HIDE DEF Rest
<1> QED
    BY ONLY <1>2, <1>3

(* Stopping goes on with the next step.                                    *)
LEMMA StopRestIs ==
    /\ StopRest(1) = core_stop /\ StopRest(10) = <<>>
    /\ \A k \in 1..9 : /\ StopRest(k) # <<>> /\ Head(StopRest(k)) = core_stop[k]
                       /\ Tail(StopRest(k)) = StopRest(k + 1)
<1>1. core_stop \in Seq(Name \X Nat \X Nat) /\ Len(core_stop) = 9
    BY StopIs
<1>2. /\ SubSeq(core_stop, 1, 9) = core_stop /\ SubSeq(core_stop, 10, 9) = <<>>
      /\ \A k \in 1..9 : /\ SubSeq(core_stop, k, 9) # <<>> /\ Head(SubSeq(core_stop, k, 9)) = core_stop[k]
                         /\ Tail(SubSeq(core_stop, k, 9)) = SubSeq(core_stop, k + 1, 9)
    BY ONLY <1>1, SuffixesAre
<1>3. \A k : StopRest(k) = SubSeq(core_stop, k, 9)
    BY DEF StopRest
<1> HIDE DEF StopRest
<1> QED
    BY ONLY <1>2, <1>3

(* The end of a sequence followed by another.                              *)
LEMMA EndOfConcat ==
    ASSUME NEW T, NEW m \in Seq(T), NEW f \in Seq(T), NEW k \in 1..Len(m)
    PROVE  SubSeq(m, k, Len(m)) \o f = SubSeq(m \o f, k, Len(m) + Len(f))
<1> DEFINE n == Len(m)
           l == Len(f)
<1>h. k \in 1..n /\ Len(m) = n /\ Len(f) = l
    OBVIOUS
<1>0. n \in Nat /\ l \in Nat
    OBVIOUS
<1> HIDE DEF n, l
<1> USE <1>h
<1>1. /\ m \o f \in Seq(T) /\ Len(m \o f) = n + l
      /\ \A i \in 1..(n + l) : (m \o f)[i] = IF i <= n THEN m[i] ELSE f[i - n]
    BY ConcatProperties
<1>2. /\ SubSeq(m, k, n) \in Seq(T) /\ Len(SubSeq(m, k, n)) = n - k + 1
      /\ \A i \in 1..(n - k + 1) : SubSeq(m, k, n)[i] = m[k + i - 1]
  <2>1. \A i \in k..n : m[i] \in T
      BY ElementOfSeq
  <2>2. k \in Int /\ n \in Int /\ k <= n
      BY <1>0
  <2> QED BY <2>1, <2>2, SubSeqProperties
<1>3. /\ SubSeq(m \o f, k, n + l) \in Seq(T) /\ Len(SubSeq(m \o f, k, n + l)) = n + l - k + 1
      /\ \A i \in 1..(n + l - k + 1) : SubSeq(m \o f, k, n + l)[i] = (m \o f)[k + i - 1]
  <2>1. \A i \in k..(n + l) : (m \o f)[i] \in T
    <3>1. \A i \in k..(n + l) : i \in 1..Len(m \o f)
        BY <1>0, <1>1
    <3> QED BY <3>1, <1>1, ElementOfSeq
  <2> DEFINE e == n + l
             v == m \o f
  <2>2. k \in Int /\ e \in Int /\ (k <= e) /\ (\A i \in k..e : v[i] \in T) /\ e - k + 1 = n + l - k + 1
      BY <1>0, <2>1
  <2> HIDE DEF e, v
  <2>3. /\ SubSeq(v, k, e) \in Seq(T) /\ Len(SubSeq(v, k, e)) = e - k + 1
        /\ \A i \in 1..(e - k + 1) : SubSeq(v, k, e)[i] = v[k + i - 1]
      BY ONLY <2>2, SubSeqProperties
  <2> QED BY ONLY <2>2, <2>3 DEF e, v
<1> DEFINE s == SubSeq(m, k, n)
           r == SubSeq(m \o f, k, n + l)
<1> HIDE DEF s, r
<1>4. /\ s \o f \in Seq(T) /\ Len(s \o f) = n + l - k + 1
      /\ \A i \in 1..(n + l - k + 1) :
            (s \o f)[i] = IF i <= n - k + 1 THEN s[i] ELSE f[i - (n - k + 1)]
  <2>1. s \in Seq(T) /\ Len(s) = n - k + 1 /\ (n - k + 1) + l = n + l - k + 1
      BY <1>0, <1>2 DEF s
  <2>2. /\ s \o f \in Seq(T) /\ Len(s \o f) = Len(s) + Len(f)
        /\ \A i \in 1..(Len(s) + Len(f)) : (s \o f)[i] = IF i <= Len(s) THEN s[i] ELSE f[i - Len(s)]
      BY ONLY <2>1, f \in Seq(T), ConcatProperties
  <2> QED BY <2>1, <2>2
<1>5. ASSUME NEW i \in 1..(n + l - k + 1) PROVE (s \o f)[i] = r[i]
  <2>0. r[i] = (m \o f)[k + i - 1] /\ k + i - 1 \in 1..(n + l)
      BY <1>0, <1>3 DEF r
  <2>1. CASE i <= n - k + 1
    <3>1. i \in 1..(n - k + 1) /\ k + i - 1 <= n
        BY <1>0, <2>1
    <3>2. s[i] = m[k + i - 1]
        BY <3>1, <1>2 DEF s
    <3> QED BY <2>0, <2>1, <3>1, <3>2, <1>1, <1>4
  <2>2. CASE ~(i <= n - k + 1)
    <3>1. ~(k + i - 1 <= n) /\ (k + i - 1) - n = i - (n - k + 1)
        BY <1>0, <2>2
    <3> QED BY <2>0, <2>2, <3>1, <1>1, <1>4
  <2> QED BY <2>1, <2>2
<1>6. r \in Seq(T) /\ Len(r) = n + l - k + 1
    BY <1>3 DEF r
<1>7. s \o f = r
  <2>1. \A i \in 1..Len(s \o f) : (s \o f)[i] = r[i]
      BY <1>4, <1>5
  <2> QED BY ONLY <1>4, <2>1, <1>6, SeqEqual
<1> QED
    BY <1>7 DEF s, r, n, l

(* The error path that begins with a call.                                 *)
LEMMA FromIs ==
    /\ From("proxy_deinit") \o Finish = Rest(1)
    /\ From("server_pool_disconnect") \o Finish = Rest(2)
    /\ From("stats_destroy") \o Finish = Rest(4)
    /\ From("server_pool_deinit") \o Finish = Rest(5)
    /\ From("conf_destroy") \o Finish = Rest(6)
    /\ From("gf_free") \o Finish = Rest(7)
    /\ Finish = Rest(8)
    /\ <<Call("gf_post_run")>> = Rest(9)
<1> DEFINE T == Name \X Nat \X Nat
           m == core_ctx_destroy
           f == Finish
<1>1. m \in Seq(T) /\ Len(m) = 7 /\ f \in Seq(T) /\ Len(f) = 2
    BY Destroys, Finishes
<1>r. \A k : Rest(k) = SubSeq(m \o f, k, 9)
    BY DEF Rest
<1>2. \A k \in 1..7 : SubSeq(m, k, 7) \o f = SubSeq(m \o f, k, 9)
  <2> DEFINE n == 7
             l == 2
  <2> HIDE DEF T, m, f
  <2>1. m \in Seq(T) /\ f \in Seq(T) /\ Len(m) = n /\ Len(f) = l
      BY ONLY <1>1
  <2>3. n + l = 9
      OBVIOUS
  <2> HIDE DEF n, l
  <2>2. ASSUME NEW k \in 1..n PROVE SubSeq(m, k, n) \o f = SubSeq(m \o f, k, n + l)
    <3>1. /\ m \in Seq(T) /\ f \in Seq(T) /\ Len(m) = n /\ Len(f) = l /\ k \in 1..n
        BY ONLY <2>1, k \in 1..n
    <3>2. SubSeq(m, k, Len(m)) \o f = SubSeq(m \o f, k, Len(m) + Len(f))
      <4>1. k \in 1..Len(m)
          BY ONLY <3>1
      <4>2. m \in Seq(T) /\ f \in Seq(T)
          BY ONLY <3>1
      <4> QED BY ONLY <4>1, <4>2, EndOfConcat
    <3> QED BY ONLY <3>1, <3>2
  <2> QED BY ONLY <2>2, <2>3 DEF n
<1>3. ASSUME NEW k \in 1..7, NEW name, m[k] = Call(name),
             \A i \in 1..7 : m[i] = m[k] => i = k
      PROVE  From(name) \o f = Rest(k)
  <2>1. (CHOOSE i \in 1..7 : core_ctx_destroy[i] = Call(name)) = k
      BY <1>3
  <2>2. From(name) = SubSeq(m, k, 7)
      BY <2>1 DEF From
  <2> HIDE DEF m, f, T
  <2> QED BY <2>2, <1>2, <1>r
<1>4. \A i, j \in 1..7 : m[i] = m[j] => i = j
  <2>1. \A i \in 1..7 : i = 1 \/ i = 2 \/ i = 3 \/ i = 4 \/ i = 5 \/ i = 6 \/ i = 7
      OBVIOUS
  <2> QED BY <2>1, Destroys DEF Call
<1>5. /\ From("proxy_deinit") \o Finish = Rest(1)
      /\ From("server_pool_disconnect") \o Finish = Rest(2)
      /\ From("stats_destroy") \o Finish = Rest(4)
      /\ From("server_pool_deinit") \o Finish = Rest(5)
      /\ From("conf_destroy") \o Finish = Rest(6)
      /\ From("gf_free") \o Finish = Rest(7)
  <2>1. \A k \in 1..7 : \A i \in 1..7 : m[i] = m[k] => i = k
      BY <1>4
  <2>2. /\ 1 \in 1..7 /\ 2 \in 1..7 /\ 4 \in 1..7 /\ 5 \in 1..7 /\ 6 \in 1..7 /\ 7 \in 1..7
      OBVIOUS
  <2>3. \A k \in 1..7 : \A name : m[k] = Call(name) => From(name) \o f = Rest(k)
      BY <1>3, <2>1
  <2> QED BY ONLY <2>2, <2>3, Destroys DEF f
<1> HIDE DEF T, m, f
<1>6. Undo = m \o f /\ \A i \in 8..9 : Undo[i] \in T
  <2>1. Undo[8] \in T /\ Undo[9] \in T
      BY UndoIs DEF T, Name, Call
  <2>2. \A i \in 8..9 : i = 8 \/ i = 9
      OBVIOUS
  <2> QED BY ONLY <2>1, <2>2 DEF Undo, m, f
<1>7. f = Rest(8)
  <2> DEFINE a == 8
             b == 9
             s == SubSeq(Undo, a, b)
  <2>1. a \in Int /\ b \in Int /\ (a <= b) /\ \A i \in a..b : Undo[i] \in T
    <3>1. 8 \in Int /\ 9 \in Int /\ 8 <= 9
        OBVIOUS
    <3> QED BY ONLY <3>1, <1>6
  <2> HIDE DEF a, b
  <2>2. /\ SubSeq(Undo, a, b) \in Seq(T) /\ Len(SubSeq(Undo, a, b)) = b - a + 1
        /\ \A i \in 1..(b - a + 1) : SubSeq(Undo, a, b)[i] = Undo[a + i - 1]
      BY ONLY <2>1, SubSeqProperties
  <2> HIDE DEF s
  <2>3. s \in Seq(T) /\ Len(s) = 2 /\ \A i \in 1..2 : s[i] = Undo[8 + i - 1]
      BY ONLY <2>2 DEF s, a, b
  <2>4. s[1] = Undo[8] /\ s[2] = Undo[9]
    <3>1. 8 + 1 - 1 = 8 /\ 8 + 2 - 1 = 9 /\ 1 \in 1..2 /\ 2 \in 1..2
        OBVIOUS
    <3> QED BY ONLY <2>3, <3>1
  <2>5. f[1] = Undo[8] /\ f[2] = Undo[9]
      BY Finishes, UndoIs DEF f
  <2>6. \A i \in 1..Len(f) : f[i] = s[i]
    <3>1. \A i \in 1..2 : i = 1 \/ i = 2
        OBVIOUS
    <3> QED BY ONLY <3>1, <2>4, <2>5, <1>1
  <2>7. f = s
    <3>1. f \in Seq(T) /\ s \in Seq(T) /\ Len(f) = Len(s)
        BY ONLY <1>1, <2>3
    <3> QED BY ONLY <3>1, <2>6, SeqEqual
  <2> QED BY ONLY <2>7, <1>r, <1>6 DEF s, a, b
<1>8. <<Call("gf_post_run")>> = Rest(9)
  <2> DEFINE a == 9
             s == SubSeq(Undo, a, a)
  <2>1. a \in Int /\ (a <= a) /\ \A i \in a..a : Undo[i] \in T
    <3>1. 9 \in Int /\ (9 <= 9) /\ \A i \in 9..9 : i = 9 /\ i \in 8..9
        OBVIOUS
    <3> QED BY ONLY <3>1, <1>6
  <2> HIDE DEF a
  <2>2. /\ SubSeq(Undo, a, a) \in Seq(T) /\ Len(SubSeq(Undo, a, a)) = a - a + 1
        /\ \A i \in 1..(a - a + 1) : SubSeq(Undo, a, a)[i] = Undo[a + i - 1]
      BY ONLY <2>1, SubSeqProperties
  <2> HIDE DEF s
  <2>3. s \in Seq(T) /\ Len(s) = 1 /\ \A i \in 1..1 : s[i] = Undo[9 + i - 1]
      BY ONLY <2>2 DEF s, a
  <2>4. s[1] = Undo[9]
    <3>1. 9 + 1 - 1 = 9 /\ 1 \in 1..1
        OBVIOUS
    <3> QED BY ONLY <2>3, <3>1
  <2>5. Undo[9] = Call("gf_post_run")
      BY UndoIs
  <2> DEFINE c == Call("gf_post_run")
  <2> HIDE DEF c
  <2>7. s = <<c>>
    <3>1. s[1] = c /\ c \in T
      <4>1. s[1] = c
          BY ONLY <2>4, <2>5 DEF c
      <4>2. c \in T
          BY DEF c, T, Call, Name
      <4> QED BY ONLY <4>1, <4>2
    <3> QED BY ONLY <3>1, <2>3
  <2> QED BY ONLY <2>7, <1>r, <1>6 DEF s, a, c
<1> QED
    BY <1>5, <1>7, <1>8 DEF f

(* What is in the tail of a sequence.                                      *)
LEMMA TailFacts ==
    ASSUME NEW T, NEW s \in Seq(T), s # <<>>
    PROVE  /\ Tail(s) \in Seq(T) /\ Len(Tail(s)) = Len(s) - 1 /\ Len(s) \in Nat /\ Len(s) >= 1
           /\ Head(s) \in T /\ Head(s) = s[1] /\ Head(s) \in ToSet(s)
           /\ \A i \in DOMAIN Tail(s) : i + 1 \in DOMAIN s /\ Tail(s)[i] = s[i + 1]
           /\ ToSet(s) = {Head(s)} \cup ToSet(Tail(s))
           /\ IsInjective(s) => IsInjective(Tail(s)) /\ Head(s) \notin ToSet(Tail(s))
<1>1. Len(s) \in Nat /\ Len(s) >= 1 /\ DOMAIN s = 1..Len(s)
    OBVIOUS
<1>2. /\ Tail(s) \in Seq(T) /\ Len(Tail(s)) = Len(s) - 1 /\ Head(s) \in T /\ Head(s) = s[1]
      /\ \A i \in 1..Len(Tail(s)) : Tail(s)[i] = s[i + 1]
    BY HeadTailProperties
<1>3. DOMAIN Tail(s) = 1..(Len(s) - 1)
    BY <1>2
<1>4. \A i \in DOMAIN Tail(s) : i + 1 \in DOMAIN s /\ Tail(s)[i] = s[i + 1]
    BY <1>1, <1>2, <1>3
<1>5. \A i \in DOMAIN s : i = 1 \/ (i - 1 \in DOMAIN Tail(s) /\ Tail(s)[i - 1] = s[i])
    BY <1>1, <1>3, <1>4
<1>6. 1 \in DOMAIN s
    BY <1>1
<1> DEFINE t == Tail(s)
           h == Head(s)
<1> HIDE DEF t, h
<1>7. ToSet(s) = {h} \cup ToSet(t)
    BY <1>2, <1>4, <1>5, <1>6 DEF ToSet, t, h
<1>8. ASSUME IsInjective(s) PROVE IsInjective(t) /\ h \notin ToSet(t)
  <2>1. \A i, j \in DOMAIN s : s[i] = s[j] => i = j
      BY <1>8 DEF IsInjective
  <2>2. ASSUME NEW i \in DOMAIN t, NEW j \in DOMAIN t, t[i] = t[j] PROVE i = j
    <3>1. i + 1 = j + 1
        BY <2>1, <2>2, <1>4 DEF t
    <3> QED BY <3>1, <1>1, <1>3 DEF t
  <2>3. ASSUME NEW i \in DOMAIN t, t[i] = h PROVE FALSE
    <3>1. i + 1 = 1
        BY <2>1, <2>3, <1>2, <1>4, <1>6 DEF t, h
    <3> QED BY <3>1, <1>1, <1>3 DEF t
  <2>4. IsInjective(t)
      BY <2>2 DEF IsInjective
  <2> QED BY <2>3, <2>4 DEF ToSet
<1> QED
    BY <1>1, <1>2, <1>4, <1>6, <1>7, <1>8 DEF t, h, ToSet

(* The elements of two sequences one after the other.                      *)
LEMMA ConcatSet ==
    ASSUME NEW T, NEW a \in Seq(T), NEW b \in Seq(T)
    PROVE  /\ a \o b \in Seq(T) /\ ToSet(a \o b) = ToSet(a) \cup ToSet(b)
           /\ IsInjective(a) /\ IsInjective(b) /\ ToSet(a) \cap ToSet(b) = {} => IsInjective(a \o b)
<1> DEFINE n == Len(a)
           m == Len(b)
           c == a \o b
<1>0. n \in Nat /\ m \in Nat /\ DOMAIN a = 1..n /\ DOMAIN b = 1..m
    OBVIOUS
<1>1. c \in Seq(T) /\ Len(c) = n + m /\ \A i \in 1..(n + m) : c[i] = IF i <= n THEN a[i] ELSE b[i - n]
    BY ConcatProperties
<1>2. DOMAIN c = 1..(n + m)
    BY <1>1
<1> HIDE DEF n, m, c
<1>3. \A i \in DOMAIN c : \/ i \in DOMAIN a /\ c[i] = a[i]
                          \/ i > n /\ i - n \in DOMAIN b /\ c[i] = b[i - n]
    BY <1>0, <1>1, <1>2
<1>4. \A i \in DOMAIN a : i \in DOMAIN c /\ c[i] = a[i]
    BY <1>0, <1>1, <1>2
<1>5. \A i \in DOMAIN b : n + i \in DOMAIN c /\ c[n + i] = b[i]
  <2> SUFFICES ASSUME NEW i \in DOMAIN b PROVE n + i \in DOMAIN c /\ c[n + i] = b[i]
      OBVIOUS
  <2>1. n + i \in 1..(n + m) /\ ~(n + i <= n) /\ (n + i) - n = i
      BY <1>0
  <2> QED BY <2>1, <1>1, <1>2
<1>6. ToSet(c) = ToSet(a) \cup ToSet(b)
  <2>1. \A x \in ToSet(c) : x \in ToSet(a) \cup ToSet(b)
      BY <1>3 DEF ToSet
  <2>2. \A x \in ToSet(a) : x \in ToSet(c)
      BY <1>4 DEF ToSet
  <2>3. \A x \in ToSet(b) : x \in ToSet(c)
      BY <1>5 DEF ToSet
  <2> QED BY <2>1, <2>2, <2>3
<1>7. ASSUME IsInjective(a), IsInjective(b), ToSet(a) \cap ToSet(b) = {} PROVE IsInjective(c)
  <2>1. \A i, j \in DOMAIN a : a[i] = a[j] => i = j
      BY <1>7 DEF IsInjective
  <2>2. \A i, j \in DOMAIN b : b[i] = b[j] => i = j
      BY <1>7 DEF IsInjective
  <2>3. \A i \in DOMAIN a : \A j \in DOMAIN b : a[i] # b[j]
      BY <1>7 DEF ToSet
  <2>4. ASSUME NEW i \in DOMAIN c, NEW j \in DOMAIN c, c[i] = c[j] PROVE i = j
    <3>1. CASE i \in DOMAIN a /\ c[i] = a[i] /\ j \in DOMAIN a /\ c[j] = a[j]
        BY <3>1, <2>1, <2>4
    <3>2. CASE /\ i > n /\ i - n \in DOMAIN b /\ c[i] = b[i - n]
               /\ j > n /\ j - n \in DOMAIN b /\ c[j] = b[j - n]
      <4>1. i - n = j - n
          BY <3>2, <2>2, <2>4
      <4> QED BY <4>1, <1>0, <1>2
    <3>3. CASE i \in DOMAIN a /\ c[i] = a[i] /\ j - n \in DOMAIN b /\ c[j] = b[j - n]
        BY <3>3, <2>3, <2>4
    <3>4. CASE j \in DOMAIN a /\ c[j] = a[j] /\ i - n \in DOMAIN b /\ c[i] = b[i - n]
        BY <3>4, <2>3, <2>4
    <3> QED BY <3>1, <3>2, <3>3, <3>4, <1>3
  <2> QED BY <2>4 DEF IsInjective
<1> QED
    BY <1>1, <1>6, <1>7 DEF c

(* SetToSeq lists the elements of a finite set, each once.                 *)
LEMMA SetToSeqIs ==
    ASSUME NEW S, IsFiniteSet(S)
    PROVE  /\ SetToSeq(S) \in Seq(S) /\ IsInjective(SetToSeq(S)) /\ ToSet(SetToSeq(S)) = S
<1> DEFINE n == Cardinality(S)
<1>1. n \in Nat
    BY FS_CardinalityType
<1>2. \E f : f \in Bijection(1..n, S)
    BY FS_CardinalityType DEF ExistsBijection
<1>k. n = Cardinality(S)
    OBVIOUS
<1> HIDE DEF n
<1>3. \E f \in [1..n -> S] : IsInjective(f)
    BY <1>2 DEF Bijection, Injection, IsInjective, Surjection
<1> DEFINE f == SetToSeq(S)
<1>4. f \in [1..n -> S] /\ IsInjective(f)
    BY <1>3 DEF SetToSeq, n
<1> HIDE DEF f
<1>5. f \in Seq(S) /\ Len(f) = n
    BY <1>1, <1>4, SeqOfFun
<1>6. ToSet(f) = S
  <2>1. f \in Injection(1..n, S)
      BY <1>4 DEF Injection, IsInjective
  <2>2. IsFiniteSet(1..n) /\ Cardinality(1..n) = n
      BY <1>1, FS_Interval
  <2>3. f \in Surjection(1..n, S)
      BY ONLY <1>k, <2>1, <2>2, FS_Injection, IsFiniteSet(S)
  <2> QED BY <2>3, <1>4 DEF Surjection, ToSet
<1> QED
    BY <1>4, <1>5, <1>6 DEF f

(* The ranks of the calls of the start.                                    *)
LEMMA Ranks ==
    /\ Rank("log_init") = 1
    /\ Rank("gf_daemonize") = 2
    /\ Rank("signal_init") = 3
    /\ Rank("gf_create_pidfile") = 4
    /\ Rank("core_ctx_alloc") = 5
    /\ Rank("conf_create") = 6
    /\ Rank("server_pool_array") = 7
    /\ Rank("conf_pool_each_transform") = 8
    /\ Rank("server_pool_each_calc_connections") = 9
    /\ Rank("server_pool_each_run") = 10
    /\ Rank("core_calc_connections") = 11
    /\ Rank("stats_alloc") = 12
    /\ Rank("current") = 13
    /\ Rank("shadow") = 14
    /\ Rank("sum") = 15
    /\ Rank("stats_create_buf") = 16
    /\ Rank("stats_listen") = 17
    /\ Rank("pthread_create") = 18
    /\ Rank("event_base_create") = 19
    /\ Rank("server_each_preconnect") = 20
    /\ Rank("proxy_each_init") = 21
    /\ Rank("core_loop") = 22
BY DEF Rank

(* Calls of the end have no rank.                                          *)
LEMMA NotOfStart ==
    \A n \in {"proxy_deinit", "server_pool_disconnect", "event_base_destroy",
              "stats_destroy", "server_pool_deinit", "conf_destroy", "gf_free",
              "conn_deinit", "gf_post_run"} : Rank(n) = 0
BY DEF Rank

(* Names of calls that are made once.                                      *)
Once == {"log_init", "gf_daemonize", "signal_init", "gf_create_pidfile",
         "core_ctx_alloc", "conf_create", "server_pool_array",
         "server_pool_each_calc_connections", "core_calc_connections",
         "stats_alloc", "current", "shadow", "sum", "stats_create_buf",
         "stats_listen", "pthread_create", "event_base_create", "core_loop"}

(* The calls of the start are among Calls.                                 *)
LEMMA CallsAre ==
    /\ \A n \in Once : Call(n) \in Calls
    /\ \A p \in Pool : /\ <<"conf_pool_each_transform", p, 0>> \in Calls
                       /\ <<"server_pool_each_run", p, 0>> \in Calls
                       /\ <<"proxy_each_init", p, 0>> \in Calls
                       /\ \A s \in 1..NSERVER[p] : <<"server_each_preconnect", p, s>> \in Calls
<1>1. \A n \in Once : Rank(n) \in 1..22 /\ n \in Name
    BY Ranks DEF Once, Name
<1>2. \A n \in Once : n \notin {"conf_pool_each_transform", "server_pool_each_run",
                              "server_each_preconnect", "proxy_each_init"}
    BY DEF Once
<1>3. \A n \in Once : Call(n) \in Calls
    BY <1>1, <1>2 DEF Calls, Call
<1>4. Pool \subseteq Nat /\ \A p \in Pool : NSERVER[p] \in Nat
    BY LifecycleAssumption DEF Pool
<1>5. /\ Rank("conf_pool_each_transform") \in 1..22 /\ Rank("server_pool_each_run") \in 1..22
      /\ Rank("proxy_each_init") \in 1..22 /\ Rank("server_each_preconnect") \in 1..22
      /\ {"conf_pool_each_transform", "server_pool_each_run", "proxy_each_init",
          "server_each_preconnect"} \subseteq Name
    BY Ranks DEF Name
<1>6. \A p \in Pool : /\ <<"conf_pool_each_transform", p, 0>> \in Calls
                      /\ <<"server_pool_each_run", p, 0>> \in Calls
                      /\ <<"proxy_each_init", p, 0>> \in Calls
    BY <1>4, <1>5 DEF Calls
<1>7. \A p \in Pool : \A s \in 1..NSERVER[p] : <<"server_each_preconnect", p, s>> \in Calls
  <2>1. \A p \in Pool : \A s \in 1..NSERVER[p] : s \in Nat
      BY <1>4
  <2> QED BY <1>4, <1>5, <2>1 DEF Calls
<1> QED
    BY <1>3, <1>6, <1>7

(* Calls in their order, with ranks between two.                           *)
Between(s, a, b) == InOrder(s) /\ \A i \in DOMAIN s : a <= Rank(s[i][1]) /\ Rank(s[i][1]) <= b

(* Two parts of the start, one after the other.                            *)
LEMMA Joined ==
    ASSUME NEW s, NEW t, NEW a \in Int, NEW b \in Int, NEW c \in Int, NEW d \in Int,
           Between(s, a, b), Between(t, c, d), a <= b, b < c, c <= d
    PROVE  Between(s \o t, a, d) /\ ToSet(s \o t) = ToSet(s) \cup ToSet(t)
<1> DEFINE u == s \o t
           n == Len(s)
           m == Len(t)
<1>0. s \in Seq(Calls) /\ t \in Seq(Calls)
    BY DEF Between, InOrder
<1>1. n \in Nat /\ m \in Nat /\ DOMAIN s = 1..n /\ DOMAIN t = 1..m
    BY <1>0
<1>2. u \in Seq(Calls) /\ Len(u) = n + m /\ \A i \in 1..(n + m) : u[i] = IF i <= n THEN s[i] ELSE t[i - n]
    BY <1>0, ConcatProperties
<1>3. ToSet(u) = ToSet(s) \cup ToSet(t)
    BY <1>0, ConcatSet
<1>4. DOMAIN u = 1..(n + m)
    BY <1>2
<1> HIDE DEF u, n, m
<1>5. \A i \in DOMAIN u : \/ i \in DOMAIN s /\ u[i] = s[i]
                          \/ i > n /\ i - n \in DOMAIN t /\ u[i] = t[i - n]
    BY <1>1, <1>2, <1>4
<1>6. \A i \in DOMAIN s : a <= Rank(s[i][1]) /\ Rank(s[i][1]) <= b /\ Rank(s[i][1]) \in Int
  <2>1. \A i \in DOMAIN s : s[i] \in Calls
      BY <1>0
  <2>2. \A x \in Calls : Rank(x[1]) \in 1..22
      BY DEF Calls
  <2>3. \A i \in DOMAIN s : Rank(s[i][1]) \in Int
      BY <2>1, <2>2
  <2> QED BY <2>3 DEF Between
<1>7. \A i \in DOMAIN t : c <= Rank(t[i][1]) /\ Rank(t[i][1]) <= d /\ Rank(t[i][1]) \in Int
  <2>1. \A i \in DOMAIN t : t[i] \in Calls
      BY <1>0
  <2>2. \A x \in Calls : Rank(x[1]) \in 1..22
      BY DEF Calls
  <2>3. \A i \in DOMAIN t : Rank(t[i][1]) \in Int
      BY <2>1, <2>2
  <2> QED BY <2>3 DEF Between
<1>8. \A i \in DOMAIN u : a <= Rank(u[i][1]) /\ Rank(u[i][1]) <= d
    BY <1>5, <1>6, <1>7
<1>9. ASSUME NEW i \in DOMAIN u, NEW j \in DOMAIN u, i < j
      PROVE  Rank(u[i][1]) <= Rank(u[j][1]) /\ u[i] # u[j]
  <2>1. CASE i \in DOMAIN s /\ u[i] = s[i] /\ j \in DOMAIN s /\ u[j] = s[j]
      BY <2>1, <1>9 DEF Between, InOrder
  <2>2. CASE /\ i > n /\ i - n \in DOMAIN t /\ u[i] = t[i - n]
             /\ j > n /\ j - n \in DOMAIN t /\ u[j] = t[j - n]
    <3>1. i - n < j - n
        BY <1>1, <1>4, <1>9
    <3> QED BY <2>2, <3>1 DEF Between, InOrder
  <2>3. CASE i \in DOMAIN s /\ u[i] = s[i] /\ j - n \in DOMAIN t /\ u[j] = t[j - n]
    <3>1. Rank(u[i][1]) <= b /\ c <= Rank(u[j][1]) /\ Rank(u[i][1]) \in Int /\ Rank(u[j][1]) \in Int
        BY <2>3, <1>6, <1>7
    <3>2. Rank(u[i][1]) < Rank(u[j][1])
        BY <3>1
    <3> QED BY <3>1, <3>2
  <2>4. CASE i > n /\ j \in DOMAIN s
      BY <2>4, <1>1, <1>4, <1>9
  <2> QED BY <2>1, <2>2, <2>3, <2>4, <1>5
<1>10. Between(u, a, d)
    BY <1>2, <1>8, <1>9 DEF Between, InOrder
<1> QED
    BY <1>3, <1>10 DEF u

(* Induction over the numbers, by a set: what holds of 0 and of the        *)
(* successor of what it holds of holds of all.                             *)
LEMMA SetInduction ==
    ASSUME NEW G, 0 \in G, \A n \in Nat : n \in G => n + 1 \in G
    PROVE  \A n \in Nat : n \in G
<1> DEFINE T == {n \in Nat : n \notin G}
           R == OpToRel(LAMBDA x, y : x < y, Nat)
<1> SUFFICES ASSUME T # {} PROVE FALSE
    OBVIOUS
<1>1. IsWellFoundedOn(R, Nat)
    BY NatLessThanWellFounded DEF OpToRel
<1>2. PICK x \in T : \A y \in T : <<y, x>> \notin R
  <2>1. T \subseteq Nat /\ T # {}
      OBVIOUS
  <2> HIDE DEF T, R
  <2> QED BY <1>1, <2>1, WFMin
<1>3. x # 0 /\ x \in Nat /\ x \notin G
    OBVIOUS
<1>4. x - 1 \in Nat /\ x - 1 < x /\ (x - 1) + 1 = x
    BY <1>3
<1>5. x - 1 \in G
  <2> SUFFICES ASSUME x - 1 \notin G PROVE FALSE
      OBVIOUS
  <2>1. x - 1 \in T
      BY <1>4
  <2>2. <<x - 1, x>>[1] = x - 1 /\ <<x - 1, x>>[2] = x /\ <<x - 1, x>> \in Nat \X Nat
      BY <1>3, <1>4
  <2>3. <<x - 1, x>> \notin R
      BY <1>2, <2>1
  <2> QED BY <1>4, <2>2, <2>3 DEF OpToRel
<1> QED
    BY <1>3, <1>4, <1>5

(* A function computed number by number, each value from the one before:   *)
(* there is one.                                                           *)
StepFun(n, V) == [1..n -> [V -> V]]
Computes(h, n, V, b, F) == /\ h \in [0..n -> V] /\ h[0] = b
                           /\ \A i \in 1..n : h[i] = F[i][h[i - 1]]

(* A value that is reached in n steps, each from the one before: the       *)
(* function of the values there are on the way.                            *)
LEMMA StepsExist ==
    ASSUME NEW n, n \in Nat, NEW V, NEW b, b \in V, NEW F, F \in StepFun(n, V)
    PROVE  \E h : Computes(h, n, V, b, F)
<1>0. F \in [1..n -> [V -> V]]
    BY DEF StepFun
<1> DEFINE G == {k \in Nat : k <= n => \E h \in [0..n -> V] :
                     h[0] = b /\ \A i \in 1..k : h[i] = F[i][h[i - 1]]}
<1>1. 0 \in G
  <2> DEFINE h == [i \in 0..n |-> b]
  <2>1. h \in [0..n -> V] /\ h[0] = b /\ \A i \in 1..0 : h[i] = F[i][h[i - 1]]
      OBVIOUS
  <2> HIDE DEF h
  <2> QED BY <2>1
<1>2. ASSUME NEW k \in Nat, k \in G PROVE k + 1 \in G
  <2> SUFFICES ASSUME k + 1 <= n
               PROVE  \E h \in [0..n -> V] :
                         h[0] = b /\ \A i \in 1..(k + 1) : h[i] = F[i][h[i - 1]]
      OBVIOUS
  <2>1. PICK h \in [0..n -> V] : h[0] = b /\ \A i \in 1..k : h[i] = F[i][h[i - 1]]
      BY <1>2
  <2> DEFINE g == [h EXCEPT ![k + 1] = F[k + 1][h[k]]]
  <2>2. F[k + 1][h[k]] \in V
      BY <1>0
  <2>3. g \in [0..n -> V] /\ g[0] = b
      BY <2>1, <2>2
  <2>4. ASSUME NEW i \in 1..(k + 1) PROVE g[i] = F[i][g[i - 1]]
    <3>1. CASE i = k + 1
      <4>1. g[k + 1] = F[k + 1][h[k]] /\ g[k] = h[k]
          BY <2>1
      <4>2. i - 1 = k
          BY <3>1
      <4> HIDE DEF g
      <4> QED BY <3>1, <4>1, <4>2
    <3>2. CASE i # k + 1
      <4>1. i \in 1..k /\ i - 1 \in 0..n /\ i - 1 # k + 1 /\ i \in 0..n
          BY <3>2
      <4>2. g[i] = h[i] /\ g[i - 1] = h[i - 1]
          BY <3>2, <4>1
      <4> HIDE DEF g
      <4> QED BY <2>1, <4>1, <4>2
    <3> QED BY <3>1, <3>2
  <2> HIDE DEF g
  <2> QED BY <2>3, <2>4
<1>3. \A k \in Nat : k \in G
  <2> HIDE DEF G
  <2>1. \A k \in Nat : k \in G => k + 1 \in G
      BY <1>2
  <2> QED BY ONLY <1>1, <2>1, SetInduction
<1>4. n \in G
    BY <1>3
<1>5. PICK h \in [0..n -> V] : h[0] = b /\ \A i \in 1..n : h[i] = F[i][h[i - 1]]
    BY <1>4
<1>6. Computes(h, n, V, b, F)
    BY <1>5 DEF Computes
<1> QED
    BY ONLY <1>6

(* The function FlattenSeq is computed by.                                 *)
IsFlat(g, s) == g = [i \in 1..Len(s) |-> IF i = 1 THEN s[i] ELSE g[i - 1] \o s[i]]

(* FlattenSeq adds its sequences one after the other.                      *)
LEMMA FlattenExists ==
    ASSUME NEW T, NEW n \in Nat, NEW s \in [1..n -> Seq(T)]
    PROVE  \E h \in [0..n -> Seq(T)] :
               /\ h[0] = <<>>
               /\ \A i \in 1..n : h[i] = h[i - 1] \o s[i]
               /\ FlattenSeq(s) = h[n]
<1> DEFINE F == [i \in 1..n |-> [v \in Seq(T) |-> v \o s[i]]]
           V == Seq(T)
           b == <<>>
           g == CHOOSE g : IsFlat(g, s)
<1>1. s \in Seq(V) /\ Len(s) = n
    OBVIOUS
<1>2. b \in V /\ F \in StepFun(n, V)
  <2>1. ASSUME NEW i \in 1..n, NEW v \in Seq(T) PROVE v \o s[i] \in Seq(T)
      OBVIOUS
  <2> QED BY <2>1 DEF StepFun
<1>3. PICK h : Computes(h, n, V, b, F)
  <2> HIDE DEF F, V, b
  <2> QED BY ONLY <1>2, n \in Nat, StepsExist
<1>4. /\ h \in [0..n -> Seq(T)] /\ h[0] = <<>>
      /\ \A i \in 1..n : h[i] = h[i - 1] \o s[i]
  <2>1. h \in [0..n -> V] /\ h[0] = b /\ \A i \in 1..n : h[i] = F[i][h[i - 1]]
    <3> HIDE DEF F, V, b
    <3> QED BY <1>3 DEF Computes
  <2>2. ASSUME NEW i \in 1..n PROVE h[i] = h[i - 1] \o s[i]
    <3>1. h[i - 1] \in Seq(T)
        BY <2>1
    <3>2. h[i] = F[i][h[i - 1]]
        BY <2>1
    <3> HIDE DEF g
    <3> QED BY <3>1, <3>2
  <2> QED BY <2>1, <2>2
<1>5. n = 0 => FlattenSeq(s) = h[n]
  <2> SUFFICES ASSUME n = 0 PROVE FlattenSeq(s) = h[n]
      OBVIOUS
  <2>1. s = <<>>
      BY <1>1
  <2>2. FlattenSeq(s) = s
      BY <1>1 DEF FlattenSeq
  <2> QED BY <2>1, <2>2, <1>4
<1>6. n # 0 => FlattenSeq(s) = g[n]
  <2> SUFFICES ASSUME n # 0 PROVE FlattenSeq(s) = g[n]
      OBVIOUS
  <2> QED BY <1>1 DEF FlattenSeq, IsFlat
<1> HIDE DEF F, V, b
<1>7. IsFlat([i \in 1..n |-> h[i]], s)
  <2> DEFINE f == [i \in 1..n |-> h[i]]
  <2>1. ASSUME NEW i \in 1..n PROVE f[i] = IF i = 1 THEN s[i] ELSE f[i - 1] \o s[i]
    <3>1. CASE i = 1
      <4>0. 1 \in 1..n /\ 1 - 1 = 0
          BY <3>1
      <4>1. h[1] = h[0] \o s[1]
        <5>1. h[1] = h[1 - 1] \o s[1]
            BY <4>0, <1>4
        <5> QED BY <5>1, <4>0
      <4>2. s[1] \in Seq(T)
          BY <3>1
      <4>3. <<>> \o s[1] = s[1]
          BY <4>2
      <4> QED BY <3>1, <4>1, <4>3, <1>4
    <3>2. CASE i # 1
      <4>1. i - 1 \in 1..n
          BY <3>2
      <4> QED BY <3>2, <4>1, <1>4
    <3> QED BY <3>1, <3>2
  <2>2. f = [i \in 1..n |-> IF i = 1 THEN s[i] ELSE f[i - 1] \o s[i]]
      BY <2>1
  <2> QED BY <2>2, <1>1 DEF IsFlat
<1>8. IsFlat(g, s)
    BY <1>7
<1> HIDE DEF g
<1>9. \A i \in 1..n : g[i] = IF i = 1 THEN s[i] ELSE g[i - 1] \o s[i]
    BY <1>1, <1>8 DEF IsFlat
<1> DEFINE K == {j \in Nat : j >= 1 /\ j <= n => g[j] = h[j]}
<1>10. 0 \in K
    OBVIOUS
<1>11. ASSUME NEW j \in Nat, j \in K PROVE j + 1 \in K
  <2> SUFFICES ASSUME j + 1 <= n PROVE g[j + 1] = h[j + 1]
      OBVIOUS
  <2>1. j + 1 \in 1..n /\ (j + 1) - 1 = j
      OBVIOUS
  <2>2. CASE j = 0
    <3>1. s[1] \in Seq(T)
        BY <2>1, <2>2
    <3>2. <<>> \o s[1] = s[1]
        BY <3>1
    <3>0. 1 \in 1..n /\ 1 - 1 = 0
        BY <2>1, <2>2
    <3>3. g[1] = s[1] /\ h[1] = h[0] \o s[1]
      <4>1. h[1] = h[1 - 1] \o s[1]
          BY <3>0, <1>4
      <4> QED BY <4>1, <3>0, <1>9
    <3> QED BY <2>2, <3>2, <3>3, <1>4
  <2>3. CASE j # 0
    <3> DEFINE i == j + 1
    <3>1. g[j] = h[j] /\ i # 1 /\ i \in 1..n /\ i - 1 = j
        BY <1>11, <2>1, <2>3
    <3> HIDE DEF i
    <3>2. h[i] = h[i - 1] \o s[i]
        BY <3>1, <1>4
    <3>3. g[i] = g[i - 1] \o s[i]
        BY <3>1, <1>9
    <3>4. g[i] = h[i]
        BY <3>1, <3>2, <3>3
    <3> QED BY <3>4 DEF i
  <2> QED BY <2>2, <2>3
<1>12. \A j \in Nat : j \in K
  <2> HIDE DEF K
  <2>1. \A j \in Nat : j \in K => j + 1 \in K
      BY <1>11
  <2> QED BY ONLY <1>10, <2>1, SetInduction
<1>13. n # 0 => g[n] = h[n]
    BY <1>12
<1>14. FlattenSeq(s) = h[n]
    BY <1>5, <1>6, <1>13
<1> QED
    BY <1>4, <1>14

(* The least of a set of numbers.                                          *)
LEMMA LeastIsThere ==
    ASSUME NEW S \in SUBSET Nat, S # {}
    PROVE  Min(S) \in S /\ \A y \in S : Min(S) <= y
<1> DEFINE R == OpToRel(LAMBDA x, y : x < y, Nat)
<1>1. IsWellFoundedOn(R, Nat)
    BY NatLessThanWellFounded DEF OpToRel
<1>2. PICK x \in S : \A y \in S : <<y, x>> \notin R
  <2> HIDE DEF R
  <2> QED BY <1>1, WFMin
<1>3. ASSUME NEW y \in S PROVE x <= y
  <2>1. x \in Nat /\ y \in Nat
      OBVIOUS
  <2>2. <<y, x>>[1] = y /\ <<y, x>>[2] = x /\ <<y, x>> \in Nat \X Nat
      BY <2>1
  <2>3. ~(y < x)
      BY <1>2, <2>2 DEF OpToRel
  <2> QED BY <2>1, <2>3
<1> QED
    BY <1>3 DEF Min

(* What holds of the empty set, and of a set when it holds of the set      *)
(* without the element a fold takes first, holds of every finite set.      *)
LEMMA PeelInduction ==
    ASSUME NEW L, IsFiniteSet(L), NEW G,
           {} \in G,
           \A s \in SUBSET L : s # {} /\ s \ {CHOOSE x \in s : TRUE} \in G => s \in G
    PROVE  \A s \in SUBSET L : s \in G
<1> DEFINE N == {n \in Nat : \A s \in SUBSET L : Cardinality(s) <= n => s \in G}
<1>0. \A s \in SUBSET L : IsFiniteSet(s) /\ Cardinality(s) \in Nat
    BY FS_Subset, FS_CardinalityType
<1>1. 0 \in N
  <2>1. ASSUME NEW s \in SUBSET L, Cardinality(s) <= 0 PROVE s \in G
    <3>1. Cardinality(s) = 0
        BY <1>0, <2>1
    <3> QED BY <3>1, <1>0, FS_EmptySet
  <2> QED BY <2>1
<1>2. ASSUME NEW n \in Nat, n \in N PROVE n + 1 \in N
  <2>1. ASSUME NEW s \in SUBSET L, Cardinality(s) <= n + 1, s # {} PROVE s \in G
    <3> DEFINE x == CHOOSE x \in s : TRUE
    <3>1. x \in s
        BY <2>1
    <3> HIDE DEF x
    <3>2. Cardinality(s \ {x}) = Cardinality(s) - 1 /\ s \ {x} \in SUBSET L
        BY <3>1, <1>0, FS_RemoveElement
    <3>3. Cardinality(s \ {x}) <= n
        BY <3>2, <2>1, <1>0
    <3>4. s \ {x} \in G
        BY <3>2, <3>3, <1>2
    <3> QED BY <3>4, <2>1 DEF x
  <2>2. \A s \in SUBSET L : Cardinality(s) <= n + 1 => s \in G
      BY <2>1
  <2> QED BY <2>2
<1>3. \A n \in Nat : n \in N
  <2> HIDE DEF N
  <2>1. \A n \in Nat : n \in N => n + 1 \in N
      BY <1>2
  <2> QED BY ONLY <1>1, <2>1, SetInduction
<1>4. ASSUME NEW s \in SUBSET L PROVE s \in G
    BY <1>0, <1>3
<1> QED
    BY <1>4

(* The function a sum over L of w is computed by: there is one.            *)
IsSum(h, L, w) ==
    h = [s \in SUBSET L |->
            IF s = {} THEN 0
            ELSE w[CHOOSE x \in s : TRUE] + h[s \ {CHOOSE x \in s : TRUE}]]

(* Sums over a finite set have such a function: each value needs that of a *)
(* smaller set only.                                                       *)
LEMMA SumExists ==
    ASSUME NEW L, IsFiniteSet(L), NEW w
    PROVE  \E h : IsSum(h, L, w)
<1> DEFINE e(s) == CHOOSE x \in s : TRUE
           F(h, s) == IF s = {} THEN 0 ELSE w[e(s)] + h[s \ {e(s)}]
           N == {n \in Nat : \E h : h = [s \in SUBSET L |-> h[s]]
                                  /\ \A s \in SUBSET L : Cardinality(s) <= n => h[s] = F(h, s)}
<1>0. \A s \in SUBSET L : IsFiniteSet(s) /\ Cardinality(s) \in Nat
    BY FS_Subset, FS_CardinalityType
<1>1. 0 \in N
  <2> DEFINE h == [s \in SUBSET L |-> 0]
  <2>1. ASSUME NEW s \in SUBSET L, Cardinality(s) <= 0 PROVE h[s] = F(h, s)
    <3>1. Cardinality(s) = 0
        BY <1>0, <2>1
    <3> QED BY <3>1, <1>0, FS_EmptySet
  <2>2. h = [s \in SUBSET L |-> h[s]]
      OBVIOUS
  <2> HIDE DEF h, F
  <2> QED BY <2>1, <2>2
<1>2. ASSUME NEW n \in Nat, n \in N PROVE n + 1 \in N
  <2>1. PICK h : /\ h = [s \in SUBSET L |-> h[s]]
                 /\ \A s \in SUBSET L : Cardinality(s) <= n => h[s] = F(h, s)
      BY <1>2
  <2> DEFINE g == [s \in SUBSET L |-> F(h, s)]
  <2>2. ASSUME NEW s \in SUBSET L, Cardinality(s) <= n + 1 PROVE g[s] = F(g, s)
    <3>1. CASE s = {}
        BY <3>1
    <3>2. CASE s # {}
      <4>1. e(s) \in s
          BY <3>2
      <4>2. Cardinality(s \ {e(s)}) = Cardinality(s) - 1 /\ s \ {e(s)} \in SUBSET L
        <5> HIDE DEF e
        <5> QED BY <4>1, <1>0, FS_RemoveElement
      <4>3. Cardinality(s \ {e(s)}) <= n
        <5> HIDE DEF e
        <5> QED BY <4>2, <2>2, <1>0
      <4>4. g[s \ {e(s)}] = h[s \ {e(s)}]
        <5> HIDE DEF e, F
        <5> QED BY <4>2, <4>3, <2>1
      <4>5. g[s] = F(h, s)
        <5> HIDE DEF e, F
        <5> QED OBVIOUS
      <4> HIDE DEF e, g
      <4> QED BY <4>4, <4>5
    <3> QED BY <3>1, <3>2
  <2>3. g = [s \in SUBSET L |-> g[s]]
      OBVIOUS
  <2>4. \A s \in SUBSET L : Cardinality(s) <= n + 1 => g[s] = F(g, s)
    <3> HIDE DEF g, F
    <3> QED BY <2>2
  <2>5. n + 1 \in Nat
      OBVIOUS
  <2> HIDE DEF g, F
  <2> QED BY ONLY <2>3, <2>4, <2>5
<1>3. \A n \in Nat : n \in N
  <2> HIDE DEF N
  <2>1. \A n \in Nat : n \in N => n + 1 \in N
      BY <1>2
  <2> QED BY ONLY <1>1, <2>1, SetInduction
<1>4. Cardinality(L) \in N
  <2> HIDE DEF N
  <2> QED BY <1>0, <1>3
<1>5. PICK h : /\ h = [s \in SUBSET L |-> h[s]]
               /\ \A s \in SUBSET L : Cardinality(s) <= Cardinality(L) => h[s] = F(h, s)
    BY <1>4
<1>6. \A s \in SUBSET L : h[s] = F(h, s)
    BY <1>5, FS_Subset
<1>7. h = [s \in SUBSET L |-> F(h, s)]
  <2> HIDE DEF F
  <2> QED BY <1>5, <1>6
<1>8. IsSum(h, L, w)
    BY ONLY <1>7 DEF IsSum
<1> QED
    BY ONLY <1>8

(* The rank of a call of the start.                                        *)
LEMMA Ranked ==
    \A x \in Calls : x \in Name \X Nat \X Nat /\ Rank(x[1]) \in 1..22 /\ Rank(x[1]) \in Int
BY DEF Calls

(* Calls with ranks that follow one another.                               *)
LEMMA Consecutive ==
    ASSUME NEW s \in Seq(Calls), NEW k \in Int, \A i \in DOMAIN s : Rank(s[i][1]) = i + k
    PROVE  Between(s, 1 + k, Len(s) + k)
<1>1. DOMAIN s = 1..Len(s) /\ Len(s) \in Nat
    OBVIOUS
<1>2. ASSUME NEW i \in DOMAIN s, NEW j \in DOMAIN s, i < j
      PROVE  Rank(s[i][1]) <= Rank(s[j][1]) /\ s[i] # s[j]
  <2>1. Rank(s[i][1]) = i + k /\ Rank(s[j][1]) = j + k /\ i \in Nat /\ j \in Nat
      BY <1>1
  <2>2. Rank(s[i][1]) < Rank(s[j][1])
      BY <2>1, <1>2
  <2> QED BY <2>1, <2>2, <1>2
<1>3. InOrder(s)
    BY <1>2 DEF InOrder
<1>4. \A i \in DOMAIN s : 1 + k <= Rank(s[i][1]) /\ Rank(s[i][1]) <= Len(s) + k
    BY <1>1
<1> QED
    BY <1>3, <1>4 DEF Between

(* Calls of one rank.                                                      *)
LEMMA OfOneRank ==
    ASSUME NEW s \in Seq(Calls), NEW k \in Int, \A i \in DOMAIN s : Rank(s[i][1]) = k,
           IsInjective(s)
    PROVE  Between(s, k, k)
<1>1. DOMAIN s = 1..Len(s) /\ Len(s) \in Nat
    OBVIOUS
<1>2. ASSUME NEW i \in DOMAIN s, NEW j \in DOMAIN s, i < j
      PROVE  Rank(s[i][1]) <= Rank(s[j][1]) /\ s[i] # s[j]
    BY <1>1, <1>2 DEF IsInjective
<1>3. InOrder(s)
    BY <1>2 DEF InOrder
<1> QED
    BY <1>1, <1>3 DEF Between

(* A part of one call.                                                     *)
LEMMA Single ==
    ASSUME NEW x \in Calls
    PROVE  /\ Between(<<x>>, Rank(x[1]), Rank(x[1])) /\ ToSet(<<x>>) = {x}
           /\ <<x>> \in Seq(Calls) /\ Head(<<x>>) = x
<1> DEFINE s == <<x>>
<1>1. s \in Seq(Calls) /\ DOMAIN s = {1} /\ s[1] = x /\ Head(s) = x
    OBVIOUS
<1> HIDE DEF s
<1>2. ToSet(s) = {x} /\ IsInjective(s)
    BY <1>1 DEF ToSet, IsInjective
<1>3. Between(s, Rank(x[1]), Rank(x[1]))
  <2>1. Rank(x[1]) \in Int /\ \A i \in DOMAIN s : Rank(s[i][1]) = Rank(x[1])
      BY <1>1, Ranked
  <2> QED BY <1>1, <1>2, <2>1, OfOneRank
<1> QED
    BY <1>1, <1>2, <1>3 DEF s

(* A part of no call.                                                      *)
LEMMA Nothing ==
    ASSUME NEW a, NEW b
    PROVE  Between(<<>>, a, b) /\ ToSet(<<>>) = {}
<1>1. <<>> \in Seq(Calls) /\ DOMAIN <<>> = {}
    OBVIOUS
<1> QED
    BY <1>1 DEF Between, InOrder, ToSet

(* Pools are numbers.                                                      *)
LEMMA PoolsAre == Pool = 1..Len(NSERVER) /\ Len(NSERVER) \in Nat /\ Pool \subseteq Nat
                  /\ IsFiniteSet(Pool) /\ \A p \in Pool : NSERVER[p] \in Nat
<1>1. Pool = 1..Len(NSERVER) /\ Len(NSERVER) \in Nat /\ \A p \in Pool : NSERVER[p] \in Nat
    BY LifecycleAssumption DEF Pool
<1>2. IsFiniteSet(Pool)
    BY <1>1, FS_Interval
<1> QED
    BY <1>1, <1>2

(* A call for each of the pools is a part of the start.                    *)
LEMMA OfPoolsAre ==
    ASSUME NEW n \in {"conf_pool_each_transform", "server_pool_each_run", "proxy_each_init"}
    PROVE  Between(OfPools(n), Rank(n), Rank(n))
<1> DEFINE s == OfPools(n)
<1>0. \A p \in Pool : <<n, p, 0>> \in Calls
    BY CallsAre
<1>1. s \in Seq(Calls) /\ DOMAIN s = Pool /\ \A p \in Pool : s[p] = <<n, p, 0>>
    BY <1>0, PoolsAre DEF OfPools
<1>2. IsInjective(s) /\ \A p \in Pool : s[p][1] = n
    BY <1>1 DEF IsInjective
<1>3. Rank(n) \in Int
    BY Ranks
<1> HIDE DEF s
<1>4. Between(s, Rank(n), Rank(n))
    BY <1>1, <1>2, <1>3, OfOneRank
<1> QED
    BY <1>4 DEF s

(* The servers that are connected first.                                   *)
LEMMA PreconnectsAre == Between(Preconnects, 20, 20)
<1> DEFINE n == Len(NSERVER)
           N == "server_each_preconnect"
           f == [p \in Pool |->
                    IF PRECONNECT[p] THEN [s \in 1..NSERVER[p] |-> <<N, p, s>>] ELSE <<>>]
           T == Calls
<1>0. Preconnects = FlattenSeq(f)
    BY DEF Preconnects
<1>1. n \in Nat /\ Pool = 1..n /\ \A p \in Pool : NSERVER[p] \in Nat
    BY PoolsAre
<1>2. ASSUME NEW p \in Pool
      PROVE  /\ f[p] \in Seq(T) /\ IsInjective(f[p])
             /\ \A x \in ToSet(f[p]) : x[1] = N /\ x[2] = p
  <2>1. CASE PRECONNECT[p]
    <3> DEFINE g == [s \in 1..NSERVER[p] |-> <<N, p, s>>]
    <3>1. f[p] = g
        BY <2>1
    <3>2. \A s \in 1..NSERVER[p] : <<N, p, s>> \in Calls
        BY CallsAre
    <3>3. g \in Seq(T) /\ DOMAIN g = 1..NSERVER[p] /\ \A s \in 1..NSERVER[p] : g[s] = <<N, p, s>>
        BY <3>2, <1>1
    <3> HIDE DEF f, g
    <3>4. IsInjective(g) /\ \A x \in ToSet(g) : x[1] = N /\ x[2] = p
        BY <3>3 DEF IsInjective, ToSet
    <3> QED BY <3>1, <3>3, <3>4
  <2>2. CASE ~PRECONNECT[p]
    <3>1. f[p] = <<>> /\ <<>> \in Seq(T) /\ DOMAIN <<>> = {}
        BY <2>2
    <3> HIDE DEF f
    <3> QED BY <3>1 DEF IsInjective, ToSet
  <2> QED BY <2>1, <2>2
<1>3. f \in [1..n -> Seq(T)]
  <2>1. f = [p \in Pool |-> f[p]]
      OBVIOUS
  <2> HIDE DEF f, T
  <2> QED BY <2>1, <1>1, <1>2
<1> HIDE DEF f, T, n, N
<1>4. PICK h \in [0..n -> Seq(T)] :
               /\ h[0] = <<>>
               /\ \A i \in 1..n : h[i] = h[i - 1] \o f[i]
               /\ FlattenSeq(f) = h[n]
    BY <1>1, <1>3, FlattenExists
<1> DEFINE G == {i \in Nat : i <= n => /\ IsInjective(h[i])
                                       /\ \A x \in ToSet(h[i]) : x[1] = N /\ x[2] \in 1..i}
<1>5. 0 \in G
  <2>1. <<>> \in Seq(T) /\ DOMAIN <<>> = {}
      OBVIOUS
  <2> QED BY <2>1, <1>4 DEF IsInjective, ToSet
<1>6. ASSUME NEW i \in Nat, i \in G PROVE i + 1 \in G
  <2> SUFFICES ASSUME i + 1 <= n
               PROVE  /\ IsInjective(h[i + 1])
                      /\ \A x \in ToSet(h[i + 1]) : x[1] = N /\ x[2] \in 1..(i + 1)
      OBVIOUS
  <2>1. i + 1 \in 1..n /\ (i + 1) - 1 = i /\ i \in 0..n /\ i + 1 \in Pool
      BY <1>1
  <2>2. h[i + 1] = h[i] \o f[i + 1] /\ h[i] \in Seq(T)
    <3> DEFINE k == i + 1
    <3>1. k \in 1..n /\ k - 1 = i
        BY <2>1
    <3> HIDE DEF k
    <3>2. h[k] = h[k - 1] \o f[k]
        BY <3>1, <1>4
    <3>3. h[k] = h[i] \o f[k] /\ h[i] \in Seq(T)
        BY <3>1, <3>2, <2>1, <1>4
    <3> QED BY <3>3 DEF k
  <2>3. /\ f[i + 1] \in Seq(T) /\ IsInjective(f[i + 1])
        /\ \A x \in ToSet(f[i + 1]) : x[1] = N /\ x[2] = i + 1
      BY <2>1, <1>2
  <2>4. IsInjective(h[i]) /\ \A x \in ToSet(h[i]) : x[1] = N /\ x[2] \in 1..i
      BY <2>1, <1>6
  <2>5. ToSet(h[i]) \cap ToSet(f[i + 1]) = {}
      BY <2>3, <2>4
  <2>6. /\ ToSet(h[i] \o f[i + 1]) = ToSet(h[i]) \cup ToSet(f[i + 1])
        /\ IsInjective(h[i] \o f[i + 1])
      BY <2>2, <2>3, <2>4, <2>5, ConcatSet
  <2> QED BY <2>2, <2>3, <2>4, <2>6
<1>7. n \in G
  <2> HIDE DEF G
  <2>1. \A i \in Nat : i \in G => i + 1 \in G
      BY <1>6
  <2>2. \A i \in Nat : i \in G
      BY ONLY <1>5, <2>1, SetInduction
  <2> QED BY <2>2, <1>1
<1>8. h[n] \in Seq(T) /\ IsInjective(h[n]) /\ \A x \in ToSet(h[n]) : x[1] = N
    BY <1>1, <1>4, <1>7
<1>9. \A i \in DOMAIN h[n] : Rank(h[n][i][1]) = 20
  <2>1. \A i \in DOMAIN h[n] : h[n][i] \in ToSet(h[n])
      BY DEF ToSet
  <2>2. Rank(N) = 20
      BY Ranks DEF N
  <2> QED BY <2>1, <2>2, <1>8
<1> QED
    BY <1>0, <1>4, <1>8, <1>9, OfOneRank DEF T

(* The nine calls from core_calc_connections on.                           *)
Middle == <<Call("core_calc_connections"), Call("stats_alloc"),
            Call("current"), Call("shadow"), Call("sum"),
            Call("stats_create_buf"), Call("stats_listen"), Call("pthread_create"),
            Call("event_base_create")>>
First3 == <<Call("core_ctx_alloc"), Call("conf_create"), Call("server_pool_array")>>

(* The calls of First3 are a part of the start.                            *)
LEMMA First3Is ==
    /\ Between(First3, 5, 7)
    /\ Call("conf_create") \in ToSet(First3) /\ Call("server_pool_array") \in ToSet(First3)
<1> DEFINE s == First3
           n == 3
<1>0. n = 3 /\ \A i \in 1..n : i = 1 \/ i = 2 \/ i = 3
    OBVIOUS
<1>1. /\ Call("core_ctx_alloc") \in Calls /\ Call("conf_create") \in Calls
      /\ Call("server_pool_array") \in Calls
    BY CallsAre DEF Once
<1>2. /\ s \in Seq(Calls) /\ DOMAIN s = 1..n /\ Len(s) = n
      /\ s[1] = Call("core_ctx_alloc") /\ s[2] = Call("conf_create")
      /\ s[3] = Call("server_pool_array")
  <2>1. \A a, b, c \in Calls : LET t == <<a, b, c>> IN
            /\ t \in Seq(Calls) /\ DOMAIN t = 1..3 /\ Len(t) = 3
            /\ t[1] = a /\ t[2] = b /\ t[3] = c
      OBVIOUS
  <2> QED BY <2>1, <1>1 DEF First3
<1>3. /\ Rank(s[1][1]) = 1 + 4 /\ Rank(s[2][1]) = 2 + 4 /\ Rank(s[3][1]) = 3 + 4
    BY <1>2, Ranks DEF Call
<1> HIDE DEF s, n
<1>4. \A i \in DOMAIN s : Rank(s[i][1]) = i + 4
    BY <1>0, <1>2, <1>3
<1>5. Between(s, 1 + 4, Len(s) + 4)
    BY <1>2, <1>4, Consecutive
<1>6. 1 + 4 = 5 /\ Len(s) + 4 = 7
    BY <1>0, <1>2
<1>7. 2 \in DOMAIN s /\ 3 \in DOMAIN s
    BY <1>0, <1>2
<1>8. s[2] \in ToSet(s) /\ s[3] \in ToSet(s)
    BY <1>7 DEF ToSet
<1> QED
    BY <1>2, <1>5, <1>6, <1>8 DEF s

(* The calls of Middle are a part of the start.                            *)
LEMMA MiddleIs ==
    /\ Between(Middle, 11, 19)
    /\ Call("core_calc_connections") \in ToSet(Middle) /\ Call("stats_alloc") \in ToSet(Middle)
<1> DEFINE s == Middle
           n == 9
<1>0. n = 9 /\ \A i \in 1..n : \/ i = 1 \/ i = 2 \/ i = 3 \/ i = 4 \/ i = 5
                               \/ i = 6 \/ i = 7 \/ i = 8 \/ i = 9
    OBVIOUS
<1>1. /\ Call("core_calc_connections") \in Calls /\ Call("stats_alloc") \in Calls
      /\ Call("current") \in Calls /\ Call("shadow") \in Calls /\ Call("sum") \in Calls
      /\ Call("stats_create_buf") \in Calls /\ Call("stats_listen") \in Calls
      /\ Call("pthread_create") \in Calls /\ Call("event_base_create") \in Calls
    BY CallsAre DEF Once
<1>2. /\ s \in Seq(Calls) /\ DOMAIN s = 1..n /\ Len(s) = n
      /\ s[1] = Call("core_calc_connections") /\ s[2] = Call("stats_alloc")
      /\ s[3] = Call("current") /\ s[4] = Call("shadow") /\ s[5] = Call("sum")
      /\ s[6] = Call("stats_create_buf") /\ s[7] = Call("stats_listen")
      /\ s[8] = Call("pthread_create") /\ s[9] = Call("event_base_create")
  <2>1. ASSUME NEW T, NEW a \in T, NEW b \in T, NEW c \in T, NEW d \in T, NEW e \in T,
               NEW f \in T, NEW g \in T, NEW h \in T, NEW k \in T
        PROVE  LET t == <<a, b, c, d, e, f, g, h, k>> IN
            /\ t \in Seq(T) /\ DOMAIN t = 1..9 /\ Len(t) = 9
            /\ t[1] = a /\ t[2] = b /\ t[3] = c /\ t[4] = d /\ t[5] = e
            /\ t[6] = f /\ t[7] = g /\ t[8] = h /\ t[9] = k
      OBVIOUS
  <2> QED BY <2>1, <1>1 DEF Middle
<1>3. /\ Rank(s[1][1]) = 1 + 10 /\ Rank(s[2][1]) = 2 + 10 /\ Rank(s[3][1]) = 3 + 10
      /\ Rank(s[4][1]) = 4 + 10 /\ Rank(s[5][1]) = 5 + 10 /\ Rank(s[6][1]) = 6 + 10
      /\ Rank(s[7][1]) = 7 + 10 /\ Rank(s[8][1]) = 8 + 10 /\ Rank(s[9][1]) = 9 + 10
    BY <1>2, Ranks DEF Call
<1> HIDE DEF s, n
<1>4. \A i \in DOMAIN s : Rank(s[i][1]) = i + 10
    BY <1>0, <1>2, <1>3
<1>5. Between(s, 1 + 10, Len(s) + 10)
  <2> DEFINE k == 10
  <2>1. k \in Int /\ s \in Seq(Calls) /\ \A i \in DOMAIN s : Rank(s[i][1]) = i + k
      BY <1>2, <1>4
  <2> HIDE DEF k
  <2>2. Between(s, 1 + k, Len(s) + k)
      BY ONLY <2>1, Consecutive
  <2> QED BY <2>2 DEF k
<1>6. 1 + 10 = 11 /\ Len(s) + 10 = 19
    BY <1>0, <1>2
<1>7. 1 \in DOMAIN s /\ 2 \in DOMAIN s
    BY <1>0, <1>2
<1>8. s[1] \in ToSet(s) /\ s[2] \in ToSet(s)
    BY <1>7 DEF ToSet
<1> QED
    BY <1>2, <1>5, <1>6, <1>8 DEF s

(* A call that is made once is a part of the start.                        *)
LEMMA Alone ==
    ASSUME NEW n \in Once
    PROVE  Between(<<Call(n)>>, Rank(n), Rank(n)) /\ ToSet(<<Call(n)>>) = {Call(n)}
<1>1. Call(n) \in Calls /\ Call(n)[1] = n
    BY CallsAre DEF Call
<1> QED
    BY <1>1, Single

(* What core_ctx_create calls.                                             *)
LEMMA CreateIs ==
    /\ Between(core_ctx_create, 5, 21)
    /\ {Call("conf_create"), Call("server_pool_array"), Call("stats_alloc"),
        Call("server_pool_each_calc_connections"), Call("core_calc_connections")}
          \subseteq ToSet(core_ctx_create)
<1> DEFINE s1 == First3 \o OfPools("conf_pool_each_transform")
           c == <<Call("server_pool_each_calc_connections")>>
           s2 == s1 \o c
           s3 == s2 \o OfPools("server_pool_each_run")
           s4 == s3 \o Middle
           s5 == s4 \o Preconnects
           s6 == s5 \o OfPools("proxy_each_init")
<1>0. core_ctx_create = s6
    BY DEF core_ctx_create, First3, Middle
<1>1. /\ Between(First3, 5, 7) /\ Between(OfPools("conf_pool_each_transform"), 8, 8)
      /\ Between(OfPools("server_pool_each_run"), 10, 10) /\ Between(c, 9, 9)
      /\ Between(Middle, 11, 19) /\ Between(Preconnects, 20, 20)
      /\ Between(OfPools("proxy_each_init"), 21, 21)
  <2>1. Between(c, 9, 9)
    <3>1. "server_pool_each_calc_connections" \in Once
        BY DEF Once
    <3> QED BY <3>1, Alone, Ranks
  <2>2. Between(OfPools("conf_pool_each_transform"), 8, 8)
      BY OfPoolsAre, Ranks
  <2>3. Between(OfPools("server_pool_each_run"), 10, 10)
      BY OfPoolsAre, Ranks
  <2>4. Between(OfPools("proxy_each_init"), 21, 21)
      BY OfPoolsAre, Ranks
  <2> HIDE DEF c
  <2> QED BY <2>1, <2>2, <2>3, <2>4, First3Is, MiddleIs, PreconnectsAre
<1>2. /\ 5 <= 7 /\ 7 < 8 /\ 8 <= 8 /\ 5 <= 8 /\ 8 < 9 /\ 9 <= 9 /\ 5 <= 9 /\ 9 < 10
      /\ 10 <= 10 /\ 5 <= 10 /\ 10 < 11 /\ 11 <= 19 /\ 5 <= 19 /\ 19 < 20 /\ 20 <= 20
      /\ 5 <= 20 /\ 20 < 21 /\ 21 <= 21
      /\ 5 \in Int /\ 7 \in Int /\ 8 \in Int /\ 9 \in Int /\ 10 \in Int /\ 11 \in Int
      /\ 19 \in Int /\ 20 \in Int /\ 21 \in Int
    OBVIOUS
<1>c. ToSet(c) = {Call("server_pool_each_calc_connections")}
  <2>1. "server_pool_each_calc_connections" \in Once
      BY DEF Once
  <2> QED BY <2>1, Alone
<1> HIDE DEF c
<1>3. Between(s1, 5, 8) /\ ToSet(First3) \subseteq ToSet(s1)
    BY <1>1, <1>2, Joined
<1> HIDE DEF s1
<1>4. Between(s2, 5, 9) /\ ToSet(s1) \cup ToSet(c) \subseteq ToSet(s2)
    BY <1>1, <1>2, <1>3, Joined
<1> HIDE DEF s2
<1>5. Between(s3, 5, 10) /\ ToSet(s2) \subseteq ToSet(s3)
    BY <1>1, <1>2, <1>4, Joined
<1> HIDE DEF s3
<1>6. Between(s4, 5, 19) /\ ToSet(s3) \cup ToSet(Middle) \subseteq ToSet(s4)
    BY <1>1, <1>2, <1>5, Joined
<1> HIDE DEF s4
<1>7. Between(s5, 5, 20) /\ ToSet(s4) \subseteq ToSet(s5)
    BY <1>1, <1>2, <1>6, Joined
<1> HIDE DEF s5
<1>8. Between(s6, 5, 21) /\ ToSet(s5) \subseteq ToSet(s6)
    BY <1>1, <1>2, <1>7, Joined
<1> HIDE DEF s6
<1>9. {Call("conf_create"), Call("server_pool_array")} \subseteq ToSet(s6)
    BY <1>3, <1>4, <1>5, <1>6, <1>7, <1>8, First3Is
<1>10. {Call("server_pool_each_calc_connections")} \subseteq ToSet(s6)
    BY <1>c, <1>4, <1>5, <1>6, <1>7, <1>8
<1>11. {Call("core_calc_connections"), Call("stats_alloc")} \subseteq ToSet(s6)
    BY <1>6, <1>7, <1>8, MiddleIs
<1> QED
    BY <1>0, <1>8, <1>9, <1>10, <1>11

(* What main calls.                                                        *)
LEMMA MainIs ==
    ASSUME NEW d \in BOOLEAN, NEW pid \in BOOLEAN
    PROVE  /\ InOrder(main(d, pid)) /\ main(d, pid) # <<>>
           /\ Head(main(d, pid)) = Call("log_init")
           /\ {Call("conf_create"), Call("server_pool_array"), Call("stats_alloc"),
               Call("server_pool_each_calc_connections"), Call("core_calc_connections"),
               Call("core_loop")} \subseteq ToSet(main(d, pid))
<1> DEFINE a == <<Call("log_init")>>
           b == IF d THEN <<Call("gf_daemonize")>> ELSE <<>>
           c == <<Call("signal_init")>>
           e == IF pid THEN <<Call("gf_create_pidfile")>> ELSE <<>>
           f == <<Call("core_loop")>>
           s1 == a \o b
           s2 == s1 \o c
           s3 == s2 \o e
           s4 == s3 \o core_ctx_create
           s5 == s4 \o f
<1>0. main(d, pid) = s5
    BY DEF main
<1>1. /\ Between(a, 1, 1) /\ Between(b, 2, 2) /\ Between(c, 3, 3) /\ Between(e, 4, 4)
      /\ Between(core_ctx_create, 5, 21) /\ Between(f, 22, 22) /\ ToSet(f) = {Call("core_loop")}
  <2>1. /\ "log_init" \in Once /\ "gf_daemonize" \in Once /\ "signal_init" \in Once
        /\ "gf_create_pidfile" \in Once /\ "core_loop" \in Once
      BY DEF Once
  <2>2. Between(a, 1, 1)
      BY <2>1, Alone, Ranks
  <2>3. Between(b, 2, 2)
    <3>1. Between(<<Call("gf_daemonize")>>, 2, 2)
        BY <2>1, Alone, Ranks
    <3> QED BY <3>1, Nothing
  <2>4. Between(c, 3, 3)
      BY <2>1, Alone, Ranks
  <2>5. Between(e, 4, 4)
    <3>1. Between(<<Call("gf_create_pidfile")>>, 4, 4)
        BY <2>1, Alone, Ranks
    <3> QED BY <3>1, Nothing
  <2>6. Between(f, 22, 22) /\ ToSet(f) = {Call("core_loop")}
      BY <2>1, Alone, Ranks
  <2> HIDE DEF a, b, c, e, f
  <2> QED BY <2>2, <2>3, <2>4, <2>5, <2>6, CreateIs
<1>2. /\ 1 <= 1 /\ 1 < 2 /\ 2 <= 2 /\ 1 <= 2 /\ 2 < 3 /\ 3 <= 3 /\ 1 <= 3 /\ 3 < 4
      /\ 4 <= 4 /\ 1 <= 4 /\ 4 < 5 /\ 5 <= 21 /\ 1 <= 21 /\ 21 < 22 /\ 22 <= 22
      /\ 1 \in Int /\ 2 \in Int /\ 3 \in Int /\ 4 \in Int /\ 5 \in Int
      /\ 21 \in Int /\ 22 \in Int
    OBVIOUS
<1>a. a \in Seq(Calls) /\ Len(a) > 0 /\ a[1] = Call("log_init")
  <2>1. Call("log_init") \in Calls
      BY CallsAre DEF Once
  <2> QED BY <2>1
<1> HIDE DEF a, b, c, e, f
<1>3. Between(s1, 1, 2)
    BY <1>1, <1>2, Joined
<1>4. /\ b \in Seq(Calls) /\ c \in Seq(Calls) /\ e \in Seq(Calls)
      /\ core_ctx_create \in Seq(Calls) /\ f \in Seq(Calls)
    BY <1>1 DEF Between, InOrder
<1>5. s1 \in Seq(Calls) /\ Len(s1) > 0 /\ s1[1] = Call("log_init")
    BY <1>a, <1>4
<1> HIDE DEF s1
<1>6. Between(s2, 1, 3) 
    BY <1>1, <1>2, <1>3, Joined
<1>7. s2 \in Seq(Calls) /\ Len(s2) > 0 /\ s2[1] = Call("log_init")
    BY <1>4, <1>5
<1> HIDE DEF s2
<1>8. Between(s3, 1, 4) 
    BY <1>1, <1>2, <1>6, Joined
<1>9. s3 \in Seq(Calls) /\ Len(s3) > 0 /\ s3[1] = Call("log_init")
    BY <1>4, <1>7
<1> HIDE DEF s3
<1>10. Between(s4, 1, 21) /\ ToSet(core_ctx_create) \subseteq ToSet(s4)
    BY <1>1, <1>2, <1>8, Joined
<1>11. s4 \in Seq(Calls) /\ Len(s4) > 0 /\ s4[1] = Call("log_init")
    BY <1>4, <1>9
<1> HIDE DEF s4
<1>12. Between(s5, 1, 22) /\ ToSet(s5) = ToSet(s4) \cup ToSet(f)
    BY <1>1, <1>2, <1>10, Joined
<1>13. s5 \in Seq(Calls) /\ Len(s5) > 0 /\ s5[1] = Call("log_init")
    BY <1>4, <1>11
<1> HIDE DEF s5
<1>14. InOrder(s5)
    BY <1>12 DEF Between
<1>15. {Call("conf_create"), Call("server_pool_array"), Call("stats_alloc"),
        Call("server_pool_each_calc_connections"), Call("core_calc_connections"),
        Call("core_loop")} \subseteq ToSet(s5)
    BY <1>1, <1>10, <1>12, CreateIs
<1>16. s5 # <<>> /\ Head(s5) = Call("log_init")
    BY <1>13
<1> QED
    BY <1>0, <1>14, <1>15, <1>16

(* The depth at which the failure of a call begins to unwind.              *)
LEMMA Depths ==
    /\ \A n \in {"log_init", "gf_daemonize", "signal_init", "gf_create_pidfile"} : Depth(n) = 9
    /\ Depth("core_ctx_alloc") = 8 /\ Depth("conf_create") = 7 /\ Depth("server_pool_array") = 6
    /\ \A n \in {"conf_pool_each_transform", "server_pool_each_calc_connections",
                 "server_pool_each_run", "core_calc_connections", "stats_alloc"} : Depth(n) = 5
    /\ \A n \in {"current", "shadow", "sum", "stats_create_buf", "stats_listen",
                 "pthread_create", "event_base_create"} : Depth(n) = 4
    /\ Depth("server_each_preconnect") = 2 /\ Depth("proxy_each_init") = 1
    /\ Depth("core_loop") = 0
<1>1. \A n \in {"log_init", "gf_daemonize", "signal_init", "gf_create_pidfile"} : Depth(n) = 9
    BY Ranks DEF Depth
<1>2. Depth("core_ctx_alloc") = 8 /\ Depth("conf_create") = 7 /\ Depth("server_pool_array") = 6
    BY Ranks DEF Depth
<1>3. \A n \in {"conf_pool_each_transform", "server_pool_each_calc_connections",
                "server_pool_each_run", "core_calc_connections", "stats_alloc"} : Depth(n) = 5
    BY Ranks DEF Depth
<1>4. \A n \in {"current", "shadow", "sum", "stats_create_buf", "stats_listen",
                "pthread_create", "event_base_create"} : Depth(n) = 4
    BY Ranks DEF Depth
<1>5. Depth("server_each_preconnect") = 2 /\ Depth("proxy_each_init") = 1
      /\ Depth("core_loop") = 0
    BY Ranks DEF Depth
<1> QED
    BY <1>1, <1>2, <1>3, <1>4, <1>5

(* When no connection has been opened.                                     *)
LEMMA NoConnections ==
    ASSUME \A c \in Conn : cs.conn[c] = [st |-> "never", owner |-> Nobody, open |-> FALSE],
           cs.conn \in [Conn -> [st : {"never", "used", "free", "freed"},
                                 owner : Owner, open : BOOLEAN]],
           cs.freeq = <<>>, cs.nleak = 0,
           cs \in [conn : {cs.conn}, freeq : {cs.freeq}, nleak : {cs.nleak},
                   broken : {cs.broken}, touched : {cs.touched}]
    PROVE  /\ Structs(cs) /\ Limits(cs) /\ Clients(cs) = {}
           /\ \A p \in Pool : OwnedBy(cs, <<"proxy", p, 0>>) = {}
           /\ \A p \in Pool : \A s \in 1..NSERVER[p] : OwnedBy(cs, <<"server", p, s>>) = {}
           /\ \A k : OwnersHeld(cs, k) /\ StructsHeld(cs, k)
<1>1. \A c \in Conn : cs.conn[c].owner = Nobody /\ cs.conn[c].st = "never" /\ ~cs.conn[c].open
    OBVIOUS
<1>2. Structs(cs)
  <2>1. <<>> \in Seq(Conn) /\ DOMAIN <<>> = {}
      OBVIOUS
  <2>2. ToSet(cs.freeq) = {} /\ IsInjective(cs.freeq)
      BY <2>1 DEF ToSet, IsInjective
  <2> QED BY <1>1, <2>1, <2>2 DEF Structs
<1>3. \A p \in Pool : OwnedBy(cs, <<"proxy", p, 0>>) = {}
    BY <1>1 DEF OwnedBy, Nobody
<1>4. \A p \in Pool : \A s \in 1..NSERVER[p] : OwnedBy(cs, <<"server", p, s>>) = {}
    BY <1>1 DEF OwnedBy, Nobody
<1>5. Limits(cs)
  <2>1. Cardinality({}) = 0
      BY FS_EmptySet
  <2>2. \A p \in Pool : SERVER_CONNECTIONS[p] \in Nat
      BY LifecycleAssumption
  <2>3. ASSUME NEW p \in Pool, NEW s \in 1..NSERVER[p]
        PROVE  Cardinality(OwnedBy(cs, <<"server", p, s>>)) <= SERVER_CONNECTIONS[p]
    <3>1. Cardinality(OwnedBy(cs, <<"server", p, s>>)) = 0
        BY <1>4, <2>1
    <3> QED BY <2>2, <3>1
  <2>4. ASSUME NEW p \in Pool PROVE Cardinality(OwnedBy(cs, <<"proxy", p, 0>>)) <= 1
    <3>1. Cardinality(OwnedBy(cs, <<"proxy", p, 0>>)) = 0
        BY <1>3, <2>1
    <3> QED BY <3>1
  <2> QED BY <2>3, <2>4 DEF Limits
<1>6. Clients(cs) = {}
    BY <1>1 DEF Clients, Nobody
<1>7. \A k : OwnersHeld(cs, k) /\ StructsHeld(cs, k)
    BY <1>1 DEF OwnersHeld, StructsHeld, Nobody
<1> QED
    BY <1>2, <1>3, <1>4, <1>5, <1>6, <1>7

(* A sequence over a subset.                                               *)
LEMMA SeqOfSubset ==
    ASSUME NEW S, NEW T, S \subseteq T, NEW s \in Seq(S)
    PROVE  s \in Seq(T)
OBVIOUS

(* The invariant holds at the start.                                       *)
LEMMA InitIInv == Init => IInv
<1> SUFFICES ASSUME Init PROVE IInv
    OBVIOUS
<1>1. PICK d \in BOOLEAN, pid \in BOOLEAN : todo = main(d, pid)
    BY DEF Init
<1>2. /\ InOrder(todo) /\ Head(todo) = Call("log_init") /\ todo # <<>>
      /\ {Call("conf_create"), Call("server_pool_array"), Call("stats_alloc"),
          Call("server_pool_each_calc_connections"), Call("core_calc_connections"),
          Call("core_loop")} \subseteq ToSet(todo)
    BY <1>1, MainIs
<1>3. todo \in Seq(Name \X Nat \X Nat)
  <2>1. Calls \subseteq Name \X Nat \X Nat
      BY DEF Calls
  <2> QED BY <1>2, <2>1, SeqOfSubset DEF InOrder
<1>4. /\ \A c \in Conn : cs.conn[c] = [st |-> "never", owner |-> Nobody, open |-> FALSE]
      /\ cs.conn \in [Conn -> [st : {"never", "used", "free", "freed"},
                               owner : Owner, open : BOOLEAN]]
      /\ cs.freeq = <<>> /\ cs.nleak = 0
      /\ cs.broken = {} /\ cs.touched = {}
      /\ cs \in [conn : {cs.conn}, freeq : {cs.freeq}, nleak : {cs.nleak},
                 broken : {cs.broken}, touched : {cs.touched}]
  <2>1. Nobody \in Owner
      BY DEF Owner
  <2> QED BY <2>1 DEF Init
<1>5. /\ Structs(cs) /\ Limits(cs) /\ Clients(cs) = {}
      /\ \A p \in Pool : OwnedBy(cs, <<"proxy", p, 0>>) = {}
      /\ \A p \in Pool : \A s \in 1..NSERVER[p] : OwnedBy(cs, <<"server", p, s>>) = {}
      /\ OwnersHeld(cs, 9) /\ StructsHeld(cs, 9)
    BY <1>4, NoConnections
<1>6. TypeOK
  <2>1. /\ fds = Std /\ nfd \in NFD /\ max_nsconn = 0 /\ max_ncconn = 0
        /\ nci \in [wanted : BOOLEAN, pidfile : {FALSE}, file : {FALSE}]
        /\ thread = "none" /\ stopping = FALSE /\ interrupted = FALSE /\ nfault = 0
      BY DEF Init
  <2>2. nci \in [wanted : BOOLEAN, pidfile : BOOLEAN, file : BOOLEAN]
      BY <2>1
  <2>3. 0 \in 0..(WORD - 1) /\ 0 \in 0..MaxFault
      BY LifecycleAssumption
  <2>4. cs.freeq \in Seq(Conn) /\ cs.nleak \in Nat
      BY <1>5 DEF Structs
  <2> QED BY <1>3, <1>4, <2>1, <2>2, <2>3, <2>4 DEF TypeOK
<1>7. Cardinality(Clients(cs)) <= max_ncconn
  <2>1. Cardinality({}) = 0 /\ max_ncconn = 0
      BY FS_EmptySet DEF Init
  <2> QED BY <1>5, <2>1
<1>8. Clean(cs)
    BY <1>4 DEF Clean
<1>9. HeldBy(heap, fds, cs, nci, 9)
  <2>1. heap = {} /\ fds = Std /\ ~nci.file
      BY DEF Init
  <2> QED BY <1>5, <2>1 DEF HeldBy, BlocksHeld, FdsHeld, FileHeld
<1>10. Depth(Head(todo)[1]) = 9
  <2>1. Head(todo)[1] = "log_init"
      BY <1>2 DEF Call
  <2> QED BY <2>1, Depths
<1>11. ~stopping /\ ~interrupted
    BY DEF Init
<1>12. Starts
  <2>1. NoneFreed(cs)
      BY <1>4 DEF NoneFreed
  <2>2. Pending(todo, heap, cs, nfd, max_nsconn, max_ncconn)
      BY <1>2, <1>5 DEF Pending
  <2>3. HeldBy(heap, fds, cs, nci, Depth(Head(todo)[1]))
      BY <1>9, <1>10
  <2>4. Started(todo, heap, fds, cs, nci, nfd, max_nsconn, max_ncconn)
      BY <1>2, <2>1, <2>2, <2>3 DEF Started
  <2> QED BY <1>11, <2>4 DEF Starts
<1> QED
    BY <1>5, <1>6, <1>7, <1>8, <1>12 DEF IInv

Struct == [st : {"never", "used", "free", "freed"}, owner : Owner, open : BOOLEAN]

(* The structures are finitely many numbers.                               *)
LEMMA ConnsFinite == IsFiniteSet(Conn) /\ Conn \subseteq Nat
<1>1. NConn \in Nat
    BY LifecycleAssumption
<1> QED
    BY <1>1, FS_Interval DEF Conn

(* Whom a connection may belong to.                                        *)
LEMMA OwnersAre ==
    /\ Nobody \in Owner
    /\ \A p \in Pool : <<"client", p, 0>> \in Owner /\ <<"proxy", p, 0>> \in Owner
    /\ \A p \in Pool : \A s \in 1..NSERVER[p] : <<"server", p, s>> \in Owner
    /\ \A o \in Owner :
          /\ o[1] = "proxy" => \E p \in Pool : o = <<"proxy", p, 0>>
          /\ o[1] = "client" => \E p \in Pool : o = <<"client", p, 0>>
          /\ o[1] = "server" => \E p \in Pool : \E s \in 1..NSERVER[p] : o = <<"server", p, s>>
          /\ o # Nobody => o[1] \in {"proxy", "client", "server"}
<1>1. \A o \in Owner : \/ o = Nobody
                       \/ \E p \in Pool : o = <<"client", p, 0>>
                       \/ \E p \in Pool : o = <<"proxy", p, 0>>
                       \/ \E p \in Pool : \E s \in 1..NSERVER[p] : o = <<"server", p, s>>
    BY DEF Owner
<1>2. Nobody \in Owner /\ \A p \in Pool : <<"client", p, 0>> \in Owner /\ <<"proxy", p, 0>> \in Owner
    BY DEF Owner
<1>3. \A p \in Pool : \A s \in 1..NSERVER[p] : <<"server", p, s>> \in Owner
    BY DEF Owner
<1> QED
    BY <1>1, <1>2, <1>3 DEF Nobody

(* Structures that are taken.                                              *)
LEMMA AvailableIs ==
    ASSUME NEW h, Structs(h), NEW c \in Available(h)
    PROVE  /\ c \in Conn /\ h.conn[c].owner = Nobody /\ h.conn[c].st # "used"
           /\ \/ h.freeq # <<>> /\ c = Head(h.freeq)
              \/ h.freeq = <<>> /\ h.conn[c].st = "never"
<1>1. CASE h.freeq # <<>>
  <2>1. c = Head(h.freeq) /\ h.freeq \in Seq(Conn)
      BY <1>1 DEF Available, Structs
  <2>2. Head(h.freeq) \in ToSet(h.freeq) /\ Head(h.freeq) \in Conn
      BY <1>1, <2>1, TailFacts
  <2>3. h.conn[c].st \in {"free", "freed"}
      BY <2>1, <2>2 DEF Structs
  <2> QED BY <1>1, <2>1, <2>2, <2>3 DEF Structs
<1>2. CASE h.freeq = <<>>
  <2> DEFINE new == {d \in Conn : h.conn[d].st = "never"}
  <2>1. new # {} /\ c = Min(new)
      BY <1>2 DEF Available
  <2>2. new \in SUBSET Nat
      BY ConnsFinite
  <2>3. c \in new
    <3> HIDE DEF new
    <3> QED BY <2>1, <2>2, LeastIsThere
  <2> QED BY <1>2, <2>3 DEF Structs
<1> QED
    BY <1>1, <1>2

(* What conn_get makes of the structures.                                  *)
LEMMA GetIs ==
    ASSUME NEW h, Structs(h), NEW c \in Available(h), NEW o \in Owner, o # Nobody,
           NEW open \in BOOLEAN
    PROVE  LET g == conn_get(h, c, o, open)
           IN /\ Structs(g) /\ c \in Conn /\ h.conn[c].owner = Nobody /\ h.conn[c].st # "used"
              /\ g.conn[c] = [st |-> "used", owner |-> o, open |-> open]
              /\ \A d \in Conn : d # c => g.conn[d] = h.conn[d]
              /\ g.broken = h.broken /\ g.touched = h.touched /\ g.nleak = h.nleak
<1> DEFINE g == conn_get(h, c, o, open)
           x == [st |-> "used", owner |-> o, open |-> open]
<1>1. /\ c \in Conn /\ h.conn[c].owner = Nobody /\ h.conn[c].st # "used"
      /\ \/ h.freeq # <<>> /\ c = Head(h.freeq)
         \/ h.freeq = <<>> /\ h.conn[c].st = "never"
    BY AvailableIs
<1>2. /\ h \in [conn : {h.conn}, freeq : {h.freeq}, nleak : {h.nleak},
                broken : {h.broken}, touched : {h.touched}]
      /\ h.conn \in [Conn -> Struct] /\ h.freeq \in Seq(Conn) /\ h.nleak \in Nat
    BY DEF Structs, Struct
<1>3. x \in Struct /\ x.st = "used" /\ x.owner = o /\ x.open = open
    BY DEF Struct
<1>5. /\ g.conn = [h.conn EXCEPT ![c] = x]
      /\ g.freeq = IF h.freeq = <<>> THEN h.freeq ELSE Tail(h.freeq)
      /\ g.nleak = h.nleak /\ g.broken = h.broken /\ g.touched = h.touched
      /\ g \in [conn : {g.conn}, freeq : {g.freeq}, nleak : {g.nleak},
                broken : {g.broken}, touched : {g.touched}]
    BY <1>2 DEF conn_get
<1> HIDE DEF g, x
<1>6. /\ g.conn \in [Conn -> Struct] /\ g.conn[c] = x
      /\ \A d \in Conn : d # c => g.conn[d] = h.conn[d]
    BY <1>1, <1>2, <1>3, <1>5
<1>7. /\ g.freeq \in Seq(Conn) /\ IsInjective(g.freeq)
      /\ ToSet(g.freeq) = {d \in Conn : g.conn[d].st \in {"free", "freed"}}
  <2>1. IsInjective(h.freeq) /\ ToSet(h.freeq) = {d \in Conn : h.conn[d].st \in {"free", "freed"}}
      BY DEF Structs
  <2>2. CASE h.freeq # <<>> /\ c = Head(h.freeq)
    <3>1. /\ Tail(h.freeq) \in Seq(Conn) /\ IsInjective(Tail(h.freeq))
          /\ ToSet(h.freeq) = {c} \cup ToSet(Tail(h.freeq)) /\ c \notin ToSet(Tail(h.freeq))
        BY <2>1, <2>2, <1>2, TailFacts
    <3>2. g.freeq = Tail(h.freeq)
        BY <2>2, <1>5
    <3>3. ToSet(g.freeq) = ToSet(h.freeq) \ {c}
        BY <3>1, <3>2
    <3> QED BY <2>1, <3>1, <3>2, <3>3, <1>3, <1>6
  <2>3. CASE h.freeq = <<>> /\ h.conn[c].st = "never"
    <3>1. g.freeq = h.freeq
        BY <2>3, <1>5
    <3> QED BY <2>1, <2>3, <3>1, <1>2, <1>3, <1>6
  <2> QED BY <2>2, <2>3, <1>1
<1>8. \A d \in Conn : /\ g.conn[d].st = "used" <=> g.conn[d].owner # Nobody
                      /\ g.conn[d].open => g.conn[d].st = "used"
    BY <1>3, <1>6 DEF Structs
<1>9. Structs(g)
    BY <1>2, <1>5, <1>6, <1>7, <1>8 DEF Structs, Struct
<1> QED
    BY <1>1, <1>5, <1>6, <1>9 DEF g, x

(* Structures that were put back.                                          *)
Puts(g, h, S) ==
    /\ Structs(g)
    /\ \A c \in Conn : g.conn[c] = IF c \in S THEN Released ELSE h.conn[c]
    /\ h.broken \subseteq g.broken /\ g.broken \subseteq h.broken \cup {"conn_put: sd < 0"}
    /\ (\A c \in Conn : h.conn[c].st # "freed") => g.touched = h.touched

(* A structure that was put.                                               *)
LEMMA ReleasedIs ==
    Released \in Struct /\ Released.st = "free" /\ Released.owner = Nobody /\ ~Released.open
BY OwnersAre DEF Released, Struct

(* What conn_put makes of the structures.                                  *)
LEMMA PutIs ==
    ASSUME NEW h, Structs(h), NEW S \in SUBSET Conn, \A c \in S : h.conn[c].st = "used"
    PROVE  LET g == conn_put(h, S)
           IN /\ Puts(g, h, S) /\ g.nleak = h.nleak
              /\ (\A c \in S : ~h.conn[c].open) => g.broken = h.broken
<1> DEFINE g == conn_put(h, S)
           q == SetToSeq(S)
           br == {b \in {"conn_put: sd < 0"} : \E c \in S : h.conn[c].open}
           to == {t \in {Block("free_connq")} :
                    S # {} /\ h.freeq # <<>> /\ h.conn[Head(h.freeq)].st = "freed"}
           cn == [c \in Conn |-> IF c \in S THEN Released ELSE h.conn[c]]
<1>1. /\ h \in [conn : {h.conn}, freeq : {h.freeq}, nleak : {h.nleak},
                broken : {h.broken}, touched : {h.touched}]
      /\ h.conn \in [Conn -> Struct] /\ h.freeq \in Seq(Conn) /\ h.nleak \in Nat
      /\ IsInjective(h.freeq)
      /\ ToSet(h.freeq) = {c \in Conn : h.conn[c].st \in {"free", "freed"}}
    BY DEF Structs, Struct
<1>2. q \in Seq(S) /\ IsInjective(q) /\ ToSet(q) = S
  <2>1. IsFiniteSet(S)
      BY ConnsFinite, FS_Subset
  <2> QED BY <2>1, SetToSeqIs
<1>3. /\ q \o h.freeq \in Seq(Conn) /\ ToSet(q \o h.freeq) = S \cup ToSet(h.freeq)
      /\ IsInjective(q \o h.freeq)
  <2>1. q \in Seq(Conn)
      BY <1>2, SeqOfSubset
  <2>2. ToSet(q) \cap ToSet(h.freeq) = {}
      BY <1>1, <1>2
  <2> HIDE DEF q
  <2> QED BY <1>1, <1>2, <2>1, <2>2, ConcatSet
<1>4. /\ g.conn = cn /\ g.freeq = q \o h.freeq /\ g.nleak = h.nleak
      /\ g.broken = h.broken \cup br /\ g.touched = h.touched \cup to
      /\ g \in [conn : {g.conn}, freeq : {g.freeq}, nleak : {g.nleak},
                broken : {g.broken}, touched : {g.touched}]
  <2> HIDE DEF q, br, to, cn
  <2>1. g = [h EXCEPT !.conn = cn, !.freeq = q \o h.freeq, !.broken = h.broken \cup br,
                      !.touched = h.touched \cup to]
      BY DEF conn_put, q, br, to, cn
  <2> HIDE DEF g
  <2> QED BY <2>1, <1>1
<1>5. cn \in [Conn -> Struct] /\ \A c \in Conn : cn[c] = IF c \in S THEN Released ELSE h.conn[c]
    BY <1>1, ReleasedIs
<1>6. br \subseteq {"conn_put: sd < 0"} /\ ((\A c \in S : ~h.conn[c].open) => br = {})
    OBVIOUS
<1>7. (\A c \in Conn : h.conn[c].st # "freed") => to = {}
  <2>1. h.freeq # <<>> => Head(h.freeq) \in Conn
      BY <1>1, TailFacts
  <2> QED BY <2>1
<1> HIDE DEF q, br, to, cn, g
<1>8. Structs(g)
  <2>1. \A c \in Conn : /\ g.conn[c].st = "used" <=> g.conn[c].owner # Nobody
                        /\ g.conn[c].open => g.conn[c].st = "used"
      BY <1>4, <1>5, ReleasedIs DEF Structs
  <2>2. ToSet(g.freeq) = {c \in Conn : g.conn[c].st \in {"free", "freed"}}
      BY <1>1, <1>3, <1>4, <1>5, ReleasedIs
  <2>3. g.conn \in [Conn -> Struct] /\ g.freeq \in Seq(Conn) /\ g.nleak \in Nat /\ IsInjective(g.freeq)
      BY <1>1, <1>3, <1>4, <1>5
  <2> QED BY <1>4, <2>1, <2>2, <2>3 DEF Structs, Struct
<1>9. Puts(g, h, S)
    BY <1>4, <1>5, <1>6, <1>7, <1>8 DEF Puts
<1> QED
    BY <1>4, <1>6, <1>9 DEF g

(* What closing and putting makes of them (client_close, proxy_close).     *)
LEMMA ClosedIs ==
    ASSUME NEW h, Structs(h), NEW S \in SUBSET Conn, \A c \in S : h.conn[c].st = "used"
    PROVE  Puts(Closed(h, S), h, S) /\ Closed(h, S).broken = h.broken
<1> DEFINE cn == [c \in Conn |-> IF c \in S THEN [h.conn[c] EXCEPT !.open = FALSE] ELSE h.conn[c]]
           k == [h EXCEPT !.conn = cn]
<1>1. /\ h \in [conn : {h.conn}, freeq : {h.freeq}, nleak : {h.nleak},
                broken : {h.broken}, touched : {h.touched}]
      /\ h.conn \in [Conn -> Struct]
    BY DEF Structs, Struct
<1>2. Closed(h, S) = conn_put(k, S)
    BY DEF Closed
<1>3. /\ k.conn = cn /\ k.freeq = h.freeq /\ k.nleak = h.nleak
      /\ k.broken = h.broken /\ k.touched = h.touched
      /\ k \in [conn : {k.conn}, freeq : {k.freeq}, nleak : {k.nleak},
                broken : {k.broken}, touched : {k.touched}]
  <2> HIDE DEF cn
  <2> QED BY <1>1
<1>4. \A c \in Conn : /\ cn[c] \in Struct /\ cn[c].st = h.conn[c].st /\ cn[c].owner = h.conn[c].owner
                      /\ cn[c].open = (h.conn[c].open /\ c \notin S)
                      /\ c \notin S => cn[c] = h.conn[c]
  <2>1. ASSUME NEW c \in Conn
        PROVE  LET x == [h.conn[c] EXCEPT !.open = FALSE] IN
               x \in Struct /\ x.st = h.conn[c].st /\ x.owner = h.conn[c].owner /\ x.open = FALSE
    <3>1. h.conn[c] \in Struct
        BY <1>1
    <3> QED BY <3>1 DEF Struct
  <2>2. \A c \in Conn : h.conn[c] \in Struct /\ h.conn[c].open \in BOOLEAN
      BY <1>1 DEF Struct
  <2> QED BY <2>1, <2>2
<1>5. cn \in [Conn -> Struct]
    BY <1>4
<1> HIDE DEF cn, k
<1>6. Structs(k)
  <2>1. \A c \in Conn : /\ k.conn[c].st = "used" <=> k.conn[c].owner # Nobody
                        /\ k.conn[c].open => k.conn[c].st = "used"
      BY <1>3, <1>4 DEF Structs
  <2>2. {c \in Conn : k.conn[c].st \in {"free", "freed"}} = {c \in Conn : h.conn[c].st \in {"free", "freed"}}
      BY <1>3, <1>4
  <2> QED BY <1>3, <1>5, <2>1, <2>2 DEF Structs, Struct
<1>7. \A c \in S : k.conn[c].st = "used" /\ ~k.conn[c].open
    BY <1>3, <1>4
<1>8. Puts(conn_put(k, S), k, S) /\ conn_put(k, S).broken = k.broken
    BY <1>6, <1>7, PutIs
<1> DEFINE g == conn_put(k, S)
<1> HIDE DEF g
<1>9. Puts(g, h, S)
  <2>1. Puts(g, k, S)
      BY <1>8 DEF g
  <2>2. \A c \in Conn : g.conn[c] = IF c \in S THEN Released ELSE h.conn[c]
      BY <2>1, <1>3, <1>4 DEF Puts
  <2>3. (\A c \in Conn : h.conn[c].st # "freed") => g.touched = h.touched
      BY <2>1, <1>3, <1>4 DEF Puts
  <2> QED BY <2>1, <2>2, <2>3, <1>3 DEF Puts
<1> QED
    BY <1>2, <1>3, <1>8, <1>9 DEF g

(* What server_close makes of them.                                        *)
LEMMA ServerCloseIs ==
    ASSUME NEW h, Structs(h), NEW S \in SUBSET Conn, \A c \in S : h.conn[c].st = "used"
    PROVE  Puts(server_close(h, S), h, S)
<1> DEFINE n == Cardinality({c \in S : h.conn[c].open})
           k == [h EXCEPT !.nleak = @ + n]
<1>1. /\ h \in [conn : {h.conn}, freeq : {h.freeq}, nleak : {h.nleak},
                broken : {h.broken}, touched : {h.touched}]
      /\ h.nleak \in Nat
    BY DEF Structs, Struct
<1>2. server_close(h, S) = conn_put(k, S)
    BY DEF server_close
<1>3. n \in Nat
  <2>1. IsFiniteSet({c \in S : h.conn[c].open})
      BY ConnsFinite, FS_Subset
  <2> QED BY <2>1, FS_CardinalityType
<1> HIDE DEF n
<1>4. /\ k.conn = h.conn /\ k.freeq = h.freeq /\ k.nleak = h.nleak + n
      /\ k.broken = h.broken /\ k.touched = h.touched
      /\ k \in [conn : {k.conn}, freeq : {k.freeq}, nleak : {k.nleak},
                broken : {k.broken}, touched : {k.touched}]
    BY <1>1
<1> HIDE DEF k
<1>5. Structs(k)
    BY <1>1, <1>3, <1>4 DEF Structs
<1>6. Puts(conn_put(k, S), k, S)
    BY <1>4, <1>5, PutIs
<1>7. Puts(conn_put(k, S), h, S)
    BY <1>4, <1>6 DEF Puts
<1> QED
    BY <1>2, <1>7

(* Using blocks leaves the structures as they are.                         *)
LEMMA UsesIs ==
    ASSUME NEW h, Structs(h), NEW B
    PROVE  LET g == Uses(h, B)
           IN /\ Structs(g) /\ g.conn = h.conn /\ g.freeq = h.freeq /\ g.broken = h.broken
              /\ g.touched = h.touched \cup (B \ heap)
<1> DEFINE g == Uses(h, B)
<1>1. h \in [conn : {h.conn}, freeq : {h.freeq}, nleak : {h.nleak},
             broken : {h.broken}, touched : {h.touched}]
    BY DEF Structs
<1>2. /\ g.conn = h.conn /\ g.freeq = h.freeq /\ g.nleak = h.nleak
      /\ g.broken = h.broken /\ g.touched = h.touched \cup (B \ heap)
      /\ g \in [conn : {g.conn}, freeq : {g.freeq}, nleak : {g.nleak},
                broken : {g.broken}, touched : {g.touched}]
    BY <1>1 DEF Uses
<1> HIDE DEF g
<1>3. Structs(g)
    BY <1>2 DEF Structs
<1> QED
    BY <1>2, <1>3 DEF g

(* The same structures: other descriptors are lost, assertions that are    *)
(* known fail, the aggregator uses what was freed.                         *)
Alike(g, h) ==
    /\ Structs(g) /\ g.conn = h.conn
    /\ g.broken \subseteq h.broken \cup Known
    /\ g.touched \subseteq h.touched \cup {Aggregator}

(* What is said of structures is said of those that are alike.             *)
LEMMA AlikeKeeps ==
    ASSUME NEW g, NEW h, Alike(g, h)
    PROVE  /\ \A o : OwnedBy(g, o) = OwnedBy(h, o)
           /\ Clients(g) = Clients(h)
           /\ Limits(h) => Limits(g)
           /\ Clean(h) => Clean(g)
           /\ NoneFreed(h) => NoneFreed(g)
           /\ \A k : OwnersHeld(h, k) => OwnersHeld(g, k)
           /\ \A k : StructsHeld(h, k) => StructsHeld(g, k)
           /\ \A hp, f, n, k : HeldBy(hp, f, h, n, k) => HeldBy(hp, f, g, n, k)
           /\ \A td, hp, lim, ns, nc :
                 Pending(td, hp, h, lim, ns, nc) => Pending(td, hp, g, lim, ns, nc)
<1>1. g.conn = h.conn
    BY DEF Alike
<1>2. \A o : OwnedBy(g, o) = OwnedBy(h, o)
    BY <1>1 DEF OwnedBy
<1>3. Clients(g) = Clients(h)
    BY <1>1 DEF Clients
<1>4. Limits(h) => Limits(g)
    BY <1>2 DEF Limits
<1>5. Clean(h) => Clean(g)
    BY DEF Alike, Clean
<1>6. NoneFreed(h) => NoneFreed(g)
    BY <1>1 DEF NoneFreed
<1>7. \A k : OwnersHeld(h, k) => OwnersHeld(g, k)
    BY <1>1 DEF OwnersHeld
<1>8. \A k : StructsHeld(h, k) => StructsHeld(g, k)
    BY <1>1 DEF StructsHeld
<1>9. \A hp, f, n, k : HeldBy(hp, f, h, n, k) => HeldBy(hp, f, g, n, k)
    BY <1>7, <1>8 DEF HeldBy
<1>10. ASSUME NEW td, NEW hp, NEW lim, NEW ns, NEW nc, Pending(td, hp, h, lim, ns, nc)
       PROVE  Pending(td, hp, g, lim, ns, nc)
    BY <1>2, <1>10 DEF Pending
<1> QED
    BY <1>2, <1>3, <1>4, <1>5, <1>6, <1>7, <1>8, <1>9, <1>10

(* A descriptor that is lost leaves the structures as they are.            *)
LEMMA LosesIs ==
    ASSUME NEW h, Structs(h)
    PROVE  Alike(LosesFd(h), h)
<1> DEFINE g == LosesFd(h)
<1>1. /\ h \in [conn : {h.conn}, freeq : {h.freeq}, nleak : {h.nleak},
                broken : {h.broken}, touched : {h.touched}]
      /\ h.nleak \in Nat
    BY DEF Structs
<1>2. /\ g.conn = h.conn /\ g.freeq = h.freeq /\ g.nleak = h.nleak + 1
      /\ g.broken = h.broken /\ g.touched = h.touched
      /\ g \in [conn : {g.conn}, freeq : {g.freeq}, nleak : {g.nleak},
                broken : {g.broken}, touched : {g.touched}]
    BY <1>1 DEF LosesFd
<1> HIDE DEF g
<1>3. Structs(g)
    BY <1>1, <1>2 DEF Structs
<1> QED
    BY <1>2, <1>3 DEF g, Alike

(* So does what the aggregator uses.                                       *)
LEMMA UsesStatsIs ==
    ASSUME NEW h, Structs(h)
    PROVE  Alike(UsesStats(h), h)
<1> DEFINE T == {t \in {Aggregator} : Block("stats") \notin heap}
           g == UsesStats(h)
<1>1. h \in [conn : {h.conn}, freeq : {h.freeq}, nleak : {h.nleak},
             broken : {h.broken}, touched : {h.touched}]
    BY DEF Structs
<1>2. T \subseteq {Aggregator}
    OBVIOUS
<1>3. g = [h EXCEPT !.touched = h.touched \cup T]
    BY DEF UsesStats
<1> HIDE DEF T, g
<1>4. /\ g.conn = h.conn /\ g.freeq = h.freeq /\ g.nleak = h.nleak
      /\ g.broken = h.broken /\ g.touched = h.touched \cup T
      /\ g \in [conn : {g.conn}, freeq : {g.freeq}, nleak : {g.nleak},
                broken : {g.broken}, touched : {g.touched}]
    BY <1>1, <1>3
<1>5. Structs(g)
    BY <1>4 DEF Structs
<1> QED
    BY <1>2, <1>4, <1>5 DEF g, Alike

(* And an assertion of array_deinit that fails.                            *)
LEMMA UnmapIs ==
    ASSUME NEW h, Structs(h), NEW B \in SUBSET {"array_deinit: nelem == 0"}
    PROVE  Alike([h EXCEPT !.broken = h.broken \cup B], h)
<1> DEFINE g == [h EXCEPT !.broken = h.broken \cup B]
<1>1. h \in [conn : {h.conn}, freeq : {h.freeq}, nleak : {h.nleak},
             broken : {h.broken}, touched : {h.touched}]
    BY DEF Structs
<1>2. /\ g.conn = h.conn /\ g.freeq = h.freeq /\ g.nleak = h.nleak
      /\ g.broken = h.broken \cup B /\ g.touched = h.touched
      /\ g \in [conn : {g.conn}, freeq : {g.freeq}, nleak : {g.nleak},
                broken : {g.broken}, touched : {g.touched}]
    BY <1>1
<1> HIDE DEF g
<1>3. Structs(g)
    BY <1>2 DEF Structs
<1>4. B \subseteq Known
    BY DEF Known
<1> QED
    BY <1>2, <1>3, <1>4 DEF g, Alike

(* A structure keeps its owner or loses it.                                *)
Shrinks(g, h) == \A c \in Conn : g.conn[c].owner \in {h.conn[c].owner, Nobody}

(* Connections that are lost break no limit.                               *)
LEMMA ShrinksKeeps ==
    ASSUME NEW g, NEW h, Shrinks(g, h)
    PROVE  /\ \A o : o # Nobody => OwnedBy(g, o) \subseteq OwnedBy(h, o)
           /\ Limits(h) => Limits(g)
           /\ Cardinality(Clients(g)) <= Cardinality(Clients(h))
           /\ \A k : OwnersHeld(h, k) => OwnersHeld(g, k)
           /\ Cardinality(Clients(h)) \in Nat /\ Cardinality(Clients(g)) \in Nat
<1>0. \A S \in SUBSET Conn : /\ IsFiniteSet(S) /\ Cardinality(S) \in Nat
                             /\ \A T \in SUBSET S : Cardinality(T) <= Cardinality(S) /\ Cardinality(T) \in Nat
    BY ConnsFinite, FS_Subset, FS_CardinalityType
<1>1. \A o : o # Nobody => OwnedBy(g, o) \subseteq OwnedBy(h, o)
    BY DEF Shrinks, OwnedBy
<1>2. \A o : OwnedBy(g, o) \in SUBSET Conn /\ OwnedBy(h, o) \in SUBSET Conn
    BY DEF OwnedBy
<1>3. \A o : o # Nobody => /\ Cardinality(OwnedBy(g, o)) <= Cardinality(OwnedBy(h, o))
                           /\ Cardinality(OwnedBy(g, o)) \in Nat /\ Cardinality(OwnedBy(h, o)) \in Nat
    BY <1>0, <1>1, <1>2
<1>4. Limits(h) => Limits(g)
  <2> SUFFICES ASSUME Limits(h) PROVE Limits(g)
      OBVIOUS
  <2>1. ASSUME NEW p \in Pool PROVE Cardinality(OwnedBy(g, <<"proxy", p, 0>>)) <= 1
    <3>1. <<"proxy", p, 0>> # Nobody
        BY DEF Nobody
    <3>2. Cardinality(OwnedBy(h, <<"proxy", p, 0>>)) <= 1
        BY DEF Limits
    <3> QED BY <3>1, <3>2, <1>3
  <2>2. ASSUME NEW p \in Pool, NEW s \in 1..NSERVER[p]
        PROVE  Cardinality(OwnedBy(g, <<"server", p, s>>)) <= SERVER_CONNECTIONS[p]
    <3>1. <<"server", p, s>> # Nobody
        BY DEF Nobody
    <3>2. Cardinality(OwnedBy(h, <<"server", p, s>>)) <= SERVER_CONNECTIONS[p]
        BY DEF Limits
    <3>3. SERVER_CONNECTIONS[p] \in Nat
        BY LifecycleAssumption
    <3> QED BY <3>1, <3>2, <3>3, <1>3
  <2> QED BY <2>1, <2>2 DEF Limits
<1>5. Clients(g) \subseteq Clients(h) /\ Clients(h) \in SUBSET Conn
    BY DEF Shrinks, Clients, Nobody
<1>6. Cardinality(Clients(g)) <= Cardinality(Clients(h)) /\ Cardinality(Clients(h)) \in Nat
      /\ Cardinality(Clients(g)) \in Nat
    BY <1>0, <1>5
<1>7. \A k : OwnersHeld(h, k) => OwnersHeld(g, k)
    BY DEF OwnersHeld, Shrinks, Nobody
<1> QED
    BY <1>1, <1>4, <1>6, <1>7

(* Putting structures loses connections, and uses nothing that was freed   *)
(* while none is.                                                          *)
LEMMA PutsShrinks ==
    ASSUME NEW g, NEW h, NEW S, Puts(g, h, S)
    PROVE  /\ Shrinks(g, h)
           /\ \A k : k <= 8 /\ StructsHeld(h, k) => StructsHeld(g, k)
           /\ \A k \in Int : k <= 8 /\ StructsHeld(h, k) => g.touched = h.touched
           /\ \A c \in Conn : c \in S => g.conn[c].owner = Nobody
<1>1. Shrinks(g, h)
    BY ReleasedIs DEF Puts, Shrinks
<1>2. \A k : k <= 8 /\ StructsHeld(h, k) => StructsHeld(g, k)
    BY ReleasedIs DEF Puts, StructsHeld
<1>3. ASSUME NEW k \in Int, k <= 8, StructsHeld(h, k) PROVE g.touched = h.touched
  <2>1. \A c \in Conn : h.conn[c].st # "freed"
      BY <1>3 DEF StructsHeld
  <2> QED BY <2>1 DEF Puts
<1> QED
    BY <1>1, <1>2, <1>3, ReleasedIs DEF Puts

(* A structure that was taken has an owner more.                           *)
Takes(g, h, c, o) ==
    /\ Structs(g) /\ c \in Conn /\ h.conn[c].owner = Nobody
    /\ g.conn[c].owner = o /\ g.conn[c].st = "used"
    /\ \A d \in Conn : d # c => g.conn[d] = h.conn[d]
    /\ g.broken = h.broken /\ g.touched = h.touched

(* A structure conn_get returns is taken.                                  *)
LEMMA GetTakes ==
    ASSUME NEW h, Structs(h), NEW c \in Available(h), NEW o \in Owner, o # Nobody,
           NEW open \in BOOLEAN
    PROVE  Takes(conn_get(h, c, o, open), h, c, o)
<1> DEFINE g == conn_get(h, c, o, open)
<1>1. /\ Structs(g) /\ c \in Conn /\ h.conn[c].owner = Nobody /\ h.conn[c].st # "used"
      /\ g.conn[c] = [st |-> "used", owner |-> o, open |-> open]
      /\ \A d \in Conn : d # c => g.conn[d] = h.conn[d]
      /\ g.broken = h.broken /\ g.touched = h.touched /\ g.nleak = h.nleak
    BY GetIs
<1> HIDE DEF g
<1>2. g.conn[c].owner = o /\ g.conn[c].st = "used"
    BY <1>1
<1> QED
    BY <1>1, <1>2 DEF Takes, g

(* A structure that is taken is one connection more, and no other changes. *)
LEMMA TakesKeeps ==
    ASSUME NEW g, NEW h, NEW c, NEW o, Takes(g, h, c, o), o # Nobody
    PROVE  /\ \A q : q # Nobody /\ q # o => OwnedBy(g, q) = OwnedBy(h, q)
           /\ OwnedBy(g, o) = OwnedBy(h, o) \cup {c}
           /\ Cardinality(OwnedBy(g, o)) = Cardinality(OwnedBy(h, o)) + 1
           /\ Cardinality(OwnedBy(h, o)) \in Nat
           /\ o[1] # "client" => Clients(g) = Clients(h)
           /\ Cardinality(Clients(g)) <= Cardinality(Clients(h)) + 1
           /\ Cardinality(Clients(g)) \in Nat /\ Cardinality(Clients(h)) \in Nat
           /\ \A k : k <= 8 /\ StructsHeld(h, k) => StructsHeld(g, k)
<1>0. \A S \in SUBSET Conn : IsFiniteSet(S) /\ Cardinality(S) \in Nat
    BY ConnsFinite, FS_Subset, FS_CardinalityType
<1>1. \A q : q # Nobody /\ q # o => OwnedBy(g, q) = OwnedBy(h, q)
    BY DEF Takes, OwnedBy
<1>2. OwnedBy(g, o) = OwnedBy(h, o) \cup {c} /\ c \notin OwnedBy(h, o)
    BY DEF Takes, OwnedBy
<1>3. OwnedBy(h, o) \in SUBSET Conn
    BY DEF OwnedBy
<1>4. Cardinality(OwnedBy(g, o)) = Cardinality(OwnedBy(h, o)) + 1
    BY <1>0, <1>2, <1>3, FS_AddElement
<1>5. o[1] # "client" => Clients(g) = Clients(h)
    BY DEF Takes, Clients, Nobody
<1>6. Clients(g) \subseteq Clients(h) \cup {c} /\ c \notin Clients(h) /\ Clients(h) \in SUBSET Conn
      /\ Clients(g) \in SUBSET Conn
    BY DEF Takes, Clients, Nobody
<1>7. Cardinality(Clients(h) \cup {c}) = Cardinality(Clients(h)) + 1
    BY <1>0, <1>6, FS_AddElement
<1>8. Clients(h) \cup {c} \in SUBSET Conn
    BY <1>6 DEF Takes
<1>9. Cardinality(Clients(g)) <= Cardinality(Clients(h) \cup {c})
    BY <1>0, <1>6, <1>8, FS_Subset
<1>10. Cardinality(Clients(g)) <= Cardinality(Clients(h)) + 1
    BY <1>7, <1>9
<1>11. \A k : k <= 8 /\ StructsHeld(h, k) => StructsHeld(g, k)
    BY DEF Takes, StructsHeld
<1>12. Cardinality(Clients(g)) \in Nat /\ Cardinality(Clients(h)) \in Nat
    BY <1>0, <1>6
<1> QED
    BY <1>0, <1>1, <1>2, <1>3, <1>4, <1>5, <1>10, <1>11, <1>12

(* Taken for a server or a listener that may have one more.                *)
LEMMA TakesLimits ==
    ASSUME NEW g, NEW h, NEW c, NEW o, Takes(g, h, c, o), Limits(h), o \in Owner, o # Nobody,
           \A p \in Pool : o = <<"proxy", p, 0>> => OwnedBy(h, o) = {},
           \A p \in Pool : \A s \in 1..NSERVER[p] :
               o = <<"server", p, s>> => Cardinality(OwnedBy(h, o)) < SERVER_CONNECTIONS[p]
    PROVE  Limits(g)
<1>1. /\ \A q : q # Nobody /\ q # o => OwnedBy(g, q) = OwnedBy(h, q)
      /\ Cardinality(OwnedBy(g, o)) = Cardinality(OwnedBy(h, o)) + 1
      /\ Cardinality(OwnedBy(h, o)) \in Nat
    BY TakesKeeps
<1>2. ASSUME NEW p \in Pool PROVE Cardinality(OwnedBy(g, <<"proxy", p, 0>>)) <= 1
  <2>1. CASE o = <<"proxy", p, 0>>
    <3>1. OwnedBy(h, o) = {}
        BY <2>1
    <3>2. Cardinality(OwnedBy(h, o)) = 0
        BY <3>1, FS_EmptySet
    <3>3. Cardinality(OwnedBy(g, o)) = 1
        BY <3>2, <1>1
    <3> QED BY <2>1, <3>3
  <2>2. CASE o # <<"proxy", p, 0>>
    <3>1. <<"proxy", p, 0>> # Nobody
        BY DEF Nobody
    <3> QED BY <2>2, <3>1, <1>1 DEF Limits
  <2> QED BY <2>1, <2>2
<1>3. ASSUME NEW p \in Pool, NEW s \in 1..NSERVER[p]
      PROVE  Cardinality(OwnedBy(g, <<"server", p, s>>)) <= SERVER_CONNECTIONS[p]
  <2>1. CASE o = <<"server", p, s>>
    <3>1. Cardinality(OwnedBy(h, o)) < SERVER_CONNECTIONS[p]
        BY <2>1
    <3>2. SERVER_CONNECTIONS[p] \in Nat
        BY LifecycleAssumption
    <3>3. Cardinality(OwnedBy(g, o)) <= SERVER_CONNECTIONS[p]
        BY <3>1, <3>2, <1>1
    <3> QED BY <2>1, <3>3
  <2>2. CASE o # <<"server", p, s>>
    <3>1. <<"server", p, s>> # Nobody
        BY DEF Nobody
    <3> QED BY <2>2, <3>1, <1>1 DEF Limits
  <2> QED BY <2>1, <2>2
<1> QED
    BY <1>2, <1>3 DEF Limits

(* A connection that is taken and put back at once.                        *)
LEMMA TakenAndPut ==
    ASSUME NEW g, NEW k, NEW h, NEW c, NEW o, Takes(k, h, c, o), Puts(g, k, {c}), o # Nobody,
           Structs(h)
    PROVE  /\ Structs(g) /\ Shrinks(g, h)
           /\ \A j \in Int : j <= 8 /\ StructsHeld(h, j) => StructsHeld(g, j) /\ g.touched = h.touched
           /\ g.broken \subseteq h.broken \cup {"conn_put: sd < 0"}
<1>1. Structs(g)
    BY DEF Puts
<1>2. Shrinks(g, h)
    BY ReleasedIs DEF Shrinks, Puts, Takes
<1>3. ASSUME NEW j \in Int, j <= 8, StructsHeld(h, j) PROVE StructsHeld(g, j) /\ g.touched = h.touched
  <2>1. StructsHeld(k, j) /\ k.touched = h.touched
      BY <1>3, TakesKeeps DEF Takes
  <2> QED BY <1>3, <2>1, PutsShrinks
<1>4. g.broken \subseteq h.broken \cup {"conn_put: sd < 0"}
    BY DEF Puts, Takes
<1> QED
    BY <1>1, <1>2, <1>3, <1>4

(* A name of the start is known by its rank.                               *)
LEMMA RankKnows ==
    /\ \A a, b \in Name : Rank(a) \in 1..22 /\ Rank(a) = Rank(b) => a = b
    /\ \A a \in Name : Rank(a) \in 0..22
<1> DEFINE E == {"proxy_deinit", "server_pool_disconnect", "event_base_destroy",
              "stats_destroy", "server_pool_deinit", "conf_destroy", "gf_free",
              "conn_deinit", "gf_post_run"}
<1>1. \A a \in Name : \/ a \in E /\ Rank(a) = 0
                      \/ a = "log_init" /\ Rank(a) = 1
                      \/ a = "gf_daemonize" /\ Rank(a) = 2
                      \/ a = "signal_init" /\ Rank(a) = 3
                      \/ a = "gf_create_pidfile" /\ Rank(a) = 4
                      \/ a = "core_ctx_alloc" /\ Rank(a) = 5
                      \/ a = "conf_create" /\ Rank(a) = 6
                      \/ a = "server_pool_array" /\ Rank(a) = 7
                      \/ a = "conf_pool_each_transform" /\ Rank(a) = 8
                      \/ a = "server_pool_each_calc_connections" /\ Rank(a) = 9
                      \/ a = "server_pool_each_run" /\ Rank(a) = 10
                      \/ a = "core_calc_connections" /\ Rank(a) = 11
                      \/ a = "stats_alloc" /\ Rank(a) = 12
                      \/ a = "current" /\ Rank(a) = 13
                      \/ a = "shadow" /\ Rank(a) = 14
                      \/ a = "sum" /\ Rank(a) = 15
                      \/ a = "stats_create_buf" /\ Rank(a) = 16
                      \/ a = "stats_listen" /\ Rank(a) = 17
                      \/ a = "pthread_create" /\ Rank(a) = 18
                      \/ a = "event_base_create" /\ Rank(a) = 19
                      \/ a = "server_each_preconnect" /\ Rank(a) = 20
                      \/ a = "proxy_each_init" /\ Rank(a) = 21
                      \/ a = "core_loop" /\ Rank(a) = 22
  <2>1. \A a \in E : Rank(a) = 0
      BY NotOfStart
  <2> HIDE DEF E
  <2>2. \A a \in Name : \/ a \in E
                        \/ a \in {"log_init", "gf_daemonize", "signal_init",
                                  "gf_create_pidfile", "core_ctx_alloc", "conf_create",
                                  "server_pool_array", "conf_pool_each_transform",
                                  "server_pool_each_calc_connections", "server_pool_each_run",
                                  "core_calc_connections", "stats_alloc", "current", "shadow",
                                  "sum", "stats_create_buf", "stats_listen", "pthread_create",
                                  "event_base_create", "server_each_preconnect",
                                  "proxy_each_init", "core_loop"}
      BY DEF Name, E
  <2> QED BY <2>1, <2>2, Ranks
<1>2. \A a \in Name : Rank(a) \in 0..22
  <2> HIDE DEF E
  <2> QED BY <1>1
<1>3. \A a, b \in Name : Rank(a) \in 1..22 /\ Rank(a) = Rank(b) => a = b
  <2> HIDE DEF E
  <2>1. SUFFICES ASSUME NEW a \in Name, NEW b \in Name, Rank(a) \in 1..22, Rank(a) = Rank(b)
                 PROVE  a = b
      OBVIOUS
  <2>2. \/ a = "log_init" /\ Rank(a) = 1
        \/ a = "gf_daemonize" /\ Rank(a) = 2
        \/ a = "signal_init" /\ Rank(a) = 3
        \/ a = "gf_create_pidfile" /\ Rank(a) = 4
        \/ a = "core_ctx_alloc" /\ Rank(a) = 5
        \/ a = "conf_create" /\ Rank(a) = 6
        \/ a = "server_pool_array" /\ Rank(a) = 7
        \/ a = "conf_pool_each_transform" /\ Rank(a) = 8
        \/ a = "server_pool_each_calc_connections" /\ Rank(a) = 9
        \/ a = "server_pool_each_run" /\ Rank(a) = 10
        \/ a = "core_calc_connections" /\ Rank(a) = 11
        \/ a = "stats_alloc" /\ Rank(a) = 12
        \/ a = "current" /\ Rank(a) = 13
        \/ a = "shadow" /\ Rank(a) = 14
        \/ a = "sum" /\ Rank(a) = 15
        \/ a = "stats_create_buf" /\ Rank(a) = 16
        \/ a = "stats_listen" /\ Rank(a) = 17
        \/ a = "pthread_create" /\ Rank(a) = 18
        \/ a = "event_base_create" /\ Rank(a) = 19
        \/ a = "server_each_preconnect" /\ Rank(a) = 20
        \/ a = "proxy_each_init" /\ Rank(a) = 21
        \/ a = "core_loop" /\ Rank(a) = 22
      BY <1>1, <2>1
  <2> QED BY <1>1, <2>1, <2>2
<1> QED
    BY <1>2, <1>3

(* The later a call of the start, the sooner its unwinding begins.         *)
LEMMA DepthBounds ==
    \A a, b : Rank(a) \in 1..22 /\ Rank(b) \in 1..22 /\ Rank(a) <= Rank(b) =>
        /\ Depth(a) \in 0..9 /\ Depth(b) \in 0..9 /\ Depth(b) <= Depth(a)
BY DEF Depth

(* How far a failure unwinds, by the rank of the call.                     *)
LEMMA DepthLimits ==
    \A a : Rank(a) \in 1..22 =>
        /\ Rank(a) > 5 => Depth(a) <= 7
        /\ Rank(a) > 6 => Depth(a) <= 6
        /\ Rank(a) > 7 => Depth(a) <= 5
        /\ Rank(a) > 12 => Depth(a) <= 4
        /\ Rank(a) > 19 => Depth(a) <= 2
        /\ Rank(a) > 20 => Depth(a) <= 1
        /\ Depth(a) <= 6 => Rank(a) > 6
        /\ Depth(a) <= 5 => Rank(a) > 7
        /\ Depth(a) <= 4 => Rank(a) > 12
        /\ Depth(a) \in 0..9
BY DEF Depth

(* The call after the first, and what is behind it.                        *)
LEMMA After ==
    ASSUME NEW td, InOrder(td), td # <<>>
    PROVE  /\ Head(td) \in Calls /\ Head(td)[1] \in Name /\ Rank(Head(td)[1]) \in 1..22
           /\ InOrder(Tail(td)) /\ ToSet(td) = {Head(td)} \cup ToSet(Tail(td))
           /\ Head(td) \notin ToSet(Tail(td))
           /\ \A y \in ToSet(td) : y \in Calls /\ Rank(Head(td)[1]) <= Rank(y[1])
<1> DEFINE r == Tail(td)
           x == Head(td)
<1>0. td \in Seq(Calls) /\ \A i, j \in DOMAIN td : i < j => /\ Rank(td[i][1]) <= Rank(td[j][1])
                                                             /\ td[i] # td[j]
    BY DEF InOrder
<1>1. /\ r \in Seq(Calls) /\ x \in Calls /\ x = td[1] /\ ToSet(td) = {x} \cup ToSet(r)
      /\ \A i \in DOMAIN r : i + 1 \in DOMAIN td /\ r[i] = td[i + 1]
      /\ Len(td) \in Nat /\ Len(td) >= 1
    BY <1>0, TailFacts
<1>2. DOMAIN td = 1..Len(td) /\ DOMAIN r \subseteq Nat /\ \A i \in DOMAIN r : i >= 1
    BY <1>0, <1>1
<1> HIDE DEF r, x
<1>3. InOrder(r)
  <2>1. ASSUME NEW i \in DOMAIN r, NEW j \in DOMAIN r, i < j
        PROVE  Rank(r[i][1]) <= Rank(r[j][1]) /\ r[i] # r[j]
    <3>1. i + 1 < j + 1 /\ i + 1 \in DOMAIN td /\ j + 1 \in DOMAIN td
        BY <1>1, <1>2, <2>1
    <3> QED BY <3>1, <1>0, <1>1
  <2> QED BY <1>1, <2>1 DEF InOrder
<1>4. \A i \in DOMAIN r : 1 < i + 1 /\ 1 \in DOMAIN td
    BY <1>1, <1>2
<1>5. \A i \in DOMAIN r : r[i] # x /\ Rank(x[1]) <= Rank(r[i][1])
    BY <1>0, <1>1, <1>4
<1>6. \A y \in ToSet(r) : y # x /\ y \in Calls /\ Rank(x[1]) <= Rank(y[1])
    BY <1>1, <1>5 DEF ToSet
<1>7. x[1] \in Name /\ Rank(x[1]) \in 1..22
    BY <1>1 DEF Calls
<1>8. \A y \in ToSet(td) : y \in Calls /\ Rank(x[1]) <= Rank(y[1])
    BY <1>1, <1>6, <1>7
<1> QED
    BY <1>1, <1>3, <1>6, <1>7, <1>8 DEF r, x

(* A call that is made once is followed by others.                         *)
LEMMA AfterOnce ==
    ASSUME NEW td, InOrder(td), td # <<>>, Head(td)[1] \in Once,
           NEW y \in ToSet(Tail(td))
    PROVE  Rank(Head(td)[1]) < Rank(y[1])
<1> DEFINE x == Head(td)
<1>1. /\ x \in Calls /\ x[1] \in Name /\ Rank(x[1]) \in 1..22 /\ y \in Calls /\ y # x
      /\ Rank(x[1]) <= Rank(y[1])
    BY After
<1>2. y[1] \in Name /\ Rank(y[1]) \in 1..22
    BY <1>1 DEF Calls
<1> HIDE DEF x
<1>3. x[1] \in Once
    BY DEF x
<1>4. Rank(x[1]) # Rank(y[1])
  <2> SUFFICES ASSUME Rank(x[1]) = Rank(y[1]) PROVE FALSE
      OBVIOUS
  <2>1. x[1] = y[1]
      BY <1>1, <1>2, RankKnows
  <2>2. \A n \in Once : n \notin {"conf_pool_each_transform", "server_pool_each_run",
                              "server_each_preconnect", "proxy_each_init"}
      BY DEF Once
  <2>3. x = Call(x[1]) /\ y = Call(y[1])
      BY <1>1, <1>3, <2>1, <2>2 DEF Calls
  <2> QED BY <2>1, <2>3, <1>1
<1>5. Rank(x[1]) < Rank(y[1])
  <2> DEFINE a == Rank(x[1])
             b == Rank(y[1])
  <2>1. a \in 1..22 /\ b \in 1..22 /\ a <= b /\ a # b
      BY <1>1, <1>2, <1>4
  <2> HIDE DEF a, b
  <2>2. a < b
      BY ONLY <2>1
  <2> QED BY <2>2 DEF a, b
<1> QED
    BY <1>5 DEF x

(* Before core_loop there is a call to come after each.                    *)
LEMMA GoesOn ==
    ASSUME NEW td, InOrder(td), td # <<>>, Head(td)[1] # "core_loop",
           Call("core_loop") \in ToSet(td)
    PROVE  /\ Call("core_loop") \in ToSet(Tail(td)) /\ Tail(td) # <<>>
           /\ Head(Tail(td)) \in ToSet(Tail(td)) /\ Head(Tail(td)) \in Calls
           /\ Rank(Head(Tail(td))[1]) \in 1..22
           /\ Depth(Head(Tail(td))[1]) <= Depth(Head(td)[1])
           /\ Depth(Head(Tail(td))[1]) \in 0..9 /\ Depth(Head(td)[1]) \in 0..9
           /\ Head(td)[1] \in Once => Rank(Head(td)[1]) < Rank(Head(Tail(td))[1])
<1>1. /\ ToSet(td) = {Head(td)} \cup ToSet(Tail(td)) /\ InOrder(Tail(td))
      /\ Rank(Head(td)[1]) \in 1..22
      /\ \A y \in ToSet(td) : y \in Calls /\ Rank(Head(td)[1]) <= Rank(y[1])
    BY After
<1>2. Call("core_loop") \in ToSet(Tail(td))
    BY <1>1 DEF Call
<1>3. Tail(td) # <<>>
  <2>1. ToSet(<<>>) = {}
      BY Nothing
  <2> QED BY <1>2, <2>1
<1>4. Head(Tail(td)) \in ToSet(Tail(td)) /\ Rank(Head(Tail(td))[1]) \in 1..22
  <2>1. Tail(td) \in Seq(Calls)
      BY <1>1 DEF InOrder
  <2>2. Head(Tail(td)) \in ToSet(Tail(td)) /\ Head(Tail(td)) \in Calls
      BY <2>1, <1>3, TailFacts
  <2> QED BY <2>2, Ranked
<1>5. Rank(Head(td)[1]) <= Rank(Head(Tail(td))[1]) /\ Head(Tail(td)) \in Calls
    BY <1>1, <1>4
<1>6. /\ Depth(Head(Tail(td))[1]) <= Depth(Head(td)[1])
      /\ Depth(Head(Tail(td))[1]) \in 0..9 /\ Depth(Head(td)[1]) \in 0..9
    BY <1>1, <1>4, <1>5, DepthBounds
<1>7. Head(td)[1] \in Once => Rank(Head(td)[1]) < Rank(Head(Tail(td))[1])
    BY <1>4, AfterOnce
<1> QED
    BY <1>2, <1>3, <1>4, <1>5, <1>6, <1>7

(* What a call that is not to come any more has done: the blocks of these  *)
(* calls are there, the limits of connections are known.                   *)
Does(td, hp, lim, ns, nc, hq, mt, md) ==
    /\ hp \subseteq hq
    /\ Head(td) = Call("conf_create") => Block("conf") \in hq
    /\ Head(td) = Call("server_pool_array") => Block("pools") \in hq
    /\ Head(td) = Call("stats_alloc") => Block("stats") \in hq
    /\ IF Head(td) = Call("server_pool_each_calc_connections")
       THEN mt = MapThenSumSet(MaxOfPool, Pool) % WORD ELSE mt = ns
    /\ IF Head(td) = Call("core_calc_connections")
       THEN md = (lim - ns - RESERVED_FDS) % WORD ELSE md = nc

(* Connections of calls that are still to come.                            *)
Unopened(r, g) ==
    \A p \in Pool :
       /\ <<"proxy_each_init", p, 0>> \in ToSet(r) => OwnedBy(g, <<"proxy", p, 0>>) = {}
       /\ \A s \in 1..NSERVER[p] : <<"server_each_preconnect", p, s>> \in ToSet(r)
              => OwnedBy(g, <<"server", p, s>>) = {}

(* When a call is made, what the calls after it have still to do is less   *)
(* by it.                                                                  *)
LEMMA PendingTail ==
    ASSUME NEW td, NEW hp, NEW h, NEW lim, NEW ns, NEW nc, NEW hq, NEW g, NEW mt, NEW md,
           InOrder(td), td # <<>>, Pending(td, hp, h, lim, ns, nc),
           Does(td, hp, lim, ns, nc, hq, mt, md), Unopened(Tail(td), g)
    PROVE  Pending(Tail(td), hq, g, lim, mt, md)
<1> DEFINE r == Tail(td)
           x == Head(td)
           calc == Call("server_pool_each_calc_connections")
           most == Call("core_calc_connections")
<1>1. /\ ToSet(td) = {x} \cup ToSet(r) /\ x \notin ToSet(r)
      /\ \A y \in ToSet(td) : Rank(x[1]) <= Rank(y[1])
    BY After
<1>2. Rank(calc[1]) = 9 /\ Rank(most[1]) = 11 /\ calc # most
    BY Ranks DEF Call
<1> HIDE DEF r, x
<1>3. Block("conf") \notin hq => Call("conf_create") \in ToSet(r)
    BY <1>1 DEF Pending, Does, x
<1>4. Block("pools") \notin hq => Call("server_pool_array") \in ToSet(r)
    BY <1>1 DEF Pending, Does, x
<1>5. Block("stats") \notin hq => Call("stats_alloc") \in ToSet(r)
    BY <1>1 DEF Pending, Does, x
<1>6. calc \in ToSet(r) => most \in ToSet(r)
  <2> SUFFICES ASSUME calc \in ToSet(r) PROVE most \in ToSet(r)
      OBVIOUS
  <2>1. most \in ToSet(td) /\ calc \in ToSet(td)
      BY <1>1 DEF Pending
  <2>2. x # most
      BY <1>1, <1>2, <2>1
  <2> QED BY <1>1, <2>1, <2>2
<1> HIDE DEF calc, most
<1>7. calc \notin ToSet(r) => mt = MapThenSumSet(MaxOfPool, Pool) % WORD
    BY <1>1 DEF Pending, Does, x, calc
<1>8. most \notin ToSet(r) => md = (lim - mt - RESERVED_FDS) % WORD
  <2> SUFFICES ASSUME most \notin ToSet(r) PROVE md = (lim - mt - RESERVED_FDS) % WORD
      OBVIOUS
  <2>1. CASE x = most
    <3>1. mt = ns /\ md = (lim - ns - RESERVED_FDS) % WORD
        BY <2>1, <1>2 DEF Does, x, calc, most
    <3> QED BY <3>1
  <2>2. CASE x # most
    <3>1. most \notin ToSet(td)
        BY <2>2, <1>1
    <3>2. calc \notin ToSet(td)
        BY <3>1 DEF Pending, calc, most
    <3>3. x # calc
        BY <3>2, <1>1
    <3>4. mt = ns /\ md = nc
        BY <2>2, <3>3 DEF Does, x, calc, most
    <3> QED BY <3>1, <3>4 DEF Pending, most
  <2> QED BY <2>1, <2>2
<1>9. \A p \in Pool :
          /\ <<"proxy_each_init", p, 0>> \in ToSet(r) => OwnedBy(g, <<"proxy", p, 0>>) = {}
          /\ \A s \in 1..NSERVER[p] : <<"server_each_preconnect", p, s>> \in ToSet(r)
                 => OwnedBy(g, <<"server", p, s>>) = {}
    BY DEF Unopened, r
<1> QED
    BY <1>3, <1>4, <1>5, <1>6, <1>7, <1>8, <1>9 DEF Pending, r, calc, most

(* When no call is lost, connections that only close leave it unopened.    *)
LEMMA UnopenedTail ==
    ASSUME NEW td, NEW hp, NEW h, NEW lim, NEW ns, NEW nc, NEW g,
           InOrder(td), td # <<>>, Pending(td, hp, h, lim, ns, nc), Shrinks(g, h)
    PROVE  Unopened(Tail(td), g) /\ Unopened(td, g)
<1>1. ToSet(Tail(td)) \subseteq ToSet(td)
    BY After
<1>2. \A o : o # Nobody => OwnedBy(g, o) \subseteq OwnedBy(h, o)
    BY ShrinksKeeps
<1>3. ASSUME NEW p \in Pool, <<"proxy_each_init", p, 0>> \in ToSet(td)
      PROVE  OwnedBy(g, <<"proxy", p, 0>>) = {}
  <2>1. <<"proxy", p, 0>> # Nobody
      BY DEF Nobody
  <2> QED BY <2>1, <1>2, <1>3 DEF Pending
<1>4. ASSUME NEW p \in Pool, NEW s \in 1..NSERVER[p],
             <<"server_each_preconnect", p, s>> \in ToSet(td)
      PROVE  OwnedBy(g, <<"server", p, s>>) = {}
  <2>1. <<"server", p, s>> # Nobody
      BY DEF Nobody
  <2> QED BY <2>1, <1>2, <1>4 DEF Pending
<1> QED
    BY <1>1, <1>3, <1>4 DEF Unopened

(* What there is while more is to be undone.                               *)
LEMMA HeldLess ==
    ASSUME NEW hp, NEW f, NEW h, NEW n, NEW k \in 0..9, NEW j \in 0..9, j <= k,
           HeldBy(hp, f, h, n, k), NoneFreed(h)
    PROVE  HeldBy(hp, f, h, n, j)
<1>1. k..9 \subseteq j..9
    OBVIOUS
<1>2. UNION {FreedBy(i) : i \in k..9} \subseteq UNION {FreedBy(i) : i \in j..9}
    BY <1>1
<1>3. UNION {ClosedBy(i) : i \in k..9} \subseteq UNION {ClosedBy(i) : i \in j..9}
    BY <1>1
<1>4. BlocksHeld(hp, j)
    BY <1>2 DEF HeldBy, BlocksHeld
<1>5. FdsHeld(f, j)
    BY <1>3 DEF HeldBy, FdsHeld
<1>6. OwnersHeld(h, j)
    BY DEF HeldBy, OwnersHeld
<1>7. StructsHeld(h, j)
    BY DEF HeldBy, StructsHeld, NoneFreed
<1>8. FileHeld(n, j)
    BY DEF HeldBy, FileHeld
<1> QED
    BY <1>4, <1>5, <1>6, <1>7, <1>8 DEF HeldBy

(* A call of the start succeeds.                                           *)
LEMMA StartGoes ==
    ASSUME NEW td, NEW hp, NEW f, NEW h, NEW n, NEW lim, NEW ns, NEW nc,
           NEW hq, NEW fq, NEW g, NEW m, NEW mt, NEW md,
           Started(td, hp, f, h, n, lim, ns, nc), Head(td)[1] # "core_loop",
           Does(td, hp, lim, ns, nc, hq, mt, md), Unopened(Tail(td), g), NoneFreed(g),
           HeldBy(hq, fq, g, m, Depth(Head(Tail(td))[1]))
    PROVE  Started(Tail(td), hq, fq, g, m, lim, mt, md)
<1>0. td # <<>>
  <2>1. ToSet(<<>>) = {}
      BY Nothing
  <2> QED BY <2>1 DEF Started
<1>1. InOrder(td) /\ Call("core_loop") \in ToSet(td) /\ Pending(td, hp, h, lim, ns, nc)
    BY DEF Started
<1>2. InOrder(Tail(td)) /\ Call("core_loop") \in ToSet(Tail(td))
    BY <1>0, <1>1, After, GoesOn
<1>3. Pending(Tail(td), hq, g, lim, mt, md)
    BY <1>0, <1>1, PendingTail
<1> QED
    BY <1>2, <1>3 DEF Started

(* A call of the start fails.                                              *)
LEMMA StartFails ==
    ASSUME NEW td, NEW hp, NEW f, NEW h, NEW n, NEW lim, NEW ns, NEW nc,
           NEW hq, NEW fq, NEW g, NEW m,
           Started(td, hp, f, h, n, lim, ns, nc), hp \subseteq hq,
           NEW k \in 1..9, k = Depth(Head(td)[1]), HeldBy(hq, fq, g, m, k)
    PROVE  Undone(Rest(k), hq, fq, g, m, k)
<1>0. td # <<>>
  <2>1. ToSet(<<>>) = {}
      BY Nothing
  <2> QED BY <2>1 DEF Started
<1>1. InOrder(td) /\ Pending(td, hp, h, lim, ns, nc)
    BY DEF Started
<1>2. /\ Rank(Head(td)[1]) \in 1..22
      /\ \A y \in ToSet(td) : Rank(Head(td)[1]) <= Rank(y[1])
    BY <1>0, <1>1, After
<1>3. /\ k <= 6 => Rank(Head(td)[1]) > 6
      /\ k <= 5 => Rank(Head(td)[1]) > 7
      /\ k <= 4 => Rank(Head(td)[1]) > 12
    BY <1>2, DepthLimits
<1>4. /\ Rank(Call("conf_create")[1]) = 6 /\ Rank(Call("server_pool_array")[1]) = 7
      /\ Rank(Call("stats_alloc")[1]) = 12
    BY Ranks DEF Call
<1>5. k <= 6 => Call("conf_create") \notin ToSet(td)
    BY <1>2, <1>3, <1>4
<1>6. k <= 5 => Call("server_pool_array") \notin ToSet(td)
    BY <1>2, <1>3, <1>4
<1>7. k <= 4 => Call("stats_alloc") \notin ToSet(td)
    BY <1>2, <1>3, <1>4
<1>8. /\ k <= 6 => Block("conf") \in hq
      /\ k <= 5 => Block("pools") \in hq
      /\ k <= 4 => Block("stats") \in hq
    BY <1>1, <1>5, <1>6, <1>7 DEF Pending
<1> QED
    BY <1>8 DEF Undone

(* The rests of the unwinding and of stopping are typed.                   *)
LEMMA RestTyped ==
    \A k \in 1..10 : Rest(k) \in Seq(Name \X Nat \X Nat) /\ StopRest(k) \in Seq(Name \X Nat \X Nat)
<1> DEFINE T == Name \X Nat \X Nat
<1>1. \A v \in Seq(T) : Len(v) = 9 => \A k \in 1..10 : SubSeq(v, k, 9) \in Seq(T)
  <2> SUFFICES ASSUME NEW v \in Seq(T), Len(v) = 9, NEW k \in 1..10
               PROVE  SubSeq(v, k, 9) \in Seq(T)
      OBVIOUS
  <2> HIDE DEF T
  <2>1. \A i \in k..9 : v[i] \in T
    <3>1. \A i \in k..9 : i \in 1..9
        OBVIOUS
    <3> DEFINE n == 9
    <3>2. \A i \in k..n : i \in 1..Len(v)
        BY <3>1
    <3> HIDE DEF n
    <3>3. \A i \in 1..Len(v) : v[i] \in T
        BY ElementOfSeq
    <3>4. \A i \in k..n : v[i] \in T
        BY ONLY <3>2, <3>3
    <3> QED BY <3>4 DEF n
  <2>2. k \in Int /\ 9 \in Int
      OBVIOUS
  <2> QED BY ONLY <2>1, <2>2, SubSeqProperties
<1>2. Undo \in Seq(T) /\ Len(Undo) = 9 /\ core_stop \in Seq(T) /\ Len(core_stop) = 9
    BY UndoIs, StopIs
<1> HIDE DEF T
<1>3. \A k \in 1..10 : SubSeq(Undo, k, 9) \in Seq(T) /\ SubSeq(core_stop, k, 9) \in Seq(T)
    BY <1>1, <1>2
<1> QED
    BY <1>3 DEF Rest, StopRest, Undo, T

(* While core_loop is to come there is a call to make.                     *)
LEMMA EmptyIsNotStart ==
    ASSUME NEW td, Call("core_loop") \in ToSet(td)
    PROVE  td # <<>>
<1>1. ToSet(<<>>) = {}
    BY Nothing
<1> QED
    BY <1>1

(* The names of the unwinding.                                             *)
LEMMA UndoNames ==
    /\ Undo[1][1] = "proxy_deinit" /\ Undo[2][1] = "server_pool_disconnect"
    /\ Undo[3][1] = "event_base_destroy" /\ Undo[4][1] = "stats_destroy"
    /\ Undo[5][1] = "server_pool_deinit" /\ Undo[6][1] = "conf_destroy"
    /\ Undo[7][1] = "gf_free" /\ Undo[8][1] = "conn_deinit" /\ Undo[9][1] = "gf_post_run"
    /\ core_stop[1][1] = "conn_deinit"
    /\ core_stop[2][1] = "proxy_deinit" /\ core_stop[3][1] = "server_pool_disconnect"
    /\ core_stop[4][1] = "event_base_destroy" /\ core_stop[5][1] = "stats_destroy"
    /\ core_stop[6][1] = "server_pool_deinit" /\ core_stop[7][1] = "conf_destroy"
    /\ core_stop[8][1] = "gf_free" /\ core_stop[9][1] = "gf_post_run"
<1>1. /\ Undo[1][1] = "proxy_deinit" /\ Undo[2][1] = "server_pool_disconnect"
      /\ Undo[3][1] = "event_base_destroy" /\ Undo[4][1] = "stats_destroy"
      /\ Undo[5][1] = "server_pool_deinit" /\ Undo[6][1] = "conf_destroy"
      /\ Undo[7][1] = "gf_free" /\ Undo[8][1] = "conn_deinit" /\ Undo[9][1] = "gf_post_run"
    BY UndoIs DEF Call
<1>2. /\ core_stop[1][1] = "conn_deinit"
      /\ core_stop[2][1] = "proxy_deinit" /\ core_stop[3][1] = "server_pool_disconnect"
      /\ core_stop[4][1] = "event_base_destroy" /\ core_stop[5][1] = "stats_destroy"
      /\ core_stop[6][1] = "server_pool_deinit" /\ core_stop[7][1] = "conf_destroy"
      /\ core_stop[8][1] = "gf_free" /\ core_stop[9][1] = "gf_post_run"
    BY StopIs DEF Call
<1> QED
    BY <1>1, <1>2

(* While main has calls of the start to make, it starts.                   *)
LEMMA AtStart ==
    ASSUME IInv, NEW n, At(n), Rank(n) \in 1..22
    PROVE  /\ Starts /\ todo # <<>> /\ InOrder(todo) /\ Head(todo) \in Calls
           /\ Head(todo)[1] = n /\ ~stopping /\ ~interrupted
           /\ Started(todo, heap, fds, cs, nci, nfd, max_nsconn, max_ncconn)
           /\ HeldBy(heap, fds, cs, nci, Depth(n)) /\ NoneFreed(cs)
           /\ Structs(cs) /\ Limits(cs) /\ Clean(cs) /\ TypeOK
           /\ Pending(todo, heap, cs, nfd, max_nsconn, max_ncconn)
<1> DEFINE E == {"proxy_deinit", "server_pool_disconnect", "event_base_destroy",
              "stats_destroy", "server_pool_deinit", "conf_destroy", "gf_free",
              "conn_deinit", "gf_post_run"}
<1>0. /\ Rank("proxy_deinit") = 0 /\ Rank("server_pool_disconnect") = 0
      /\ Rank("event_base_destroy") = 0 /\ Rank("stats_destroy") = 0
      /\ Rank("server_pool_deinit") = 0 /\ Rank("conf_destroy") = 0
      /\ Rank("gf_free") = 0 /\ Rank("conn_deinit") = 0 /\ Rank("gf_post_run") = 0
    BY NotOfStart
<1>1. todo # <<>> /\ Head(todo)[1] = n
    BY DEF At
<1>2. \A k \in 1..9 : k = 1 \/ k = 2 \/ k = 3 \/ k = 4 \/ k = 5 \/ k = 6 \/ k = 7 \/ k = 8 \/ k = 9
    OBVIOUS
<1>3. \A k \in 1..9 : Rank(Undo[k][1]) = 0 /\ Rank(core_stop[k][1]) = 0
    BY <1>0, <1>2, UndoNames
<1>4. ~Undoes
  <2> SUFFICES ASSUME Undoes PROVE FALSE
      OBVIOUS
  <2>1. PICK k \in 1..10 : todo = Rest(k)
      BY DEF Undoes, Undone
  <2>2. CASE k = 10
      BY <2>1, <2>2, <1>1, RestIs
  <2>3. CASE k \in 1..9
    <3>1. Head(todo) = Undo[k]
        BY <2>1, <2>3, RestIs
    <3>2. Rank(n) = 0
        BY ONLY <3>1, <2>3, <1>1, <1>3
    <3>3. Rank(n) # 0
        OBVIOUS
    <3> QED BY <3>2, <3>3
  <2> QED BY <2>2, <2>3
<1>5. ~Stops
  <2> SUFFICES ASSUME Stops PROVE FALSE
      OBVIOUS
  <2>1. PICK k \in 1..10 : todo = StopRest(k)
      BY DEF Stops, Stopped
  <2>2. CASE k = 10
      BY <2>1, <2>2, <1>1, StopRestIs
  <2>3. CASE k \in 1..9
    <3>1. Head(todo) = core_stop[k]
        BY <2>1, <2>3, StopRestIs
    <3>2. Rank(n) = 0
        BY ONLY <3>1, <2>3, <1>1, <1>3
    <3>3. Rank(n) # 0
        OBVIOUS
    <3> QED BY <3>2, <3>3
  <2> QED BY <2>2, <2>3
<1>6. Starts
    BY <1>1, <1>4, <1>5 DEF IInv, Ended
<1>7. /\ Started(todo, heap, fds, cs, nci, nfd, max_nsconn, max_ncconn)
      /\ ~stopping /\ ~interrupted
    BY <1>6 DEF Starts
<1>8. /\ InOrder(todo) /\ NoneFreed(cs) /\ HeldBy(heap, fds, cs, nci, Depth(n))
      /\ Pending(todo, heap, cs, nfd, max_nsconn, max_ncconn)
    BY <1>1, <1>7 DEF Started
<1>9. Head(todo) \in Calls
    BY <1>1, <1>8, After
<1> QED
    BY <1>1, <1>6, <1>7, <1>8, <1>9 DEF IInv

(* While main has calls of the end to make, it unwinds or stops.           *)
LEMMA AtEnd ==
    ASSUME IInv, NEW n, At(n), Rank(n) = 0
    PROVE  /\ ~interrupted /\ TypeOK /\ Structs(cs) /\ Limits(cs)
           /\ \/ /\ ~stopping /\ Clean(cs)
                 /\ \E k \in 1..9 : /\ Undone(todo, heap, fds, cs, nci, k)
                                    /\ Undo[k][1] = n /\ Tail(todo) = Rest(k + 1)
              \/ /\ stopping
                 /\ \E k \in 1..9 : /\ Stopped(todo, heap, fds, cs, nci, k)
                                    /\ core_stop[k][1] = n /\ Tail(todo) = StopRest(k + 1)
<1>1. todo # <<>> /\ Head(todo)[1] = n
    BY DEF At
<1>2. ~Starts
  <2> SUFFICES ASSUME Starts PROVE FALSE
      OBVIOUS
  <2>1. InOrder(todo)
      BY DEF Starts, Started
  <2>2. Rank(Head(todo)[1]) \in 1..22
      BY <2>1, <1>1, After
  <2> QED BY <2>2, <1>1
<1>3. TypeOK /\ Structs(cs) /\ Limits(cs) /\ (~stopping => Clean(cs)) /\ (Undoes \/ Stops)
    BY <1>1, <1>2 DEF IInv, Ended
<1>4. CASE Undoes
  <2>1. PICK k \in 1..10 : Undone(todo, heap, fds, cs, nci, k)
      BY <1>4 DEF Undoes
  <2>2. todo = Rest(k) /\ ~stopping /\ ~interrupted
      BY <1>4, <2>1 DEF Undoes, Undone
  <2>3. k # 10
      BY <2>2, <1>1, RestIs
  <2>4. k \in 1..9
      BY <2>3
  <2>5. Head(todo) = Undo[k] /\ Tail(todo) = Rest(k + 1)
      BY <2>2, <2>4, RestIs
  <2>6. Undo[k][1] = n
      BY <2>5, <1>1
  <2> QED BY <2>1, <2>2, <2>4, <2>5, <2>6, <1>3
<1>5. CASE Stops
  <2>1. PICK k \in 1..10 : Stopped(todo, heap, fds, cs, nci, k)
      BY <1>5 DEF Stops
  <2>2. todo = StopRest(k) /\ stopping /\ ~interrupted
      BY <1>5, <2>1 DEF Stops, Stopped
  <2>3. k # 10
      BY <2>2, <1>1, StopRestIs
  <2>4. k \in 1..9
      BY <2>3
  <2>5. Head(todo) = core_stop[k] /\ Tail(todo) = StopRest(k + 1)
      BY <2>2, <2>4, StopRestIs
  <2>6. core_stop[k][1] = n
      BY <2>5, <1>1
  <2> QED BY <2>1, <2>2, <2>4, <2>5, <2>6, <1>3
<1> QED
    BY <1>3, <1>4, <1>5

(* Which step of the end a call is.                                        *)
LEMMA WhichStep ==
    ASSUME NEW k \in 1..9
    PROVE  /\ Undo[k][1] = "proxy_deinit" => k = 1
           /\ Undo[k][1] = "server_pool_disconnect" => k = 2
           /\ Undo[k][1] = "event_base_destroy" => k = 3
           /\ Undo[k][1] = "stats_destroy" => k = 4
           /\ Undo[k][1] = "server_pool_deinit" => k = 5
           /\ Undo[k][1] = "conf_destroy" => k = 6
           /\ Undo[k][1] = "gf_free" => k = 7
           /\ Undo[k][1] = "conn_deinit" => k = 8
           /\ Undo[k][1] = "gf_post_run" => k = 9
           /\ core_stop[k][1] = "conn_deinit" => k = 1
           /\ core_stop[k][1] = "proxy_deinit" => k = 2
           /\ core_stop[k][1] = "server_pool_disconnect" => k = 3
           /\ core_stop[k][1] = "event_base_destroy" => k = 4
           /\ core_stop[k][1] = "stats_destroy" => k = 5
           /\ core_stop[k][1] = "server_pool_deinit" => k = 6
           /\ core_stop[k][1] = "conf_destroy" => k = 7
           /\ core_stop[k][1] = "gf_free" => k = 8
           /\ core_stop[k][1] = "gf_post_run" => k = 9
<1>1. k = 1 \/ k = 2 \/ k = 3 \/ k = 4 \/ k = 5 \/ k = 6 \/ k = 7 \/ k = 8 \/ k = 9
    OBVIOUS
<1> QED
    BY <1>1, UndoNames

(* The invariant of the next state, part by part.                          *)
AllFds == Std \cup {"log", "stats", "epoll", "stats epoll", "collector"}

(* The parts of the invariant of the next state.                           *)
LEMMA IInvNext ==
    ASSUME IInv, todo' \in Seq(Name \X Nat \X Nat), fds' \subseteq AllFds,
           Structs(cs'), Limits(cs'), Cardinality(Clients(cs')) <= max_ncconn',
           ~stopping' => Clean(cs'),
           nfd' = nfd, max_nsconn' \in 0..(WORD - 1), max_ncconn' \in 0..(WORD - 1),
           nci' \in [wanted : BOOLEAN, pidfile : BOOLEAN, file : BOOLEAN],
           thread' \in {"none", "new", "loop"},
           stopping' \in BOOLEAN, interrupted' \in BOOLEAN, nfault' \in 0..MaxFault,
           Starts' \/ Undoes' \/ Stops' \/ Ended'
    PROVE  IInv'
<1>1. cs'.conn \in [Conn -> Struct] /\ cs'.freeq \in Seq(Conn) /\ cs'.nleak \in Nat
    BY DEF Structs, Struct
<1>2. nfd \in NFD
    BY DEF IInv, TypeOK
<1>3. TypeOK'
    BY <1>1, <1>2 DEF TypeOK, AllFds, Struct
<1> QED
    BY <1>3 DEF IInv

(* The variables of no concern to what is held, and connections.           *)
Others ==
    /\ fds' \subseteq AllFds /\ nfd' = nfd
    /\ max_nsconn' \in 0..(WORD - 1) /\ max_ncconn' \in 0..(WORD - 1)
    /\ nci' \in [wanted : BOOLEAN, pidfile : BOOLEAN, file : BOOLEAN]
    /\ thread' \in {"none", "new", "loop"} /\ nfault' \in 0..MaxFault
Structures ==
    /\ Structs(cs') /\ Limits(cs') /\ Cardinality(Clients(cs')) <= max_ncconn'
    /\ ~stopping' => Clean(cs')

(* The other variables are kept.                                           *)
LEMMA SameOthers ==
    ASSUME IInv, UNCHANGED <<fds, env, nci, thread>>, nfault' \in 0..MaxFault
    PROVE  Others
<1>1. TypeOK
    BY DEF IInv
<1>2. fds' = fds /\ nfd' = nfd /\ max_nsconn' = max_nsconn /\ max_ncconn' = max_ncconn
      /\ nci' = nci /\ thread' = thread
    BY DEF env
<1> QED
    BY <1>1, <1>2 DEF TypeOK, Others, AllFds

(* The structures are kept.                                                *)
LEMMA SameStructures ==
    ASSUME IInv, cs' = cs, max_ncconn' = max_ncconn, ~stopping' => ~stopping
    PROVE  Structures
<1>1. Structs(cs) /\ Limits(cs) /\ Cardinality(Clients(cs)) <= max_ncconn
      /\ (~stopping => Clean(cs))
    BY DEF IInv
<1> QED
    BY <1>1 DEF Structures

(* The structures are alike.                                               *)
LEMMA AlikeStructures ==
    ASSUME IInv, Alike(cs', cs), max_ncconn' = max_ncconn, ~stopping' => ~stopping
    PROVE  Structures
<1>1. Structs(cs) /\ Limits(cs) /\ Cardinality(Clients(cs)) <= max_ncconn
      /\ (~stopping => Clean(cs))
    BY DEF IInv
<1>2. /\ Limits(cs') /\ Clients(cs') = Clients(cs)
      /\ Clean(cs) => Clean(cs')
    BY <1>1, AlikeKeeps
<1>3. Structs(cs')
    BY DEF Alike
<1> QED
    BY <1>1, <1>2, <1>3 DEF Structures

(* Structures that are kept are alike.                                     *)
LEMMA SameAlike == IInv /\ cs' = cs => Alike(cs', cs)
BY DEF IInv, Alike

(* Failures stay below their bound.                                        *)
LEMMA Faults ==
    ASSUME IInv, nfault' = nfault \/ Faulty
    PROVE  nfault' \in 0..MaxFault
<1>1. nfault \in 0..MaxFault /\ MaxFault \in Nat
    BY LifecycleAssumption DEF IInv, TypeOK
<1>2. CASE Faulty
    BY <1>1, <1>2 DEF Faulty
<1> QED
    BY <1>1, <1>2

(* The call of the start after this one.                                   *)
LEMMA StartNext ==
    ASSUME IInv, NEW n, At(n), Rank(n) \in 1..22, n # "core_loop"
    PROVE  LET j == Depth(Head(Tail(todo))[1])
           IN /\ j \in 0..9 /\ j <= Depth(n) /\ HeldBy(heap, fds, cs, nci, j)
              /\ n = "core_ctx_alloc" => j <= 7
              /\ n = "conf_create" => j <= 6
              /\ n = "server_pool_array" => j <= 5
              /\ n = "stats_alloc" => j <= 4
              /\ n = "event_base_create" => j <= 2
              /\ Unopened(Tail(todo), cs)
              /\ Tail(todo) \in Seq(Name \X Nat \X Nat)
<1> DEFINE y == Head(Tail(todo))
           j == Depth(y[1])
<1>1. /\ Starts /\ todo # <<>> /\ InOrder(todo) /\ Head(todo)[1] = n
      /\ Started(todo, heap, fds, cs, nci, nfd, max_nsconn, max_ncconn)
      /\ HeldBy(heap, fds, cs, nci, Depth(n)) /\ NoneFreed(cs)
      /\ Pending(todo, heap, cs, nfd, max_nsconn, max_ncconn)
    BY AtStart
<1>2. Call("core_loop") \in ToSet(todo)
    BY <1>1 DEF Started
<1>3. /\ Rank(y[1]) \in 1..22 /\ j <= Depth(n) /\ j \in 0..9 /\ Depth(n) \in 0..9
      /\ n \in Once => Rank(n) < Rank(y[1])
  <2>1. Head(todo)[1] # "core_loop"
      BY <1>1
  <2> QED BY <1>1, <1>2, <2>1, GoesOn
<1> HIDE DEF y
<1>4. HeldBy(heap, fds, cs, nci, j)
    BY <1>1, <1>3, HeldLess
<1>5. /\ Rank(y[1]) > 5 => j <= 7
      /\ Rank(y[1]) > 6 => j <= 6
      /\ Rank(y[1]) > 7 => j <= 5
      /\ Rank(y[1]) > 12 => j <= 4
      /\ Rank(y[1]) > 19 => j <= 2
    BY <1>3, DepthLimits
<1> HIDE DEF j
<1>6. /\ n = "core_ctx_alloc" => j <= 7
      /\ n = "conf_create" => j <= 6
      /\ n = "server_pool_array" => j <= 5
      /\ n = "stats_alloc" => j <= 4
      /\ n = "event_base_create" => j <= 2
  <2>1. n \in {"core_ctx_alloc", "conf_create", "server_pool_array", "stats_alloc",
               "event_base_create"} => n \in Once
      BY DEF Once
  <2>2. /\ n = "core_ctx_alloc" => Rank(n) = 5
        /\ n = "conf_create" => Rank(n) = 6
        /\ n = "server_pool_array" => Rank(n) = 7
        /\ n = "stats_alloc" => Rank(n) = 12
        /\ n = "event_base_create" => Rank(n) = 19
      BY Ranks
  <2>3. Rank(y[1]) \in Int
      BY <1>3
  <2>4. n = "core_ctx_alloc" => j <= 7
      BY <1>3, <1>5, <2>1, <2>2, <2>3
  <2>5. n = "conf_create" => j <= 6
      BY <1>3, <1>5, <2>1, <2>2, <2>3
  <2>6. n = "server_pool_array" => j <= 5
      BY <1>3, <1>5, <2>1, <2>2, <2>3
  <2>7. n = "stats_alloc" => j <= 4
      BY <1>3, <1>5, <2>1, <2>2, <2>3
  <2>8. n = "event_base_create" => j <= 2
      BY <1>3, <1>5, <2>1, <2>2, <2>3
  <2> QED BY <2>4, <2>5, <2>6, <2>7, <2>8
<1>7. Unopened(Tail(todo), cs)
  <2>1. Shrinks(cs, cs)
      BY DEF Shrinks
  <2> QED BY <1>1, <2>1, UnopenedTail
<1>8. Tail(todo) \in Seq(Name \X Nat \X Nat)
  <2>1. Tail(todo) \in Seq(Calls)
      BY <1>1, After DEF InOrder
  <2>2. Calls \subseteq Name \X Nat \X Nat
      BY DEF Calls
  <2> QED BY <2>1, <2>2, SeqOfSubset
<1> QED
    BY <1>3, <1>4, <1>6, <1>7, <1>8 DEF j, y

(* A call of the start succeeds: the invariant of the next state.          *)
LEMMA SucceedsKeeps ==
    ASSUME IInv, NEW n, At(n), Rank(n) \in 1..22, n # "core_loop",
           todo' = Tail(todo), Others, Structures, NoneFreed(cs'), Unopened(Tail(todo), cs'),
           stopping' = stopping, interrupted' = interrupted,
           Does(todo, heap, nfd, max_nsconn, max_ncconn, heap', max_nsconn', max_ncconn'),
           HeldBy(heap', fds', cs', nci', Depth(Head(Tail(todo))[1]))
    PROVE  IInv'
<1>1. /\ Started(todo, heap, fds, cs, nci, nfd, max_nsconn, max_ncconn)
      /\ Head(todo)[1] = n /\ ~stopping /\ ~interrupted
    BY AtStart
<1>2. Started(Tail(todo), heap', fds', cs', nci', nfd, max_nsconn', max_ncconn')
    BY <1>1, StartGoes
<1>3. Starts'
    BY <1>1, <1>2 DEF Starts, Others
<1>4. Tail(todo) \in Seq(Name \X Nat \X Nat)
    BY StartNext
<1>5. stopping' \in BOOLEAN /\ interrupted' \in BOOLEAN
  <2>1. stopping \in BOOLEAN /\ interrupted \in BOOLEAN
      BY DEF IInv, TypeOK
  <2> QED BY <2>1
<1> QED
    BY <1>3, <1>4, <1>5, IInvNext DEF Others, Structures

(* A call of the start fails: the unwinding begins.                        *)
LEMMA FailsKeeps ==
    ASSUME IInv, NEW n, At(n), Rank(n) \in 1..22, Depth(n) \in 1..9,
           todo' = Rest(Depth(n)), Others, Structures,
           stopping' = stopping, interrupted' = interrupted, heap \subseteq heap',
           HeldBy(heap', fds', cs', nci', Depth(n))
    PROVE  IInv'
<1>1. /\ Started(todo, heap, fds, cs, nci, nfd, max_nsconn, max_ncconn)
      /\ Head(todo)[1] = n /\ ~stopping /\ ~interrupted
    BY AtStart
<1> DEFINE k == Depth(n)
<1>k. k \in 1..9 /\ k = Depth(Head(todo)[1]) /\ HeldBy(heap', fds', cs', nci', k)
    BY <1>1
<1>t. todo' = Rest(k)
    OBVIOUS
<1> HIDE DEF k
<1>2. Undone(Rest(k), heap', fds', cs', nci', k)
    BY ONLY <1>1, <1>k, heap \subseteq heap', StartFails
<1>3. Undoes'
  <2>1. k \in 1..10
      BY <1>k
  <2>2. Undone(todo', heap', fds', cs', nci', k)
      BY <1>2, <1>t
  <2> QED BY <1>1, <2>1, <2>2 DEF Undoes
<1>4. todo' \in Seq(Name \X Nat \X Nat)
  <2>1. k \in 1..10
      BY <1>k
  <2> QED BY <1>t, <2>1, RestTyped
<1>5. stopping' \in BOOLEAN /\ interrupted' \in BOOLEAN
  <2>1. stopping \in BOOLEAN /\ interrupted \in BOOLEAN
      BY DEF IInv, TypeOK
  <2> QED BY <2>1
<1> QED
    BY <1>3, <1>4, <1>5, IInvNext DEF Others, Structures

(* Blocks that are allocated are held as far as the call that frees them.  *)
LEMMA HeldMore ==
    ASSUME NEW hp, NEW f, NEW h, NEW n, NEW j \in 0..9, HeldBy(hp, f, h, n, j),
           NEW B, NEW i \in j..9, B \subseteq FreedBy(i)
    PROVE  HeldBy(hp \cup B, f, h, n, j)
<1>1. BlocksHeld(hp \cup B, j)
    BY DEF HeldBy, BlocksHeld
<1> QED
    BY <1>1 DEF HeldBy

(* A call that only allocates blocks.                                      *)
LEMMA AllocatesKeeps ==
    ASSUME IInv, NEW n, Rank(n) \in 1..22, n \notin {"core_loop", "core_calc_connections",
               "server_pool_each_calc_connections"}, Depth(n) \in 1..9,
           NEW B, NEW i \in 1..9, B \subseteq FreedBy(i),
           Allocates(n, B, Rest(Depth(n))),
           At(n) => Depth(Head(Tail(todo))[1]) <= i,
           n = "conf_create" => Block("conf") \in B,
           n = "server_pool_array" => Block("pools") \in B,
           n = "stats_alloc" => Block("stats") \in B
    PROVE  IInv'
<1> DEFINE j == Depth(Head(Tail(todo))[1])
<1>1. /\ At(n) /\ UNCHANGED <<fds, env, nci, thread>> /\ cs' = cs
      /\ stopping' = stopping /\ interrupted' = interrupted
      /\ max_nsconn' = max_nsconn /\ max_ncconn' = max_ncconn
    BY DEF Allocates, env
<1>2. nfault' \in 0..MaxFault
  <2>1. nfault' = nfault \/ Faulty
      BY DEF Allocates, Succeeds, FailsTo
  <2> QED BY <2>1, Faults
<1>3. Others /\ Structures
    BY <1>1, <1>2, SameOthers, SameStructures
<1>4. NoneFreed(cs) /\ HeldBy(heap, fds, cs, nci, Depth(n)) /\ Head(todo)[1] = n
    BY <1>1, AtStart
<1>5. CASE Succeeds /\ heap' = heap \cup B
  <2>1. j \in 0..9 /\ HeldBy(heap, fds, cs, nci, j) /\ Unopened(Tail(todo), cs)
      BY <1>1, StartNext
  <2>a. j <= i
      BY <1>1
  <2> HIDE DEF j
  <2>2. i \in j..9
      BY ONLY <2>1, <2>a, i \in 1..9
  <2>3. HeldBy(heap \cup B, fds, cs, nci, j)
      BY <2>1, <2>2, HeldMore
  <2>4. Does(todo, heap, nfd, max_nsconn, max_ncconn, heap', max_nsconn', max_ncconn')
    <3>1. /\ Head(todo) # Call("server_pool_each_calc_connections")
          /\ Head(todo) # Call("core_calc_connections")
        BY <1>4 DEF Call
    <3>2. /\ Head(todo) = Call("conf_create") => n = "conf_create"
          /\ Head(todo) = Call("server_pool_array") => n = "server_pool_array"
          /\ Head(todo) = Call("stats_alloc") => n = "stats_alloc"
        BY <1>4 DEF Call
    <3> QED BY <1>1, <1>5, <3>1, <3>2 DEF Does
  <2>5. NoneFreed(cs') /\ Unopened(Tail(todo), cs')
      BY <1>1, <1>4, <2>1
  <2>6. HeldBy(heap', fds', cs', nci', j)
      BY <1>1, <1>5, <2>3
  <2>7. todo' = Tail(todo)
      BY <1>5 DEF Succeeds
  <2> QED BY <1>1, <1>3, <2>4, <2>5, <2>6, <2>7, SucceedsKeeps DEF j
<1>6. CASE FailsTo(Rest(Depth(n))) /\ UNCHANGED heap
  <2>1. todo' = Rest(Depth(n)) /\ heap' = heap
      BY <1>6 DEF FailsTo
  <2>2. HeldBy(heap', fds', cs', nci', Depth(n))
      BY <1>1, <1>4, <2>1
  <2> QED BY <1>1, <1>3, <2>1, <2>2, FailsKeeps
<1> QED
    BY <1>5, <1>6 DEF Allocates

(* A call that does not change structures or limits succeeds.              *)
LEMMA PlainGoes ==
    ASSUME IInv, NEW n, At(n), Rank(n) \in 1..22,
           n \notin {"core_loop", "core_calc_connections", "server_pool_each_calc_connections",
                     "conf_create", "server_pool_array", "stats_alloc"},
           todo' = Tail(todo), cs' = cs, Others, heap \subseteq heap',
           max_nsconn' = max_nsconn, max_ncconn' = max_ncconn,
           stopping' = stopping, interrupted' = interrupted,
           HeldBy(heap', fds', cs, nci', Depth(Head(Tail(todo))[1]))
    PROVE  IInv'
<1>1. NoneFreed(cs) /\ Head(todo)[1] = n
    BY AtStart
<1>2. Unopened(Tail(todo), cs)
    BY StartNext
<1>3. Does(todo, heap, nfd, max_nsconn, max_ncconn, heap', max_nsconn', max_ncconn')
  <2>1. /\ Head(todo) # Call("server_pool_each_calc_connections")
        /\ Head(todo) # Call("core_calc_connections")
        /\ Head(todo) # Call("conf_create")
        /\ Head(todo) # Call("server_pool_array")
        /\ Head(todo) # Call("stats_alloc")
      BY <1>1 DEF Call
  <2> QED BY <2>1 DEF Does
<1>4. Structures
    BY SameStructures
<1>5. NoneFreed(cs') /\ Unopened(Tail(todo), cs')
    BY <1>1, <1>2
<1>6. HeldBy(heap', fds', cs', nci', Depth(Head(Tail(todo))[1]))
    OBVIOUS
<1> QED
    BY <1>3, <1>4, <1>5, <1>6, SucceedsKeeps

(* Such a call fails.                                                      *)
LEMMA PlainFails ==
    ASSUME IInv, NEW n, At(n), Rank(n) \in 1..22, Depth(n) \in 1..9,
           todo' = Rest(Depth(n)), cs' = cs, Others, heap \subseteq heap',
           max_ncconn' = max_ncconn, stopping' = stopping, interrupted' = interrupted,
           HeldBy(heap', fds', cs, nci', Depth(n))
    PROVE  IInv'
<1>1. Structures
    BY SameStructures
<1>2. HeldBy(heap', fds', cs', nci', Depth(n))
    OBVIOUS
<1> QED
    BY <1>1, <1>2, FailsKeeps

(* HeldBy, part by part.                                                   *)
LEMMA HeldParts ==
    ASSUME NEW hp, NEW f, NEW h, NEW n, NEW j, HeldBy(hp, f, h, n, j)
    PROVE  /\ \A fq : FdsHeld(fq, j) => HeldBy(hp, fq, h, n, j)
           /\ \A m : FileHeld(m, j) => HeldBy(hp, f, h, m, j)
           /\ FdsHeld(f, j) /\ FileHeld(n, j) /\ BlocksHeld(hp, j)
           /\ OwnersHeld(h, j) /\ StructsHeld(h, j)
BY DEF HeldBy

(* Descriptors that are opened are held as far as the call that closes     *)
(* them.                                                                   *)
LEMMA FdsMore ==
    ASSUME NEW f, NEW j \in 0..9, FdsHeld(f, j)
    PROVE  /\ FdsHeld(f \cup {"log"}, j)
           /\ j <= 4 => FdsHeld(f \cup {"stats"}, j)
           /\ j <= 3 => FdsHeld(f \cup {"epoll"}, j)
<1>1. "log" \in ClosedBy(9) /\ "stats" \in ClosedBy(4) /\ "epoll" \in ClosedBy(3)
    BY DEF ClosedBy
<1>2. 9 \in j..9 /\ (j <= 4 => 4 \in j..9) /\ (j <= 3 => 3 \in j..9)
    OBVIOUS
<1>3. "log" \in UNION {ClosedBy(i) : i \in j..9}
    BY <1>1, <1>2
<1>4. j <= 4 => "stats" \in UNION {ClosedBy(i) : i \in j..9}
    BY <1>1, <1>2
<1>5. j <= 3 => "epoll" \in UNION {ClosedBy(i) : i \in j..9}
    BY <1>1, <1>2
<1>6. f \subseteq Std \cup {"stats epoll", "collector"} \cup UNION {ClosedBy(i) : i \in j..9}
    BY DEF FdsHeld
<1> DEFINE U == UNION {ClosedBy(i) : i \in j..9}
<1> HIDE DEF U
<1>7. "log" \in U => FdsHeld(f \cup {"log"}, j)
    BY <1>6 DEF FdsHeld, U
<1>8. "stats" \in U => FdsHeld(f \cup {"stats"}, j)
    BY <1>6 DEF FdsHeld, U
<1>9. "epoll" \in U => FdsHeld(f \cup {"epoll"}, j)
    BY <1>6 DEF FdsHeld, U
<1> QED
    BY <1>3, <1>4, <1>5, <1>7, <1>8, <1>9 DEF U

(* log_init keeps the invariant.                                           *)
LEMMA LogInitKeeps == IInv /\ log_init => IInv'
<1> SUFFICES ASSUME IInv, log_init PROVE IInv'
    OBVIOUS
<1> DEFINE n == "log_init"
           j == Depth(Head(Tail(todo))[1])
<1>1. /\ At(n) /\ UNCHANGED <<heap, env, nci, thread>> /\ cs' = cs
      /\ stopping' = stopping /\ interrupted' = interrupted
      /\ max_nsconn' = max_nsconn /\ max_ncconn' = max_ncconn /\ nfd' = nfd
      /\ nci' = nci /\ heap' = heap /\ thread' = thread
    BY DEF log_init, env
<1>2. Rank(n) \in 1..22 /\ Depth(n) = 9
    BY Ranks, Depths
<1>3. HeldBy(heap, fds, cs, nci, Depth(n)) /\ Head(todo)[1] = n /\ TypeOK
    BY <1>1, <1>2, AtStart
<1>4. CASE Succeeds /\ fds' \in {fds, fds \cup {"log"}}
  <2>1. j \in 0..9 /\ HeldBy(heap, fds, cs, nci, j)
      BY <1>1, <1>2, StartNext
  <2> HIDE DEF j
  <2>2. FdsHeld(fds', j)
      BY <1>4, <2>1, FdsMore, HeldParts
  <2>3. HeldBy(heap', fds', cs, nci', j)
      BY <1>1, <2>1, <2>2, HeldParts
  <2>4. Others
    <3>1. nfault' \in 0..MaxFault
        BY <1>4, Faults DEF Succeeds
    <3>2. fds' \subseteq AllFds
        BY <1>4, <1>3 DEF TypeOK, AllFds
    <3> QED BY <1>1, <1>3, <3>1, <3>2 DEF Others, TypeOK
  <2>5. todo' = Tail(todo)
      BY <1>4 DEF Succeeds
  <2> QED BY <1>1, <1>2, <2>3, <2>4, <2>5, PlainGoes DEF j
<1>5. CASE PreRunFails /\ UNCHANGED fds
  <2>1. Others
    <3>1. nfault' \in 0..MaxFault
        BY <1>5, Faults DEF PreRunFails, FailsTo
    <3> QED BY <1>1, <1>5, <3>1, SameOthers
  <2>2. todo' = Rest(Depth(n)) /\ Depth(n) \in 1..9
      BY <1>5, <1>2, FromIs DEF PreRunFails, FailsTo
  <2>3. HeldBy(heap', fds', cs, nci', Depth(n))
      BY <1>1, <1>3, <1>5
  <2> QED BY <1>1, <1>2, <2>1, <2>2, <2>3, PlainFails
<1> QED
    BY <1>4, <1>5 DEF log_init

(* gf_daemonize and signal_init keep it.                                   *)
LEMMA PreparedKeeps == IInv /\ Prepared => IInv'
<1> SUFFICES ASSUME IInv, Prepared PROVE IInv'
    OBVIOUS
<1>0. PICK n \in {"gf_daemonize", "signal_init"} : At(n)
    BY DEF Prepared
<1> DEFINE j == Depth(Head(Tail(todo))[1])
<1>1. /\ UNCHANGED <<fds, env, nci, thread>> /\ cs' = cs
      /\ stopping' = stopping /\ interrupted' = interrupted
      /\ max_nsconn' = max_nsconn /\ max_ncconn' = max_ncconn
      /\ nci' = nci /\ heap' = heap /\ fds' = fds
    BY DEF Prepared, env
<1>2. Rank(n) \in 1..22 /\ Depth(n) = 9
    BY Ranks, Depths
<1>3. HeldBy(heap, fds, cs, nci, Depth(n))
    BY <1>0, <1>2, AtStart
<1>4. Others
  <2>1. nfault' \in 0..MaxFault
      BY Faults DEF Prepared, Succeeds, PreRunFails, FailsTo
  <2> QED BY <1>1, <2>1, SameOthers
<1>5. CASE Succeeds
  <2>1. HeldBy(heap', fds', cs, nci', j)
      BY <1>0, <1>1, <1>2, StartNext
  <2>2. todo' = Tail(todo)
      BY <1>5 DEF Succeeds
  <2> QED BY <1>0, <1>1, <1>2, <1>4, <2>1, <2>2, PlainGoes
<1>6. CASE PreRunFails
  <2>1. todo' = Rest(Depth(n)) /\ Depth(n) \in 1..9
      BY <1>6, <1>2, FromIs DEF PreRunFails, FailsTo
  <2>2. HeldBy(heap', fds', cs, nci', Depth(n))
      BY <1>1, <1>3
  <2> QED BY <1>0, <1>1, <1>2, <1>4, <2>1, <2>2, PlainFails
<1> QED
    BY <1>5, <1>6 DEF Prepared

(* gf_create_pidfile keeps it: a file that is there is one the process     *)
(* will remove.                                                            *)
LEMMA PidfileKeeps == IInv /\ gf_create_pidfile => IInv'
<1> SUFFICES ASSUME IInv, gf_create_pidfile PROVE IInv'
    OBVIOUS
<1> DEFINE n == "gf_create_pidfile"
           j == Depth(Head(Tail(todo))[1])
<1>1. /\ At(n) /\ (cs' = cs \/ cs' = LosesFd(cs))
      /\ (Succeeds /\ cs' = cs) \/ PreRunFails
      /\ stopping' = stopping /\ interrupted' = interrupted
      /\ max_nsconn' = max_nsconn /\ max_ncconn' = max_ncconn /\ nfd' = nfd
      /\ heap' = heap /\ fds' = fds /\ thread' = thread
    BY DEF gf_create_pidfile, env
<1>2. Rank(n) \in 1..22 /\ Depth(n) = 9
    BY Ranks, Depths
<1>3. HeldBy(heap, fds, cs, nci, Depth(n)) /\ TypeOK
    BY <1>1, <1>2, AtStart
<1>4. ASSUME NEW w PROVE /\ PidfileOpened(w) \in [wanted : BOOLEAN, pidfile : BOOLEAN, file : BOOLEAN]
                         /\ PidfileOpened(w).pidfile = TRUE
  <2>1. nci \in [wanted : BOOLEAN, pidfile : BOOLEAN, file : BOOLEAN]
      BY <1>3 DEF TypeOK
  <2> QED BY <2>1 DEF PidfileOpened
<1>5. /\ nci' \in [wanted : BOOLEAN, pidfile : BOOLEAN, file : BOOLEAN]
      /\ nci' = nci \/ nci'.pidfile = TRUE
    BY <1>3, <1>4 DEF gf_create_pidfile, TypeOK
<1>6. Others
  <2>1. nfault' \in 0..MaxFault
      BY Faults DEF gf_create_pidfile, Succeeds, PreRunFails, FailsTo
  <2> QED BY <1>1, <1>3, <1>5, <2>1 DEF Others, TypeOK, AllFds
<1>7. \A i \in 0..9 : FileHeld(nci, i) => FileHeld(nci', i)
    BY <1>5 DEF FileHeld
<1>8. CASE Succeeds /\ cs' = cs
  <2>1. j \in 0..9 /\ HeldBy(heap, fds, cs, nci, j)
      BY <1>1, <1>2, StartNext
  <2> HIDE DEF j
  <2>2. HeldBy(heap', fds', cs, nci', j)
      BY <1>1, <1>7, <2>1, HeldParts
  <2>3. todo' = Tail(todo)
      BY <1>8 DEF Succeeds
  <2>4. cs' = cs /\ heap \subseteq heap'
      BY <1>1, <1>8
  <2> QED BY <1>1, <1>2, <1>6, <2>2, <2>3, <2>4, PlainGoes DEF j
<1>9. CASE PreRunFails
  <2>1. todo' = Rest(Depth(n)) /\ Depth(n) \in 1..9
      BY <1>9, <1>2, FromIs DEF PreRunFails, FailsTo
  <2>2. FileHeld(nci, 9) /\ 9 \in 0..9
      BY <1>2, <1>3, HeldParts
  <2>3. HeldBy(heap', fds', cs, nci', 9)
      BY <1>1, <1>2, <1>3, <1>7, <2>2, HeldParts
  <2>4. Alike(cs', cs)
    <3>1. Structs(cs)
        BY DEF IInv
    <3> QED BY <1>1, <3>1, LosesIs, SameAlike
  <2>5. Structures
      BY <1>1, <2>4, AlikeStructures
  <2>6. HeldBy(heap', fds', cs', nci', Depth(n))
      BY <1>2, <2>3, <2>4, AlikeKeeps
  <2>7. heap \subseteq heap'
      BY <1>1
  <2> QED BY <1>1, <1>2, <1>6, <2>1, <2>5, <2>6, <2>7, FailsKeeps
<1> QED
    BY <1>1, <1>8, <1>9

(* What each step of the unwinding frees.                                  *)
LEMMA FreedBlocks ==
    /\ FreedBy(3) = {Block("evb")}
    /\ FreedBy(4) = {Block("stats"), Block("buf")} \cup (Map \X Pool)
    /\ FreedBy(5) = {Block("pools")} \cup ({"pool", "servers", "continuum"} \X Pool)
    /\ FreedBy(6) = {Block("conf")} /\ FreedBy(7) = {Block("ctx")}
    /\ FreedBy(0) = {} /\ FreedBy(1) = {} /\ FreedBy(2) = {} /\ FreedBy(8) = {}
    /\ FreedBy(9) = {} /\ FreedBy(10) = {}
BY DEF FreedBy

(* The pool of a call that is made for each.                               *)
LEMMA ThePoolIs ==
    ASSUME IInv,
           \/ At("conf_pool_each_transform") \/ At("server_pool_each_run")
           \/ At("server_each_preconnect") \/ At("proxy_each_init")
    PROVE  /\ ThePool \in Pool
           /\ At("server_each_preconnect") => TheServer \in 1..NSERVER[ThePool]
           /\ At("server_each_preconnect")
                => Head(todo) = <<"server_each_preconnect", ThePool, TheServer>>
           /\ At("proxy_each_init") => Head(todo) = <<"proxy_each_init", ThePool, 0>>
<1>1. PICK n \in {"conf_pool_each_transform", "server_pool_each_run",
                  "server_each_preconnect", "proxy_each_init"} : At(n)
    OBVIOUS
<1>2. Rank(n) \in 1..22
    BY Ranks
<1>3. Head(todo) \in Calls /\ Head(todo)[1] = n
    BY <1>1, <1>2, AtStart
<1>4. ThePool \in Pool
    BY <1>3 DEF Calls, ThePool
<1>5. \A m : At(m) => m = n
    BY <1>1 DEF At
<1>6. \A x \in Name \X Nat \X Nat : x = <<x[1], x[2], x[3]>>
    OBVIOUS
<1>7. Head(todo) = <<Head(todo)[1], ThePool, TheServer>>
    BY <1>3, <1>6 DEF Calls, ThePool, TheServer
<1>8. At("server_each_preconnect") => TheServer \in 1..NSERVER[ThePool]
    BY <1>3, <1>5 DEF Calls, ThePool, TheServer
<1>9. At("proxy_each_init") => TheServer = 0
    BY <1>3, <1>5 DEF Calls, TheServer
<1> QED
    BY <1>3, <1>4, <1>5, <1>7, <1>8, <1>9

(* Allocating the context keeps the invariant.                             *)
LEMMA CtxAllocKeeps == IInv /\ core_ctx_alloc => IInv'
<1> SUFFICES ASSUME IInv, core_ctx_alloc PROVE IInv'
    OBVIOUS
<1> DEFINE n == "core_ctx_alloc"
           B == {Block("ctx")}
           i == 7
<1>1. Rank(n) \in 1..22 /\ Depth(n) \in 1..9 /\ Finish = Rest(Depth(n))
    BY Ranks, Depths, FromIs
<1>2. Allocates(n, B, Rest(Depth(n)))
    BY <1>1 DEF core_ctx_alloc
<1>3. At(n) => Depth(Head(Tail(todo))[1]) <= i
    BY <1>1, StartNext
<1>4. i \in 1..9 /\ B \subseteq FreedBy(i)
    BY FreedBlocks
<1>5. n \notin {"core_loop", "core_calc_connections", "server_pool_each_calc_connections"}
      /\ n # "conf_create" /\ n # "server_pool_array" /\ n # "stats_alloc"
    OBVIOUS
<1> HIDE DEF n, B, i
<1> QED
    BY <1>1, <1>2, <1>3, <1>4, <1>5, AllocatesKeeps

(* conf_create keeps it.                                                   *)
LEMMA ConfCreateKeeps == IInv /\ conf_create => IInv'
<1> SUFFICES ASSUME IInv, conf_create PROVE IInv'
    OBVIOUS
<1> DEFINE n == "conf_create"
           B == {Block("conf")}
           i == 6
<1>1. Rank(n) \in 1..22 /\ Depth(n) \in 1..9 /\ From("gf_free") \o Finish = Rest(Depth(n))
  <2>1. Rank(n) \in 1..22 /\ Depth(n) = 7
      BY Ranks, Depths
  <2>2. From("gf_free") \o Finish = Rest(7)
      BY FromIs
  <2>3. From("gf_free") \o Finish = Rest(Depth(n))
      BY ONLY <2>1, <2>2
  <2> QED BY <2>1, <2>3
<1>2. Allocates(n, B, Rest(Depth(n)))
    BY <1>1 DEF conf_create
<1>3. At(n) => Depth(Head(Tail(todo))[1]) <= i
    BY <1>1, StartNext
<1>4. i \in 1..9 /\ B \subseteq FreedBy(i)
    BY FreedBlocks
<1>5. n \notin {"core_loop", "core_calc_connections", "server_pool_each_calc_connections"}
      /\ Block("conf") \in B /\ n # "server_pool_array" /\ n # "stats_alloc"
    OBVIOUS
<1> HIDE DEF n, B, i
<1> QED
    BY <1>1, <1>2, <1>3, <1>4, <1>5, AllocatesKeeps

(* Allocating the array of the pools keeps it.                             *)
LEMMA PoolArrayKeeps == IInv /\ server_pool_array => IInv'
<1> SUFFICES ASSUME IInv, server_pool_array PROVE IInv'
    OBVIOUS
<1> DEFINE n == "server_pool_array"
           B == {Block("pools")}
           i == 5
<1>1. Rank(n) \in 1..22 /\ Depth(n) \in 1..9 /\ From("conf_destroy") \o Finish = Rest(Depth(n))
  <2>1. Rank(n) \in 1..22 /\ Depth(n) = 6
      BY Ranks, Depths
  <2>2. From("conf_destroy") \o Finish = Rest(6)
      BY FromIs
  <2>3. From("conf_destroy") \o Finish = Rest(Depth(n))
      BY ONLY <2>1, <2>2
  <2> QED BY <2>1, <2>3
<1>2. Allocates(n, B, Rest(Depth(n)))
    BY <1>1 DEF server_pool_array
<1>3. At(n) => Depth(Head(Tail(todo))[1]) <= i
    BY <1>1, StartNext
<1>4. i \in 1..9 /\ B \subseteq FreedBy(i)
    BY FreedBlocks
<1>5. n \notin {"core_loop", "core_calc_connections", "server_pool_each_calc_connections"}
      /\ n # "conf_create" /\ Block("pools") \in B /\ n # "stats_alloc"
    OBVIOUS
<1> HIDE DEF n, B, i
<1> QED
    BY <1>1, <1>2, <1>3, <1>4, <1>5, AllocatesKeeps

(* server_pool_each_run keeps it.                                          *)
LEMMA RunKeeps == IInv /\ server_pool_each_run => IInv'
<1> SUFFICES ASSUME IInv, server_pool_each_run PROVE IInv'
    OBVIOUS
<1> DEFINE n == "server_pool_each_run"
           B == {<<"continuum", ThePool>>}
           i == 5
<1>1. Rank(n) \in 1..22 /\ Depth(n) = 5 /\ From("server_pool_deinit") \o Finish = Rest(Depth(n))
  <2>1. Rank(n) \in 1..22 /\ Depth(n) = 5
      BY Ranks, Depths
  <2>2. From("server_pool_deinit") \o Finish = Rest(5)
      BY FromIs
  <2>3. From("server_pool_deinit") \o Finish = Rest(Depth(n))
      BY ONLY <2>1, <2>2
  <2> QED BY <2>1, <2>3
<1>2. Allocates(n, B, Rest(Depth(n)))
    BY <1>1 DEF server_pool_each_run
<1>3. At(n) => Depth(Head(Tail(todo))[1]) <= i
  <2>1. At(n) => Depth(Head(Tail(todo))[1]) <= Depth(n)
      BY <1>1, StartNext
  <2> QED BY <2>1, <1>1
<1>4. i \in 1..9 /\ B \subseteq FreedBy(i)
  <2>1. ThePool \in Pool
      BY <1>2, ThePoolIs DEF Allocates
  <2> QED BY <2>1, FreedBlocks
<1>5. n \notin {"core_loop", "core_calc_connections", "server_pool_each_calc_connections"}
      /\ n # "conf_create" /\ n # "server_pool_array" /\ n # "stats_alloc"
    OBVIOUS
<1>6. Depth(n) \in 1..9
    BY <1>1
<1> HIDE DEF n, B, i
<1> QED
    BY <1>1, <1>2, <1>3, <1>4, <1>5, <1>6, AllocatesKeeps

(* Allocating the statistics keeps it.                                     *)
LEMMA StatsAllocKeeps == IInv /\ stats_alloc => IInv'
<1> SUFFICES ASSUME IInv, stats_alloc PROVE IInv'
    OBVIOUS
<1> DEFINE n == "stats_alloc"
           B == {Block("stats")}
           i == 4
<1>1. Rank(n) \in 1..22 /\ Depth(n) \in 1..9 /\ From("server_pool_deinit") \o Finish = Rest(Depth(n))
  <2>1. Rank(n) \in 1..22 /\ Depth(n) = 5
      BY Ranks, Depths
  <2>2. From("server_pool_deinit") \o Finish = Rest(5)
      BY FromIs
  <2>3. From("server_pool_deinit") \o Finish = Rest(Depth(n))
      BY ONLY <2>1, <2>2
  <2> QED BY <2>1, <2>3
<1>2. Allocates(n, B, Rest(Depth(n)))
    BY <1>1 DEF stats_alloc
<1>3. At(n) => Depth(Head(Tail(todo))[1]) <= i
    BY <1>1, StartNext
<1>4. i \in 1..9 /\ B \subseteq FreedBy(i)
    BY FreedBlocks
<1>5. n \notin {"core_loop", "core_calc_connections", "server_pool_each_calc_connections"}
      /\ n # "conf_create" /\ n # "server_pool_array" /\ Block("stats") \in B
    OBVIOUS
<1> HIDE DEF n, B, i
<1> QED
    BY <1>1, <1>2, <1>3, <1>4, <1>5, AllocatesKeeps

(* stats_create_buf keeps it.                                              *)
LEMMA CreateBufKeeps == IInv /\ stats_create_buf => IInv'
<1> SUFFICES ASSUME IInv, stats_create_buf PROVE IInv'
    OBVIOUS
<1> DEFINE n == "stats_create_buf"
           B == {Block("buf")}
           i == 4
<1>1. Rank(n) \in 1..22 /\ Depth(n) = 4 /\ From("stats_destroy") \o Finish = Rest(Depth(n))
  <2>1. Rank(n) \in 1..22 /\ Depth(n) = 4
      BY Ranks, Depths
  <2>2. From("stats_destroy") \o Finish = Rest(4)
      BY FromIs
  <2>3. From("stats_destroy") \o Finish = Rest(Depth(n))
      BY ONLY <2>1, <2>2
  <2> QED BY <2>1, <2>3
<1>2. Allocates(n, B, Rest(Depth(n)))
    BY <1>1 DEF stats_create_buf
<1>3. At(n) => Depth(Head(Tail(todo))[1]) <= i
  <2>1. At(n) => Depth(Head(Tail(todo))[1]) <= Depth(n)
      BY <1>1, StartNext
  <2> QED BY <2>1, <1>1
<1>4. i \in 1..9 /\ B \subseteq FreedBy(i)
    BY FreedBlocks
<1>5. n \notin {"core_loop", "core_calc_connections", "server_pool_each_calc_connections"}
      /\ n # "conf_create" /\ n # "server_pool_array" /\ n # "stats_alloc"
    OBVIOUS
<1>6. Depth(n) \in 1..9
    BY <1>1
<1> HIDE DEF n, B, i
<1> QED
    BY <1>1, <1>2, <1>3, <1>4, <1>5, <1>6, AllocatesKeeps

(* conf_pool_each_transform keeps it: what it pushed is freed when         *)
(* server_init fails.                                                      *)
LEMMA TransformKeeps == IInv /\ conf_pool_each_transform => IInv'
<1> SUFFICES ASSUME IInv, conf_pool_each_transform PROVE IInv'
    OBVIOUS
<1> DEFINE n == "conf_pool_each_transform"
           j == Depth(Head(Tail(todo))[1])
           P == {<<"pool", ThePool>>}
           B == {<<"pool", ThePool>>, <<"servers", ThePool>>}
<1>1. /\ At(n) /\ UNCHANGED <<fds, env, nci, thread>> /\ cs' = cs
      /\ stopping' = stopping /\ interrupted' = interrupted
      /\ max_nsconn' = max_nsconn /\ max_ncconn' = max_ncconn /\ nci' = nci /\ fds' = fds
    BY DEF conf_pool_each_transform, env
<1>2. Rank(n) \in 1..22 /\ Depth(n) = 5
    BY Ranks, Depths
<1>3. HeldBy(heap, fds, cs, nci, 5)
  <2>1. HeldBy(heap, fds, cs, nci, Depth(n))
      BY <1>1, <1>2, AtStart
  <2> QED BY <2>1, <1>2
<1>4. B \subseteq FreedBy(5) /\ P \subseteq FreedBy(5)
  <2>1. ThePool \in Pool
      BY <1>1, ThePoolIs
  <2> QED BY <2>1, FreedBlocks
<1>5. \/ Succeeds /\ heap' = heap \cup B
      \/ Unwinds("server_pool_deinit") /\ heap' = heap \cup P
  <2>1. \/ Succeeds /\ heap' = (heap \cup P) \cup {<<"servers", ThePool>>}
        \/ Unwinds("server_pool_deinit") /\ heap' = heap \cup P
      BY DEF conf_pool_each_transform
  <2>2. (heap \cup P) \cup {<<"servers", ThePool>>} = heap \cup B
      OBVIOUS
  <2> HIDE DEF P, B
  <2> QED BY <2>1, <2>2
<1> HIDE DEF P, B
<1>6. Others
  <2>1. nfault' \in 0..MaxFault
      BY <1>5, Faults DEF Succeeds, Unwinds, FailsTo
  <2> QED BY <1>1, <2>1, SameOthers
<1>7. CASE Succeeds /\ heap' = heap \cup B
  <2>1. j \in 0..9 /\ HeldBy(heap, fds, cs, nci, j) /\ j <= Depth(n)
      BY <1>1, <1>2, StartNext
  <2>a. j <= 5
      BY <2>1, <1>2
  <2> HIDE DEF j
  <2>2. 5 \in j..9
      BY ONLY <2>1, <2>a
  <2>3. HeldBy(heap', fds', cs, nci', j)
      BY <1>1, <1>4, <1>7, <2>1, <2>2, HeldMore
  <2>4. todo' = Tail(todo) /\ heap \subseteq heap'
      BY <1>7 DEF Succeeds
  <2> QED BY <1>1, <1>2, <1>6, <2>3, <2>4, PlainGoes DEF j
<1>8. CASE Unwinds("server_pool_deinit") /\ heap' = heap \cup P
  <2>r. todo' = Rest(5)
      BY <1>8, FromIs DEF Unwinds, FailsTo
  <2>1. todo' = Rest(Depth(n)) /\ Depth(n) \in 1..9 /\ heap \subseteq heap'
      BY <1>8, <1>2, <2>r
  <2>2. 5 \in 0..9 /\ 5 \in 5..9
      OBVIOUS
  <2>3. HeldBy(heap', fds', cs, nci', 5)
      BY <1>1, <1>3, <1>4, <1>8, <2>2, HeldMore
  <2>4. HeldBy(heap', fds', cs, nci', Depth(n))
      BY <1>2, <2>3
  <2> QED BY <1>1, <1>2, <1>6, <2>1, <2>4, PlainFails
<1> QED
    BY <1>5, <1>7, <1>8

(* stats_pool_map keeps it: what was mapped when it fails is freed.        *)
LEMMA MapKeeps == IInv /\ stats_pool_map => IInv'
<1> SUFFICES ASSUME IInv, stats_pool_map PROVE IInv'
    OBVIOUS
<1> DEFINE All(m) == {<<m, p>> : p \in Pool}
<1>0. PICK n \in Map : /\ At(n)
                       /\ \/ Succeeds /\ heap' = heap \cup All(n)
                          \/ /\ Unwinds("stats_destroy")
                             /\ \E p \in Pool \cup {0} : heap' = heap \cup {<<n, q>> : q \in 1..p}
    BY DEF stats_pool_map
<1>1. /\ UNCHANGED <<fds, env, nci, thread>> /\ cs' = cs
      /\ stopping' = stopping /\ interrupted' = interrupted
      /\ max_nsconn' = max_nsconn /\ max_ncconn' = max_ncconn /\ nci' = nci /\ fds' = fds
    BY DEF stats_pool_map, env
<1>2. Rank(n) \in 1..22 /\ Depth(n) = 4
    BY Ranks, Depths DEF Map
<1>m. n \notin {"core_loop", "core_calc_connections", "server_pool_each_calc_connections",
                "conf_create", "server_pool_array", "stats_alloc"}
    BY DEF Map
<1>3. HeldBy(heap, fds, cs, nci, 4)
  <2>1. HeldBy(heap, fds, cs, nci, Depth(n))
      BY <1>0, <1>2, AtStart
  <2> QED BY <2>1, <1>2
<1>4. All(n) \subseteq FreedBy(4)
    BY FreedBlocks
<1>5. \A p \in Pool \cup {0} : {<<n, q>> : q \in 1..p} \subseteq FreedBy(4)
  <2>1. \A p \in Pool \cup {0} : \A q \in 1..p : q \in Pool
      BY PoolsAre
  <2> QED BY <2>1, FreedBlocks
<1> HIDE DEF All
<1>6. Others
  <2>1. nfault' \in 0..MaxFault
      BY <1>0, Faults DEF Succeeds, Unwinds, FailsTo
  <2> QED BY <1>1, <2>1, SameOthers
<1> DEFINE j == Depth(Head(Tail(todo))[1])
<1>7. CASE Succeeds /\ heap' = heap \cup All(n)
  <2>1. j \in 0..9 /\ HeldBy(heap, fds, cs, nci, j) /\ j <= Depth(n)
      BY <1>0, <1>2, <1>m, StartNext
  <2>a. j <= 4
      BY <2>1, <1>2
  <2> HIDE DEF j
  <2>2. 4 \in j..9
      BY ONLY <2>1, <2>a
  <2>3. HeldBy(heap', fds', cs, nci', j)
      BY <1>1, <1>4, <1>7, <2>1, <2>2, HeldMore
  <2>4. todo' = Tail(todo) /\ heap \subseteq heap'
      BY <1>7 DEF Succeeds
  <2> QED BY <1>0, <1>1, <1>2, <1>m, <1>6, <2>3, <2>4, PlainGoes DEF j
<1>8. ASSUME NEW p \in Pool \cup {0}, Unwinds("stats_destroy"),
             heap' = heap \cup {<<n, q>> : q \in 1..p}
      PROVE  IInv'
  <2>r. todo' = Rest(4)
      BY <1>8, FromIs DEF Unwinds, FailsTo
  <2>1. todo' = Rest(Depth(n)) /\ Depth(n) \in 1..9 /\ heap \subseteq heap'
      BY <1>8, <1>2, <2>r
  <2>2. 4 \in 0..9 /\ 4 \in 4..9
      OBVIOUS
  <2> DEFINE B == {<<n, q>> : q \in 1..p}
  <2>b. B \subseteq FreedBy(4) /\ heap' = heap \cup B
      BY <1>5, <1>8
  <2> HIDE DEF B
  <2>3. HeldBy(heap', fds', cs, nci', 4)
      BY <1>1, <1>3, <2>b, <2>2, HeldMore
  <2>4. HeldBy(heap', fds', cs, nci', Depth(n))
      BY <1>2, <2>3
  <2> QED BY <1>0, <1>1, <1>2, <1>6, <2>1, <2>4, PlainFails
<1> QED
    BY <1>0, <1>7, <1>8

(* The function a sum of what the pools may open is computed by.           *)
IsSumOfPools(h) ==
    h = [s \in SUBSET Pool |->
            IF s = {} THEN 0
            ELSE MaxOfPool(CHOOSE x \in s : TRUE) + h[s \ {CHOOSE x \in s : TRUE}]]

(* What the pools may open is added up pool by pool.                       *)
LEMMA SumOfPools ==
    \E h : /\ IsSumOfPools(h) /\ MapThenSumSet(MaxOfPool, Pool) = h[Pool]
           /\ \A s \in SUBSET Pool : h[s] \in Nat
<1> DEFINE w == [p \in Pool |-> MaxOfPool(p)]
           h == CHOOSE h : IsSumOfPools(h)
<1>1. PICK g : IsSum(g, Pool, w)
    BY PoolsAre, SumExists
<1>2. IsSumOfPools(g)
  <2>1. \A s \in SUBSET Pool : s # {} => w[CHOOSE x \in s : TRUE] = MaxOfPool(CHOOSE x \in s : TRUE)
      OBVIOUS
  <2> HIDE DEF w
  <2> DEFINE a(s) == IF s = {} THEN 0 ELSE w[CHOOSE x \in s : TRUE] + g[s \ {CHOOSE x \in s : TRUE}]
             b(s) == IF s = {} THEN 0
                     ELSE MaxOfPool(CHOOSE x \in s : TRUE) + g[s \ {CHOOSE x \in s : TRUE}]
  <2>2. \A s \in SUBSET Pool : a(s) = b(s)
      BY <2>1
  <2>3. g = [s \in SUBSET Pool |-> a(s)]
      BY <1>1 DEF IsSum
  <2> HIDE DEF a, b
  <2>4. g = [s \in SUBSET Pool |-> b(s)]
      BY <2>2, <2>3
  <2> QED BY <2>4 DEF b, IsSumOfPools
<1>3. IsSumOfPools(h)
    BY <1>2
<1>4. MapThenSumSet(MaxOfPool, Pool) = h[Pool]
    BY DEF MapThenSumSet, MapThenFoldSet, IsSumOfPools
<1> HIDE DEF h
<1>5. \A p \in Pool : MaxOfPool(p) \in Nat
  <2>1. \A p \in Pool : SERVER_CONNECTIONS[p] \in Nat /\ NSERVER[p] \in Nat
      BY LifecycleAssumption, PoolsAre
  <2>2. \A a, b \in Nat : a * b + 1 \in Nat
      OBVIOUS
  <2> QED BY <2>1, <2>2 DEF MaxOfPool
<1> DEFINE G == {s \in SUBSET Pool : h[s] \in Nat}
<1>6. {} \in G
    BY <1>3 DEF IsSumOfPools
<1>7. ASSUME NEW s \in SUBSET Pool, s # {}, s \ {CHOOSE x \in s : TRUE} \in G PROVE s \in G
  <2>1. h[s] = MaxOfPool(CHOOSE x \in s : TRUE) + h[s \ {CHOOSE x \in s : TRUE}]
      BY <1>3, <1>7 DEF IsSumOfPools
  <2>2. MaxOfPool(CHOOSE x \in s : TRUE) \in Nat
      BY <1>5, <1>7
  <2>3. h[s \ {CHOOSE x \in s : TRUE}] \in Nat
      BY <1>7
  <2> QED BY <2>1, <2>2, <2>3
<1>8. \A s \in SUBSET Pool : s \in G
  <2> HIDE DEF G
  <2>1. \A s \in SUBSET Pool : s # {} /\ s \ {CHOOSE x \in s : TRUE} \in G => s \in G
      BY <1>7
  <2> QED BY ONLY <1>6, <2>1, PoolsAre, PeelInduction
<1> QED
    BY <1>3, <1>4, <1>8

(* uint32_t counts.                                                        *)
LEMMA Counts ==
    /\ WORD \in Nat \ {0}
    /\ \A i \in Int : i % WORD \in 0..(WORD - 1)
<1>1. WORD \in Nat \ {0}
    BY LifecycleAssumption
<1> QED
    BY <1>1

(* server_pool_each_calc_connections keeps the invariant.                  *)
LEMMA CalcKeeps == IInv /\ server_pool_each_calc_connections => IInv'
<1> SUFFICES ASSUME IInv, server_pool_each_calc_connections PROVE IInv'
    OBVIOUS
<1> DEFINE n == "server_pool_each_calc_connections"
           sum == MapThenSumSet(MaxOfPool, Pool)
<1>1. /\ At(n) /\ cs' = cs /\ fds' = fds /\ thread' = thread /\ nci' = nci /\ nfd' = nfd
      /\ stopping' = stopping /\ interrupted' = interrupted /\ heap' = heap
      /\ max_nsconn' = sum % WORD /\ max_ncconn' = max_ncconn
      /\ todo' = Tail(todo) /\ nfault' = nfault
    BY DEF server_pool_each_calc_connections, Succeeds
<1>2. Rank(n) \in 1..22
    BY Ranks
<1>3. NoneFreed(cs) /\ Head(todo)[1] = n /\ TypeOK /\ Head(todo) \in Calls
    BY <1>1, <1>2, AtStart
<1>4. sum % WORD \in 0..(WORD - 1)
  <2>1. sum \in Nat
      BY SumOfPools
  <2> HIDE DEF sum
  <2>2. sum \in Int
      BY <2>1
  <2> QED BY <2>2, Counts
<1>5. Others
    BY <1>1, <1>3, <1>4 DEF Others, TypeOK, AllFds
<1>6. Structures
    BY <1>1, SameStructures
<1>7. /\ HeldBy(heap, fds, cs, nci, Depth(Head(Tail(todo))[1])) /\ Unopened(Tail(todo), cs)
    BY <1>1, <1>2, StartNext
<1>8. Does(todo, heap, nfd, max_nsconn, max_ncconn, heap', max_nsconn', max_ncconn')
  <2>1. Head(todo) = Call(n)
      BY <1>3 DEF Calls
  <2>2. /\ Call(n) # Call("conf_create") /\ Call(n) # Call("server_pool_array")
        /\ Call(n) # Call("stats_alloc") /\ Call(n) # Call("core_calc_connections")
      BY DEF Call
  <2> HIDE DEF sum
  <2> QED BY <1>1, <2>1, <2>2 DEF Does, sum
<1>9. NoneFreed(cs') /\ Unopened(Tail(todo), cs')
    BY <1>1, <1>3, <1>7
<1>10. HeldBy(heap', fds', cs', nci', Depth(Head(Tail(todo))[1]))
    BY <1>1, <1>7
<1>11. n # "core_loop"
    OBVIOUS
<1> HIDE DEF n, sum
<1> QED
    BY <1>1, <1>2, <1>5, <1>6, <1>8, <1>9, <1>10, <1>11, SucceedsKeeps

(* core_calc_connections keeps it.                                         *)
LEMMA CalcConnectionsKeeps == IInv /\ core_calc_connections => IInv'
<1> SUFFICES ASSUME IInv, core_calc_connections PROVE IInv'
    OBVIOUS
<1> DEFINE n == "core_calc_connections"
           room == (nfd - max_nsconn - RESERVED_FDS) % WORD
<1>1. /\ At(n) /\ cs' = cs /\ fds' = fds /\ thread' = thread /\ nci' = nci /\ nfd' = nfd
      /\ stopping' = stopping /\ interrupted' = interrupted /\ heap' = heap
      /\ max_nsconn' = max_nsconn
      /\ \/ Succeeds /\ max_ncconn' = room
         \/ Unwinds("server_pool_deinit") /\ UNCHANGED max_ncconn
    BY DEF core_calc_connections
<1>2. Rank(n) \in 1..22 /\ Depth(n) = 5 /\ Depth(n) \in 1..9
    BY Ranks, Depths
<1>3. NoneFreed(cs) /\ Head(todo)[1] = n /\ TypeOK /\ Head(todo) \in Calls
      /\ HeldBy(heap, fds, cs, nci, Depth(n)) /\ Structs(cs) /\ Limits(cs) /\ Clean(cs)
    BY <1>1, <1>2, AtStart
<1>4. room \in 0..(WORD - 1) /\ nfault' \in 0..MaxFault
  <2>1. nfd \in Nat /\ max_nsconn \in Int /\ RESERVED_FDS \in Nat
    <3>1. nfd \in NFD /\ NFD \subseteq Nat /\ max_nsconn \in 0..(WORD - 1) /\ RESERVED_FDS \in Nat
        BY <1>3, LifecycleAssumption DEF TypeOK
    <3> QED BY <3>1
  <2>2. nfd - max_nsconn - RESERVED_FDS \in Int
      BY <2>1
  <2>3. room \in 0..(WORD - 1)
    <3> DEFINE i == nfd - max_nsconn - RESERVED_FDS
    <3>1. i \in Int
        BY <2>2
    <3> HIDE DEF i
    <3>2. i % WORD \in 0..(WORD - 1)
        BY <3>1, Counts
    <3> QED BY <3>2 DEF i
  <2>4. nfault' \in 0..MaxFault
      BY <1>1, Faults DEF Succeeds, Unwinds, FailsTo
  <2> QED BY <2>3, <2>4
<1>5. Others
  <2>1. max_ncconn' \in 0..(WORD - 1)
      BY <1>1, <1>3, <1>4 DEF TypeOK
  <2> HIDE DEF room
  <2> QED BY <1>1, <1>3, <1>4, <2>1 DEF Others, TypeOK, AllFds
<1>6. Structures
  <2>1. Clients(cs) = {}
      BY <1>2, <1>3 DEF HeldBy, OwnersHeld, Clients
  <2>2. Cardinality(Clients(cs)) = 0
      BY <2>1, FS_EmptySet
  <2>3. max_ncconn' \in Nat
      BY <1>5, Counts DEF Others
  <2>4. Cardinality(Clients(cs)) <= max_ncconn'
      BY <2>2, <2>3
  <2> QED BY <1>1, <1>3, <2>4 DEF Structures
<1>7. CASE Succeeds /\ max_ncconn' = room
  <2>1. /\ HeldBy(heap, fds, cs, nci, Depth(Head(Tail(todo))[1])) /\ Unopened(Tail(todo), cs)
      BY <1>1, <1>2, StartNext
  <2>2. Does(todo, heap, nfd, max_nsconn, max_ncconn, heap', max_nsconn', max_ncconn')
    <3>1. Head(todo) = Call(n)
        BY <1>3 DEF Calls
    <3>2. /\ Call(n) # Call("conf_create") /\ Call(n) # Call("server_pool_array")
          /\ Call(n) # Call("stats_alloc") /\ Call(n) # Call("server_pool_each_calc_connections")
        BY DEF Call
    <3> QED BY <1>1, <1>7, <3>1, <3>2 DEF Does
  <2>3. NoneFreed(cs') /\ Unopened(Tail(todo), cs')
      BY <1>1, <1>3, <2>1
  <2>4. HeldBy(heap', fds', cs', nci', Depth(Head(Tail(todo))[1]))
      BY <1>1, <2>1
  <2>5. n # "core_loop" /\ todo' = Tail(todo)
      BY <1>7 DEF Succeeds
  <2> HIDE DEF n, room
  <2> QED BY <1>1, <1>2, <1>5, <1>6, <2>2, <2>3, <2>4, <2>5, SucceedsKeeps
<1>8. CASE Unwinds("server_pool_deinit")
  <2>1. todo' = Rest(5)
      BY <1>8, FromIs DEF Unwinds, FailsTo
  <2>2. todo' = Rest(Depth(n)) /\ heap \subseteq heap' /\ HeldBy(heap', fds', cs', nci', Depth(n))
      BY <1>1, <1>2, <1>3, <2>1
  <2> HIDE DEF n, room
  <2> QED BY <1>1, <1>2, <1>5, <1>6, <2>2, FailsKeeps
<1> QED
    BY <1>1, <1>7, <1>8

(* stats_listen keeps it: a socket that was not bound is closed in the     *)
(* unwinding.                                                              *)
LEMMA ListenKeeps == IInv /\ stats_listen => IInv'
<1> SUFFICES ASSUME IInv, stats_listen PROVE IInv'
    OBVIOUS
<1> DEFINE n == "stats_listen"
           j == Depth(Head(Tail(todo))[1])
<1>1. /\ At(n) /\ cs' = cs
      /\ stopping' = stopping /\ interrupted' = interrupted
      /\ max_nsconn' = max_nsconn /\ max_ncconn' = max_ncconn /\ nfd' = nfd
      /\ nci' = nci /\ heap' = heap /\ thread' = thread
      /\ fds' = fds \/ fds' = fds \cup {"stats"}
      /\ \/ Succeeds
         \/ Unwinds("stats_destroy")
    BY DEF stats_listen, env
<1>2. Rank(n) \in 1..22 /\ Depth(n) = 4
    BY Ranks, Depths
<1>3. HeldBy(heap, fds, cs, nci, Depth(n)) /\ TypeOK
    BY <1>1, <1>2, AtStart
<1>4. Others
  <2>1. nfault' \in 0..MaxFault
      BY <1>1, Faults DEF Succeeds, Unwinds, FailsTo
  <2>2. fds' \subseteq AllFds
      BY <1>1, <1>3 DEF TypeOK, AllFds
  <2> QED BY <1>1, <1>3, <2>1, <2>2 DEF Others, TypeOK
<1>5. \A i \in 0..9 : i <= 4 /\ HeldBy(heap, fds, cs, nci, i) => HeldBy(heap', fds', cs, nci', i)
  <2> SUFFICES ASSUME NEW i \in 0..9, i <= 4, HeldBy(heap, fds, cs, nci, i)
               PROVE  HeldBy(heap', fds', cs, nci', i)
      OBVIOUS
  <2>1. FdsHeld(fds', i)
      BY <1>1, FdsMore, HeldParts
  <2> QED BY <1>1, <2>1, HeldParts
<1>6. CASE Succeeds
  <2>1. j \in 0..9 /\ HeldBy(heap, fds, cs, nci, j) /\ j <= Depth(n)
      BY <1>1, <1>2, StartNext
  <2>2. HeldBy(heap', fds', cs, nci', j)
      BY <1>2, <1>5, <2>1
  <2>3. todo' = Tail(todo)
      BY <1>6 DEF Succeeds
  <2> QED BY <1>1, <1>2, <1>4, <2>2, <2>3, PlainGoes
<1>7. CASE Unwinds("stats_destroy")
  <2>1. todo' = Rest(4)
      BY <1>7, FromIs DEF Unwinds, FailsTo
  <2>2. todo' = Rest(Depth(n)) /\ Depth(n) \in 1..9
      BY <2>1, <1>2
  <2>3. HeldBy(heap', fds', cs, nci', Depth(n))
      BY <1>2, <1>3, <1>5
  <2> QED BY <1>1, <1>2, <1>4, <2>2, <2>3, PlainFails
<1> QED
    BY <1>1, <1>6, <1>7

(* pthread_create keeps it.                                                *)
LEMMA ThreadKeeps == IInv /\ pthread_create => IInv'
<1> SUFFICES ASSUME IInv, pthread_create PROVE IInv'
    OBVIOUS
<1> DEFINE n == "pthread_create"
           j == Depth(Head(Tail(todo))[1])
<1>1. /\ At(n) /\ cs' = cs
      /\ stopping' = stopping /\ interrupted' = interrupted
      /\ max_nsconn' = max_nsconn /\ max_ncconn' = max_ncconn /\ nfd' = nfd
      /\ nci' = nci /\ heap' = heap /\ fds' = fds /\ todo' = Tail(todo)
      /\ thread' = thread \/ thread' = "new"
      /\ nfault' = nfault \/ Faulty
    BY DEF pthread_create, env, Succeeds, FailsTo
<1>2. Rank(n) \in 1..22
    BY Ranks
<1>3. TypeOK
    BY <1>1, <1>2, AtStart
<1>4. Others
  <2>1. nfault' \in 0..MaxFault
      BY <1>1, Faults
  <2> QED BY <1>1, <1>3, <2>1 DEF Others, TypeOK, AllFds
<1>5. HeldBy(heap, fds, cs, nci, j)
    BY <1>1, <1>2, StartNext
<1>6. HeldBy(heap', fds', cs, nci', j)
    BY <1>1, <1>5
<1> QED
    BY <1>1, <1>2, <1>4, <1>6, PlainGoes

(* event_base_create keeps it.                                             *)
LEMMA BaseCreateKeeps == IInv /\ event_base_create => IInv'
<1> SUFFICES ASSUME IInv, event_base_create PROVE IInv'
    OBVIOUS
<1> DEFINE n == "event_base_create"
           j == Depth(Head(Tail(todo))[1])
           B == {Block("evb")}
<1>1. /\ At(n) /\ cs' = cs
      /\ stopping' = stopping /\ interrupted' = interrupted
      /\ max_nsconn' = max_nsconn /\ max_ncconn' = max_ncconn /\ nfd' = nfd
      /\ nci' = nci /\ thread' = thread
      /\ \/ Succeeds /\ fds' = fds \cup {"epoll"} /\ heap' = heap \cup B
         \/ Unwinds("stats_destroy") /\ UNCHANGED <<fds, heap>>
    BY DEF event_base_create, env
<1>2. Rank(n) \in 1..22 /\ Depth(n) = 4
    BY Ranks, Depths
<1>3. HeldBy(heap, fds, cs, nci, Depth(n)) /\ TypeOK
    BY <1>1, <1>2, AtStart
<1>4. Others
  <2>1. nfault' \in 0..MaxFault
      BY <1>1, Faults DEF Succeeds, Unwinds, FailsTo
  <2>2. fds' \subseteq AllFds
      BY <1>1, <1>3 DEF TypeOK, AllFds
  <2> QED BY <1>1, <1>3, <2>1, <2>2 DEF Others, TypeOK
<1>b. B \subseteq FreedBy(3)
    BY FreedBlocks
<1> HIDE DEF B
<1>6. CASE Succeeds /\ fds' = fds \cup {"epoll"} /\ heap' = heap \cup B
  <2>1. j \in 0..9 /\ HeldBy(heap, fds, cs, nci, j) /\ j <= 2
      BY <1>1, <1>2, StartNext
  <2> HIDE DEF j
  <2>2. j <= 3 /\ 3 \in j..9
      BY ONLY <2>1
  <2>3. HeldBy(heap \cup B, fds, cs, nci, j)
      BY <1>b, <2>1, <2>2, HeldMore
  <2>4. FdsHeld(fds', j)
      BY <1>6, <2>1, <2>2, FdsMore, HeldParts
  <2>5. HeldBy(heap \cup B, fds', cs, nci, j)
      BY <2>3, <2>4, HeldParts
  <2>6. HeldBy(heap', fds', cs, nci', j)
      BY <1>1, <1>6, <2>5
  <2>7. todo' = Tail(todo) /\ heap \subseteq heap'
      BY <1>6 DEF Succeeds
  <2> QED BY <1>1, <1>2, <1>4, <2>6, <2>7, PlainGoes DEF j
<1>7. CASE Unwinds("stats_destroy") /\ UNCHANGED <<fds, heap>>
  <2>1. todo' = Rest(4)
      BY <1>7, FromIs DEF Unwinds, FailsTo
  <2>2. todo' = Rest(Depth(n)) /\ Depth(n) \in 1..9
      BY <2>1, <1>2
  <2>3. HeldBy(heap', fds', cs, nci', Depth(n)) /\ heap \subseteq heap'
      BY <1>1, <1>3, <1>7
  <2> QED BY <1>1, <1>2, <1>4, <2>2, <2>3, PlainFails
<1> QED
    BY <1>1, <1>6, <1>7

(* A connection to a server: it is taken, or put back at once.             *)
PutBack(g, h) ==
    /\ Structs(g) /\ Shrinks(g, h) /\ g.broken \subseteq h.broken \cup {"conn_put: sd < 0"}
    /\ \A j \in Int : j <= 8 /\ StructsHeld(h, j) => StructsHeld(g, j) /\ g.touched = h.touched

(* A server may be the owner of a connection.                              *)
LEMMA ServersAre ==
    ASSUME NEW p \in Pool, NEW s \in 1..NSERVER[p]
    PROVE  <<"server", p, s>> \in Owner /\ <<"server", p, s>> # Nobody /\ <<"server", p, s>>[1] = "server"
<1>1. <<"server", p, s>> # Nobody
    BY DEF Nobody
<1> QED
    BY <1>1, OwnersAre

(* What server_conn and server_connect make of the structures.             *)
LEMMA ConnectIs ==
    ASSUME NEW p \in Pool, NEW s \in 1..NSERVER[p], Structs(cs), Connect(p, s)
    PROVE  /\ nfault' = nfault \/ Faulty
           /\ (\E c : Takes(cs', cs, c, <<"server", p, s>>)) \/ PutBack(cs', cs)
<1> DEFINE o == <<"server", p, s>>
<1>0. o \in Owner /\ o # Nobody
    BY ServersAre
<1>1. PICK c \in Available(cs) :
        \/ /\ Room /\ UNCHANGED nfault
           /\ cs' = conn_get(cs, c, o, TRUE)
        \/ /\ Faulty
           /\ \E open \in {FALSE, Room} : cs' = server_close(conn_get(cs, c, o, open), {c})
    BY DEF Connect
<1> HIDE DEF o
<1>2. CASE cs' = conn_get(cs, c, o, TRUE) /\ UNCHANGED nfault
  <2>1. Takes(cs', cs, c, o)
      BY <1>0, <1>2, GetTakes
  <2> QED BY <1>2, <2>1 DEF o
<1>3. ASSUME NEW open \in {FALSE, Room}, cs' = server_close(conn_get(cs, c, o, open), {c}), Faulty
      PROVE  PutBack(cs', cs)
  <2>1. open \in BOOLEAN
    <3>1. Room \in BOOLEAN
        BY DEF Room
    <3> HIDE DEF Room
    <3> QED BY <1>3, <3>1
  <2> DEFINE k == conn_get(cs, c, o, open)
  <2>2. Takes(k, cs, c, o)
      BY <1>0, <2>1, GetTakes
  <2> HIDE DEF k
  <2>3. {c} \in SUBSET Conn /\ Structs(k) /\ \A d \in {c} : k.conn[d].st = "used"
      BY <2>2 DEF Takes
  <2>4. Puts(server_close(k, {c}), k, {c})
      BY <2>3, ServerCloseIs
  <2>5. Puts(cs', k, {c})
      BY <1>3, <2>4 DEF k
  <2>6. /\ Structs(cs') /\ Shrinks(cs', cs)
        /\ \A j \in Int : j <= 8 /\ StructsHeld(cs, j) => StructsHeld(cs', j) /\ cs'.touched = cs.touched
        /\ cs'.broken \subseteq cs.broken \cup {"conn_put: sd < 0"}
      BY <1>0, <2>2, <2>5, TakenAndPut
  <2> QED BY <2>6 DEF PutBack
<1> QED
    BY <1>1, <1>2, <1>3 DEF o

(* What is left of a connection that was put back.                         *)
LEMMA PutBackKeeps ==
    ASSUME IInv, ~stopping, max_ncconn' = max_ncconn, PutBack(cs', cs),
           NEW j \in Int, j <= 8, StructsHeld(cs, j)
    PROVE  /\ Structures /\ StructsHeld(cs', j) /\ NoneFreed(cs')
           /\ OwnersHeld(cs, j) => OwnersHeld(cs', j)
<1>1. /\ Structs(cs) /\ Limits(cs) /\ Cardinality(Clients(cs)) <= max_ncconn /\ Clean(cs)
      /\ max_ncconn \in Int
  <2>1. TypeOK
      BY DEF IInv
  <2>2. max_ncconn \in 0..(WORD - 1)
      BY <2>1 DEF TypeOK
  <2> QED BY <2>2 DEF IInv
<1>2. /\ Limits(cs') /\ Cardinality(Clients(cs')) <= Cardinality(Clients(cs))
      /\ Cardinality(Clients(cs)) \in Nat /\ Cardinality(Clients(cs')) \in Nat
      /\ \A k : OwnersHeld(cs, k) => OwnersHeld(cs', k)
    BY <1>1, ShrinksKeeps DEF PutBack
<1>3. StructsHeld(cs', j) /\ cs'.touched = cs.touched
    BY DEF PutBack
<1>4. Clean(cs')
    BY <1>1, <1>3 DEF Clean, PutBack, Known
<1>5. NoneFreed(cs')
    BY <1>3 DEF StructsHeld, NoneFreed
<1>6. Cardinality(Clients(cs')) <= max_ncconn
    BY <1>1, <1>2
<1>7. Structures
    BY <1>2, <1>4, <1>6 DEF PutBack, Structures
<1> QED
    BY <1>2, <1>3, <1>5, <1>7

(* What there is when a connection was taken.                              *)
LEMMA TakenKeeps ==
    ASSUME IInv, ~stopping, max_ncconn' = max_ncconn, NEW c, NEW o \in Owner, o # Nobody,
           Takes(cs', cs, c, o),
           \A p \in Pool : o = <<"proxy", p, 0>> => OwnedBy(cs, o) = {},
           \A p \in Pool : \A s \in 1..NSERVER[p] :
               o = <<"server", p, s>> => Cardinality(OwnedBy(cs, o)) < SERVER_CONNECTIONS[p],
           o[1] = "client" => Cardinality(Clients(cs)) < max_ncconn,
           NEW j \in Int, j <= 8, StructsHeld(cs, j)
    PROVE  /\ Structures /\ StructsHeld(cs', j) /\ NoneFreed(cs')
           /\ OwnersHeld(cs, j)
                /\ (o[1] = "client" => j <= 0) /\ (o[1] = "proxy" => j <= 1)
                /\ (o[1] = "server" => j <= 2) => OwnersHeld(cs', j)
<1>1. /\ Structs(cs) /\ Limits(cs) /\ Cardinality(Clients(cs)) <= max_ncconn /\ Clean(cs)
      /\ max_ncconn \in Int
  <2>1. TypeOK
      BY DEF IInv
  <2>2. max_ncconn \in 0..(WORD - 1)
      BY <2>1 DEF TypeOK
  <2> QED BY <2>2 DEF IInv
<1>2. Limits(cs')
    BY <1>1, TakesLimits
<1>3. /\ o[1] # "client" => Clients(cs') = Clients(cs)
      /\ Cardinality(Clients(cs')) <= Cardinality(Clients(cs)) + 1
      /\ Cardinality(Clients(cs')) \in Nat /\ Cardinality(Clients(cs)) \in Nat
      /\ StructsHeld(cs', j)
    BY TakesKeeps
<1>4. Cardinality(Clients(cs')) <= max_ncconn
  <2>1. CASE o[1] = "client"
      BY <2>1, <1>1, <1>3
  <2>2. CASE o[1] # "client"
      BY <2>2, <1>1, <1>3
  <2> QED BY <2>1, <2>2
<1>5. Clean(cs')
    BY <1>1 DEF Clean, Takes
<1>6. NoneFreed(cs')
    BY <1>3 DEF StructsHeld, NoneFreed
<1>7. Structures
    BY <1>2, <1>4, <1>5 DEF Takes, Structures
<1>8. OwnersHeld(cs, j)
                /\ (o[1] = "client" => j <= 0) /\ (o[1] = "proxy" => j <= 1)
                /\ (o[1] = "server" => j <= 2) => OwnersHeld(cs', j)
    BY DEF OwnersHeld, Takes
<1> QED
    BY <1>3, <1>6, <1>7, <1>8

(* HeldBy of other structures.                                             *)
LEMMA HeldOf ==
    ASSUME NEW hp, NEW f, NEW h, NEW n, NEW j, HeldBy(hp, f, h, n, j), NEW g,
           OwnersHeld(g, j), StructsHeld(g, j)
    PROVE  HeldBy(hp, f, g, n, j)
BY DEF HeldBy

(* server_each_preconnect keeps the invariant.                             *)
LEMMA PreconnectKeeps == IInv /\ server_each_preconnect => IInv'
<1> SUFFICES ASSUME IInv, server_each_preconnect PROVE IInv'
    OBVIOUS
<1> DEFINE n == "server_each_preconnect"
           j == Depth(Head(Tail(todo))[1])
           p == ThePool
           s == TheServer
           o == <<"server", p, s>>
<1>1. /\ At(n) /\ fds' = fds /\ UNCHANGED <<fds, env, nci, thread>>
      /\ stopping' = stopping /\ interrupted' = interrupted
      /\ max_nsconn' = max_nsconn /\ max_ncconn' = max_ncconn /\ nfd' = nfd
      /\ nci' = nci /\ thread' = thread /\ heap' = heap
      /\ \/ Connect(p, s) /\ todo' = Tail(todo)
         \/ Unwinds("server_pool_disconnect") /\ UNCHANGED cs
    BY DEF server_each_preconnect, env
<1>2. Rank(n) \in 1..22 /\ Depth(n) = 2 /\ n # "core_loop"
    BY Ranks, Depths
<1>3. /\ HeldBy(heap, fds, cs, nci, Depth(n)) /\ TypeOK /\ Structs(cs) /\ ~stopping
      /\ InOrder(todo) /\ todo # <<>> /\ Head(todo)[1] = n
      /\ Pending(todo, heap, cs, nfd, max_nsconn, max_ncconn)
    BY <1>1, <1>2, AtStart
<1>4. p \in Pool /\ s \in 1..NSERVER[p] /\ Head(todo) = <<n, p, s>>
    BY <1>1, ThePoolIs
<1>5. o \in Owner /\ o # Nobody /\ o[1] = "server"
    BY <1>4, ServersAre
<1>6. Head(todo) \in ToSet(todo) /\ Head(todo) \notin ToSet(Tail(todo)) /\ ToSet(Tail(todo)) \subseteq ToSet(todo)
  <2>1. ToSet(todo) = {Head(todo)} \cup ToSet(Tail(todo)) /\ Head(todo) \notin ToSet(Tail(todo))
      BY <1>3, After
  <2> QED BY <2>1
<1>7. OwnedBy(cs, o) = {} /\ Cardinality(OwnedBy(cs, o)) < SERVER_CONNECTIONS[p]
  <2>1. OwnedBy(cs, o) = {}
      BY <1>3, <1>4, <1>6 DEF Pending
  <2>2. SERVER_CONNECTIONS[p] \in Nat \ {0}
      BY <1>4, LifecycleAssumption
  <2>3. Cardinality(OwnedBy(cs, o)) = 0
      BY <2>1, FS_EmptySet
  <2> QED BY <2>1, <2>2, <2>3
<1> HIDE DEF p, s
<1>8. CASE Connect(p, s) /\ todo' = Tail(todo)
  <2>1. /\ nfault' = nfault \/ Faulty
        /\ (\E c : Takes(cs', cs, c, o)) \/ PutBack(cs', cs)
      BY <1>3, <1>4, <1>8, ConnectIs
  <2>2. Others
    <3>1. nfault' \in 0..MaxFault
        BY <2>1, Faults
    <3> QED BY <1>1, <3>1, SameOthers
  <2>3. j \in 0..9 /\ HeldBy(heap, fds, cs, nci, j) /\ j <= 2 /\ Unopened(Tail(todo), cs)
    <3>1. j \in 0..9 /\ HeldBy(heap, fds, cs, nci, j) /\ j <= Depth(n) /\ Unopened(Tail(todo), cs)
        BY <1>1, <1>2, StartNext
    <3> QED BY <3>1, <1>2
  <2> HIDE DEF j
  <2>4. j \in Int /\ j <= 8 /\ StructsHeld(cs, j) /\ OwnersHeld(cs, j)
    <3>1. j \in Int /\ j <= 8
        BY ONLY <2>3
    <3> QED BY <2>3, <3>1, HeldParts
  <2>5. Does(todo, heap, nfd, max_nsconn, max_ncconn, heap', max_nsconn', max_ncconn')
    <3>1. /\ Head(todo) # Call("server_pool_each_calc_connections")
          /\ Head(todo) # Call("core_calc_connections")
          /\ Head(todo) # Call("conf_create")
          /\ Head(todo) # Call("server_pool_array")
          /\ Head(todo) # Call("stats_alloc")
        BY <1>3 DEF Call
    <3> QED BY <3>1, <1>1 DEF Does
  <2>6. ASSUME NEW c, Takes(cs', cs, c, o) PROVE IInv'
    <3>1. \A q \in Pool : o = <<"proxy", q, 0>> => OwnedBy(cs, o) = {}
        BY <1>7
    <3>2. \A q \in Pool : \A t \in 1..NSERVER[q] :
               o = <<"server", q, t>> => Cardinality(OwnedBy(cs, o)) < SERVER_CONNECTIONS[q]
        BY <1>7
    <3>3. o[1] = "client" => Cardinality(Clients(cs)) < max_ncconn
        BY <1>5
    <3>4. /\ Structures /\ StructsHeld(cs', j) /\ NoneFreed(cs')
          /\ OwnersHeld(cs, j)
                /\ (o[1] = "client" => j <= 0) /\ (o[1] = "proxy" => j <= 1)
                /\ (o[1] = "server" => j <= 2) => OwnersHeld(cs', j)
      <4> HIDE DEF o
      <4> QED BY <1>1, <1>3, <1>5, <2>4, <2>6, <3>1, <3>2, <3>3, TakenKeeps
    <3>5. OwnersHeld(cs', j)
        BY <1>5, <2>3, <2>4, <3>4
    <3>6. HeldBy(heap', fds', cs', nci', j)
        BY <1>1, <2>3, <3>4, <3>5, HeldOf
    <3>7. Unopened(Tail(todo), cs')
      <4>1. \A q : q # Nobody /\ q # o => OwnedBy(cs', q) = OwnedBy(cs, q)
          BY <1>5, <2>6, TakesKeeps
      <4>2. ASSUME NEW q \in Pool, <<"proxy_each_init", q, 0>> \in ToSet(Tail(todo))
            PROVE  OwnedBy(cs', <<"proxy", q, 0>>) = {}
        <5>1. <<"proxy", q, 0>> # Nobody /\ <<"proxy", q, 0>> # o
            BY DEF Nobody
        <5> QED BY <4>1, <4>2, <5>1, <2>3 DEF Unopened
      <4>3. ASSUME NEW q \in Pool, NEW t \in 1..NSERVER[q],
                   <<"server_each_preconnect", q, t>> \in ToSet(Tail(todo))
            PROVE  OwnedBy(cs', <<"server", q, t>>) = {}
        <5>1. <<"server", q, t>> # Nobody
            BY DEF Nobody
        <5>2. <<"server", q, t>> # o
            BY <1>4, <1>6, <4>3
        <5> QED BY <4>1, <4>3, <5>1, <5>2, <2>3 DEF Unopened
      <4> QED BY <4>2, <4>3 DEF Unopened
    <3> HIDE DEF n, o
    <3> QED BY <1>1, <1>2, <1>8, <2>2, <2>5, <3>4, <3>6, <3>7, SucceedsKeeps DEF j
  <2>7. ASSUME PutBack(cs', cs) PROVE IInv'
    <3>1. /\ Structures /\ StructsHeld(cs', j) /\ NoneFreed(cs')
          /\ OwnersHeld(cs', j)
        BY <1>1, <1>3, <2>4, <2>7, PutBackKeeps
    <3>2. HeldBy(heap', fds', cs', nci', j)
        BY <1>1, <2>3, <3>1, HeldOf
    <3>3. Unopened(Tail(todo), cs')
        BY <1>3, <2>7, UnopenedTail DEF PutBack
    <3> HIDE DEF n, o
    <3> QED BY <1>1, <1>2, <1>8, <2>2, <2>5, <3>1, <3>2, <3>3, SucceedsKeeps DEF j
  <2> QED BY <2>1, <2>6, <2>7
<1>9. CASE Unwinds("server_pool_disconnect") /\ UNCHANGED cs
  <2>1. todo' = Rest(2) /\ nfault' \in 0..MaxFault
    <3>1. todo' = Rest(2)
        BY <1>9, FromIs DEF Unwinds, FailsTo
    <3>2. nfault' \in 0..MaxFault
        BY <1>9, Faults DEF Unwinds, FailsTo
    <3> QED BY <3>1, <3>2
  <2>2. todo' = Rest(Depth(n)) /\ Depth(n) \in 1..9
      BY <2>1, <1>2
  <2>3. Others
      BY <1>1, <2>1, SameOthers
  <2>4. cs' = cs /\ HeldBy(heap', fds', cs, nci', Depth(n)) /\ heap \subseteq heap'
      BY <1>1, <1>3, <1>9
  <2> HIDE DEF n, j
  <2> QED BY <1>1, <1>2, <2>2, <2>3, <2>4, PlainFails
<1> QED
    BY <1>1, <1>8, <1>9

(* A listener may be the owner of a connection.                            *)
LEMMA ProxiesAre ==
    ASSUME NEW p \in Pool
    PROVE  <<"proxy", p, 0>> \in Owner /\ <<"proxy", p, 0>> # Nobody /\ <<"proxy", p, 0>>[1] = "proxy"
<1>1. <<"proxy", p, 0>> # Nobody
    BY DEF Nobody
<1> QED
    BY <1>1, OwnersAre

(* A connection to a listener is put back when it cannot listen.           *)
LEMMA NoListenerIs ==
    ASSUME NEW p \in Pool, Structs(cs), NEW c \in Available(cs),
           cs' = Closed(conn_get(cs, c, <<"proxy", p, 0>>, Room), {c})
    PROVE  PutBack(cs', cs)
<1> DEFINE o == <<"proxy", p, 0>>
           k == conn_get(cs, c, o, Room)
<1>0. o \in Owner /\ o # Nobody
    BY ProxiesAre
<1>1. Room \in BOOLEAN
    BY DEF Room
<1>2. cs' = Closed(k, {c})
    OBVIOUS
<1> HIDE DEF o
<1>3. Takes(k, cs, c, o)
    BY <1>0, <1>1, GetTakes
<1> HIDE DEF k
<1>4. {c} \in SUBSET Conn /\ Structs(k) /\ \A d \in {c} : k.conn[d].st = "used"
    BY <1>3 DEF Takes
<1>5. Puts(Closed(k, {c}), k, {c})
    BY <1>4, ClosedIs
<1>6. Puts(cs', k, {c})
    BY <1>2, <1>5
<1>7. /\ Structs(cs') /\ Shrinks(cs', cs)
      /\ \A j \in Int : j <= 8 /\ StructsHeld(cs, j) => StructsHeld(cs', j) /\ cs'.touched = cs.touched
      /\ cs'.broken \subseteq cs.broken \cup {"conn_put: sd < 0"}
    BY <1>0, <1>3, <1>6, TakenAndPut
<1> QED
    BY <1>7 DEF PutBack

(* proxy_each_init keeps the invariant.                                    *)
LEMMA ProxyInitKeeps == IInv /\ proxy_each_init => IInv'
<1> SUFFICES ASSUME IInv, proxy_each_init PROVE IInv'
    OBVIOUS
<1> DEFINE n == "proxy_each_init"
           j == Depth(Head(Tail(todo))[1])
           p == ThePool
           o == <<"proxy", p, 0>>
<1>1. /\ At(n) /\ fds' = fds /\ UNCHANGED <<fds, env, nci, thread>>
      /\ stopping' = stopping /\ interrupted' = interrupted
      /\ max_nsconn' = max_nsconn /\ max_ncconn' = max_ncconn /\ nfd' = nfd
      /\ nci' = nci /\ thread' = thread /\ heap' = heap
      /\ \/ Succeeds /\ Room /\ \E c \in Available(cs) : cs' = conn_get(cs, c, o, TRUE)
         \/ Unwinds("proxy_deinit") /\ UNCHANGED cs
         \/ /\ Unwinds("proxy_deinit")
            /\ \E c \in Available(cs) : cs' = Closed(conn_get(cs, c, o, Room), {c})
    BY DEF proxy_each_init, env
<1>2. Rank(n) \in 1..22 /\ Depth(n) = 1 /\ n # "core_loop"
    BY Ranks, Depths
<1>3. /\ HeldBy(heap, fds, cs, nci, Depth(n)) /\ TypeOK /\ Structs(cs) /\ ~stopping
      /\ InOrder(todo) /\ todo # <<>> /\ Head(todo)[1] = n
      /\ Pending(todo, heap, cs, nfd, max_nsconn, max_ncconn)
    BY <1>1, <1>2, AtStart
<1>4. p \in Pool /\ Head(todo) = <<n, p, 0>>
    BY <1>1, ThePoolIs
<1>5. o \in Owner /\ o # Nobody /\ o[1] = "proxy"
    BY <1>4, ProxiesAre
<1>6. Head(todo) \in ToSet(todo) /\ Head(todo) \notin ToSet(Tail(todo)) /\ ToSet(Tail(todo)) \subseteq ToSet(todo)
  <2>1. ToSet(todo) = {Head(todo)} \cup ToSet(Tail(todo)) /\ Head(todo) \notin ToSet(Tail(todo))
      BY <1>3, After
  <2> QED BY <2>1
<1>7. OwnedBy(cs, o) = {}
    BY <1>3, <1>4, <1>6 DEF Pending
<1> DEFINE Listens == Succeeds /\ Room /\ \E c \in Available(cs) : cs' = conn_get(cs, c, o, TRUE)
<1>a. Listens \/ Unwinds("proxy_deinit")
    BY <1>1
<1> DEFINE Refuses == \E c \in Available(cs) : cs' = Closed(conn_get(cs, c, o, Room), {c})
<1>b. Unwinds("proxy_deinit") /\ ~Listens => cs' = cs \/ Refuses
    BY <1>1
<1> HIDE DEF p
<1>8. CASE Succeeds /\ Room /\ \E c \in Available(cs) : cs' = conn_get(cs, c, o, TRUE)
  <2>1. PICK c \in Available(cs) : cs' = conn_get(cs, c, o, TRUE)
      BY <1>8
  <2>2. todo' = Tail(todo) /\ nfault' = nfault
      BY <1>8 DEF Succeeds
  <2>3. Others
    <3>1. nfault' \in 0..MaxFault
        BY <2>2, Faults
    <3> QED BY <1>1, <3>1, SameOthers
  <2>4. Takes(cs', cs, c, o)
    <3> HIDE DEF o
    <3> QED BY <1>3, <1>5, <2>1, GetTakes
  <2>5. j \in 0..9 /\ HeldBy(heap, fds, cs, nci, j) /\ j <= 1 /\ Unopened(Tail(todo), cs)
    <3>1. j \in 0..9 /\ HeldBy(heap, fds, cs, nci, j) /\ j <= Depth(n) /\ Unopened(Tail(todo), cs)
        BY <1>1, <1>2, StartNext
    <3> QED BY <3>1, <1>2
  <2> HIDE DEF j
  <2>6. j \in Int /\ j <= 8 /\ StructsHeld(cs, j) /\ OwnersHeld(cs, j)
    <3>1. j \in Int /\ j <= 8
        BY ONLY <2>5
    <3> QED BY <2>5, <3>1, HeldParts
  <2>7. Does(todo, heap, nfd, max_nsconn, max_ncconn, heap', max_nsconn', max_ncconn')
    <3>1. /\ Head(todo) # Call("server_pool_each_calc_connections")
          /\ Head(todo) # Call("core_calc_connections")
          /\ Head(todo) # Call("conf_create")
          /\ Head(todo) # Call("server_pool_array")
          /\ Head(todo) # Call("stats_alloc")
        BY <1>3 DEF Call
    <3> QED BY <3>1, <1>1 DEF Does
  <2>8. \A q \in Pool : o = <<"proxy", q, 0>> => OwnedBy(cs, o) = {}
      BY <1>7
  <2>9. \A q \in Pool : \A t \in 1..NSERVER[q] :
             o = <<"server", q, t>> => Cardinality(OwnedBy(cs, o)) < SERVER_CONNECTIONS[q]
      BY <1>5
  <2>10. o[1] = "client" => Cardinality(Clients(cs)) < max_ncconn
      BY <1>5
  <2>11. /\ Structures /\ StructsHeld(cs', j) /\ NoneFreed(cs')
         /\ OwnersHeld(cs, j)
               /\ (o[1] = "client" => j <= 0) /\ (o[1] = "proxy" => j <= 1)
               /\ (o[1] = "server" => j <= 2) => OwnersHeld(cs', j)
    <3> HIDE DEF o
    <3> QED BY <1>1, <1>3, <1>5, <2>4, <2>6, <2>8, <2>9, <2>10, TakenKeeps
  <2>12. OwnersHeld(cs', j)
      BY <1>5, <2>5, <2>6, <2>11
  <2>13. HeldBy(heap', fds', cs', nci', j)
      BY <1>1, <2>5, <2>11, <2>12, HeldOf
  <2>14. Unopened(Tail(todo), cs')
    <3>1. \A q : q # Nobody /\ q # o => OwnedBy(cs', q) = OwnedBy(cs, q)
        BY <1>5, <2>4, TakesKeeps
    <3>2. ASSUME NEW q \in Pool, <<"proxy_each_init", q, 0>> \in ToSet(Tail(todo))
          PROVE  OwnedBy(cs', <<"proxy", q, 0>>) = {}
      <4>1. <<"proxy", q, 0>> # Nobody
          BY DEF Nobody
      <4>2. <<"proxy", q, 0>> # o
          BY <1>4, <1>6, <3>2
      <4> QED BY <3>1, <3>2, <4>1, <4>2, <2>5 DEF Unopened
    <3>3. ASSUME NEW q \in Pool, NEW t \in 1..NSERVER[q],
                 <<"server_each_preconnect", q, t>> \in ToSet(Tail(todo))
          PROVE  OwnedBy(cs', <<"server", q, t>>) = {}
      <4>1. <<"server", q, t>> # Nobody /\ <<"server", q, t>> # o
          BY DEF Nobody
      <4> QED BY <3>1, <3>3, <4>1, <2>5 DEF Unopened
    <3> QED BY <3>2, <3>3 DEF Unopened
  <2> HIDE DEF n, o
  <2> QED BY <1>1, <1>2, <2>2, <2>3, <2>7, <2>11, <2>13, <2>14, SucceedsKeeps DEF j
<1>9. CASE Unwinds("proxy_deinit")
  <2>1. todo' = Rest(1) /\ nfault' \in 0..MaxFault
    <3>1. todo' = Rest(1)
        BY <1>9, FromIs DEF Unwinds, FailsTo
    <3>2. nfault' \in 0..MaxFault
        BY <1>9, Faults DEF Unwinds, FailsTo
    <3> QED BY <3>1, <3>2
  <2>2. todo' = Rest(Depth(n)) /\ Depth(n) \in 1..9
      BY <2>1, <1>2
  <2>3. Others
      BY <1>1, <2>1, SameOthers
  <2>4. heap \subseteq heap'
      BY <1>1
  <2>5. CASE cs' = cs
    <3>1. cs' = cs /\ HeldBy(heap', fds', cs, nci', Depth(n))
        BY <1>1, <1>3, <2>5
    <3> HIDE DEF n, j
    <3> QED BY <1>1, <1>2, <2>2, <2>3, <2>4, <3>1, PlainFails
  <2>6. CASE \E c \in Available(cs) : cs' = Closed(conn_get(cs, c, o, Room), {c})
    <3>1. PutBack(cs', cs)
        BY <1>3, <1>4, <2>6, NoListenerIs
    <3> DEFINE i == Depth(n)
    <3>2. i \in Int /\ i <= 8 /\ HeldBy(heap, fds, cs, nci, i)
        BY <1>2, <1>3
    <3> HIDE DEF i
    <3>3. StructsHeld(cs, i) /\ OwnersHeld(cs, i)
        BY <3>2, HeldParts
    <3>4. Structures /\ StructsHeld(cs', i) /\ OwnersHeld(cs', i)
        BY <1>1, <1>3, <3>1, <3>2, <3>3, PutBackKeeps
    <3>5. HeldBy(heap', fds', cs', nci', i)
        BY <1>1, <3>2, <3>4, HeldOf
    <3>6. HeldBy(heap', fds', cs', nci', Depth(n))
        BY <3>5 DEF i
    <3> HIDE DEF n, j, o
    <3> QED BY <1>1, <1>2, <2>2, <2>3, <2>4, <3>4, <3>6, FailsKeeps
  <2> QED BY <1>b, <1>8, <1>9, <2>5, <2>6
<1> QED
    BY <1>a, <1>8, <1>9

(* In the loop connections come and go.                                    *)
LEMMA LoopKeeps ==
    ASSUME IInv, At("core_loop"),
           UNCHANGED <<todo, heap, fds, env, nci, thread, stopping, interrupted>>,
           nfault' \in 0..MaxFault, Structures, StructsHeld(cs', 0), NoneFreed(cs')
    PROVE  IInv'
<1> DEFINE n == "core_loop"
<1>1. Rank(n) \in 1..22 /\ Rank(n) = 22 /\ Depth(n) = 0
    BY Ranks, Depths
<1>2. /\ Starts /\ ~stopping /\ ~interrupted /\ TypeOK /\ InOrder(todo) /\ todo # <<>>
      /\ Head(todo)[1] = n
      /\ Started(todo, heap, fds, cs, nci, nfd, max_nsconn, max_ncconn)
      /\ HeldBy(heap, fds, cs, nci, Depth(n))
      /\ Pending(todo, heap, cs, nfd, max_nsconn, max_ncconn)
    BY <1>1, AtStart
<1>3. /\ todo' = todo /\ heap' = heap /\ fds' = fds /\ nci' = nci /\ thread' = thread
      /\ stopping' = stopping /\ interrupted' = interrupted /\ nfd' = nfd
      /\ max_nsconn' = max_nsconn /\ max_ncconn' = max_ncconn
    BY DEF env
<1>4. Others
    BY <1>3, SameOthers DEF env
<1>5. OwnersHeld(cs', 0)
    BY DEF OwnersHeld
<1>6. HeldBy(heap', fds', cs', nci', Depth(n))
    BY <1>1, <1>2, <1>3, <1>5, HeldOf
<1>7. \A p \in Pool : \A s : /\ <<"proxy_each_init", p, 0>> \notin ToSet(todo)
                             /\ <<"server_each_preconnect", p, s>> \notin ToSet(todo)
  <2> SUFFICES ASSUME NEW p \in Pool, NEW s, NEW a \in {"proxy_each_init", "server_each_preconnect"},
                      NEW t, <<a, p, t>> \in ToSet(todo)
               PROVE  FALSE
      OBVIOUS
  <2>1. Rank(n) <= Rank(<<a, p, t>>[1])
      BY <1>2, After
  <2>2. Rank(<<a, p, t>>[1]) \in {20, 21}
      BY Ranks
  <2> QED BY <1>1, <2>1, <2>2
<1>8. Pending(todo', heap', cs', nfd', max_nsconn', max_ncconn')
    BY <1>2, <1>3, <1>7 DEF Pending
<1>9. Started(todo', heap', fds', cs', nci', nfd', max_nsconn', max_ncconn')
  <2>1. InOrder(todo') /\ Call("core_loop") \in ToSet(todo') /\ Head(todo')[1] = n
      BY <1>2, <1>3 DEF Started
  <2> QED BY <1>6, <1>8, <2>1 DEF Started
<1>10. Starts'
    BY <1>2, <1>3, <1>9 DEF Starts
<1>11. todo' \in Seq(Name \X Nat \X Nat)
    BY <1>2, <1>3 DEF TypeOK
<1>12. stopping' \in BOOLEAN /\ interrupted' \in BOOLEAN
    BY <1>2, <1>3 DEF TypeOK
<1> QED
    BY <1>4, <1>10, <1>11, <1>12, IInvNext DEF Others, Structures

(* What a step of the loop can rely on.                                    *)
LEMMA InLoop ==
    ASSUME IInv, At("core_loop")
    PROVE  /\ Structs(cs) /\ ~stopping /\ StructsHeld(cs, 0) /\ NoneFreed(cs) /\ TypeOK
           /\ 0 \in Int /\ 0 <= 8 /\ Clean(cs) /\ Limits(cs)
<1>1. Rank("core_loop") \in 1..22 /\ Depth("core_loop") = 0
    BY Ranks, Depths
<1>2. Structs(cs) /\ ~stopping /\ NoneFreed(cs) /\ TypeOK /\ Clean(cs) /\ Limits(cs)
    BY <1>1, AtStart
<1>3. StructsHeld(cs, 0)
    BY <1>2 DEF StructsHeld, NoneFreed
<1> QED
    BY <1>2, <1>3

(* proxy_accept keeps it: a client more is still within max_ncconn.        *)
LEMMA AcceptKeeps ==
    ASSUME IInv, NEW p \in Pool, proxy_accept(p) PROVE IInv'
<1> DEFINE o == <<"client", p, 0>>
<1>0. o \in Owner /\ o # Nobody /\ o[1] = "client"
  <2>1. o # Nobody
      BY DEF Nobody
  <2> QED BY <2>1, OwnersAre
<1>1. /\ At("core_loop") /\ ncurr_cconn < max_ncconn /\ nfault' = nfault
      /\ UNCHANGED <<todo, heap, fds, env, nci, thread, stopping, interrupted>>
      /\ max_ncconn' = max_ncconn
    BY DEF proxy_accept, env
<1>2. PICK c \in Available(cs) : cs' = conn_get(cs, c, o, TRUE)
    BY DEF proxy_accept
<1>3. \A q \in Pool : o = <<"proxy", q, 0>> => OwnedBy(cs, o) = {}
    OBVIOUS
<1>4. \A q \in Pool : \A t \in 1..NSERVER[q] :
           o = <<"server", q, t>> => Cardinality(OwnedBy(cs, o)) < SERVER_CONNECTIONS[q]
    OBVIOUS
<1>5. o[1] = "client" => Cardinality(Clients(cs)) < max_ncconn
    BY <1>1 DEF ncurr_cconn, Clients
<1> HIDE DEF o
<1>6. /\ Structs(cs) /\ ~stopping /\ StructsHeld(cs, 0) /\ 0 \in Int /\ 0 <= 8
    BY <1>1, InLoop
<1>7. Takes(cs', cs, c, o)
    BY <1>0, <1>2, <1>6, GetTakes
<1>8. Structures /\ StructsHeld(cs', 0) /\ NoneFreed(cs')
    BY <1>0, <1>1, <1>3, <1>4, <1>5, <1>6, <1>7, TakenKeeps
<1>9. nfault' \in 0..MaxFault
    BY <1>1, Faults
<1> QED
    BY <1>1, <1>8, <1>9, LoopKeeps

(* A connection that is put in the loop.                                   *)
LEMMA PutsPutBack ==
    ASSUME NEW g, NEW h, NEW S, Puts(g, h, S)
    PROVE  PutBack(g, h)
<1>1. /\ Structs(g) /\ g.broken \subseteq h.broken \cup {"conn_put: sd < 0"}
    BY DEF Puts
<1>2. /\ Shrinks(g, h)
      /\ \A k : k <= 8 /\ StructsHeld(h, k) => StructsHeld(g, k)
      /\ \A k \in Int : k <= 8 /\ StructsHeld(h, k) => g.touched = h.touched
    BY PutsShrinks
<1> QED
    BY <1>1, <1>2 DEF PutBack

(* A structure with an owner is in use.                                    *)
LEMMA OwnedAreUsed ==
    ASSUME NEW h, Structs(h), NEW o, o # Nobody, NEW c \in OwnedBy(h, o)
    PROVE  {c} \in SUBSET Conn /\ \A d \in {c} : h.conn[d].st = "used"
BY DEF OwnedBy, Structs

(* A connection that is put keeps the invariant.                           *)
LEMMA PutBackInLoop ==
    ASSUME IInv, At("core_loop"), PutBack(cs', cs), nfault' = nfault \/ Faulty,
           UNCHANGED <<todo, heap, fds, env, nci, thread, stopping, interrupted>>
    PROVE  IInv'
<1>1. /\ Structs(cs) /\ ~stopping /\ StructsHeld(cs, 0) /\ 0 \in Int /\ 0 <= 8
    BY InLoop
<1>2. max_ncconn' = max_ncconn
    BY DEF env
<1>3. Structures /\ StructsHeld(cs', 0) /\ NoneFreed(cs')
    BY <1>1, <1>2, PutBackKeeps
<1>4. nfault' \in 0..MaxFault
    BY Faults
<1> QED
    BY <1>3, <1>4, LoopKeeps

(* client_close keeps it.                                                  *)
LEMMA ClientCloseKeeps == IInv /\ client_close => IInv'
<1> SUFFICES ASSUME IInv, client_close PROVE IInv'
    OBVIOUS
<1>0. PICK p \in Pool : \E c \in OwnedBy(cs, <<"client", p, 0>>) : cs' = Closed(cs, {c})
    BY DEF client_close
<1>1. PICK c \in OwnedBy(cs, <<"client", p, 0>>) : cs' = Closed(cs, {c})
    BY <1>0
<1>2. /\ At("core_loop") /\ Faulty
      /\ UNCHANGED <<todo, heap, fds, env, nci, thread, stopping, interrupted>>
    BY DEF client_close
<1>3. Structs(cs)
    BY <1>2, InLoop
<1>4. <<"client", p, 0>> # Nobody
    BY DEF Nobody
<1>5. {c} \in SUBSET Conn /\ \A d \in {c} : cs.conn[d].st = "used"
    BY <1>3, <1>4, OwnedAreUsed
<1>6. Puts(Closed(cs, {c}), cs, {c})
    BY <1>3, <1>5, ClosedIs
<1>7. Puts(cs', cs, {c})
    BY <1>1, <1>6
<1>8. PutBack(cs', cs)
    BY <1>7, PutsPutBack
<1> QED
    BY <1>2, <1>8, PutBackInLoop

(* server_close keeps it.                                                  *)
LEMMA ServerClosesKeeps ==
    ASSUME IInv, NEW p \in Pool, NEW s \in 1..NSERVER[p], ServerCloses(p, s) PROVE IInv'
<1>1. PICK c \in OwnedBy(cs, <<"server", p, s>>) : cs' = server_close(cs, {c})
    BY DEF ServerCloses
<1>2. /\ At("core_loop") /\ Faulty
      /\ UNCHANGED <<todo, heap, fds, env, nci, thread, stopping, interrupted>>
    BY DEF ServerCloses
<1>3. Structs(cs)
    BY <1>2, InLoop
<1>4. <<"server", p, s>> # Nobody
    BY DEF Nobody
<1>5. {c} \in SUBSET Conn /\ \A d \in {c} : cs.conn[d].st = "used"
    BY <1>3, <1>4, OwnedAreUsed
<1>6. Puts(server_close(cs, {c}), cs, {c})
    BY <1>3, <1>5, ServerCloseIs
<1>7. Puts(cs', cs, {c})
    BY <1>1, <1>6
<1>8. PutBack(cs', cs)
    BY <1>7, PutsPutBack
<1> QED
    BY <1>2, <1>8, PutBackInLoop

(* server_pool_conn keeps it: a server gets no more than                   *)
(* server_connections.                                                     *)
LEMMA PoolConnKeeps ==
    ASSUME IInv, NEW p \in Pool, NEW s \in 1..NSERVER[p], server_pool_conn(p, s) PROVE IInv'
<1> DEFINE o == <<"server", p, s>>
<1>0. o \in Owner /\ o # Nobody /\ o[1] = "server"
    BY ServersAre
<1>1. /\ At("core_loop") /\ Connect(p, s) /\ Cardinality(OwnedBy(cs, o)) < SERVER_CONNECTIONS[p]
      /\ UNCHANGED <<todo, heap, fds, env, nci, thread, stopping, interrupted>>
      /\ max_ncconn' = max_ncconn
    BY DEF server_pool_conn, env
<1>2. /\ Structs(cs) /\ ~stopping /\ StructsHeld(cs, 0) /\ 0 \in Int /\ 0 <= 8
    BY <1>1, InLoop
<1>3. /\ nfault' = nfault \/ Faulty
      /\ (\E c : Takes(cs', cs, c, o)) \/ PutBack(cs', cs)
    BY <1>1, <1>2, ConnectIs
<1>4. CASE PutBack(cs', cs)
    BY <1>1, <1>3, <1>4, PutBackInLoop
<1>5. ASSUME NEW c, Takes(cs', cs, c, o) PROVE IInv'
  <2>1. \A q \in Pool : o = <<"proxy", q, 0>> => OwnedBy(cs, o) = {}
      OBVIOUS
  <2>2. \A q \in Pool : \A t \in 1..NSERVER[q] :
             o = <<"server", q, t>> => Cardinality(OwnedBy(cs, o)) < SERVER_CONNECTIONS[q]
      BY <1>1
  <2>3. o[1] = "client" => Cardinality(Clients(cs)) < max_ncconn
      BY <1>0
  <2> HIDE DEF o
  <2>4. Structures /\ StructsHeld(cs', 0) /\ NoneFreed(cs')
      BY <1>0, <1>1, <1>2, <1>5, <2>1, <2>2, <2>3, TakenKeeps
  <2>5. nfault' \in 0..MaxFault
      BY <1>3, Faults
  <2> QED BY <1>1, <2>4, <2>5, LoopKeeps
<1> QED
    BY <1>3, <1>4, <1>5

(* The loop fails, and the process stops.                                  *)
LEMMA StopKeeps == IInv /\ core_loop => IInv'
<1> SUFFICES ASSUME IInv, core_loop PROVE IInv'
    OBVIOUS
<1> DEFINE n == "core_loop"
<1>0. Rank(n) \in 1..22 /\ Depth(n) = 0
    BY Ranks, Depths
<1>1. /\ At(n) /\ Faulty /\ todo' = core_stop /\ stopping' = TRUE
      /\ UNCHANGED <<fds, env, nci, thread>>
      /\ cs' = cs /\ heap' = heap /\ fds' = fds /\ nci' = nci /\ interrupted' = interrupted
      /\ max_ncconn' = max_ncconn
    BY DEF core_loop, FailsTo, env
<1>2. ~interrupted /\ HeldBy(heap, fds, cs, nci, 0) /\ TypeOK
    BY <1>0, <1>1, AtStart
<1>3. Others
    BY <1>1, Faults, SameOthers
<1>4. Structures
    BY <1>1, SameStructures
<1>5. Stopped(todo', heap', fds', cs', nci', 1)
  <2>1. todo' = StopRest(1)
      BY <1>1, StopRestIs
  <2> DEFINE k == 1
             i == IF k = 10 THEN 10 ELSE k - 1
  <2>2. i = 0
      OBVIOUS
  <2>3. /\ BlocksHeld(heap', i) /\ FdsHeld(fds', i) /\ FileHeld(nci', i)
    <3> HIDE DEF i
    <3> QED BY <1>1, <1>2, <2>2 DEF HeldBy
  <2>4. \A c \in Conn : /\ cs'.conn[c].owner[1] = "proxy" => i <= 1
                        /\ cs'.conn[c].owner[1] = "server" => i <= 2
      BY <2>2
  <2>5. todo' = StopRest(k)
      BY <2>1
  <2>6. Stopped(todo', heap', fds', cs', nci', k)
    <3> HIDE DEF k
    <3> QED BY <2>3, <2>4, <2>5 DEF Stopped
  <2> QED BY <2>6
<1>6. Stops'
  <2>1. ~interrupted' /\ stopping'
      BY <1>1, <1>2
  <2> QED BY <1>5, <2>1 DEF Stops
<1>7. todo' \in Seq(Name \X Nat \X Nat)
    BY <1>1, StopIs
<1>8. stopping' \in BOOLEAN /\ interrupted' \in BOOLEAN
    BY <1>1, <1>2 DEF TypeOK
<1> QED
    BY <1>3, <1>4, <1>6, <1>7, <1>8, IInvNext DEF Others, Structures

(* The next step of the unwinding.                                         *)
LEMMA UndoneKeeps ==
    ASSUME IInv, ~stopping, ~interrupted, NEW k \in 1..10, todo' = Rest(k),
           Others, Structures, stopping' = stopping, interrupted' = interrupted,
           HeldBy(heap', fds', cs', nci', k),
           k <= 6 => Block("conf") \in heap', k <= 5 => Block("pools") \in heap',
           k <= 4 => Block("stats") \in heap'
    PROVE  IInv'
<1>1. Undone(todo', heap', fds', cs', nci', k)
    BY DEF Undone
<1>2. Undoes'
    BY <1>1 DEF Undoes
<1>3. todo' \in Seq(Name \X Nat \X Nat)
    BY RestTyped
<1>4. stopping' \in BOOLEAN /\ interrupted' \in BOOLEAN
    BY DEF IInv, TypeOK
<1> QED
    BY <1>2, <1>3, <1>4, IInvNext DEF Others, Structures

(* The next step of stopping.                                              *)
LEMMA StoppedKeeps ==
    ASSUME IInv, stopping, ~interrupted, NEW k \in 1..10, todo' = StopRest(k),
           Others, Structures, stopping' = stopping, interrupted' = interrupted,
           NEW j, j = (IF k = 10 THEN 10 ELSE k - 1),
           BlocksHeld(heap', j), FdsHeld(fds', j), FileHeld(nci', j),
           \A c \in Conn : /\ cs'.conn[c].owner[1] = "proxy" => j <= 1
                           /\ cs'.conn[c].owner[1] = "server" => j <= 2
    PROVE  IInv'
<1>1. Stopped(todo', heap', fds', cs', nci', k)
    BY DEF Stopped
<1>2. Stops'
    BY <1>1 DEF Stops
<1>3. todo' \in Seq(Name \X Nat \X Nat)
    BY RestTyped
<1>4. stopping' \in BOOLEAN /\ interrupted' \in BOOLEAN
    BY DEF IInv, TypeOK
<1> QED
    BY <1>2, <1>3, <1>4, IInvNext DEF Others, Structures

(* A step of the unwinding is known by its call, and so is that of         *)
(* stopping.                                                               *)
LEMMA SameStep ==
    ASSUME NEW i \in 1..9, NEW k \in 1..9
    PROVE  /\ Undo[k][1] = Undo[i][1] => k = i
           /\ core_stop[k][1] = Undo[i][1] /\ i <= 7 => k = i + 1
           /\ core_stop[k][1] = Undo[i][1] /\ i = 8 => k = 1
           /\ core_stop[k][1] = Undo[i][1] /\ i = 9 => k = 9
<1>1. i \in {1, 2, 3, 4, 5, 6, 7, 8, 9}
    OBVIOUS
<1>2. CASE i = 1
    BY <1>2, UndoNames, WhichStep
<1>3. CASE i = 2
    BY <1>3, UndoNames, WhichStep
<1>4. CASE i = 3
    BY <1>4, UndoNames, WhichStep
<1>5. CASE i = 4
    BY <1>5, UndoNames, WhichStep
<1>6. CASE i = 5
    BY <1>6, UndoNames, WhichStep
<1>7. CASE i = 6
    BY <1>7, UndoNames, WhichStep
<1>8. CASE i = 7
    BY <1>8, UndoNames, WhichStep
<1>9. CASE i = 8
    BY <1>9, UndoNames, WhichStep
<1>10. CASE i = 9
    BY <1>10, UndoNames, WhichStep
<1> QED
    BY <1>1, <1>2, <1>3, <1>4, <1>5, <1>6, <1>7, <1>8, <1>9, <1>10

(* conn_deinit gives back neither blocks nor descriptors.                  *)
LEMMA HeldAfterDeinit ==
    /\ \A hp : /\ BlocksHeld(hp, 8) <=> BlocksHeld(hp, 9)
               /\ BlocksHeld(hp, 0) <=> BlocksHeld(hp, 1)
    /\ \A f : /\ FdsHeld(f, 8) <=> FdsHeld(f, 9)
              /\ FdsHeld(f, 0) <=> FdsHeld(f, 1)
    /\ \A n : /\ FileHeld(n, 8) <=> FileHeld(n, 9)
              /\ FileHeld(n, 0) <=> FileHeld(n, 1)
<1>1. /\ FreedBy(8) = {} /\ FreedBy(0) = {} /\ ClosedBy(8) = {} /\ ClosedBy(0) = {}
    BY DEF FreedBy, ClosedBy
<1>2. 8..9 = {8} \cup (9..9) /\ 0..9 = {0} \cup (1..9)
    OBVIOUS
<1>3. UNION {FreedBy(j) : j \in 8..9} = UNION {FreedBy(j) : j \in 9..9}
    BY <1>1, <1>2
<1>4. UNION {FreedBy(j) : j \in 0..9} = UNION {FreedBy(j) : j \in 1..9}
    BY <1>1, <1>2
<1>5. UNION {ClosedBy(j) : j \in 8..9} = UNION {ClosedBy(j) : j \in 9..9}
    BY <1>1, <1>2
<1>6. UNION {ClosedBy(j) : j \in 0..9} = UNION {ClosedBy(j) : j \in 1..9}
    BY <1>1, <1>2
<1>7. \A n : /\ FileHeld(n, 8) <=> FileHeld(n, 9)
             /\ FileHeld(n, 0) <=> FileHeld(n, 1)
    BY DEF FileHeld
<1> QED
    BY <1>3, <1>4, <1>5, <1>6, <1>7 DEF BlocksHeld, FdsHeld

(* What a call of the end, other than conn_deinit, finds.                  *)
LEMMA EndFinds ==
    ASSUME IInv, NEW i \in 1..9, i # 8, NEW n, n = Undo[i][1], At(n), Rank(n) = 0
    PROVE  /\ ~interrupted /\ TypeOK /\ Structs(cs) /\ Limits(cs)
           /\ BlocksHeld(heap, i) /\ FdsHeld(fds, i) /\ FileHeld(nci, i)
           /\ \A c \in Conn : /\ cs.conn[c].owner[1] = "proxy" => i <= 1
                              /\ cs.conn[c].owner[1] = "server" => i <= 2
           /\ \/ /\ stopping /\ Tail(todo) = StopRest(IF i = 9 THEN 10 ELSE i + 2)
              \/ /\ ~stopping /\ Clean(cs) /\ Tail(todo) = Rest(i + 1)
                 /\ HeldBy(heap, fds, cs, nci, i)
                 /\ i <= 6 => Block("conf") \in heap
                 /\ i <= 5 => Block("pools") \in heap
                 /\ i <= 4 => Block("stats") \in heap
<1>1. /\ ~interrupted /\ TypeOK /\ Structs(cs) /\ Limits(cs)
      /\ \/ /\ ~stopping /\ Clean(cs)
            /\ \E k \in 1..9 : /\ Undone(todo, heap, fds, cs, nci, k)
                               /\ Undo[k][1] = n /\ Tail(todo) = Rest(k + 1)
         \/ /\ stopping
            /\ \E k \in 1..9 : /\ Stopped(todo, heap, fds, cs, nci, k)
                               /\ core_stop[k][1] = n /\ Tail(todo) = StopRest(k + 1)
    BY AtEnd
<1>2. ASSUME ~stopping, Clean(cs), NEW k \in 1..9, Undone(todo, heap, fds, cs, nci, k),
             Undo[k][1] = n, Tail(todo) = Rest(k + 1)
      PROVE  /\ HeldBy(heap, fds, cs, nci, i) /\ Tail(todo) = Rest(i + 1)
             /\ i <= 6 => Block("conf") \in heap
             /\ i <= 5 => Block("pools") \in heap
             /\ i <= 4 => Block("stats") \in heap
             /\ BlocksHeld(heap, i) /\ FdsHeld(fds, i) /\ FileHeld(nci, i)
             /\ \A c \in Conn : /\ cs.conn[c].owner[1] = "proxy" => i <= 1
                                /\ cs.conn[c].owner[1] = "server" => i <= 2
  <2>1. k = i
      BY <1>2, SameStep
  <2>2. Undone(todo, heap, fds, cs, nci, i) /\ Tail(todo) = Rest(i + 1)
      BY <1>2, <2>1
  <2> QED BY <2>2 DEF Undone, HeldBy, OwnersHeld
<1>3. ASSUME stopping, NEW k \in 1..9, Stopped(todo, heap, fds, cs, nci, k),
             core_stop[k][1] = n, Tail(todo) = StopRest(k + 1)
      PROVE  /\ Tail(todo) = StopRest(IF i = 9 THEN 10 ELSE i + 2)
             /\ BlocksHeld(heap, i) /\ FdsHeld(fds, i) /\ FileHeld(nci, i)
             /\ \A c \in Conn : /\ cs.conn[c].owner[1] = "proxy" => i <= 1
                                /\ cs.conn[c].owner[1] = "server" => i <= 2
  <2>1. CASE i <= 7
    <3>1. k = i + 1 /\ k # 10 /\ k - 1 = i
        BY <1>3, <2>1, SameStep
    <3>2. Tail(todo) = StopRest(IF i = 9 THEN 10 ELSE i + 2)
      <4>1. k + 1 = i + 2 /\ i # 9
          BY <2>1, <3>1
      <4> QED BY <1>3, <4>1
    <3> QED BY <1>3, <3>1, <3>2 DEF Stopped
  <2>2. CASE i = 9
    <3>1. k = 9 /\ k # 10 /\ k - 1 = 8
        BY <1>3, <2>2, SameStep
    <3>2. Tail(todo) = StopRest(IF i = 9 THEN 10 ELSE i + 2)
      <4>1. k + 1 = 10
          BY <3>1
      <4> QED BY <1>3, <2>2, <4>1
    <3>3. /\ BlocksHeld(heap, 8) /\ FdsHeld(fds, 8) /\ FileHeld(nci, 8)
          /\ \A c \in Conn : /\ cs.conn[c].owner[1] = "proxy" => 8 <= 1
                             /\ cs.conn[c].owner[1] = "server" => 8 <= 2
      <4> DEFINE j == 8
      <4>1. k - 1 = j /\ k # 10
          BY <3>1
      <4> HIDE DEF j
      <4>2. /\ BlocksHeld(heap, j) /\ FdsHeld(fds, j) /\ FileHeld(nci, j)
            /\ \A c \in Conn : /\ cs.conn[c].owner[1] = "proxy" => j <= 1
                               /\ cs.conn[c].owner[1] = "server" => j <= 2
          BY <1>3, <4>1 DEF Stopped
      <4> QED BY <4>2 DEF j
    <3>4. BlocksHeld(heap, 9) /\ FdsHeld(fds, 9) /\ FileHeld(nci, 9)
        BY <3>3, HeldAfterDeinit
    <3> QED BY <2>2, <3>2, <3>3, <3>4
  <2>3. i <= 7 \/ i = 9
      OBVIOUS
  <2> QED BY <2>1, <2>2, <2>3
<1> QED
    BY <1>1, <1>2, <1>3

(* A call of the end, other than conn_deinit: what it has to leave.        *)
LEMMA EndKeeps ==
    ASSUME IInv, NEW i \in 1..9, i # 8, NEW n, n = Undo[i][1], At(n), Rank(n) = 0,
           Succeeds, Others, Structures, stopping' = stopping, interrupted' = interrupted,
           BlocksHeld(heap', i + 1), FdsHeld(fds', i + 1), FileHeld(nci', i + 1),
           \A c \in Conn : /\ cs'.conn[c].owner[1] = "proxy" => i + 1 <= 1
                           /\ cs'.conn[c].owner[1] = "server" => i + 1 <= 2,
           ~stopping => /\ OwnersHeld(cs', i + 1) /\ StructsHeld(cs', i + 1)
                        /\ i + 1 <= 6 => Block("conf") \in heap'
                        /\ i + 1 <= 5 => Block("pools") \in heap'
                        /\ i + 1 <= 4 => Block("stats") \in heap'
    PROVE  IInv'
<1>1. /\ ~interrupted /\ todo' = Tail(todo)
      /\ \/ stopping /\ Tail(todo) = StopRest(IF i = 9 THEN 10 ELSE i + 2)
         \/ ~stopping /\ Tail(todo) = Rest(i + 1)
    BY EndFinds DEF Succeeds
<1>2. CASE stopping /\ Tail(todo) = StopRest(IF i = 9 THEN 10 ELSE i + 2)
  <2> DEFINE k == IF i = 9 THEN 10 ELSE i + 2
             j == i + 1
  <2>1. k \in 1..10 /\ j = (IF k = 10 THEN 10 ELSE k - 1)
      OBVIOUS
  <2>2. todo' = StopRest(k)
      BY <1>1, <1>2
  <2>3. /\ BlocksHeld(heap', j) /\ FdsHeld(fds', j) /\ FileHeld(nci', j)
        /\ \A c \in Conn : /\ cs'.conn[c].owner[1] = "proxy" => j <= 1
                           /\ cs'.conn[c].owner[1] = "server" => j <= 2
      OBVIOUS
  <2> HIDE DEF k, j
  <2> QED BY <1>1, <1>2, <2>1, <2>2, <2>3, StoppedKeeps
<1>3. CASE ~stopping /\ Tail(todo) = Rest(i + 1)
  <2> DEFINE k == i + 1
  <2>1. k \in 1..10
      OBVIOUS
  <2>2. /\ HeldBy(heap', fds', cs', nci', k) /\ todo' = Rest(k)
        /\ k <= 6 => Block("conf") \in heap'
        /\ k <= 5 => Block("pools") \in heap'
        /\ k <= 4 => Block("stats") \in heap'
      BY <1>1, <1>3 DEF HeldBy
  <2> HIDE DEF k
  <2> QED BY <1>1, <1>3, <2>1, <2>2, UndoneKeeps
<1> QED
    BY <1>1, <1>2, <1>3

(* A step of the unwinding gives back what it has to.                      *)
LEMMA BlocksLess ==
    ASSUME NEW hp, NEW i \in 1..9, BlocksHeld(hp, i)
    PROVE  BlocksHeld(hp \ FreedBy(i), i + 1)
<1>1. i..9 = {i} \cup ((i + 1)..9)
    OBVIOUS
<1>2. hp \subseteq FreedBy(i) \cup UNION {FreedBy(j) : j \in (i + 1)..9}
    BY <1>1 DEF BlocksHeld
<1> QED
    BY <1>2 DEF BlocksHeld

(* The descriptors it closes are not held any more.                        *)
LEMMA FdsLess ==
    ASSUME NEW f, NEW i \in 1..9, FdsHeld(f, i)
    PROVE  FdsHeld(f \ ClosedBy(i), i + 1)
<1>1. i..9 = {i} \cup ((i + 1)..9)
    OBVIOUS
<1>2. f \subseteq (Std \cup {"stats epoll", "collector"}) \cup (ClosedBy(i) \cup UNION {ClosedBy(j) : j \in (i + 1)..9})
    BY <1>1 DEF FdsHeld
<1> HIDE DEF Std
<1> QED
    BY <1>2 DEF FdsHeld

(* The pid file is held until gf_post_run.                                 *)
LEMMA FileLess ==
    ASSUME NEW n, NEW i \in 1..9, i <= 8, FileHeld(n, i)
    PROVE  FileHeld(n, i + 1)
BY DEF FileHeld

(* From event_base_destroy on no connection is left.                       *)
LEMMA EndPlain ==
    ASSUME IInv, NEW i \in 1..9, i # 8, i >= 3, NEW n, n = Undo[i][1], At(n), Rank(n) = 0,
           Succeeds, Others, Alike(cs', cs), stopping' = stopping, interrupted' = interrupted,
           max_ncconn' = max_ncconn,
           BlocksHeld(heap', i + 1), FdsHeld(fds', i + 1), FileHeld(nci', i + 1),
           ~stopping => /\ i + 1 <= 6 => Block("conf") \in heap'
                        /\ i + 1 <= 5 => Block("pools") \in heap'
                        /\ i + 1 <= 4 => Block("stats") \in heap'
    PROVE  IInv'
<1>1. /\ \A c \in Conn : /\ cs.conn[c].owner[1] = "proxy" => i <= 1
                         /\ cs.conn[c].owner[1] = "server" => i <= 2
      /\ ~stopping => HeldBy(heap, fds, cs, nci, i)
    BY EndFinds
<1>2. Structures
    BY AlikeStructures
<1>3. \A c \in Conn : /\ cs'.conn[c].owner[1] = "proxy" => i + 1 <= 1
                      /\ cs'.conn[c].owner[1] = "server" => i + 1 <= 2
    BY <1>1 DEF Alike
<1>4. ASSUME ~stopping PROVE OwnersHeld(cs', i + 1) /\ StructsHeld(cs', i + 1)
  <2>1. OwnersHeld(cs', i) /\ StructsHeld(cs', i)
      BY <1>1, <1>4, AlikeKeeps DEF HeldBy
  <2>2. OwnersHeld(cs', i + 1)
      BY <1>3, <2>1 DEF OwnersHeld
  <2>3. StructsHeld(cs', i + 1)
      BY <2>1 DEF StructsHeld
  <2> QED BY <2>2, <2>3
<1> QED
    BY <1>2, <1>3, <1>4, EndKeeps

(* What comes of a step that puts connections.                             *)
LEMMA EndPuts ==
    ASSUME IInv, NEW i \in 1..9, i <= 7, NEW n, n = Undo[i][1], At(n), Rank(n) = 0,
           NEW B, NEW S, Puts(cs', Uses(cs, B), S), ~stopping => B \subseteq heap,
           stopping' = stopping, max_ncconn' = max_ncconn
    PROVE  /\ Structures /\ Shrinks(cs', cs)
           /\ ~stopping => OwnersHeld(cs', i) /\ StructsHeld(cs', i + 1)
           /\ \A c \in Conn : c \in S => cs'.conn[c].owner = Nobody
<1> DEFINE u == Uses(cs, B)
<1>1. /\ Structs(cs) /\ Limits(cs) /\ TypeOK
      /\ ~stopping => Clean(cs) /\ HeldBy(heap, fds, cs, nci, i)
    BY EndFinds
<1>2. /\ Structs(u) /\ u.conn = cs.conn /\ u.broken = cs.broken
      /\ u.touched = cs.touched \cup (B \ heap)
    BY <1>1, UsesIs
<1>3. Puts(cs', u, S)
    OBVIOUS
<1> HIDE DEF u
<1>4. /\ Shrinks(cs', u)
      /\ \A k : k <= 8 /\ StructsHeld(u, k) => StructsHeld(cs', k)
      /\ \A k \in Int : k <= 8 /\ StructsHeld(u, k) => cs'.touched = u.touched
      /\ \A c \in Conn : c \in S => cs'.conn[c].owner = Nobody
    BY <1>3, PutsShrinks
<1>5. Shrinks(cs', cs)
    BY <1>2, <1>4 DEF Shrinks
<1>6. /\ Limits(cs') /\ Cardinality(Clients(cs')) <= Cardinality(Clients(cs))
      /\ \A k : OwnersHeld(cs, k) => OwnersHeld(cs', k)
      /\ Cardinality(Clients(cs)) \in Nat /\ Cardinality(Clients(cs')) \in Nat
    BY <1>1, <1>5, ShrinksKeeps
<1>7. Cardinality(Clients(cs')) <= max_ncconn'
  <2>1. Cardinality(Clients(cs)) <= max_ncconn /\ max_ncconn \in 0..(WORD - 1)
      BY <1>1 DEF IInv, TypeOK
  <2> QED BY <1>6, <2>1
<1>8. Structs(cs') /\ cs'.broken \subseteq u.broken \cup {"conn_put: sd < 0"}
    BY <1>3 DEF Puts
<1>9. ASSUME ~stopping PROVE Clean(cs') /\ OwnersHeld(cs', i) /\ StructsHeld(cs', i + 1)
  <2>1. StructsHeld(cs, i) /\ OwnersHeld(cs, i) /\ Clean(cs)
      BY <1>1, <1>9 DEF HeldBy
  <2>2. StructsHeld(u, i)
      BY <1>2, <2>1 DEF StructsHeld
  <2>3. i \in Int /\ i <= 8
      OBVIOUS
  <2>4. cs'.touched = u.touched /\ StructsHeld(cs', i)
      BY <1>4, <2>2, <2>3
  <2>5. cs'.touched = cs.touched
      BY <1>2, <1>9, <2>4
  <2>6. Clean(cs')
      BY <1>2, <1>8, <2>1, <2>5 DEF Clean, Known
  <2>7. StructsHeld(cs', i + 1)
      BY <2>4 DEF StructsHeld
  <2> QED BY <1>6, <2>1, <2>6, <2>7
<1>10. Structures
    BY <1>6, <1>7, <1>8, <1>9 DEF Structures
<1> QED
    BY <1>4, <1>5, <1>9, <1>10

(* The calls of the end have no rank.                                      *)
LEMMA RanksOfEnd ==
    /\ Rank("proxy_deinit") = 0 /\ Rank("server_pool_disconnect") = 0
    /\ Rank("event_base_destroy") = 0 /\ Rank("stats_destroy") = 0
    /\ Rank("server_pool_deinit") = 0 /\ Rank("conf_destroy") = 0
    /\ Rank("gf_free") = 0 /\ Rank("conn_deinit") = 0 /\ Rank("gf_post_run") = 0
BY NotOfStart

(* Blocks and descriptors of a step that frees what it has to.             *)
LEMMA EndFrees ==
    ASSUME IInv, NEW i \in 1..9, i # 8, i <= 7, NEW n, n = Undo[i][1], At(n), Rank(n) = 0,
           heap' = heap \ FreedBy(i), fds' = fds \ ClosedBy(i), nci' = nci
    PROVE  /\ BlocksHeld(heap', i + 1) /\ FdsHeld(fds', i + 1) /\ FileHeld(nci', i + 1)
           /\ ~stopping => /\ i + 1 <= 6 => Block("conf") \in heap'
                           /\ i + 1 <= 5 => Block("pools") \in heap'
                           /\ i + 1 <= 4 => Block("stats") \in heap'
<1>1. /\ BlocksHeld(heap, i) /\ FdsHeld(fds, i) /\ FileHeld(nci, i)
      /\ ~stopping => /\ i <= 6 => Block("conf") \in heap
                      /\ i <= 5 => Block("pools") \in heap
                      /\ i <= 4 => Block("stats") \in heap
    BY EndFinds
<1>2. BlocksHeld(heap', i + 1) /\ FdsHeld(fds', i + 1) /\ FileHeld(nci', i + 1)
  <2>1. BlocksHeld(heap \ FreedBy(i), i + 1)
      BY <1>1, BlocksLess
  <2>2. FdsHeld(fds \ ClosedBy(i), i + 1)
      BY <1>1, FdsLess
  <2>3. i <= 8
      OBVIOUS
  <2>4. FileHeld(nci, i + 1)
      BY <1>1, <2>3, FileLess
  <2> QED BY <2>1, <2>2, <2>4
<1>3. /\ i <= 5 => Block("conf") \notin FreedBy(i)
      /\ i <= 4 => Block("pools") \notin FreedBy(i)
      /\ i <= 3 => Block("stats") \notin FreedBy(i)
    BY DEF FreedBy, Block, Map
<1> QED
    BY <1>1, <1>2, <1>3

(* What each step frees and closes.                                        *)
LEMMA FreedAndClosed ==
    /\ FreedBy(1) = {} /\ FreedBy(2) = {}
    /\ FreedBy(3) = {Block("evb")}
    /\ FreedBy(4) = {Block("stats"), Block("buf")} \cup (Map \X Pool)
    /\ FreedBy(5) = {Block("pools")} \cup ({"pool", "servers", "continuum"} \X Pool)
    /\ FreedBy(6) = {Block("conf")} /\ FreedBy(7) = {Block("ctx")} /\ FreedBy(9) = {}
    /\ ClosedBy(1) = {} /\ ClosedBy(2) = {} /\ ClosedBy(3) = {"epoll"} /\ ClosedBy(4) = {"stats"}
    /\ ClosedBy(5) = {} /\ ClosedBy(6) = {} /\ ClosedBy(7) = {} /\ ClosedBy(9) = {"log"}
BY DEF FreedBy, ClosedBy

(* proxy_deinit keeps the invariant: no listener is left, and the pools    *)
(* and the configuration it reads are there.                               *)
LEMMA ProxyDeinitKeeps == IInv /\ proxy_deinit => IInv'
<1> SUFFICES ASSUME IInv, proxy_deinit PROVE IInv'
    OBVIOUS
<1> DEFINE n == "proxy_deinit"
           B == {Block("pools"), Block("conf")}
           S == UNION {OwnedBy(cs, <<"proxy", p, 0>>) : p \in Pool}
           i == 1
<1>1. /\ At(n) /\ Succeeds /\ cs' = Closed(Uses(cs, B), S)
      /\ UNCHANGED <<fds, env, nci, thread>> /\ fds' = fds /\ heap' = heap /\ nci' = nci
      /\ stopping' = stopping /\ interrupted' = interrupted /\ max_ncconn' = max_ncconn
    BY DEF proxy_deinit, env
<1>2. /\ i \in 1..9 /\ i # 8 /\ i <= 7 /\ n = Undo[i][1] /\ Rank(n) = 0
      /\ i + 1 <= 2 /\ i <= 5 /\ FreedBy(i) = {} /\ ClosedBy(i) = {} /\ ~(i <= 0)
    BY UndoNames, RanksOfEnd, FreedAndClosed
<1> HIDE DEF i, n, B
<1>3. /\ Structs(cs) /\ \A c \in Conn : cs.conn[c].owner[1] = "server" => i <= 2
      /\ ~stopping => /\ HeldBy(heap, fds, cs, nci, i)
                      /\ i <= 6 => Block("conf") \in heap
                      /\ i <= 5 => Block("pools") \in heap
    BY <1>1, <1>2, EndFinds
<1>4. Structs(Uses(cs, B)) /\ Uses(cs, B).conn = cs.conn
    BY <1>3, UsesIs
<1>5. S \in SUBSET Conn /\ \A c \in S : cs.conn[c].st = "used"
  <2> SUFFICES ASSUME NEW p \in Pool, NEW c \in OwnedBy(cs, <<"proxy", p, 0>>)
               PROVE  c \in Conn /\ cs.conn[c].st = "used"
      OBVIOUS
  <2>1. <<"proxy", p, 0>> # Nobody
      BY DEF Nobody
  <2> QED BY <1>3, <2>1, OwnedAreUsed
<1> HIDE DEF S
<1>6. Puts(cs', Uses(cs, B), S)
    BY <1>1, <1>4, <1>5, ClosedIs
<1>7. ~stopping => B \subseteq heap
    BY <1>2, <1>3 DEF B
<1>8. /\ Structures /\ Shrinks(cs', cs)
      /\ ~stopping => OwnersHeld(cs', i) /\ StructsHeld(cs', i + 1)
      /\ \A c \in Conn : c \in S => cs'.conn[c].owner = Nobody
    BY <1>1, <1>2, <1>6, <1>7, EndPuts
<1>9. Others
    BY <1>1, Faults, SameOthers DEF Succeeds
<1>10. /\ BlocksHeld(heap', i + 1) /\ FdsHeld(fds', i + 1) /\ FileHeld(nci', i + 1)
       /\ ~stopping => /\ i + 1 <= 6 => Block("conf") \in heap'
                       /\ i + 1 <= 5 => Block("pools") \in heap'
                       /\ i + 1 <= 4 => Block("stats") \in heap'
  <2>1. heap' = heap \ FreedBy(i) /\ fds' = fds \ ClosedBy(i)
      BY <1>1, <1>2
  <2> QED BY <1>1, <1>2, <2>1, EndFrees
<1>11. \A c \in Conn : cs'.conn[c].owner[1] # "proxy"
  <2> SUFFICES ASSUME NEW c \in Conn, cs'.conn[c].owner[1] = "proxy" PROVE FALSE
      OBVIOUS
  <2>1. cs'.conn[c].owner # Nobody
      BY DEF Nobody
  <2>2. cs.conn[c].owner[1] = "proxy" /\ cs.conn[c].owner \in Owner
    <3>1. cs.conn[c].owner = cs'.conn[c].owner
        BY <1>8, <2>1 DEF Shrinks
    <3>2. cs.conn[c].owner \in Owner
        BY <1>3 DEF Structs
    <3> QED BY <3>1, <3>2
  <2>3. \E p \in Pool : cs.conn[c].owner = <<"proxy", p, 0>>
      BY <2>2, OwnersAre
  <2>4. c \in S
      BY <2>3 DEF S, OwnedBy
  <2> QED BY <1>8, <2>1, <2>4
<1>12. \A c \in Conn : /\ cs'.conn[c].owner[1] = "proxy" => i + 1 <= 1
                       /\ cs'.conn[c].owner[1] = "server" => i + 1 <= 2
    BY <1>2, <1>11
<1>13. ~stopping => OwnersHeld(cs', i + 1)
    BY <1>2, <1>8, <1>12 DEF OwnersHeld
<1> QED
    BY <1>1, <1>2, <1>8, <1>9, <1>10, <1>12, <1>13, EndKeeps

(* server_pool_disconnect keeps it: no server is left, and the pools, the  *)
(* statistics and the configuration it reads are there.                    *)
LEMMA DisconnectKeeps == IInv /\ server_pool_disconnect => IInv'
<1> SUFFICES ASSUME IInv, server_pool_disconnect PROVE IInv'
    OBVIOUS
<1> DEFINE n == "server_pool_disconnect"
           B == {Block("pools"), Block("stats"), Block("conf")}
           S == {c \in Conn : cs.conn[c].owner[1] = "server"}
           i == 2
<1>1. /\ At(n) /\ Succeeds /\ cs' = server_close(Uses(cs, B), S)
      /\ UNCHANGED <<fds, env, nci, thread>> /\ fds' = fds /\ heap' = heap /\ nci' = nci
      /\ stopping' = stopping /\ interrupted' = interrupted /\ max_ncconn' = max_ncconn
    BY DEF server_pool_disconnect, env
<1>2. /\ i \in 1..9 /\ i # 8 /\ i <= 7 /\ n = Undo[i][1] /\ Rank(n) = 0
      /\ i <= 4 /\ FreedBy(i) = {} /\ ClosedBy(i) = {} /\ ~(i <= 1)
    BY UndoNames, RanksOfEnd, FreedAndClosed
<1> HIDE DEF i, n, B
<1>3. /\ Structs(cs) /\ \A c \in Conn : cs.conn[c].owner[1] = "proxy" => i <= 1
      /\ ~stopping => /\ HeldBy(heap, fds, cs, nci, i)
                      /\ i <= 6 => Block("conf") \in heap
                      /\ i <= 5 => Block("pools") \in heap
                      /\ i <= 4 => Block("stats") \in heap
    BY <1>1, <1>2, EndFinds
<1>4. Structs(Uses(cs, B)) /\ Uses(cs, B).conn = cs.conn
    BY <1>3, UsesIs
<1>5. S \in SUBSET Conn /\ \A c \in S : cs.conn[c].st = "used"
  <2> SUFFICES ASSUME NEW c \in Conn, cs.conn[c].owner[1] = "server"
               PROVE  cs.conn[c].st = "used"
      OBVIOUS
  <2>1. cs.conn[c].owner # Nobody
      BY DEF Nobody
  <2> QED BY <1>3, <2>1 DEF Structs
<1> HIDE DEF S
<1>6. Puts(cs', Uses(cs, B), S)
    BY <1>1, <1>4, <1>5, ServerCloseIs
<1>7. ~stopping => B \subseteq heap
    BY <1>2, <1>3 DEF B
<1>8. /\ Structures /\ Shrinks(cs', cs)
      /\ ~stopping => OwnersHeld(cs', i) /\ StructsHeld(cs', i + 1)
      /\ \A c \in Conn : c \in S => cs'.conn[c].owner = Nobody
    BY <1>1, <1>2, <1>6, <1>7, EndPuts
<1>9. Others
    BY <1>1, Faults, SameOthers DEF Succeeds
<1>10. /\ BlocksHeld(heap', i + 1) /\ FdsHeld(fds', i + 1) /\ FileHeld(nci', i + 1)
       /\ ~stopping => /\ i + 1 <= 6 => Block("conf") \in heap'
                       /\ i + 1 <= 5 => Block("pools") \in heap'
                       /\ i + 1 <= 4 => Block("stats") \in heap'
  <2>1. heap' = heap \ FreedBy(i) /\ fds' = fds \ ClosedBy(i)
      BY <1>1, <1>2
  <2> QED BY <1>1, <1>2, <2>1, EndFrees
<1>11. \A c \in Conn : cs'.conn[c].owner[1] # "server" /\ cs'.conn[c].owner[1] # "proxy"
  <2> SUFFICES ASSUME NEW c \in Conn, cs'.conn[c].owner[1] \in {"server", "proxy"} PROVE FALSE
      OBVIOUS
  <2>1. cs'.conn[c].owner # Nobody
      BY DEF Nobody
  <2>2. cs.conn[c].owner[1] \in {"server", "proxy"}
    <3>1. cs.conn[c].owner = cs'.conn[c].owner
        BY <1>8, <2>1 DEF Shrinks
    <3> QED BY <3>1
  <2>3. cs.conn[c].owner[1] = "server"
      BY <1>2, <1>3, <2>2
  <2>4. c \in S
      BY <2>3 DEF S
  <2> QED BY <1>8, <2>1, <2>4
<1>12. \A c \in Conn : /\ cs'.conn[c].owner[1] = "proxy" => i + 1 <= 1
                       /\ cs'.conn[c].owner[1] = "server" => i + 1 <= 2
    BY <1>11
<1>13. ~stopping => OwnersHeld(cs', i + 1)
    BY <1>2, <1>8, <1>12 DEF OwnersHeld
<1> QED
    BY <1>1, <1>2, <1>8, <1>9, <1>10, <1>12, <1>13, EndKeeps

(* A step that frees blocks and closes descriptors, and nothing else.      *)
LEMMA FreesKeeps ==
    ASSUME IInv, NEW i \in 1..9, i # 8, i <= 7, i >= 3, NEW n, n = Undo[i][1], At(n), Rank(n) = 0,
           Succeeds, Alike(cs', cs), UNCHANGED <<env, nci, thread, stopping, interrupted>>,
           heap' = heap \ FreedBy(i), fds' = fds \ ClosedBy(i)
    PROVE  IInv'
<1>1. TypeOK /\ max_ncconn' = max_ncconn /\ nci' = nci
    BY EndFinds DEF env
<1>2. Others
  <2>1. nfault' \in 0..MaxFault
      BY Faults DEF Succeeds
  <2>2. fds' \subseteq AllFds
      BY <1>1 DEF TypeOK, AllFds
  <2> QED BY <1>1, <2>1, <2>2 DEF Others, TypeOK, env
<1>3. /\ BlocksHeld(heap', i + 1) /\ FdsHeld(fds', i + 1) /\ FileHeld(nci', i + 1)
      /\ ~stopping => /\ i + 1 <= 6 => Block("conf") \in heap'
                      /\ i + 1 <= 5 => Block("pools") \in heap'
                      /\ i + 1 <= 4 => Block("stats") \in heap'
    BY <1>1, EndFrees
<1> QED
    BY <1>1, <1>2, <1>3, EndPlain

(* event_base_destroy keeps it.                                            *)
LEMMA BaseDestroyKeeps == IInv /\ event_base_destroy => IInv'
<1> SUFFICES ASSUME IInv, event_base_destroy PROVE IInv'
    OBVIOUS
<1> DEFINE n == "event_base_destroy"
           i == 3
<1>1. /\ i \in 1..9 /\ i # 8 /\ i <= 7 /\ i >= 3 /\ n = Undo[i][1] /\ Rank(n) = 0
    BY UndoNames, RanksOfEnd
<1>2. heap' = heap \ FreedBy(i) /\ fds' = fds \ ClosedBy(i)
    BY FreedAndClosed DEF event_base_destroy
<1>3. At(n) /\ Succeeds /\ UNCHANGED <<cs, env, nci, thread, stopping, interrupted>>
    BY DEF event_base_destroy
<1>4. Alike(cs', cs)
    BY <1>3, SameAlike
<1> HIDE DEF i, n
<1> QED
    BY <1>1, <1>2, <1>3, <1>4, FreesKeeps

(* stats_destroy keeps it.                                                 *)
LEMMA StatsDestroyKeeps == IInv /\ stats_destroy => IInv'
<1> SUFFICES ASSUME IInv, stats_destroy PROVE IInv'
    OBVIOUS
<1> DEFINE n == "stats_destroy"
           i == 4
<1>1. /\ i \in 1..9 /\ i # 8 /\ i <= 7 /\ i >= 3 /\ n = Undo[i][1] /\ Rank(n) = 0
    BY UndoNames, RanksOfEnd
<1>2. heap' = heap \ FreedBy(i) /\ fds' = fds \ ClosedBy(i)
    BY FreedAndClosed DEF stats_destroy
<1>3. At(n) /\ Succeeds /\ UNCHANGED <<env, nci, thread, stopping, interrupted>>
    BY DEF stats_destroy
<1>4. Alike(cs', cs)
  <2> DEFINE B == {b \in {"array_deinit: nelem == 0"} : heap \cap (Map \X Pool) # {}}
  <2>1. B \in SUBSET {"array_deinit: nelem == 0"}
      OBVIOUS
  <2>2. cs' = [cs EXCEPT !.broken = cs.broken \cup B]
      BY DEF stats_destroy
  <2>3. Structs(cs)
      BY DEF IInv
  <2> HIDE DEF B
  <2> QED BY <2>1, <2>2, <2>3, UnmapIs
<1> HIDE DEF i, n
<1> QED
    BY <1>1, <1>2, <1>3, <1>4, FreesKeeps

(* conf_destroy keeps it.                                                  *)
LEMMA ConfDestroyKeeps == IInv /\ conf_destroy => IInv'
<1> SUFFICES ASSUME IInv, conf_destroy PROVE IInv'
    OBVIOUS
<1> DEFINE n == "conf_destroy"
           i == 6
<1>1. /\ i \in 1..9 /\ i # 8 /\ i <= 7 /\ i >= 3 /\ n = Undo[i][1] /\ Rank(n) = 0
    BY UndoNames, RanksOfEnd
<1>2. heap' = heap \ FreedBy(i) /\ fds' = fds \ ClosedBy(i)
    BY FreedAndClosed DEF conf_destroy
<1>3. At(n) /\ Succeeds /\ UNCHANGED <<cs, env, nci, thread, stopping, interrupted>>
    BY DEF conf_destroy
<1>4. Alike(cs', cs)
    BY <1>3, SameAlike
<1> HIDE DEF i, n
<1> QED
    BY <1>1, <1>2, <1>3, <1>4, FreesKeeps

(* Freeing the context keeps it.                                           *)
LEMMA FreeKeeps == IInv /\ gf_free => IInv'
<1> SUFFICES ASSUME IInv, gf_free PROVE IInv'
    OBVIOUS
<1> DEFINE n == "gf_free"
           i == 7
<1>1. /\ i \in 1..9 /\ i # 8 /\ i <= 7 /\ i >= 3 /\ n = Undo[i][1] /\ Rank(n) = 0
    BY UndoNames, RanksOfEnd
<1>2. heap' = heap \ FreedBy(i) /\ fds' = fds \ ClosedBy(i)
    BY FreedAndClosed DEF gf_free
<1>3. At(n) /\ Succeeds /\ UNCHANGED <<cs, env, nci, thread, stopping, interrupted>>
    BY DEF gf_free
<1>4. Alike(cs', cs)
    BY <1>3, SameAlike
<1> HIDE DEF i, n
<1> QED
    BY <1>1, <1>2, <1>3, <1>4, FreesKeeps

(* server_pool_deinit keeps it: when a failure unwinds no assertion of it  *)
(* fails.                                                                  *)
LEMMA PoolDeinitKeeps == IInv /\ server_pool_deinit => IInv'
<1> SUFFICES ASSUME IInv, server_pool_deinit PROVE IInv'
    OBVIOUS
<1> DEFINE n == "server_pool_deinit"
           i == 5
           u == Uses(cs, {Block("conf")})
           held(k) == {c \in Conn : cs.conn[c].owner[1] = k}
           fails == {a \in {<<"proxy", "p_conn == NULL">>,
                            <<"client", "nc_conn_q == 0">>,
                            <<"server", "ns_conn_q == 0">>} : held(a[1]) # {}}
           F == {a[2] : a \in fails}
<1>1. /\ At(n) /\ Succeeds /\ cs' = [u EXCEPT !.broken = @ \cup F]
      /\ UNCHANGED <<fds, env, nci, thread>> /\ fds' = fds /\ nci' = nci
      /\ nfd' = nfd /\ max_nsconn' = max_nsconn /\ thread' = thread
      /\ heap' = heap \ ({Block("pools")} \cup ({"pool", "servers", "continuum"} \X Pool))
      /\ stopping' = stopping /\ interrupted' = interrupted /\ max_ncconn' = max_ncconn
    BY DEF server_pool_deinit, env
<1>2. /\ i \in 1..9 /\ i # 8 /\ i <= 7 /\ n = Undo[i][1] /\ Rank(n) = 0
      /\ i <= 6 /\ ~(i <= 2) /\ ~(i <= 1) /\ ~(i <= 0)
      /\ ~(i + 1 <= 2) /\ ~(i + 1 <= 1) /\ ~(i + 1 <= 0)
      /\ FreedBy(i) = {Block("pools")} \cup ({"pool", "servers", "continuum"} \X Pool)
      /\ ClosedBy(i) = {}
    BY UndoNames, RanksOfEnd, FreedAndClosed
<1> HIDE DEF i, n
<1>3. /\ Structs(cs) /\ Limits(cs) /\ TypeOK
      /\ \A c \in Conn : /\ cs.conn[c].owner[1] = "proxy" => i <= 1
                         /\ cs.conn[c].owner[1] = "server" => i <= 2
      /\ ~stopping => /\ HeldBy(heap, fds, cs, nci, i) /\ Clean(cs)
                      /\ i <= 6 => Block("conf") \in heap
    BY <1>1, <1>2, EndFinds
<1>4. /\ Structs(u) /\ u.conn = cs.conn /\ u.freeq = cs.freeq /\ u.broken = cs.broken
      /\ u.touched = cs.touched \cup ({Block("conf")} \ heap)
    BY <1>3, UsesIs
<1>5. ~stopping => F = {}
  <2> SUFFICES ASSUME ~stopping PROVE F = {}
      OBVIOUS
  <2>1. OwnersHeld(cs, i)
      BY <1>3 DEF HeldBy
  <2>2. held("proxy") = {} /\ held("client") = {} /\ held("server") = {}
      BY <1>2, <2>1 DEF OwnersHeld
  <2>3. \A a \in {<<"proxy", "p_conn == NULL">>, <<"client", "nc_conn_q == 0">>,
                  <<"server", "ns_conn_q == 0">>} : a[1] \in {"proxy", "client", "server"}
    <3>1. /\ <<"proxy", "p_conn == NULL">>[1] = "proxy"
          /\ <<"client", "nc_conn_q == 0">>[1] = "client"
          /\ <<"server", "ns_conn_q == 0">>[1] = "server"
        OBVIOUS
    <3> QED BY ONLY <3>1, Zenon
  <2>4. \A k \in {"proxy", "client", "server"} : held(k) = {}
      BY <2>2
  <2>5. fails = {}
    <3> HIDE DEF held
    <3> QED BY <2>3, <2>4
  <2> QED BY <2>5
<1> HIDE DEF u, F
<1>6. /\ cs'.conn = u.conn /\ cs'.freeq = u.freeq /\ cs'.nleak = u.nleak
      /\ cs'.broken = u.broken \cup F /\ cs'.touched = u.touched /\ Structs(cs')
  <2>1. u \in [conn : {u.conn}, freeq : {u.freeq}, nleak : {u.nleak},
                broken : {u.broken}, touched : {u.touched}]
      BY <1>4 DEF Structs
  <2>2. cs' \in [conn : {u.conn}, freeq : {u.freeq}, nleak : {u.nleak},
                  broken : {u.broken \cup F}, touched : {u.touched}]
      BY <1>1, <2>1
  <2>3. /\ cs'.conn = u.conn /\ cs'.freeq = u.freeq /\ cs'.nleak = u.nleak
        /\ cs'.broken = u.broken \cup F /\ cs'.touched = u.touched
        /\ cs' \in [conn : {cs'.conn}, freeq : {cs'.freeq}, nleak : {cs'.nleak},
                    broken : {cs'.broken}, touched : {cs'.touched}]
      BY <2>2
  <2> QED BY <1>4, <2>3 DEF Structs
<1>7. cs'.conn = cs.conn
    BY <1>4, <1>6
<1>8. Structures
  <2>1. Limits(cs') /\ Clients(cs') = Clients(cs)
      BY <1>3, <1>7 DEF Limits, OwnedBy, Clients
  <2>2. Cardinality(Clients(cs)) <= max_ncconn
      BY DEF IInv
  <2>3. ~stopping => Clean(cs')
      BY <1>2, <1>3, <1>4, <1>5, <1>6 DEF Clean
  <2> QED BY <1>1, <1>6, <2>1, <2>2, <2>3 DEF Structures
<1>9. Others
    BY <1>1, Faults, SameOthers DEF Succeeds
<1>10. /\ BlocksHeld(heap', i + 1) /\ FdsHeld(fds', i + 1) /\ FileHeld(nci', i + 1)
       /\ ~stopping => /\ i + 1 <= 6 => Block("conf") \in heap'
                       /\ i + 1 <= 5 => Block("pools") \in heap'
                       /\ i + 1 <= 4 => Block("stats") \in heap'
  <2>1. heap' = heap \ FreedBy(i) /\ fds' = fds \ ClosedBy(i)
      BY <1>1, <1>2
  <2> QED BY <1>1, <1>2, <2>1, EndFrees
<1>11. \A c \in Conn : /\ cs'.conn[c].owner[1] = "proxy" => i + 1 <= 1
                       /\ cs'.conn[c].owner[1] = "server" => i + 1 <= 2
    BY <1>2, <1>3, <1>7
<1>12. ASSUME ~stopping PROVE OwnersHeld(cs', i + 1) /\ StructsHeld(cs', i + 1)
  <2>1. OwnersHeld(cs, i) /\ StructsHeld(cs, i)
      BY <1>3, <1>12 DEF HeldBy
  <2>2. OwnersHeld(cs', i + 1)
      BY <1>2, <1>7, <1>11, <2>1 DEF OwnersHeld
  <2>3. StructsHeld(cs', i + 1)
      BY <1>2, <1>7, <2>1 DEF StructsHeld
  <2> QED BY <2>2, <2>3
<1> QED
    BY <1>1, <1>2, <1>8, <1>9, <1>10, <1>11, <1>12, EndKeeps

(* gf_post_run keeps it: the file the process made is removed.             *)
LEMMA PostRunKeeps == IInv /\ gf_post_run => IInv'
<1> SUFFICES ASSUME IInv, gf_post_run PROVE IInv'
    OBVIOUS
<1> DEFINE n == "gf_post_run"
           i == 9
           f == [nci EXCEPT !.file = @ /\ ~nci.pidfile]
<1>1. /\ At(n) /\ Succeeds /\ nci' = f /\ fds' = fds \ {"log"}
      /\ nfd' = nfd /\ max_nsconn' = max_nsconn /\ thread' = thread
      /\ heap' = heap /\ cs' = cs
      /\ stopping' = stopping /\ interrupted' = interrupted /\ max_ncconn' = max_ncconn
    BY DEF gf_post_run, env
<1>2. /\ i \in 1..9 /\ i # 8 /\ i >= 3 /\ n = Undo[i][1] /\ Rank(n) = 0
      /\ FreedBy(i) = {} /\ ClosedBy(i) = {"log"}
      /\ ~(i + 1 <= 6) /\ ~(i + 1 <= 5) /\ ~(i + 1 <= 4)
    BY UndoNames, RanksOfEnd, FreedAndClosed
<1> HIDE DEF i, n
<1>3. TypeOK /\ BlocksHeld(heap, i) /\ FdsHeld(fds, i) /\ FileHeld(nci, i)
    BY <1>1, <1>2, EndFinds
<1>4. nci \in [wanted : BOOLEAN, pidfile : BOOLEAN, file : BOOLEAN]
    BY <1>3 DEF TypeOK
<1>5. f \in [wanted : BOOLEAN, pidfile : BOOLEAN, file : BOOLEAN] /\ ~f.file
    BY <1>3, <1>4 DEF FileHeld
<1> HIDE DEF f
<1>6. Others
  <2>1. nfault' \in 0..MaxFault
      BY <1>1, Faults DEF Succeeds
  <2>2. fds' \subseteq AllFds
      BY <1>1, <1>3 DEF TypeOK, AllFds
  <2> QED BY <1>1, <1>3, <1>5, <2>1, <2>2 DEF Others, TypeOK
<1>7. BlocksHeld(heap', i + 1) /\ FdsHeld(fds', i + 1) /\ FileHeld(nci', i + 1)
  <2>1. BlocksHeld(heap \ FreedBy(i), i + 1)
      BY <1>2, <1>3, BlocksLess
  <2>2. FdsHeld(fds \ ClosedBy(i), i + 1)
      BY <1>2, <1>3, FdsLess
  <2>3. FileHeld(nci', i + 1)
      BY <1>1, <1>5 DEF FileHeld
  <2>4. heap' = heap \ FreedBy(i) /\ fds' = fds \ ClosedBy(i)
      BY <1>1, <1>2
  <2> QED BY <2>1, <2>2, <2>3, <2>4
<1>8. Alike(cs', cs)
    BY <1>1, SameAlike
<1> QED
    BY <1>1, <1>2, <1>6, <1>7, <1>8, EndPlain

(* What conn_deinit leaves of the structures.                              *)
LEMMA DeinitIs ==
    ASSUME Structs(cs),
           cs' = [cs EXCEPT !.conn = [c \in Conn |->
                     IF c \in ToSet(cs.freeq) THEN [cs.conn[c] EXCEPT !.st = "freed"]
                     ELSE cs.conn[c]]]
    PROVE  /\ Structs(cs') /\ cs'.broken = cs.broken /\ cs'.touched = cs.touched
           /\ \A c \in Conn : /\ cs'.conn[c].owner = cs.conn[c].owner
                              /\ cs'.conn[c].st = IF cs.conn[c].st = "free" THEN "freed"
                                                  ELSE cs.conn[c].st
<1> DEFINE f == [c \in Conn |->
                     IF c \in ToSet(cs.freeq) THEN [cs.conn[c] EXCEPT !.st = "freed"]
                     ELSE cs.conn[c]]
<1>1. /\ cs \in [conn : {cs.conn}, freeq : {cs.freeq}, nleak : {cs.nleak},
                 broken : {cs.broken}, touched : {cs.touched}]
      /\ cs.conn \in [Conn -> Struct]
      /\ cs.freeq \in Seq(Conn) /\ cs.nleak \in Nat
      /\ \A c \in Conn : /\ cs.conn[c].st = "used" <=> cs.conn[c].owner # Nobody
                         /\ cs.conn[c].open => cs.conn[c].st = "used"
      /\ IsInjective(cs.freeq)
      /\ ToSet(cs.freeq) = {c \in Conn : cs.conn[c].st \in {"free", "freed"}}
    BY DEF Structs, Struct
<1>2. \A c \in Conn : /\ f[c] \in Struct /\ f[c].owner = cs.conn[c].owner
                      /\ f[c].open <=> cs.conn[c].open
                      /\ f[c].st = IF cs.conn[c].st = "free" THEN "freed" ELSE cs.conn[c].st
  <2> SUFFICES ASSUME NEW c \in Conn
               PROVE  /\ f[c] \in Struct /\ f[c].owner = cs.conn[c].owner
                      /\ f[c].open <=> cs.conn[c].open
                      /\ f[c].st = IF cs.conn[c].st = "free" THEN "freed" ELSE cs.conn[c].st
      OBVIOUS
  <2>1. cs.conn[c] \in Struct
      BY <1>1
  <2>2. c \in ToSet(cs.freeq) <=> cs.conn[c].st \in {"free", "freed"}
      BY <1>1
  <2>3. f[c] = IF c \in ToSet(cs.freeq) THEN [cs.conn[c] EXCEPT !.st = "freed"] ELSE cs.conn[c]
      OBVIOUS
  <2> HIDE DEF f
  <2>4. CASE c \in ToSet(cs.freeq)
      BY <2>1, <2>2, <2>3, <2>4 DEF Struct
  <2>5. CASE c \notin ToSet(cs.freeq)
      BY <2>1, <2>2, <2>3, <2>5 DEF Struct
  <2> QED BY <2>4, <2>5
<1>3. f \in [Conn -> Struct]
  <2>1. DOMAIN f = Conn /\ f = [c \in Conn |-> f[c]]
      OBVIOUS
  <2> HIDE DEF f
  <2> QED BY <1>2, <2>1
<1>4. cs' = [cs EXCEPT !.conn = f]
    OBVIOUS
<1> HIDE DEF f
<1>5. cs' \in [conn : {f}, freeq : {cs.freeq}, nleak : {cs.nleak},
               broken : {cs.broken}, touched : {cs.touched}]
    BY <1>1, <1>4
<1>6. /\ cs'.conn = f /\ cs'.freeq = cs.freeq /\ cs'.nleak = cs.nleak
      /\ cs'.broken = cs.broken /\ cs'.touched = cs.touched
      /\ cs' \in [conn : {cs'.conn}, freeq : {cs'.freeq}, nleak : {cs'.nleak},
                  broken : {cs'.broken}, touched : {cs'.touched}]
    BY <1>5
<1>7. ToSet(cs'.freeq) = {c \in Conn : cs'.conn[c].st \in {"free", "freed"}}
  <2>1. \A c \in Conn : f[c].st \in {"free", "freed"} <=> cs.conn[c].st \in {"free", "freed"}
      BY <1>2
  <2> QED BY <1>1, <1>6, <2>1
<1>8. \A c \in Conn : /\ cs'.conn[c].st = "used" <=> cs'.conn[c].owner # Nobody
                      /\ cs'.conn[c].open => cs'.conn[c].st = "used"
    BY <1>1, <1>2, <1>6
<1>9. Structs(cs')
  <2>1. /\ cs'.conn \in [Conn -> Struct] /\ cs'.freeq \in Seq(Conn) /\ cs'.nleak \in Nat
        /\ IsInjective(cs'.freeq)
      BY <1>1, <1>3, <1>6
  <2> QED BY <1>6, <1>7, <1>8, <2>1 DEF Structs, Struct
<1> QED
    BY <1>2, <1>6, <1>9

(* conn_deinit keeps it: every structure that is not in use is freed.      *)
LEMMA DeinitKeeps == IInv /\ conn_deinit => IInv'
<1> SUFFICES ASSUME IInv, conn_deinit PROVE IInv'
    OBVIOUS
<1> DEFINE n == "conn_deinit"
           e == 8
<1>1. /\ At(n) /\ Succeeds /\ todo' = Tail(todo)
      /\ UNCHANGED <<fds, env, nci, thread>>
      /\ fds' = fds /\ heap' = heap /\ nci' = nci
      /\ stopping' = stopping /\ interrupted' = interrupted /\ max_ncconn' = max_ncconn
      /\ cs' = [cs EXCEPT !.conn = [c \in Conn |->
                     IF c \in ToSet(cs.freeq) THEN [cs.conn[c] EXCEPT !.st = "freed"]
                     ELSE cs.conn[c]]]
    BY DEF conn_deinit, env, Succeeds
<1>2. Rank(n) = 0
    BY RanksOfEnd
<1>3. /\ ~interrupted /\ TypeOK /\ Structs(cs) /\ Limits(cs)
      /\ \/ /\ ~stopping /\ Clean(cs)
            /\ \E k \in 1..9 : /\ Undone(todo, heap, fds, cs, nci, k)
                               /\ Undo[k][1] = n /\ Tail(todo) = Rest(k + 1)
         \/ /\ stopping
            /\ \E k \in 1..9 : /\ Stopped(todo, heap, fds, cs, nci, k)
                               /\ core_stop[k][1] = n /\ Tail(todo) = StopRest(k + 1)
    BY <1>1, <1>2, AtEnd
<1>4. /\ Structs(cs') /\ cs'.broken = cs.broken /\ cs'.touched = cs.touched
      /\ \A c \in Conn : /\ cs'.conn[c].owner = cs.conn[c].owner
                         /\ cs'.conn[c].st = IF cs.conn[c].st = "free" THEN "freed"
                                             ELSE cs.conn[c].st
    BY <1>1, <1>3, DeinitIs
<1>5. Structures
  <2>1. Limits(cs') /\ Clients(cs') = Clients(cs)
      BY <1>3, <1>4 DEF Limits, OwnedBy, Clients
  <2>2. Cardinality(Clients(cs)) <= max_ncconn
      BY DEF IInv
  <2>3. ~stopping => Clean(cs')
      BY <1>3, <1>4 DEF Clean
  <2> QED BY <1>1, <1>4, <2>1, <2>2, <2>3 DEF Structures
<1>6. Others
    BY <1>1, Faults, SameOthers DEF Succeeds
<1>7. ASSUME ~stopping, NEW k \in 1..9, Undone(todo, heap, fds, cs, nci, k),
             Undo[k][1] = n, Tail(todo) = Rest(k + 1)
      PROVE  IInv'
  <2> DEFINE i == k + 1
  <2>1. k = 8 /\ i = 9
    <3>1. k = 8
        BY <1>7, WhichStep
    <3> QED BY <3>1
  <2>2. i \in 1..10 /\ ~(i <= 6) /\ ~(i <= 5) /\ ~(i <= 4) /\ ~(i <= 8) /\ i >= 9
        /\ k <= 8 /\ ~(k >= 9) /\ ~(k <= 0) /\ ~(k <= 1) /\ ~(k <= 2)
      BY <2>1
  <2>3. /\ BlocksHeld(heap, 8) /\ FdsHeld(fds, 8) /\ FileHeld(nci, 8)
    <3>1. HeldBy(heap, fds, cs, nci, k)
        BY <1>7 DEF Undone
    <3>2. BlocksHeld(heap, k) /\ FdsHeld(fds, k) /\ FileHeld(nci, k)
        BY <3>1 DEF HeldBy
    <3> QED BY <2>1, <3>2
  <2>4. BlocksHeld(heap, 9) /\ FdsHeld(fds, 9) /\ FileHeld(nci, 9)
      BY <2>3, HeldAfterDeinit
  <2>5. OwnersHeld(cs, k) /\ StructsHeld(cs, k)
      BY <1>7 DEF Undone, HeldBy
  <2>6. todo' = Rest(i)
      BY <1>1, <1>7
  <2>7. BlocksHeld(heap', i) /\ FdsHeld(fds', i) /\ FileHeld(nci', i)
      BY <1>1, <2>1, <2>4
  <2> HIDE DEF i
  <2>8. \A c \in Conn : cs.conn[c].owner = Nobody
    <3> SUFFICES ASSUME NEW c \in Conn PROVE cs.conn[c].owner = Nobody
        OBVIOUS
    <3>1. cs.conn[c].owner \in Owner
        BY <1>3 DEF Structs
    <3>2. cs.conn[c].owner[1] \notin {"proxy", "client", "server"}
        BY <2>2, <2>5 DEF OwnersHeld
    <3> QED BY <3>1, <3>2, OwnersAre
  <2>9. OwnersHeld(cs', i)
    <3>1. \A c \in Conn : cs'.conn[c].owner[1] = "nobody"
        BY <1>4, <2>8 DEF Nobody
    <3> QED BY <3>1 DEF OwnersHeld
  <2>10. StructsHeld(cs', i)
    <3>1. \A c \in Conn : cs'.conn[c].st \notin {"used", "free"}
      <4>1. \A c \in Conn : cs.conn[c].st # "used"
          BY <1>3, <2>8 DEF Structs
      <4> QED BY <1>4, <4>1
    <3> QED BY <2>2, <3>1 DEF StructsHeld
  <2>11. HeldBy(heap', fds', cs', nci', i)
      BY <2>7, <2>9, <2>10 DEF HeldBy
  <2> QED BY <1>1, <1>3, <1>5, <1>6, <1>7, <2>2, <2>6, <2>11, UndoneKeeps
<1>8. ASSUME stopping, NEW k \in 1..9, Stopped(todo, heap, fds, cs, nci, k),
             core_stop[k][1] = n, Tail(todo) = StopRest(k + 1)
      PROVE  IInv'
  <2> DEFINE i == k + 1
             j == 1
             z == 0
  <2>1. k = 1 /\ i = 2
    <3>1. k = 1
        BY <1>8, WhichStep
    <3> QED BY <3>1
  <2>2. i \in 1..10 /\ j = (IF i = 10 THEN 10 ELSE i - 1) /\ z = (IF k = 10 THEN 10 ELSE k - 1)
        /\ j <= 1 /\ j <= 2
      BY <2>1
  <2>3. /\ BlocksHeld(heap, 0) /\ FdsHeld(fds, 0) /\ FileHeld(nci, 0)
    <3> HIDE DEF z
    <3>1. BlocksHeld(heap, z) /\ FdsHeld(fds, z) /\ FileHeld(nci, z)
        BY <1>8, <2>2 DEF Stopped
    <3> QED BY <3>1 DEF z
  <2>4. BlocksHeld(heap, 1) /\ FdsHeld(fds, 1) /\ FileHeld(nci, 1)
      BY <2>3, HeldAfterDeinit
  <2>5. BlocksHeld(heap', j) /\ FdsHeld(fds', j) /\ FileHeld(nci', j)
      BY <1>1, <2>4
  <2>6. todo' = StopRest(i)
      BY <1>1, <1>8
  <2>7. \A c \in Conn : /\ cs'.conn[c].owner[1] = "proxy" => j <= 1
                        /\ cs'.conn[c].owner[1] = "server" => j <= 2
      BY <2>2
  <2> HIDE DEF i, j
  <2> QED BY <1>1, <1>3, <1>5, <1>6, <1>8, <2>2, <2>5, <2>6, <2>7, StoppedKeeps
<1> QED
    BY <1>3, <1>7, <1>8

(* SIGINT keeps it.                                                        *)
LEMMA SignalKeeps == IInv /\ signal_handler => IInv'
<1> SUFFICES ASSUME IInv, signal_handler PROVE IInv'
    OBVIOUS
<1>1. /\ todo' = <<>> /\ interrupted' = TRUE /\ stopping' = stopping /\ cs' = cs
      /\ UNCHANGED <<fds, env, nci, thread>> /\ nfault' = nfault /\ max_ncconn' = max_ncconn
    BY DEF signal_handler, env
<1>2. Ended'
    BY <1>1 DEF Ended
<1>3. Others
    BY <1>1, Faults, SameOthers
<1>4. Structures
    BY <1>1, SameStructures
<1>5. todo' \in Seq(Name \X Nat \X Nat)
    BY <1>1
<1>6. stopping' \in BOOLEAN /\ interrupted' \in BOOLEAN
    BY <1>1 DEF IInv, TypeOK
<1> QED
    BY <1>2, <1>3, <1>4, <1>5, <1>6, IInvNext DEF Others, Structures

(* The aggregator opens and closes descriptors of its own.                 *)
LEMMA AggregatorKeeps ==
    ASSUME IInv, todo # <<>>, UNCHANGED <<todo, heap, env, nci, stopping, interrupted, nfault>>,
           cs' = UsesStats(cs) \/ cs' = cs,
           fds' \ {"stats epoll", "collector"} = fds \ {"stats epoll", "collector"},
           thread' \in {"none", "new", "loop"}
    PROVE  IInv'
<1>1. /\ todo' = todo /\ heap' = heap /\ nfd' = nfd /\ nci' = nci
      /\ max_nsconn' = max_nsconn /\ max_ncconn' = max_ncconn
      /\ stopping' = stopping /\ interrupted' = interrupted /\ nfault' = nfault
    BY DEF env
<1>2. TypeOK
    BY DEF IInv
<1>3. Others
  <2>1. fds' \subseteq AllFds
      BY <1>2 DEF TypeOK, AllFds
  <2> QED BY <1>1, <1>2, <2>1 DEF Others, TypeOK
<1>s. /\ stopping' \in BOOLEAN /\ interrupted' \in BOOLEAN
      /\ ~stopping' => ~stopping
      /\ ~stopping => ~stopping'
      /\ stopping => stopping'
      /\ ~interrupted => ~interrupted'
  <2>1. stopping \in BOOLEAN /\ interrupted \in BOOLEAN
      BY <1>2 DEF TypeOK
  <2>2. stopping' = stopping /\ interrupted' = interrupted
      BY <1>1
  <2>3. (stopping' <=> stopping) /\ (interrupted' <=> interrupted)
      BY ONLY <2>2, Zenon
  <2>4. stopping' \in BOOLEAN /\ interrupted' \in BOOLEAN
      BY ONLY <2>1, <2>2, Zenon
  <2> QED BY ONLY <2>3, <2>4, Zenon
<1>a. Alike(cs', cs)
  <2>1. Structs(cs)
      BY DEF IInv
  <2> QED BY <2>1, UsesStatsIs, SameAlike
<1>b. cs'.conn = cs.conn
    BY <1>a DEF Alike
<1>4. Structures
    BY <1>1, <1>s, <1>a, AlikeStructures
<1>5. \A k : FdsHeld(fds, k) => FdsHeld(fds', k)
    BY DEF FdsHeld
<1>6. \A k : HeldBy(heap, fds, cs, nci, k) => HeldBy(heap', fds', cs', nci', k)
    BY <1>1, <1>5, <1>a, AlikeKeeps DEF HeldBy
<1>7. Starts => Starts'
  <2> SUFFICES ASSUME Starts PROVE Starts'
      OBVIOUS
  <2>1. Started(todo, heap, fds, cs, nci, nfd, max_nsconn, max_ncconn)
      BY DEF Starts
  <2>2. Started(todo', heap', fds', cs', nci', nfd', max_nsconn', max_ncconn')
    <3>1. /\ InOrder(todo) /\ Call("core_loop") \in ToSet(todo) /\ NoneFreed(cs)
          /\ HeldBy(heap, fds, cs, nci, Depth(Head(todo)[1]))
          /\ Pending(todo, heap, cs, nfd, max_nsconn, max_ncconn)
        BY <2>1 DEF Started
    <3>2. NoneFreed(cs')
        BY ONLY <1>a, <3>1, AlikeKeeps
    <3>3. HeldBy(heap', fds', cs', nci', Depth(Head(todo)[1]))
        BY ONLY <1>6, <3>1
    <3>4. Pending(todo, heap, cs', nfd, max_nsconn, max_ncconn)
        BY ONLY <1>a, <3>1, AlikeKeeps
    <3>5. Started(todo, heap', fds', cs', nci', nfd, max_nsconn, max_ncconn)
        BY ONLY <1>1, <3>1, <3>2, <3>3, <3>4 DEF Started
    <3> QED BY ONLY <1>1, <3>5
  <2>3. ~stopping' /\ ~interrupted'
      BY <1>s DEF Starts
  <2> QED BY <2>2, <2>3 DEF Starts
<1>8. Undoes => Undoes'
  <2> SUFFICES ASSUME Undoes PROVE Undoes'
      OBVIOUS
  <2>1. PICK k \in 1..10 : Undone(todo, heap, fds, cs, nci, k)
      BY DEF Undoes
  <2>2. Undone(todo', heap', fds', cs', nci', k)
      BY <1>1, <1>6, <2>1 DEF Undone
  <2>3. ~stopping' /\ ~interrupted'
      BY <1>s DEF Undoes
  <2> QED BY <2>2, <2>3 DEF Undoes
<1>9. Stops => Stops'
  <2> SUFFICES ASSUME Stops PROVE Stops'
      OBVIOUS
  <2>1. PICK k \in 1..10 : Stopped(todo, heap, fds, cs, nci, k)
      BY DEF Stops
  <2>2. Stopped(todo', heap', fds', cs', nci', k)
      BY <1>1, <1>5, <1>b, <2>1 DEF Stopped
  <2>3. stopping' /\ ~interrupted'
      BY <1>s DEF Stops
  <2> QED BY <2>2, <2>3 DEF Stops
<1>10. Starts' \/ Undoes' \/ Stops' \/ Ended'
  <2>1. ~Ended
      BY DEF Ended
  <2> QED BY <1>7, <1>8, <1>9, <2>1 DEF IInv
<1>11. todo' \in Seq(Name \X Nat \X Nat)
    BY <1>1, <1>2 DEF TypeOK
<1> QED
    BY <1>3, <1>4, <1>s, <1>10, <1>11, IInvNext DEF Others, Structures

(* The aggregator starts or gives up.                                      *)
LEMMA LoopStatsKeeps == IInv /\ event_loop_stats => IInv'
<1> SUFFICES ASSUME IInv, event_loop_stats PROVE IInv'
    OBVIOUS
<1>1. /\ todo # <<>> /\ UNCHANGED <<todo, heap, env, nci, stopping, interrupted, nfault>>
      /\ thread' \in {"none", "new", "loop"}
      /\ cs' = UsesStats(cs) \/ cs' = cs
      /\ fds' = fds \/ fds' = fds \cup {"stats epoll"}
    BY DEF event_loop_stats
<1>2. fds' \ {"stats epoll", "collector"} = fds \ {"stats epoll", "collector"}
    BY <1>1
<1> QED
    BY <1>1, <1>2, AggregatorKeeps

(* The aggregator adds up the statistics, or finds nothing to add.         *)
LEMMA StatsAggregateKeeps == IInv /\ stats_aggregate => IInv'
<1> SUFFICES ASSUME IInv, stats_aggregate PROVE IInv'
    OBVIOUS
<1>1. /\ todo # <<>> /\ UNCHANGED <<todo, heap, env, nci, stopping, interrupted, nfault>>
      /\ thread' \in {"none", "new", "loop"}
      /\ cs' = UsesStats(cs) /\ fds' = fds
    BY DEF stats_aggregate
<1>2. fds' \ {"stats epoll", "collector"} = fds \ {"stats epoll", "collector"}
    BY <1>1
<1> QED
    BY <1>1, <1>2, AggregatorKeeps

(* The aggregator accepts or closes a collector.                           *)
LEMMA SendRspKeeps == IInv /\ stats_send_rsp => IInv'
<1> SUFFICES ASSUME IInv, stats_send_rsp PROVE IInv'
    OBVIOUS
<1>1. /\ todo # <<>> /\ UNCHANGED <<todo, heap, env, nci, stopping, interrupted, nfault>>
      /\ thread' \in {"none", "new", "loop"}
      /\ cs' = UsesStats(cs)
      /\ fds' = fds \cup {"collector"} \/ fds' = fds \ {"collector"}
    BY DEF stats_send_rsp
<1>2. fds' \ {"stats epoll", "collector"} = fds \ {"stats epoll", "collector"}
    BY <1>1
<1> QED
    BY <1>1, <1>2, AggregatorKeeps

(* A step of nothing keeps the invariant.                                  *)
LEMMA StutterKeeps == IInv /\ UNCHANGED vars => IInv'
<1> SUFFICES ASSUME IInv, UNCHANGED vars PROVE IInv'
    OBVIOUS
<1>1. /\ todo' = todo /\ heap' = heap /\ fds' = fds /\ cs' = cs /\ nfd' = nfd /\ nci' = nci
      /\ max_nsconn' = max_nsconn /\ max_ncconn' = max_ncconn /\ thread' = thread
      /\ stopping' = stopping /\ interrupted' = interrupted /\ nfault' = nfault
    BY DEF vars, env
<1>2. TypeOK'
    BY <1>1 DEF IInv, TypeOK
<1>3. (Structs(cs) /\ Limits(cs) /\ Cardinality(Clients(cs)) <= max_ncconn /\ (~stopping => Clean(cs)))'
    BY <1>1 DEF IInv
<1>4. (Starts \/ Undoes \/ Stops \/ Ended)'
    BY <1>1 DEF IInv, Starts, Undoes, Stops, Ended
<1> QED
    BY <1>2, <1>3, <1>4 DEF IInv

(* Every step keeps the invariant.                                         *)
LEMMA NextKeeps == IInv /\ [Next]_vars => IInv'
<1> SUFFICES ASSUME IInv, [Next]_vars PROVE IInv'
    OBVIOUS
<1>1. ASSUME log_init \/ Prepared \/ gf_create_pidfile PROVE IInv'
    BY <1>1, LogInitKeeps, PreparedKeeps, PidfileKeeps
<1>2. ASSUME core_ctx_alloc \/ conf_create \/ server_pool_array PROVE IInv'
    BY <1>2, CtxAllocKeeps, ConfCreateKeeps, PoolArrayKeeps
<1>3. ASSUME \/ conf_pool_each_transform \/ server_pool_each_calc_connections
             \/ server_pool_each_run \/ core_calc_connections
      PROVE  IInv'
    BY <1>3, TransformKeeps, CalcKeeps, RunKeeps, CalcConnectionsKeeps
<1>4. ASSUME stats_alloc \/ stats_pool_map \/ stats_create_buf \/ stats_listen PROVE IInv'
    BY <1>4, StatsAllocKeeps, MapKeeps, CreateBufKeeps, ListenKeeps
<1>5. ASSUME \/ pthread_create \/ event_base_create
             \/ server_each_preconnect \/ proxy_each_init
      PROVE  IInv'
    BY <1>5, ThreadKeeps, BaseCreateKeeps, PreconnectKeeps, ProxyInitKeeps
<1>6. ASSUME NEW p \in Pool, proxy_accept(p) PROVE IInv'
    BY <1>6, AcceptKeeps
<1>7. ASSUME client_close \/ core_loop PROVE IInv'
    BY <1>7, ClientCloseKeeps, StopKeeps
<1>8. ASSUME NEW p \in Pool, NEW s \in 1..NSERVER[p], server_pool_conn(p, s) \/ ServerCloses(p, s)
      PROVE  IInv'
  <2>1. CASE server_pool_conn(p, s)
      BY <2>1, PoolConnKeeps
  <2>2. CASE ServerCloses(p, s)
      BY <2>2, ServerClosesKeeps
  <2> QED BY <1>8, <2>1, <2>2
<1>9. ASSUME proxy_deinit \/ server_pool_disconnect \/ event_base_destroy \/ stats_destroy PROVE IInv'
    BY <1>9, ProxyDeinitKeeps, DisconnectKeeps, BaseDestroyKeeps, StatsDestroyKeeps
<1>10. ASSUME server_pool_deinit \/ conf_destroy \/ gf_free \/ conn_deinit \/ gf_post_run PROVE IInv'
    BY <1>10, PoolDeinitKeeps, ConfDestroyKeeps, FreeKeeps, DeinitKeeps, PostRunKeeps
<1>11. ASSUME signal_handler \/ event_loop_stats \/ stats_aggregate \/ stats_send_rsp PROVE IInv'
    BY <1>11, SignalKeeps, LoopStatsKeeps, StatsAggregateKeeps, SendRspKeeps
<1>12. CASE Next
  <2>1. \/ log_init \/ Prepared \/ gf_create_pidfile
        \/ core_ctx_alloc \/ conf_create \/ server_pool_array
        \/ conf_pool_each_transform \/ server_pool_each_calc_connections
        \/ server_pool_each_run \/ core_calc_connections
        \/ stats_alloc \/ stats_pool_map \/ stats_create_buf \/ stats_listen
        \/ pthread_create \/ event_base_create
        \/ server_each_preconnect \/ proxy_each_init
        \/ \E p \in Pool : proxy_accept(p)
        \/ client_close
        \/ \E p \in Pool : \E s \in 1..NSERVER[p] :
              server_pool_conn(p, s) \/ ServerCloses(p, s)
        \/ core_loop
        \/ proxy_deinit \/ server_pool_disconnect \/ event_base_destroy
        \/ stats_destroy \/ server_pool_deinit \/ conf_destroy \/ gf_free
        \/ conn_deinit \/ gf_post_run \/ signal_handler
        \/ event_loop_stats \/ stats_aggregate \/ stats_send_rsp
      BY <1>12 DEF Next
  <2> QED BY <2>1, <1>1, <1>2, <1>3, <1>4, <1>5, <1>6, <1>7, <1>8, <1>9, <1>10, <1>11
<1> QED
    BY <1>12, StutterKeeps

(* The inductive invariant holds in every state the process can be in.     *)
THEOREM LifecycleInvariant == Spec => []IInv
<1>1. Init => IInv
    BY InitIInv
<1>2. IInv /\ [Next]_vars => IInv'
    BY NextKeeps
<1> QED
    BY <1>1, <1>2, PTL DEF Spec

(* What is left when all the steps are done.                               *)
LEMMA HeldAtEnd ==
    /\ \A hp : BlocksHeld(hp, 10) => hp = {}
    /\ \A f : FdsHeld(f, 10) => f \subseteq Std \cup {"stats epoll", "collector"}
    /\ \A n : FileHeld(n, 10) => ~n.file
    /\ \A h : StructsHeld(h, 10) => \A c \in Conn : h.conn[c].st \notin {"used", "free"}
<1>1. 10..9 = {}
    OBVIOUS
<1>2. UNION {FreedBy(j) : j \in 10..9} = {} /\ UNION {ClosedBy(j) : j \in 10..9} = {}
    BY <1>1
<1>3. \A n : FileHeld(n, 10) => ~n.file
    BY DEF FileHeld
<1>4. \A h : StructsHeld(h, 10) => \A c \in Conn : h.conn[c].st \notin {"used", "free"}
    BY DEF StructsHeld
<1>5. \A hp : BlocksHeld(hp, 10) => hp = {}
    BY <1>2 DEF BlocksHeld
<1>6. \A f : FdsHeld(f, 10) => f \subseteq Std \cup {"stats epoll", "collector"}
    BY <1>2 DEF FdsHeld
<1> QED
    BY <1>3, <1>4, <1>5, <1>6

(* When main has nothing to call any more, all that has to be is returned. *)
LEMMA AllReturned == IInv => EverythingReturned
<1> SUFFICES ASSUME IInv, todo = <<>>, ~interrupted
             PROVE  /\ heap = {} /\ ~nci.file
                    /\ fds \subseteq Std \cup {"stats epoll", "collector"}
                    /\ \A c \in Conn : cs.conn[c].st \in {"used", "free"} =>
                          /\ stopping
                          /\ cs.conn[c].st = "used" => cs.conn[c].owner[1] = "client"
    BY DEF EverythingReturned
<1>1. ~Starts /\ ~Ended
    BY EmptyIsNotStart DEF Starts, Started, Ended
<1>2. CASE Undoes
  <2>1. PICK k \in 1..10 : Undone(todo, heap, fds, cs, nci, k)
      BY <1>2 DEF Undoes
  <2>2. k = 10
    <3>1. Rest(k) = <<>>
        BY <2>1 DEF Undone
    <3>2. \A i \in 1..9 : Rest(i) # <<>>
        BY RestIs
    <3> QED BY <3>1, <3>2
  <2>3. HeldBy(heap, fds, cs, nci, k)
      BY <2>1 DEF Undone
  <2>4. HeldBy(heap, fds, cs, nci, 10)
      BY <2>2, <2>3
  <2> QED BY <2>4, HeldAtEnd DEF HeldBy
<1>3. CASE Stops
  <2>1. PICK k \in 1..10 : Stopped(todo, heap, fds, cs, nci, k)
      BY <1>3 DEF Stops
  <2>2. k = 10
    <3>1. StopRest(k) = <<>>
        BY <2>1 DEF Stopped
    <3>2. \A i \in 1..9 : StopRest(i) # <<>>
        BY StopRestIs
    <3> QED BY <3>1, <3>2
  <2> DEFINE j == 10
  <2>3. j = (IF k = 10 THEN 10 ELSE k - 1) /\ ~(j <= 1) /\ ~(j <= 2)
      BY <2>2
  <2> HIDE DEF j
  <2>4. /\ BlocksHeld(heap, j) /\ FdsHeld(fds, j) /\ FileHeld(nci, j)
        /\ \A c \in Conn : /\ cs.conn[c].owner[1] = "proxy" => j <= 1
                           /\ cs.conn[c].owner[1] = "server" => j <= 2
      BY <2>1, <2>3 DEF Stopped
  <2>5. heap = {} /\ ~nci.file /\ fds \subseteq Std \cup {"stats epoll", "collector"}
      BY <2>4, HeldAtEnd DEF j
  <2>6. stopping
      BY <1>3 DEF Stops
  <2>7. \A c \in Conn : cs.conn[c].st = "used" => cs.conn[c].owner[1] = "client"
    <3> SUFFICES ASSUME NEW c \in Conn, cs.conn[c].st = "used"
                 PROVE  cs.conn[c].owner[1] = "client"
        OBVIOUS
    <3>1. cs.conn[c].owner \in Owner /\ cs.conn[c].owner # Nobody
        BY DEF IInv, Structs
    <3>2. cs.conn[c].owner[1] \in {"proxy", "client", "server"}
        BY <3>1, OwnersAre
    <3> QED BY <2>3, <2>4, <3>2
  <2> QED BY <2>5, <2>6, <2>7
<1> QED
    BY <1>1, <1>2, <1>3 DEF IInv

(* The invariant says that unwinding is safe.                              *)
LEMMA Unwound == IInv => UnwindingIsSafe
BY DEF IInv, UnwindingIsSafe, Clean

(* Whatever call of core_ctx_create fails, its error path finds what it    *)
(* closes and frees, and uses nothing that was freed; it fails no          *)
(* assertion but those of conn_put and array_deinit that server_close and  *)
(* stats_pool_unmap break: UnwindingIsSafe holds for any configuration and *)
(* limit of descriptors.                                                   *)
THEOREM LifecycleUnwindingSafe == Spec => []UnwindingIsSafe
BY LifecycleInvariant, Unwound, PTL

(* When main ends, by a failure at any point or after core_stop, blocks,   *)
(* descriptors, structures and the pid file have been given back, but for  *)
(* what core_stop is known to leave and for descriptors that server_close  *)
(* and gf_create_pidfile lost: EverythingReturned holds for any      *)
(* configuration and limit of descriptors.                                 *)
THEOREM LifecycleReturned == Spec => []EverythingReturned
BY LifecycleInvariant, AllReturned, PTL

(* Two finite sets have together no more elements than one by one.         *)
LEMMA UnionBound ==
    ASSUME NEW S, NEW T, IsFiniteSet(S), IsFiniteSet(T)
    PROVE  /\ IsFiniteSet(S \cup T) /\ Cardinality(S \cup T) \in Nat
           /\ Cardinality(S \cup T) <= Cardinality(S) + Cardinality(T)
           /\ Cardinality(S) \in Nat /\ Cardinality(T) \in Nat
<1>1. /\ IsFiniteSet(S \cup T)
      /\ Cardinality(S \cup T) = Cardinality(S) + Cardinality(T) - Cardinality(S \cap T)
    BY FS_Union
<1>2. IsFiniteSet(S \cap T)
  <2>1. S \cap T \in SUBSET S
      OBVIOUS
  <2> QED BY <2>1, FS_Subset
<1>3. /\ Cardinality(S) \in Nat /\ Cardinality(T) \in Nat /\ Cardinality(S \cap T) \in Nat
      /\ Cardinality(S \cup T) \in Nat
    BY <1>1, <1>2, FS_CardinalityType
<1> QED
    BY <1>1, <1>3

(* A part of a finite set has no more elements than it.                    *)
LEMMA SmallerSet ==
    ASSUME NEW S, NEW T, IsFiniteSet(T), S \subseteq T
    PROVE  IsFiniteSet(S) /\ Cardinality(S) <= Cardinality(T) /\ Cardinality(S) \in Nat
<1>1. S \in SUBSET T
    OBVIOUS
<1>2. IsFiniteSet(S) /\ Cardinality(S) <= Cardinality(T)
    BY <1>1, FS_Subset
<1> QED
    BY <1>2, FS_CardinalityType

(* Connections of the first m servers of a pool, of a pool, and of pools.  *)
OfServers(h, p, m) == {c \in Conn : \E s \in 1..m : h.conn[c].owner = <<"server", p, s>>}
OfPool(h, p) == OwnedBy(h, <<"proxy", p, 0>>) \cup OfServers(h, p, NSERVER[p])
OfSome(h, P) == {c \in Conn : \E p \in P : c \in OfPool(h, p)}

(* Sets of structures are finite.                                          *)
LEMMA ConnSets ==
    \A S : S \subseteq Conn => IsFiniteSet(S) /\ Cardinality(S) \in Nat
BY ConnsFinite, SmallerSet

(* The servers of a pool have no more than server_connections each.        *)
LEMMA ServersBound ==
    ASSUME NEW h, Limits(h), NEW p \in Pool
    PROVE  Cardinality(OfServers(h, p, NSERVER[p])) <= SERVER_CONNECTIONS[p] * NSERVER[p]
<1> DEFINE n == NSERVER[p]
           k == SERVER_CONNECTIONS[p]
           G == {m \in Nat : m <= n => Cardinality(OfServers(h, p, m)) <= k * m}
<1>1. n \in Nat /\ k \in Nat
    BY PoolsAre, LifecycleAssumption
<1>2. \A s \in 1..n : Cardinality(OwnedBy(h, <<"server", p, s>>)) <= k
    BY DEF Limits
<1> HIDE DEF n, k
<1>3. 0 \in G
  <2>1. OfServers(h, p, 0) = {}
      BY DEF OfServers
  <2>2. Cardinality(OfServers(h, p, 0)) = 0
      BY <2>1, FS_EmptySet
  <2>3. k * 0 = 0
      BY <1>1
  <2> QED BY <2>2, <2>3
<1>4. ASSUME NEW m \in Nat, m \in G PROVE m + 1 \in G
  <2> SUFFICES ASSUME m + 1 <= n
               PROVE  Cardinality(OfServers(h, p, m + 1)) <= k * (m + 1)
      OBVIOUS
  <2> DEFINE A == OfServers(h, p, m)
             B == OwnedBy(h, <<"server", p, m + 1>>)
  <2>1. Cardinality(A) <= k * m
      BY <1>1, <1>4
  <2>2. Cardinality(B) <= k
      BY <1>1, <1>2
  <2>3. OfServers(h, p, m + 1) = A \cup B
    <3>1. 1..(m + 1) = (1..m) \cup {m + 1}
        OBVIOUS
    <3> QED BY <3>1 DEF OfServers, OwnedBy
  <2>4. A \subseteq Conn /\ B \subseteq Conn
      BY DEF OfServers, OwnedBy
  <2>5. IsFiniteSet(A) /\ IsFiniteSet(B)
      BY <2>4, ConnSets
  <2> HIDE DEF A, B
  <2>6. /\ Cardinality(A \cup B) <= Cardinality(A) + Cardinality(B)
        /\ Cardinality(A \cup B) \in Nat /\ Cardinality(A) \in Nat /\ Cardinality(B) \in Nat
      BY <2>5, UnionBound
  <2>7. k * (m + 1) = k * m + k /\ k * m \in Nat
      BY <1>1
  <2>8. Cardinality(A \cup B) <= k * m + k
      BY <1>1, <2>1, <2>2, <2>6, <2>7
  <2> QED BY <2>3, <2>7, <2>8
<1>5. \A m \in Nat : m \in G
  <2> HIDE DEF G
  <2> QED BY ONLY <1>3, <1>4, SetInduction
<1>6. Cardinality(OfServers(h, p, n)) <= k * n
    BY <1>1, <1>5
<1> QED
    BY <1>6 DEF n, k

(* A pool has no more connections than it is counted for.                  *)
LEMMA PoolBound ==
    ASSUME NEW h, Limits(h), NEW p \in Pool
    PROVE  /\ Cardinality(OfPool(h, p)) <= MaxOfPool(p) /\ MaxOfPool(p) \in Nat
           /\ IsFiniteSet(OfPool(h, p)) /\ Cardinality(OfPool(h, p)) \in Nat
<1> DEFINE A == OwnedBy(h, <<"proxy", p, 0>>)
           B == OfServers(h, p, NSERVER[p])
           t == SERVER_CONNECTIONS[p] * NSERVER[p]
<1>1. t \in Nat
  <2>1. SERVER_CONNECTIONS[p] \in Nat /\ NSERVER[p] \in Nat
      BY PoolsAre, LifecycleAssumption
  <2>2. \A a, b \in Nat : a * b \in Nat
      OBVIOUS
  <2> QED BY <2>1, <2>2
<1>2. Cardinality(A) <= 1
    BY DEF Limits
<1>3. Cardinality(B) <= t
    BY ServersBound
<1>4. A \subseteq Conn /\ B \subseteq Conn
    BY DEF OwnedBy, OfServers
<1>5. IsFiniteSet(A) /\ IsFiniteSet(B)
    BY <1>4, ConnSets
<1>6. OfPool(h, p) = A \cup B /\ MaxOfPool(p) = t + 1
    BY DEF OfPool, MaxOfPool
<1> HIDE DEF A, B, t
<1>7. /\ Cardinality(A \cup B) <= Cardinality(A) + Cardinality(B) /\ IsFiniteSet(A \cup B)
      /\ Cardinality(A \cup B) \in Nat /\ Cardinality(A) \in Nat /\ Cardinality(B) \in Nat
    BY <1>5, UnionBound
<1>8. Cardinality(A \cup B) <= t + 1 /\ t + 1 \in Nat
    BY <1>1, <1>2, <1>3, <1>7
<1> QED
    BY <1>6, <1>7, <1>8

(* The connections of the pools are no more than max_nsconn counts.        *)
LEMMA PoolsBound ==
    ASSUME NEW h, Limits(h)
    PROVE  /\ Cardinality(OfSome(h, Pool)) <= MapThenSumSet(MaxOfPool, Pool)
           /\ MapThenSumSet(MaxOfPool, Pool) \in Nat
<1>1. PICK g : /\ IsSumOfPools(g) /\ MapThenSumSet(MaxOfPool, Pool) = g[Pool]
               /\ \A s \in SUBSET Pool : g[s] \in Nat
    BY SumOfPools
<1> DEFINE G == {s \in SUBSET Pool : Cardinality(OfSome(h, s)) <= g[s]}
<1>2. {} \in G
  <2>1. OfSome(h, {}) = {}
      BY DEF OfSome
  <2>2. Cardinality(OfSome(h, {})) = 0
      BY <2>1, FS_EmptySet
  <2>3. g[{}] \in Nat
      BY <1>1
  <2> QED BY <2>2, <2>3
<1>3. ASSUME NEW s \in SUBSET Pool, s # {}, s \ {CHOOSE x \in s : TRUE} \in G PROVE s \in G
  <2> DEFINE p == CHOOSE x \in s : TRUE
             r == s \ {p}
  <2>1. g[s] = MaxOfPool(p) + g[r]
      BY <1>1, <1>3 DEF IsSumOfPools
  <2>2. p \in s /\ p \in Pool
      BY <1>3
  <2>3. r \in SUBSET Pool /\ Cardinality(OfSome(h, r)) <= g[r]
      BY <1>3
  <2>4. s = r \cup {p}
      BY <2>2
  <2> HIDE DEF p, r
  <2>5. /\ Cardinality(OfPool(h, p)) <= MaxOfPool(p) /\ MaxOfPool(p) \in Nat
        /\ IsFiniteSet(OfPool(h, p))
      BY <2>2, PoolBound
  <2>6. OfPool(h, p) \subseteq Conn
      BY DEF OfPool, OwnedBy, OfServers
  <2>7. OfSome(h, s) = OfSome(h, r) \cup OfPool(h, p)
      BY <2>4, <2>6 DEF OfSome
  <2>8. OfSome(h, r) \subseteq Conn
      BY DEF OfSome
  <2>9. IsFiniteSet(OfSome(h, r))
      BY <2>8, ConnSets
  <2> DEFINE A == OfSome(h, r)
             B == OfPool(h, p)
  <2>10. /\ IsFiniteSet(A) /\ IsFiniteSet(B) /\ Cardinality(A) <= g[r] /\ Cardinality(B) <= MaxOfPool(p)
         /\ OfSome(h, s) = A \cup B
      BY <2>3, <2>5, <2>7, <2>9
  <2> HIDE DEF A, B
  <2>11. /\ Cardinality(A \cup B) <= Cardinality(A) + Cardinality(B)
         /\ Cardinality(A \cup B) \in Nat /\ Cardinality(A) \in Nat /\ Cardinality(B) \in Nat
      BY <2>10, UnionBound
  <2>12. g[r] \in Nat
      BY <1>1, <2>3
  <2>13. Cardinality(A \cup B) <= MaxOfPool(p) + g[r]
      BY <2>5, <2>10, <2>11, <2>12
  <2> QED BY <2>1, <2>10, <2>13
<1>4. \A s \in SUBSET Pool : s \in G
  <2> HIDE DEF G
  <2>1. \A s \in SUBSET Pool : s # {} /\ s \ {CHOOSE x \in s : TRUE} \in G => s \in G
      BY <1>3
  <2> QED BY ONLY <1>2, <2>1, PoolsAre, PeelInduction
<1> QED
    BY <1>1, <1>4

(* Descriptors of connections: those of clients, of servers and listeners. *)
LEMMA OpenedBound ==
    ASSUME IInv
    PROVE  /\ Cardinality(Opened) <= Cardinality(Clients(cs)) + MapThenSumSet(MaxOfPool, Pool)
           /\ Cardinality(Opened) \in Nat /\ Cardinality(Clients(cs)) \in Nat
           /\ MapThenSumSet(MaxOfPool, Pool) \in Nat
<1> DEFINE A == Clients(cs)
           B == OfSome(cs, Pool)
<1>1. Structs(cs) /\ Limits(cs)
    BY DEF IInv
<1>2. Opened \subseteq A \cup B
  <2> SUFFICES ASSUME NEW c \in Conn, cs.conn[c].open, c \notin A PROVE c \in B
      BY DEF Opened
  <2>1. cs.conn[c].owner \in Owner /\ cs.conn[c].owner # Nobody
      BY <1>1 DEF Structs
  <2>2. cs.conn[c].owner[1] \in {"proxy", "server"}
      BY <2>1, OwnersAre DEF Clients
  <2>3. CASE cs.conn[c].owner[1] = "proxy"
    <3>1. \E p \in Pool : cs.conn[c].owner = <<"proxy", p, 0>>
        BY <2>1, <2>3, OwnersAre
    <3>2. \E p \in Pool : c \in OfPool(cs, p)
        BY <3>1 DEF OfPool, OwnedBy
    <3> QED BY <3>2 DEF OfSome
  <2>4. CASE cs.conn[c].owner[1] = "server"
    <3>1. \E p \in Pool : \E s \in 1..NSERVER[p] : cs.conn[c].owner = <<"server", p, s>>
        BY <2>1, <2>4, OwnersAre
    <3>2. \E p \in Pool : c \in OfPool(cs, p)
        BY <3>1 DEF OfPool, OfServers
    <3> QED BY <3>2 DEF OfSome
  <2> QED BY <2>2, <2>3, <2>4
<1>3. A \subseteq Conn /\ B \subseteq Conn
    BY DEF Clients, OfSome
<1>4. IsFiniteSet(A) /\ IsFiniteSet(B)
    BY <1>3, ConnSets
<1>5. Cardinality(B) <= MapThenSumSet(MaxOfPool, Pool) /\ MapThenSumSet(MaxOfPool, Pool) \in Nat
    BY <1>1, PoolsBound
<1> DEFINE t == MapThenSumSet(MaxOfPool, Pool)
<1> HIDE DEF A, B, t
<1>6. /\ Cardinality(A \cup B) <= Cardinality(A) + Cardinality(B) /\ IsFiniteSet(A \cup B)
      /\ Cardinality(A \cup B) \in Nat /\ Cardinality(A) \in Nat /\ Cardinality(B) \in Nat
    BY <1>4, UnionBound
<1>7. Cardinality(Opened) <= Cardinality(A \cup B) /\ Cardinality(Opened) \in Nat
    BY <1>2, <1>6, SmallerSet
<1>8. Cardinality(B) <= t /\ t \in Nat
    BY <1>5 DEF t
<1>9. Cardinality(Opened) <= Cardinality(A) + t
    BY <1>6, <1>7, <1>8
<1> QED
    BY <1>6, <1>7, <1>8, <1>9 DEF A, t

(* One element more.                                                       *)
LEMMA OneMore ==
    ASSUME NEW S, IsFiniteSet(S), NEW n \in Nat, Cardinality(S) <= n, NEW x
    PROVE  IsFiniteSet(S \cup {x}) /\ Cardinality(S \cup {x}) <= n + 1
<1>1. IsFiniteSet({x}) /\ Cardinality({x}) = 1
    BY FS_Singleton
<1>2. /\ IsFiniteSet(S \cup {x}) /\ Cardinality(S \cup {x}) \in Nat
      /\ Cardinality(S \cup {x}) <= Cardinality(S) + Cardinality({x})
      /\ Cardinality(S) \in Nat
    BY <1>1, UnionBound
<1> QED
    BY <1>1, <1>2

(* The process itself has eight descriptors at most.                       *)
LEMMA FewFds == TypeOK => Cardinality(fds) <= 8 /\ Cardinality(fds) \in Nat
<1> SUFFICES ASSUME TypeOK PROVE Cardinality(fds) <= 8 /\ Cardinality(fds) \in Nat
    OBVIOUS
<1> DEFINE x == "stats epoll"
           S1 == {} \cup {"stdin"}
           S2 == S1 \cup {"stdout"}
           S3 == S2 \cup {"stderr"}
           S4 == S3 \cup {"log"}
           S5 == S4 \cup {"stats"}
           S6 == S5 \cup {"epoll"}
           S7 == S6 \cup {x}
           S8 == S7 \cup {"collector"}
<1>1. fds \subseteq S8
    BY DEF TypeOK, Std
<1> HIDE DEF x
<1>2. IsFiniteSet({}) /\ Cardinality({}) <= 0
    BY FS_EmptySet
<1>3. IsFiniteSet(S1) /\ Cardinality(S1) <= 1
  <2>1. IsFiniteSet(S1) /\ Cardinality(S1) <= 0 + 1
      BY <1>2, OneMore
  <2> QED BY <2>1
<1> HIDE DEF S1
<1>4. IsFiniteSet(S2) /\ Cardinality(S2) <= 2
  <2>1. IsFiniteSet(S2) /\ Cardinality(S2) <= 1 + 1
      BY <1>3, OneMore
  <2> QED BY <2>1
<1> HIDE DEF S2
<1>5. IsFiniteSet(S3) /\ Cardinality(S3) <= 3
  <2>1. IsFiniteSet(S3) /\ Cardinality(S3) <= 2 + 1
      BY <1>4, OneMore
  <2> QED BY <2>1
<1> HIDE DEF S3
<1>6. IsFiniteSet(S4) /\ Cardinality(S4) <= 4
  <2>1. IsFiniteSet(S4) /\ Cardinality(S4) <= 3 + 1
      BY <1>5, OneMore
  <2> QED BY <2>1
<1> HIDE DEF S4
<1>7. IsFiniteSet(S5) /\ Cardinality(S5) <= 5
  <2>1. IsFiniteSet(S5) /\ Cardinality(S5) <= 4 + 1
      BY <1>6, OneMore
  <2> QED BY <2>1
<1> HIDE DEF S5
<1>8. IsFiniteSet(S6) /\ Cardinality(S6) <= 6
  <2>1. IsFiniteSet(S6) /\ Cardinality(S6) <= 5 + 1
      BY <1>7, OneMore
  <2> QED BY <2>1
<1> HIDE DEF S6
<1>9. IsFiniteSet(S7) /\ Cardinality(S7) <= 7
  <2>1. IsFiniteSet(S7) /\ Cardinality(S7) <= 6 + 1
      BY <1>8, OneMore
  <2> QED BY <2>1
<1> HIDE DEF S7
<1>10. IsFiniteSet(S8) /\ Cardinality(S8) <= 8
  <2>1. IsFiniteSet(S8) /\ Cardinality(S8) <= 7 + 1
      BY <1>9, OneMore
  <2> QED BY <2>1
<1> HIDE DEF S8
<1>11. Cardinality(S8) \in Nat
    BY <1>10, FS_CardinalityType
<1>12. Cardinality(fds) <= Cardinality(S8) /\ Cardinality(fds) \in Nat
    BY <1>1, <1>10, SmallerSet
<1> QED
    BY <1>10, <1>11, <1>12

(* In the loop the limits of connections have been counted.                *)
LEMMA Counted ==
    ASSUME IInv, At("core_loop")
    PROVE  /\ max_nsconn = MapThenSumSet(MaxOfPool, Pool) % WORD
           /\ max_ncconn = (nfd - max_nsconn - RESERVED_FDS) % WORD
<1>1. Rank("core_loop") \in 1..22 /\ Rank("core_loop") = 22
    BY Ranks
<1>2. /\ InOrder(todo) /\ todo # <<>> /\ Head(todo)[1] = "core_loop"
      /\ Pending(todo, heap, cs, nfd, max_nsconn, max_ncconn)
    BY <1>1, AtStart
<1>3. \A n \in {"core_calc_connections", "server_pool_each_calc_connections"} :
          Call(n) \notin ToSet(todo)
  <2> SUFFICES ASSUME NEW n \in {"core_calc_connections", "server_pool_each_calc_connections"},
                      Call(n) \in ToSet(todo)
               PROVE  FALSE
      OBVIOUS
  <2>1. Rank(Head(todo)[1]) <= Rank(Call(n)[1])
      BY <1>2, After
  <2>2. Call(n)[1] = n
      BY DEF Call
  <2>3. Rank(n) \in {9, 11}
      BY Ranks
  <2> QED BY <1>1, <1>2, <2>1, <2>2, <2>3
<1> QED
    BY <1>2, <1>3 DEF Pending

(* A count that fits is not changed.                                       *)
LEMMA SmallRemainder ==
    /\ \A i \in Nat : i < WORD => i % WORD = i
    /\ \A i \in Nat : i % WORD <= i /\ i % WORD \in Nat
<1>1. WORD \in Nat \ {0}
    BY LifecycleAssumption
<1> QED
    BY <1>1

(* The invariant says that there is room.                                  *)
LEMMA RoomIsLeft ==
    ASSUME RESERVED_FDS >= 9, MapThenSumSet(MaxOfPool, Pool) < WORD
    PROVE  IInv => ClientsLeaveRoom
<1> SUFFICES ASSUME IInv, At("core_loop"), nfd >= max_nsconn + RESERVED_FDS
             PROVE  Open - cs.nleak < nfd
    BY DEF ClientsLeaveRoom
<1> DEFINE t == MapThenSumSet(MaxOfPool, Pool)
           a == Cardinality(Opened)
           b == Cardinality(Clients(cs))
           f == Cardinality(fds)
           m == nfd - max_nsconn - RESERVED_FDS
<1>1. a <= b + t /\ a \in Nat /\ b \in Nat /\ t \in Nat
    BY OpenedBound
<1>2. f <= 8 /\ f \in Nat
    BY FewFds DEF IInv
<1>3. max_nsconn = t % WORD /\ max_ncconn = m % WORD
    BY Counted
<1>4. /\ nfd \in Nat /\ RESERVED_FDS \in Nat /\ WORD \in Nat /\ cs.nleak \in Nat
      /\ max_ncconn \in Int /\ b <= max_ncconn
  <2>1. nfd \in NFD /\ cs.nleak \in Nat
      BY DEF IInv, TypeOK
  <2>2. max_ncconn \in 0..(WORD - 1)
      BY DEF IInv, TypeOK
  <2>3. b <= max_ncconn
      BY DEF IInv
  <2> QED BY <2>1, <2>2, <2>3, LifecycleAssumption
<1>5. t < WORD
    OBVIOUS
<1>6. Open = f + a + cs.nleak
    BY DEF Open
<1> HIDE DEF t, a, b, f
<1>7. max_nsconn = t
    BY <1>1, <1>3, <1>5, SmallRemainder
<1>8. m \in Nat
    BY <1>1, <1>4, <1>7
<1>9. max_ncconn <= m
  <2> HIDE DEF m
  <2> QED BY <1>3, <1>8, SmallRemainder
<1>10. f + a + cs.nleak - cs.nleak < nfd
    BY <1>1, <1>2, <1>4, <1>7, <1>9
<1> DEFINE e == cs.nleak
           g == Open
<1>11. /\ g = f + a + e /\ f + a + e - e < nfd
       /\ f \in Nat /\ a \in Nat /\ e \in Nat /\ nfd \in Nat
    BY <1>1, <1>2, <1>4, <1>6, <1>10
<1> HIDE DEF e, g
<1>12. g - e < nfd
    BY <1>11
<1> QED
    BY <1>12 DEF e, g

(* max_ncconn leaves a descriptor to accept and connect with, but for      *)
(* those server_close lost: ClientsLeaveRoom holds for any configuration   *)
(* whose count of connections fits a uint32_t, when RESERVED_FDS (32 in    *)
(* gf_core.h) is at least nine, the descriptors the process itself may     *)
(* have and one more.                                                      *)
THEOREM LifecycleRoomLeft ==
    ASSUME RESERVED_FDS >= 9, MapThenSumSet(MaxOfPool, Pool) < WORD
    PROVE  Spec => []ClientsLeaveRoom
BY LifecycleInvariant, RoomIsLeft, PTL

=============================================================================
