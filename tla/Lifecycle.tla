----------------------------- MODULE Lifecycle -----------------------------
(***************************************************************************)
(* The life of the process: main (gfw.c) prepares it, core_start acquires  *)
(* the context one resource after the other, a failure of any of them      *)
(* unwinds what was acquired, core_loop serves until waiting fails,        *)
(* core_stop gives everything back, and SIGINT may end it at any time.     *)
(*                                                                         *)
(* todo is what main has still to call: a call that succeeds leaves the    *)
(* rest, one that fails replaces it by the unwinding of its error path.    *)
(* A call is one step.  Assertions are recorded and execution goes on, as  *)
(* in a build without them.  In the loop clients and servers come and go,  *)
(* which is all that Proxy's events leave behind here: structures and      *)
(* descriptors.                                                            *)
(***************************************************************************)
EXTENDS Integers, Sequences, FiniteSets, SequencesExt, FiniteSetsExt

CONSTANTS NSERVER,              \* servers of each pool of the configuration
          PRECONNECT,           \* preconnect: of each pool
          SERVER_CONNECTIONS,   \* server_connections: of each pool
          NFD,                  \* soft limits of descriptors to explore
          RESERVED_FDS,         \* RESERVED_FDS of gf_core.h
          WORD,                 \* 2^32: uint32_t counts modulo WORD
          NConn,                \* bound: connection structures
          MaxFault              \* bound: calls that fail, connections that close

Pool == DOMAIN NSERVER
Conn == 1..NConn
Std == {"stdin", "stdout", "stderr"}
Nobody == <<"nobody", 0, 0>>     \* conn->owner is NULL
Aggregator == <<"aggregator", 0>>  \* in touched: the thread used a freed block
Map == {"current", "shadow", "sum"}

\* What main has to call, by name: when it starts, and when it ends.
Name == {"log_init", "gf_daemonize", "signal_init", "gf_create_pidfile",
         "core_ctx_alloc", "conf_create", "server_pool_array",
         "conf_pool_each_transform", "server_pool_each_calc_connections",
         "server_pool_each_run", "core_calc_connections", "stats_alloc",
         "current", "shadow", "sum", "stats_create_buf", "stats_listen",
         "pthread_create", "event_base_create", "server_each_preconnect",
         "proxy_each_init", "core_loop"}
        \cup {"proxy_deinit", "server_pool_disconnect", "event_base_destroy",
              "stats_destroy", "server_pool_deinit", "conf_destroy", "gf_free",
              "conn_deinit", "gf_post_run"}

ASSUME LifecycleAssumption ==
    /\ NSERVER \in Seq(Nat \ {0}) /\ NSERVER # <<>>
    /\ PRECONNECT \in [Pool -> BOOLEAN]
    /\ SERVER_CONNECTIONS \in [Pool -> Nat \ {0}]
    /\ NFD \subseteq Nat /\ RESERVED_FDS \in Nat /\ WORD \in Nat \ {0}
    /\ NConn \in Nat /\ MaxFault \in Nat

VARIABLES
    todo,          \* calls main has still to make, <<name, pool, server>>
    heap,          \* blocks allocated, <<what, pool>>, but for connections
    fds,           \* descriptors of the process, but for those of connections
    cs,            \* connection structures, and what was done to them:
                   \*   conn    per structure: st, owner, open (sd >= 0)
                   \*   freeq   free_connq, head first
                   \*   nleak   descriptors no variable names any more
                   \*   broken  assertions that failed
                   \*   touched what was used after it was freed: blocks by
                   \*           main, or something by the aggregator
    nfd,           \* the soft limit; ctx->max_nfd once it was read
    max_nsconn, max_ncconn,     \* ctx->max_nsconn and ctx->max_ncconn
    nci,           \* pid_filename set, pidfile, and whether the file is there
    thread,        \* the aggregator: "none", "new" or "loop"
    stopping,      \* core_stop was called
    interrupted,   \* SIGINT came
    nfault

env == <<nfd, max_nsconn, max_ncconn>>
vars == <<todo, heap, fds, cs, env, nci, thread, stopping, interrupted, nfault>>

Owner == {Nobody} \cup {<<k, p, 0>> : k \in {"client", "proxy"}, p \in Pool}
         \cup UNION {{<<"server", p, s>> : s \in 1..NSERVER[p]} : p \in Pool}

TypeOK ==
    /\ todo \in Seq(Name \X Nat \X Nat)
    /\ fds \subseteq Std \cup {"log", "stats", "epoll", "stats epoll", "collector"}
    /\ cs.conn \in [Conn -> [st : {"never", "used", "free", "freed"},
                             owner : Owner, open : BOOLEAN]]
    /\ cs.freeq \in Seq(Conn) /\ cs.nleak \in Nat
    /\ nfd \in NFD /\ max_nsconn \in 0..(WORD - 1) /\ max_ncconn \in 0..(WORD - 1)
    /\ nci \in [wanted : BOOLEAN, pidfile : BOOLEAN, file : BOOLEAN]
    /\ thread \in {"none", "new", "loop"}
    /\ stopping \in BOOLEAN /\ interrupted \in BOOLEAN
    /\ nfault \in 0..MaxFault

-----------------------------------------------------------------------------
(* The program.                                                            *)

Call(name) == <<name, 0, 0>>
Block(name) == <<name, 0>>
OfPools(name) == [p \in Pool |-> <<name, p, 0>>]

\* server_pool_each_preconnect: the servers of the pools that ask for it.
Preconnects == FlattenSeq([p \in Pool |->
    IF PRECONNECT[p] THEN [s \in 1..NSERVER[p] |-> <<"server_each_preconnect", p, s>>]
    ELSE <<>>])

core_ctx_create ==
    <<Call("core_ctx_alloc"), Call("conf_create"), Call("server_pool_array")>>
    \o OfPools("conf_pool_each_transform")
    \o <<Call("server_pool_each_calc_connections")>>
    \o OfPools("server_pool_each_run")
    \o <<Call("core_calc_connections"), Call("stats_alloc"),
         Call("current"), Call("shadow"), Call("sum"),
         Call("stats_create_buf"), Call("stats_listen"), Call("pthread_create"),
         Call("event_base_create")>>
    \o Preconnects \o OfPools("proxy_each_init")

main(daemonize, pid) ==
    <<Call("log_init")>>
    \o (IF daemonize THEN <<Call("gf_daemonize")>> ELSE <<>>)
    \o <<Call("signal_init")>>
    \o (IF pid THEN <<Call("gf_create_pidfile")>> ELSE <<>>)
    \o core_ctx_create \o <<Call("core_loop")>>

\* mutant: the servers are closed when their statistics are gone
MutUndo == [i \in 1..7 |-> Call(<<"proxy_deinit", "event_base_destroy", "stats_destroy",
              "server_pool_disconnect", "server_pool_deinit",
              "conf_destroy", "gf_free">>[i])]

\* core_ctx_destroy.  Each error path of core_ctx_create is the end of it that
\* begins with what undoes the last call that succeeded.
core_ctx_destroy == [i \in 1..7 |-> Call(<<"proxy_deinit", "server_pool_disconnect",
              "event_base_destroy", "stats_destroy", "server_pool_deinit",
              "conf_destroy", "gf_free">>[i])]

From(name) ==
    LET k == CHOOSE i \in 1..7 : core_ctx_destroy[i] = Call(name)
    IN SubSeq(core_ctx_destroy, k, 7)

Finish == <<Call("conn_deinit"), Call("gf_post_run")>>
core_stop == <<Call("conn_deinit")>> \o core_ctx_destroy \o <<Call("gf_post_run")>>

Init ==
    /\ nci \in [wanted : BOOLEAN, pidfile : {FALSE}, file : {FALSE}]
    /\ \E daemonize \in BOOLEAN : todo = main(daemonize, nci.wanted)
    /\ heap = {} /\ fds = Std
    /\ cs = [conn |-> [c \in Conn |-> [st |-> "never", owner |-> Nobody, open |-> FALSE]],
             freeq |-> <<>>, nleak |-> 0, broken |-> {}, touched |-> {}]
    /\ nfd \in NFD /\ max_nsconn = 0 /\ max_ncconn = 0
    /\ thread = "none" /\ stopping = FALSE /\ interrupted = FALSE /\ nfault = 0

-----------------------------------------------------------------------------
At(name) == todo # <<>> /\ Head(todo)[1] = name
ThePool == Head(todo)[2]
TheServer == Head(todo)[3]
Succeeds == todo' = Tail(todo) /\ UNCHANGED nfault
Faulty == nfault < MaxFault /\ nfault' = nfault + 1
FailsTo(rest) == Faulty /\ todo' = rest
Unwinds(name) == FailsTo(From(name) \o Finish)

Opened == {c \in Conn : cs.conn[c].open}
Open == Cardinality(fds) + Cardinality(Opened) + cs.nleak
Room == Open < nfd
OwnedBy(h, o) == {c \in Conn : h.conn[c].owner = o}

(* gf_connection.c.                                                        *)
Available(h) == IF h.freeq # <<>> THEN {Head(h.freeq)}
                ELSE LET new == {c \in Conn : h.conn[c].st = "never"}
                     IN IF new = {} THEN {} ELSE {Min(new)}

conn_get(h, c, o, open) ==
    [h EXCEPT !.conn[c] = [st |-> "used", owner |-> o, open |-> open],
              !.freeq = IF @ = <<>> THEN @ ELSE Tail(@)]

Released == [st |-> "free", owner |-> Nobody, open |-> FALSE]

\* conn_put of the structures of S one after the other (array_each, and the
\* loop over s_conn_q): each is inserted at the head, and the first put writes
\* into the structure that was it.  Which is put first is not told apart.
conn_put(h, S) ==
    [h EXCEPT !.conn = [c \in Conn |-> IF c \in S THEN Released ELSE @[c]],
              !.freeq = SetToSeq(S) \o @,
              !.broken = @ \cup {b \in {"conn_put: sd < 0"} : \E c \in S : h.conn[c].open},
              !.touched = @ \cup {t \in {Block("free_connq")} :
                 S # {} /\ h.freeq # <<>> /\ h.conn[Head(h.freeq)].st = "freed"}]

\* proxy_close and client_close close the descriptor first.
Closed(h, S) ==
    conn_put([h EXCEPT !.conn = [c \in Conn |->
                 IF c \in S THEN [@[c] EXCEPT !.open = FALSE] ELSE @[c]]], S)

\* server_close puts an open connection without closing its descriptor.
server_close(h, S) ==
    conn_put([h EXCEPT !.nleak = @ + Cardinality({c \in S : h.conn[c].open})], S)

-----------------------------------------------------------------------------
(* gf_pre_run.                                                             *)
PreRunFails == FailsTo(<<Call("gf_post_run")>>)

log_init ==
    /\ At("log_init")
    /\ \/ Succeeds /\ Room /\ fds' \in {fds, fds \cup {"log"}}
       \/ PreRunFails /\ UNCHANGED fds
    /\ UNCHANGED <<heap, cs, env, nci, thread, stopping, interrupted>>

\* gf_daemonize keeps the descriptors; signal_init has no state of its own.
Prepared ==
    /\ At("gf_daemonize") \/ At("signal_init")
    /\ Succeeds \/ PreRunFails
    /\ UNCHANGED <<heap, fds, cs, env, nci, thread, stopping, interrupted>>

\* mutant: pidfile is set when all went well
MutPidfileLast(written) == [nci EXCEPT !.file = TRUE, !.pidfile = written]

\* The file is open, and the pid written to it or not.
PidfileOpened(written) == [nci EXCEPT !.file = TRUE, !.pidfile = TRUE]

\* The pid cannot be written: gf_create_pidfile returns without close.
LosesFd(h) == [h EXCEPT !.nleak = @ + 1]

gf_create_pidfile ==
    /\ At("gf_create_pidfile")
    /\ \/ Succeeds /\ Room /\ nci' = PidfileOpened(TRUE) /\ UNCHANGED cs
       \/ PreRunFails /\ UNCHANGED <<nci, cs>>
       \/ PreRunFails /\ Room /\ nci' = PidfileOpened(FALSE) /\ cs' = LosesFd(cs)
    /\ UNCHANGED <<heap, fds, env, thread, stopping, interrupted>>

-----------------------------------------------------------------------------
(* core_ctx_create.  The blocks a call allocates, and the call whose       *)
(* failure unwinds as far as it.                                           *)

Allocates(name, blocks, rest) ==
    /\ At(name)
    /\ \/ Succeeds /\ heap' = heap \cup blocks
       \/ FailsTo(rest) /\ UNCHANGED heap
    /\ UNCHANGED <<fds, cs, env, nci, thread, stopping, interrupted>>

core_ctx_alloc == Allocates("core_ctx_alloc", {Block("ctx")}, Finish)
conf_create == Allocates("conf_create", {Block("conf")}, From("gf_free") \o Finish)
server_pool_array ==
    Allocates("server_pool_array", {Block("pools")}, From("conf_destroy") \o Finish)

\* conf_pool_each_transform pushes the pool, and server_init may fail for it.
conf_pool_each_transform ==
    /\ At("conf_pool_each_transform")
    /\ LET transformed == heap \cup {<<"pool", ThePool>>} IN
       \/ Succeeds /\ heap' = transformed \cup {<<"servers", ThePool>>}
       \/ Unwinds("server_pool_deinit") /\ heap' = transformed
    /\ UNCHANGED <<fds, cs, env, nci, thread, stopping, interrupted>>

server_pool_each_run ==
    Allocates("server_pool_each_run", {<<"continuum", ThePool>>},
              From("server_pool_deinit") \o Finish)

\* mutant: the listener of the pool is not counted
MutNoListener(p) == SERVER_CONNECTIONS[p] * NSERVER[p]

\* What a pool may open for itself.
MaxOfPool(p) == SERVER_CONNECTIONS[p] * NSERVER[p] + 1

server_pool_each_calc_connections ==
    /\ At("server_pool_each_calc_connections")
    /\ Succeeds
    /\ max_nsconn' = MapThenSumSet(MaxOfPool, Pool) % WORD
    /\ UNCHANGED <<heap, fds, cs, nfd, max_ncconn, nci, thread, stopping, interrupted>>

core_calc_connections ==
    /\ At("core_calc_connections")
    /\ \/ Succeeds /\ max_ncconn' = (nfd - max_nsconn - RESERVED_FDS) % WORD
       \/ Unwinds("server_pool_deinit") /\ UNCHANGED max_ncconn
    /\ UNCHANGED <<heap, fds, cs, nfd, max_nsconn, nci, thread, stopping, interrupted>>

stats_alloc ==
    Allocates("stats_alloc", {Block("stats")}, From("server_pool_deinit") \o Finish)

\* One of the three maps, <<m, p>> when pool p is on its array; it may fail
\* before there is an array, or in any pool, which then is on it already.
stats_pool_map ==
    /\ \E m \in Map :
          /\ At(m)
          /\ \/ Succeeds /\ heap' = heap \cup {<<m, p>> : p \in Pool}
             \/ /\ Unwinds("stats_destroy")
                /\ \E p \in Pool \cup {0} : heap' = heap \cup {<<m, q>> : q \in 1..p}
    /\ UNCHANGED <<fds, cs, env, nci, thread, stopping, interrupted>>

stats_create_buf ==
    Allocates("stats_create_buf", {Block("buf")}, From("stats_destroy") \o Finish)

\* The address is resolved, and bound, when there is a socket.
stats_listen ==
    /\ At("stats_listen")
    /\ \/ Succeeds /\ Room /\ fds' = fds \cup {"stats"}
       \/ Unwinds("stats_destroy") /\ UNCHANGED fds
       \/ Unwinds("stats_destroy") /\ Room /\ fds' = fds \cup {"stats"}
    /\ UNCHANGED <<heap, cs, env, nci, thread, stopping, interrupted>>

\* pthread_create returns an error number, which is not negative: without the
\* thread, start-up goes on.
pthread_create ==
    /\ At("pthread_create")
    /\ \/ Succeeds /\ thread' = "new"
       \/ FailsTo(Tail(todo)) /\ UNCHANGED thread
    /\ UNCHANGED <<heap, fds, cs, env, nci, stopping, interrupted>>

event_base_create ==
    /\ At("event_base_create")
    /\ \/ Succeeds /\ Room /\ fds' = fds \cup {"epoll"} /\ heap' = heap \cup {Block("evb")}
       \/ Unwinds("stats_destroy") /\ UNCHANGED <<fds, heap>>
    /\ UNCHANGED <<cs, env, nci, thread, stopping, interrupted>>

(* server_conn and server_connect, for a server that may take one more: a  *)
(* connect that fails, with or without a socket, ends in server_close.     *)
Connect(p, s) ==
    \E c \in Available(cs) :
        \/ /\ Room /\ UNCHANGED nfault
           /\ cs' = conn_get(cs, c, <<"server", p, s>>, TRUE)
        \/ /\ Faulty
           /\ \E open \in {FALSE, Room} :
                 cs' = server_close(conn_get(cs, c, <<"server", p, s>>, open), {c})

server_each_preconnect ==
    /\ At("server_each_preconnect")
    /\ \/ Connect(ThePool, TheServer) /\ todo' = Tail(todo)
       \/ Unwinds("server_pool_disconnect") /\ UNCHANGED cs
    /\ UNCHANGED <<heap, fds, env, nci, thread, stopping, interrupted>>

\* conn_get_proxy and proxy_listen; a failure there closes the connection, and
\* proxy_init then calls proxy_deinit.
proxy_each_init ==
    /\ At("proxy_each_init")
    /\ \/ /\ Succeeds /\ Room
          /\ \E c \in Available(cs) :
                cs' = conn_get(cs, c, <<"proxy", ThePool, 0>>, TRUE)
       \/ Unwinds("proxy_deinit") /\ UNCHANGED cs
       \/ /\ Unwinds("proxy_deinit")
          /\ \E c \in Available(cs) :
                cs' = Closed(conn_get(cs, c, <<"proxy", ThePool, 0>>, Room), {c})
    /\ UNCHANGED <<heap, fds, env, nci, thread, stopping, interrupted>>

-----------------------------------------------------------------------------
(* core_loop.                                                              *)
ncurr_cconn == Cardinality({c \in Conn : cs.conn[c].owner[1] = "client"})

\* proxy_accept: a client beyond the limit is closed at once.
proxy_accept(p) ==
    /\ At("core_loop") /\ Room /\ ncurr_cconn < max_ncconn
    /\ \E c \in Available(cs) : cs' = conn_get(cs, c, <<"client", p, 0>>, TRUE)
    /\ UNCHANGED <<todo, heap, fds, env, nci, thread, stopping, interrupted, nfault>>

client_close ==
    /\ At("core_loop") /\ Faulty
    /\ \E p \in Pool : \E c \in OwnedBy(cs, <<"client", p, 0>>) : cs' = Closed(cs, {c})
    /\ UNCHANGED <<todo, heap, fds, env, nci, thread, stopping, interrupted>>

\* A request goes to a server that has fewer than server_connections.
server_pool_conn(p, s) ==
    /\ At("core_loop")
    /\ Cardinality(OwnedBy(cs, <<"server", p, s>>)) < SERVER_CONNECTIONS[p]
    /\ Connect(p, s)
    /\ UNCHANGED <<todo, heap, fds, env, nci, thread, stopping, interrupted>>

ServerCloses(p, s) ==
    /\ At("core_loop") /\ Faulty
    /\ \E c \in OwnedBy(cs, <<"server", p, s>>) : cs' = server_close(cs, {c})
    /\ UNCHANGED <<todo, heap, fds, env, nci, thread, stopping, interrupted>>

\* event_wait fails, gf_run leaves its loop and calls core_stop.
core_loop ==
    /\ At("core_loop") /\ FailsTo(core_stop)
    /\ stopping' = TRUE
    /\ UNCHANGED <<heap, fds, cs, env, nci, thread, interrupted>>

-----------------------------------------------------------------------------
(* Unwinding.                                                              *)
Uses(h, blocks) == [h EXCEPT !.touched = @ \cup (blocks \ heap)]

proxy_deinit ==
    /\ At("proxy_deinit") /\ Succeeds
    /\ cs' = Closed(Uses(cs, {Block("pools"), Block("conf")}),
                    UNION {OwnedBy(cs, <<"proxy", p, 0>>) : p \in Pool})
    /\ UNCHANGED <<heap, fds, env, nci, thread, stopping, interrupted>>

\* server_close counts in the statistics, and logs names of the configuration.
server_pool_disconnect ==
    /\ At("server_pool_disconnect") /\ Succeeds
    /\ cs' = server_close(Uses(cs, {Block("pools"), Block("stats"), Block("conf")}),
                          {c \in Conn : cs.conn[c].owner[1] = "server"})
    /\ UNCHANGED <<heap, fds, env, nci, thread, stopping, interrupted>>

event_base_destroy ==
    /\ At("event_base_destroy") /\ Succeeds
    /\ fds' = fds \ {"epoll"} /\ heap' = heap \ {Block("evb")}
    /\ UNCHANGED <<cs, env, nci, thread, stopping, interrupted>>

\* The aggregator is not waited for: it runs on.  stats_pool_unmap takes the
\* pools of an array with array_get and leaves them on it, when array_deinit
\* asserts that none is.
stats_destroy ==
    /\ At("stats_destroy") /\ Succeeds
    /\ fds' = fds \ {"stats"}
    /\ heap' = heap \ ({Block("stats"), Block("buf")} \cup (Map \X Pool))
    /\ cs' = [cs EXCEPT !.broken = @ \cup {b \in {"array_deinit: nelem == 0"} :
                                            heap \cap (Map \X Pool) # {}}]
    /\ UNCHANGED <<env, nci, thread, stopping, interrupted>>

server_pool_deinit ==
    /\ At("server_pool_deinit") /\ Succeeds
    /\ LET held(k) == {c \in Conn : cs.conn[c].owner[1] = k}
           fails == {a \in {<<"proxy", "p_conn == NULL">>,
                            <<"client", "nc_conn_q == 0">>,
                            <<"server", "ns_conn_q == 0">>} : held(a[1]) # {}}
       IN cs' = [Uses(cs, {Block("conf")}) EXCEPT !.broken = @ \cup {a[2] : a \in fails}]
    /\ heap' = heap \ ({Block("pools")} \cup ({"pool", "servers", "continuum"} \X Pool))
    /\ UNCHANGED <<fds, env, nci, thread, stopping, interrupted>>

conf_destroy ==
    /\ At("conf_destroy") /\ Succeeds
    /\ heap' = heap \ {Block("conf")}
    /\ UNCHANGED <<fds, cs, env, nci, thread, stopping, interrupted>>

gf_free ==
    /\ At("gf_free") /\ Succeeds
    /\ heap' = heap \ {Block("ctx")}
    /\ UNCHANGED <<fds, cs, env, nci, thread, stopping, interrupted>>

\* conn_deinit frees the structures of free_connq and leaves its head.
conn_deinit ==
    /\ At("conn_deinit") /\ Succeeds
    /\ cs' = [cs EXCEPT !.conn = [c \in Conn |->
                 IF c \in ToSet(cs.freeq) THEN [cs.conn[c] EXCEPT !.st = "freed"]
                 ELSE cs.conn[c]]]
    /\ UNCHANGED <<heap, fds, env, nci, thread, stopping, interrupted>>

\* gf_remove_pidfile, log_deinit; then main exits.
gf_post_run ==
    /\ At("gf_post_run") /\ Succeeds
    /\ nci' = [nci EXCEPT !.file = @ /\ ~nci.pidfile]
    /\ fds' = fds \ {"log"}
    /\ UNCHANGED <<heap, cs, env, thread, stopping, interrupted>>

\* signal_handler: SIGINT exits where the process is, once it is handled.
signal_handler ==
    /\ todo # <<>> /\ ~\E i \in DOMAIN todo : todo[i] = Call("signal_init")
    /\ todo' = <<>> /\ interrupted' = TRUE
    /\ UNCHANGED <<heap, fds, cs, env, nci, thread, stopping, nfault>>

-----------------------------------------------------------------------------
(* The aggregator: event_loop_stats and its callback, stats_loop_callback. *)

\* It uses st, the arrays or the buffer, which stats_destroy frees.
UsesStats(h) == [h EXCEPT !.touched = @ \cup {t \in {Aggregator} : Block("stats") \notin heap}]

\* epoll_create fails, or epoll_ctl does for a descriptor that was closed.
event_loop_stats ==
    /\ todo # <<>> /\ thread = "new"
    /\ \/ /\ Room /\ "stats" \in fds
          /\ fds' = fds \cup {"stats epoll"} /\ thread' = "loop"
          /\ cs' = UsesStats(cs)
       \/ ~Room /\ thread' = "none" /\ UNCHANGED <<fds, cs>>
       \/ /\ Room /\ "stats" \notin fds
          /\ thread' = "none" /\ UNCHANGED fds
          /\ cs' = UsesStats(cs)
    /\ UNCHANGED <<todo, heap, env, nci, stopping, interrupted, nfault>>

\* On every interval, whether or not there is anything to aggregate.
stats_aggregate ==
    /\ todo # <<>> /\ thread = "loop"
    /\ cs' = UsesStats(cs)
    /\ UNCHANGED <<todo, heap, fds, env, nci, thread, stopping, interrupted, nfault>>

stats_send_rsp ==
    /\ todo # <<>> /\ thread = "loop"
    /\ \/ /\ "stats" \in fds /\ "collector" \notin fds /\ Room
          /\ fds' = fds \cup {"collector"}
       \/ /\ "collector" \in fds
          /\ fds' = fds \ {"collector"}
    /\ cs' = UsesStats(cs)
    /\ UNCHANGED <<todo, heap, env, nci, thread, stopping, interrupted, nfault>>

Next ==
    \/ log_init \/ Prepared \/ gf_create_pidfile
    \/ core_ctx_alloc \/ conf_create \/ server_pool_array
    \/ conf_pool_each_transform \/ server_pool_each_calc_connections
    \/ server_pool_each_run \/ core_calc_connections
    \/ stats_alloc \/ stats_pool_map \/ stats_create_buf \/ stats_listen
    \/ pthread_create \/ event_base_create
    \/ server_each_preconnect \/ proxy_each_init
    \/ \E p \in Pool : proxy_accept(p)
    \/ client_close
    \/ \E p \in Pool : \E s \in 1..NSERVER[p] :
          server_pool_conn(p, s) \/ ServerCloses(p, s)
    \/ core_loop
    \/ proxy_deinit \/ server_pool_disconnect \/ event_base_destroy
    \/ stats_destroy \/ server_pool_deinit \/ conf_destroy \/ gf_free
    \/ conn_deinit \/ gf_post_run \/ signal_handler
    \/ event_loop_stats \/ stats_aggregate \/ stats_send_rsp

Spec == Init /\ [][Next]_vars

-----------------------------------------------------------------------------
(* Whatever call fails while the context is created, what the error path   *)
(* of core_ctx_create closes and frees is there, and main uses nothing     *)
(* after it was freed.  Of the assertions on the way those that the code   *)
(* always breaks may fail, and no other: a connection put with its         *)
(* descriptor open (gf_server.c:364), arrays of statistics freed with      *)
(* pools on them (gf_stats.c:315).  The aggregator, for which nobody       *)
(* waits, may use what stats_destroy freed.                                *)
Known == {"conn_put: sd < 0", "array_deinit: nelem == 0"}
UnwindingIsSafe ==
    /\ TypeOK
    /\ ~stopping => cs.touched \subseteq {Aggregator} /\ cs.broken \subseteq Known

(* When main ends, by a failure at any point or after core_stop, blocks,   *)
(* structures, descriptors and the pid file it made have been given back.  *)
(* What is left are the clients core_stop never closes, the structures it  *)
(* puts after conn_deinit, the descriptors of the aggregator, for which    *)
(* nobody waits, and those that are lost (nleak): of connections by        *)
(* server_close, and of a pid file that could not be written               *)
(* (gfw.c:259).                                                            *)
EverythingReturned ==
    todo = <<>> /\ ~interrupted =>
        /\ heap = {} /\ ~nci.file
        /\ fds \subseteq Std \cup {"stats epoll", "collector"}
        /\ \A c \in Conn : cs.conn[c].st \in {"used", "free"} =>
              /\ stopping
              /\ cs.conn[c].st = "used" => cs.conn[c].owner[1] = "client"

(* If the limit of descriptors exceeds what servers, listeners and the     *)
(* process itself may need, max_ncconn keeps a descriptor for each: accept *)
(* and connect find one, but for those that were lost.  Else max_ncconn    *)
(* wraps round.                                                            *)
ClientsLeaveRoom ==
    At("core_loop") /\ nfd >= max_nsconn + RESERVED_FDS => Open - cs.nleak < nfd

-----------------------------------------------------------------------------
(* What comments and assertions say and the code does not do; checked by   *)
(* MCLifecycle_room.cfg, MCLifecycle_stop.cfg and MCLifecycle_unmap.cfg.   *)

(* proxy_accept: "We should never reach here because the check for         *)
(* conn_ncurr_cconn() against ctx->max_ncconn should catch this earlier"   *)
(* (gf_proxy.c:311), of an accept that is out of descriptors: server_close *)
(* loses one with each open connection it closes.                          *)
RoomToAccept ==
    At("core_loop") /\ nfd >= max_nsconn + RESERVED_FDS /\ ncurr_cconn < max_ncconn
        => Room

(* server_pool_deinit asserts that the pool has no clients                 *)
(* (gf_server.c:911): core_stop closes none.                               *)
StopAsserts == "nc_conn_q == 0" \notin cs.broken

(* array_deinit asserts that the array is empty (gf_array.c:74):           *)
(* stats_pool_unmap empties none.                                          *)
UnmapAsserts == "array_deinit: nelem == 0" \notin cs.broken

=============================================================================
