# gfwproxy in TLA+

gfwproxy is a proxy for memcache and redis in C: a fork of twemproxy
(nutcracker). It multiplexes many client connections over few server
connections, pipelines requests, spreads keys over the servers of a pool and
takes servers that fail out of the distribution. This directory holds the
models of it, the runs that check them with TLC and proofs that TLAPS checks.

Run TLC with `tlc -config <cfg> <MC module>` and the prover with
`tlapm <Proofs module>`. `PROJECT.json` lists runs, theorems, the lines of the
source each definition stands for, the findings and the hazards.

## The system

One thread runs the event loop and everything about connections; a second one
aggregates and reports the statistics.

| Part | Source | State | Operations | Hard about it |
|---|---|---|---|---|
| event loop | `gf_core.c`, `event/gf_epoll.c` | the epoll set, `send_active` of each connection | `core_loop`, `core_core`, `core_close`, `core_timeout`, `event_wait`, `event_add_out`, `event_del_out` | edge-triggered: an edge that is spent and not used never comes back; events of a batch for connections closed meanwhile |
| clients | `gf_client.c`, `gf_request.c` | out_q: requests in the order of arrival | `req_recv_next`, `req_recv_done`, `req_filter`, `req_forward`, `client_close` | pipelining, half-close, leaving while servers hold the requests |
| servers | `gf_server.c`, `gf_response.c` | in_q (to send), out_q (sent, to be answered) | `server_conn`, `server_connect`, `server_close`, `req_send_next`, `req_send_done`, `rsp_filter`, `rsp_forward` | responses are paired by position only |
| responses to clients | `gf_response.c` | the head of the client's out_q | `rsp_send_next`, `rsp_send_done` | a response completes while its client is not at its turn |
| connection structures | `gf_connection.c` | `free_connq`, `s_conn_q` of each server | `conn_get`, `conn_put`, `conn_recv`, `conn_sendv` | structures are reused at once, and named by events, timers and requests |
| listener | `gf_proxy.c` | the count of clients | `proxy_recv`, `proxy_accept` | several clients for one edge; the limit |
| messages | `gf_message.c`, `gf_mbuf.c`, `gf_rbtree.c` | `tmo_rbt`, buffers | `msg_recv`, `msg_send`, `msg_tmo_insert`, `msg_tmo_delete` | partial reads and writes; who frees a request |
| ejection, distribution | `gf_server.c`, `hashkit/gf_{ketama,modula,random}.c` | `failure_count`, `next_retry`, `next_rebuild`, `nlive_server`, `continuum` | `server_failure`, `server_ok`, `server_pool_update`, `*_update`, `*_dispatch` | failures, late answers, requests and the clock in any order |
| statistics | `gf_stats.c` | `current`, `shadow`, `sum`, flags `updated`, `aggregate` | incr, decr, set_ts, `stats_swap`, `stats_aggregate` | two threads and no lock |
| timeout tree, buffers | `gf_rbtree.c`, `gf_mbuf.c` | a red-black tree with links to the parent, chunks with `pos` and `last` | `rbtree_insert`, `rbtree_delete`, `mbuf_split` | fixups on a sentinel; positions that must add up over reads, splits and short writes |
| configuration | `gf_conf.c` | the stack `cf->arg`, the pools, `depth` and `seq` | `conf_create`: three passes that check, one that parses, a validation | the parse trusts the passes before it and only asserts; it holds a pointer into an array that grows |
| start and end | `gfw.c`, `gf_core.c`, `gf_signal.c` | what was acquired so far | `gf_pre_run`, `core_start`, `core_stop`, `gf_post_run` | every call may fail, and each failure has an error path of its own; descriptors are limited |

How they meet: epoll calls `core_core`, which calls the `recv` and `send`
handlers of a connection. A client's handler puts a request in its own out_q and
in the in_q of a server, and asks for the write event of that server's
connection. The server's handler writes it, moves it to the server's out_q, and,
when the response comes, marks the request done and asks for the write event of
the client, whose handler writes the responses at the head of its out_q. A close
on either side has to settle what the other side still refers to. Every close of
a server calls `server_failure`, every response `server_ok`, and every forwarded
request asks `server_pool_conn` for a server.

The parsers of both protocols are not in this repository: the functions
`parser`, `fragment`, `reply`, `failure`, `add_auth`, `pre_coalesce` and
`post_coalesce` of a message are NULL (`gf_message.c:226-233, 291-301`). They
are modelled by what their callers expect: a parser finds whole requests, of
which some are noreply and one is quit; `failure` picks some responses. Two hooks
of a server connection are called in any case and have their assignments
commented out (`gf_connection.c:232-238`): `post_connect` (`gf_server.c:565`) and
`swallow_msg` (`gf_response.c:217`). They are taken to do nothing.

What makes each part correct:

- requests and responses: a client gets the responses of its requests, in order,
  once each; no request is used after it was freed, none stays for ever;
- event loop: what can be sent is sent, what can be read is read;
- connections: a structure is in one place, limits hold;
- statistics: no update lost or doubled, no torn report;
- ejection: no request to an ejected server, none refused without need, every
  ejected server comes back; the distribution finds the server of a key, moves
  no key without need and stays within its array;
- split requests: one response, after the last fragment, an error exactly if one
  failed; the fragments of a request are found from each of them;
- bytes: what is written out is what was read, cut where requests end;
- timers: the one that expires first is found, whatever was inserted or deleted;
- configuration: what is refused is what is wrong, what is accepted is complete,
  and no file makes the parser fail an assertion;
- process: whatever call fails, what was acquired is given back, once, in an
  order in which nothing is used after it was freed; clients leave descriptors
  for servers and listeners.

## Modules

| Module | What it is |
|---|---|
| `Proxy` | event loop, clients, servers, listener, requests, timers, with kernel and peers as environment |
| `ProxyProofs` | theorems about `Proxy`: types, structures and their lists, the limit of clients; and what each step does to sockets, structures and requests, for the proofs that follow |
| `ProxyRequests` | theorems: who holds a request, where its timer is, that what waits to be sent to a server is sent, and that responses are in order and of the right request |
| `Stats`, `StatsProofs` | the two threads of the statistics, and theorems |
| `ServerPool`, `ServerPoolProofs` | ejection and distribution, and theorems |
| `Fragments`, `FragmentsProofs` | requests that are split over servers and gathered again, theorems, and the theorem that they implement `Gather` |
| `Gather` | abstract: what a client may expect of such requests |
| `Stream`, `StreamProofs` | bytes, buffers, parsing, `writev`, and theorems |
| `RbTree` | the timeout tree, by its pointers |
| `Timers` | abstract: a queue of timers; `RbTree` implements it |
| `Conf`, `ConfProofs` | reading, checking and parsing the configuration, and theorems |
| `Lifecycle`, `LifecycleProofs` | start, failure of any call, descriptors, end, and theorems |
| `MC...` | values of constants for TLC; no definition of behaviour |

How they fit: `Proxy` is the composition of the event loop with everything it
calls. Four modules open what is one value or one step in it: `RbTree` the
minimum of the timers, `Stream` the messages read and written whole or in part,
`Fragments` the requests for several keys (with the two queues of a server as
one), `ServerPool` the choice of a server. `Lifecycle` is what comes before and
after the loop, with the traffic reduced to the structures and descriptors it
holds, and has `conf_create`, which `Conf` opens, as one step.

In a module a definition that begins with `Mut` is a plausible bug in the
definition after it: each property is shown to notice one (`mutants` in
`PROJECT.json`).

### Proxy

`conn` and `msg` are the structures, `free_connq` and `s_conn_q` the lists that
hold them. A request is its number. `msg[m].tmo` and `key` stand for the node in
the timeout tree; as the pool has one timeout, the order of insertion (`clock`)
is the order of the keys. `sock` is the kernel's side: what can be read (`inq`),
what the peer has to answer (`wire`), whether the buffer is full, whether the
socket is on epoll's ready list (`rdy`) and which structure its registration
names (`ptr`).

A step of the program is one stage of a handler for one message: `pc` says which
stage, `cur` for which connection, `cmsg` and `scur` which request is being
forwarded to which server. In between the kernel and the peers may act, on
sockets only. Stages follow the code:

- `event_wait` takes up to `NEvent` sockets off the ready list, in any order;
  each event is what is true of the socket then. `core_core` handles the next
  event: not at all if the structure has no owner, a close on error, else the
  read and then the write handler, and `CheckConn` closes on `done` or `err`.
- `recv_*`, `req_recv_*`, `rsp_recv_*` and `rsp_filter_*` read. A read that does
  not fill its buffer ends the loop (`ReadOn`), which may leave a FIN unread.
- `req_recv_done` is followed by `ForwardOnNew` or `ForwardOnLru` (the new or the
  rotated connection of `server_conn`, and the outcome of `server_connect`), then
  `ForwardEnqueue`, or `ForwardRejected` and `req_forward_error`.
- `req_send_*` and `rsp_send_*` write one message; a write may be short.
- `client_close` and `server_close` are whole, with every request in the queues.

A crash of the process (a NULL owner or request) is the state `pc = "crash"`,
from which the program does nothing more. The program reaches it (see Findings),
and the safety properties hold up to and in it.

What the kernel does is external: `ConnectSucceeds`, `SocketDrains`, and so on.
A server answers in order, and misbehaves as `SERVER_FAULTS` allows: an answer
before the request is complete, one that reports a failure, a FIN, a reset, a
connect that fails.

### Stats

A step is one access to a flag, the swap, or one metric of the loops that reset
and add, so that the threads interleave everywhere they share something. `total`,
`handed` and `seen` are history. The two flags are volatile; their accesses and
those to the arrays are taken in program order, as on x86 with a compiler that
does not move the loops across the flags. The C standard promises neither.

### ServerPool

One pool with `auto_eject_hosts`; `Init` chooses its `dist_type`. A key is its hash. `server_failure` is a close
of a connection to the server (`gf_server.c:365, 456`), `server_ok` a forwarded
response (`gf_response.c:255`), `server_pool_conn` a request, in any order and
with time passing in between. `sent` is what the last request led to and `back`
remembers which servers answered after their ejection.

Sums and shares have the width and the precision of the code. `Total` adds
weights modulo `WORD`, 2^32 of a `uint32_t`. `Share` computes the points of a
server in ketama step by step in floats (`gf_ketama.c:161-162`): `Float` rounds a
quotient to `FLT_MANT_DIG` binary digits, to nearest and to even. So a share is
not what it is in exact numbers, and depends on who is live: 25 servers of equal
weight get 156 points each, 24 get 160, and when one of 25 is ejected every other
gets new points. The instance has a small case of the same: three servers get 4
points each and two get 5. The 10^-10 that the code adds changes no float above
0.01 and is left out. A total of 0 in ketama is excluded by assumption
(`ShareAssumption`): the code divides by it, and converts what is infinite to an
integer, which C leaves undefined.

`server_failure` and the rebuild it makes read the clock at one time. A failing
`realloc` and a clock before 1970 are left out; the clock never goes back.

### Fragments and Gather

`msg` holds requests and fragments; `frag_owner`, `frag_id`, `nfrag`,
`nfrag_done`, `fdone`, `ferror` are the fields of `struct msg`. `req_recv_done`
with `req_forward` is one step per fragment, each of which may be queued
(`req_forward`), find no server (`ForwardNowhere`) or fail on `event_add_out` or
`add_auth` (`ForwardUnwritable`). `req_done` and `req_error` walk to the
neighbours in out_q as the code does (`Before`, `After`), and what a call of
`req_done` leaves behind, the coalescing, is `Coalesced`. The writing side
gathers what is done (`rsp_send_next`, `rsp_make_error`) and writes all of it,
some of it or half of one (`SendChain`). `peer` is which response is there, two
halves of which make it; `wire` is what the client got.

`Gather` has per client a list of requests with the number of parts still open.
The mapping takes the requests of out_q followed by those being forwarded,
`Left` the parts that do not count as done, and the second halves in `wire` for
what the client was told. `Lose` is the code's behaviour on failures that count
nowhere: the request is in error and never answered.

### Stream

The n-th byte of the client is the number n, so that content, order and cuts are
visible in every buffer. `conn_recv` reads what is there into the room of the
last buffer; the parser (external) finds the end of a request, asks for more or,
at the end of a full buffer, for a repair at any position; `msg_parsed` splits;
`msg_send_chain` gathers up to `IOV_MAX` buffers and writes any number of bytes.
The free list of buffers is left out: `mbuf_get` resets what it takes from there.
A repair is taken at places inside a buffer, not at its start or end, and errors
of reads and writes are left out; `Proxy` has them.

### RbTree and Timers

`mem` has a record per node with its links, key, colour and `data`; the sentinel
is a node. `msg_tmo_insert` and `msg_tmo_delete` are split into the turns of
their loops, so that what holds between two turns can be said. `Timers` orders by
expiry and then by insertion, which is what going right on equal keys amounts to.

### Conf

A file is a sequence of YAML events, chosen as `conf_validate_structure` reads
them (`NextEvents`: what a YAML parser may deliver next), and read again by the
parse, which chooses the texts of the scalars then. `check` holds the local
variables of the structure pass. `open` and `path` are where the reader is in
the file by YAML's rules: the yardstick for `cf->depth`, `cf->seq` and the stack
`arg`. `data` is the pointer to a pool as an index and the generation of the
array, which changes when the array moves. One directive of each `conf_set_`
function stands for those with the same one. An address that does not resolve
is one fault; a failed allocation or read another. `NoHost` stands for a text
that leaves the name empty: a port without a host or, as a server, a value in
quotes that ends in a space.

### Lifecycle

`todo` is what `main` has still to call, so that an error path is a list that
replaces the rest. `heap` and `fds` hold what is there, `cs` the connection
structures, the assertions that failed and what was touched after it was freed.
The error paths of `core_ctx_create` are ends of `core_ctx_destroy`, which
`From` states and which was read off each of them. Connections to servers, which
preconnect and requests make, take structures and descriptors of the same limit
as clients and the aggregator do. `conn_put`, `Closed` and `server_close` take
the set of structures that a loop of the code puts; in which order the free list
then has them is not told apart. `nleak` counts the descriptors nothing names any
more: those `server_close` leaves open, and that of a pid file that could not be
written. The aggregator runs on whatever `main` does: when it uses the statistics
after `stats_destroy` freed them, on an interval, a request or an error of
`epoll_ctl`, `cs.touched` has `Aggregator`; what it does with what it then reads
is undefined and not followed.

## Runs

| Run | Checks | Instance | States |
|---|---|---|---|
| `faults` | `TypeOK ResponsesPaired QueuesInSync RequestsAreThere ConnPools QueuedHaveTimer ClientLimit` | 3 clients for a limit of 2, 2 requests of any kind, 1 server, timeouts, one fault of any kind, every outcome of connect, one short write | 824,253 |
| `order` | `ResponsesInOrder NoLostServerWakeup RequestsReachWire UnwantedAreFreed` | 2 clients that may reset, 2 requests, 2 servers, batches of 2 events, one short write, fair | 365,799 |
| `stats` | `TypeOK Conserved HandOff SnapshotReports CountersGrow UpdatesGetCounted`, deadlock | one metric of each type, 3 updates | 154,222 |
| `pool` | `RetriesArePlanned RequestsRouted ContinuumFits SuccessorOnRing KeysStay EjectedRetried` | 3 servers; ketama with equal weights and with weights 3, 1, 2 and distinct points; ketama, modula and random with these weights and colliding points; floats of few digits; fair | 209,610 |
| `rbtree` | `RedBlackTree LoopsEnd ImplementsQueue`, deadlock | 6 nodes, three pairs of equal times | 504,393 |
| `fragments` | `FragmentTree CountsAgree ResponsesWhole ImplementsGather` | 2 clients, 2 servers, 4 requests and fragments, 2 failures | 151,867 |
| `stream` | `BuffersHoldStream RequestsWhole SendDoneExactly` | requests of 5, 1, 2, 4, 3 bytes, buffers of 3, vectors of 2 | 29,605 |
| `conf` | `StructureExact AssertionsHold HandlersRight AcceptedIsSound` | files of up to 2 pools, an array that grows at the second, one directive besides listen and servers, one fault | 11,225,231 |
| `lifecycle` | `UnwindingIsSafe EverythingReturned ClientsLeaveRoom` | a pool of 2 servers that preconnects and one of a server, limits of 13 and 16 descriptors, 2 failures | 844,202 |

The comment before each property says what it means and which code it is about.

Why the bounds are enough. In `Proxy` two clients and two requests are what
pairing, swallowing and freeing need to go wrong: a request of a client that
left in front of one of a client that is there. Two requests on two servers
allow responses in another order than the requests. One fault in a run, at any
point, is every single failure; the violations that need a second connection
after the first one closed are reached, as `MaxSd` leaves room for it. Sockets
are never reused as numbers, structures are. In `Stats` a metric of each type
covers the three ways to add, and three updates fall before, during and after
two swaps. In `ServerPool` three servers give none, some and all ejected, with
two different times of retry; `MaxTime` leaves the last retry its time, and
`FAILURE_LIMIT = 2` a failure that does not eject. With random as a distribution
every live server is a possible answer. Shares change with who is live, so
`KeysStay` is about two servers of which one loses no points by the rebuild and
the other wins none: the instance has rebuilds that keep all shares (one and two
live servers with equal weights) and rebuilds that change them. In `RbTree` six nodes
reach every case of both fixups, on both sides, with and without a turn of the
loop before it. In `Fragments` four messages are a split request with two
fragments next to a plain one, or two split ones with one fragment each, and two
failures let both fragments fail, each in its way. In `Stream` there are
requests shorter than, as long as and longer than a buffer, a buffer with two
ends in it, and writes that end inside a buffer, at its end and at the end of a
vector. In `Conf` the second pool moves the array (`PoolAlloc = 1` for
`CONF_DEFAULT_POOL = 8`), and the spare scalars give every pool more than the
least it needs, where a counter that was not reset or a scalar left on the stack
would show; a file that is not in shape is refused at its first event out of
place, so that longer ones add nothing before it. In `Lifecycle` 13 descriptors
are one less than servers, listeners and the process need, so that `max_ncconn`
wraps round, 16 leave two for clients, and two failures allow one that unwinds
after one that does not (a thread that does not start, a server that cannot be
reached, a client that leaves).

Deadlock is checked in `stats` and `rbtree`. The other systems may stop: `Proxy`
when the bounded peers have nothing more to do or after a crash, `ServerPool` at
the end of time, `Fragments` and `Stream` when the clients are done, `Conf` and
`Lifecycle` when the program ends.

Fairness. `Proxy`: the loop runs when it can (one thread, never blocked but in
`epoll_wait`); pending connects end and peers read what was sent to them; a
server answers. `Stats`: `core_loop` calls `stats_swap` after every `epoll_wait`,
whose timeout is bounded by `max_timeout`, and the aggregator wakes up every
`interval`. `ServerPool`: time passes and requests keep coming, which is an
assumption on the clients: without a request nothing rebuilds the distribution.
It is written `[]<>~Due`: a rebuild that is due does not stay due, which is what
weak fairness of a request that rebuilds amounts to. The rest is safety;
that the loops of `RbTree` end is a measure that every turn lowers (`LoopsEnd`).

## Findings

Each of these runs checks what a comment or an assertion says and TLC finds it
violated.

| Run | What happens |
|---|---|
| `idle` | `gf_response.c:313` has `&&` for `\|\|`: a write event for a client with an empty out_q dereferences NULL. The path is short, so other runs stop there often; they explore everything that does not. |
| `early` | `server_close` (`gf_server.c:364`) returns early on an open socket: the requests that wait on it are never failed. It also puts the structure into the free list with its socket open, which `conn_put` asserts against (`gf_connection.c:297`). |
| `wakeup` | a client waits with the write event on: the response that comes raises no edge. |

Seven more configurations have one property each that TLC finds violated; they
are kept beside the runs:

| Configuration | Property | What happens |
|---|---|---|
| `MCProxy_expire.cfg` | `TimeoutClosesServers` | `core_timeout` (`gf_core.c:317`) closes the structure that a timer names, which is free, or a client by now: the timers of requests that `server_close` left in place (`gf_server.c:364`). The comment says "timeout expired req and all the outstanding req on the timing out server" (`gf_core.c:298-301`). |
| `MCProxy_fin.cfg` | `ServerFinCloses` | a FIN behind data that a short read took is not seen (`gf_connection.c:349`): the edge is spent, `EPOLLRDHUP` is not asked for, and only a chance `EPOLL_CTL_MOD` (`Rearmed`, `Disarmed`) has it reported. |
| `MCLifecycle_room.cfg` | `RoomToAccept` | accept is out of descriptors with clients below `max_ncconn`, where `gf_proxy.c:311` says "We should never reach here": `server_close` loses a descriptor with each open connection it closes. |
| `MCLifecycle_stop.cfg` | `StopAsserts` | `core_stop` closes no client, and `server_pool_deinit` asserts that there is none (`gf_server.c:911`). |
| `MCLifecycle_unmap.cfg` | `UnmapAsserts` | `stats_pool_unmap` takes the pools of an array with `array_get` (`gf_stats.c:315`), and `array_deinit` asserts that they were popped (`gf_array.c:74`): the assertion fails on every error path after a pool was mapped. |
| `MCServerPool_wrap.cfg` | `PointsFit` | weights that wrap round a `uint32_t` (`gf_modula.c:72`; each may be 2^31-1, `gf_conf.c:1592`): the array is allocated for the remainder and written for the weights. With `WORD = 32` the weights 11, 11, 12 do what three of 1431655766 do in the code. |
| `MCConf_nohost.cfg` | `AssertionsHold` | a server or listen directive without a host has a name of length 0, on which `string_copy` asserts (`gf_conf.c:1488`); a quoted server value that ends in a space meets the same assertion at `gf_conf.c:1621`. |

What the properties of `Lifecycle` leave out is what they say they leave out:
descriptors that `server_close` or a pid file that cannot be written
(`gfw.c:259`) loses, structures put after `conn_deinit` freed the list, clients
that nobody closes, the two assertions that the code breaks on error paths
(`Known`), and the aggregator, for whose end nobody waits, which uses what
`stats_destroy` freed, and whose start may fail unnoticed, as `pthread_create`
returns a positive number (`gf_stats.c:868`). `ContinuumFits` leaves out weights
that wrap round. `CountsAgree` counts the fragments that fail
where nothing counts them (`gf_request.c:608`); `ResponsesWhole` exempts an error
response that was cut and is made again from its start (`gf_response.c:341`).

## Proofs

Proved for every value of the constants that satisfies `ConstantsAssumption` (in
`Proxy`), `StatsAssumption` (in `Stats`), `PoolAssumption` and `ShareAssumption`
(in `ServerPool`), `FragmentsAssumption` (in `Fragments`), `StreamAssumption` (in
`Stream`), `LifecycleAssumption` (in `Lifecycle`) and `ConfAssumption` (in
`Conf`), so for any bound of the runs:

**Proxy.** Each group of theorems stands on the invariant of the one before.

- `ProxyTypeCorrect`, `ProxyConnPools`, `ProxyClientLimit`: `Spec => []` of
  `TypeOK`, `ConnPools` and `ClientLimit`. The inductive invariant is
  `IInv == TypeOK /\ ConnPools /\ Control /\ ClientLimit`. None of the parts is
  inductive alone: a handler dereferences `cur`, and `Control` says that while a
  handler runs `cur` is a structure with an owner and a socket, that while a
  request is forwarded it exists and `cur` is a client, and that in `enqueue` and
  `reject` `scur` is a connection of a server. That holds as nothing is closed
  between. `ConnPools` then says that closing takes the structure out of the one
  list it is in, and that the free list gives one nobody has. The assumption
  `MaxSd < NConn` says that memory is not exhausted.
- `ProxyRequestsAreThere`, `ProxyQueuedHaveTimer` (in `ProxyRequests`): `IInv`
  says nothing of who holds a request, and a handler that takes the head of a
  queue needs that it was not freed. The strengthening is `Proper`. `Wiring`
  ties kernel to program: an open socket is registered for the structure that
  has it (`Sockets`), an open structure is a client or the connection of a
  server (`Structures`), and what is in `cmsg` and `scur` belongs to the stage of
  `pc` (`Stage`). `Requests` then says what is read and not yet in a queue
  (`Unread`), and that each entry of a queue is a request that exists, is in the
  queue once, with its timer and its client where it should be (`Queueing`).
- `ProxyResponsesInOrder`, `ProxyResponsesPaired`, `ProxyQueuesInSync` (in
  `ProxyRequests`): what was written to a client, its out_q and the request
  being forwarded are, one after the other, what it asked (`Ordered`). On the
  other side responses are paired by position alone, so `Pairing` is about
  positions: out_q of a server connection is, in order, what the server has seen
  and not answered, with the requests that timed out or whose client left and
  that are kept to swallow an answer (`Synced`, in terms of `Agree`); a server
  that is not connected says nothing (`Silent`); a request being forwarded was
  not written in part (`Whole`); and a request that is done has the response of
  its own (`Matched`).
- `ProxyNoLostServerWakeup` (in `ProxyRequests`): with edge-triggered events a
  connection that has something to send must have asked for `EPOLLOUT` and still
  have an edge to come, or an event in the batch, or be the one that is served.
  `Roused` says so at every stage of a turn, and `Turns` that a turn leaves no
  event to the next.

**Stats.** `StatsTypeCorrect`, `StatsHandOff`, `StatsConserved`,
`StatsSnapshotReports`, `StatsCountersGrow`. The argument is the hand-over: while
`aggregate` is 1 the generator is outside of `stats_swap`, and while it is inside
`aggregate` is 0 and the aggregator is outside of its loop; the invariant then
says for each metric what of `shadow` was added and what of `current` was reset.

**ServerPool.** `PoolRetriesPlanned`, `PoolRequestsRouted`, `PoolContinuumFits`,
`PoolSuccessorOnRing`, `PoolKeysStay`, from `PoolAssumption`, which says of the
points that a server gets at least twice what one hash gives (160 and 4): without
that a ring could be empty; and from `ShareAssumption`. The proofs do no
arithmetic of floats: they take from it that a share is off by at most its
`PRECISION`th part, which TLC computes for every pool of an instance. There are
five roundings, each off by at most 2^-24 of its result, so in the code the
assumption holds with `PRECISION` 2^24 div 6.
Exact shares add up to the points of the live servers; shares of that precision
to a little more, which the `CONTINUUM_ADDITION` of 10 servers takes up as long
as there are no more servers than `CONTINUUM_ADDITION * PRECISION`. And
`ContinuumFits` assumes, in its statement, that the weights of the pool do not
wrap round. Two parts. What the operators compute: the shares of
the servers add up to no more than was allocated, and not to nothing
(`ShareFacts`, `PointsAdded`, `NeededFits`); the continuum holds every point of
the live servers, by value (`RanksTaken`, `ContinuumFacts`); the binary search
ends where the values reach the key (`SearchFinds`). These are inductions over
sets and numbers. As the library's induction theorems cannot be instantiated,
`SetInduction` and `PeelInduction` state induction with a set for the predicate,
proved from the well-foundedness of the numbers; that a recursive function exists
is then proved like any other fact (`SumExists`, `RightExists`). And the invariant
`IInv`: a retry that is set is the one the ejection set (`RetriesDue`), a server
without one has waited or answered (`TimesServed`), the planned rebuild finds a
live server (`RebuildRevives`), when none is live all were ejected a moment ago
(`AllOut`), and the continuum is that of a set of servers none of which is
ejected (`RingLive`, `RingBuilt`). `RequestsRouted` follows as a request that
is sent takes its server from the ring, and one that is refused finds none.
`KeysStay` follows from `PoolSuccessorOnRing`'s argument for two rings. The points
of a server are a beginning of one list, so one that loses no points has on the
new ring all it had on the old, and one that wins none had all of its points
before. If a key moved from the one to the other each of the two choices would
follow it at least as closely as the other, so as closely, and points are distinct.

**Fragments.** `FragmentTreeHolds`, `CountsAgreeHolds` and `ResponsesWholeHolds`,
all from `FragmentsInvariant`. The three need each other's parts: a response that
is half written must stay the first of out_q (`OnWire`), which holds as nothing of
its request can still fail once it is gathered (`Errors`), which holds as `req_done`
answered for every fragment. That it met every fragment is a fact about neighbours
in a list: the numbers of a request and its fragments are adjacent (`Groups`) and
every queue is in order (`OutQueues`), so all messages between two of one request
in out_q are of that request too. That it counted each fragment once needs that
what a server has to answer is not done and waits in one place only (`Waits`); the
count itself is `Counts`. `Owners` says of a fragment and its request that they are
settled together, or that the fragment is settled or swallowed once the request is
freed. The parts are operators of values, not of the variables, as a handler of the
code is several steps: `pre_coalesce` settles a fragment, then `req_done` of the
head of out_q may mark and coalesce another request, and in between the invariant
holds of a value of `msg` that no state has. So there is a lemma for each such step
(`SettleKeeps`, `MarkKeeps`, `RemoveKeeps`, `CutKeeps`, ...), and an action is a
chain of them. For the writes, `Grows` is an induction over the responses written:
after each, the next one continues what the client has.

**Gather.** `FragmentsImplementGather` (in `FragmentsProofs`): `Spec =>
ImplementsGather`, the abstract specification under the refinement mapping
`Todo` and `Told`. Initial states map to initial states (`InitShown`), and every
step maps to `Ask`, `Settle`, `Lose`, `Answer`, `Leave` or to none (`NextShown`,
from one lemma per action). That an error response means a failed request is not
in `FragmentsInvariant`, which says nothing of which response a message has;
`Peers` does, and is inductive with it: the response of a request is never taken
away, and is an error only if the request or a fragment of it failed, and a
fragment that is done without an error has a reply until its request is
coalesced, when it gives it away. What is open of a request is `Entry`, and the
lemmas of the steps of a handler come again, now for entries: settling a
fragment changes one entry (`SettledEntries`), coalescing changes none
(`CoalescedEntries`), as the fragments of a request that it marks were all
counted. A write is the hard step: the requests it completes are a beginning of
what is open of the client (`RestOf`: what is left are the later messages, and
queues are in order), each has nothing left and an entry that says what its
response says (`AnsweredEntry`), and by induction over the responses written the
second halves in `wire` are those of the first `k` (`HeardGrows`).

**Stream.** `StreamBuffersHold`, `StreamRequestsWhole` and `StreamSendDoneExactly`,
from `StreamInvariant`, for any chunk, vector and lengths of requests. As the
n-th byte is the number n, a buffer holds an interval, and the invariant is about
where the intervals end. What is received begins where the last queued request
ends and reaches to what was read, buffer by buffer (`Reads`), and while nothing
is being parsed no request ends in it. The queue is a list of places (`Queued`):
each message is the request from one place to the next (`Whole`), and what was
written ends in the first of them or where it begins. The three properties follow
from that. Two steps are hard. `writev` may stop anywhere: the places of all
buffers of the vector, one after the other, are one list (`Chained`), and `Clip`
moves each to the later of its own beginning and what was written. And the sums,
concatenations and choices the model computes are recursive functions: a lemma
for each says what it returns (`SumExists`, `FlattenExists`, `ChosenExists`, with induction by
`SetInduction` as for `ServerPool`), so that only places are left to reason about.

**Lifecycle.** `LifecycleUnwindingSafe`, `LifecycleReturned` and
`LifecycleRoomLeft`, from `LifecycleInvariant`. What the process holds depends
on where `main` is, and `todo` tells: while it starts, `todo` is in the order of
`main` (`InOrder`) and the next call has a depth, the step of `core_ctx_destroy`
at which its error path begins (`Started`); while it unwinds, `todo` is an end
of `core_ctx_destroy` (`Undone`); while it stops, an end of `core_stop`
(`Stopped`). For each depth `HeldBy` says which blocks, descriptors, structures
and pid file there are, so that a failure goes over from `Started` to `Undone`
of the same depth: that is the agreement of error paths with what they undo,
which is spread over `core_ctx_create` as labels and calls. `Pending` says what
the calls to come may rely on: pools that have no listener yet, `max_nsconn` and
`max_ncconn` once computed. `ClientsLeaveRoom` needs a count: open structures of
servers and listeners are no more than `max_nsconn`, by induction over the
pools, and clients no more than `max_ncconn`. It assumes that `RESERVED_FDS` is
at least 9 (it is 32, `gf_core.h`), which is the descriptors the process itself
has and the one to accept with, and that the connections of the configuration
fit a `uint32_t`, without which `max_nsconn` wraps round. TLC checked `IInv` on
the instance of the run.

**Conf.** `ConfStructureExact`, `ConfAssertionsHold`, `ConfHandlersRight` and
`ConfAcceptedIsSound`, from `ConfInvariant`, for files of any length. The passes
of `conf_create` share nothing but the file, and the last one asserts what the
third one checked; so what joins them is the file itself, as the state of the
automaton `Shape` after a beginning of it. While `conf_validate_structure` reads,
`check.depth`, `check.seq` and the three counters are functions of that state
(`Checked`; `count[2]` only up to the two values that are treated alike), which
is why it refuses where the automaton does: `StructureExact` alone says nothing
of the counters and is not inductive. The parse has a file that the automaton
takes, so no prefix of it is refused (`InShape`), and now `open`, `cf.depth`,
`cf.seq`, the length of `arg` and the pool in hand are functions of the state
(`InParse`, `InCore`, `InHandle`). Each event then leads from one such row to the
next, and what a handler pops is there. `conf_post_validate` is about values: a
sequence can be put in order (`OrderExists`), what is in order without equal
neighbours has no equals (`SortedName`, `SortedListen`), and a pool that is
accepted has its defaults (`Sound`). `ConfAssertionsHold` assumes `NoHost \notin
Text`, an assumption on the file and not on the program: without it the
assertion of `string_copy` fails, which `MCConf_nohost.cfg` shows. Induction over
the events of a file is `SetInduction`, as for `ServerPool`; that `Shape` is
well defined is a lemma (`RunExists`).

One lemma per action and one step per part of the invariant; lemmas about
sequences and lists come first. TLC checked each invariant on small instances
before it was proved.

Only model-checked: liveness (`RequestsReachWire`, `UnwantedAreFreed`,
`EjectedRetried` and the others), since the prover handles neither fairness nor
ENABLED; and all of `RbTree` with its refinement of `Timers`: what its recursive
functions compute of trees is an induction over data, checked over bounded inputs.
That the shares of ketama are as precise as `ShareAssumption` says is computed by
TLC for the pools of the instance.

## Not modelled

- The parsers of both protocols and the YAML library, which are not in the
  repository: external, by what their callers expect. What a failing `fragment`
  leaves behind (`gf_request.c:681`) is unknown for the same reason.
- `conf_dump` and the descriptions of the statistics: they only log. The JSON
  text of the statistics. The options of the command line.
- Key hashes: functions of bytes without control; the models take the hash of a
  key as given.
- Logging, strings, queue macros, utilities: helpers without state of their own;
  queues are sequences. The arithmetic of `gf_atoi` overflows an int on long
  numbers, which C leaves undefined.
- kqueue and event ports: a build has one of the three; the models follow epoll.
- Failing allocations inside the event loop, `auto_eject_hosts` inside `Proxy`,
  and `server_connections` as a gauge: they need the composition of `Proxy` with
  `ServerPool` and `Stats`, each of which multiplies its states.
- What the aggregator reads from arrays that were unmapped (`gf_stats.c:971`):
  undefined. That it uses them is modelled.

## Plan

Done: `Proxy`, `Stats`, `ServerPool`, `Fragments` with `Gather`, `Stream`,
`RbTree` with `Timers`, `Conf`, `Lifecycle`; proofs of all safety properties of
`Proxy`, `Stats`, `ServerPool`, `Fragments`, `Stream`, `Lifecycle` and `Conf`, and
that `Fragments` implements `Gather`. Next, in order:

1. A `Multiplexer`: each client a FIFO of requests answered in order, with
   `Proxy` as an implementation of it up to the crash.
2. `Proxy` with the gauge of `Stats` and with `ServerPool`.
