----------------------------- MODULE ServerPool -----------------------------
(***************************************************************************)
(* How a pool picks the server of a key, takes servers that fail out of    *)
(* the distribution and takes them back: server_failure, server_ok,        *)
(* server_pool_update and server_pool_idx of gf_server.c, and the          *)
(* distributions of hashkit (ketama, modula, random), with                 *)
(* auto_eject_hosts on.                                                    *)
(*                                                                         *)
(* A key is its hash.  Points are written past the end of the continuum    *)
(* when it is too small.  A connection to a server that closes, a response *)
(* and a request may come at any time and in any order; now is the clock.  *)
(***************************************************************************)
EXTENDS Integers, Sequences, FiniteSets, SequencesExt

CONSTANTS NServer,
          SETTINGS,               \* pools to explore: dist_type, the weight
                                  \* of the servers, the value of their points
          HASH,                   \* hashes are 0..HASH
          POINTS_PER_SERVER,      \* KETAMA_POINTS_PER_SERVER
          POINTER_PER_HASH,       \* points one ketama hash gives
          CONTINUUM_ADDITION,     \* spare servers when the ring is allocated
          WORD,                   \* 2^32: uint32_t counts modulo WORD
          FLT_MANT_DIG,           \* digits of a float: 24
          FLT_MAX_EXP,            \* its exponents: 128
          PRECISION,              \* what Share computes is off by at most its
                                  \* PRECISIONth part: 2^24 div 6
          MaxPoints,              \* bound: points a server may get
          FAILURE_LIMIT,          \* pool->server_failure_limit
          RETRY_TIMEOUT,          \* pool->server_retry_timeout
          MaxFailTime,            \* bound: servers fail until then
          MaxTime                 \* bound: the clock stops there

Server == 1..NServer
Hash == 0..HASH
Idle == 0                         \* sent: the last step was no request
Refused == -1                     \* sent: the request was refused

-----------------------------------------------------------------------------
(* What a server gets of the continuum.                                    *)

\* What n div d rounds to as a float, numerator and denominator: to nearest,
\* and to even when two are.
Pow(e) == IF e > 0 THEN 2^e ELSE 1
Float(n, d) ==
    LET e == CHOOSE i \in -FLT_MAX_EXP..FLT_MAX_EXP :
                 (n * Pow(i)) \div (d * Pow(-i)) \in 2^(FLT_MANT_DIG - 1)..(2^FLT_MANT_DIG - 1)
        a == n * Pow(e)   b == d * Pow(-e)   m == a \div b   rest == 2 * (a % b)
        up == rest > b \/ (rest = b /\ m % 2 = 1)
    IN <<(IF up THEN m + 1 ELSE m) * Pow(-e), Pow(e)>>
FloatOf(k) == Float(k, 1)
Times(x, y) == Float(x[1] * y[1], x[2] * y[2])
Over(x, y) == Float(x[1] * y[2], x[2] * y[1])

\* The weights are added up in a uint32_t.
Weights(p, live) == MapThenSumSet(LAMBDA s : p.weight[s], live)
Total(p, live) == Weights(p, live) % WORD

\* In ketama a server gets points in proportion to its weight, computed in
\* floats; the 10^-10 it adds changes none that is more than 0.01.
Share(p, s, live) ==
    CASE p.dist_type = "ketama" ->
            LET pct == Over(FloatOf(p.weight[s]), FloatOf(Total(p, live)))
                hashes == Times(Over(Times(pct, FloatOf(POINTS_PER_SERVER)),
                                     FloatOf(POINTER_PER_HASH)),
                                FloatOf(Cardinality(live)))
            IN (hashes[1] \div hashes[2]) * POINTER_PER_HASH
      [] p.dist_type = "modula" -> p.weight[s]
      [] p.dist_type = "random" -> 1

ASSUME PoolAssumption ==
    /\ NServer \in Nat \ {0}
    /\ HASH \in Nat /\ MaxPoints \in Nat
    /\ POINTS_PER_SERVER \in Nat \ {0} /\ POINTER_PER_HASH \in Nat \ {0}
    /\ 2 * POINTER_PER_HASH <= POINTS_PER_SERVER  \* 4 and 160
    /\ \A i \in DOMAIN SETTINGS : LET p == SETTINGS[i] IN
          /\ p.dist_type \in {"ketama", "modula", "random"}
          /\ p.weight \in [Server -> 1..(WORD - 1)]
          /\ p.value \in [Server \X (1..MaxPoints) -> Hash]
    /\ CONTINUUM_ADDITION \in Nat /\ WORD \in Nat /\ PRECISION \in Nat \ {0, 1}
    /\ (NServer + CONTINUUM_ADDITION) * POINTS_PER_SERVER < WORD
    /\ NServer <= CONTINUUM_ADDITION * PRECISION
    /\ FAILURE_LIMIT \in Nat
    /\ RETRY_TIMEOUT \in Nat
    /\ MaxFailTime \in Nat /\ MaxTime \in Nat \ {0}

\* The weights of a ketama pool do not add up to 2^32 (it divides by their
\* total), and its shares are precise and below their bound.
ASSUME ShareAssumption ==
    \A i \in DOMAIN SETTINGS : \A live \in (SUBSET Server) \ {{}} : \A s \in live :
        LET p == SETTINGS[i]
            exact == p.weight[s] * POINTS_PER_SERVER * Cardinality(live)
        IN p.dist_type = "ketama" =>
              /\ Total(p, live) # 0
              /\ Share(p, s, live) \in 0..MaxPoints
              /\ Share(p, s, live) * Total(p, live) * PRECISION <= exact * (PRECISION + 1)
              /\ (Share(p, s, live) + POINTER_PER_HASH) * Total(p, live) * PRECISION
                    > exact * (PRECISION - 1)

-----------------------------------------------------------------------------
VARIABLES
    pool,               \* which of SETTINGS it is; it never changes
    failure_count,      \* per server
    next_retry,         \* per server: ejected until then, 0 when not
    ejected_at,         \* per server: the statistics server_ejected_at
    next_rebuild,       \* when the distribution is next rebuilt, 0 for never
    nlive_server,       \* servers that were live at the last rebuild
    continuum,          \* the points in use: continuum[0..ncontinuum-1]
    nserver_continuum,  \* servers the continuum was allocated for
    now,                \* gf_usec_now()
    sent,               \* the server of the last request
    back                \* history: servers that answered since their ejection

health == <<failure_count, next_retry, ejected_at>>
ring == <<next_rebuild, nlive_server, continuum, nserver_continuum>>
vars == <<pool, health, ring, now, sent, back>>

Point == [index : Server, value : Hash]

TypeOK ==
    /\ pool \in DOMAIN SETTINGS
    /\ failure_count \in [Server -> Nat]
    /\ next_retry \in [Server -> Nat]
    /\ ejected_at \in [Server -> Nat]
    /\ next_rebuild \in Nat
    /\ nlive_server \in 0..NServer
    /\ continuum \in Seq(Point)
    /\ nserver_continuum \in 0..(WORD - 1)
    /\ now \in 1..MaxTime
    /\ sent \in Server \cup {Idle, Refused}
    /\ back \subseteq Server

-----------------------------------------------------------------------------
(* Building the distribution from the live servers.                        *)

\* What a point is sorted by; the others keep the order of the servers.
Points(p, s, live) ==
    {[index |-> s, i |-> i,
      value |-> IF p.dist_type = "ketama" THEN p.value[<<s, i>>] ELSE 0]
       : i \in 1..Share(p, s, live)}

\* mutant: compared by index
MutUnsorted(p, q) == p.index < q.index \/ (p.index = q.index /\ p.i < q.i)

\* ketama_item_cmp; equal values stay in the order they were written in (C
\* leaves their order open, no property depends on it).
Before(p, q) == \/ p.value < q.value
                \/ p.value = q.value /\ p.index < q.index
                \/ p.value = q.value /\ p.index = q.index /\ p.i < q.i

Continuum == [i \in DOMAIN SETTINGS |-> [live \in SUBSET Server |->
    LET pts == UNION {Points(SETTINGS[i], s, live) : s \in live}
        nth(k) == CHOOSE p \in pts : Cardinality({q \in pts : Before(q, p)}) = k - 1
    IN [k \in 1..Cardinality(pts) |->
           [index |-> nth(k).index, value |-> nth(k).value]]]]

\* mutant: modula, too, counts servers and not weights
MutNeededLive(live) == Cardinality(live)

\* What the continuum has to be allocated for.
Needed(live) == IF SETTINGS[pool].dist_type = "modula" THEN Total(SETTINGS[pool], live) ELSE Cardinality(live)

\* What it is allocated for afterwards.
Allocated(live, n) ==
    IF Needed(live) > n THEN (Needed(live) + CONTINUUM_ADDITION) % WORD ELSE n

\* Points there is room for.
Capacity == nserver_continuum * (IF SETTINGS[pool].dist_type = "ketama" THEN POINTS_PER_SERVER ELSE 1)

Live(retry) == {s \in Server : retry[s] <= now}

\* mutant: the latest retry decides
MutLastRetry(retry) ==
    IF Live(retry) = Server THEN 0
    ELSE Max({retry[s] : s \in Server \ Live(retry)})

\* mutant: set only after the early return for no live server
MutOnlyWhenSome(retry) ==
    IF Live(retry) \in {{}, Server} THEN 0
    ELSE Min({retry[s] : s \in Server \ Live(retry)})

NextRebuild(retry) ==
    IF Live(retry) = Server THEN 0
    ELSE Min({retry[s] : s \in Server \ Live(retry)})

\* ketama_update, modula_update and random_update.
server_pool_run(retry) ==
    LET live == Live(retry)
    IN /\ next_retry' = [s \in Server |-> IF s \in live THEN 0 ELSE retry[s]]
       /\ next_rebuild' = NextRebuild(retry)
       /\ nlive_server' = Cardinality(live)
       /\ IF live = {} THEN UNCHANGED <<continuum, nserver_continuum>>
          ELSE /\ nserver_continuum' = Allocated(live, nserver_continuum)
               /\ continuum' = Continuum[pool][live]

\* The pool starts with every server live (server_pool_init).
Init ==
    /\ pool \in DOMAIN SETTINGS
    /\ failure_count = [s \in Server |-> 0]
    /\ next_retry = [s \in Server |-> 0]
    /\ ejected_at = [s \in Server |-> 0]
    /\ next_rebuild = 0 /\ nlive_server = NServer
    /\ continuum = Continuum[pool][Server]
    /\ nserver_continuum = Allocated(Server, 0)
    /\ now = 1 /\ sent = Idle /\ back = {}

-----------------------------------------------------------------------------
(* Looking a key up.                                                       *)

\* mutant: middle->value <= hash
MutUpper(v, k) == v <= k

Below(v, k) == v < k

\* The binary search, over pointers into the continuum counted from 0.
Search(k) ==
    LET n == Len(continuum)
        right[b \in (0..n) \X (0..n)] ==
            LET l == b[1]  r == b[2]  m == l + (r - l) \div 2
            IN IF l >= r THEN r
               ELSE IF Below(continuum[m + 1].value, k) THEN right[<<m + 1, r>>]
                                                        ELSE right[<<l, m>>]
    IN right[<<0, n>>]

ketama_dispatch(k) ==
    LET r == Search(k)
    IN continuum[IF r = Len(continuum) THEN 1 ELSE r + 1].index

modula_dispatch(k) == continuum[(k % Len(continuum)) + 1].index

random_dispatch == {continuum[i].index : i \in DOMAIN continuum}

server_pool_idx(k) ==
    CASE NServer = 1 -> {1}
      [] NServer # 1 /\ SETTINGS[pool].dist_type = "ketama" -> {ketama_dispatch(k)}
      [] NServer # 1 /\ SETTINGS[pool].dist_type = "modula" -> {modula_dispatch(k)}
      [] NServer # 1 /\ SETTINGS[pool].dist_type = "random" -> random_dispatch

-----------------------------------------------------------------------------

\* A connection to s closes; the limit reached, s is ejected.
server_failure(s) ==
    /\ now <= MaxFailTime
    /\ IF failure_count[s] + 1 < FAILURE_LIMIT
       THEN /\ failure_count' = [failure_count EXCEPT ![s] = @ + 1]
            /\ UNCHANGED <<next_retry, ejected_at, ring, back>>
       ELSE /\ failure_count' = [failure_count EXCEPT ![s] = 0]
            /\ ejected_at' = [ejected_at EXCEPT ![s] = now]
            /\ back' = back \ {s}
            /\ server_pool_run([next_retry EXCEPT ![s] = now + RETRY_TIMEOUT])
    /\ sent' = Idle
    /\ UNCHANGED <<pool, now>>

\* A response of s is forwarded.
server_ok(s) ==
    /\ failure_count[s] # 0
    /\ failure_count' = [failure_count EXCEPT ![s] = 0]
    /\ next_retry' = [next_retry EXCEPT ![s] = 0]
    /\ back' = back \cup {s}
    /\ sent' = Idle
    /\ UNCHANGED <<pool, ejected_at, ring, now>>

\* mutant: the timeout counted twice
MutDueLate == next_rebuild # 0 /\ now > next_rebuild + RETRY_TIMEOUT

Due == next_rebuild # 0 /\ now > next_rebuild

\* server_pool_conn: server_pool_update, then server_pool_server.
server_pool_conn(k) ==
    /\ UNCHANGED pool
    /\ \/ /\ next_rebuild # 0 /\ ~Due /\ nlive_server = 0
          /\ sent' = Refused
          /\ UNCHANGED <<next_retry, ring>>
       \/ /\ ~Due /\ ~(next_rebuild # 0 /\ nlive_server = 0)
          /\ sent' \in server_pool_idx(k)
          /\ UNCHANGED <<next_retry, ring>>
       \/ /\ Due
          /\ server_pool_run(next_retry)
          /\ sent' \in server_pool_idx(k)'
    /\ UNCHANGED <<failure_count, ejected_at, now, back>>

Tick ==
    /\ now < MaxTime
    /\ now' = now + 1
    /\ sent' = Idle
    /\ UNCHANGED <<pool, health, ring, back>>

Request == \E k \in Hash : server_pool_conn(k)

Next == \/ \E s \in Server : server_failure(s) \/ server_ok(s)
        \/ Request
        \/ Tick

Spec == Init /\ [][Next]_vars

\* Time goes on, and requests keep coming, so that no rebuild stays due (this
\* is what WF_vars(Due /\ Request) says, for a request rebuilds).
FairSpec == Spec /\ WF_vars(Tick) /\ []<>~Due

-----------------------------------------------------------------------------

OnRing == IF nlive_server = 0 THEN {} ELSE {continuum[i].index : i \in DOMAIN continuum}

(* A server that is out of the distribution is not forgotten: a rebuild is *)
(* planned, and no later than the retry of each such server, whatever      *)
(* ejections and answers came in between (server_pool_update rebuilds only *)
(* when next_rebuild is set).                                              *)
RetriesArePlanned ==
    /\ nlive_server < NServer => next_rebuild # 0
    /\ \A s \in Server : next_retry[s] # 0 => next_rebuild \in 1..next_retry[s]

(* No request goes to a server that was ejected less than                  *)
(* server_retry_timeout ago and has not answered since, not even through a *)
(* continuum that was left as it was because no server is live.            *)
EjectedLeftAlone ==
    \A s \in Server : sent = s =>
        ejected_at[s] = 0 \/ s \in back \/ now >= ejected_at[s] + RETRY_TIMEOUT

(* Requests are refused only while every server was ejected less than      *)
(* server_retry_timeout ago.                                               *)
RefusedWhenAllEjected ==
    sent = Refused => \A s \in Server : ejected_at[s] # 0
                                        /\ now <= ejected_at[s] + RETRY_TIMEOUT

(* The variables keep their types, and the points written fit what was     *)
(* allocated, also when servers come back one by one to a continuum built  *)
(* for the live ones, and whatever the floats round to; as long as the     *)
(* weights of the pool do not wrap round.                                  *)
WeightsFit == Weights(SETTINGS[pool], Server) + CONTINUUM_ADDITION < WORD
PointsFit == Len(continuum) <= Capacity
ContinuumFits == TypeOK /\ (WeightsFit => PointsFit)

(* Requests go where the health of the servers lets them go, whichever of  *)
(* the comparisons with now decides.                                       *)
RequestsRouted == EjectedLeftAlone /\ RefusedWhenAllEjected

(* The server of a key in ketama is the one whose point follows the key on *)
(* the ring, around its end: what the binary search of ketama_dispatch     *)
(* stands for.                                                             *)
IsKetama == SETTINGS[pool].dist_type = "ketama"
Follows(p, k) == p.value >= k /\ \A q \in ToSet(continuum) : q.value >= k => p.value <= q.value
Lowest(p) == \A q \in ToSet(continuum) : p.value <= q.value
SuccessorOnRing ==
    IsKetama => \A k \in Hash : \E p \in ToSet(continuum) :
        /\ p.index = ketama_dispatch(k)
        /\ Follows(p, k) \/ (Lowest(p) /\ \A q \in ToSet(continuum) : q.value < k)

(* A rebuild moves no key of ketama from a server that loses no points by  *)
(* it to one that wins none: an ejection does not reshuffle the keys of    *)
(* the servers that keep their share, if points do not collide.            *)
Distinct ==
    {i \in DOMAIN SETTINGS :
        /\ SETTINGS[i].dist_type = "ketama"
        /\ \A x, y \in Server \X (1..MaxPoints) :
              x # y => SETTINGS[i].value[x] # SETTINGS[i].value[y]}
PointsOf(s) == Cardinality({i \in DOMAIN continuum : continuum[i].index = s})

KeysStay ==
    [][(pool \in Distinct /\ continuum' # continuum) => \A s, u \in Server :
          s # u /\ PointsOf(s)' >= PointsOf(s) /\ PointsOf(u)' <= PointsOf(u)
             => \A k \in Hash : ketama_dispatch(k) = s => ketama_dispatch(k)' # u]_continuum

(* While requests come and once servers stop failing, those that were      *)
(* ejected are all tried again.                                            *)
EjectedRetried == (OnRing # Server) ~> (OnRing = Server)

=============================================================================
