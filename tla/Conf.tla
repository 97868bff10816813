-------------------------------- MODULE Conf --------------------------------
(***************************************************************************)
(* conf_create (gf_conf.c): the file is read four times.  The first three  *)
(* passes accept or refuse it (one document, plain tokens, the shape       *)
(* pool: {key: value, seq: [...]}), the fourth pushes its scalars on       *)
(* cf->arg and hands every one that is complete to conf_handler, and what  *)
(* that makes is validated.                                                *)
(*                                                                         *)
(* The YAML library is external: `open` are the collections that are open  *)
(* (what the next node in each of them is) and `path` the scalars that     *)
(* lead from the root to the last one read, both as the file has them,     *)
(* whatever gf_conf.c makes of it.  A scalar's text is read from the file  *)
(* in the fourth pass only, and chosen there.                              *)
(***************************************************************************)
EXTENDS Integers, Sequences, FiniteSets, SequencesExt

CONSTANTS Text,           \* texts of scalars that are names and values
          PoolAlloc,      \* CONF_DEFAULT_POOL: pools before cf->pool grows
          MaxSpare,       \* bound: scalars of a file of 1, 2, ... pools, but
                          \* for the names, a listen and a server of each
          MaxExtra,       \* bound: directives but for listen and servers
          MaxFault        \* bound: failed allocations and reads

CONF_ROOT_DEPTH == 1
CONF_MAX_DEPTH == CONF_ROOT_DEPTH + 1

(* Texts that no directive takes are Bad, NoHost has a port and no host.   *)
(* A server value in quotes that ends in a space has an empty name, too,   *)
(* and fares as NoHost does in conf_add_server.                            *)
Empty == 0
Bad == 7
NoHost == 8

ASSUME ConfAssumption ==
    /\ Text \subseteq {1, 2, Bad, NoHost}
    /\ PoolAlloc \in Nat \ {0} /\ MaxSpare \in Seq(Nat)
    /\ MaxExtra \in Nat /\ MaxFault \in Nat

VARIABLES
    pc,       \* the function of conf_create that runs
    docs,     \* documents in the file
    plain,    \* it has block collections and scalars only, no markers
    file,     \* its events, as far as they were read
    pos,      \* events that conf_parse has read
    open,     \* external: see above
    path,     \* external: see above
    check,    \* the local variables of conf_validate_structure
    cf,       \* struct conf, but for arg and pool
    arg,      \* cf->arg
    pool,     \* cf->pool
    data,     \* the pool that conf_parse_core passes on
    leaf,     \* its local variable
    nfault    \* failures so far

vars == <<pc, docs, plain, file, pos, open, path, check, cf, arg, pool, data,
          leaf, nfault>>

Null == [gen |-> 0, idx |-> 0]
NONE == -1   \* CONF_UNSET_NUM, CONF_UNSET_HASH
Opt(S) == S \cup {NONE}

(* conf_commands: the directives, one of each conf_set_ function; timeout, *)
(* backlog, redis_db, server_retry_timeout and server_failure_limit are    *)
(* like server_connections, tcpkeepalive, reuseport, preconnect and        *)
(* auto_eject_hosts like redis, distribution like hash.                    *)
Listen == 11
Servers == 12
Redis == 13
RedisAuth == 14
Hash == 15
HashTag == 16
Connections == 17
conf_commands == Listen..Connections
Unknown == 18

ServerRec == [name : Text \cup {Empty}, valid : BOOLEAN]
PoolRec == [name : Text \cup {Empty}, listen : Text \cup {Empty},
            lvalid : BOOLEAN, redis : Opt({0, 1}),
            redis_auth : Text \cup {Empty}, hash : Opt({1, 2}),
            hash_tag : Text \cup {Empty}, server_connections : Opt({0, 1}),
            server : Seq(ServerRec), valid : BOOLEAN]

(* What conf_pool_init assigns before it allocates.                        *)
PoolNull == [name |-> Empty, listen |-> Empty, lvalid |-> FALSE,
             redis |-> NONE, redis_auth |-> Empty, hash |-> NONE,
             hash_tag |-> Empty, server_connections |-> NONE,
             server |-> <<>>, valid |-> FALSE]

TypeOK ==
    /\ pc \in {"document", "tokens", "init", "structure", "begin", "core",
               "handle", "end", "validate", "destroy", "ok", "failed", "abort"}
    /\ docs \in 0..2 /\ plain \in BOOLEAN
    /\ pos \in 0..Len(file)
    /\ check \in [depth : 0..(CONF_MAX_DEPTH + 1), seq : BOOLEAN,
                  error : BOOLEAN, count : [0..CONF_MAX_DEPTH -> 0..2]]
    /\ cf \in [depth : 0..CONF_MAX_DEPTH, seq : BOOLEAN, sound : BOOLEAN,
               valid_parser : BOOLEAN, parsed : BOOLEAN]
    /\ arg \in Seq(Nat) /\ Len(arg) <= CONF_MAX_DEPTH + 1
    /\ pool.elem \in Seq(PoolRec) /\ Len(pool.elem) <= pool.nalloc
    /\ leaf \in BOOLEAN /\ nfault \in 0..MaxFault

(* conf_open.  Several documents have markers between them.                *)
Init ==
    /\ pc = "document"
    /\ docs \in 0..2 /\ plain \in BOOLEAN /\ (docs = 2 => ~plain)
    /\ file = <<>> /\ pos = 0 /\ open = <<>> /\ path = <<>>
    /\ check = [depth |-> 0, seq |-> FALSE, error |-> FALSE,
                count |-> [i \in 0..CONF_MAX_DEPTH |-> 0]]
    /\ cf = [depth |-> 0, seq |-> FALSE, sound |-> FALSE,
             valid_parser |-> FALSE, parsed |-> FALSE]
    /\ arg = <<>>
    /\ pool = [gen |-> 1, nalloc |-> PoolAlloc, elem |-> <<>>]
    /\ data = Null /\ leaf = FALSE /\ nfault = 0

Faulty == nfault < MaxFault /\ nfault' = nfault + 1
Faultless == UNCHANGED nfault

-----------------------------------------------------------------------------
(* The YAML library: what may follow in a file, and where that leads.      *)

Count(e) == Cardinality({i \in DOMAIN file : file[i] = e})
Room == LET pools == Count("map+") - 1 IN
        IF open = <<"key">>
        THEN /\ pools < Len(MaxSpare)
             /\ Count("scalar") <= 5 * pools + MaxSpare[pools + 1]
        ELSE pools > 0 /\ Count("scalar") < 5 * pools + MaxSpare[pools]

Node == (IF Room \/ Count("map+") = 0 \/ open = <<"value">>
            THEN {"map+", "seq+"} ELSE {})
        \cup (IF plain THEN {} ELSE {"alias"}) \cup {"scalar"}

(* A block collection has a node; {} and [] are not plain.                 *)
Item(start, end) ==
    (IF Last(file) = start \/ Room THEN Node ELSE {})
        \cup (IF Last(file) = start /\ plain THEN {} ELSE {end})

NextEvents ==
    CASE file = <<>> -> {"stream+"}
      [] file # <<>> /\ Last(file) \in {"stream+", "doc-"} ->
            IF Count("doc+") < docs THEN {"doc+"} ELSE {"stream-"}
      [] file # <<>> /\ Last(file) = "doc+" -> Node
      [] open # <<>> /\ Last(open) = "key" -> Item("map+", "map-")
      [] open # <<>> /\ Last(open) = "value" -> Node
      [] open # <<>> /\ Last(open) = "item" -> Item("seq+", "seq-")
      [] OTHER -> {"doc-"}

Follows == [key |-> "value", value |-> "key", item |-> "item"]
Grown(o) == IF o = <<>> THEN o ELSE [o EXCEPT ![Len(o)] = Follows[@]]

Opened(o, e) ==
    CASE e = "map+" -> Append(o, "key")
      [] e = "seq+" -> Append(o, "item")
      [] e \in {"map-", "seq-"} -> Grown(Front(o))
      [] e \in {"scalar", "alias"} -> Grown(o)
      [] OTHER -> o

(* The path to a scalar of text t that the innermost collection gets.      *)
Led(t) == SubSeq(path, 1, IF Last(open) = "value" THEN Len(open)
                          ELSE Len(open) - 1) \o <<t>>

(* The texts of a scalar that is read.  The names of pools are all good.   *)
ExtrasOf(p) == Cardinality({k \in {"redis", "hash", "server_connections"} :
                                p[k] # NONE})
               + Cardinality({k \in {"redis_auth", "hash_tag"} : p[k] # Empty})
Extras == FoldLeft(LAMBDA n, p : n + ExtrasOf(p), 0, pool.elem)
ScalarTexts == {Empty} \cup
    CASE Len(open) = 1 -> Text \ {Bad, NoHost}
      [] open = <<"value", "key">> ->
            {Listen, Servers, Unknown}
                \cup IF Extras < MaxExtra THEN conf_commands ELSE {}
      [] OTHER -> Text

-----------------------------------------------------------------------------
(* conf_pre_validate.                                                      *)

conf_yaml_init(c) == [c EXCEPT !.valid_parser = TRUE]
conf_yaml_deinit(c) == [c EXCEPT !.valid_parser = FALSE]

NotParsing == UNCHANGED <<docs, plain, pos, path, arg, pool, data, leaf>>

conf_validate_document ==
    /\ pc = "document"
    /\ \/ Faulty /\ pc' = "destroy"
       \/ Faultless /\ pc' = IF docs = 1 THEN "tokens" ELSE "destroy"
    /\ cf' = conf_yaml_deinit(conf_yaml_init(cf))
    /\ UNCHANGED <<file, open, check>> /\ NotParsing

conf_validate_tokens ==
    /\ pc = "tokens"
    /\ IF cf.valid_parser THEN pc' = "abort" /\ Faultless /\ UNCHANGED cf
       ELSE \/ Faulty /\ pc' = "destroy" /\ cf' = conf_yaml_init(cf)
            \/ /\ Faultless
               /\ pc' = IF plain THEN "init" ELSE "destroy"
               /\ cf' = conf_yaml_deinit(conf_yaml_init(cf))
    /\ UNCHANGED <<file, open, check>> /\ NotParsing

StartStructure ==
    /\ pc = "init"
    /\ IF cf.valid_parser THEN pc' = "abort" /\ Faultless /\ UNCHANGED cf
       ELSE \/ Faulty /\ pc' = "destroy" /\ UNCHANGED cf
            \/ Faultless /\ pc' = "structure" /\ cf' = conf_yaml_init(cf)
    /\ UNCHANGED <<file, open, check>> /\ NotParsing

\* mutant: a sequence is taken at every depth
MutSeqAnywhere(k, e) ==
    \/ e = "map+" /\ k.depth = CONF_ROOT_DEPTH /\ k.count[k.depth] # 1
    \/ e = "map+" /\ k.depth >= CONF_MAX_DEPTH
    \/ e = "map-" /\ k.depth = CONF_MAX_DEPTH /\ ~k.seq
    \/ e = "seq+" /\ (k.seq \/ k.count[k.depth] # 1)
    \/ e = "scalar" /\ k.depth = 0
    \/ e = "scalar" /\ k.depth = CONF_ROOT_DEPTH /\ k.count[k.depth] # 0

(* conf_validate_structure: what it refuses, and what it counts.           *)
Misplaced(k, e) ==
    \/ e = "map+" /\ k.depth = CONF_ROOT_DEPTH /\ k.count[k.depth] # 1
    \/ e = "map+" /\ k.depth >= CONF_MAX_DEPTH
    \/ e = "map-" /\ k.depth = CONF_MAX_DEPTH /\ ~k.seq
    \/ e = "seq+" /\ (\/ k.seq \/ k.depth # CONF_MAX_DEPTH
                      \/ k.count[k.depth] # 1)
    \/ e = "scalar" /\ k.depth = 0
    \/ e = "scalar" /\ k.depth = CONF_ROOT_DEPTH /\ k.count[k.depth] # 0

\* mutant: the pairs before the sequence are not forgotten
MutNoReset(k, e) ==
    CASE e = "map+" -> [k EXCEPT !.depth = @ + 1]
      [] e = "map-" -> [k EXCEPT !.depth = @ - 1, !.count[k.depth - 1] = 0,
                                 !.seq = k.depth # CONF_MAX_DEPTH /\ @]
      [] e = "seq+" -> [k EXCEPT !.seq = TRUE]
      [] e = "scalar" -> [k EXCEPT !.count[k.depth] = IF @ = 2 THEN 1 ELSE @ + 1]
      [] OTHER -> k

Counted(k, e) ==
    CASE e = "map+" -> [k EXCEPT !.depth = @ + 1]
      [] e = "map-" -> [k EXCEPT !.depth = @ - 1, !.count[k.depth - 1] = 0,
                                 !.seq = k.depth # CONF_MAX_DEPTH /\ @]
      [] e = "seq+" -> [k EXCEPT !.seq = TRUE]
      [] e = "seq-" -> [k EXCEPT !.count[k.depth] = 0]
      [] e = "scalar" ->
            [k EXCEPT !.count[k.depth] =
                IF k.depth = CONF_MAX_DEPTH /\ @ = 2 THEN 1 ELSE @ + 1]
      [] OTHER -> k

(* One event of the loop.  An event that cannot be read leaves the parser. *)
conf_validate_structure ==
    /\ pc = "structure"
    /\ \/ Faulty /\ pc' = "destroy" /\ UNCHANGED <<file, open, check, cf>>
       \/ \E e \in NextEvents :
            /\ Faultless
            /\ file' = Append(file, e)
            /\ open' = Opened(open, e)
            /\ check' = [Counted(check, e) EXCEPT !.error = Misplaced(check, e)]
            /\ IF \/ e = "alias"
                  \/ e = "seq-" /\ check.depth # CONF_MAX_DEPTH
               THEN pc' = "abort" /\ UNCHANGED cf
               ELSE IF check'.error
               THEN pc' = "destroy" /\ cf' = conf_yaml_deinit(cf)
               ELSE IF e = "stream-"
               THEN /\ pc' = "begin"
                    /\ cf' = [conf_yaml_deinit(cf) EXCEPT !.sound = TRUE]
               ELSE pc' = "structure" /\ UNCHANGED cf
    /\ NotParsing

-----------------------------------------------------------------------------
(* conf_parse.  Wherever it fails it leaves the parser to the process,     *)
(* which ends.                                                             *)

Fail == pc' = "destroy"
Abort == pc' = "abort"
Validated == UNCHANGED <<docs, plain, file, check>>

(* conf_begin_parse reads on to the start of the root mapping.             *)
conf_begin_parse ==
    LET first == SelectInSeq(file, LAMBDA e : e \notin {"stream+", "doc+"})
    IN
    /\ pc = "begin"
    /\ \/ Faulty /\ Fail /\ UNCHANGED <<pos, open, cf>>
       \/ /\ Faultless
          /\ pos' = first /\ open' = <<"key">>
          /\ cf' = [conf_yaml_init(cf) EXCEPT !.depth = @ + 1]
          /\ pc' = IF cf.valid_parser \/ file[first] # "map+"
                   THEN "abort" ELSE "core"
    /\ Validated /\ UNCHANGED <<path, arg, pool, data, leaf>>

(* conf_pop_scalar, n times; array_pop asserts that there is one.          *)
CanPop(n) == Len(arg) >= n
Popped(n) == SubSeq(arg, 1, Len(arg) - n)

Event(e) ==
    /\ pc = "core"
    /\ file[pos + 1] = e /\ pos' = pos + 1
    /\ open' = Opened(open, e)
    /\ Faultless /\ Validated

CannotRead ==
    /\ pc = "core" /\ Faulty /\ Fail
    /\ Validated /\ UNCHANGED <<pos, open, path, cf, arg, pool, data, leaf>>

\* default: of the switch
NotReached == {"alias", "doc-", "doc+", "stream+", "stream-"}

StartEvent ==
    \E e \in {"map+", "seq+"} \cup NotReached :
        /\ Event(e)
        /\ cf' = CASE e = "map+" -> [cf EXCEPT !.depth = @ + 1]
                   [] e = "seq+" -> [cf EXCEPT !.seq = TRUE]
                   [] OTHER -> cf
        /\ pc' = IF e \in NotReached THEN "abort" ELSE pc
        /\ UNCHANGED <<path, arg, pool, data, leaf>>

MappingEnd ==
    /\ Event("map-")
    /\ cf' = [cf EXCEPT !.depth = @ - 1]
    /\ CASE cf'.depth = 0 -> pc' = "end" /\ UNCHANGED arg
         [] cf'.depth = 1 -> IF CanPop(1) THEN arg' = Popped(1) /\ UNCHANGED pc
                             ELSE Abort /\ UNCHANGED arg
         [] OTHER -> UNCHANGED <<pc, arg>>
    /\ UNCHANGED <<path, pool, data, leaf>>

SequenceEnd ==
    /\ Event("seq-")
    /\ cf' = [cf EXCEPT !.seq = FALSE]
    /\ IF CanPop(1) THEN arg' = Popped(1) /\ UNCHANGED pc
       ELSE Abort /\ UNCHANGED arg
    /\ UNCHANGED <<path, pool, data, leaf>>

(* array_push of a pool: where the array is full all of it moves.  The new *)
(* element is not initialised before conf_pool_init.                       *)
PoolPushed ==
    LET full == Len(pool.elem) = pool.nalloc IN
    [gen |-> IF full THEN pool.gen + 1 ELSE pool.gen,
     nalloc |-> IF full THEN 2 * pool.nalloc ELSE pool.nalloc,
     elem |-> Append(pool.elem, PoolNull)]
NewData == [gen |-> PoolPushed.gen, idx |-> Len(PoolPushed.elem)]

(* A scalar, its text t (conf_push_scalar), and where it leads to.         *)
ScalarEvent ==
    \E t \in ScalarTexts :
        /\ Event("scalar")
        /\ path' = Led(t)
        /\ IF t = Empty
           THEN Fail /\ UNCHANGED <<arg, pool, data, leaf>>
           ELSE
           /\ arg' = Append(arg, t)
           /\ CASE cf.seq ->
                     /\ pc' = IF cf.depth = CONF_MAX_DEPTH THEN "handle"
                              ELSE "abort"
                     /\ leaf' = TRUE /\ UNCHANGED <<pool, data>>
                [] ~cf.seq /\ cf.depth = CONF_ROOT_DEPTH ->
                     /\ pool' = PoolPushed /\ data' = NewData
                     /\ pc' = "handle" /\ leaf' = FALSE
                [] ~cf.seq /\ cf.depth # CONF_ROOT_DEPTH
                           /\ Len(arg) = cf.depth ->
                     /\ pc' = IF cf.depth = CONF_MAX_DEPTH THEN "handle"
                              ELSE "abort"
                     /\ leaf' = TRUE /\ UNCHANGED <<pool, data>>
                [] OTHER -> UNCHANGED <<pc, pool, data, leaf>>
        /\ UNCHANGED cf

(* conf_push_scalar and array_push run out of memory.                      *)
ScalarNoMemory ==
    /\ pc = "core" /\ file[pos + 1] = "scalar" /\ Faulty /\ Fail
    /\ pos' = pos + 1 /\ open' = Opened(open, "scalar")
    /\ \E t \in ScalarTexts \ {Empty} :
          /\ path' = Led(t)
          /\ \/ UNCHANGED arg
             \/ ~cf.seq /\ cf.depth = CONF_ROOT_DEPTH /\ arg' = Append(arg, t)
    /\ Validated /\ UNCHANGED <<cf, pool, data, leaf>>

-----------------------------------------------------------------------------
(* The conf_set_ functions: what the pool p may become for the value v,    *)
(* and with what result.                                                   *)

Out(p, res) == [pool |-> p, res |-> res]
Refused(p) == Out(p, "refused")
Done(p) == Out(p, "ok")
NoMemory(p) == Out(p, "fault")

conf_set_string(p, v) ==
    IF p.redis_auth # Empty THEN {Refused(p)}
    ELSE {NoMemory(p), Done([p EXCEPT !.redis_auth = v])}

conf_set_hashtag(p, v) ==
    IF p.hash_tag # Empty \/ v \in {Bad, NoHost} THEN {Refused(p)}
    ELSE {NoMemory(p), Done([p EXCEPT !.hash_tag = v])}

(* The texts 1 and 2 are the numbers 0 and 1, and true and false.          *)
conf_set_num(p, v) ==
    IF p.server_connections # NONE \/ v \in {Bad, NoHost} THEN {Refused(p)}
    ELSE {Done([p EXCEPT !.server_connections = v - 1])}

conf_set_bool(p, v) ==
    IF p.redis # NONE \/ v \in {Bad, NoHost} THEN {Refused(p)}
    ELSE {Done([p EXCEPT !.redis = 2 - v])}

conf_set_hash(p, v) ==
    IF p.hash # NONE \/ v \in {Bad, NoHost} THEN {Refused(p)}
    ELSE {Done([p EXCEPT !.hash = v])}

(* The name is copied after the pname; that it is not empty is asserted by *)
(* string_copy.  The address may fail to resolve.                          *)
conf_set_listen(p, v) ==
    LET named == [p EXCEPT !.listen = v] IN
    CASE p.lvalid -> {Refused(p)}
      [] ~p.lvalid /\ v = Bad -> {NoMemory(p), Refused(named)}
      [] ~p.lvalid /\ v = NoHost -> {NoMemory(p), Out(named, "abort")}
      [] OTHER -> {NoMemory(p), NoMemory(named),
                   Done([named EXCEPT !.lvalid = TRUE])}

(* The server is pushed first, and popped only where its pname cannot be   *)
(* copied; otherwise it stays, not valid, when something else is wrong.    *)
conf_add_server(p, v) ==
    LET pushed(s) == [p EXCEPT !.server = Append(@, s)]
        bare == [name |-> Empty, valid |-> FALSE]
    IN
    {NoMemory(p)} \cup
    CASE v = Bad -> {Refused(pushed(bare))}
      [] v = NoHost -> {Out(pushed([bare EXCEPT !.name = v]), "abort")}
      [] OTHER -> {NoMemory(pushed(bare)),
                   NoMemory(pushed([bare EXCEPT !.name = v])),
                   Done(pushed([name |-> v, valid |-> TRUE]))}

conf_pool_init(v) == {NoMemory(PoolNull), Done([PoolNull EXCEPT !.name = v])}

Commanded(p, key, v) ==
    CASE key = Listen -> conf_set_listen(p, v)
      [] key = Servers -> conf_add_server(p, v)
      [] key = Redis -> conf_set_bool(p, v)
      [] key = RedisAuth -> conf_set_string(p, v)
      [] key = Hash -> conf_set_hash(p, v)
      [] key = HashTag -> conf_set_hashtag(p, v)
      [] key = Connections -> conf_set_num(p, v)
      [] OTHER -> {Refused(p)}

\* mutant: the value only
MutPopsOne == 1
Pops == CASE ~leaf -> 0 [] leaf /\ cf.seq -> 1 [] OTHER -> 2

(* conf_handler on the pool that data points to, and the pops after it.    *)
conf_handler ==
    /\ pc = "handle"
    /\ IF \/ data = Null \/ data.gen # pool.gen
          \/ ~CanPop(Pops) \/ Len(arg) = 0
       THEN Abort /\ UNCHANGED <<arg, pool, nfault>>
       ELSE LET n == Len(arg)
                p == pool.elem[data.idx]
            IN \E o \in IF n = 1 THEN conf_pool_init(arg[1])
                        ELSE Commanded(p, arg[n - 1], arg[n]) :
                  /\ IF o.res = "fault" THEN Faulty ELSE Faultless
                  /\ pool' = [pool EXCEPT !.elem[data.idx] = o.pool]
                  /\ arg' = Popped(Pops)
                  /\ pc' = CASE o.res = "ok" -> "core"
                             [] o.res = "abort" -> "abort"
                             [] OTHER -> "destroy"
    /\ leaf' = FALSE
    /\ Validated /\ UNCHANGED <<pos, open, path, cf, data>>

(* conf_end_parse: what is left are the ends of the document and stream.   *)
conf_end_parse ==
    /\ pc = "end"
    /\ \/ Faulty /\ Fail /\ UNCHANGED <<pos, cf>>
       \/ /\ Faultless /\ pos' = Len(file)
          /\ cf' = [conf_yaml_deinit(cf) EXCEPT !.parsed = TRUE]
          /\ pc' = IF SubSeq(file, pos + 1, Len(file)) = <<"doc-", "stream-">>
                   THEN "validate" ELSE "abort"
    /\ Validated /\ UNCHANGED <<open, path, arg, pool, data, leaf>>

-----------------------------------------------------------------------------
(* conf_post_validate.  qsort may leave equal elements in any order, but   *)
(* equal elements are what it refuses.                                     *)

Sorted(s, Key(_)) ==
    LET order == CHOOSE p \in Bijection(DOMAIN s, DOMAIN s) :
                    \A i, j \in DOMAIN s : i < j => Key(s[p[i]]) <= Key(s[p[j]])
    IN [i \in DOMAIN s |-> s[order[i]]]
Adjacent(s, Key(_)) == \E i \in 1..(Len(s) - 1) : Key(s[i]) = Key(s[i + 1])

Name(x) == x.name
ListenPname(p) == p.listen

\* mutant: compares neighbours in the order of the file
MutNotSorted(p) == p.server # <<>> /\ ~Adjacent(p.server, Name)

conf_validate_server(p) ==
    /\ p.server # <<>>
    /\ ~Adjacent(Sorted(p.server, Name), Name)

Default(v, d) == IF v = NONE THEN d ELSE v

(* conf_validate_pool, where it does not return an error.                  *)
PoolAccepted(p) ==
    /\ p.lvalid
    /\ p.server_connections # 0
    /\ p.redis_auth # Empty => p.redis = 1
    /\ conf_validate_server(p)

conf_validate_pool(p) ==
    [p EXCEPT !.hash = Default(@, 1), !.redis = Default(@, 0),
              !.server_connections = Default(@, 1),
              !.server = Sorted(@, Name), !.valid = TRUE]

conf_post_validate ==
    LET done == [i \in DOMAIN pool.elem |-> conf_validate_pool(pool.elem[i])]
        byListen == Sorted(done, ListenPname)
        byName == Sorted(byListen, Name)
        accepted == /\ pool.elem # <<>>
                    /\ \A i \in DOMAIN pool.elem : PoolAccepted(pool.elem[i])
                    /\ ~Adjacent(byListen, ListenPname)
                    /\ ~Adjacent(byName, Name)
    IN
    /\ pc = "validate"
    /\ IF accepted THEN pc' = "ok" /\ pool' = [pool EXCEPT !.elem = byName]
       ELSE Fail /\ UNCHANGED pool
    /\ Faultless /\ Validated
    /\ UNCHANGED <<pos, open, path, cf, arg, data, leaf>>

(* conf_destroy, on the error path of conf_create: cf is freed.            *)
conf_destroy ==
    /\ pc = "destroy" /\ pc' = "failed"
    /\ arg' = <<>> /\ pool' = [pool EXCEPT !.elem = <<>>]
    /\ data' = Null /\ file' = <<>> /\ pos' = 0 /\ open' = <<>>
    /\ path' = <<>> /\ check' = [check EXCEPT !.error = FALSE]
    /\ Faultless /\ UNCHANGED <<docs, plain, cf, leaf>>

Next ==
    \/ conf_validate_document \/ conf_validate_tokens \/ StartStructure
    \/ conf_validate_structure
    \/ conf_begin_parse \/ CannotRead \/ StartEvent \/ MappingEnd
    \/ SequenceEnd \/ ScalarEvent \/ ScalarNoMemory
    \/ conf_handler \/ conf_end_parse
    \/ conf_post_validate \/ conf_destroy

Spec == Init /\ [][Next]_vars

-----------------------------------------------------------------------------
(* Properties.                                                             *)

(* The shape that the comment in conf_validate_structure draws, as an      *)
(* automaton: a mapping of pools, each a mapping of scalars to scalars but *)
(* for one key, that has a sequence of scalars.  0 is no shape.            *)
Step == [q \in 1..13 |->
    CASE q = 1 -> [e \in {"stream+"} |-> 2]
      [] q = 2 -> [e \in {"doc+"} |-> 3]
      [] q = 3 -> [e \in {"map+"} |-> 4]
      [] q = 4 -> [e \in {"scalar", "map-"} |-> IF e = "scalar" THEN 5 ELSE 11]
      [] q = 5 -> [e \in {"map+"} |-> 6]
      [] q = 6 -> [e \in {"scalar"} |-> 7]
      [] q = 7 -> [e \in {"scalar", "seq+"} |-> IF e = "scalar" THEN 6 ELSE 8]
      [] q = 8 -> [e \in {"scalar", "seq-"} |-> IF e = "scalar" THEN 8 ELSE 9]
      [] q = 9 -> [e \in {"scalar", "map-"} |-> IF e = "scalar" THEN 10 ELSE 4]
      [] q = 10 -> [e \in {"scalar"} |-> 9]
      [] q = 11 -> [e \in {"doc-"} |-> 12]
      [] q = 12 -> [e \in {"stream-"} |-> 13]
      [] OTHER -> [e \in {} |-> 0]]

Goes(q, e) == IF q \in DOMAIN Step /\ e \in DOMAIN Step[q] THEN Step[q][e] ELSE 0

Shape(f) ==
    LET at[i \in 0..Len(f)] == IF i = 0 THEN 1 ELSE Goes(at[i - 1], f[i])
    IN at[Len(f)]

(* conf_validate_structure refuses a file at the first event that leaves   *)
(* the shape, and at no other: its depth, seq and count[] are enough.      *)
StructureExact ==
    pc \in {"structure", "begin"} \/ check.error
        => (check.error <=> Shape(file) = 0)

(* What conf_pre_validate lets through violates no assertion of the parse: *)
(* no event is NOT_REACHED, a leaf is at CONF_MAX_DEPTH, arg has what is   *)
(* popped, no parser is left over from a pass, no pool is used after       *)
(* cf->pool moved.                                                         *)
AssertionsHold == pc # "abort"

(* conf_handler gets the pool, the key and the value that the file has     *)
(* there, and it gets every value: between two events, arg has the keys of *)
(* the collections that are open and nothing else.                         *)
HandlerSeesPath ==
    /\ pc = "handle" => arg = path
    /\ pc \in {"core", "end"} =>
          arg = SubSeq(path, 1,
                       Cardinality({i \in DOMAIN open : open[i] = "value"}))

(* The pointer that conf_parse_core passes from call to call stays in the  *)
(* array while cf->pool grows, and what is set is set in the pool under    *)
(* whose name the file has it.                                             *)
ValuesToTheirPool ==
    /\ pc \in {"core", "handle"} /\ data # Null =>
          data = [gen |-> pool.gen, idx |-> Len(pool.elem)]
    /\ pc \in {"core", "handle"} /\ Len(open) >= 2 =>
          pool.elem[data.idx].name = path[1]

(* The fields keep their types, and every handler gets what the file has   *)
(* for it, and sets it where the file has it.                              *)
HandlersRight == TypeOK /\ HandlerSeesPath /\ ValuesToTheirPool

(* What conf_create returns: pools of different names and addresses, each  *)
(* valid, with servers that are valid and have different names, nothing    *)
(* unset, and no password but for redis.                                   *)
Different(s, Key(_)) ==
    \A i, j \in DOMAIN s : i # j => Key(s[i]) # Key(s[j])

AcceptedIsSound ==
    pc = "ok" =>
        /\ pool.elem # <<>> /\ arg = <<>> /\ ~cf.valid_parser
        /\ Different(pool.elem, Name) /\ Different(pool.elem, ListenPname)
        /\ \A p \in ToSet(pool.elem) :
              /\ p.valid /\ p.lvalid /\ p.server # <<>>
              /\ Different(p.server, Name)
              /\ \A s \in ToSet(p.server) : s.valid
              /\ NONE \notin {p.hash, p.redis, p.server_connections}
              /\ p.server_connections > 0
              /\ p.redis_auth # Empty => p.redis = 1

=============================================================================
