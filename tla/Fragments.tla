------------------------------ MODULE Fragments -----------------------------
(***************************************************************************)
(* Requests for several keys: they are split into one request for each     *)
(* server (req_recv_done), the client's out_q holds the request followed   *)
(* by its fragments, and the response waits for all of them (req_done,     *)
(* req_error in gf_request.c; rsp_forward, rsp_make_error, rsp_send_next   *)
(* in gf_response.c; msg_send_chain in gf_message.c).                      *)
(*                                                                         *)
(* The functions fragment, pre_coalesce and post_coalesce of a message are *)
(* external.  in_q and out_q of a server are one queue here: Proxy has the *)
(* two, the events and the timers.                                         *)
(***************************************************************************)
EXTENDS Integers, Sequences, FiniteSets, SequencesExt

CONSTANTS Client, Server,
          MaxMsg,     \* bound: requests and fragments that are made
          MaxParts,   \* bound: fragments of a request
          MaxFault    \* bound: failures of servers, of epoll and of writes

None == 0
Msg == 1..MaxMsg

ASSUME FragmentsAssumption ==
    /\ MaxMsg \in Nat /\ MaxParts \in Nat \ {0} /\ MaxFault \in Nat
    /\ None \notin Client

VARIABLES
    msg,        \* struct msg: requests and fragments
    omsg_q,     \* per client: out_q
    queue,      \* per server: what it has to answer
    frag_msgq,  \* what req_recv_done has still to forward
    send_msgq,  \* what msg_send_chain is going to write
    pc,         \* where the event loop is
    cur,        \* the client whose handler runs
    gone,       \* clients that left
    nmsg,       \* messages made so far
    nfault,     \* failures so far
    nlost,      \* history, per request: failed fragments that do not count
    wire        \* history, per client: which half of which reply

vars == <<msg, omsg_q, queue, frag_msgq, send_msgq, pc, cur, gone,
          nmsg, nfault, nlost, wire>>

(* peer: the response.  A coalesced fragment leaves an empty one behind.   *)
MsgRec == [st : {"unread", "live", "freed"}, owner : Client \cup {None},
           frag_id : Msg \cup {None}, frag_owner : Msg \cup {None},
           nfrag : 0..MaxParts, nfrag_done : 0..MaxParts,
           done : BOOLEAN, error : BOOLEAN, fdone : BOOLEAN,
           ferror : BOOLEAN, swallow : BOOLEAN,
           peer : {"none", "reply", "empty", "error"}, cut : BOOLEAN]

NoMsg == [st |-> "unread", owner |-> None, frag_id |-> None,
          frag_owner |-> None, nfrag |-> 0, nfrag_done |-> 0, done |-> FALSE,
          error |-> FALSE, fdone |-> FALSE, ferror |-> FALSE,
          swallow |-> FALSE, peer |-> "none", cut |-> FALSE]

TypeOK ==
    /\ msg \in [Msg -> MsgRec]
    /\ omsg_q \in [Client -> Seq(Msg)]
    /\ queue \in [Server -> Seq(Msg)]
    /\ frag_msgq \in Seq(Msg) /\ send_msgq \in Seq(Msg)
    /\ pc \in {"loop", "forward", "send", "crash"}
    /\ cur \in Client \cup {None}
    /\ gone \subseteq Client
    /\ nmsg \in 0..MaxMsg /\ nfault \in 0..MaxFault
    /\ nlost \in [Msg -> 0..MaxParts]
    /\ wire \in [Client -> Seq([req : Msg, half : {1, 2}, bad : BOOLEAN])]

Init ==
    /\ msg = [m \in Msg |-> NoMsg]
    /\ omsg_q = [c \in Client |-> <<>>]
    /\ queue = [s \in Server |-> <<>>]
    /\ frag_msgq = <<>> /\ send_msgq = <<>>
    /\ pc = "loop" /\ cur = None /\ gone = {}
    /\ nmsg = 0 /\ nfault = 0
    /\ nlost = [m \in Msg |-> 0]
    /\ wire = [c \in Client |-> <<>>]

Faulty == nfault < MaxFault /\ nfault' = nfault + 1

-----------------------------------------------------------------------------
(* req_done and req_error, on the out_q q of a client and a place i in it. *)

(* The messages next to q[i], on both sides, that have its fragment id.    *)
Before(mg, q, i) ==
    {q[j] : j \in {j \in 1..(i - 1) :
                      \A k \in j..i : mg[q[k]].frag_id = mg[q[i]].frag_id}}
After(mg, q, i) ==
    {q[j] : j \in {j \in (i + 1)..Len(q) :
                      \A k \in i..j : mg[q[k]].frag_id = mg[q[i]].frag_id}}
Siblings(mg, q, i) == Before(mg, q, i) \cup After(mg, q, i)

req_done(mg, q, i) ==
    LET r == mg[q[i]] IN
    /\ r.done
    /\ \/ r.frag_id = None
       \/ r.fdone
       \/ /\ r.nfrag_done >= r.nfrag
          /\ \A n \in Siblings(mg, q, i) : mg[n].done

\* mutant: only the request's own flag
MutErrorOwn(mg, q, i) == mg[q[i]].error

req_error(mg, q, i) ==
    LET r == mg[q[i]] IN
    \/ r.error
    \/ /\ r.frag_id # None
       /\ r.ferror \/ \E n \in Siblings(mg, q, i) : mg[n].error

put(r) == [NoMsg EXCEPT !.st = "freed"]
req_put(mg, ms) == [m \in Msg |-> IF m \in ms THEN put(mg[m]) ELSE mg[m]]

(* post_coalesce moves the responses of the fragments into the request's.  *)
post_coalesce(mg, ms) ==
    [m \in Msg |-> IF m \in ms /\ mg[m].frag_owner # m /\ mg[m].peer = "reply"
                   THEN [mg[m] EXCEPT !.peer = "empty"] ELSE mg[m]]

(* What a call of req_done leaves behind.                                  *)
Coalesced(mg, q, i) ==
    LET all == {q[i]} \cup Siblings(mg, q, i)
        marked == [m \in Msg |-> IF m \in all THEN [mg[m] EXCEPT !.fdone = TRUE]
                                              ELSE mg[m]]
    IN IF /\ mg[q[i]].frag_id # None /\ ~mg[q[i]].fdone
          /\ req_done(mg, q, i)
       THEN IF \E m \in all : mg[m].error THEN marked
            ELSE post_coalesce(marked, all)
       ELSE mg

(* q without the messages of S.                                            *)
Without(q, S) ==
    LET rest[i \in 0..Len(q)] ==
            IF i = 0 THEN <<>>
            ELSE IF q[i] \in S THEN rest[i - 1] ELSE Append(rest[i - 1], q[i])
    IN rest[Len(q)]

HeadChecked(mg, c) == IF omsg_q[c] = <<>> THEN mg ELSE Coalesced(mg, omsg_q[c], 1)

-----------------------------------------------------------------------------
(* Requests arrive and are forwarded.                                      *)

Fresh(c) == [NoMsg EXCEPT !.st = "live", !.owner = c]

(* A request for one server: fragment leaves frag_msgq empty.              *)
ReceivePlain(c) ==
    /\ pc = "loop" /\ c \notin gone /\ nmsg < MaxMsg
    /\ nmsg' = nmsg + 1
    /\ msg' = [msg EXCEPT ![nmsg + 1] = Fresh(c)]
    /\ frag_msgq' = <<nmsg + 1>>
    /\ pc' = "forward" /\ cur' = c
    /\ UNCHANGED <<omsg_q, queue, send_msgq, gone, nfault, nlost, wire>>

\* mutant: first in out_q
MutReplyHead(c, m) == [omsg_q EXCEPT ![c] = <<m>> \o @]

(* req_make_reply: the request is done, and first in line.                 *)
req_make_reply(c, m) == [omsg_q EXCEPT ![c] = Append(@, m)]

ReceiveSplit(c, k) ==
    /\ pc = "loop" /\ c \notin gone /\ nmsg + k < MaxMsg
    /\ nmsg' = nmsg + k + 1
    /\ LET m == nmsg + 1
           part == [Fresh(c) EXCEPT !.frag_id = m, !.frag_owner = m]
           parts == (m + 1)..(m + k)
       IN /\ msg' = [n \in Msg |->
                       IF n = m THEN [part EXCEPT !.nfrag = k, !.done = TRUE,
                                                  !.peer = "reply"]
                       ELSE IF n \in parts THEN part ELSE msg[n]]
          /\ omsg_q' = req_make_reply(c, m)
          /\ frag_msgq' = [i \in 1..k |-> m + i]
    /\ pc' = "forward" /\ cur' = c
    /\ UNCHANGED <<queue, send_msgq, gone, nfault, nlost, wire>>

Counted(mg, m) ==
    IF mg[m].frag_owner = None THEN mg
    ELSE [mg EXCEPT ![mg[m].frag_owner].nfrag_done = @ + 1]

NextForward ==
    /\ frag_msgq' = Tail(frag_msgq)
    /\ pc' = IF Tail(frag_msgq) = <<>> THEN "loop" ELSE "forward"
    /\ cur' = IF Tail(frag_msgq) = <<>> THEN None ELSE cur
    /\ omsg_q' = [omsg_q EXCEPT ![cur] = Append(@, Head(frag_msgq))]
    /\ UNCHANGED <<send_msgq, gone, nmsg, wire>>

(* It asks req_done of the head of out_q, and the message is in it by now. *)
req_forward_error(mg, m) ==
    LET failed == [mg EXCEPT ![m].done = TRUE, ![m].error = TRUE]
    IN Coalesced(failed, Append(omsg_q[cur], m), 1)

req_forward(s) ==
    /\ pc = "forward"
    /\ queue' = [queue EXCEPT ![s] = Append(@, Head(frag_msgq))]
    /\ NextForward
    /\ UNCHANGED <<msg, nfault, nlost>>

(* server_pool_conn finds no server, or cannot connect.                    *)
ForwardNowhere ==
    /\ pc = "forward" /\ Faulty
    /\ LET m == Head(frag_msgq)
       IN msg' = req_forward_error(Counted(msg, m), m)
    /\ NextForward
    /\ UNCHANGED <<queue, nlost>>

(* event_add_out or add_auth fails: the fragment fails and does not count. *)
ForwardUnwritable ==
    /\ pc = "forward" /\ Faulty
    /\ LET m == Head(frag_msgq)
       IN /\ msg' = req_forward_error(msg, m)
          /\ nlost' = IF msg[m].frag_owner = None THEN nlost
                      ELSE [nlost EXCEPT ![msg[m].frag_owner] = @ + 1]
    /\ NextForward
    /\ UNCHANGED queue

-----------------------------------------------------------------------------
(* Responses of servers.                                                   *)

\* mutant: an error response does not count
MutCountReplies(mg, m, failed) ==
    IF mg[m].frag_id = None THEN mg
    ELSE IF failed THEN [mg EXCEPT ![m].error = TRUE] ELSE Counted(mg, m)

(* pre_coalesce: a fragment counts, and is in error on an error response.  *)
pre_coalesce(mg, m, failed) ==
    IF mg[m].frag_id = None THEN mg
    ELSE [Counted(mg, m) EXCEPT ![m].error = @ \/ failed]

rsp_forward(s, failed) ==
    /\ pc = "loop" /\ queue[s] # <<>>
    /\ LET m == Head(queue[s])
           paired == [msg EXCEPT ![m].done = TRUE, ![m].peer = "reply"]
       IN /\ ~msg[m].swallow
          /\ msg' = HeadChecked(pre_coalesce(paired, m, failed), msg[m].owner)
    /\ queue' = [queue EXCEPT ![s] = Tail(@)]
    /\ UNCHANGED <<omsg_q, frag_msgq, send_msgq, pc, cur, gone, nmsg,
                   nlost, wire>>

ServerReplies(s) == rsp_forward(s, FALSE) /\ UNCHANGED nfault
ServerRepliesError(s) == Faulty /\ rsp_forward(s, TRUE)

rsp_filter_swallow(s) ==
    /\ pc = "loop" /\ queue[s] # <<>>
    /\ msg[Head(queue[s])].swallow
    /\ msg' = req_put(msg, {Head(queue[s])})
    /\ queue' = [queue EXCEPT ![s] = Tail(@)]
    /\ UNCHANGED <<omsg_q, frag_msgq, send_msgq, pc, cur, gone, nmsg, nfault,
                   nlost, wire>>

(* server_close with an open descriptor forgets what waits there.          *)
server_close(s) ==
    /\ pc = "loop" /\ queue[s] # <<>> /\ Faulty
    /\ queue' = [queue EXCEPT ![s] = <<>>]
    /\ UNCHANGED <<msg, omsg_q, frag_msgq, send_msgq, pc, cur, gone, nmsg,
                   nlost, wire>>

Abandon(c) ==
    [m \in Msg |-> IF m \notin ToSet(omsg_q[c]) THEN msg[m]
                   ELSE IF msg[m].done THEN put(msg[m])
                   ELSE [msg[m] EXCEPT !.swallow = TRUE]]

client_close(c) ==
    /\ pc = "loop" /\ c \notin gone
    /\ msg' = Abandon(c)
    /\ omsg_q' = [omsg_q EXCEPT ![c] = <<>>]
    /\ gone' = gone \cup {c}
    /\ UNCHANGED <<queue, frag_msgq, send_msgq, pc, cur, nmsg, nfault, nlost,
                   wire>>

-----------------------------------------------------------------------------
(* Writing to a client.  msg_send gathers what is done into send_msgq,     *)
(* writes once, and goes on until a write is short.                        *)

Crash == /\ pc' = "crash" /\ cur' = None
         /\ UNCHANGED <<msg, omsg_q, queue, frag_msgq, send_msgq, gone, nmsg,
                        nfault, nlost, wire>>

core_send(c) ==
    /\ pc = "loop" /\ c \notin gone
    /\ pc' = "send" /\ cur' = c
    /\ UNCHANGED <<msg, omsg_q, queue, frag_msgq, send_msgq, gone, nmsg,
                   nfault, nlost, wire>>

(* The request after the last one gathered.                                *)
Turn == IF send_msgq = <<>> THEN 1
        ELSE 1 + CHOOSE i \in DOMAIN omsg_q[cur] : omsg_q[cur][i] = Last(send_msgq)

Ready == /\ Turn \in DOMAIN omsg_q[cur]
         /\ req_done(msg, omsg_q[cur], Turn)

(* req_error marks, rsp_make_error drops the fragments that follow and the *)
(* response that was there, even one that is half written.                 *)
rsp_make_error(mg, q, i) ==
    LET m == q[i]
        own == mg[m].error
        rest == IF mg[m].frag_id = None THEN {} ELSE After(mg, q, i)
        marked == [n \in Msg |->
                     IF n \in {m} \cup Siblings(mg, q, i) /\ ~own /\ ~mg[m].ferror
                     THEN [mg[n] EXCEPT !.ferror = TRUE] ELSE mg[n]]
    IN <<[req_put(marked, rest) EXCEPT ![m].peer = "error", ![m].cut = FALSE],
         Without(q, rest)>>

rsp_send_next ==
    /\ pc = "send" /\ Ready
    /\ LET q == omsg_q[cur]
           mg == Coalesced(msg, q, Turn)
           made == rsp_make_error(mg, q, Turn)
       IN /\ IF req_error(mg, q, Turn)
             THEN /\ msg' = made[1]
                  /\ omsg_q' = [omsg_q EXCEPT ![cur] = made[2]]
             ELSE msg' = mg /\ UNCHANGED omsg_q
          /\ send_msgq' = Append(send_msgq, q[Turn])
    /\ UNCHANGED <<queue, frag_msgq, pc, cur, gone, nmsg, nfault, nlost, wire>>

(* With nothing outstanding, req_done dereferences a NULL request.         *)
rsp_send_next_empty ==
    /\ pc = "send" /\ omsg_q[cur] = <<>>
    /\ Crash

rsp_send_next_wait ==
    /\ pc = "send" /\ send_msgq = <<>> /\ ~Ready /\ omsg_q[cur] # <<>>
    /\ pc' = "loop" /\ cur' = None
    /\ UNCHANGED <<msg, omsg_q, queue, frag_msgq, send_msgq, gone, nmsg,
                   nfault, nlost, wire>>

Full(m) == msg[m].peer # "empty"
Half(m, n) == [req |-> m, half |-> n, bad |-> msg[m].peer = "error"]
Halves(m) == IF msg[m].cut THEN <<Half(m, 2)>> ELSE <<Half(m, 1), Half(m, 2)>>

\* mutant: responses after the one that was cut are taken for sent
MutSentAll(full, k) == ToSet(send_msgq)

(* The responses sent completely: the first k that are not empty, and the  *)
(* empty ones wherever they are.                                           *)
SentWhole(full, k) == ToSet(SubSeq(full, 1, k)) \cup
                      {m \in ToSet(send_msgq) : ~Full(m)}

(* conn_sendv writes k responses and maybe half of the next.               *)
SendChain(k, half) ==
    /\ pc = "send" /\ send_msgq # <<>> /\ ~Ready
    /\ LET full == Without(send_msgq, {m \in Msg : ~Full(m)})
           sent == SentWhole(full, k)
       IN /\ k <= Len(full)
          /\ IF k = Len(full) THEN UNCHANGED nfault ELSE Faulty
          /\ half => k < Len(full) /\ ~msg[full[k + 1]].cut
          /\ msg' = [m \in Msg |->
                       IF m \in sent THEN put(msg[m])
                       ELSE IF half /\ m = full[k + 1]
                       THEN [msg[m] EXCEPT !.cut = TRUE] ELSE msg[m]]
          /\ omsg_q' = [omsg_q EXCEPT ![cur] = Without(@, sent)]
          /\ wire' = [wire EXCEPT ![cur] = @
                        \o FlattenSeq([i \in 1..k |-> Halves(full[i])])
                        \o IF half THEN <<Half(full[k + 1], 1)>> ELSE <<>>]
          /\ pc' = IF k < Len(full) THEN "loop" ELSE "send"
          /\ cur' = IF k < Len(full) THEN None ELSE cur
    /\ send_msgq' = <<>>
    /\ UNCHANGED <<queue, frag_msgq, gone, nmsg, nlost>>

-----------------------------------------------------------------------------
Next ==
    \/ \E c \in Client :
         \/ ReceivePlain(c)
         \/ \E k \in 1..MaxParts : ReceiveSplit(c, k)
         \/ client_close(c)
         \/ core_send(c)
    \/ \E s \in Server :
         \/ req_forward(s) \/ rsp_filter_swallow(s) \/ server_close(s)
         \/ ServerReplies(s) \/ ServerRepliesError(s)
    \/ ForwardNowhere \/ ForwardUnwritable
    \/ rsp_send_next \/ rsp_send_next_empty \/ rsp_send_next_wait
    \/ \E k \in 0..MaxMsg, half \in BOOLEAN : SendChain(k, half)

Spec == Init /\ [][Next]_vars

-----------------------------------------------------------------------------
IsRequest(m) == msg[m].frag_owner \in {None, m}
Parts(m) == {n \in Msg : msg[n].frag_owner = m /\ n # m}
Waiting == ToSet(frag_msgq) \cup UNION {ToSet(queue[s]) : s \in Server}

(* In the out_q of a client the fragments of a request follow it without a *)
(* gap: req_done, req_error and rsp_make_error walk to the first message   *)
(* with another id, and req_done asserts that it met all of them.          *)
FragmentsFollow ==
    \A c \in Client : \A i \in DOMAIN omsg_q[c] :
        LET q == omsg_q[c]
            r == msg[q[i]]
        IN r.frag_id # None =>
             /\ Siblings(msg, q, i) =
                   {n \in ToSet(q) \ {q[i]} : msg[n].frag_id = r.frag_id}
             /\ IsRequest(q[i]) =>
                   /\ Before(msg, q, i) = {}
                   /\ r.fdone \/ After(msg, q, i) = Parts(q[i]) \ ToSet(frag_msgq)

(* A request that was split is never freed before its last fragment is     *)
(* settled or has no client any more: rsp_forward, req_forward and         *)
(* req_done follow frag_owner without a check.                             *)
OwnerOutlives ==
    /\ \A m \in Waiting : msg[m].st = "live" /\ ~msg[m].done
    /\ \A m \in Msg : msg[m].st = "live" /\ msg[m].frag_owner # None =>
          msg[msg[m].frag_owner].st = "live" \/ msg[m].swallow \/ msg[m].fdone

(* The fields keep their types, and every walk from a message to its       *)
(* fragments or to its owner meets messages that are there and its own.    *)
FragmentTree == TypeOK /\ FragmentsFollow /\ OwnerOutlives

(* nfrag_done is the number of fragments that are done, but for those that *)
(* failed where nothing counts them: such a request is never done, and its *)
(* client waits until it closes.                                           *)
CountsAgree ==
    \A m \in Msg :
        msg[m].st = "live" /\ msg[m].frag_owner = m /\ ~msg[m].fdone =>
            Cardinality({n \in Parts(m) : msg[n].done})
                = msg[m].nfrag_done + nlost[m]

(* A short write never lets a client see half of a response twice or other *)
(* bytes in the middle of one, whatever is freed behind it; only an error  *)
(* that was cut is made again from its start.                              *)
ResponsesWhole ==
    \A c \in Client : \A i \in DOMAIN wire[c] :
        LET w == wire[c]
            other == [w[i] EXCEPT !.half = 3 - @]
        IN IF w[i].half = 2 THEN i > 1 /\ w[i - 1] = other
           ELSE i < Len(w) => w[i + 1] = other \/ (w[i].bad /\ w[i + 1] = w[i])

-----------------------------------------------------------------------------
(* To Gather: the requests of out_q, and the one being forwarded.          *)

Told(c) ==
    LET w == Without(wire[c], [req : Msg, half : {1}, bad : BOOLEAN])
    IN [i \in DOMAIN w |-> <<w[i].req, w[i].bad>>]

Left(m) == IF msg[m].frag_owner = None THEN (IF msg[m].done THEN 0 ELSE 1)
           ELSE IF msg[m].fdone THEN 0 ELSE msg[m].nfrag - msg[m].nfrag_done
Bad(m) == \/ msg[m].error \/ msg[m].ferror
          \/ \E n \in Parts(m) : msg[n].error

Todo(c) ==
    LET q == omsg_q[c] \o IF cur = c THEN frag_msgq ELSE <<>>
        r == Without(q, {m \in Msg : ~IsRequest(m)})
        open == [m \in Msg |-> [req |-> m, left |-> Left(m), bad |-> Bad(m)]]
    IN [i \in DOMAIN r |-> open[r[i]]]

(* Splitting and coalescing show a client one response for each request,   *)
(* in order, after the last fragment, and an error exactly if one failed.  *)
Gathered == INSTANCE Gather WITH
                todo <- [c \in Client |-> Todo(c)],
                told <- [c \in Client |-> Told(c)],
                Request <- Msg
ImplementsGather == Gathered!Spec

=============================================================================
