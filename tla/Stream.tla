------------------------------- MODULE Stream -------------------------------
(***************************************************************************)
(* Bytes through the proxy: what a client writes is read into mbufs        *)
(* (gf_mbuf.c), cut into requests where the parser finds their ends, and   *)
(* written to a server by writev, any of which may stop anywhere           *)
(* (msg_recv, msg_parse, msg_send_chain in gf_message.c).  One client,     *)
(* whose requests all go to one server.                                    *)
(*                                                                         *)
(* The n-th byte the client writes is the number n, so that the requests   *)
(* are intervals.  The parsers are external: they find the end of a        *)
(* request, or ask for more, or ask for a token that the end of a buffer   *)
(* cuts to be moved to a buffer of its own.                                *)
(***************************************************************************)
EXTENDS Integers, Sequences, FiniteSets, SequencesExt

CONSTANTS Lengths,   \* of the requests the client sends, in order
          CHUNK,     \* mbuf_data_size(): what an mbuf holds
          IOV_MAX    \* GF_IOV_MAX: buffers of one writev

ASSUME StreamAssumption ==
    /\ Lengths \in Seq(Nat \ {0})
    /\ CHUNK \in Nat \ {0} /\ IOV_MAX \in Nat \ {0}

VARIABLES
    arrived,     \* bytes the client has written
    fin,         \* and it closes its end
    nread,       \* bytes read by conn_recv
    eof,         \* conn->eof of the client's connection
    recv_ready,  \* its conn->recv_ready
    rmsg,        \* the request being received: << >> or <<message>>
    imsg_q,      \* of the server's connection: requests to write
    wire,        \* bytes written to the server
    pc           \* the loop that runs

vars == <<arrived, fin, nread, eof, recv_ready, rmsg, imsg_q, wire, pc>>

Sum(s) == LET sum[i \in 0..Len(s)] == IF i = 0 THEN 0 ELSE sum[i - 1] + s[i]
          IN sum[Len(s)]
Total == Sum(Lengths)
Byte == 1..Total
Ends == {Sum(SubSeq(Lengths, 1, k)) : k \in DOMAIN Lengths}

(* struct mbuf: data is what lies between start and last, pos how much of  *)
(* it has been written out.  struct msg: pos is in the last mbuf.          *)
Mbuf == [data : Seq(Byte), pos : 0..CHUNK]
Message == [mhdr : Seq(Mbuf), pos : 0..CHUNK, mlen : 0..Total]

TypeOK ==
    /\ arrived \in 0..Total /\ nread \in 0..arrived
    /\ fin \in BOOLEAN /\ eof \in BOOLEAN /\ recv_ready \in BOOLEAN
    /\ rmsg \in Seq(Message) /\ Len(rmsg) <= 1
    /\ imsg_q \in Seq(Message)
    /\ wire \in Seq(Byte)
    /\ pc \in {"idle", "read", "parse", "send"}
    /\ \A m \in ToSet(rmsg \o imsg_q) : \A b \in ToSet(m.mhdr) :
          Len(b.data) <= CHUNK /\ b.pos <= Len(b.data)

-----------------------------------------------------------------------------
(* gf_mbuf.c and the helpers of gf_message.c.                              *)

mbuf_get == [data |-> <<>>, pos |-> 0]
mbuf_length(b) == Len(b.data) - b.pos
mbuf_size(b) == CHUNK - Len(b.data)
mbuf_full(b) == mbuf_size(b) = 0
mbuf_insert(m, b) == [m EXCEPT !.mhdr = Append(@, b)]

msg_get == [mhdr |-> <<>>, pos |-> 0, mlen |-> 0]
LastBuf(m) == Last(m.mhdr)
Content(m) == FlattenSeq([i \in DOMAIN m.mhdr |-> m.mhdr[i].data])
Unsent(m) == FlattenSeq([i \in DOMAIN m.mhdr |->
                LET b == m.mhdr[i] IN SubSeq(b.data, b.pos + 1, Len(b.data))])

\* mutant: one byte too few is copied
MutSplitSkips(m) ==
    LET b == LastBuf(m)
    IN [kept |-> [m EXCEPT !.mhdr[Len(m.mhdr)].data = SubSeq(@, 1, m.pos)],
        rest |-> [mbuf_get EXCEPT !.data = SubSeq(b.data, m.pos + 2, Len(b.data))]]

(* mbuf_split at pos: what stays, and the new buffer with the rest.        *)
mbuf_split(m) ==
    LET b == LastBuf(m)
    IN [kept |-> [m EXCEPT !.mhdr[Len(m.mhdr)].data = SubSeq(@, 1, m.pos)],
        rest |-> [mbuf_get EXCEPT !.data = SubSeq(b.data, m.pos + 1, Len(b.data))]]

-----------------------------------------------------------------------------
(* The client.                                                             *)

ClientWrites(n) ==
    /\ ~fin /\ arrived + n <= Total
    /\ arrived' = arrived + n
    /\ UNCHANGED <<fin, nread, eof, recv_ready, rmsg, imsg_q, wire, pc>>

ClientCloses ==
    /\ ~fin
    /\ fin' = TRUE
    /\ UNCHANGED <<arrived, nread, eof, recv_ready, rmsg, imsg_q, wire, pc>>

-----------------------------------------------------------------------------
(* msg_recv: read, then parse until nothing is left to parse.              *)

core_recv ==
    /\ pc = "idle" /\ ~eof
    /\ pc' = "read" /\ recv_ready' = TRUE
    /\ UNCHANGED <<arrived, fin, nread, eof, rmsg, imsg_q, wire>>

Receiving == IF rmsg = <<>> THEN msg_get ELSE rmsg[1]

(* The buffer to read into: a new one, parsed from its start, or the last. *)
Room(m) == IF m.mhdr = <<>> \/ mbuf_full(LastBuf(m))
           THEN [mbuf_insert(m, mbuf_get) EXCEPT !.pos = 0] ELSE m

conn_recv ==
    /\ pc = "read" /\ arrived > nread
    /\ LET m == Room(Receiving)
           size == mbuf_size(LastBuf(m))
           n == IF arrived - nread < size THEN arrived - nread ELSE size
       IN /\ rmsg' = <<[m EXCEPT
                 !.mhdr[Len(m.mhdr)].data = @ \o [i \in 1..n |-> nread + i],
                 !.mlen = @ + n]>>
          /\ nread' = nread + n
          /\ recv_ready' = (n = size)
    /\ pc' = "parse"
    /\ UNCHANGED <<arrived, fin, eof, imsg_q, wire>>

conn_recv_again ==
    /\ pc = "read" /\ arrived = nread /\ ~fin
    /\ rmsg' = <<Room(Receiving)>>
    /\ recv_ready' = FALSE /\ pc' = "idle"
    /\ UNCHANGED <<arrived, fin, nread, eof, imsg_q, wire>>

conn_recv_eof ==
    /\ pc = "read" /\ arrived = nread /\ fin
    /\ rmsg' = <<Room(Receiving)>>
    /\ recv_ready' = FALSE /\ eof' = TRUE /\ pc' = "parse"
    /\ UNCHANGED <<arrived, fin, nread, imsg_q, wire>>

(* req_recv_next(alloc = false) after m was parsed, nmsg what is left: end *)
(* of file drops a request that is not complete.                           *)
ParseOn(nmsg, more) ==
    /\ rmsg' = IF eof THEN <<>> ELSE nmsg
    /\ pc' = IF ~eof /\ more THEN "parse"
             ELSE IF recv_ready THEN "read" ELSE "idle"

(* req_filter: an empty request is put.                                    *)
msg_parse_empty ==
    /\ pc = "parse" /\ rmsg[1].mlen = 0
    /\ ParseOn(<<>>, FALSE)
    /\ UNCHANGED <<arrived, fin, nread, eof, recv_ready, imsg_q, wire>>

(* Where the request that is being received ends, in its last buffer.      *)
EndOf(m) == LET first == Content(m)[1]
                e == CHOOSE k \in Ends : k >= first /\ \A j \in Ends : j >= first => k <= j
            IN {i \in DOMAIN LastBuf(m).data : LastBuf(m).data[i] = e}

CutOff(m, nbuf) == [m EXCEPT !.mlen = @ - mbuf_length(nbuf)]

(* MSG_PARSE_OK: the rest is the next message; forwarded by recv_done.     *)
msg_parsed ==
    /\ pc = "parse" /\ rmsg[1].mlen > 0
    /\ EndOf(rmsg[1]) # {}
    /\ LET m == [rmsg[1] EXCEPT !.pos = CHOOSE i \in EndOf(rmsg[1]) : TRUE]
           split == mbuf_split(m)
           nmsg == [mbuf_insert(msg_get, split.rest) EXCEPT
                       !.mlen = mbuf_length(split.rest)]
       IN IF m.pos = Len(LastBuf(m).data)
          THEN /\ imsg_q' = Append(imsg_q, m)
               /\ ParseOn(<<>>, FALSE)
          ELSE /\ imsg_q' = Append(imsg_q, CutOff(split.kept, split.rest))
               /\ ParseOn(<<nmsg>>, TRUE)
    /\ UNCHANGED <<arrived, fin, nread, eof, recv_ready, wire>>

Incomplete == pc = "parse" /\ rmsg[1].mlen > 0 /\ EndOf(rmsg[1]) = {}

(* MSG_PARSE_AGAIN: all was parsed, and more is needed.                    *)
msg_parse_again ==
    /\ Incomplete
    /\ ParseOn(<<[rmsg[1] EXCEPT !.pos = Len(LastBuf(rmsg[1]).data)]>>, FALSE)
    /\ UNCHANGED <<arrived, fin, nread, eof, recv_ready, imsg_q, wire>>

\* mutant: the buffer that was split keeps the token too
MutRepairCopies(m) == mbuf_insert(m, mbuf_split(m).rest)

Repaired(m) == LET split == mbuf_split(m)
               IN [mbuf_insert(split.kept, split.rest) EXCEPT !.pos = 0]

(* MSG_PARSE_REPAIR: the buffer is full and a token began at pos, inside   *)
(* it.  A repair at the start or the end of a buffer is left out.          *)
msg_repair(pos) ==
    /\ Incomplete
    /\ mbuf_full(LastBuf(rmsg[1]))
    /\ pos \in 1..(CHUNK - 1)
    /\ ParseOn(<<Repaired([rmsg[1] EXCEPT !.pos = pos])>>, FALSE)
    /\ UNCHANGED <<arrived, fin, nread, eof, recv_ready, imsg_q, wire>>

-----------------------------------------------------------------------------
(* msg_send: gather buffers, write, and move on by what was written.       *)

(* The elements of s at the places I.                                      *)
Chosen(s, I) ==
    LET chosen[i \in 0..Len(s)] ==
            IF i = 0 THEN <<>>
            ELSE IF i \in I THEN Append(chosen[i - 1], s[i]) ELSE chosen[i - 1]
    IN chosen[Len(s)]

Buffers(m) == Chosen(m.mhdr, {i \in DOMAIN m.mhdr : mbuf_length(m.mhdr[i]) > 0})

(* The messages of one writev: up to the one that fills the vector.        *)
send_msgq ==
    LET nbuf(k) == Len(FlattenSeq([i \in 1..k |-> Buffers(imsg_q[i])]))
        full == {k \in DOMAIN imsg_q : nbuf(k) >= IOV_MAX}
    IN IF full = {} THEN Len(imsg_q)
       ELSE CHOOSE k \in full : \A j \in full : k <= j

sendv == LET all == FlattenSeq([i \in 1..send_msgq |-> Buffers(imsg_q[i])])
         IN SubSeq(all, 1, IF Len(all) < IOV_MAX THEN Len(all) ELSE IOV_MAX)
nsend == Sum([i \in DOMAIN sendv |-> mbuf_length(sendv[i])])

Clip(n, max) == IF n < 0 THEN 0 ELSE IF n > max THEN max ELSE n

(* What a message is after nsent of its bytes were written.                *)
Advanced(m, nsent) ==
    LET before(i) == Sum([j \in 1..(i - 1) |-> mbuf_length(m.mhdr[j])])
        moved(i) == [m.mhdr[i] EXCEPT
                       !.pos = @ + Clip(nsent - before(i), mbuf_length(m.mhdr[i]))]
    IN [m EXCEPT !.mhdr = [i \in DOMAIN m.mhdr |-> moved(i)]]

\* mutant: a message is finished when its first buffer is
MutSentFirst(m) == mbuf_length(m.mhdr[1]) = 0

SentAll(m) == \A i \in DOMAIN m.mhdr : mbuf_length(m.mhdr[i]) = 0

msg_send_chain(n) ==
    /\ \/ pc = "send" \/ pc = "idle"
    /\ imsg_q # <<>>
    /\ n <= nsend
    /\ LET before(k) == Sum([i \in 1..(k - 1) |-> Len(Unsent(imsg_q[i]))])
           moved == [k \in DOMAIN imsg_q |->
                       IF k <= send_msgq /\ n > before(k)
                       THEN Advanced(imsg_q[k], n - before(k)) ELSE imsg_q[k]]
       IN imsg_q' = Chosen(moved, {k \in DOMAIN moved : ~SentAll(moved[k])})
    /\ wire' = wire \o SubSeq(FlattenSeq([i \in DOMAIN sendv |->
                   SubSeq(sendv[i].data, sendv[i].pos + 1, Len(sendv[i].data))]), 1, n)
    /\ pc' = IF n = nsend THEN "send" ELSE "idle"
    /\ UNCHANGED <<arrived, fin, nread, eof, recv_ready, rmsg>>

req_send_next_empty ==
    /\ pc = "send" /\ imsg_q = <<>>
    /\ pc' = "idle"
    /\ UNCHANGED <<arrived, fin, nread, eof, recv_ready, rmsg, imsg_q, wire>>

-----------------------------------------------------------------------------
Init ==
    /\ arrived = 0 /\ fin = FALSE /\ nread = 0
    /\ eof = FALSE /\ recv_ready = FALSE
    /\ rmsg = <<>> /\ imsg_q = <<>> /\ wire = <<>> /\ pc = "idle"

Loop == \/ core_recv \/ conn_recv \/ conn_recv_again \/ conn_recv_eof
        \/ msg_parse_empty \/ msg_parsed \/ msg_parse_again
        \/ \E pos \in 1..CHUNK : msg_repair(pos)
        \/ \E n \in 0..Total : msg_send_chain(n)
        \/ req_send_next_empty

Next == (\E n \in Byte : ClientWrites(n)) \/ ClientCloses \/ Loop

Spec == Init /\ [][Next]_vars

-----------------------------------------------------------------------------
Received == FlattenSeq([i \in DOMAIN rmsg |-> Content(rmsg[i])])

(* No byte is lost, doubled or moved: what the server was sent, what waits *)
(* to be written and what was read of the next request are what was read,  *)
(* in order, but for a request the end of file leaves incomplete.          *)
BytesInOrder ==
    LET held == wire \o FlattenSeq([i \in DOMAIN imsg_q |-> Unsent(imsg_q[i])])
                     \o Received
    IN IF eof THEN /\ held = [i \in DOMAIN held |-> i]
                   /\ \A k \in Ends : k <= nread => k <= Len(held)
       ELSE held = [i \in 1..nread |-> i]

(* Every message is one whole request: pipelined requests are cut where    *)
(* parsing ended, wherever reads and buffers end.                          *)
RequestsWhole ==
    /\ \A i \in DOMAIN imsg_q :
          LET b == Content(imsg_q[i])
          IN /\ b[1] = 1 \/ b[1] - 1 \in Ends
             /\ {k \in Ends : b[1] <= k /\ k <= Last(b)} = {Last(b)}
    /\ Received # <<>> => Received[1] = 1 \/ Received[1] - 1 \in Ends

(* mlen, which decides what is empty and what the statistics count, is the *)
(* length of what the buffers hold.                                        *)
LengthsAgree ==
    \A m \in ToSet(rmsg \o imsg_q) : m.mlen = Len(Content(m))

(* The fields keep their types, and buffers and lengths hold the stream.   *)
BuffersHoldStream == TypeOK /\ BytesInOrder /\ LengthsAgree

(* A request leaves in_q with its last byte and not before, whichever      *)
(* buffers the writev covered: only the first can be written in part.      *)
SendDoneExactly ==
    \A i \in DOMAIN imsg_q :
        /\ Unsent(imsg_q[i]) # <<>>
        /\ Unsent(imsg_q[i]) # Content(imsg_q[i]) => i = 1
        /\ i = 1 => (Unsent(imsg_q[1]) # Content(imsg_q[1])
                        <=> wire # <<>> /\ Last(wire) \notin Ends)

=============================================================================
