------------------------------- MODULE Gather -------------------------------
(***************************************************************************)
(* What a client may expect of requests that the proxy splits into parts   *)
(* for several servers: one response for each request, in the order of the *)
(* requests, once all of its parts are settled, and an error if and only   *)
(* if one of them failed.                                                  *)
(***************************************************************************)
EXTENDS Integers, Sequences

CONSTANTS Client, Request,
          MaxParts            \* bound: parts of a request

VARIABLES todo,   \* per client: [req, left, bad], the oldest first
          told    \* per client: <<request, whether it was an error>>

vars == <<todo, told>>

Init == /\ todo = [c \in Client |-> <<>>]
        /\ told = [c \in Client |-> <<>>]

Ask(c, r, n) ==
    /\ todo' = [todo EXCEPT ![c] =
                   Append(@, [req |-> r, left |-> n, bad |-> FALSE])]
    /\ UNCHANGED told

Settle(c, i, failed) ==
    /\ todo[c][i].left > 0
    /\ todo' = [todo EXCEPT ![c][i].left = @ - 1,
                            ![c][i].bad = @ \/ failed]
    /\ UNCHANGED told

(* A part that fails without being settled: nobody answers that request.   *)
Lose(c, i) ==
    /\ todo[c][i].left > 0
    /\ todo' = [todo EXCEPT ![c][i].bad = TRUE]
    /\ UNCHANGED told

(* As many as one write takes.                                             *)
Answer(c, k) ==
    /\ \A i \in 1..k : todo[c][i].left = 0
    /\ told' = [told EXCEPT ![c] =
                   @ \o [i \in 1..k |-> <<todo[c][i].req, todo[c][i].bad>>]]
    /\ todo' = [todo EXCEPT ![c] = SubSeq(@, k + 1, Len(@))]

Leave(c) == /\ todo' = [todo EXCEPT ![c] = <<>>]
            /\ UNCHANGED told

Next ==
    \E c \in Client :
        \/ \E r \in Request, n \in 1..MaxParts : Ask(c, r, n)
        \/ \E i \in DOMAIN todo[c] :
              \/ \E failed \in BOOLEAN : Settle(c, i, failed)
              \/ Lose(c, i)
        \/ \E k \in DOMAIN todo[c] : Answer(c, k)
        \/ Leave(c)

Spec == Init /\ [][Next]_vars

=============================================================================
