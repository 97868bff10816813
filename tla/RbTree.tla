------------------------------- MODULE RbTree -------------------------------
(***************************************************************************)
(* The red-black tree of gf_rbtree.c as the timeout tree of gf_message.c   *)
(* uses it: a node is part of a request, and the request is reused as soon *)
(* as it is freed.  A step is one turn of a loop of rbtree_insert or       *)
(* rbtree_delete, so the state between two steps is what the C code has in *)
(* memory there, and pointers are followed as it follows them: one that is *)
(* Null has no fields.                                                     *)
(***************************************************************************)
EXTENDS Integers, Sequences, FiniteSets

CONSTANTS Node,      \* tmo_rbe of the requests
          Expiry,    \* when each may expire: gf_msec_now() + timeout
          Null, Sentinel

ASSUME NodeAssumption ==
    /\ IsFiniteSet(Node) /\ Expiry \in [Node -> SUBSET Int]
    /\ Null # Sentinel /\ Null \notin Node /\ Sentinel \notin Node

VARIABLES
    mem,   \* struct rbnode of every request, and tmo_rbs
    root,  \* tmo_rbt.root
    pc,    \* the loop that runs: "idle" outside of the tree's functions
    node,  \* rbtree_insert's node
    temp   \* the cursor of the descent, and rbtree_delete's temp

vars == <<mem, root, pc, node, temp>>

Cell == Node \cup {Sentinel}
Pointer == Cell \cup {Null}
NodeRec == [left : Pointer, right : Pointer, parent : Pointer,
            key : UNION {Expiry[x] : x \in Node} \cup {0}, data : BOOLEAN, red : BOOLEAN]

TypeOK ==
    /\ mem \in [Cell -> NodeRec]
    /\ root \in Cell
    /\ pc \in {"idle", "descend", "rebalance", "fixup"}
    /\ node \in Pointer
    /\ temp \in Pointer

-----------------------------------------------------------------------------
(* The operations on memory.  A heap h is [mem, root].                     *)

rbtree_node_init(r) ==
    [r EXCEPT !.left = Null, !.right = Null, !.parent = Null,
              !.key = 0, !.data = FALSE]

Other(d) == IF d = "left" THEN "right" ELSE "left"

(* On which side of its parent p the node x hangs.                         *)
SideOf(m, x) == IF x = m[m[x].parent].left THEN "left" ELSE "right"

Paint(h, x, red) == [h EXCEPT !.mem[x].red = red]

(* Hang y where x hung; d is the side that is tried first.                 *)
Replace(h, x, y, d) ==
    LET p == h.mem[x].parent IN
    IF x = h.root THEN [h EXCEPT !.root = y]
    ELSE IF h.mem[p][d] = x THEN [h EXCEPT !.mem[p][d] = y]
    ELSE [h EXCEPT !.mem[p][Other(d)] = y]

(* Turn x down to the side d: its child on the other side comes up.        *)
Rotate(h, x, d) ==
    LET y == h.mem[x][Other(d)]
        b == h.mem[y][d]
        m1 == [h.mem EXCEPT ![x][Other(d)] = b]
        m2 == IF b = Sentinel THEN m1 ELSE [m1 EXCEPT ![b].parent = x]
        m3 == [m2 EXCEPT ![y].parent = m2[x].parent]
        up == Replace([h EXCEPT !.mem = m3], x, y, d)
    IN [up EXCEPT !.mem[y][d] = x, !.mem[x].parent = y]

rbtree_left_rotate(h, x) == Rotate(h, x, "left")
rbtree_right_rotate(h, x) == Rotate(h, x, "right")
RotateTo(h, x, d) == IF d = "left" THEN rbtree_left_rotate(h, x)
                                   ELSE rbtree_right_rotate(h, x)

(* The leftmost node under x.                                              *)
rbtree_node_min(m, x) ==
    LET down[y \in Node] == IF m[y].left = Sentinel THEN y ELSE down[m[y].left]
    IN down[x]

rbtree_min == IF root = Sentinel THEN Null ELSE rbtree_node_min(mem, root)

Heap == [mem |-> mem, root |-> root]
Store(h) == /\ mem' = h.mem
            /\ root' = h.root

-----------------------------------------------------------------------------
(* rbtree_insert: the descent, and the re-balancing.                       *)

rbtree_init ==
    /\ mem = [x \in Cell |-> [left |-> Null, right |-> Null, parent |-> Null,
                              key |-> 0, data |-> FALSE, red |-> FALSE]]
    /\ root = Sentinel

Linked(h, x, p) ==
    [h EXCEPT !.mem[x].parent = p, !.mem[x].left = Sentinel,
              !.mem[x].right = Sentinel, !.mem[x].red = p # Null]

(* msg_tmo_insert; a request has no timer before it is enqueued.           *)
msg_tmo_insert(x, k) ==
    LET h == [Heap EXCEPT !.mem[x].key = k, !.mem[x].data = TRUE] IN
    /\ pc = "idle"
    /\ ~mem[x].data
    /\ IF root = Sentinel
       THEN /\ Store([Linked(h, x, Null) EXCEPT !.root = x])
            /\ UNCHANGED <<pc, node, temp>>
       ELSE /\ Store(h)
            /\ pc' = "descend" /\ node' = x /\ temp' = root

\* mutant: a tie goes to the left
MutTieLeft(x, t) == IF mem[x].key <= mem[t].key THEN "left" ELSE "right"

(* On which side of t a node x belongs: a tie goes to the right.           *)
Side(x, t) == IF mem[x].key < mem[t].key THEN "left" ELSE "right"

Descend ==
    /\ pc = "descend"
    /\ mem[temp][Side(node, temp)] # Sentinel
    /\ temp' = mem[temp][Side(node, temp)]
    /\ UNCHANGED <<mem, root, pc, node>>

Link ==
    /\ pc = "descend"
    /\ mem[temp][Side(node, temp)] = Sentinel
    /\ Store([Linked(Heap, node, temp) EXCEPT
                  !.mem[temp][Side(node, temp)] = node])
    /\ pc' = "rebalance"
    /\ UNCHANGED <<node, temp>>

Parent(x) == mem[x].parent
Uncle(x) == mem[Parent(Parent(x))][Other(SideOf(mem, Parent(x)))]

RedPair == node # root /\ mem[Parent(node)].red

RecolorUp ==
    /\ pc = "rebalance"
    /\ RedPair
    /\ mem[Uncle(node)].red
    /\ LET p == Parent(node)
           g == Parent(p)
       IN /\ Store(Paint(Paint(Paint(Heap, p, FALSE), Uncle(node), FALSE),
                         g, TRUE))
          /\ node' = g
    /\ UNCHANGED <<pc, temp>>

RotateUp ==
    /\ pc = "rebalance"
    /\ RedPair
    /\ ~mem[Uncle(node)].red
    /\ LET d == SideOf(mem, Parent(node))
           inner == node = mem[Parent(node)][Other(d)]
           x == IF inner THEN Parent(node) ELSE node
           h == IF inner THEN RotateTo(Heap, x, d) ELSE Heap
           p == h.mem[x].parent
           g == h.mem[p].parent
       IN /\ Store(RotateTo(Paint(Paint(h, p, FALSE), g, TRUE), g, Other(d)))
          /\ node' = x
    /\ UNCHANGED <<pc, temp>>

InsertEnd ==
    /\ pc = "rebalance"
    /\ ~RedPair
    /\ Store(Paint(Heap, root, FALSE))
    /\ pc' = "idle" /\ node' = Null /\ temp' = Null

-----------------------------------------------------------------------------
(* rbtree_delete: unlinking, with the successor taking the node's place    *)
(* when it has two children, and the fixup.                                *)

(* The node that leaves its place, and the one that moves into that place. *)
Subst(x) == IF Sentinel \in {mem[x].left, mem[x].right} THEN x
            ELSE rbtree_node_min(mem, mem[x].right)
Moved(x) == IF mem[x].left = Sentinel THEN mem[x].right
            ELSE IF mem[x].right = Sentinel THEN mem[x].left
            ELSE mem[Subst(x)].right

(* s takes the links, the color and the place of x.                        *)
TakePlace(h, s, x) ==
    LET m1 == [h.mem EXCEPT ![s].left = h.mem[x].left,
                            ![s].right = h.mem[x].right,
                            ![s].parent = h.mem[x].parent,
                            ![s].red = h.mem[x].red]
        up == Replace([h EXCEPT !.mem = m1], x, s, "left")
        kids == {up.mem[s].left, up.mem[s].right} \ {Sentinel}
    IN [up EXCEPT !.mem = [y \in Cell |-> IF y \in kids
                                          THEN [@[y] EXCEPT !.parent = s]
                                          ELSE @[y]]]

Unlinked(x) ==
    LET s == Subst(x)
        t == Moved(x)
        cut == Replace(Heap, s, t, "left")
        p == IF s # x /\ mem[s].parent = x THEN s ELSE mem[s].parent
        linked == [cut EXCEPT !.mem[t].parent = p]
    IN IF s = x THEN linked ELSE TakePlace(linked, s, x)

Cleared(h, x) == [h EXCEPT !.mem[x] = rbtree_node_init(@)]

(* The root leaves: its only child, or the sentinel, becomes the root.     *)
DeleteRoot(x) ==
    /\ Subst(x) = root
    /\ Store(Cleared([Paint(Heap, Moved(x), FALSE) EXCEPT !.root = Moved(x)],
                     x))
    /\ UNCHANGED <<pc, node, temp>>

DeleteInner(x) ==
    /\ Subst(x) # root
    /\ Store(Cleared(Unlinked(x), x))
    /\ IF mem[Subst(x)].red
       THEN UNCHANGED <<pc, temp>>
       ELSE pc' = "fixup" /\ temp' = Moved(x)
    /\ UNCHANGED node

(* msg_tmo_delete: a request without a timer is "already deleted".         *)
msg_tmo_delete(x) ==
    /\ pc = "idle"
    /\ mem[x].data
    /\ DeleteRoot(x) \/ DeleteInner(x)

Lacking == temp # root /\ ~mem[temp].red

(* The sibling of temp is made black first.                                *)
BlackSibling ==
    LET p == Parent(temp)
        d == SideOf(mem, temp)
        w == mem[p][Other(d)]
    IN IF mem[w].red
       THEN RotateTo(Paint(Paint(Heap, w, FALSE), p, TRUE), p, d)
       ELSE Heap

\* mutant: the cursor stays
MutStay(p) == temp

(* The subtree under p lacks a black node now.                             *)
MovedUp(p) == p

FixupRecolor ==
    /\ pc = "fixup"
    /\ Lacking
    /\ LET h == BlackSibling
           p == h.mem[temp].parent
           w == h.mem[p][Other(SideOf(h.mem, temp))]
       IN /\ ~h.mem[h.mem[w].left].red /\ ~h.mem[h.mem[w].right].red
          /\ Store(Paint(h, w, TRUE))
          /\ temp' = MovedUp(p)
    /\ UNCHANGED <<pc, node>>

\* mutant: the far child is not looked at
MutFarAny(h, p, w, d) == h

(* The child of w on the far side is made red, then p turns.               *)
FarRed(h, p, w, d) ==
    IF h.mem[h.mem[w][Other(d)]].red THEN h
    ELSE RotateTo(Paint(Paint(h, h.mem[w][d], FALSE), w, TRUE), w, Other(d))

FixupRotate ==
    /\ pc = "fixup"
    /\ Lacking
    /\ LET h == BlackSibling
           p == h.mem[temp].parent
           d == SideOf(h.mem, temp)
           w == h.mem[p][Other(d)]
           f == FarRed(h, p, w, d)
           v == f.mem[p][Other(d)]
           far == f.mem[v][Other(d)]
           g == Paint(Paint(Paint(f, v, f.mem[p].red), p, FALSE), far, FALSE)
           r == RotateTo(g, p, d)
       IN /\ h.mem[h.mem[w].left].red \/ h.mem[h.mem[w].right].red
          /\ Store(r)
          /\ temp' = r.root
    /\ UNCHANGED <<pc, node>>

DeleteEnd ==
    /\ pc = "fixup"
    /\ ~Lacking
    /\ Store(Paint(Heap, temp, FALSE))
    /\ pc' = "idle" /\ temp' = Null
    /\ UNCHANGED node

-----------------------------------------------------------------------------
Init == rbtree_init /\ pc = "idle" /\ node = Null /\ temp = Null

Loop == \/ Descend \/ Link \/ RecolorUp \/ RotateUp \/ InsertEnd
        \/ FixupRecolor \/ FixupRotate \/ DeleteEnd

Next == \/ \E x \in Node : \E k \in Expiry[x] : msg_tmo_insert(x, k)
        \/ \E x \in Node : msg_tmo_delete(x)
        \/ Loop

Spec == Init /\ [][Next]_vars

-----------------------------------------------------------------------------
(* The nodes under x in order, down to a depth no path can exceed.         *)
InOrder ==
    LET walk[d \in 0..Cardinality(Node), x \in Pointer] ==
            IF d = 0 \/ x \notin Node THEN <<>>
            ELSE walk[d - 1, mem[x].left] \o <<x>> \o walk[d - 1, mem[x].right]
    IN walk[Cardinality(Node), root]

InTree == LET o == InOrder IN {o[i] : i \in DOMAIN o}

(* Black nodes on the way down; -1 when two ways differ.                   *)
BlackHeight ==
    LET high[d \in 0..Cardinality(Node), x \in Pointer] ==
            IF d = 0 \/ x \notin Node THEN 0
            ELSE LET l == high[d - 1, mem[x].left]
                     r == high[d - 1, mem[x].right]
                 IN IF l # r \/ l = -1 THEN -1
                    ELSE IF mem[x].red THEN l ELSE l + 1
    IN high[Cardinality(Node), root]

(* rbtree_insert and rbtree_delete leave a red-black tree: a black root,   *)
(* no two red nodes in a row, as many black nodes on every way down.       *)
Balanced ==
    pc = "idle" =>
        /\ ~mem[root].red
        /\ \A x \in InTree : mem[x].red =>
              ~mem[mem[x].left].red /\ ~mem[mem[x].right].red
        /\ BlackHeight # -1

(* In every state between two turns of a loop the links of the nodes in    *)
(* the tree agree in both directions, and lead to no node twice: the       *)
(* parent pointers and the sentinel the rotations and the fixup use are    *)
(* the right ones, although nothing repairs the parent of a new root.      *)
LinksAgree ==
    LET in == InTree IN
    /\ Cardinality(in) = Len(InOrder)
    /\ \A x \in in \ {root} :
          /\ mem[x].parent \in in
          /\ x \in {mem[mem[x].parent].left, mem[mem[x].parent].right}
    /\ \A x \in in : {mem[x].left, mem[x].right} \subseteq
                          in \cup {Sentinel}
    /\ ~mem[Sentinel].red

(* A request that has no timer is not written to: it may be freed, and     *)
(* serve another client, while the old root's parent still names it.       *)
OutsideUntouched ==
    LET in == InTree IN
    \A x \in Node \ in : ~(pc = "descend" /\ x = node) =>
        /\ mem[x].left = Null /\ mem[x].right = Null /\ mem[x].parent = Null
        /\ ~mem[x].data

(* core_timeout looks at one request only: rbtree_min, which expires no    *)
(* later than any other.                                                   *)
MinIsFirst ==
    pc = "idle" =>
        IF InOrder = <<>> THEN rbtree_min = Null
        ELSE /\ rbtree_min = InOrder[1]
             /\ \A x \in InTree : mem[rbtree_min].key <= mem[x].key

(* All of it: the fields keep their types, the tree is a red-black tree    *)
(* whose links agree, whose minimum is first, and that names no request    *)
(* outside it.                                                             *)
RedBlackTree == TypeOK /\ Balanced /\ LinksAgree /\ OutsideUntouched /\ MinIsFirst

(* Links up to the root, and what is left for the loop that runs.          *)
Depth(x) ==
    LET up[y \in Cell] == IF y = root THEN 0 ELSE 1 + up[mem[y].parent]
    IN up[x]

TurnsLeft == IF pc = "descend" THEN Cardinality(Node) - Depth(temp)
             ELSE IF pc = "rebalance" /\ RedPair THEN Depth(node)
             ELSE IF pc = "fixup" /\ Lacking THEN Depth(temp)
             ELSE 0

(* Every insertion and deletion ends, for each turn of its loop leaves     *)
(* less to do: a rotation that moves the cursor away from the root, as in  *)
(* the fixup of a red sibling, is the last but for the recoloring.         *)
LoopsEnd == [][pc # "idle" /\ pc' = pc => TurnsLeft' < TurnsLeft]_vars

(* The tree is the queue of timers Timers describes: first expiry first,   *)
(* and first in first out among equal ones, whatever the rotations do.     *)
Timed == LET o == InOrder IN
         [i \in DOMAIN o |-> [node |-> o[i], key |-> mem[o[i]].key]]
Queue == INSTANCE Timers WITH queue <- Timed
ImplementsQueue == Queue!Spec

=============================================================================
