---------------------------- MODULE HeapContract ----------------------------
(***************************************************************************)
(* What a program may expect of malloc, calloc, realloc and free: a block  *)
(* it is given is not one it has and has room for what was asked, and      *)
(* realloc keeps what is written in it.                                    *)
(***************************************************************************)
EXTENDS Naturals

CONSTANTS Ptr, Requests

VARIABLES
    inUse,    \* the blocks the program has
    size,     \* the size it asked for
    room,     \* the bytes from its start on that belong to a block
    data      \* how many bytes, from the first on, hold what they should

vars == <<inUse, size, room, data>>

AtMost(m, n) == IF m <= n THEN m ELSE n

Init ==
    /\ inUse = {}
    /\ size = [p \in Ptr |-> 0]
    /\ room = [p \in Ptr |-> 0]
    /\ data = [p \in Ptr |-> 0]

\* The block is of the desired size, or larger.
Provides(p, n) ==
    /\ size' = [size EXCEPT ![p] = n]
    /\ room'[p] >= n
    /\ room' = [room EXCEPT ![p] = room'[p]]

\* A new block, of which the first d bytes are defined: none by malloc, all by
\* calloc.
Allocate(p, n, d) ==
    /\ p \notin inUse
    /\ inUse' = inUse \cup {p}
    /\ Provides(p, n)
    /\ data' = [data EXCEPT ![p] = d]

\* The program writes to all of its block.
Write(p) ==
    /\ p \in inUse
    /\ data' = [data EXCEPT ![p] = size[p]]
    /\ UNCHANGED <<inUse, size, room>>

\* The block may move; what it held up to the smaller size moves with it.
Resize(p, q, n) ==
    /\ p \in inUse /\ q \notin inUse \ {p}
    /\ inUse' = (inUse \ {p}) \cup {q}
    /\ Provides(q, n)
    /\ data' = [data EXCEPT ![q] = AtMost(data[p], n)]

Release(p) ==
    /\ p \in inUse
    /\ inUse' = inUse \ {p}
    /\ UNCHANGED <<size, room, data>>

Next ==
    \/ \E p \in Ptr, n \in Requests : Allocate(p, n, 0) \/ Allocate(p, n, n)
    \/ \E p \in Ptr : Write(p) \/ Release(p)
    \/ \E p, q \in Ptr, n \in Requests : Resize(p, q, n)

Spec == Init /\ [][Next]_vars

=============================================================================
