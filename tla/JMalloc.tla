------------------------------ MODULE JMalloc ------------------------------
(***************************************************************************)
(* libjmalloc of lab5: malloc, calloc, realloc and free (malloc.c) on      *)
(* get_block, search_for_extra_space and return_block (freelist.c).        *)
(*                                                                         *)
(* These three get the free list's head by value and assign only their own *)
(* copy of it, so flist_head is NULL at every call: get_block never finds  *)
(* an element and takes a new arena from sbrk, search_for_extra_space      *)
(* always copies, and return_block returns at once. A pointer stands for   *)
(* the arena it is the start of.                                           *)
(***************************************************************************)
EXTENDS Integers

CONSTANTS
    Requests,          \* sizes a program asks for (of calloc, the product)
    ArenaLimit,        \* arenas the address space has room for
    MALLOC_BUF_SIZE,   \* bytes in an arena: INT_MAX
    WordSize           \* one more than the largest unsigned int

ASSUME MallocAssumption ==
    /\ ArenaLimit \in Nat
    /\ MALLOC_BUF_SIZE \in Nat /\ WordSize \in Nat
    /\ MALLOC_BUF_SIZE + 256 <= WordSize
    /\ Requests \subseteq 0..(MALLOC_BUF_SIZE - 32)

Ptr == 1..ArenaLimit

VARIABLES
    brk,       \* arenas obtained: the end of the data segment
    book,      \* per block: the size in its bookkeeping bytes
    inUse,     \* blocks the program has been given and has not given back
    asked,     \* the sizes the program asked for
    good,      \* bytes that hold what the program put there, or calloc's zeros
    status     \* "run", or "segv" once sbrk's failure has been written through

vars == <<brk, book, inUse, asked, good, status>>

\* Variant: the remainder is added instead of what it lacks of eight.
RoundUpWrong(n) == n + (n % 8)
RoundUp(n) == IF n % 8 = 0 THEN n ELSE n + (8 - (n % 8))

\* Eight bytes are added for the bookkeeping; an Flist must fit in the whole.
full_size(n) == IF RoundUp(n) + 8 < 24 THEN 24 ELSE RoundUp(n) + 8

Init ==
    /\ brk = 0 /\ inUse = {} /\ status = "run"
    /\ book = [p \in Ptr |-> 0]
    /\ asked = [p \in Ptr |-> 0]
    /\ good = [p \in Ptr |-> 0]

\* get_block with an empty free list: the block q at the start of a new arena.
GetBlock(q, n, bytes) ==
    /\ status = "run" /\ brk < ArenaLimit /\ q = brk + 1
    /\ brk' = q
    /\ book' = [book EXCEPT ![q] = full_size(n) - 8]
    /\ asked' = [asked EXCEPT ![q] = n]
    /\ good' = [good EXCEPT ![q] = bytes]
    /\ UNCHANGED status

Malloc(q, n) == GetBlock(q, n, 0) /\ inUse' = inUse \cup {q}

Calloc(q, n) == GetBlock(q, n, n) /\ inUse' = inUse \cup {q}

\* create_flist writes through what sbrk returns, and sbrk may return -1.
SbrkFails ==
    /\ status = "run" /\ brk = ArenaLimit
    /\ status' = "segv"
    /\ UNCHANGED <<brk, book, inUse, asked, good>>

\* The program writes to the whole of a block.
Use(p) ==
    /\ status = "run" /\ p \in inUse
    /\ good' = [good EXCEPT ![p] = asked[p]]
    /\ UNCHANGED <<brk, book, inUse, asked, status>>

\* Variant: the size is taken to count the bookkeeping bytes.
CurrSizeWhole(p) == (book[p] % 256) + 8
\* *(cptr-8) is one byte of the size, and it is signed.
CurrSize(p) ==
    LET byte == book[p] % 256
    IN  IF byte < 128 THEN byte ELSE WordSize - 256 + byte

Least(m, n) == IF m <= n THEN m ELSE n

\* A size below the current one is served in place.
ReallocInPlace(p, n) ==
    /\ status = "run" /\ p \in inUse /\ n < CurrSize(p)
    /\ asked' = [asked EXCEPT ![p] = n]
    /\ good' = [good EXCEPT ![p] = Least(@, n)]
    /\ UNCHANGED <<brk, book, inUse, status>>

\* Any other by a new block, into which the current size is copied.
ReallocMoves(p, q, n) ==
    /\ p \in inUse /\ n >= CurrSize(p)
    /\ GetBlock(q, n, Least(good[p], CurrSize(p)))
    /\ inUse' = (inUse \ {p}) \cup {q}

\* return_block has no list to put the block on.
Free(p) ==
    /\ status = "run" /\ p \in inUse
    /\ inUse' = inUse \ {p}
    /\ UNCHANGED <<brk, book, asked, good, status>>

Next ==
    \/ \E q \in Ptr, n \in Requests : Malloc(q, n) \/ Calloc(q, n)
    \/ \E p \in Ptr : Use(p) \/ Free(p)
    \/ \E p \in Ptr, n \in Requests : ReallocInPlace(p, n)
    \/ \E p, q \in Ptr, n \in Requests : ReallocMoves(p, q, n)
    \/ SbrkFails

Spec == Init /\ [][Next]_vars

-----------------------------------------------------------------------------

\* Every variable has its type, and the size kept with a block is a multiple of
\* eight that leaves room for an Flist, as get_block's rounding is to ensure.
TypeOK ==
    /\ brk \in 0..ArenaLimit
    /\ inUse \subseteq 1..brk
    /\ book \in [Ptr -> Nat] /\ asked \in [Ptr -> Nat] /\ good \in [Ptr -> Nat]
    /\ status \in {"run", "segv"}
    /\ \A p \in 1..brk : book[p] % 8 = 0 /\ book[p] >= 16

\* The sizes whose block realloc reads the true size of: one byte, no sign bit.
ReadBack(n) == full_size(n) - 8 < 128

\* A block is never one in use and has room for what was asked, and realloc loses
\* nothing it should copy: the four functions keep the contract (malloc.c: realloc
\* adds memory or returns "a new memory block of the desired size with the
\* contents of the old block copied over").
Heap == INSTANCE HeapContract WITH size <- asked, room <- book, data <- good
Contract == Heap!Spec

=============================================================================
