--------------------------- MODULE JMallocProofs ---------------------------
(***************************************************************************)
(* Proofs about JMalloc for every size of the arena and of a word: the     *)
(* type invariant, and that the four functions keep the contract of        *)
(* HeapContract for programs whose sizes realloc can read back.            *)
(***************************************************************************)
EXTENDS JMalloc, TLAPS

-----------------------------------------------------------------------------
(* The arithmetic of get_block and of realloc's first line.                *)

\* get_block's size holds what was asked, in eights, with room for an Flist.
LEMMA FullSize ==
    ASSUME NEW n \in Nat
    PROVE  /\ full_size(n) - 8 \in Nat
           /\ full_size(n) - 8 >= n
           /\ full_size(n) - 8 >= 16
           /\ (full_size(n) - 8) % 8 = 0
<1> DEFINE r == n % 8
<1>1. r \in 0..7 /\ (r = 0 \/ (n + (8 - r)) % 8 = 0)
  BY SMT
<1>2. RoundUp(n) \in Nat /\ RoundUp(n) >= n /\ RoundUp(n) % 8 = 0
  BY <1>1, SMT DEF RoundUp
<1> QED
  BY <1>2, SMT DEF full_size

LEMMA RequestsAreNat == ASSUME NEW n \in Requests PROVE n \in Nat /\ n <= MALLOC_BUF_SIZE
  BY MallocAssumption

\* What realloc takes for the current size is the size if it has one byte and no
\* sign bit.
LEMMA CurrSizeIs ==
    ASSUME NEW p, book[p] \in Nat
    PROVE  /\ CurrSize(p) \in Nat
           /\ book[p] < 128 => CurrSize(p) = book[p]
<1>1. book[p] % 256 \in 0..255 /\ (book[p] < 128 => book[p] % 256 = book[p])
  BY SMT
<1> QED
  BY <1>1, MallocAssumption, SMT DEF CurrSize

-----------------------------------------------------------------------------
(* The type invariant.                                                     *)

\* A block taken from sbrk keeps the types.
LEMMA GetBlockTypeOK ==
    ASSUME TypeOK, NEW q, NEW n \in Requests, NEW bytes \in Nat,
           GetBlock(q, n, bytes), inUse' \subseteq inUse \cup {q}
    PROVE  TypeOK'
<1>1. n \in Nat /\ full_size(n) - 8 \in Nat /\ full_size(n) - 8 >= 16
      /\ (full_size(n) - 8) % 8 = 0
  BY RequestsAreNat, FullSize
<1>2. ArenaLimit \in Nat /\ brk \in Nat /\ q = brk + 1 /\ q \in Ptr /\ brk' = q
  BY MallocAssumption DEF TypeOK, GetBlock, Ptr
<1>3. book' \in [Ptr -> Nat] /\ asked' \in [Ptr -> Nat] /\ good' \in [Ptr -> Nat]
  BY <1>1, <1>2 DEF TypeOK, GetBlock
<1>4. inUse' \subseteq 1..brk'
  BY <1>2 DEF TypeOK
<1>5. ASSUME NEW p \in 1..brk' PROVE book'[p] % 8 = 0 /\ book'[p] >= 16
  <2>1. CASE p = q
    BY <2>1, <1>1, <1>2 DEF TypeOK, GetBlock
  <2>2. CASE p # q
    <3>1. p \in 1..brk /\ p \in Ptr
      BY <2>2, <1>2 DEF Ptr
    <3> QED
      BY <3>1, <2>2 DEF TypeOK, GetBlock
  <2> QED
    BY <2>1, <2>2
<1>6. brk' \in 0..ArenaLimit /\ status' \in {"run", "segv"}
  BY <1>2 DEF TypeOK, GetBlock, Ptr
<1> QED
  BY <1>3, <1>4, <1>5, <1>6 DEF TypeOK

LEMMA InitTypeOK == Init => TypeOK
  BY MallocAssumption DEF Init, TypeOK, Ptr

LEMMA NextTypeOK == TypeOK /\ [Next]_vars => TypeOK'
<1> SUFFICES ASSUME TypeOK, [Next]_vars PROVE TypeOK'
  OBVIOUS
<1>1. ASSUME NEW q \in Ptr, NEW n \in Requests, Malloc(q, n) \/ Calloc(q, n)
      PROVE TypeOK'
  BY <1>1, RequestsAreNat, GetBlockTypeOK DEF Malloc, Calloc
<1>2. ASSUME NEW p \in Ptr, Use(p) \/ Free(p) PROVE TypeOK'
  BY <1>2 DEF TypeOK, Use, Free
<1>3. ASSUME NEW p \in Ptr, NEW n \in Requests, ReallocInPlace(p, n) PROVE TypeOK'
  BY <1>3, RequestsAreNat DEF TypeOK, ReallocInPlace, Least
<1>4. ASSUME NEW p \in Ptr, NEW q \in Ptr, NEW n \in Requests, ReallocMoves(p, q, n)
      PROVE TypeOK'
  <2>1. good[p] \in Nat /\ CurrSize(p) \in Nat
    BY CurrSizeIs DEF TypeOK
  <2>2. Least(good[p], CurrSize(p)) \in Nat
    BY <2>1 DEF Least
  <2> QED
    BY <1>4, <2>2, GetBlockTypeOK DEF ReallocMoves
<1>5. CASE SbrkFails
  BY <1>5 DEF TypeOK, SbrkFails
<1>6. CASE UNCHANGED vars
  BY <1>6 DEF TypeOK, vars
<1> QED
  BY <1>1, <1>2, <1>3, <1>4, <1>5, <1>6 DEF Next

\* The variables keep their types, and the size kept with every block is a
\* multiple of eight with room for an Flist (get_block, freelist.c).
THEOREM TypeCorrect == Spec => []TypeOK
  BY InitTypeOK, NextTypeOK, PTL DEF Spec

-----------------------------------------------------------------------------
(* The contract. What realloc copies is decided by the size that get_block *)
(* kept; the strengthening ties that size to what the program asked for.   *)

BookOK(p) ==
    /\ book[p] < 128
    /\ asked[p] <= book[p]
    /\ good[p] <= asked[p]

IInv == TypeOK /\ \A p \in inUse : BookOK(p)

LEMMA InitIInv == Init => IInv
  BY InitTypeOK DEF Init, IInv

\* The block get_block returns is one the program does not have, and every
\* block it keeps is as it was.
LEMMA GetBlockIInv ==
    ASSUME IInv, NEW q, NEW n \in Requests, ReadBack(n), NEW bytes \in Nat,
           bytes <= n, GetBlock(q, n, bytes), inUse' \subseteq inUse \cup {q}
    PROVE  q \notin inUse /\ IInv' /\ Heap!Provides(q, n)
<1>1. brk \in Nat /\ q = brk + 1 /\ q \in Ptr
  BY MallocAssumption DEF IInv, TypeOK, GetBlock, Ptr
<1>2. q \notin inUse
  BY <1>1 DEF IInv, TypeOK
<1>3. TypeOK'
  BY GetBlockTypeOK DEF IInv
<1>4. n \in Nat /\ full_size(n) - 8 >= n /\ full_size(n) - 8 \in Nat
  BY RequestsAreNat, FullSize
<1>5. book'[q] = full_size(n) - 8 /\ asked'[q] = n /\ good'[q] = bytes
  BY <1>1 DEF IInv, TypeOK, GetBlock
<1>6. BookOK(q)'
  BY <1>4, <1>5 DEF ReadBack, BookOK
<1>7. ASSUME NEW p \in inUse', p # q PROVE BookOK(p)'
  <2>1. p \in inUse /\ p \in Ptr /\ BookOK(p)
    BY <1>7, MallocAssumption DEF IInv, TypeOK, Ptr
  <2>2. book'[p] = book[p] /\ asked'[p] = asked[p] /\ good'[p] = good[p]
    BY <1>7, <2>1 DEF IInv, TypeOK, GetBlock
  <2> QED
    BY <2>1, <2>2 DEF BookOK
<1>8. Heap!Provides(q, n)
  BY <1>4, <1>5 DEF GetBlock, Heap!Provides
<1> QED
  BY <1>2, <1>3, <1>6, <1>7, <1>8 DEF IInv

\* What realloc copies into a new block is all that was good in the old one.
LEMMA CopiesAll ==
    ASSUME IInv, NEW p \in inUse, NEW n \in Requests, n >= CurrSize(p)
    PROVE  /\ Least(good[p], CurrSize(p)) = good[p]
           /\ good[p] \in Nat /\ good[p] <= n
<1>1. BookOK(p) /\ p \in Ptr
  BY MallocAssumption DEF IInv, TypeOK, Ptr
<1>2. good[p] \in Nat /\ book[p] \in Nat /\ asked[p] \in Nat
  BY <1>1 DEF IInv, TypeOK
<1>3. n \in Nat /\ n <= MALLOC_BUF_SIZE
  BY RequestsAreNat
<1>4. CurrSize(p) = book[p] /\ good[p] <= asked[p] /\ asked[p] <= book[p]
  BY <1>1, <1>2, CurrSizeIs DEF BookOK
<1> QED
  BY <1>2, <1>3, <1>4 DEF Least

LEMMA NextIInv ==
    ASSUME \A n \in Requests : ReadBack(n)
    PROVE  IInv /\ [Next]_vars => IInv' /\ [Heap!Next]_(Heap!vars)
<1> SUFFICES ASSUME IInv, [Next]_vars PROVE IInv' /\ [Heap!Next]_(Heap!vars)
  OBVIOUS
<1> TypeOK /\ TypeOK'
  BY NextTypeOK DEF IInv
<1>1. ASSUME NEW q \in Ptr, NEW n \in Requests, Malloc(q, n)
      PROVE IInv' /\ Heap!Allocate(q, n, 0)
  <2>1. q \notin inUse /\ IInv' /\ Heap!Provides(q, n)
    BY <1>1, RequestsAreNat, GetBlockIInv DEF Malloc
  <2> QED
    BY <1>1, <2>1 DEF Malloc, GetBlock, Heap!Allocate
<1>2. ASSUME NEW q \in Ptr, NEW n \in Requests, Calloc(q, n)
      PROVE IInv' /\ Heap!Allocate(q, n, n)
  <2>1. q \notin inUse /\ IInv' /\ Heap!Provides(q, n)
    BY <1>2, RequestsAreNat, GetBlockIInv DEF Calloc
  <2> QED
    BY <1>2, <2>1 DEF Calloc, GetBlock, Heap!Allocate
<1>3. ASSUME NEW p \in Ptr, Use(p) PROVE IInv' /\ Heap!Write(p)
  <2>1. ASSUME NEW o \in inUse' PROVE BookOK(o)'
    BY <1>3, <2>1 DEF Use, IInv, TypeOK, BookOK
  <2> QED
    BY <1>3, <2>1 DEF Use, IInv, Heap!Write
<1>4. ASSUME NEW p \in Ptr, Free(p) PROVE IInv' /\ Heap!Release(p)
  BY <1>4 DEF Free, IInv, BookOK, Heap!Release
<1>5. ASSUME NEW p \in Ptr, NEW n \in Requests, ReallocInPlace(p, n)
      PROVE IInv' /\ Heap!Resize(p, p, n)
  <2>1. p \in inUse /\ n < CurrSize(p) /\ n \in Nat /\ BookOK(p)
    BY <1>5, RequestsAreNat DEF ReallocInPlace, IInv
  <2>2. book[p] \in Nat /\ good[p] \in Nat
    BY DEF TypeOK
  <2>3. n <= book[p]
    BY <2>1, <2>2, CurrSizeIs DEF BookOK
  <2>4. book' = book /\ asked'[p] = n /\ good'[p] = Least(good[p], n)
    BY <1>5 DEF ReallocInPlace, TypeOK
  <2>5. BookOK(p)'
    BY <2>1, <2>2, <2>3, <2>4 DEF BookOK, Least
  <2>6. ASSUME NEW o \in inUse', o # p PROVE BookOK(o)'
    BY <1>5, <2>6 DEF ReallocInPlace, IInv, TypeOK, BookOK
  <2>7. inUse' = (inUse \ {p}) \cup {p}
    BY <1>5 DEF ReallocInPlace
  <2>8. Heap!Provides(p, n)
    BY <1>5, <2>2, <2>3, <2>4 DEF ReallocInPlace, Heap!Provides, TypeOK
  <2> QED
    BY <1>5, <2>1, <2>5, <2>6, <2>7, <2>8
       DEF ReallocInPlace, IInv, Heap!Resize, Heap!AtMost, Least
<1>6. ASSUME NEW p \in Ptr, NEW q \in Ptr, NEW n \in Requests, ReallocMoves(p, q, n)
      PROVE IInv' /\ Heap!Resize(p, q, n)
  <2> DEFINE kept == Least(good[p], CurrSize(p))
  <2>1. p \in inUse /\ GetBlock(q, n, kept) /\ inUse' = (inUse \ {p}) \cup {q}
    BY <1>6 DEF ReallocMoves
  <2>2. kept = good[p] /\ kept \in Nat /\ kept <= n
    BY <1>6, <2>1, CopiesAll DEF ReallocMoves
  <2>3. q \notin inUse /\ IInv' /\ Heap!Provides(q, n)
    BY <2>1, <2>2, GetBlockIInv
  <2>4. kept = Heap!AtMost(good[p], n)
    BY <2>2 DEF Heap!AtMost
  <2>5. asked' = [asked EXCEPT ![q] = n] /\ good' = [good EXCEPT ![q] = kept]
    BY <2>1 DEF GetBlock
  <2> QED
    BY <2>1, <2>3, <2>4, <2>5 DEF Heap!Resize
<1>7. CASE SbrkFails \/ UNCHANGED vars
  BY <1>7 DEF SbrkFails, vars, IInv, BookOK, Heap!vars
<1> QED
  BY <1>1, <1>2, <1>3, <1>4, <1>5, <1>6, <1>7 DEF Next, Heap!Next

\* For programs whose sizes realloc reads back, malloc, calloc, realloc and free
\* never hand out a block in use, nor one too small for what was asked, and never
\* lose what a block holds (malloc.c, freelist.c).
THEOREM ContractKept ==
    ASSUME \A n \in Requests : ReadBack(n)
    PROVE  Spec => Contract
<1>1. Init => Heap!Init
  BY DEF Init, Heap!Init
<1> QED
  BY <1>1, InitIInv, NextIInv, PTL DEF Spec, Contract, Heap!Spec

=============================================================================
