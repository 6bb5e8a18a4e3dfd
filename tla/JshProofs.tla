----------------------------- MODULE JshProofs -----------------------------
(***************************************************************************)
(* Theorems about the shell: its types, that a line run to its end leaves  *)
(* no descriptor behind, that only a malformed line brings the shell down, *)
(* that the stages are the line cut at its bars, and that a pipeline gives *)
(* what its stages make of each other's output. They hold for every set of *)
(* lines, any number of descriptors and processes, and pipes and programs  *)
(* of any size.                                                            *)
(***************************************************************************)
EXTENDS Jsh, FiniteSetTheorems, SequenceTheorems, TLAPS

(***************************************************************************)
(* The inductive invariant.                                                *)
(***************************************************************************)

KidType == [state : {"none", "runs", "zombie"}, stage : Nat, left : Nat,
            copies : BOOLEAN, src : Pipe \cup {NoPipe}, dst : Pipe \cup {NoPipe},
            held : SUBSET EndType]

\* What a shell keeps has its type; the line it runs is one the user typed.
ShellTyped ==
    /\ pc \in [Shell -> {"none", "prompt", "open", "stage", "wait", "zombie",
                         "exited", "segv"}]
    /\ pc[Main] \in {"prompt", "open", "stage", "wait", "exited", "segv"}
    /\ \A s \in Shell \ {Main} : pc[s] \in {"none", "open", "stage", "wait", "zombie"}
    /\ piper \in [Shell -> Pipers \cup {NoLine}]
    /\ i \in [Shell -> Nat]
    /\ in \in [Shell -> Fd \cup {0}]
    /\ currpipe \in [Shell -> (Fd \cup {0}) \X (Fd \cup {0})]
    /\ fds \in [Shell -> [Fd -> EndType]]
    /\ whole \in [Shell -> {"no", "short", "yes", "cut"}]
    /\ before \in [Shell -> [Fd -> EndType]]

KidTyped == kid \in [Shell -> KidType]

PipeTyped ==
    /\ pipe \in [Pipe -> Seq(Nat)]
    /\ \A q \in Pipe : Len(pipe[q]) <= PipeCap

Running(s) == pc[s] \in {"stage", "wait"}

\* The descriptors shell s opened for the line it runs: the newest pipe and, from
\* the second stage on, what the stage reads.
Held(s) == {currpipe[s][1], currpipe[s][2]} \cup (IF First(s) THEN {} ELSE {in[s]})

\* A shell at a stage is at a stage of its line, with both ends of a pipe at hand.
AtStage(s) ==
    /\ Busy(s) => piper[s] \in Pipers
    /\ Running(s) =>
          /\ i[s] \in 1..Len(piper[s].command_list)
          /\ currpipe[s][1] \in Fd /\ currpipe[s][2] \in Fd
          /\ currpipe[s][1] # currpipe[s][2]
          /\ ~First(s) => in[s] \in Fd
          /\ fds[s][currpipe[s][1]].pipe = fds[s][currpipe[s][2]].pipe

\* But for the descriptors it holds for its line, which were free, the table of a
\* running shell is the one it had when the line began.
Kept(s) ==
    Running(s) => \A d \in Fd : IF d \in Held(s) THEN before[s][d] = NoEnd
                                ELSE fds[s][d] = before[s][d]

Alive == pc[Main] \notin {"exited", "segv"}

\* A pipe somebody else opened is one the user's shell opened for an earlier line,
\* and that shell, if it is still there, has it open for good.
Inherited(t) ==
    \A d \in Fd :
        fds[t][d].pipe \in Pipe /\ fds[t][d].pipe[1] # t =>
            /\ fds[t][d].pipe[1] = Main
            /\ Alive => \E e \in Fd : /\ fds[Main][e].pipe = fds[t][d].pipe
                                      /\ Running(Main) => e \notin Held(Main)

ShellInv ==
    /\ ShellTyped
    /\ \A s \in Shell : AtStage(s) /\ Kept(s) /\ Inherited(s)
    /\ CrashOnlyOnMalformed
    /\ WholeLineLeavesNoFd

IInv == ShellInv /\ KidTyped /\ PipeTyped

(***************************************************************************)
(* The operators the shell is built from.                                  *)
(***************************************************************************)

\* A non-empty set of numbers has a least one, and Min is one of its members.
LEMMA MinIsIn ==
    ASSUME NEW S, S \subseteq Nat, S # {}
    PROVE  Min(S) \in S
<1>1. PICK m \in S : \A n \in S : ~(<<n, m>> \in OpToRel(<, Nat))
    BY NatLessThanWellFounded, WFMin, Zenon
<1>2. \A n \in S : ~(n < m)
    BY <1>1 DEF OpToRel
<1>3. \A n \in S : m <= n
    BY <1>2
<1> QED
    BY <1>3 DEF Min

LEMMA FdFinite == Fd \subseteq Nat /\ IsFiniteSet(Fd) /\ Cardinality(Fd) \in Nat
<1>1. Fd \subseteq Nat
    BY JshAssumption DEF Fd
<1>2. IsFiniteSet(Fd)
    BY JshAssumption, FS_Interval DEF Fd
<1> QED
    BY <1>1, <1>2, FS_CardinalityType

\* pipe() returns two different descriptors that were free.
LEMMA PipeFdsAreFree ==
    ASSUME NEW table, CanPipe(table)
    PROVE  /\ PipeFds(table)[1] \in FreeFds(table)
           /\ PipeFds(table)[2] \in FreeFds(table)
           /\ PipeFds(table)[1] # PipeFds(table)[2]
           /\ PipeFds(table) \in Fd \X Fd
<1> DEFINE free == FreeFds(table)
           r == Min(free)
           w == Min(free \ {r})
<1>1. free \subseteq Fd /\ free \subseteq Nat /\ IsFiniteSet(free)
    BY FdFinite, FS_Subset DEF FreeFds
<1>2. Cardinality(free) \in Nat /\ Cardinality(free) >= 2
    BY <1>1, FS_CardinalityType DEF CanPipe
<1>3. free # {}
    BY <1>2, FS_EmptySet
<1>4. r \in free
    <2> HIDE DEF free
    <2> QED BY <1>1, <1>3, MinIsIn
<1>5. free \ {r} # {}
    <2>1. SUFFICES ASSUME free = {r} PROVE FALSE
        BY <1>4
    <2>2. Cardinality({r}) = 1
        BY FS_Singleton
    <2> HIDE DEF free, r
    <2> QED BY <1>2, <2>1, <2>2
<1>6. w \in free \ {r}
    <2> HIDE DEF free, r
    <2>1. free \ {r} \subseteq Nat
        BY <1>1
    <2> QED BY <2>1, <1>5, MinIsIn
<1>7. PipeFds(table) = <<r, w>>
    BY DEF PipeFds
<1> HIDE DEF r, w
<1> QED
    BY <1>1, <1>4, <1>6, <1>7

LEMMA EndsTyped ==
    /\ NoEnd \in EndType
    /\ NoPipe \notin Pipe
    /\ \A q \in Pipe \cup {NoPipe} : ReadEnd(q) \in EndType /\ WriteEnd(q) \in EndType
    /\ \A q \in Pipe : /\ ReadEnd(q) # NoEnd /\ WriteEnd(q) # NoEnd
                       /\ ReadEnd(q).pipe = q /\ WriteEnd(q).pipe = q
<1>1. NoPipe \notin Pipe
    BY FdFinite DEF NoPipe, Pipe
<1> QED
    BY <1>1 DEF NoEnd, EndType, ReadEnd, WriteEnd

\* What a table holds once pipe() has filled in the two ends of a pipe.
LEMMA WithPipeFills ==
    ASSUME NEW table \in [Fd -> EndType], NEW q \in Pipe, CanPipe(table)
    PROVE  /\ WithPipe(table, q) \in [Fd -> EndType]
           /\ WithPipe(table, q)[PipeFds(table)[1]] = ReadEnd(q)
           /\ WithPipe(table, q)[PipeFds(table)[2]] = WriteEnd(q)
           /\ \A d \in Fd \ {PipeFds(table)[1], PipeFds(table)[2]} :
                 WithPipe(table, q)[d] = table[d]
           /\ table[PipeFds(table)[1]] = NoEnd /\ table[PipeFds(table)[2]] = NoEnd
<1>1. PICK r \in Fd, w \in Fd :
          /\ PipeFds(table)[1] = r /\ PipeFds(table)[2] = w /\ r # w
          /\ table[r] = NoEnd /\ table[w] = NoEnd
    BY PipeFdsAreFree DEF FreeFds
<1>2. ReadEnd(q) \in EndType /\ WriteEnd(q) \in EndType
    BY EndsTyped
<1> QED
    BY <1>1, <1>2 DEF WithPipe

LEMMA CloseTyped ==
    ASSUME NEW table \in [Fd -> EndType], NEW ds
    PROVE  /\ Close(table, ds) \in [Fd -> EndType]
           /\ \A d \in Fd : Close(table, ds)[d] = IF d \in ds THEN NoEnd ELSE table[d]
BY EndsTyped DEF Close

Rank(S, j) == Cardinality({b \in S : b <= j})

LEMMA RankIsNat ==
    ASSUME NEW S, S \subseteq Nat, IsFiniteSet(S), NEW j \in S
    PROVE  Rank(S, j) \in 1..Cardinality(S) /\ Cardinality(S) \in Nat
<1> DEFINE T == {b \in S : b <= j}
<1>1. T \in SUBSET S /\ j \in T
    OBVIOUS
<1> HIDE DEF T
<1>2. /\ IsFiniteSet(T) /\ Cardinality(T) <= Cardinality(S)
      /\ Cardinality(T) \in Nat /\ Cardinality(S) \in Nat
    BY <1>1, FS_Subset, FS_CardinalityType
<1>3. Cardinality(T) # 0
    BY <1>1, <1>2, FS_EmptySet
<1> QED
    BY <1>2, <1>3 DEF Rank, T

LEMMA RankGrows ==
    ASSUME NEW S, S \subseteq Nat, IsFiniteSet(S), NEW j \in S, NEW k \in S, j < k
    PROVE  Rank(S, j) < Rank(S, k)
<1> DEFINE low == {b \in S : b <= j}
           high == {b \in S : b <= k}
<1>0. \A b \in S : b <= j => b <= k
    OBVIOUS
<1>1. low \in SUBSET high /\ high \in SUBSET S /\ k \in high /\ k \notin low
    <2>1. k <= k /\ ~(k <= j)
        OBVIOUS
    <2> QED BY <1>0, <2>1, ZenonT(30)
<1> HIDE DEF low, high
<1>2. IsFiniteSet(high) /\ IsFiniteSet(low)
    BY <1>1, FS_Subset
<1>3. Cardinality(low) <= Cardinality(high) /\ Cardinality(high) # Cardinality(low)
    BY <1>1, <1>2, FS_Subset
<1>4. Cardinality(low) \in Nat /\ Cardinality(high) \in Nat
    BY <1>2, FS_CardinalityType
<1>5. Cardinality(low) < Cardinality(high)
    BY <1>3, <1>4
<1> QED
    BY <1>5 DEF Rank, low, high

\* Every place of a finite set of numbers is taken.
LEMMA RankTaken ==
    ASSUME NEW S, S \subseteq Nat, IsFiniteSet(S), NEW k \in 1..Cardinality(S)
    PROVE  \E j \in S : Rank(S, j) = k
<1> DEFINE N == Cardinality(S)
           free == {m \in 1..N : \A j \in S : Rank(S, j) # m}
<1>0. N \in Nat
    BY FS_CardinalityType
<1>1. SUFFICES ASSUME free # {} PROVE FALSE
    OBVIOUS
<1>2. PICK m \in free : \A n \in free : m <= n
    <2>1. free \subseteq Nat
        BY <1>0
    <2> HIDE DEF free
    <2>2. PICK m \in free : \A n \in free : ~(<<n, m>> \in OpToRel(<, Nat))
        BY <1>1, <2>1, NatLessThanWellFounded, WFMin, ZenonT(30)
    <2>3. \A n \in free : ~(n < m)
        BY <2>1, <2>2 DEF OpToRel
    <2> QED BY <2>1, <2>3
<1>3. m \in 1..N /\ m \in Nat /\ \A j \in S : Rank(S, j) # m
    BY <1>0
<1>4. PICK low \in SUBSET S : /\ Cardinality(low) = m - 1
                              /\ \A a \in low, b \in S \ low : a < b
    <2>1. CASE m = 1
        <3>1. Cardinality({}) = m - 1
            BY <2>1, FS_EmptySet
        <3> QED BY <3>1
    <2>2. CASE m # 1
        <3>1. m - 1 \in 1..N /\ ~(m <= m - 1)
            BY <1>0, <1>3, <2>2
        <3>2. m - 1 \notin free
            BY <1>2, <3>1
        <3>3. PICK j \in S : Rank(S, j) = m - 1
            BY <3>1, <3>2
        <3>4. \A a \in {b \in S : b <= j}, b \in S \ {b \in S : b <= j} : a < b
            OBVIOUS
        <3> QED BY <3>3, <3>4 DEF Rank
    <2> QED BY <2>1, <2>2
<1> HIDE DEF N, free
<1>5. IsFiniteSet(low)
    BY FS_Subset
<1>6. PICK j \in S \ low : \A b \in S \ low : j <= b
    <2>1. S \ low # {}
        <3>1. SUFFICES ASSUME low = S PROVE FALSE
            OBVIOUS
        <3>2. m - 1 = N
            BY <1>4, <3>1 DEF N
        <3> QED BY <1>0, <1>3, <3>2
    <2>2. S \ low \subseteq Nat
        OBVIOUS
    <2>3. PICK j \in S \ low : \A n \in S \ low : ~(<<n, j>> \in OpToRel(<, Nat))
        BY <2>1, <2>2, NatLessThanWellFounded, WFMin, ZenonT(30)
    <2>4. \A n \in S \ low : ~(n < j)
        BY <2>2, <2>3 DEF OpToRel
    <2> QED BY <2>2, <2>4
<1>7. {b \in S : b <= j} = low \cup {j}
    <2>1. ASSUME NEW b \in S, b <= j PROVE b \in low \cup {j}
        BY <1>6, <2>1
    <2>2. ASSUME NEW b \in low PROVE b \in S /\ b <= j
        BY <1>4, <1>6, <2>2
    <2> QED BY <1>6, <2>1, <2>2
<1>8. Cardinality(low \cup {j}) = (m - 1) + 1
    BY <1>4, <1>5, <1>6, FS_AddElement
<1>9. Rank(S, j) = m
    BY <1>3, <1>7, <1>8 DEF Rank
<1> QED
    BY <1>3, <1>9

BarsOf(ws) == {j \in DOMAIN ws : ws[j] = "|"}

\* The cuts of a line: its start, every | in turn, and its end.
LEMMA CutsAre ==
    ASSUME NEW ws \in Seq(STRING), NEW n \in Nat, n = Cardinality(BarsOf(ws))
    PROVE  /\ Len(Cuts(ws)) = n + 2 /\ Cuts(ws)[1] = 0 /\ Cuts(ws)[n + 2] = Len(ws) + 1
           /\ \A m \in 1..n : /\ Cuts(ws)[m + 1] \in BarsOf(ws)
                             /\ Rank(BarsOf(ws), Cuts(ws)[m + 1]) = m
           /\ DOMAIN Stages(ws) = 1..n+1
           /\ \A m \in 1..n+1 : Stages(ws)[m] = SubSeq(ws, Cuts(ws)[m] + 1, Cuts(ws)[m+1] - 1)
           /\ Len(Stages(ws)) = n + 1
<1> DEFINE bars == {j \in DOMAIN ws : ws[j] = "|"}
           L == Len(ws)
<1>1. L \in Nat /\ DOMAIN ws = 1..L
    BY LenProperties
<1>2. bars \subseteq 1..L /\ bars \subseteq Nat /\ IsFiniteSet(bars)
    <2>1. IsFiniteSet(1..L)
        BY <1>1, FS_Interval
    <2>2. bars \in SUBSET (1..L)
        BY <1>1
    <2> QED BY <1>1, <2>1, <2>2, FS_Subset
<1>3. n = Cardinality(bars)
    BY DEF BarsOf
<1>4. PICK b : b = Bars(ws)
    OBVIOUS
<1>5. b = [m \in 1..n |-> CHOOSE j \in bars : Rank(bars, j) = m]
    BY <1>3, <1>4 DEF Bars, Rank
<1>6. \A m \in 1..n : b[m] \in bars /\ Rank(bars, b[m]) = m
    <2> HIDE DEF bars
    <2>1. \A m \in 1..n : \E j \in bars : Rank(bars, j) = m
        BY <1>2, <1>3, RankTaken
    <2> QED BY <1>5, <2>1
<1> HIDE DEF bars, L
<1>7. /\ Len(Cuts(ws)) = n + 2 /\ Cuts(ws)[1] = 0 /\ Cuts(ws)[n + 2] = L + 1
      /\ \A m \in 1..n : Cuts(ws)[m + 1] = b[m]
    <2>1. b \in Seq(Nat) /\ Len(b) = n
        <3>1. \A m \in 1..n : b[m] \in Nat
            BY <1>2, <1>6
        <3>2. b = [m \in 1..n |-> b[m]]
            BY <1>5
        <3> QED BY <3>1, <3>2, IsASeq
    <2>2. <<0>> \in Seq(Nat) /\ Len(<<0>>) = 1 /\ <<0>>[1] = 0
        OBVIOUS
    <2>3. PICK z : z = <<L + 1>>
        OBVIOUS
    <2>4. z \in Seq(Nat) /\ Len(z) = 1 /\ z[1] = L + 1
        BY <1>1, <2>3
    <2>5. PICK y : y = <<0>> \o b
        OBVIOUS
    <2>6. /\ y \in Seq(Nat) /\ Len(y) = 1 + n
          /\ \A m \in 1..(1 + n) : y[m] = IF m <= 1 THEN <<0>>[m] ELSE b[m - 1]
        BY <2>1, <2>2, <2>5, ConcatProperties
    <2>7. PICK x : x = y \o z
        OBVIOUS
    <2>8. /\ x \in Seq(Nat) /\ Len(x) = (1 + n) + 1
          /\ \A m \in 1..((1 + n) + 1) : x[m] = IF m <= 1 + n THEN y[m] ELSE z[m - (1 + n)]
        <3>1. y \in Seq(Nat) /\ z \in Seq(Nat) /\ Len(y) = 1 + n /\ Len(z) = 1
            BY <2>4, <2>6
        <3>2. /\ y \o z \in Seq(Nat) /\ Len(y \o z) = Len(y) + Len(z)
              /\ \A m \in 1..Len(y) + Len(z) :
                    (y \o z)[m] = IF m <= Len(y) THEN y[m] ELSE z[m - Len(y)]
            BY <3>1, ConcatProperties, ZenonT(30)
        <3> QED BY <2>7, <3>1, <3>2, Zenon
    <2>9. Cuts(ws) = x
        BY <1>4, <2>3, <2>5, <2>7 DEF Cuts, L
    <2>10. x[1] = 0
        BY <2>2, <2>6, <2>8
    <2>11. x[n + 2] = L + 1
        <3>1. n + 2 \in 1..((1 + n) + 1) /\ ~(n + 2 <= 1 + n) /\ (n + 2) - (1 + n) = 1
            OBVIOUS
        <3> QED BY <2>4, <2>8, <3>1
    <2>12. ASSUME NEW m \in 1..n PROVE x[m + 1] = b[m]
        <3>1. /\ m + 1 \in 1..((1 + n) + 1) /\ m + 1 <= 1 + n /\ m + 1 \in 1..(1 + n)
              /\ ~(m + 1 <= 1) /\ (m + 1) - 1 = m
            OBVIOUS
        <3> QED BY <2>6, <2>8, <3>1
    <2> QED BY <2>8, <2>9, <2>10, <2>11, <2>12
<1>8. Len(Cuts(ws)) - 1 = n + 1
    BY <1>7
<1>9. Stages(ws) = [m \in 1..n+1 |-> SubSeq(ws, Cuts(ws)[m] + 1, Cuts(ws)[m+1] - 1)]
    BY <1>8, Zenon DEF Stages
<1>10. Stages(ws) = [m \in 1..n+1 |-> Stages(ws)[m]]
    BY <1>9
<1>11. Len(Stages(ws)) = n + 1
    BY <1>10, IsASeq
<1> QED
    BY <1>6, <1>7, <1>9, <1>11 DEF BarsOf, bars, L

\* The words of stage k lie between two neighbouring | signs, or between one and an
\* end of the line.
LEMMA StageHasNoBar ==
    ASSUME NEW ws \in Seq(STRING), NEW k \in DOMAIN Stages(ws)
    PROVE  "|" \notin ToSet(Stages(ws)[k])
<1> DEFINE bars == BarsOf(ws)
           L == Len(ws)
<1>1. L \in Nat /\ DOMAIN ws = 1..L
    BY LenProperties
<1>2. bars \subseteq 1..L /\ bars \subseteq Nat /\ IsFiniteSet(bars)
    <2>1. IsFiniteSet(1..L)
        BY <1>1, FS_Interval
    <2>2. bars \in SUBSET (1..L)
        BY <1>1 DEF BarsOf
    <2> QED BY <1>1, <2>1, <2>2, FS_Subset
<1>3. PICK n \in Nat : n = Cardinality(bars)
    BY <1>2, FS_CardinalityType
<1> HIDE DEF bars, L
<1>7. /\ Cuts(ws)[1] = 0 /\ Cuts(ws)[n + 2] = L + 1
      /\ \A m \in 1..n : Cuts(ws)[m + 1] \in bars /\ Rank(bars, Cuts(ws)[m + 1]) = m
    BY <1>3, CutsAre DEF bars, L
<1>8. k \in 1..n+1 /\ Stages(ws)[k] = SubSeq(ws, Cuts(ws)[k] + 1, Cuts(ws)[k+1] - 1)
    BY <1>3, CutsAre DEF bars
<1>9. PICK from, to : from = Cuts(ws)[k] /\ to = Cuts(ws)[k+1]
    OBVIOUS
<1>10. /\ from \in 0..L /\ (k = 1 => from = 0)
       /\ k # 1 => from \in bars /\ Rank(bars, from) = k - 1
    <2>1. CASE k = 1
        BY <1>1, <1>7, <1>9, <2>1
    <2>2. CASE k # 1
        <3>1. k - 1 \in 1..n /\ (k - 1) + 1 = k
            BY <1>8, <2>2
        <3>3. from \in bars /\ Rank(bars, from) = k - 1
            BY <1>7, <1>9, <3>1
        <3> QED BY <1>1, <1>2, <2>2, <3>3
    <2> QED BY <2>1, <2>2
<1>11. /\ to \in 1..L+1
       /\ k # n + 1 => to \in bars /\ Rank(bars, to) = k
    <2>1. CASE k = n + 1
        <3>1. to = L + 1
            BY <1>7, <1>9, <2>1
        <3> QED BY <1>1, <2>1, <3>1
    <2>2. CASE k # n + 1
        <3>1. k \in 1..n
            BY <1>8, <2>2
        <3>3. to \in bars /\ Rank(bars, to) = k
            BY <1>7, <1>9, <3>1
        <3> QED BY <1>1, <1>2, <2>2, <3>3
    <2> QED BY <2>1, <2>2
<1>12. ASSUME NEW j \in bars, from < j, j < to PROVE FALSE
    <2>1. PICK r \in 1..n : r = Rank(bars, j)
        BY <1>2, <1>3, RankIsNat
    <2>2. k = 1 \/ k - 1 < r
        BY <1>2, <1>10, <1>12, <2>1, RankGrows
    <2>3. k = n + 1 \/ r < k
        BY <1>2, <1>11, <1>12, <2>1, RankGrows
    <2> QED BY <1>8, <2>1, <2>2, <2>3
<1>13. PICK st : st = SubSeq(ws, from + 1, to - 1)
    OBVIOUS
<1>14. ASSUME NEW m \in DOMAIN st PROVE st[m] # "|"
    <2>1. CASE from + 1 <= to - 1
        <3>0. /\ from + 1 \in 1..L+1 /\ to - 1 \in 0..L /\ from + 1 \in Int /\ to - 1 \in Int
            BY <1>1, <1>10, <1>11
        <3>1. st = [x \in 1..(to - 1) - (from + 1) + 1 |-> ws[x + (from + 1) - 1]]
            BY <1>13, <3>0
        <3>2. m \in 1..(to - 1) - (from + 1) + 1 /\ st[m] = ws[m + (from + 1) - 1]
            BY <1>14, <3>1
        <3>3. PICK j : j = m + (from + 1) - 1
            OBVIOUS
        <3>4. j \in 1..L /\ from < j /\ j < to
            <4>1. \A f, t, x, l \in Nat :
                     t <= l + 1 /\ x \in 1..(t - 1) - (f + 1) + 1 =>
                         LET y == x + (f + 1) - 1 IN f < y /\ y < t /\ y \in 1..l
                OBVIOUS
            <4>2. from \in Nat /\ to \in Nat /\ to <= L + 1 /\ m \in Nat
                BY <1>1, <1>10, <1>11, <3>2
            <4> QED BY <1>1, <3>2, <3>3, <4>1, <4>2
        <3>5. j \notin bars
            BY <1>12, <3>4
        <3> QED BY <1>1, <3>2, <3>3, <3>4, <3>5 DEF bars, BarsOf
    <2>2. CASE ~(from + 1 <= to - 1)
        <3>1. st = <<>>
            BY <1>1, <1>10, <1>11, <1>13, <2>2
        <3> QED BY <1>14, <3>1
    <2> QED BY <2>1, <2>2
<1> QED
    BY <1>8, <1>9, <1>13, <1>14 DEF ToSet

\* The stages of a line are those of a sequence of words.
LEMMA PiperOfWords ==
    ASSUME NEW p \in Pipers
    PROVE  \E ws \in Seq(STRING) : p.command_list = Stages(ws)
<1>1. PICK words \in Lines : p = create_piper(words)
    BY DEF Pipers
<1>2. PICK ws : ws = remove_ampercand(words)
    OBVIOUS
<1>3. ws \in Seq(STRING)
    <2>1. words \in Seq(STRING)
        BY JshAssumption
    <2>2. CASE ~Async(words)
        BY <2>1, <2>2, <1>2 DEF remove_ampercand
    <2>3. CASE Async(words)
        <3>1. ws = SubSeq(words, 1, Len(words) - 1)
            BY <2>3, <1>2 DEF remove_ampercand, Front
        <3>2. Len(words) \in Nat
            BY <2>1, LenProperties
        <3>3. \A j \in 1..Len(words)-1 : words[j] \in STRING
            BY <2>1, <3>2, ElementOfSeq
        <3> QED BY <3>1, <3>2, <3>3, <2>1, SubSeqProperties
    <2> QED BY <2>2, <2>3
<1>4. p.command_list = Stages(ws)
    BY <1>1, <1>2 DEF create_piper
<1> QED
    BY <1>3, <1>4

\* A line has at least one stage.
LEMMA StagesOfPiper ==
    ASSUME NEW p \in Pipers
    PROVE  /\ Len(p.command_list) \in Nat \ {0}
           /\ DOMAIN p.command_list = 1..Len(p.command_list)
<1>1. PICK ws \in Seq(STRING) : p.command_list = Stages(ws)
    BY PiperOfWords
<1>2. PICK n \in Nat : n = Cardinality(BarsOf(ws))
    <2>1. DOMAIN ws = 1..Len(ws) /\ Len(ws) \in Nat
        BY LenProperties
    <2>2. IsFiniteSet(DOMAIN ws)
        BY <2>1, FS_Interval
    <2>3. BarsOf(ws) \in SUBSET DOMAIN ws
        BY DEF BarsOf
    <2> QED BY <2>2, <2>3, FS_Subset, FS_CardinalityType
<1> QED
    BY <1>1, <1>2, CutsAre

\* A stage the shell stumbles over has no program or a sign without a file.
LEMMA SegvIsMalformed ==
    ASSUME NEW p, NEW k \in DOMAIN p.command_list, "segv" \in Verdict(p, k)
    PROVE  ~WellFormed(p)
<1> DEFINE words == p.command_list[k]
           com == Command(p, k)
<1>1. CASE words = <<>>
    <2>1. \A c, sign, field : c.argv = <<>> => Redirected(c, sign, field) = c
        BY DEF Redirected
    <2>2. Bare(words).argv = <<>>
        BY <1>1 DEF Bare
    <2>3. com.argv = <<>>
        BY <2>1, <2>2 DEF Command
    <2> QED BY <2>3 DEF WellFormed
<1>2. CASE words # <<>>
    <2>1. ~com.ended \/ com.argv = <<>>
        BY <1>2 DEF Verdict
    <2> QED BY <2>1 DEF WellFormed
<1> QED
    BY <1>1, <1>2

(***************************************************************************)
(* What a step of one shell keeps of the others.                           *)
(***************************************************************************)

\* Nothing a shell keeps has changed.
Untouched(t) ==
    /\ pc'[t] = pc[t] /\ piper'[t] = piper[t] /\ i'[t] = i[t] /\ in'[t] = in[t]
    /\ currpipe'[t] = currpipe[t] /\ fds'[t] = fds[t] /\ before'[t] = before[t]

LEMMA UntouchedKept ==
    ASSUME NEW t \in Shell, AtStage(t), Kept(t), Untouched(t)
    PROVE  AtStage(t)' /\ Kept(t)'
<1>1. (Running(t)' <=> Running(t)) /\ (Busy(t)' <=> Busy(t))
    BY DEF Untouched, Running, Busy
<1>2. (First(t)' <=> First(t)) /\ Held(t)' = Held(t)
    BY DEF Untouched, First, Held
<1>3. AtStage(t)'
    BY <1>1, <1>2 DEF Untouched, AtStage
<1>4. Kept(t)'
    BY <1>1, <1>2 DEF Untouched, Kept
<1> QED
    BY <1>3, <1>4

\* A step of one shell that fills its descriptors only with pipes of its own, and,
\* if it is the user's shell, leaves alone those its current line does not hold,
\* leaves every pipe somebody inherited where it was.
LEMMA InheritedKept ==
    ASSUME NEW s \in Shell, Main \in Shell, \A t \in Shell : Inherited(t),
           \A t \in Shell \ {s} : Untouched(t),
           \A d \in Fd : \/ fds'[s][d] = fds[s][d]
                         \/ fds'[s][d].pipe \notin Pipe
                         \/ fds'[s][d].pipe[1] = s,
           s = Main /\ Alive' =>
              /\ Alive
              /\ \A e \in Fd :
                    fds[Main][e].pipe \in Pipe /\ (Running(Main) => e \notin Held(Main)) =>
                        /\ fds'[Main][e] = fds[Main][e]
                        /\ Running(Main)' => e \notin Held(Main)'
    PROVE  \A t \in Shell : Inherited(t)'
<1>1. ASSUME NEW t \in Shell, NEW d \in Fd, fds[t][d].pipe \in Pipe, fds[t][d].pipe[1] # t,
             fds'[t][d] = fds[t][d]
      PROVE  /\ fds[t][d].pipe[1] = Main
             /\ Alive' => \E e \in Fd : /\ fds'[Main][e].pipe = fds[t][d].pipe
                                        /\ Running(Main)' => e \notin Held(Main)'
    <2>1. /\ fds[t][d].pipe[1] = Main
          /\ Alive => \E e \in Fd : /\ fds[Main][e].pipe = fds[t][d].pipe
                                    /\ Running(Main) => e \notin Held(Main)
        BY <1>1 DEF Inherited
    <2>2. SUFFICES ASSUME Alive'
                   PROVE  \E e \in Fd : /\ fds'[Main][e].pipe = fds[t][d].pipe
                                        /\ Running(Main)' => e \notin Held(Main)'
        BY <2>1
    <2>3. CASE s = Main
        <3>1. PICK e \in Fd : /\ fds[Main][e].pipe = fds[t][d].pipe
                              /\ Running(Main) => e \notin Held(Main)
            BY <2>1, <2>2, <2>3
        <3>2. /\ fds'[Main][e] = fds[Main][e]
              /\ Running(Main)' => e \notin Held(Main)'
            BY <1>1, <2>2, <2>3, <3>1
        <3> QED BY <3>1, <3>2
    <2>4. CASE s # Main
        <3>1. Untouched(Main)
            BY <2>4
        <3>2. Alive /\ fds'[Main] = fds[Main]
            BY <2>2, <3>1 DEF Untouched, Alive
        <3>3. (Running(Main)' <=> Running(Main)) /\ Held(Main)' = Held(Main)
            BY <3>1 DEF Untouched, Running, Held, First
        <3> QED BY <2>1, <3>2, <3>3
    <2> QED BY <2>3, <2>4
<1>2. ASSUME NEW t \in Shell, NEW d \in Fd, fds'[t][d].pipe \in Pipe, fds'[t][d].pipe[1] # t
      PROVE  fds'[t][d] = fds[t][d]
    <2>1. CASE t = s
        BY <1>2, <2>1
    <2>2. CASE t # s
        BY <2>2 DEF Untouched
    <2> QED BY <2>1, <2>2
<1>3. ASSUME NEW t \in Shell, NEW d \in Fd, fds'[t][d].pipe \in Pipe, fds'[t][d].pipe[1] # t
      PROVE  /\ fds'[t][d].pipe[1] = Main
             /\ Alive' => \E e \in Fd : /\ fds'[Main][e].pipe = fds'[t][d].pipe
                                        /\ Running(Main)' => e \notin Held(Main)'
    <2>1. fds'[t][d] = fds[t][d]
        BY <1>2, <1>3
    <2>2. fds[t][d].pipe \in Pipe /\ fds[t][d].pipe[1] # t
        BY <1>3, <2>1
    <2>3. /\ fds[t][d].pipe[1] = Main
          /\ Alive' => \E e \in Fd : /\ fds'[Main][e].pipe = fds[t][d].pipe
                                     /\ Running(Main)' => e \notin Held(Main)'
        BY <1>1, <2>1, <2>2
    <2> QED BY <2>1, <2>3
<1> QED
    BY <1>3 DEF Inherited

\* While two descriptors of a shell that runs hold the same, there is a number for
\* a new pipe of its own, and nobody has that pipe open.
LEMMA NewPipeIsNew ==
    ASSUME ShellInv, NEW s \in Shell, s = Main => Alive,
           NEW d0 \in Fd, NEW d1 \in Fd, d0 # d1, fds[s][d0].pipe = fds[s][d1].pipe
    PROVE  /\ NewPipe(s) \in Pipe /\ NewPipe(s)[1] = s
           /\ \A t \in Shell, d \in Fd : fds[t][d].pipe # NewPipe(s)
<1> DEFINE used == {e.pipe : e \in Ends}
           N == Cardinality(Fd)
           new == {n \in 1..N : <<s, n>> \notin used}
<1>1. \A t \in Shell, d \in Fd : fds[t][d].pipe \in used
    BY DEF Ends
<1>2. \A n \in 1..N : <<s, n>> \in used => \E d \in Fd : fds[s][d].pipe = <<s, n>>
    <2>1. SUFFICES ASSUME NEW n \in 1..N, NEW t \in Shell, NEW d \in Fd,
                          fds[t][d].pipe = <<s, n>>
                   PROVE  \E e \in Fd : fds[s][e].pipe = <<s, n>>
        BY DEF Ends
    <2>2. CASE t = s
        BY <2>1, <2>2
    <2>3. CASE t # s
        <3>1. <<s, n>> \in Pipe /\ <<s, n>>[1] = s
            BY DEF Pipe
        <3>2. Inherited(t)
            BY DEF ShellInv
        <3>3. s = Main /\ \E e \in Fd : fds[Main][e].pipe = fds[t][d].pipe
            BY <2>1, <2>3, <3>1, <3>2 DEF Inherited
        <3> QED BY <2>1, <3>3
    <2> QED BY <2>2, <2>3
<1>3. N \in Nat /\ IsFiniteSet(Fd) /\ IsFiniteSet(Fd \ {d0}) /\ Cardinality(Fd \ {d0}) = N - 1
    BY FdFinite, FS_RemoveElement
<1>4. IsFiniteSet(1..N) /\ Cardinality(1..N) = N
    <2>1. Fd # {}
        OBVIOUS
    <2>2. N # 0
        BY <1>3, <2>1, FS_EmptySet
    <2> HIDE DEF N
    <2> QED BY <1>3, <2>2, FS_Interval
<1>5. new # {}
    <2>1. SUFFICES ASSUME new = {} PROVE FALSE
        OBVIOUS
    <2>2. \A n \in 1..N : \E d \in Fd \ {d0} : fds[s][d].pipe = <<s, n>>
        <3>1. SUFFICES ASSUME NEW n \in 1..N
                       PROVE  \E d \in Fd \ {d0} : fds[s][d].pipe = <<s, n>>
            OBVIOUS
        <3>2. PICK d \in Fd : fds[s][d].pipe = <<s, n>>
            BY <1>2, <2>1
        <3> QED BY <3>2
    <2> DEFINE f == [n \in 1..N |-> CHOOSE d \in Fd \ {d0} : fds[s][d].pipe = <<s, n>>]
    <2>3. f \in [1..N -> Fd \ {d0}] /\ \A n \in 1..N : fds[s][f[n]].pipe = <<s, n>>
        BY <2>2
    <2> HIDE DEF f, N
    <2>4. Cardinality(Fd \ {d0}) < Cardinality(1..N)
        BY <1>3, <1>4
    <2>5. PICK x, y \in 1..N : x # y /\ f[x] = f[y]
        BY <1>3, <1>4, <2>3, <2>4, FS_PigeonHole
    <2>6. <<s, x>> = <<s, y>>
        BY <2>3, <2>5
    <2> QED BY <2>5, <2>6
<1>6. Min(new) \in new
    <2>1. new \subseteq Nat
        BY <1>3
    <2> HIDE DEF new
    <2> QED BY <1>5, <2>1, MinIsIn
<1>7. PICK n \in 1..N : n = Min(new) /\ <<s, n>> \notin used
    BY <1>6
<1>8. NewPipe(s) = <<s, n>>
    BY <1>7 DEF NewPipe
<1>9. <<s, n>> \in Pipe /\ <<s, n>>[1] = s
    BY DEF Pipe
<1>10. \A t \in Shell, d \in Fd : fds[t][d].pipe # <<s, n>>
    <2> HIDE DEF used
    <2> QED BY <1>1, <1>7
<1> QED
    BY <1>8, <1>9, <1>10, Zenon

(***************************************************************************)
(* What the steps keep.                                                    *)
(***************************************************************************)

LEMMA MainIsShell == Main \in Shell /\ Main = 0
BY JshAssumption DEF Main, Shell

AtMain == {"prompt", "open", "stage", "wait", "exited", "segv"}
AtFork == {"none", "open", "stage", "wait", "zombie"}

LEMMA PcMoves ==
    ASSUME ShellTyped, NEW s \in Shell, NEW v, s = Main => v \in AtMain, s # Main => v \in AtFork,
           pc' = [pc EXCEPT ![s] = v]
    PROVE  /\ pc' \in [Shell -> {"none", "prompt", "open", "stage", "wait", "zombie",
                                 "exited", "segv"}]
           /\ pc'[Main] \in {"prompt", "open", "stage", "wait", "exited", "segv"}
           /\ \A t \in Shell \ {Main} : pc'[t] \in {"none", "open", "stage", "wait", "zombie"}
<1>1. v \in {"none", "prompt", "open", "stage", "wait", "zombie", "exited", "segv"}
    BY DEF AtMain, AtFork
<1>2. Main \in Shell
    BY MainIsShell
<1> QED
    BY <1>1, <1>2 DEF ShellTyped, AtMain, AtFork

\* A shell that stops running a line, or has only just been given one, and has
\* done nothing to its descriptors but close some, if it is the user's and stays at
\* work only those it held for the line.
LEMMA SettlesKept ==
    ASSUME ShellInv, NEW s \in Shell, NEW v, s = Main => v \in AtMain, s # Main => v \in AtFork,
           v \notin {"stage", "wait"}, pc' = [pc EXCEPT ![s] = v],
           piper' \in [Shell -> Pipers \cup {NoLine}], i' \in [Shell -> Nat],
           in' \in [Shell -> Fd \cup {0}],
           currpipe' \in [Shell -> (Fd \cup {0}) \X (Fd \cup {0})],
           fds' \in [Shell -> [Fd -> EndType]], before' \in [Shell -> [Fd -> EndType]],
           whole' \in [Shell -> {"no", "short", "yes", "cut"}],
           \A t \in Shell \ {s} :
              /\ piper'[t] = piper[t] /\ i'[t] = i[t] /\ in'[t] = in[t]
              /\ currpipe'[t] = currpipe[t] /\ fds'[t] = fds[t] /\ before'[t] = before[t]
              /\ whole'[t] = whole[t],
           v = "open" => piper'[s] \in Pipers,
           \A d \in Fd : fds'[s][d] = fds[s][d] \/ fds'[s][d] = NoEnd,
           s = Main /\ v \notin {"exited", "segv"} =>
              /\ Alive
              /\ \A d \in Fd : (Running(s) => d \notin Held(s)) => fds'[s][d] = fds[s][d],
           s = Main /\ v = "segv" => ~WellFormed(piper'[s]),
           s = Main /\ v = "prompt" /\ whole'[s] = "yes" => fds'[s] = before'[s]
    PROVE  ShellInv'
<1>0. ShellTyped /\ Main \in Shell
    BY MainIsShell DEF ShellInv
<1>1. pc'[s] = v /\ \A t \in Shell \ {s} : pc'[t] = pc[t]
    BY <1>0 DEF ShellTyped
<1>2. \A t \in Shell \ {s} : Untouched(t)
    BY <1>1 DEF Untouched
<1>3. ShellTyped'
    <2>1. /\ pc' \in [Shell -> {"none", "prompt", "open", "stage", "wait", "zombie",
                                "exited", "segv"}]
          /\ pc'[Main] \in {"prompt", "open", "stage", "wait", "exited", "segv"}
          /\ \A t \in Shell \ {Main} : pc'[t] \in {"none", "open", "stage", "wait", "zombie"}
        BY <1>0, PcMoves
    <2> QED BY <2>1 DEF ShellTyped
<1>4. ASSUME NEW t \in Shell PROVE AtStage(t)' /\ Kept(t)'
    <2>1. CASE t = s
        BY <1>1, <2>1 DEF AtStage, Kept, Running, Busy
    <2>2. CASE t # s
        BY <1>2, <2>2, UntouchedKept DEF ShellInv
    <2> QED BY <2>1, <2>2
<1>5. \A t \in Shell : Inherited(t)'
    <2>1. \A d \in Fd : fds'[s][d] = fds[s][d] \/ fds'[s][d].pipe \notin Pipe
        BY EndsTyped DEF NoEnd
    <2>2. ASSUME s = Main, Alive'
          PROVE  /\ Alive
                 /\ \A e \in Fd :
                       fds[Main][e].pipe \in Pipe /\ (Running(Main) => e \notin Held(Main)) =>
                           /\ fds'[Main][e] = fds[Main][e]
                           /\ Running(Main)' => e \notin Held(Main)'
        <3>1. ~Running(Main)' /\ v \notin {"exited", "segv"}
            BY <1>1, <2>2 DEF Alive, Running
        <3> QED BY <2>2, <3>1
    <2>3. \A t \in Shell : Inherited(t)
        BY DEF ShellInv
    <2> QED BY <1>0, <1>2, <2>1, <2>2, <2>3, InheritedKept
<1>6. CrashOnlyOnMalformed' /\ WholeLineLeavesNoFd'
    <2>1. CASE s = Main
        BY <1>1, <2>1 DEF CrashOnlyOnMalformed, WholeLineLeavesNoFd
    <2>2. CASE s # Main
        <3>1. /\ pc'[Main] = pc[Main] /\ whole'[Main] = whole[Main] /\ piper'[Main] = piper[Main]
              /\ fds'[Main] = fds[Main] /\ before'[Main] = before[Main]
            BY <1>0, <1>1, <2>2
        <3> QED BY <3>1 DEF CrashOnlyOnMalformed, WholeLineLeavesNoFd, ShellInv
    <2> QED BY <2>1, <2>2
<1> QED
    BY <1>3, <1>4, <1>5, <1>6 DEF ShellInv

LEMMA NoFdsTyped == NoFds \in [Fd -> EndType] /\ \A d \in Fd : NoFds[d] = NoEnd
BY EndsTyped DEF NoFds

\* A table is what shell s has, or that less something it held for the line.
Closed(s, table) ==
    /\ table \in [Fd -> EndType]
    /\ \A d \in Fd : table[d] = fds[s][d] \/ (Running(s) /\ d \in Held(s) /\ table[d] = NoEnd)

Returns(s, table, how, exits) ==
    /\ Busy(s) /\ how \in {"yes", "cut"} /\ exits \in BOOLEAN
    /\ Return(s, table, how, exits)
    /\ Closed(s, table)
    /\ how = "yes" => table = before[s]

\* A shell that returns from _run_sync_commands, having closed nothing but what it
\* held for the line, and all of that if the line ran to its end.
LEMMA ReturnKept ==
    ASSUME ShellInv, NEW s \in Shell, NEW table, NEW how, NEW exits,
           Returns(s, table, how, exits)
    PROVE  ShellInv'
<1> USE DEF Returns, Closed
<1>0. ShellTyped /\ Main \in Shell
    BY MainIsShell DEF ShellInv
<1>1. PICK v : v = IF s # Main THEN "zombie" ELSE IF exits THEN "exited" ELSE "prompt"
    OBVIOUS
<1>2. PICK left : left = IF s # Main \/ exits THEN NoFds ELSE table
    OBVIOUS
<1>3. (s = Main => v \in AtMain) /\ (s # Main => v \in AtFork) /\ v \notin {"stage", "wait", "open", "segv"}
    BY <1>1 DEF AtMain, AtFork
<1>4. left \in [Fd -> EndType] /\ \A d \in Fd : left[d] = NoEnd \/ left[d] = table[d]
    BY <1>2, NoFdsTyped
<1>5. /\ pc' = [pc EXCEPT ![s] = v] /\ fds' = [fds EXCEPT ![s] = left]
      /\ whole' = [whole EXCEPT ![s] = how]
      /\ i' = [i EXCEPT ![s] = 0] /\ in' = [in EXCEPT ![s] = 0]
      /\ currpipe' = [currpipe EXCEPT ![s] = <<0, 0>>]
    BY <1>1, <1>2 DEF Return
<1>6. /\ piper' \in [Shell -> Pipers \cup {NoLine}] /\ before' \in [Shell -> [Fd -> EndType]]
      /\ \A t \in Shell \ {s} : piper'[t] = piper[t] /\ before'[t] = before[t]
      /\ how = "yes" => before' = before
    BY <1>0, NoFdsTyped DEF Return, Forget, ShellTyped
<1>7. /\ i' \in [Shell -> Nat] /\ in' \in [Shell -> Fd \cup {0}]
      /\ currpipe' \in [Shell -> (Fd \cup {0}) \X (Fd \cup {0})]
      /\ fds' \in [Shell -> [Fd -> EndType]] /\ whole' \in [Shell -> {"no", "short", "yes", "cut"}]
    BY <1>0, <1>4, <1>5 DEF ShellTyped
<1>8. /\ \A t \in Shell \ {s} :
            /\ piper'[t] = piper[t] /\ i'[t] = i[t] /\ in'[t] = in[t]
            /\ currpipe'[t] = currpipe[t] /\ fds'[t] = fds[t] /\ before'[t] = before[t]
            /\ whole'[t] = whole[t]
      /\ fds'[s] = left /\ whole'[s] = how
    BY <1>0, <1>5, <1>6 DEF ShellTyped
<1>9. \A d \in Fd : fds'[s][d] = fds[s][d] \/ fds'[s][d] = NoEnd
    BY <1>4, <1>8
<1>10. s = Main /\ v \notin {"exited", "segv"} =>
          /\ Alive
          /\ \A d \in Fd : (Running(s) => d \notin Held(s)) => fds'[s][d] = fds[s][d]
    <2>1. SUFFICES ASSUME s = Main, v \notin {"exited", "segv"}
                   PROVE  /\ Alive
                          /\ \A d \in Fd : (Running(s) => d \notin Held(s)) => fds'[s][d] = fds[s][d]
        OBVIOUS
    <2>2. left = table
        BY <1>1, <1>2, <2>1
    <2>3. Alive
        BY <2>1 DEF Alive, Busy
    <2> QED BY <1>8, <2>2, <2>3
<1>11. s = Main /\ v = "prompt" /\ whole'[s] = "yes" => fds'[s] = before'[s]
    BY <1>1, <1>2, <1>6, <1>8
<1> QED
    BY <1>3, <1>5, <1>6, <1>7, <1>8, <1>9, <1>10, <1>11, SettlesKept

Opens(s, rest, q, k, input, old, how) ==
    /\ Busy(s) /\ Closed(s, rest) /\ CanPipe(rest)
    /\ q \in Pipe /\ q[1] = s /\ k \in 1..Len(piper[s].command_list)
    /\ input \in Fd \cup {0} /\ old \in [Fd -> EndType]
    /\ how \in {"no", "short", "yes", "cut"}
    /\ pc' = [pc EXCEPT ![s] = "stage"] /\ fds' = [fds EXCEPT ![s] = WithPipe(rest, q)]
    /\ currpipe' = [currpipe EXCEPT ![s] = PipeFds(rest)]
    /\ in' = [in EXCEPT ![s] = input] /\ i' = [i EXCEPT ![s] = k]
    /\ before' = [before EXCEPT ![s] = old] /\ piper' = piper
    /\ whole' = [whole EXCEPT ![s] = how]
    /\ \A d \in Fd : rest[d] = old[d] \/ (k # 1 /\ d = input)
    /\ k # 1 => input \in Fd /\ old[input] = NoEnd /\ Running(s) /\ input \in Held(s)

\* A shell that opens a pipe for stage k, having closed nothing but what it held for
\* the line, and all of that but what the stage will read.
LEMMA OpensKept ==
    ASSUME ShellInv, NEW s \in Shell, NEW rest, NEW q, NEW k, NEW input, NEW old, NEW how,
           Opens(s, rest, q, k, input, old, how)
    PROVE  ShellInv'
<1> USE DEF Opens, Closed
<1>0. ShellTyped /\ Main \in Shell
    BY MainIsShell DEF ShellInv
<1> DEFINE r == PipeFds(rest)[1]
           w == PipeFds(rest)[2]
<1>1. PipeFds(rest) \in Fd \X Fd /\ r \in Fd /\ w \in Fd /\ r # w
    BY PipeFdsAreFree
<1>2. /\ WithPipe(rest, q) \in [Fd -> EndType]
      /\ WithPipe(rest, q)[r] = ReadEnd(q) /\ WithPipe(rest, q)[w] = WriteEnd(q)
      /\ \A d \in Fd \ {r, w} : WithPipe(rest, q)[d] = rest[d]
      /\ rest[r] = NoEnd /\ rest[w] = NoEnd
    BY WithPipeFills
<1>3. /\ pc'[s] = "stage" /\ fds'[s] = WithPipe(rest, q) /\ currpipe'[s] = PipeFds(rest)
      /\ in'[s] = input /\ i'[s] = k /\ before'[s] = old /\ piper'[s] = piper[s]
    BY <1>0 DEF ShellTyped
<1>4. \A t \in Shell \ {s} : Untouched(t)
    BY <1>0 DEF Untouched, ShellTyped
<1>5. Held(s)' = {r, w} \cup (IF k = 1 THEN {} ELSE {input})
    BY <1>3 DEF Held, First
<1> HIDE DEF r, w
<1>6. ShellTyped'
    <2>1. k \in Nat
        BY <1>0 DEF Busy
    <2>2. /\ pc' \in [Shell -> {"none", "prompt", "open", "stage", "wait", "zombie",
                                "exited", "segv"}]
          /\ pc'[Main] \in {"prompt", "open", "stage", "wait", "exited", "segv"}
          /\ \A t \in Shell \ {Main} : pc'[t] \in {"none", "open", "stage", "wait", "zombie"}
        BY <1>0 DEF ShellTyped
    <2>3. i' \in [Shell -> Nat] /\ in' \in [Shell -> Fd \cup {0}]
        BY <1>0, <2>1 DEF ShellTyped
    <2>4. currpipe' \in [Shell -> (Fd \cup {0}) \X (Fd \cup {0})]
        BY <1>0, <1>1 DEF ShellTyped
    <2>5. fds' \in [Shell -> [Fd -> EndType]] /\ before' \in [Shell -> [Fd -> EndType]]
        BY <1>0, <1>2 DEF ShellTyped
    <2>6. whole' \in [Shell -> {"no", "short", "yes", "cut"}]
        BY <1>0 DEF ShellTyped
    <2>7. piper' \in [Shell -> Pipers \cup {NoLine}]
        BY <1>0 DEF ShellTyped
    <2> QED BY <2>2, <2>3, <2>4, <2>5, <2>6, <2>7 DEF ShellTyped
<1>7. AtStage(s)'
    <2>1. piper'[s] \in Pipers
        BY <1>3 DEF ShellInv, AtStage
    <2>2. currpipe'[s][1] = r /\ currpipe'[s][2] = w
        BY <1>3 DEF r, w
    <2>3. fds'[s][r].pipe = fds'[s][w].pipe
        BY <1>2, <1>3, EndsTyped
    <2>4. First(s)' <=> k = 1
        BY <1>3 DEF First
    <2> QED BY <1>1, <1>3, <2>1, <2>2, <2>3, <2>4 DEF AtStage
<1>8. Kept(s)'
    <2>1. SUFFICES ASSUME NEW d \in Fd
                   PROVE  IF d \in Held(s)' THEN old[d] = NoEnd ELSE fds'[s][d] = old[d]
        BY <1>3 DEF Kept
    <2>2. CASE d \in Held(s)'
        BY <1>2, <1>5, <2>2
    <2>3. CASE d \notin Held(s)'
        <3>1. d \notin {r, w} /\ (k # 1 => d # input)
            BY <1>5, <2>3
        <3> QED BY <1>2, <1>3, <2>3, <3>1
    <2> QED BY <2>2, <2>3
<1>9. \A t \in Shell : AtStage(t)' /\ Kept(t)'
    BY <1>4, <1>7, <1>8, UntouchedKept DEF ShellInv
<1>10. \A t \in Shell : Inherited(t)'
    <2>0. NoEnd.pipe \notin Pipe /\ ReadEnd(q).pipe = q /\ WriteEnd(q).pipe = q
        BY EndsTyped DEF NoEnd
    <2>1. \A d \in Fd : \/ fds'[s][d] = fds[s][d] \/ fds'[s][d].pipe \notin Pipe
                        \/ fds'[s][d].pipe[1] = s
        BY <1>2, <1>3, <2>0
    <2>2. ASSUME s = Main, Alive'
          PROVE  /\ Alive
                 /\ \A e \in Fd :
                       fds[Main][e].pipe \in Pipe /\ (Running(Main) => e \notin Held(Main)) =>
                           /\ fds'[Main][e] = fds[Main][e]
                           /\ Running(Main)' => e \notin Held(Main)'
        <3>1. Alive
            BY <2>2 DEF Alive, Busy
        <3>2. ASSUME NEW e \in Fd, fds[Main][e].pipe \in Pipe, Running(Main) => e \notin Held(Main)
              PROVE  fds'[Main][e] = fds[Main][e] /\ e \notin Held(Main)'
            <4>1. rest[e] = fds[Main][e]
                BY <2>2, <3>2
            <4>2. e \notin {r, w}
                BY <1>2, <2>0, <3>2, <4>1
            <4>3. k # 1 => e # input
                BY <2>2, <3>2
            <4>4. fds'[Main][e] = fds[Main][e]
                BY <1>2, <1>3, <2>2, <4>1, <4>2
            <4> QED BY <1>5, <2>2, <4>2, <4>3, <4>4
        <3> QED BY <3>1, <3>2
    <2>3. \A t \in Shell : Inherited(t)
        BY DEF ShellInv
    <2> QED BY <1>0, <1>4, <2>1, <2>2, <2>3, InheritedKept
<1>11. CrashOnlyOnMalformed' /\ WholeLineLeavesNoFd'
    <2>1. CASE s = Main
        BY <1>3, <2>1 DEF CrashOnlyOnMalformed, WholeLineLeavesNoFd
    <2>2. CASE s # Main
        <3>1. /\ pc'[Main] = pc[Main] /\ whole'[Main] = whole[Main] /\ piper'[Main] = piper[Main]
              /\ fds'[Main] = fds[Main] /\ before'[Main] = before[Main]
            BY <1>0, <1>4, <2>2 DEF Untouched, ShellTyped
        <3> QED BY <3>1 DEF CrashOnlyOnMalformed, WholeLineLeavesNoFd, ShellInv
    <2> QED BY <2>1, <2>2
<1> QED
    BY <1>6, <1>9, <1>10, <1>11 DEF ShellInv

LEMMA AdvanceKept ==
    ASSUME ShellInv, NEW s \in Shell, Running(s), NEW table \in [Fd -> EndType],
           NEW how \in {"no", "short", "yes", "cut"}, Advance(s, table, how),
           \A d \in Fd : table[d] = fds[s][d] \/ (d \in Held(s) /\ table[d] = NoEnd)
    PROVE  ShellInv'
<1> DEFINE c1 == currpipe[s][1]
           c2 == currpipe[s][2]
           rest == Close(table, UnusedAfter(s))
<1>0. ShellTyped /\ AtStage(s) /\ Kept(s) /\ Busy(s)
    BY DEF ShellInv, Running, Busy
<1>1. /\ c1 \in Fd /\ c2 \in Fd /\ c1 # c2 /\ fds[s][c1].pipe = fds[s][c2].pipe
      /\ i[s] \in 1..Len(piper[s].command_list) /\ piper[s] \in Pipers
    BY <1>0 DEF AtStage
<1>2. Held(s) = {InFd(s), c1, c2} /\ Held(s) = UnusedAfter(s) \cup {c1} /\ c1 \in Held(s)
    BY DEF Held, InFd, UnusedAfter
<1>3. /\ rest \in [Fd -> EndType]
      /\ \A d \in Fd : rest[d] = IF d \in UnusedAfter(s) THEN NoEnd ELSE table[d]
    BY CloseTyped
<1>4. before[s] \in [Fd -> EndType] /\ fds[s] \in [Fd -> EndType]
    BY <1>0 DEF ShellTyped
<1>5. \A d \in Fd : /\ d \in Held(s) => before[s][d] = NoEnd
                    /\ d \notin Held(s) => fds[s][d] = before[s][d]
    BY <1>0 DEF Kept
<1>6. Closed(s, rest)
    BY <1>2, <1>3 DEF Closed
<1> HIDE DEF rest
<1>7. CASE Final(s)
    <2> DEFINE done == Close(table, {InFd(s), c1, c2})
               end == IF how = "no" THEN "yes" ELSE "cut"
    <2>1. Return(s, done, end, FALSE)
        BY <1>7 DEF Advance
    <2>2. /\ done \in [Fd -> EndType]
          /\ \A d \in Fd : done[d] = IF d \in Held(s) THEN NoEnd ELSE table[d]
        BY <1>2, CloseTyped
    <2>3. end \in {"yes", "cut"}
        OBVIOUS
    <2> HIDE DEF done, end
    <2>4. \A d \in Fd : done[d] = before[s][d]
        BY <1>5, <2>2
    <2>5. done = before[s]
        BY <1>4, <2>2, <2>4
    <2>6. Closed(s, done)
        BY <2>2 DEF Closed
    <2>7. Returns(s, done, end, FALSE)
        BY <1>0, <2>1, <2>3, <2>5, <2>6 DEF Returns
    <2> QED BY <2>7, ReturnKept
<1>8. CASE ~Final(s) /\ ~CanPipe(rest)
    <2>1. Return(s, rest, "cut", FALSE)
        BY <1>8 DEF Advance, rest
    <2>2. Returns(s, rest, "cut", FALSE)
        BY <1>0, <1>6, <2>1 DEF Returns
    <2> QED BY <2>2, ReturnKept
<1>9. CASE ~Final(s) /\ CanPipe(rest)
    <2>1. /\ fds' = [fds EXCEPT ![s] = WithPipe(rest, NewPipe(s))]
          /\ currpipe' = [currpipe EXCEPT ![s] = PipeFds(rest)]
          /\ in' = [in EXCEPT ![s] = c1] /\ i' = [i EXCEPT ![s] = @ + 1]
          /\ pc' = [pc EXCEPT ![s] = "stage"] /\ whole' = [whole EXCEPT ![s] = how]
          /\ piper' = piper /\ before' = before
        BY <1>9 DEF Advance, rest
    <2>2. PICK q : q = NewPipe(s)
        OBVIOUS
    <2>3. q \in Pipe /\ q[1] = s
        <3>1. s = Main => Alive
            BY <1>0 DEF Alive, Busy
        <3> HIDE DEF c1, c2
        <3> QED BY <1>1, <2>2, <3>1, NewPipeIsNew
    <2>4. PICK k : k = i[s] + 1
        OBVIOUS
    <2>5. k \in 1..Len(piper[s].command_list) /\ k # 1
        <3>1. PICK n \in Nat : n = Len(piper[s].command_list)
            BY <1>1, StagesOfPiper
        <3>2. i[s] # n
            BY <1>9, <3>1 DEF Final
        <3> QED BY <1>1, <2>4, <3>1, <3>2
    <2>6. /\ i' = [i EXCEPT ![s] = k] /\ before' = [before EXCEPT ![s] = before[s]]
          /\ fds' = [fds EXCEPT ![s] = WithPipe(rest, q)]
        BY <1>0, <2>1, <2>2, <2>4 DEF ShellTyped
    <2>7. \A d \in Fd : rest[d] = before[s][d] \/ (k # 1 /\ d = c1)
        BY <1>2, <1>3, <1>5, <2>5
    <2>8. k # 1 => c1 \in Fd /\ before[s][c1] = NoEnd /\ Running(s) /\ c1 \in Held(s)
        BY <1>1, <1>2, <1>5
    <2> HIDE DEF c1
    <2>9. c1 \in Fd \cup {0}
        BY <1>1
    <2>10. Opens(s, rest, q, k, c1, before[s], how)
        BY <1>0, <1>4, <1>6, <1>9, <2>1, <2>3, <2>5, <2>6, <2>7, <2>8, <2>9 DEF Opens
    <2> QED BY <2>10, OpensKept
<1> QED
    BY <1>7, <1>8, <1>9

LEMMA OpenPipeKept ==
    ASSUME ShellInv, NEW s \in Shell, OpenPipe(s)
    PROVE  ShellInv'
<1>0. ShellTyped /\ AtStage(s) /\ Busy(s) /\ ~Running(s)
    BY DEF ShellInv, OpenPipe, Running, Busy
<1>1. PICK table : table = fds[s]
    OBVIOUS
<1>2. table \in [Fd -> EndType] /\ CanPipe(table)
    BY <1>0, <1>1 DEF ShellTyped, OpenPipe
<1>3. PICK q : q = NewPipe(s)
    OBVIOUS
<1>4. q \in Pipe /\ q[1] = s
    <2>1. s = Main => Alive
        BY DEF Alive, OpenPipe
    <2>2. PICK r \in Fd, w \in Fd : r # w /\ table[r] = NoEnd /\ table[w] = NoEnd
        BY <1>2, PipeFdsAreFree DEF FreeFds
    <2> QED BY <1>1, <1>3, <2>1, <2>2, NewPipeIsNew
<1>5. 1 \in 1..Len(piper[s].command_list)
    <2>1. piper[s] \in Pipers
        BY <1>0 DEF AtStage
    <2>2. PICK n \in Nat \ {0} : n = Len(piper[s].command_list)
        BY <2>1, StagesOfPiper
    <2> QED BY <2>2
<1>6. PICK how \in {"no", "short", "yes", "cut"} : how = whole[s]
    BY <1>0 DEF ShellTyped
<1>7. /\ pc' = [pc EXCEPT ![s] = "stage"] /\ fds' = [fds EXCEPT ![s] = WithPipe(table, q)]
      /\ currpipe' = [currpipe EXCEPT ![s] = PipeFds(table)]
      /\ in' = [in EXCEPT ![s] = 0] /\ i' = [i EXCEPT ![s] = 1]
      /\ before' = [before EXCEPT ![s] = table] /\ piper' = piper
      /\ whole' = [whole EXCEPT ![s] = how]
    BY <1>0, <1>1, <1>3, <1>6 DEF OpenPipe, ShellTyped
<1>8. Closed(s, table)
    BY <1>1, <1>2 DEF Closed
<1>9. Opens(s, table, q, 1, 0, table, how)
    BY <1>0, <1>2, <1>4, <1>5, <1>7, <1>8 DEF Opens
<1> QED
    BY <1>9, OpensKept

LEMMA OpenPipeFailsKept ==
    ASSUME ShellInv, NEW s \in Shell, OpenPipeFails(s)
    PROVE  ShellInv'
<1>1. Busy(s) /\ fds[s] \in [Fd -> EndType]
    BY DEF ShellInv, ShellTyped, OpenPipeFails, Busy
<1>2. Returns(s, fds[s], "cut", FALSE)
    BY <1>1 DEF OpenPipeFails, Returns, Closed
<1> QED
    BY <1>2, ReturnKept

LEMMA BuiltInKept ==
    ASSUME ShellInv, NEW s \in Shell, BuiltIn(s)
    PROVE  ShellInv'
<1>1. Busy(s) /\ fds[s] \in [Fd -> EndType]
    BY DEF ShellInv, ShellTyped, BuiltIn, Busy
<1>2. PICK exits \in BOOLEAN : Return(s, fds[s], "cut", exits)
    BY DEF BuiltIn
<1>3. Returns(s, fds[s], "cut", exits)
    BY <1>1, <1>2 DEF Returns, Closed
<1> QED
    BY <1>3, ReturnKept

LEMMA CrashKept ==
    ASSUME ShellInv, NEW s \in Shell, Crash(s)
    PROVE  ShellInv'
<1>0. ShellTyped /\ AtStage(s) /\ Running(s)
    BY DEF ShellInv, Crash, Running
<1>1. ~WellFormed(piper[s])
    <2>1. piper[s] \in Pipers /\ i[s] \in 1..Len(piper[s].command_list)
        BY <1>0 DEF AtStage, Running, Busy
    <2>2. i[s] \in DOMAIN piper[s].command_list
        BY <2>1, StagesOfPiper
    <2> QED BY <2>2, SegvIsMalformed DEF Crash
<1>2. PICK v : v = IF s = Main THEN "segv" ELSE "zombie"
    OBVIOUS
<1>3. /\ pc' = [pc EXCEPT ![s] = v] /\ fds' = [fds EXCEPT ![s] = NoFds]
      /\ whole' = [whole EXCEPT ![s] = "cut"]
      /\ piper' = piper /\ i' = i /\ in' = in /\ currpipe' = currpipe /\ before' = before
    BY <1>2 DEF Crash, line
<1>4. (s = Main => v \in AtMain /\ v = "segv") /\ (s # Main => v \in AtFork) /\ v \in {"segv", "zombie"}
    BY <1>2 DEF AtMain, AtFork
<1>5. fds' \in [Shell -> [Fd -> EndType]] /\ whole' \in [Shell -> {"no", "short", "yes", "cut"}]
    BY <1>0, <1>3, NoFdsTyped DEF ShellTyped
<1>6. /\ \A t \in Shell \ {s} : fds'[t] = fds[t] /\ whole'[t] = whole[t]
      /\ \A d \in Fd : fds'[s][d] = NoEnd
    BY <1>0, <1>3, NoFdsTyped DEF ShellTyped
<1> QED
    BY <1>0, <1>1, <1>3, <1>4, <1>5, <1>6, SettlesKept DEF ShellTyped

LEMMA WaitForgetsKept ==
    ASSUME ShellInv, NEW s \in Shell, WaitForgets(s)
    PROVE  ShellInv'
<1>0. ShellTyped /\ s # Main
    BY DEF ShellInv, WaitForgets
<1>1. /\ pc' = [pc EXCEPT ![s] = "none"] /\ whole' = [whole EXCEPT ![s] = "cut"]
      /\ piper' = [piper EXCEPT ![s] = NoLine] /\ before' = [before EXCEPT ![s] = NoFds]
      /\ i' = i /\ in' = in /\ currpipe' = currpipe /\ fds' = fds
    BY DEF WaitForgets, Forget
<1>2. /\ piper' \in [Shell -> Pipers \cup {NoLine}] /\ before' \in [Shell -> [Fd -> EndType]]
      /\ whole' \in [Shell -> {"no", "short", "yes", "cut"}]
    BY <1>0, <1>1, NoFdsTyped DEF ShellTyped
<1>3. \A t \in Shell \ {s} : piper'[t] = piper[t] /\ before'[t] = before[t] /\ whole'[t] = whole[t]
    BY <1>0, <1>1 DEF ShellTyped
<1>4. "none" \in AtFork
    BY DEF AtFork
<1> QED
    BY <1>0, <1>1, <1>2, <1>3, <1>4, SettlesKept DEF ShellTyped

LEMMA ReadLineKept ==
    ASSUME ShellInv, ReadLine
    PROVE  ShellInv'
<1>0. ShellTyped /\ Main \in Shell /\ Alive /\ ~Running(Main)
    BY MainIsShell DEF ShellInv, ReadLine, Alive, Running
<1>1. PICK p \in Pipers : piper' = [piper EXCEPT ![Main] = p]
    BY DEF ReadLine
<1>2. /\ pc' = [pc EXCEPT ![Main] = "open"] /\ whole' = [whole EXCEPT ![Main] = "no"]
      /\ i' = i /\ in' = in /\ currpipe' = currpipe /\ fds' = fds /\ before' = before
    BY DEF ReadLine
<1>3. piper' \in [Shell -> Pipers \cup {NoLine}] /\ whole' \in [Shell -> {"no", "short", "yes", "cut"}]
    BY <1>0, <1>1, <1>2 DEF ShellTyped
<1>4. /\ \A t \in Shell \ {Main} : piper'[t] = piper[t] /\ whole'[t] = whole[t]
      /\ piper'[Main] \in Pipers
    BY <1>0, <1>1, <1>2 DEF ShellTyped
<1>5. "open" \in AtMain
    BY DEF AtMain
<1> QED
    BY <1>0, <1>2, <1>3, <1>4, <1>5, SettlesKept DEF ShellTyped

LEMMA EndOfInputKept ==
    ASSUME ShellInv, EndOfInput
    PROVE  ShellInv'
<1>0. ShellTyped /\ Main \in Shell
    BY MainIsShell DEF ShellInv
<1>1. /\ pc' = [pc EXCEPT ![Main] = "exited"] /\ fds' = [fds EXCEPT ![Main] = NoFds]
      /\ piper' = piper /\ i' = i /\ in' = in /\ currpipe' = currpipe /\ whole' = whole
      /\ before' = before
    BY DEF EndOfInput, line, ghosts
<1>2. /\ fds' \in [Shell -> [Fd -> EndType]] /\ \A t \in Shell \ {Main} : fds'[t] = fds[t]
      /\ \A d \in Fd : fds'[Main][d] = NoEnd
    BY <1>0, <1>1, NoFdsTyped DEF ShellTyped
<1>3. "exited" \in AtMain
    BY DEF AtMain
<1> QED
    BY <1>0, <1>1, <1>2, <1>3, SettlesKept DEF ShellTyped

LEMMA ReadAsyncLineKept ==
    ASSUME ShellInv, ReadAsyncLine
    PROVE  ShellInv'
<1>0. ShellTyped /\ Main \in Shell
    BY MainIsShell DEF ShellInv
<1>1. PICK p \in Pipers, s \in Shell \ {Main} :
          /\ s = Min({j \in Shell \ {Main} : pc[j] = "none"})
          /\ piper' = [piper EXCEPT ![s] = p] /\ pc' = [pc EXCEPT ![s] = "open"]
          /\ fds' = [fds EXCEPT ![s] = fds[Main]] /\ whole' = [whole EXCEPT ![s] = "no"]
    BY DEF ReadAsyncLine
<1>2. i' = i /\ in' = in /\ currpipe' = currpipe /\ before' = before /\ pc[Main] = "prompt"
    BY DEF ReadAsyncLine
<1>3. \A t \in Shell \ {s} : Untouched(t) /\ whole'[t] = whole[t]
    BY <1>0, <1>1, <1>2 DEF Untouched, ShellTyped
<1>4. pc'[s] = "open" /\ piper'[s] = p /\ fds'[s] = fds[Main]
    BY <1>0, <1>1 DEF ShellTyped
<1>5. ShellTyped'
    <2>1. "open" \in AtFork
        BY DEF AtFork
    <2>2. /\ pc' \in [Shell -> {"none", "prompt", "open", "stage", "wait", "zombie",
                                "exited", "segv"}]
          /\ pc'[Main] \in {"prompt", "open", "stage", "wait", "exited", "segv"}
          /\ \A t \in Shell \ {Main} : pc'[t] \in {"none", "open", "stage", "wait", "zombie"}
        BY <1>0, <1>1, <2>1, PcMoves
    <2>3. piper' \in [Shell -> Pipers \cup {NoLine}] /\ fds' \in [Shell -> [Fd -> EndType]]
          /\ whole' \in [Shell -> {"no", "short", "yes", "cut"}]
        BY <1>0, <1>1 DEF ShellTyped
    <2> QED BY <1>0, <1>2, <2>2, <2>3 DEF ShellTyped
<1>6. ASSUME NEW t \in Shell PROVE AtStage(t)' /\ Kept(t)'
    <2>1. CASE t = s
        BY <1>4, <2>1 DEF AtStage, Kept, Running, Busy
    <2>2. CASE t # s
        BY <1>3, <2>2, UntouchedKept DEF ShellInv
    <2> QED BY <2>1, <2>2
<1>7. ~Running(Main) /\ ~Running(Main)' /\ fds'[Main] = fds[Main] /\ pc'[Main] = pc[Main]
    BY <1>0, <1>1, <1>2, <1>3 DEF Running, Untouched
<1>8. ASSUME NEW t \in Shell PROVE Inherited(t)'
    <2>1. CASE t = s
        <3>1. Inherited(Main)
            BY <1>0 DEF ShellInv
        <3>2. \A d \in Fd : fds[Main][d].pipe \in Pipe => fds[Main][d].pipe[1] = Main
            BY <3>1 DEF Inherited
        <3> QED BY <1>4, <1>7, <2>1, <3>2 DEF Inherited
    <2>2. CASE t # s
        <3>1. fds'[t] = fds[t] /\ Inherited(t) /\ (Alive' <=> Alive)
            BY <1>3, <1>7, <2>2 DEF Untouched, ShellInv, Alive
        <3> QED BY <1>7, <3>1 DEF Inherited
    <2> QED BY <2>1, <2>2
<1>9. CrashOnlyOnMalformed' /\ WholeLineLeavesNoFd'
    <2>1. /\ pc'[Main] = pc[Main] /\ whole'[Main] = whole[Main] /\ piper'[Main] = piper[Main]
          /\ fds'[Main] = fds[Main] /\ before'[Main] = before[Main]
        BY <1>0, <1>1, <1>3 DEF Untouched
    <2> QED BY <2>1 DEF CrashOnlyOnMalformed, WholeLineLeavesNoFd, ShellInv
<1> QED
    BY <1>5, <1>6, <1>8, <1>9 DEF ShellInv

\* A spawn leaves the shell what it had.
LEMMA SpawnKept ==
    ASSUME ShellInv, NEW s \in Shell, Spawn(s)
    PROVE  ShellInv'
<1>0. ShellTyped /\ Main \in Shell
    BY MainIsShell DEF ShellInv
<1>1. /\ pc' = [pc EXCEPT ![s] = "wait"] /\ pc[s] = "stage"
      /\ piper' = piper /\ i' = i /\ in' = in /\ currpipe' = currpipe /\ fds' = fds
      /\ out' = out /\ whole' = whole /\ before' = before
    BY DEF Spawn, line, ghosts
<1>2. "wait" \in AtMain /\ "wait" \in AtFork
    BY DEF AtMain, AtFork
<1>3. ShellTyped'
    <2>1. /\ pc' \in [Shell -> {"none", "prompt", "open", "stage", "wait", "zombie",
                                "exited", "segv"}]
          /\ pc'[Main] \in {"prompt", "open", "stage", "wait", "exited", "segv"}
          /\ \A t \in Shell \ {Main} : pc'[t] \in {"none", "open", "stage", "wait", "zombie"}
        BY <1>0, <1>1, <1>2, PcMoves
    <2> QED BY <1>0, <1>1, <2>1 DEF ShellTyped
<1>4. ASSUME NEW t \in Shell
      PROVE  /\ Running(t)' <=> Running(t)
             /\ Busy(t)' <=> Busy(t)
             /\ Held(t)' = Held(t) /\ (First(t)' <=> First(t))
    BY <1>0, <1>1 DEF Running, Busy, Held, First, ShellTyped
<1>5. ASSUME NEW t \in Shell PROVE AtStage(t)' /\ Kept(t)'
    <2>1. AtStage(t) /\ Kept(t)
        BY DEF ShellInv
    <2>2. AtStage(t)'
        BY <1>1, <1>4, <2>1 DEF AtStage
    <2>3. Kept(t)'
        BY <1>1, <1>4, <2>1 DEF Kept
    <2> QED BY <2>2, <2>3
<1>6. Alive' <=> Alive
    BY <1>0, <1>1 DEF Alive, ShellTyped
<1>7. ASSUME NEW t \in Shell PROVE Inherited(t)'
    <2>1. Inherited(t)
        BY DEF ShellInv
    <2> QED BY <1>0, <1>1, <1>4, <1>6, <2>1 DEF Inherited
<1>8. CrashOnlyOnMalformed' /\ WholeLineLeavesNoFd'
    <2>1. CASE s = Main
        BY <1>0, <1>1, <2>1 DEF CrashOnlyOnMalformed, WholeLineLeavesNoFd, ShellTyped
    <2>2. CASE s # Main
        <3>1. pc'[Main] = pc[Main]
            BY <1>0, <1>1, <2>2 DEF ShellTyped
        <3> QED BY <1>1, <3>1 DEF CrashOnlyOnMalformed, WholeLineLeavesNoFd, ShellInv
    <2> QED BY <2>1, <2>2
<1> QED
    BY <1>3, <1>5, <1>7, <1>8 DEF ShellInv

LEMMA SpawnFailsKept ==
    ASSUME ShellInv, NEW s \in Shell, SpawnFails(s)
    PROVE  ShellInv'
<1>1. PICK table : table = Close(fds[s], {InFd(s), OutFd(s)})
    OBVIOUS
<1>2. Advance(s, table, "short") /\ Running(s)
    BY <1>1 DEF SpawnFails, Running
<1>3. fds[s] \in [Fd -> EndType]
    BY DEF ShellInv, ShellTyped
<1>4. /\ table \in [Fd -> EndType]
      /\ \A d \in Fd : table[d] = IF d \in {InFd(s), OutFd(s)} THEN NoEnd ELSE fds[s][d]
    BY <1>1, <1>3, CloseTyped
<1>5. {InFd(s), OutFd(s)} \subseteq Held(s)
    BY DEF InFd, OutFd, Held
<1>6. \A d \in Fd : table[d] = fds[s][d] \/ (d \in Held(s) /\ table[d] = NoEnd)
    BY <1>4, <1>5
<1> QED
    BY <1>2, <1>4, <1>6, AdvanceKept

LEMMA WaitReturnsKept ==
    ASSUME ShellInv, NEW s \in Shell, WaitReturns(s)
    PROVE  ShellInv'
<1>1. PICK table, how : table = fds[s] /\ how = whole[s]
    OBVIOUS
<1>2. /\ Advance(s, table, how) /\ Running(s)
      /\ table \in [Fd -> EndType] /\ how \in {"no", "short", "yes", "cut"}
    BY <1>1 DEF WaitReturns, Running, ShellInv, ShellTyped
<1> QED
    BY <1>1, <1>2, AdvanceKept

LEMMA ShellUnchanged ==
    ASSUME ShellInv, UNCHANGED <<pc, line, fds, whole, before>>
    PROVE  ShellInv'
<1>1. /\ pc' = pc /\ piper' = piper /\ i' = i /\ in' = in /\ currpipe' = currpipe
      /\ fds' = fds /\ whole' = whole /\ before' = before
    BY DEF line
<1>2. ShellTyped'
    BY <1>1 DEF ShellInv, ShellTyped
<1>3. ASSUME NEW t \in Shell PROVE AtStage(t)' /\ Kept(t)'
    <2>1. Untouched(t)
        BY <1>1 DEF Untouched
    <2> QED BY <2>1, UntouchedKept DEF ShellInv
<1>4. ASSUME NEW t \in Shell PROVE Inherited(t)'
    <2>1. Inherited(t) /\ (Running(Main)' <=> Running(Main)) /\ Held(Main)' = Held(Main)
          /\ (Alive' <=> Alive)
        BY <1>1 DEF ShellInv, Running, Held, First, Alive
    <2> QED BY <1>1, <2>1 DEF Inherited
<1>5. CrashOnlyOnMalformed' /\ WholeLineLeavesNoFd'
    BY <1>1 DEF ShellInv, CrashOnlyOnMalformed, WholeLineLeavesNoFd
<1> QED
    BY <1>2, <1>3, <1>4, <1>5 DEF ShellInv

(***************************************************************************)
(* The programs and the pipes.                                             *)
(***************************************************************************)

LEMMA OwnIsNat == \A com : Own(com) \in Nat /\ Copies(com) \in BOOLEAN
BY JshAssumption DEF Own, Copies

LEMMA ChildTyped ==
    ASSUME ShellInv, NEW s \in Shell, Running(s)
    PROVE  Child(s) \in KidType
<1>1. /\ i[s] \in Nat /\ fds[s] \in [Fd -> EndType]
      /\ currpipe[s][1] \in Fd /\ currpipe[s][2] \in Fd /\ (~First(s) => in[s] \in Fd)
    <2>1. ShellTyped /\ AtStage(s)
        BY DEF ShellInv
    <2>2. i[s] \in Nat /\ fds[s] \in [Fd -> EndType]
        BY <2>1 DEF ShellTyped
    <2> QED BY <2>1, <2>2 DEF AtStage
<1>2. InFd(s) \in Fd /\ OutFd(s) \in Fd
    BY <1>1 DEF InFd, OutFd
<1>3. \A d \in Fd : fds[s][d] \in EndType /\ fds[s][d].pipe \in Pipe \cup {NoPipe}
    BY <1>1 DEF EndType
<1>4. PICK com : com = Command(piper[s], i[s])
    OBVIOUS
<1>5. Own(com) \in Nat /\ Copies(com) \in BOOLEAN
    BY OwnIsNat
<1>6. PICK src, dst : /\ src = IF First(s) THEN NoPipe ELSE fds[s][InFd(s)].pipe
                      /\ dst = IF Final(s) THEN NoPipe ELSE fds[s][OutFd(s)].pipe
    OBVIOUS
<1>7. src \in Pipe \cup {NoPipe} /\ dst \in Pipe \cup {NoPipe}
    BY <1>2, <1>3, <1>6
<1>8. PICK held : held = {fds[s][d] : d \in {e \in Fd : e > CloseMax} \ {InFd(s), OutFd(s)}}
    OBVIOUS
<1>9. held \in SUBSET EndType
    BY <1>3, <1>8
<1>10. Child(s) = [state |-> "runs", stage |-> i[s], left |-> Own(com), copies |-> Copies(com),
                   src |-> src, dst |-> dst, held |-> held]
    BY <1>4, <1>6, <1>8, Zenon DEF Child
<1> QED
    BY <1>1, <1>5, <1>7, <1>9, <1>10 DEF KidType

LEMMA NoKidTyped == NoKid \in KidType
BY DEF NoKid, KidType

\* A pipe that is new is empty.
LEMMA PipeEmptied ==
    ASSUME PipeTyped, NEW q, pipe' = [pipe EXCEPT ![q] = <<>>] \/ pipe' = pipe
    PROVE  PipeTyped'
<1>1. CASE pipe' = pipe
    BY <1>1 DEF PipeTyped
<1>2. CASE pipe' = [pipe EXCEPT ![q] = <<>>]
    <2>1. <<>> \in Seq(Nat) /\ Len(<<>>) = 0 /\ 0 <= PipeCap
        BY JshAssumption, EmptySeq
    <2>2. pipe' \in [Pipe -> Seq(Nat)]
        BY <1>2, <2>1 DEF PipeTyped
    <2>3. ASSUME NEW p \in Pipe PROVE Len(pipe'[p]) <= PipeCap
        <3>1. pipe'[p] = pipe[p] \/ pipe'[p] = <<>>
            BY <1>2 DEF PipeTyped
        <3> QED BY <2>1, <3>1 DEF PipeTyped
    <2> QED BY <2>2, <2>3 DEF PipeTyped
<1> QED
    BY <1>1, <1>2

\* A program writes one unit, to its pipe if that is not full.
LEMMA WriteKept ==
    ASSUME PipeTyped, NEW s \in Shell, NEW unit \in Nat, Write(s, unit)
    PROVE  PipeTyped'
<1>1. CASE kid[s].dst \notin Pipe
    BY <1>1 DEF Write, PipeTyped
<1>2. CASE kid[s].dst \in Pipe
    <2>1. PICK q \in Pipe : q = kid[s].dst
        BY <1>2
    <2>2. Len(pipe[q]) < PipeCap /\ pipe' = [pipe EXCEPT ![q] = Append(pipe[q], unit)]
        BY <1>2, <2>1 DEF Write
    <2>3. PICK units \in Seq(Nat) : units = pipe[q]
        BY <2>1 DEF PipeTyped
    <2>4. /\ Append(units, unit) \in Seq(Nat) /\ Len(Append(units, unit)) = Len(units) + 1
          /\ Len(units) \in Nat
        BY AppendProperties, LenProperties
    <2>5. Len(Append(units, unit)) <= PipeCap
        BY <2>2, <2>3, <2>4, JshAssumption
    <2> QED BY <2>2, <2>3, <2>4, <2>5 DEF PipeTyped
<1> QED
    BY <1>1, <1>2

\* A unit that moves from one pipe to the next leaves room in the one and had it in
\* the other, even where the two are the same.
LEMMA CopyKept ==
    ASSUME PipeTyped, NEW s \in Shell, Copy(s)
    PROVE  PipeTyped'
<1>1. PICK q \in Pipe : q = kid[s].src
    BY DEF Copy
<1>2. PICK units \in Seq(Nat) : units = pipe[q] /\ units # <<>>
    BY <1>1 DEF PipeTyped, Copy
<1>3. PICK rest \in Seq(Nat), unit \in Nat :
          /\ rest = Tail(units) /\ unit = Head(units) /\ Len(rest) = Len(units) - 1
          /\ Len(units) \in Nat \ {0}
    BY <1>2, HeadTailProperties, EmptySeq, LenProperties
<1>4. Len(units) <= PipeCap /\ Len(rest) <= PipeCap
    BY <1>2, <1>3, JshAssumption DEF PipeTyped
<1>5. PICK d : d = kid[s].dst
    OBVIOUS
<1>6. d \in Pipe => Len(pipe[d]) < PipeCap
    BY <1>5 DEF Copy
<1>7. pipe' = [p \in Pipe |-> IF p = d THEN Append(IF p = q THEN rest ELSE pipe[p], unit)
                             ELSE IF p = q THEN rest ELSE pipe[p]]
    BY <1>1, <1>2, <1>3, <1>5 DEF Copy, Moved
<1>8. ASSUME NEW p \in Pipe
      PROVE  pipe'[p] \in Seq(Nat) /\ Len(pipe'[p]) <= PipeCap
    <2>1. PICK had \in Seq(Nat) : had = IF p = q THEN rest ELSE pipe[p]
        BY DEF PipeTyped
    <2>2. Len(had) <= PipeCap
        BY <1>4, <2>1 DEF PipeTyped
    <2>3. CASE p # d
        BY <1>7, <2>1, <2>2, <2>3
    <2>4. CASE p = d
        <3>1. /\ Append(had, unit) \in Seq(Nat) /\ Len(Append(had, unit)) = Len(had) + 1
              /\ Len(had) \in Nat
            BY AppendProperties, LenProperties
        <3>2. Len(had) < PipeCap
            <4>1. CASE p = q
                <5>1. had = rest
                    BY <2>1, <4>1
                <5> QED BY <1>3, <1>4, <5>1, JshAssumption
            <4>2. CASE p # q
                BY <1>6, <2>1, <2>4, <4>2
            <4> QED BY <4>1, <4>2
        <3>3. pipe'[p] = Append(had, unit)
            BY <1>7, <2>1, <2>4
        <3> QED BY <3>1, <3>2, <3>3, JshAssumption
    <2> QED BY <2>3, <2>4
<1>9. pipe' \in [Pipe -> Seq(Nat)]
    BY <1>7, <1>8
<1> QED
    BY <1>8, <1>9 DEF PipeTyped

\* A step of a program.
LEMMA KidStepKept ==
    ASSUME IInv, NEW s \in Shell, KidStep(s)
    PROVE  IInv'
<1>0. ShellInv /\ KidTyped /\ PipeTyped
    BY DEF IInv
<1>1. ShellInv'
    BY <1>0, ShellUnchanged DEF KidStep, Produce, Copy, Terminate, ghosts
<1>2. PICK k \in KidType : k = kid[s]
    BY <1>0 DEF KidTyped
<1>3. /\ k.stage \in Nat /\ k.left \in Nat
    BY DEF KidType
<1>4. CASE Produce(s)
    <2>1. /\ Write(s, k.stage) /\ k.left > 0
          /\ kid' = [kid EXCEPT ![s] = [k EXCEPT !.left = k.left - 1]]
        BY <1>0, <1>2, <1>4 DEF Produce, KidTyped
    <2>2. k.left - 1 \in Nat
        BY <1>3, <2>1
    <2>3. [k EXCEPT !.left = k.left - 1] \in KidType
        BY <2>2 DEF KidType
    <2>4. KidTyped'
        BY <1>0, <2>1, <2>3 DEF KidTyped
    <2>5. PipeTyped'
        BY <1>0, <1>3, <2>1, WriteKept
    <2> QED BY <1>1, <2>4, <2>5 DEF IInv
<1>5. CASE Copy(s)
    <2>1. KidTyped'
        BY <1>0, <1>5 DEF Copy, KidTyped
    <2>2. PipeTyped'
        BY <1>0, <1>5, CopyKept
    <2> QED BY <1>1, <2>1, <2>2 DEF IInv
<1>6. CASE Terminate(s)
    <2>1. pipe' = pipe /\ kid' = [kid EXCEPT ![s] = [k EXCEPT !.state = "zombie"]]
        BY <1>0, <1>2, <1>6 DEF Terminate, KidTyped
    <2>2. [k EXCEPT !.state = "zombie"] \in KidType
        BY DEF KidType
    <2>3. KidTyped'
        BY <1>0, <2>1, <2>2 DEF KidTyped
    <2>4. PipeTyped'
        BY <1>0, <2>1 DEF PipeTyped
    <2> QED BY <1>1, <2>3, <2>4 DEF IInv
<1> QED
    BY <1>4, <1>5, <1>6 DEF KidStep

LEMMA AdvanceEmpties ==
    ASSUME PipeTyped, NEW s, NEW table, NEW how, Advance(s, table, how)
    PROVE  PipeTyped'
<1>1. pipe' = pipe \/ pipe' = [pipe EXCEPT ![NewPipe(s)] = <<>>]
    BY DEF Advance
<1>2. PICK q : q = NewPipe(s)
    OBVIOUS
<1> QED
    BY <1>1, <1>2, PipeEmptied

\* A step of a shell.
LEMMA ShellStepKept ==
    ASSUME IInv, NEW s \in Shell, ShellStep(s)
    PROVE  IInv'
<1>0. ShellInv /\ KidTyped /\ PipeTyped
    BY DEF IInv
<1>1. ASSUME pipe' = pipe PROVE PipeTyped'
    BY <1>0, <1>1 DEF PipeTyped
<1>2. ASSUME kid' = kid PROVE KidTyped'
    BY <1>0, <1>2 DEF KidTyped
<1>3. CASE OpenPipe(s)
    <2>1. PICK q : q = NewPipe(s)
        OBVIOUS
    <2>2. PipeTyped'
        BY <1>0, <1>3, <2>1, PipeEmptied DEF OpenPipe
    <2> QED BY <1>0, <1>2, <1>3, <2>2, OpenPipeKept DEF OpenPipe, IInv
<1>4. CASE OpenPipeFails(s)
    BY <1>0, <1>1, <1>2, <1>4, OpenPipeFailsKept DEF OpenPipeFails, IInv
<1>5. CASE BuiltIn(s)
    BY <1>0, <1>1, <1>2, <1>5, BuiltInKept DEF BuiltIn, IInv
<1>6. CASE Crash(s)
    BY <1>0, <1>1, <1>2, <1>6, CrashKept DEF Crash, IInv
<1>7. CASE Spawn(s)
    <2>1. pipe' = pipe /\ kid' = [kid EXCEPT ![s] = Child(s)] /\ Running(s)
        BY <1>7 DEF Spawn, Running
    <2>2. KidTyped'
        BY <1>0, <2>1, ChildTyped DEF KidTyped
    <2> QED BY <1>0, <1>1, <1>7, <2>1, <2>2, SpawnKept DEF IInv
<1>8. CASE SpawnFails(s)
    <2>1. PipeTyped'
        BY <1>0, <1>8, AdvanceEmpties DEF SpawnFails
    <2> QED BY <1>0, <1>2, <1>8, <2>1, SpawnFailsKept DEF SpawnFails, IInv
<1>9. CASE WaitReturns(s)
    <2>1. PipeTyped'
        BY <1>0, <1>9, AdvanceEmpties DEF WaitReturns
    <2>2. KidTyped'
        BY <1>0, <1>9, NoKidTyped DEF WaitReturns, KidTyped
    <2> QED BY <1>0, <1>9, <2>1, <2>2, WaitReturnsKept DEF IInv
<1>10. CASE WaitForgets(s)
    BY <1>0, <1>1, <1>2, <1>10, WaitForgetsKept DEF WaitForgets, IInv
<1> QED
    BY <1>3, <1>4, <1>5, <1>6, <1>7, <1>8, <1>9, <1>10 DEF ShellStep

LEMMA InitInv == Init => IInv
<1> SUFFICES ASSUME Init PROVE IInv
    OBVIOUS
<1>0. Main \in Shell /\ NoEnd \in EndType
    BY MainIsShell, EndsTyped
<1>1. /\ pc \in [Shell -> {"none", "prompt"}] /\ pc[Main] = "prompt"
      /\ \A s \in Shell \ {Main} : pc[s] = "none"
    BY <1>0 DEF Init
<1>2. \A s \in Shell, d \in Fd : fds[s][d] = NoEnd /\ before[s][d] = NoEnd
    BY DEF Init, NoFds
<1>3. fds \in [Shell -> [Fd -> EndType]] /\ before \in [Shell -> [Fd -> EndType]]
    BY NoFdsTyped DEF Init
<1>4. ShellTyped
    <2>1. /\ piper \in [Shell -> Pipers \cup {NoLine}] /\ i \in [Shell -> Nat]
          /\ in \in [Shell -> Fd \cup {0}]
          /\ currpipe \in [Shell -> (Fd \cup {0}) \X (Fd \cup {0})]
          /\ whole \in [Shell -> {"no", "short", "yes", "cut"}]
        BY DEF Init
    <2>2. /\ pc \in [Shell -> {"none", "prompt", "open", "stage", "wait", "zombie",
                               "exited", "segv"}]
          /\ pc[Main] \in {"prompt", "open", "stage", "wait", "exited", "segv"}
          /\ \A s \in Shell \ {Main} : pc[s] \in {"none", "open", "stage", "wait", "zombie"}
        BY <1>1
    <2> QED BY <1>3, <2>1, <2>2 DEF ShellTyped
<1>5. ASSUME NEW s \in Shell PROVE AtStage(s) /\ Kept(s)
    BY <1>1 DEF AtStage, Kept, Running, Busy
<1>6. ASSUME NEW s \in Shell PROVE Inherited(s)
    <2>1. NoEnd.pipe \notin Pipe
        BY EndsTyped DEF NoEnd
    <2> QED BY <1>2, <2>1 DEF Inherited
<1>7. CrashOnlyOnMalformed /\ WholeLineLeavesNoFd
    BY <1>0, <1>1 DEF CrashOnlyOnMalformed, WholeLineLeavesNoFd, Init
<1>8. KidTyped
    BY NoKidTyped DEF KidTyped, Init
<1>9. PipeTyped
    <2>1. <<>> \in Seq(Nat) /\ Len(<<>>) = 0 /\ 0 <= PipeCap
        BY JshAssumption, EmptySeq
    <2> QED BY <2>1 DEF PipeTyped, Init
<1> QED
    BY <1>4, <1>5, <1>6, <1>7, <1>8, <1>9 DEF IInv, ShellInv

LEMMA NextInv == IInv /\ [Next]_vars => IInv'
<1> SUFFICES ASSUME IInv, [Next]_vars PROVE IInv'
    OBVIOUS
<1>0. ShellInv /\ KidTyped /\ PipeTyped
    BY DEF IInv
<1>1. ASSUME kid' = kid, pipe' = pipe PROVE KidTyped' /\ PipeTyped'
    BY <1>0, <1>1 DEF KidTyped, PipeTyped
<1>2. CASE ReadLine
    BY <1>0, <1>1, <1>2, ReadLineKept DEF ReadLine, IInv
<1>3. CASE ReadAsyncLine
    BY <1>0, <1>1, <1>3, ReadAsyncLineKept DEF ReadAsyncLine, IInv
<1>4. CASE EndOfInput
    BY <1>0, <1>1, <1>4, EndOfInputKept DEF EndOfInput, IInv
<1>5. ASSUME NEW s \in Shell, ShellStep(s) \/ KidStep(s) PROVE IInv'
    BY <1>5, ShellStepKept, KidStepKept
<1>6. CASE UNCHANGED vars
    BY <1>0, <1>1, <1>6, ShellUnchanged DEF vars, ghosts, IInv
<1> QED
    BY <1>2, <1>3, <1>4, <1>5, <1>6 DEF Next, User

LEMMA Invariant == Spec => []IInv
<1> QED
    BY InitInv, NextInv, PTL DEF Spec

(***************************************************************************)
(* The theorems.                                                           *)
(***************************************************************************)

\* Every variable of the shell has its type: a descriptor table holds only ends of
\* pipes that exist (there is always a number for a new pipe), and no pipe holds
\* more than it can, even where a descriptor is closed before it is used.
THEOREM TypeCorrect == Spec => []TypeOK
<1>1. IInv => TypeOK
    <2> SUFFICES ASSUME IInv PROVE TypeOK
        OBVIOUS
    <2>1. \A s \in Shell : kid[s].state \in {"none", "runs", "zombie"}
        BY DEF IInv, KidTyped, KidType
    <2> QED BY <2>1 DEF IInv, ShellInv, ShellTyped, PipeTyped, TypeOK
<1> QED
    BY <1>1, Invariant, PTL

\* _run_sync_commands closes, stage after stage, every descriptor it opened, and
\* reopens none the shell had: a line that ran to its end leaves the table the
\* shell had when it began, however many stages it has, whatever descriptors an
\* earlier line left behind, and however the forks beside it run.
THEOREM WholeLineLeavesNoFdHolds == Spec => []WholeLineLeavesNoFd
<1>1. IInv => WholeLineLeavesNoFd
    BY DEF IInv, ShellInv
<1> QED
    BY <1>1, Invariant, PTL

\* The shell reads past a stage only where there is no program or no file name to
\* read: a line all of whose stages have them does not bring it down.
THEOREM CrashOnlyOnMalformedHolds == Spec => []CrashOnlyOnMalformed
<1>1. IInv => CrashOnlyOnMalformed
    BY DEF IInv, ShellInv
<1> QED
    BY <1>1, Invariant, PTL

\* A set of numbers that has one number, and with each up to another the next, has
\* all of them.
LEMMA Counting ==
    ASSUME NEW b \in Nat, NEW n \in Nat, NEW T, b \in T,
           \A k \in b..(n - 1) : k \in T => k + 1 \in T
    PROVE  \A k \in b..n : k \in T
<1> DEFINE Bad == {k \in b..n : k \notin T}
<1>1. SUFFICES ASSUME Bad # {} PROVE FALSE
    OBVIOUS
<1>2. Bad \subseteq Nat
    OBVIOUS
<1>3. PICK m \in Bad : \A k \in Bad : ~(<<k, m>> \in OpToRel(<, Nat))
    <2> HIDE DEF Bad
    <2> QED BY <1>1, <1>2, NatLessThanWellFounded, WFMin, ZenonT(30)
<1>4. \A k \in Bad : ~(k < m)
    BY <1>2, <1>3 DEF OpToRel
<1>5. m \in b..n /\ m \notin T /\ m # b
    OBVIOUS
<1>6. m - 1 \in b..(n - 1) /\ m - 1 \in b..n /\ (m - 1) + 1 = m /\ m - 1 < m
    BY <1>5
<1>7. m - 1 \in T
    BY <1>4, <1>6
<1> QED
    BY <1>5, <1>6, <1>7

\* A stretch of a line up to a sign, the sign, and what follows up to another place.
LEMMA OneMoreStage ==
    ASSUME NEW ws \in Seq(STRING), NEW f \in 1..Len(ws), NEW t \in 1..Len(ws) + 1,
           f < t, ws[f] = "|"
    PROVE  SubSeq(ws, 1, t - 1) =
              SubSeq(ws, 1, f - 1) \o <<"|">> \o SubSeq(ws, f + 1, t - 1)
<1> DEFINE a == SubSeq(ws, 1, f - 1)
           c == SubSeq(ws, f + 1, t - 1)
           w == SubSeq(ws, 1, t - 1)
           u == a \o <<"|">>
<1>1. Len(ws) \in Nat /\ f \in Nat /\ t \in Nat
    OBVIOUS
<1>2. a \in Seq(STRING) /\ Len(a) = f - 1 /\ \A x \in 1..f-1 : a[x] = ws[x]
    BY <1>1
<1>3. /\ c \in Seq(STRING) /\ Len(c) = t - 1 - f
      /\ \A x \in 1..t - 1 - f : c[x] = ws[f + x]
    BY <1>1
<1>4. w \in Seq(STRING) /\ Len(w) = t - 1 /\ \A x \in 1..t-1 : w[x] = ws[x]
    BY <1>1
<1> HIDE DEF a, c, w
<1>5. u \in Seq(STRING) /\ Len(u) = f /\ u[f] = "|" /\ \A x \in 1..f-1 : u[x] = ws[x]
    BY <1>1, <1>2
<1> HIDE DEF u
<1>6. /\ u \o c \in Seq(STRING) /\ Len(u \o c) = t - 1
      /\ \A x \in 1..t - 1 : (u \o c)[x] = IF x <= f THEN u[x] ELSE c[x - f]
    <2>1. u \in Seq(STRING) /\ c \in Seq(STRING)
        BY <1>3, <1>5
    <2>2. /\ u \o c \in Seq(STRING) /\ Len(u \o c) = Len(u) + Len(c)
          /\ \A x \in 1..Len(u) + Len(c) :
                (u \o c)[x] = IF x <= Len(u) THEN u[x] ELSE c[x - Len(u)]
        BY <2>1, ConcatProperties, ZenonT(30)
    <2>3. Len(u) = f /\ Len(u) + Len(c) = t - 1
        BY <1>1, <1>3, <1>5
    <2> QED BY <2>2, <2>3, Zenon
<1>7. ASSUME NEW x \in 1..t-1 PROVE w[x] = (u \o c)[x]
    <2>1. CASE x < f
        <3>1. x \in 1..f-1 /\ x <= f
            BY <1>1, <2>1
        <3> QED BY <1>4, <1>5, <1>6, <3>1
    <2>2. CASE x = f
        <3>1. x <= f
            BY <1>1, <2>2
        <3> QED BY <1>4, <1>5, <1>6, <2>2, <3>1
    <2>3. CASE x > f
        <3>1. x - f \in 1..t - 1 - f /\ f + (x - f) = x /\ ~(x <= f)
            BY <1>1, <2>3
        <3>2. c[x - f] = ws[x]
            BY <1>3, <3>1
        <3> QED BY <1>4, <1>6, <3>1, <3>2
    <2>4. x < f \/ x = f \/ x > f
        BY <1>1
    <2> QED BY <2>1, <2>2, <2>3, <2>4, Zenon
<1>8. w = u \o c
    BY <1>4, <1>6, <1>7, SeqEqual
<1> QED
    BY <1>8 DEF w, u, a, c

\* Cutting a line at its signs and joining the pieces with signs gives the line:
\* up to stage k the pieces are the line up to the cut behind that stage.
LEMMA RejoinedIsLine ==
    ASSUME NEW ws \in Seq(STRING)
    PROVE  Rejoined(Stages(ws)) = ws
<1> DEFINE bars == BarsOf(ws)
           L == Len(ws)
           st == Stages(ws)
<1>1. L \in Nat /\ DOMAIN ws = 1..L
    BY LenProperties
<1>2. bars \subseteq 1..L /\ bars \subseteq Nat /\ IsFiniteSet(bars)
      /\ \A j \in bars : ws[j] = "|"
    <2>1. IsFiniteSet(1..L)
        BY <1>1, FS_Interval
    <2>2. bars \in SUBSET (1..L) /\ \A j \in bars : ws[j] = "|"
        BY <1>1 DEF BarsOf
    <2> QED BY <1>1, <2>1, <2>2, FS_Subset
<1>3. PICK n \in Nat : n = Cardinality(bars)
    BY <1>2, FS_CardinalityType
<1>4. /\ Cuts(ws)[1] = 0 /\ Cuts(ws)[n + 2] = L + 1
      /\ \A m \in 1..n : Cuts(ws)[m + 1] \in bars /\ Rank(bars, Cuts(ws)[m + 1]) = m
      /\ DOMAIN st = 1..n+1 /\ Len(st) = n + 1
      /\ \A m \in 1..n+1 : st[m] = SubSeq(ws, Cuts(ws)[m] + 1, Cuts(ws)[m+1] - 1)
    BY <1>3, CutsAre
<1> HIDE DEF bars, L, st
<1> DEFINE c == Cuts(ws)
           P == [k \in 1..n+1 |-> SubSeq(ws, 1, c[k+1] - 1)]
<1>5. ASSUME NEW k \in 2..n+1
      PROVE  c[k] \in bars /\ c[k+1] \in 1..L+1 /\ c[k] < c[k+1]
    <2>1. k - 1 \in 1..n /\ (k - 1) + 1 = k
        OBVIOUS
    <2>2. c[k] \in bars /\ Rank(bars, c[k]) = k - 1
        BY <1>4, <2>1
    <2>3. CASE k = n + 1
        <3>1. c[k+1] = L + 1
            BY <1>4, <2>3
        <3>2. c[k] \in 1..L
            BY <1>2, <2>2
        <3> QED BY <1>1, <2>2, <3>1, <3>2
    <2>4. CASE k # n + 1
        <3>1. k \in 1..n
            BY <2>4
        <3>2. c[k+1] \in bars /\ Rank(bars, c[k+1]) = k
            BY <1>4, <3>1
        <3>3. PICK x \in bars, y \in bars : x = c[k] /\ y = c[k+1]
            BY <2>2, <3>2
        <3>4. x \in 1..L /\ y \in 1..L
            BY <1>2
        <3>5. x < y
            <4>1. SUFFICES ASSUME ~(x < y) PROVE FALSE
                OBVIOUS
            <4>2. x = y \/ y < x
                BY <1>1, <3>4, <4>1
            <4>3. x = y => k = k - 1
                BY <2>2, <3>2, <3>3
            <4>4. y < x => Rank(bars, y) < Rank(bars, x)
                BY <1>2, RankGrows
            <4>5. Rank(bars, y) = k /\ Rank(bars, x) = k - 1
                BY <2>2, <3>2, <3>3
            <4> QED BY <4>2, <4>3, <4>4, <4>5
        <3> QED BY <1>1, <2>2, <3>3, <3>4, <3>5
    <2> QED BY <2>3, <2>4
<1>6. P[1] = st[1]
    <2>1. 1 \in 1..n+1
        OBVIOUS
    <2>2. st[1] = SubSeq(ws, c[1] + 1, c[1+1] - 1)
        BY <1>4, <2>1
    <2>3. c[1] + 1 = 1
        BY <1>4
    <2> QED BY <2>1, <2>2, <2>3
<1>7. ASSUME NEW k \in 2..n+1
      PROVE  P[k] = P[k-1] \o <<"|">> \o st[k]
    <2>1. PICK f, t : f = c[k] /\ t = c[k+1]
        OBVIOUS
    <2>2. f \in 1..Len(ws) /\ t \in 1..Len(ws) + 1 /\ f < t /\ ws[f] = "|"
        BY <1>2, <1>5, <2>1 DEF L
    <2>3. k \in 1..n+1 /\ k - 1 \in 1..n+1 /\ (k - 1) + 1 = k
        OBVIOUS
    <2>4. P[k] = SubSeq(ws, 1, t - 1) /\ P[k-1] = SubSeq(ws, 1, f - 1)
        BY <2>1, <2>3
    <2>5. st[k] = SubSeq(ws, f + 1, t - 1)
        BY <1>4, <2>1, <2>3
    <2> HIDE DEF P
    <2> QED BY <2>2, <2>4, <2>5, OneMoreStage
<1> DEFINE G(g) == [k \in DOMAIN st |-> IF k = 1 THEN st[1] ELSE g[k-1] \o <<"|">> \o st[k]]
           upto == CHOOSE g : g = G(g)
<1>8. upto = G(upto)
    <2>1. P = G(P)
        <3>1. DOMAIN st = 1..n+1 /\ P = [k \in 1..n+1 |-> P[k]]
            BY <1>4
        <3>2. ASSUME NEW k \in 1..n+1
              PROVE  P[k] = IF k = 1 THEN st[1] ELSE P[k-1] \o <<"|">> \o st[k]
            <4>1. k = 1 \/ k \in 2..n+1
                OBVIOUS
            <4> HIDE DEF P
            <4> QED BY <1>6, <1>7, <4>1
        <3> HIDE DEF P
        <3> QED BY <3>1, <3>2
    <2> HIDE DEF G, P
    <2> QED BY <2>1
<1>9. Rejoined(st) = upto[n + 1]
    BY <1>4 DEF Rejoined
<1>10. \A k \in 1..n+1 : upto[k] = IF k = 1 THEN st[1] ELSE upto[k-1] \o <<"|">> \o st[k]
    <2> HIDE DEF upto
    <2> QED BY <1>4, <1>8
<1> HIDE DEF upto, P, G
<1>11. \A k \in 1..n+1 : upto[k] = P[k]
    <2> DEFINE T == {k \in 1..n+1 : upto[k] = P[k]}
    <2>1. 1 \in T
        BY <1>6, <1>10
    <2>2. ASSUME NEW k \in 1..n, k \in T PROVE k + 1 \in T
        <3>1. k + 1 \in 2..n+1 /\ k + 1 \in 1..n+1 /\ (k + 1) - 1 = k /\ k + 1 # 1
            OBVIOUS
        <3>2. upto[k+1] = upto[k] \o <<"|">> \o st[k+1]
            BY <1>10, <3>1
        <3>3. P[k+1] = P[k] \o <<"|">> \o st[k+1]
            BY <1>7, <3>1
        <3> QED BY <2>2, <3>1, <3>2, <3>3
    <2>3. n + 1 \in Nat /\ (n + 1) - 1 = n
        OBVIOUS
    <2> HIDE DEF T
    <2>4. \A k \in 1..n+1 : k \in T
        BY <2>1, <2>2, <2>3, Counting
    <2> QED BY <2>4 DEF T
<1>12. P[n + 1] = ws
    <2>1. n + 1 \in 1..n+1 /\ (n + 1) + 1 = n + 2
        OBVIOUS
    <2>2. c[n + 2] - 1 = L
        BY <1>1, <1>4
    <2>3. P[n + 1] = SubSeq(ws, 1, L)
        BY <2>1, <2>2 DEF P
    <2>4. SubSeq(ws, 1, Len(ws)) = ws
        BY SubSeqFull
    <2> QED BY <2>3, <2>4 DEF L
<1>13. n + 1 \in 1..n+1
    OBVIOUS
<1> QED
    BY <1>9, <1>11, <1>12, <1>13 DEF st

\* What create_piper makes of a line is the line again, the & included.
LEMMA LineOfPiper ==
    ASSUME NEW p \in Pipers
    PROVE  LineOf(p) \in Lines
<1>1. PICK words \in Lines : p = create_piper(words)
    BY DEF Pipers
<1>2. words \in Seq(STRING)
    BY JshAssumption
<1>3. /\ p.async = Async(words)
      /\ p.command_list = Stages(remove_ampercand(words))
    BY <1>1 DEF create_piper
<1>4. CASE ~Async(words)
    <2>1. Rejoined(p.command_list) = words
        BY <1>2, <1>3, <1>4, RejoinedIsLine DEF remove_ampercand
    <2>2. words \o <<>> = words
        BY <1>2, ConcatEmptySeq
    <2> QED BY <1>3, <1>4, <2>1, <2>2 DEF LineOf
<1>5. CASE Async(words)
    <2>1. words # <<>> /\ Len(words) \in Nat /\ Len(words) > 0 /\ words[Len(words)] = "&"
        BY <1>2, <1>5 DEF Async, Last
    <2>2. PICK ws : ws = SubSeq(words, 1, Len(words) - 1)
        OBVIOUS
    <2>3. ws \in Seq(STRING) /\ words = ws \o <<"&">>
        BY <1>2, <2>1, <2>2
    <2>4. Rejoined(p.command_list) = ws
        BY <1>3, <1>5, <2>2, <2>3, RejoinedIsLine DEF remove_ampercand, Front
    <2> QED BY <1>3, <1>5, <2>3, <2>4 DEF LineOf
<1> QED
    BY <1>4, <1>5

\* create_piper cuts a line at every | it has: no word of a stage is one.
THEOREM StagesHaveNoBarHolds == Spec => []StagesHaveNoBar
<1>1. ASSUME NEW p \in Pipers, NEW k \in DOMAIN p.command_list
      PROVE  "|" \notin ToSet(p.command_list[k])
    <2>1. PICK ws \in Seq(STRING) : p.command_list = Stages(ws)
        BY PiperOfWords
    <2> QED BY <1>1, <2>1, StageHasNoBar
<1>2. ASSUME NEW k \in DOMAIN NoLine.command_list
      PROVE  "|" \notin ToSet(NoLine.command_list[k])
    BY DEF NoLine
<1>3. IInv => StagesHaveNoBar
    <2> SUFFICES ASSUME IInv, NEW s \in Shell, NEW k \in DOMAIN piper[s].command_list
                 PROVE  "|" \notin ToSet(piper[s].command_list[k])
        BY DEF StagesHaveNoBar
    <2>1. piper[s] \in Pipers \cup {NoLine}
        BY DEF IInv, ShellInv, ShellTyped
    <2> QED BY <1>1, <1>2, <2>1
<1> QED
    BY <1>3, Invariant, PTL

\* Whatever a shell runs is a line the user typed: create_piper loses no word of
\* it, invents none and keeps their order, whatever its | and & signs.
THEOREM LineKeptHolds == Spec => []LineKept
<1>1. IInv /\ StagesHaveNoBar => LineKept
    <2> SUFFICES ASSUME IInv, StagesHaveNoBar, NEW s \in Shell, piper[s] # NoLine
                 PROVE  LineOf(piper[s]) \in Lines
        BY DEF LineKept
    <2>1. piper[s] \in Pipers
        BY DEF IInv, ShellInv, ShellTyped
    <2> QED BY <2>1, LineOfPiper
<1> QED
    BY <1>1, Invariant, StagesHaveNoBarHolds, PTL
(***************************************************************************)
(* What a line delivers.                                                   *)
(***************************************************************************)

\* What is defined step by step exists: G has a function for each of n steps.
Steps(G, n, S) == G \in [1..n -> [S -> S]]
Follows(f, base, G, n, S) ==
    /\ f \in [0..n -> S]
    /\ f[0] = base /\ \A k \in 1..n : f[k] = G[k][f[k - 1]]

LEMMA StepByStep ==
    ASSUME NEW S, NEW n \in Nat, NEW base \in S, NEW G, Steps(G, n, S)
    PROVE  \E f : Follows(f, base, G, n, S)
<1> USE DEF Steps, Follows
<1> DEFINE Upto(m, f) == f[0] = base /\ \A k \in 1..m : f[k] = G[k][f[k - 1]]
           T == {m \in 0..n : \E f \in [0..m -> S] : Upto(m, f)}
<1>1. 0 \in T
    <2> DEFINE f == [k \in 0..0 |-> base]
    <2>1. f \in [0..0 -> S] /\ Upto(0, f)
        OBVIOUS
    <2>2. 0 \in 0..n
        OBVIOUS
    <2> HIDE DEF f
    <2> QED BY <2>1, <2>2
<1>2. ASSUME NEW m \in 0..(n - 1), m \in T PROVE m + 1 \in T
    <2>1. PICK f \in [0..m -> S] : Upto(m, f)
        BY <1>2
    <2>2. m + 1 \in 1..n /\ m \in 0..m /\ (m + 1) - 1 = m
        OBVIOUS
    <2>3. G[m + 1][f[m]] \in S
        BY <2>1, <2>2
    <2> DEFINE g == [k \in 0..(m + 1) |-> IF k = m + 1 THEN G[m + 1][f[m]] ELSE f[k]]
    <2>4. g \in [0..(m + 1) -> S]
        BY <2>1, <2>3
    <2>5. Upto(m + 1, g)
        <3>1. g[0] = base
            BY <2>1
        <3>2. ASSUME NEW k \in 1..(m + 1) PROVE g[k] = G[k][g[k - 1]]
            <4>1. k - 1 \in 0..m /\ g[k - 1] = f[k - 1]
                OBVIOUS
            <4>2. CASE k = m + 1
                BY <2>2, <4>1, <4>2
            <4>3. CASE k # m + 1
                <5>1. k \in 1..m /\ g[k] = f[k]
                    BY <4>3
                <5> QED BY <2>1, <4>1, <5>1
            <4> QED BY <4>2, <4>3
        <3> QED BY <3>1, <3>2
    <2>6. m + 1 \in 0..n
        OBVIOUS
    <2> HIDE DEF g
    <2> QED BY <2>4, <2>5, <2>6
<1> HIDE DEF T
<1>3. \A k \in 0..n : k \in T
    BY <1>1, <1>2, Counting
<1> QED
    BY <1>3 DEF T

LEMMA WritesTyped ==
    ASSUME NEW com, NEW k \in Nat, NEW read \in Seq(Nat)
    PROVE  Writes(com, k, read) \in Seq(Nat)
<1>1. PICK m \in Nat : m = Own(com)
    BY OwnIsNat
<1>2. [j \in 1..m |-> k] \in Seq(Nat)
    OBVIOUS
<1>3. <<>> \in Seq(Nat)
    OBVIOUS
<1> QED
    BY <1>1, <1>2, <1>3 DEF Writes

\* The units of a line are defined: what each stage writes follows from what the
\* stage before it wrote.
LEMMA UnitsAre ==
    ASSUME NEW p, Len(p.command_list) \in Nat
    PROVE  /\ Units(p)[0] = <<>>
           /\ \A k \in 1..Len(p.command_list) :
                 /\ Units(p)[k] = Writes(Command(p, k), k, Units(p)[k-1])
                 /\ Units(p)[k] \in Seq(Nat)
<1> DEFINE n == Len(p.command_list)
           S == Seq(Nat)
           G == [k \in 1..n |-> [u \in S |-> Writes(Command(p, k), k, u)]]
           H(g) == [k \in 0..n |-> IF k = 0 THEN <<>> ELSE Writes(Command(p, k), k, g[k-1])]
           units == CHOOSE g : g = H(g)
<1>1. <<>> \in S /\ n \in Nat
    OBVIOUS
<1>2. Steps(G, n, S)
    <2>1. ASSUME NEW k \in 1..n, NEW u \in S PROVE Writes(Command(p, k), k, u) \in S
        <3>1. k \in Nat
            OBVIOUS
        <3> HIDE DEF n
        <3> QED BY <3>1, WritesTyped
    <2> HIDE DEF n, S
    <2> QED BY <2>1 DEF Steps
<1>3. PICK f : Follows(f, <<>>, G, n, S)
    <2> HIDE DEF n, S, G
    <2> QED BY <1>1, <1>2, StepByStep
<1>4. f \in [0..n -> S] /\ f[0] = <<>>
    BY <1>3 DEF Follows
<1>5. ASSUME NEW k \in 1..n PROVE f[k] = Writes(Command(p, k), k, f[k-1])
    <2>1. f[k] = G[k][f[k-1]]
        BY <1>3 DEF Follows
    <2>2. k - 1 \in 0..n
        OBVIOUS
    <2>3. f[k-1] \in S
        BY <1>4, <2>2
    <2> HIDE DEF n, S
    <2> QED BY <2>1, <2>3
<1>6. f = H(f)
    <2>1. f = [k \in 0..n |-> f[k]]
        BY <1>4
    <2>2. ASSUME NEW k \in 0..n
          PROVE  f[k] = IF k = 0 THEN <<>> ELSE Writes(Command(p, k), k, f[k-1])
        <3>1. k = 0 \/ k \in 1..n
            OBVIOUS
        <3> HIDE DEF n
        <3> QED BY <1>4, <1>5, <3>1
    <2> HIDE DEF n
    <2> QED BY <2>1, <2>2
<1>7. units = H(units)
    <2> HIDE DEF H
    <2> QED BY <1>6
<1>8. Units(p) = units
    BY DEF Units
<1> HIDE DEF units
<1>9. units[0] = <<>> /\ \A k \in 1..n : units[k] = Writes(Command(p, k), k, units[k-1])
    BY <1>7
<1> HIDE DEF G, H, n
<1>10. \A k \in 0..n : units[k] \in S
    <2> DEFINE T == {k \in 0..n : units[k] \in S}
    <2>1. 0 \in T
        <3>1. 0 \in 0..n
            BY <1>1
        <3>2. units[0] \in S
            BY <1>1, <1>9
        <3> QED BY <3>1, <3>2
    <2>2. ASSUME NEW k \in 0..n-1, k \in T PROVE k + 1 \in T
        <3>1. k + 1 \in 1..n /\ k + 1 \in 0..n /\ (k + 1) - 1 = k /\ k + 1 \in Nat
            BY <1>1
        <3>2. units[k+1] = Writes(Command(p, k+1), k+1, units[k])
            BY <1>9, <3>1
        <3>3. Writes(Command(p, k+1), k+1, units[k]) \in S
            BY <2>2, <3>1, WritesTyped
        <3> QED BY <3>1, <3>2, <3>3
    <2> HIDE DEF T
    <2>3. \A k \in 0..n : k \in T
        BY <1>1, <2>1, <2>2, Counting
    <2> QED BY <2>3 DEF T
<1> QED
    <2>1. ASSUME NEW k \in 1..n PROVE units[k] \in S
        <3>1. k \in 0..n
            BY <1>1
        <3> QED BY <1>10, <3>1
    <2> QED BY <1>8, <1>9, <2>1 DEF n
\* A pipe shell s opened, or none.
OwnPipe(q, s) == q = NoPipe \/ (q \in Pipe /\ q[1] = s)

\* A shell waits exactly while it has a child, and both work on pipes of its own.
Mine(s) ==
    /\ pc[s] = "wait" <=> kid[s].state # "none"
    /\ Running(s) => \A d \in Held(s) : d \in Fd => OwnPipe(fds[s][d].pipe, s)
    /\ kid[s].state # "none" => OwnPipe(kid[s].src, s) /\ OwnPipe(kid[s].dst, s)

Com(s) == Command(piper[s], i[s])
Upstream(s) == Units(piper[s])[i[s] - 1]   \* what the stage before has written

\* The pipe a stage reads and the one it writes, and what is in them.
InPipe(s) == fds[s][in[s]].pipe
OutPipe(s) == fds[s][currpipe[s][1]].pipe
Rest(s) == IF First(s) THEN <<>> ELSE pipe[InPipe(s)]
Written(s) == IF Final(s) THEN out[s] ELSE pipe[OutPipe(s)]

\* What the running stage has still to write.
ToCome(s) ==
    IF Own(Com(s)) > 0 THEN [j \in 1..kid[s].left |-> i[s]]
    ELSE IF Copies(Com(s)) /\ Com(s).inpipe = NoFile THEN Rest(s)
    ELSE <<>>

\* A stage reads one pipe of the shell and writes another.
Joined(s) ==
    /\ OutPipe(s) \in Pipe
    /\ ~First(s) => InPipe(s) \in Pipe /\ InPipe(s) # OutPipe(s)
    /\ ~Final(s) => out[s] = <<>>

\* Before a stage starts it has all of its input and no output.
Begins(s) == out[s] = <<>> /\ pipe[OutPipe(s)] = <<>> /\ Rest(s) = Upstream(s)

\* The child of a shell is the stage the shell is at; what it has written and what
\* it has still to write is what the stage writes.
Goes(s) ==
    /\ kid[s].stage = i[s] /\ kid[s].copies = Copies(Com(s))
    /\ kid[s].src = (IF First(s) THEN NoPipe ELSE InPipe(s))
    /\ kid[s].dst = (IF Final(s) THEN NoPipe ELSE OutPipe(s))
    /\ kid[s].left > 0 => Own(Com(s)) > 0
    /\ Written(s) \o ToCome(s) = Units(piper[s])[i[s]]
    /\ kid[s].state = "zombie" => ToCome(s) = <<>>

\* A line all of whose stages so far were started, and one that ran to its end.
Flow(s) ==
    Running(s) /\ whole[s] = "no" =>
        Joined(s) /\ (pc[s] = "stage" => Begins(s)) /\ (pc[s] = "wait" => Goes(s))
Done(s) == whole[s] = "yes" => ~Busy(s) /\ out[s] = Delivered(piper[s])

FlowInv ==
    /\ out \in [Shell -> Seq(Nat)]
    /\ \A s \in Shell : Mine(s) /\ Flow(s) /\ Done(s)

\* A step that touches nothing of shell t: none of its variables, of its child or
\* of its pipes.
Apart(t) ==
    /\ Untouched(t) /\ whole'[t] = whole[t] /\ out'[t] = out[t] /\ kid'[t] = kid[t]
    /\ \A q \in Pipe : q[1] = t => pipe'[q] = pipe[q]

LEMMA ApartKept ==
    ASSUME ShellInv, NEW t \in Shell, Apart(t), Mine(t), Flow(t), Done(t)
    PROVE  Mine(t)' /\ Flow(t)' /\ Done(t)'
<1>1. /\ pc'[t] = pc[t] /\ piper'[t] = piper[t] /\ i'[t] = i[t] /\ in'[t] = in[t]
      /\ currpipe'[t] = currpipe[t] /\ fds'[t] = fds[t] /\ whole'[t] = whole[t]
      /\ out'[t] = out[t] /\ kid'[t] = kid[t]
    BY DEF Apart, Untouched
<1>2. /\ (Running(t)' <=> Running(t)) /\ (Busy(t)' <=> Busy(t)) /\ Held(t)' = Held(t)
      /\ (First(t)' <=> First(t)) /\ (Final(t)' <=> Final(t))
    BY <1>1 DEF Running, Busy, Held, First, Final
<1>3. Mine(t)'
    BY <1>1, <1>2 DEF Mine
<1>4. Done(t)'
    BY <1>1, <1>2 DEF Done
<1>5. ASSUME Running(t), whole[t] = "no"
      PROVE  Joined(t)' /\ (pc'[t] = "stage" => Begins(t)') /\ (pc'[t] = "wait" => Goes(t)')
    <2>1. AtStage(t) /\ Joined(t) /\ (pc[t] = "stage" => Begins(t)) /\ (pc[t] = "wait" => Goes(t))
        BY <1>5 DEF ShellInv, Flow
    <2>2. InPipe(t)' = InPipe(t) /\ OutPipe(t)' = OutPipe(t)
        BY <1>1 DEF InPipe, OutPipe
    <2>3. /\ currpipe[t][1] \in Held(t) /\ currpipe[t][1] \in Fd
          /\ ~First(t) => in[t] \in Held(t) /\ in[t] \in Fd
        BY <1>5, <2>1 DEF AtStage, Held
    <2>4. OwnPipe(OutPipe(t), t) /\ (~First(t) => OwnPipe(InPipe(t), t))
        BY <1>5, <2>3 DEF Mine, OutPipe, InPipe
    <2>5. pipe'[OutPipe(t)] = pipe[OutPipe(t)] /\ (~First(t) => pipe'[InPipe(t)] = pipe[InPipe(t)])
        BY <2>1, <2>4, EndsTyped DEF Joined, OwnPipe, Apart
    <2>6. Rest(t)' = Rest(t) /\ Written(t)' = Written(t) /\ Com(t)' = Com(t)
          /\ Upstream(t)' = Upstream(t)
        BY <1>1, <1>2, <2>2, <2>5 DEF Rest, Written, Com, Upstream
    <2>7. ToCome(t)' = ToCome(t)
        BY <1>1, <2>6 DEF ToCome
    <2>8. Joined(t)'
        BY <1>1, <1>2, <2>1, <2>2 DEF Joined
    <2>9. pc[t] = "stage" => Begins(t)'
        BY <1>1, <2>1, <2>2, <2>5, <2>6 DEF Begins
    <2>10. pc[t] = "wait" => Goes(t)'
        BY <1>1, <1>2, <2>1, <2>2, <2>6, <2>7 DEF Goes
    <2> QED BY <1>1, <2>8, <2>9, <2>10
<1>6. Flow(t)'
    BY <1>1, <1>2, <1>5 DEF Flow
<1> QED
    BY <1>3, <1>4, <1>6

\* It is enough to look at the shell that makes the step.
LEMMA OneMoves ==
    ASSUME ShellInv, FlowInv, NEW s \in Shell, out' \in [Shell -> Seq(Nat)],
           \A t \in Shell \ {s} : Apart(t), Mine(s)', Flow(s)', Done(s)'
    PROVE  FlowInv'
<1>1. ASSUME NEW t \in Shell PROVE Mine(t)' /\ Flow(t)' /\ Done(t)'
    <2>1. CASE t = s
        BY <2>1
    <2>2. CASE t # s
        BY <2>2, ApartKept DEF FlowInv
    <2> QED BY <2>1, <2>2
<1> QED
    BY <1>1 DEF FlowInv

\* A shell that is at no stage, without a child, has nothing to keep but what its
\* last line delivered.
LEMMA RestingFlow ==
    ASSUME NEW s \in Shell, pc'[s] \notin {"stage", "wait"}, kid'[s].state = "none",
           whole'[s] = "yes" => pc'[s] # "open" /\ out'[s] = Delivered(piper'[s])
    PROVE  Mine(s)' /\ Flow(s)' /\ Done(s)'
BY DEF Mine, Flow, Done, Running, Busy
\* A shell that opens a pipe q nobody has for its next stage, which will read what
\* the stage before it wrote if all stages were started.
OpensFor(s, rest, q, k, input) ==
    /\ rest \in [Fd -> EndType] /\ CanPipe(rest) /\ q \in Pipe /\ q[1] = s
    /\ pc'[s] = "stage" /\ kid'[s].state = "none" /\ piper'[s] = piper[s]
    /\ fds'[s] = WithPipe(rest, q) /\ currpipe'[s] = PipeFds(rest)
    /\ i'[s] = k /\ in'[s] = input /\ whole'[s] # "yes"
    /\ pipe' = [pipe EXCEPT ![q] = <<>>]
    /\ k # 1 => input \in Fd /\ OwnPipe(rest[input].pipe, s)

ReadsOn(s, rest, q, k, input) ==
    /\ out'[s] = <<>>
    /\ k = 1 => Units(piper[s])[k-1] = <<>>
    /\ k # 1 => /\ rest[input].pipe \in Pipe \ {q}
                /\ pipe[rest[input].pipe] = Units(piper[s])[k-1]

LEMMA OpensFlow ==
    ASSUME PipeTyped, NEW s \in Shell, NEW rest, NEW q, NEW k, NEW input,
           OpensFor(s, rest, q, k, input),
           whole'[s] = "no" => ReadsOn(s, rest, q, k, input)
    PROVE  Mine(s)' /\ Flow(s)' /\ Done(s)'
<1> USE DEF OpensFor
<1>1. PICK r \in Fd, w \in Fd :
          /\ PipeFds(rest)[1] = r /\ PipeFds(rest)[2] = w
          /\ fds'[s][r] = ReadEnd(q) /\ fds'[s][w] = WriteEnd(q)
          /\ rest[r] = NoEnd /\ rest[w] = NoEnd
          /\ \A d \in Fd \ {r, w} : fds'[s][d] = rest[d]
    <2>1. PICK r \in Fd, w \in Fd : PipeFds(rest)[1] = r /\ PipeFds(rest)[2] = w
        BY PipeFdsAreFree
    <2> QED BY <2>1, WithPipeFills
<1>2. currpipe'[s][1] = r /\ currpipe'[s][2] = w
    BY <1>1
<1>3. fds'[s][r].pipe = q /\ fds'[s][w].pipe = q
    BY <1>1, EndsTyped
<1>4. Held(s)' = {r, w} \cup (IF k = 1 THEN {} ELSE {input})
    BY <1>2 DEF Held, First
<1>5. ASSUME NEW d \in Fd, d \in Held(s)' PROVE OwnPipe(fds'[s][d].pipe, s)
    <2>1. CASE d \in {r, w}
        BY <1>3, <2>1 DEF OwnPipe
    <2>2. CASE d \notin {r, w}
        <3>1. k # 1 /\ d = input
            BY <1>4, <1>5, <2>2
        <3> QED BY <1>1, <2>2, <3>1
    <2> QED BY <2>1, <2>2
<1>6. Mine(s)'
    BY <1>5 DEF Mine
<1>7. Done(s)'
    BY DEF Done
<1>8. ASSUME whole'[s] = "no" PROVE Joined(s)' /\ Begins(s)'
    <2>1. ReadsOn(s, rest, q, k, input)
        BY <1>8
    <2>2. OutPipe(s)' = q /\ pipe'[q] = <<>>
        BY <1>2, <1>3 DEF OutPipe, PipeTyped
    <2>3. First(s)' <=> k = 1
        BY DEF First
    <2>4. ASSUME k # 1
          PROVE  /\ InPipe(s)' \in Pipe /\ InPipe(s)' # q
                 /\ pipe'[InPipe(s)'] = Units(piper[s])[k-1]
        <3>1. input \in Fd /\ rest[input].pipe \in Pipe \ {q}
              /\ pipe[rest[input].pipe] = Units(piper[s])[k-1]
            BY <2>1, <2>4 DEF ReadsOn
        <3>2. input \notin {r, w}
            BY <1>1, <3>1, EndsTyped DEF NoEnd
        <3>3. InPipe(s)' = rest[input].pipe
            BY <1>1, <3>1, <3>2 DEF InPipe
        <3>4. pipe'[rest[input].pipe] = pipe[rest[input].pipe]
            BY <3>1 DEF PipeTyped
        <3> QED BY <3>1, <3>3, <3>4
    <2>5. Upstream(s)' = Units(piper[s])[k-1]
        BY DEF Upstream
    <2>6. Rest(s)' = Upstream(s)'
        <3>1. CASE k = 1
            BY <2>1, <2>3, <2>5, <3>1 DEF Rest, ReadsOn
        <3>2. CASE k # 1
            BY <2>3, <2>4, <2>5, <3>2 DEF Rest
        <3> QED BY <3>1, <3>2
    <2>7. out'[s] = <<>>
        BY <2>1 DEF ReadsOn
    <2>8. Joined(s)'
        BY <2>2, <2>3, <2>4, <2>7 DEF Joined
    <2>9. Begins(s)'
        BY <2>2, <2>6, <2>7 DEF Begins
    <2> QED BY <2>8, <2>9
<1>9. Flow(s)'
    BY <1>8 DEF Flow
<1> QED
    BY <1>6, <1>7, <1>9

\* A shell that returns: every other shell is left as it was.
LEMMA ReturnFlow ==
    ASSUME IInv, FlowInv, NEW s \in Shell, NEW table, NEW how, NEW exits,
           Return(s, table, how, exits), UNCHANGED pipe,
           kid'[s].state = "none", \A t \in Shell \ {s} : kid'[t] = kid[t],
           how = "yes" => out[s] = Delivered(piper[s])
    PROVE  FlowInv'
<1>0. ShellInv /\ ShellTyped /\ out \in [Shell -> Seq(Nat)]
    BY DEF IInv, ShellInv, FlowInv
<1>1. PICK v, left : /\ pc' = [pc EXCEPT ![s] = v] /\ fds' = [fds EXCEPT ![s] = left]
                     /\ v \notin {"stage", "wait", "open"}
    <2>1. PICK v : v = IF s # Main THEN "zombie" ELSE IF exits THEN "exited" ELSE "prompt"
        OBVIOUS
    <2>2. PICK left : left = IF s # Main \/ exits THEN NoFds ELSE table
        OBVIOUS
    <2>3. pc' = [pc EXCEPT ![s] = v] /\ fds' = [fds EXCEPT ![s] = left]
        BY <2>1, <2>2 DEF Return
    <2>4. v \notin {"stage", "wait", "open"}
        BY <2>1
    <2> QED BY <2>3, <2>4
<1>2. /\ whole' = [whole EXCEPT ![s] = how] /\ i' = [i EXCEPT ![s] = 0]
      /\ in' = [in EXCEPT ![s] = 0] /\ currpipe' = [currpipe EXCEPT ![s] = <<0, 0>>]
    BY DEF Return
<1>3. /\ \A t \in Shell \ {s} : piper'[t] = piper[t] /\ out'[t] = out[t] /\ before'[t] = before[t]
      /\ how = "yes" => piper' = piper /\ out' = out
      /\ out' \in [Shell -> Seq(Nat)]
    <2>1. CASE how = "yes"
        BY <1>0, <2>1 DEF Return
    <2>2. CASE how # "yes"
        <3>1. <<>> \in Seq(Nat)
            OBVIOUS
        <3>2. /\ piper' = [piper EXCEPT ![s] = NoLine] /\ out' = [out EXCEPT ![s] = <<>>]
              /\ before' = [before EXCEPT ![s] = NoFds]
            BY <2>2 DEF Return, Forget
        <3> QED BY <1>0, <2>2, <3>1, <3>2 DEF ShellTyped
    <2> QED BY <2>1, <2>2
<1>4. ASSUME NEW t \in Shell \ {s} PROVE Apart(t)
    <2>1. Untouched(t) /\ whole'[t] = whole[t]
        BY <1>0, <1>1, <1>2, <1>3 DEF Untouched, ShellTyped
    <2> QED BY <1>3, <2>1 DEF Apart
<1>5. pc'[s] = v /\ whole'[s] = how
    BY <1>0, <1>1, <1>2 DEF ShellTyped
<1>6. Mine(s)' /\ Flow(s)' /\ Done(s)'
    BY <1>1, <1>3, <1>5, RestingFlow
<1> QED
    BY <1>0, <1>3, <1>4, <1>6, OneMoves
\* A shell that is done with a stage: if all stages so far were started, what the
\* stage wrote is what the next one finds, or what the line has delivered.
LEMMA AdvanceFlow ==
    ASSUME IInv, FlowInv, NEW s \in Shell, Running(s), NEW table \in [Fd -> EndType],
           NEW how \in {"no", "short", "cut"}, Advance(s, table, how),
           \A d \in Fd : table[d] = fds[s][d] \/ (d \in Held(s) /\ table[d] = NoEnd),
           kid'[s].state = "none", \A t \in Shell \ {s} : kid'[t] = kid[t],
           how = "no" => /\ table = fds[s] /\ Joined(s)
                         /\ Written(s) = Units(piper[s])[i[s]]
    PROVE  FlowInv'
<1> DEFINE rest == Close(table, UnusedAfter(s))
           c1 == currpipe[s][1]
<1>0. ShellInv /\ ShellTyped /\ PipeTyped /\ AtStage(s) /\ Mine(s) /\ Busy(s)
      /\ out \in [Shell -> Seq(Nat)]
    BY DEF IInv, ShellInv, FlowInv, Running, Busy
<1>1. CASE Final(s)
    <2> DEFINE done == Close(table, {InFd(s), currpipe[s][1], currpipe[s][2]})
               end == IF how = "no" THEN "yes" ELSE "cut"
    <2>1. Return(s, done, end, FALSE) /\ UNCHANGED pipe
        BY <1>1 DEF Advance
    <2>2. how = "no" => out[s] = Delivered(piper[s])
        BY <1>1 DEF Written, Delivered, Final
    <2>3. end = "yes" => out[s] = Delivered(piper[s])
        BY <2>2
    <2> HIDE DEF done, end
    <2> QED BY <2>1, <2>3, ReturnFlow
<1>2. CASE ~Final(s) /\ ~CanPipe(rest)
    <2>1. Return(s, rest, "cut", FALSE) /\ UNCHANGED pipe
        BY <1>2 DEF Advance
    <2> HIDE DEF rest
    <2> QED BY <2>1, ReturnFlow
<1>3. CASE ~Final(s) /\ CanPipe(rest)
    <2>1. /\ fds' = [fds EXCEPT ![s] = WithPipe(rest, NewPipe(s))]
          /\ pipe' = [pipe EXCEPT ![NewPipe(s)] = <<>>]
          /\ currpipe' = [currpipe EXCEPT ![s] = PipeFds(rest)]
          /\ in' = [in EXCEPT ![s] = c1] /\ i' = [i EXCEPT ![s] = @ + 1]
          /\ pc' = [pc EXCEPT ![s] = "stage"] /\ whole' = [whole EXCEPT ![s] = how]
          /\ piper' = piper /\ out' = out /\ before' = before
        BY <1>3 DEF Advance
    <2>2. /\ c1 \in Fd /\ currpipe[s][2] \in Fd /\ c1 # currpipe[s][2] /\ c1 \in Held(s)
          /\ fds[s][c1].pipe = fds[s][currpipe[s][2]].pipe /\ OwnPipe(fds[s][c1].pipe, s)
        <3>1. c1 \in Fd /\ currpipe[s][2] \in Fd /\ c1 # currpipe[s][2] /\ c1 \in Held(s)
              /\ fds[s][c1].pipe = fds[s][currpipe[s][2]].pipe
            BY <1>0 DEF AtStage, Held
        <3> HIDE DEF c1
        <3> QED BY <1>0, <3>1 DEF Mine
    <2>3. PICK q : q = NewPipe(s)
        OBVIOUS
    <2>4. q \in Pipe /\ q[1] = s /\ \A t \in Shell, d \in Fd : fds[t][d].pipe # q
        <3>1. s = Main => Alive
            BY <1>0 DEF Alive, Busy
        <3> HIDE DEF c1
        <3> QED BY <1>0, <2>2, <2>3, <3>1, NewPipeIsNew
    <2>5. PICK k : k = i[s] + 1
        OBVIOUS
    <2>6. i[s] \in Nat /\ k # 1 /\ k - 1 = i[s]
        <3>1. i[s] \in 1..Len(piper[s].command_list) /\ piper[s] \in Pipers
            BY <1>0 DEF AtStage
        <3>2. PICK n \in Nat : n = Len(piper[s].command_list)
            BY <3>1, StagesOfPiper
        <3> QED BY <2>5, <3>1, <3>2
    <2>7. /\ rest \in [Fd -> EndType]
          /\ \A d \in Fd : rest[d] = IF d \in UnusedAfter(s) THEN NoEnd ELSE table[d]
        BY CloseTyped
    <2>8. OwnPipe(rest[c1].pipe, s)
        <3>1. rest[c1] = NoEnd \/ rest[c1] = fds[s][c1]
            BY <2>2, <2>7
        <3> QED BY <2>2, <3>1 DEF OwnPipe, NoEnd
    <2> HIDE DEF rest
    <2>9. OpensFor(s, rest, q, k, c1)
        BY <1>0, <1>3, <2>1, <2>2, <2>3, <2>4, <2>5, <2>6, <2>7, <2>8 DEF OpensFor, ShellTyped
    <2>10. ASSUME whole'[s] = "no" PROVE ReadsOn(s, rest, q, k, c1)
        <3>1. how = "no"
            BY <1>0, <2>1, <2>10 DEF ShellTyped
        <3>2. table = fds[s] /\ Joined(s) /\ Written(s) = Units(piper[s])[i[s]]
            BY <3>1
        <3>3. OutPipe(s) = fds[s][c1].pipe /\ OutPipe(s) \in Pipe /\ OutPipe(s) # q
            BY <2>2, <2>4, <3>2 DEF OutPipe, Joined
        <3>4. c1 \notin UnusedAfter(s)
            BY <2>2, <3>2 DEF UnusedAfter, Joined, InPipe, OutPipe
        <3>5. rest[c1].pipe = OutPipe(s)
            BY <2>2, <2>7, <3>2, <3>3, <3>4
        <3>6. out'[s] = <<>> /\ pipe[OutPipe(s)] = Units(piper[s])[k-1]
            BY <1>3, <2>1, <2>6, <3>2 DEF Joined, Written
        <3> QED BY <2>6, <3>3, <3>5, <3>6 DEF ReadsOn
    <2>11. Mine(s)' /\ Flow(s)' /\ Done(s)'
        BY <1>0, <2>9, <2>10, OpensFlow
    <2>12. ASSUME NEW t \in Shell \ {s} PROVE Apart(t)
        <3>1. Untouched(t) /\ whole'[t] = whole[t] /\ out'[t] = out[t] /\ kid'[t] = kid[t]
            BY <1>0, <2>1 DEF Untouched, ShellTyped
        <3>2. \A p \in Pipe : p[1] = t => pipe'[p] = pipe[p]
            BY <1>0, <2>1, <2>3, <2>4 DEF PipeTyped
        <3> QED BY <3>1, <3>2 DEF Apart
    <2> QED BY <1>0, <2>1, <2>11, <2>12, OneMoves
<1> QED
    BY <1>1, <1>2, <1>3

LEMMA OpenPipeFlow ==
    ASSUME IInv, FlowInv, NEW s \in Shell, OpenPipe(s)
    PROVE  FlowInv'
<1>0. ShellInv /\ ShellTyped /\ PipeTyped /\ AtStage(s) /\ Mine(s) /\ Done(s)
      /\ Busy(s) /\ out \in [Shell -> Seq(Nat)] /\ <<>> \in Seq(Nat)
    BY DEF IInv, ShellInv, FlowInv, OpenPipe, Busy
<1>1. PICK table, q : table = fds[s] /\ q = NewPipe(s)
    OBVIOUS
<1>2. table \in [Fd -> EndType] /\ CanPipe(table)
    BY <1>0, <1>1 DEF ShellTyped, OpenPipe
<1>3. q \in Pipe /\ q[1] = s
    <2>1. s = Main => Alive
        BY DEF Alive, OpenPipe
    <2>2. PICK r \in Fd, w \in Fd : r # w /\ table[r] = NoEnd /\ table[w] = NoEnd
        BY <1>2, PipeFdsAreFree DEF FreeFds
    <2> QED BY <1>0, <1>1, <2>1, <2>2, NewPipeIsNew
<1>4. /\ pc' = [pc EXCEPT ![s] = "stage"] /\ fds' = [fds EXCEPT ![s] = WithPipe(table, q)]
      /\ currpipe' = [currpipe EXCEPT ![s] = PipeFds(table)]
      /\ in' = [in EXCEPT ![s] = 0] /\ i' = [i EXCEPT ![s] = 1]
      /\ before' = [before EXCEPT ![s] = table] /\ out' = [out EXCEPT ![s] = <<>>]
      /\ pipe' = [pipe EXCEPT ![q] = <<>>] /\ piper' = piper /\ kid' = kid /\ whole' = whole
    BY <1>0, <1>1 DEF OpenPipe, ShellTyped
<1>5. kid[s].state = "none" /\ whole[s] # "yes"
    BY <1>0 DEF Mine, Done, OpenPipe
<1>6. OpensFor(s, table, q, 1, 0)
    BY <1>0, <1>2, <1>3, <1>4, <1>5 DEF OpensFor, ShellTyped
<1>7. ReadsOn(s, table, q, 1, 0)
    <2>1. piper[s] \in Pipers
        BY <1>0 DEF AtStage
    <2>2. Len(piper[s].command_list) \in Nat
        BY <2>1, StagesOfPiper
    <2>3. Units(piper[s])[0] = <<>> /\ 1 - 1 = 0
        BY <2>2, UnitsAre
    <2> QED BY <1>0, <1>4, <2>3 DEF ReadsOn
<1>8. Mine(s)' /\ Flow(s)' /\ Done(s)'
    BY <1>0, <1>6, <1>7, OpensFlow
<1>9. ASSUME NEW t \in Shell \ {s} PROVE Apart(t)
    <2>1. Untouched(t) /\ whole'[t] = whole[t] /\ out'[t] = out[t] /\ kid'[t] = kid[t]
        BY <1>0, <1>4 DEF Untouched, ShellTyped
    <2>2. \A p \in Pipe : p[1] = t => pipe'[p] = pipe[p]
        BY <1>0, <1>3, <1>4 DEF PipeTyped
    <2> QED BY <2>1, <2>2 DEF Apart
<1>10. out' \in [Shell -> Seq(Nat)]
    BY <1>0, <1>4
<1> QED
    BY <1>0, <1>8, <1>9, <1>10, OneMoves
LEMMA OpenPipeFailsFlow ==
    ASSUME IInv, FlowInv, NEW s \in Shell, OpenPipeFails(s) \/ BuiltIn(s)
    PROVE  FlowInv'
<1>1. kid[s].state = "none"
    BY DEF FlowInv, Mine, OpenPipeFails, BuiltIn
<1>2. PICK exits : Return(s, fds[s], "cut", exits)
    BY DEF OpenPipeFails, BuiltIn
<1>3. kid' = kid /\ UNCHANGED pipe
    BY DEF OpenPipeFails, BuiltIn
<1> QED
    BY <1>1, <1>2, <1>3, ReturnFlow

LEMMA CrashFlow ==
    ASSUME IInv, FlowInv, NEW s \in Shell, Crash(s)
    PROVE  FlowInv'
<1>0. ShellInv /\ ShellTyped /\ Mine(s) /\ out \in [Shell -> Seq(Nat)]
    BY DEF IInv, ShellInv, FlowInv
<1>1. PICK v \in {"segv", "zombie"} : pc' = [pc EXCEPT ![s] = v]
    BY DEF Crash
<1>2. /\ fds' = [fds EXCEPT ![s] = NoFds] /\ whole' = [whole EXCEPT ![s] = "cut"]
      /\ piper' = piper /\ i' = i /\ in' = in /\ currpipe' = currpipe /\ before' = before
      /\ kid' = kid /\ pipe' = pipe /\ out' = out
    BY DEF Crash, line
<1>3. kid[s].state = "none"
    BY <1>0 DEF Mine, Crash
<1>4. pc'[s] = v /\ whole'[s] = "cut"
    BY <1>0, <1>1, <1>2 DEF ShellTyped
<1>5. Mine(s)' /\ Flow(s)' /\ Done(s)'
    BY <1>2, <1>3, <1>4, RestingFlow
<1>6. \A t \in Shell \ {s} : Apart(t)
    BY <1>0, <1>1, <1>2 DEF Apart, Untouched, ShellTyped
<1> QED
    BY <1>0, <1>2, <1>5, <1>6, OneMoves

\* Only the user's shell waits for forks, and the fork it forgets is at no stage.
LEMMA WaitForgetsFlow ==
    ASSUME IInv, FlowInv, NEW s \in Shell, WaitForgets(s)
    PROVE  FlowInv'
<1>0. ShellInv /\ ShellTyped /\ Mine(s) /\ out \in [Shell -> Seq(Nat)] /\ <<>> \in Seq(Nat)
    BY DEF IInv, ShellInv, FlowInv
<1>1. /\ pc' = [pc EXCEPT ![s] = "none"] /\ whole' = [whole EXCEPT ![s] = "cut"]
      /\ piper' = [piper EXCEPT ![s] = NoLine] /\ before' = [before EXCEPT ![s] = NoFds]
      /\ out' = [out EXCEPT ![s] = <<>>]
      /\ i' = i /\ in' = in /\ currpipe' = currpipe /\ fds' = fds /\ kid' = kid /\ pipe' = pipe
    BY DEF WaitForgets, Forget
<1>2. kid[s].state = "none"
    BY <1>0 DEF Mine, WaitForgets
<1>3. pc'[s] = "none" /\ whole'[s] = "cut"
    BY <1>0, <1>1 DEF ShellTyped
<1>4. Mine(s)' /\ Flow(s)' /\ Done(s)'
    BY <1>1, <1>2, <1>3, RestingFlow
<1>5. \A t \in Shell \ {s} : Apart(t)
    BY <1>0, <1>1 DEF Apart, Untouched, ShellTyped
<1>6. out' \in [Shell -> Seq(Nat)]
    BY <1>0, <1>1
<1> QED
    BY <1>0, <1>4, <1>5, <1>6, OneMoves

\* The child a shell spawns has all of the stage before to read.
LEMMA SpawnFlow ==
    ASSUME IInv, FlowInv, NEW s \in Shell, Spawn(s)
    PROVE  FlowInv'
<1>0. ShellInv /\ ShellTyped /\ KidTyped /\ PipeTyped /\ AtStage(s) /\ Mine(s) /\ Flow(s) /\ Done(s)
      /\ Running(s) /\ Busy(s) /\ out \in [Shell -> Seq(Nat)]
    BY DEF IInv, ShellInv, FlowInv, Spawn, Running, Busy
<1>1. /\ pc' = [pc EXCEPT ![s] = "wait"] /\ pc[s] = "stage"
      /\ kid' = [kid EXCEPT ![s] = Child(s)]
      /\ piper' = piper /\ i' = i /\ in' = in /\ currpipe' = currpipe /\ fds' = fds
      /\ pipe' = pipe /\ out' = out /\ whole' = whole /\ before' = before
    BY DEF Spawn, line, ghosts
<1>2. pc'[s] = "wait" /\ kid'[s] = Child(s)
    BY <1>0, <1>1 DEF ShellTyped, KidTyped
<1>3. PICK src, dst : /\ src = IF First(s) THEN NoPipe ELSE InPipe(s)
                      /\ dst = IF Final(s) THEN NoPipe ELSE OutPipe(s)
    OBVIOUS
<1>4. /\ kid'[s].state = "runs" /\ kid'[s].stage = i[s] /\ kid'[s].left = Own(Com(s))
      /\ kid'[s].copies = Copies(Com(s)) /\ kid'[s].src = src /\ kid'[s].dst = dst
    <2>1. First(s) \/ InFd(s) = in[s]
        BY DEF InFd
    <2>2. fds[s][OutFd(s)].pipe = OutPipe(s)
        BY <1>0 DEF AtStage, OutFd, OutPipe
    <2>3. /\ Child(s).state = "runs" /\ Child(s).stage = i[s] /\ Child(s).left = Own(Com(s))
          /\ Child(s).copies = Copies(Com(s))
          /\ Child(s).src = IF First(s) THEN NoPipe ELSE fds[s][InFd(s)].pipe
          /\ Child(s).dst = IF Final(s) THEN NoPipe ELSE fds[s][OutFd(s)].pipe
        BY DEF Child, Com
    <2>4. Child(s).src = src /\ Child(s).dst = dst
        BY <1>3, <2>1, <2>2, <2>3 DEF InPipe
    <2> QED BY <1>2, <2>3, <2>4
<1>5. /\ (Running(s)' <=> Running(s)) /\ Held(s)' = Held(s)
      /\ (First(s)' <=> First(s)) /\ (Final(s)' <=> Final(s))
      /\ InPipe(s)' = InPipe(s) /\ OutPipe(s)' = OutPipe(s) /\ Com(s)' = Com(s)
      /\ Rest(s)' = Rest(s) /\ Written(s)' = Written(s)
    BY <1>0, <1>1, <1>2 DEF Running, Held, First, Final, InPipe, OutPipe, Com, Rest, Written
<1>6. Mine(s)'
    <2>1. /\ currpipe[s][1] \in Held(s) /\ currpipe[s][1] \in Fd
          /\ ~First(s) => in[s] \in Held(s) /\ in[s] \in Fd
        BY <1>0 DEF AtStage, Held
    <2>2. OwnPipe(src, s) /\ OwnPipe(dst, s)
        BY <1>0, <1>3, <2>1 DEF Mine, InPipe, OutPipe, OwnPipe
    <2> QED BY <1>0, <1>1, <1>2, <1>4, <1>5, <2>2 DEF Mine
<1>7. Done(s)'
    BY <1>0, <1>1 DEF Done
<1>8. ASSUME whole[s] = "no" PROVE Joined(s)' /\ Goes(s)'
    <2>1. Joined(s) /\ Begins(s)
        BY <1>0, <1>1, <1>8 DEF Flow
    <2>2. Joined(s)'
        BY <1>1, <1>5, <2>1 DEF Joined
    <2>3. piper[s] \in Pipers /\ i[s] \in 1..Len(piper[s].command_list)
        BY <1>0 DEF AtStage
    <2>4. Len(piper[s].command_list) \in Nat
        BY <2>3, StagesOfPiper
    <2>5. /\ Units(piper[s])[i[s]] = Writes(Com(s), i[s], Upstream(s))
          /\ Units(piper[s])[i[s]] \in Seq(Nat)
        BY <2>3, <2>4, UnitsAre DEF Com, Upstream
    <2>6. ToCome(s)' = Writes(Com(s), i[s], Upstream(s))
        BY <1>1, <1>4, <1>5, <2>1 DEF ToCome, Writes, Begins
    <2>7. Written(s)' = <<>>
        BY <1>5, <2>1 DEF Written, Begins
    <2>8. Written(s)' \o ToCome(s)' = Units(piper'[s])[i'[s]]
        BY <1>1, <2>5, <2>6, <2>7
    <2>9. Own(Com(s)) \in Nat
        BY OwnIsNat
    <2> QED BY <1>1, <1>3, <1>4, <1>5, <2>2, <2>8, <2>9 DEF Goes
<1>9. Flow(s)'
    BY <1>1, <1>2, <1>8 DEF Flow
<1>10. \A t \in Shell \ {s} : Apart(t)
    BY <1>0, <1>1 DEF Apart, Untouched, ShellTyped, KidTyped
<1> QED
    BY <1>0, <1>1, <1>6, <1>7, <1>9, <1>10, OneMoves

LEMMA SpawnFailsFlow ==
    ASSUME IInv, FlowInv, NEW s \in Shell, SpawnFails(s)
    PROVE  FlowInv'
<1>1. PICK table : table = Close(fds[s], {InFd(s), OutFd(s)})
    OBVIOUS
<1>2. Advance(s, table, "short") /\ Running(s) /\ kid' = kid
    BY <1>1 DEF SpawnFails, Running
<1>3. fds[s] \in [Fd -> EndType]
    BY DEF IInv, ShellInv, ShellTyped
<1>4. /\ table \in [Fd -> EndType]
      /\ \A d \in Fd : table[d] = IF d \in {InFd(s), OutFd(s)} THEN NoEnd ELSE fds[s][d]
    BY <1>1, <1>3, CloseTyped
<1>5. {InFd(s), OutFd(s)} \subseteq Held(s)
    BY DEF InFd, OutFd, Held
<1>6. \A d \in Fd : table[d] = fds[s][d] \/ (d \in Held(s) /\ table[d] = NoEnd)
    BY <1>4, <1>5
<1>7. kid[s].state = "none"
    BY DEF FlowInv, Mine, SpawnFails
<1> QED
    BY <1>2, <1>4, <1>6, <1>7, AdvanceFlow

\* The child the shell waited for has nothing more to write.
LEMMA WaitReturnsFlow ==
    ASSUME IInv, FlowInv, NEW s \in Shell, WaitReturns(s)
    PROVE  FlowInv'
<1>0. ShellTyped /\ KidTyped /\ PipeTyped /\ Flow(s) /\ Done(s) /\ Running(s) /\ Busy(s)
      /\ out \in [Shell -> Seq(Nat)]
    BY DEF IInv, ShellInv, FlowInv, WaitReturns, Running, Busy
<1>1. PICK table, how : table = fds[s] /\ how = whole[s]
    OBVIOUS
<1>2. /\ Advance(s, table, how) /\ table \in [Fd -> EndType]
      /\ how \in {"no", "short", "cut"}
    BY <1>0, <1>1 DEF WaitReturns, ShellTyped, Done
<1>3. kid'[s] = NoKid /\ \A t \in Shell \ {s} : kid'[t] = kid[t]
    BY <1>0 DEF WaitReturns, KidTyped
<1>4. ASSUME how = "no"
      PROVE  table = fds[s] /\ Joined(s) /\ Written(s) = Units(piper[s])[i[s]]
    <2>1. Joined(s) /\ Goes(s)
        BY <1>0, <1>1, <1>4 DEF Flow, WaitReturns
    <2>2. ToCome(s) = <<>> /\ Written(s) \o ToCome(s) = Units(piper[s])[i[s]]
        BY <2>1 DEF Goes, WaitReturns
    <2>3. Written(s) \in Seq(Nat)
        BY <1>0, <2>1 DEF Written, Joined, PipeTyped
    <2>4. Written(s) \o <<>> = Written(s)
        BY <2>3, ConcatEmptySeq
    <2> QED BY <1>1, <2>1, <2>2, <2>4
<1>5. kid'[s].state = "none"
    BY <1>3 DEF NoKid
<1> QED
    BY <1>0, <1>1, <1>2, <1>3, <1>4, <1>5, AdvanceFlow
LEMMA ReadLineFlow ==
    ASSUME IInv, FlowInv, ReadLine
    PROVE  FlowInv'
<1>0. ShellInv /\ ShellTyped /\ Main \in Shell /\ Mine(Main) /\ out \in [Shell -> Seq(Nat)]
    BY MainIsShell DEF IInv, ShellInv, FlowInv
<1>1. PICK p \in Pipers : piper' = [piper EXCEPT ![Main] = p]
    BY DEF ReadLine
<1>2. /\ pc' = [pc EXCEPT ![Main] = "open"] /\ whole' = [whole EXCEPT ![Main] = "no"]
      /\ i' = i /\ in' = in /\ currpipe' = currpipe /\ fds' = fds /\ before' = before
      /\ kid' = kid /\ pipe' = pipe /\ out' = out
    BY DEF ReadLine
<1>3. kid[Main].state = "none"
    BY <1>0 DEF Mine, ReadLine
<1>4. pc'[Main] = "open" /\ whole'[Main] = "no"
    BY <1>0, <1>2 DEF ShellTyped
<1>5. Mine(Main)' /\ Flow(Main)' /\ Done(Main)'
    BY <1>0, <1>2, <1>3, <1>4, RestingFlow
<1>6. \A t \in Shell \ {Main} : Apart(t)
    BY <1>0, <1>1, <1>2 DEF Apart, Untouched, ShellTyped
<1> QED
    BY <1>0, <1>2, <1>5, <1>6, OneMoves

LEMMA EndOfInputFlow ==
    ASSUME IInv, FlowInv, EndOfInput
    PROVE  FlowInv'
<1>0. /\ ShellInv /\ ShellTyped /\ Main \in Shell /\ Mine(Main) /\ Done(Main)
      /\ out \in [Shell -> Seq(Nat)]
    BY MainIsShell DEF IInv, ShellInv, FlowInv
<1>1. /\ pc' = [pc EXCEPT ![Main] = "exited"] /\ fds' = [fds EXCEPT ![Main] = NoFds]
      /\ piper' = piper /\ i' = i /\ in' = in /\ currpipe' = currpipe
      /\ kid' = kid /\ pipe' = pipe /\ out' = out /\ whole' = whole /\ before' = before
    BY DEF EndOfInput, line, ghosts
<1>2. kid[Main].state = "none"
    BY <1>0 DEF Mine, EndOfInput
<1>3. pc'[Main] = "exited"
    BY <1>0, <1>1 DEF ShellTyped
<1>4. Mine(Main)' /\ Flow(Main)' /\ Done(Main)'
    BY <1>0, <1>1, <1>2, <1>3, RestingFlow DEF Done
<1>5. \A t \in Shell \ {Main} : Apart(t)
    BY <1>0, <1>1 DEF Apart, Untouched, ShellTyped
<1> QED
    BY <1>0, <1>1, <1>4, <1>5, OneMoves

\* A shell can fork only while a place for a fork is free.
LEMMA ForkIsFree ==
    ASSUME CanFork
    PROVE  {j \in Shell \ {Main} : pc[j] = "none"} # {}
<1>1. SUFFICES ASSUME \A j \in Shell \ {Main} : pc[j] # "none" PROVE FALSE
    OBVIOUS
<1>2. Processes = 1..ProcLimit
    <2>1. Shell \ {Main} = 1..ProcLimit
        BY JshAssumption DEF Shell, Main
    <2> QED BY <1>1, <2>1 DEF Processes
<1>3. Cardinality(Processes) = ProcLimit
    BY <1>2, JshAssumption, FS_Interval
<1>4. Cardinality(Kids) \in Nat
    <2>1. IsFiniteSet(Shell)
        BY JshAssumption, FS_Interval DEF Shell
    <2>2. Kids \in SUBSET Shell
        BY DEF Kids
    <2> QED BY <2>1, <2>2, FS_Subset, FS_CardinalityType
<1> QED
    BY <1>3, <1>4, JshAssumption DEF CanFork

LEMMA ReadAsyncLineFlow ==
    ASSUME IInv, FlowInv, ReadAsyncLine
    PROVE  FlowInv'
<1>0. ShellInv /\ ShellTyped /\ out \in [Shell -> Seq(Nat)]
    BY DEF IInv, ShellInv, FlowInv
<1>1. PICK p \in Pipers, s \in Shell \ {Main} :
          /\ s = Min({j \in Shell \ {Main} : pc[j] = "none"})
          /\ piper' = [piper EXCEPT ![s] = p] /\ pc' = [pc EXCEPT ![s] = "open"]
          /\ fds' = [fds EXCEPT ![s] = fds[Main]] /\ whole' = [whole EXCEPT ![s] = "no"]
    BY DEF ReadAsyncLine
<1>2. /\ i' = i /\ in' = in /\ currpipe' = currpipe /\ before' = before
      /\ kid' = kid /\ pipe' = pipe /\ out' = out
    BY DEF ReadAsyncLine
<1>3. pc[s] = "none"
    <2>1. CanFork
        BY DEF ReadAsyncLine
    <2>2. PICK S : S = {j \in Shell \ {Main} : pc[j] = "none"}
        OBVIOUS
    <2>3. S \subseteq Nat /\ S # {}
        BY <2>1, <2>2, ForkIsFree, JshAssumption DEF Shell
    <2>4. Min(S) \in S
        BY <2>3, MinIsIn
    <2> QED BY <1>1, <2>2, <2>4
<1>4. kid[s].state = "none"
    BY <1>3 DEF FlowInv, Mine
<1>5. pc'[s] = "open" /\ whole'[s] = "no"
    BY <1>0, <1>1 DEF ShellTyped
<1>6. Mine(s)' /\ Flow(s)' /\ Done(s)'
    BY <1>2, <1>4, <1>5, RestingFlow
<1>7. \A t \in Shell \ {s} : Apart(t)
    BY <1>0, <1>1, <1>2 DEF Apart, Untouched, ShellTyped
<1> QED
    BY <1>0, <1>2, <1>6, <1>7, OneMoves

\* A unit taken from the front of one sequence and put behind another.
LEMMA OneUnitOn ==
    ASSUME NEW u \in Seq(Nat), NEW v \in Seq(Nat), v # <<>>
    PROVE  Append(u, Head(v)) \o Tail(v) = u \o v
<1>1. PICK x \in Nat, rest \in Seq(Nat) :
          /\ x = Head(v) /\ rest = Tail(v) /\ Len(v) \in Nat \ {0} /\ Len(rest) = Len(v) - 1
          /\ v[1] = x /\ \A j \in 1..Len(rest) : rest[j] = v[j+1]
    <2>1. /\ Head(v) \in Nat /\ Tail(v) \in Seq(Nat) /\ Len(Tail(v)) = Len(v) - 1
          /\ \A j \in 1..Len(Tail(v)) : Tail(v)[j] = v[j+1]
        BY HeadTailProperties, Zenon
    <2>2. Len(v) \in Nat \ {0} /\ Head(v) = v[1]
        BY EmptySeq, LenProperties
    <2> QED BY <2>1, <2>2, Zenon
<1>2. v = <<x>> \o rest
    <2>1. <<x>> \in Seq(Nat) /\ Len(<<x>>) = 1 /\ <<x>>[1] = x
        OBVIOUS
    <2>2. /\ <<x>> \o rest \in Seq(Nat) /\ Len(<<x>> \o rest) = Len(<<x>>) + Len(rest)
          /\ \A j \in 1..Len(<<x>>) + Len(rest) :
                (<<x>> \o rest)[j] = IF j <= Len(<<x>>) THEN <<x>>[j] ELSE rest[j - Len(<<x>>)]
        BY <2>1, ConcatProperties, ZenonT(30)
    <2>3. PICK w \in Seq(Nat) : w = <<x>> \o rest
        BY <2>2
    <2>4. /\ Len(w) = Len(v)
          /\ \A j \in 1..Len(v) : w[j] = IF j <= 1 THEN x ELSE rest[j - 1]
        <3>1. Len(<<x>>) + Len(rest) = Len(v)
            BY <1>1, <2>1
        <3>2. ASSUME NEW j \in 1..Len(v), j <= 1 PROVE <<x>>[j] = x
            <4>1. j = 1
                BY <3>2
            <4> QED BY <2>1, <4>1
        <3> QED BY <2>1, <2>2, <2>3, <3>1, <3>2
    <2>5. ASSUME NEW j \in 1..Len(v) PROVE v[j] = w[j]
        <3>1. CASE j = 1
            BY <1>1, <2>1, <2>4, <3>1
        <3>2. CASE j # 1
            <4>1. j - 1 \in 1..Len(rest) /\ (j - 1) + 1 = j /\ ~(j <= 1)
                BY <1>1, <3>2
            <4>2. rest[j-1] = v[j]
                BY <1>1, <4>1
            <4> QED BY <2>4, <4>1, <4>2
        <3> QED BY <3>1, <3>2
    <2> QED BY <2>3, <2>4, <2>5, SeqEqual
<1>3. <<x>> \in Seq(Nat)
    OBVIOUS
<1>4. Append(u, x) = u \o <<x>>
    OBVIOUS
<1>5. (u \o <<x>>) \o rest = u \o (<<x>> \o rest)
    <2>1. \A e \in Seq(Nat) : (u \o e) \o rest = u \o (e \o rest)
        <3> SUFFICES ASSUME NEW e \in Seq(Nat)
                     PROVE  (u \o e) \o rest = u \o (e \o rest)
            OBVIOUS
        <3> QED BY SMTT(60)
    <2> QED BY <1>3, <2>1, Zenon
<1> QED
    BY <1>1, <1>2, <1>4, <1>5, Zenon

LEMMA OneOfManyOn ==
    ASSUME NEW u \in Seq(Nat), NEW x \in Nat, NEW m \in Nat \ {0}
    PROVE  Append(u, x) \o [j \in 1..m-1 |-> x] = u \o [j \in 1..m |-> x]
<1>1. PICK v : v = [j \in 1..m |-> x]
    OBVIOUS
<1>2. v \in Seq(Nat) /\ v # <<>> /\ Len(v) = m /\ \A j \in 1..m : v[j] = x
    BY <1>1
<1>3. Head(v) = x
    BY <1>2
<1>4. Tail(v) = [j \in 1..m-1 |-> x]
    <2>1. /\ Tail(v) \in Seq(Nat) /\ Len(Tail(v)) = m - 1
          /\ \A j \in 1..m-1 : Tail(v)[j] = v[j+1]
        BY <1>2
    <2>2. \A j \in 1..m-1 : Tail(v)[j] = x
        BY <1>2, <2>1
    <2>3. PICK w \in Seq(Nat) : w = Tail(v)
        BY <2>1
    <2>4. w \in [1..m-1 -> Nat] /\ \A j \in 1..m-1 : w[j] = x
        BY <2>1, <2>2, <2>3, LenProperties
    <2> QED BY <2>3, <2>4
<1> QED
    BY <1>1, <1>2, <1>3, <1>4, OneUnitOn
\* Only the first stage of a line has a file to read, and what copies a pipe writes
\* nothing of its own.
LEMMA LaterReadsNoFile ==
    ASSUME NEW p, NEW k, k # 1
    PROVE  Command(p, k).inpipe = NoFile
<1>1. ASSUME NEW com, NEW sign, NEW field, field # "inpipe", "inpipe" \in DOMAIN com
      PROVE  /\ Redirected(com, sign, field).inpipe = com.inpipe
             /\ "inpipe" \in DOMAIN Redirected(com, sign, field)
    BY <1>1 DEF Redirected
<1>2. PICK com : com = Bare(p.command_list[k])
    OBVIOUS
<1>3. com.inpipe = NoFile /\ "inpipe" \in DOMAIN com
    BY <1>2 DEF Bare
<1>4. PICK made : made = Redirected(com, ">", "outpipe")
    OBVIOUS
<1>5. made.inpipe = NoFile /\ "inpipe" \in DOMAIN made
    BY <1>1, <1>3, <1>4
<1>6. Redirected(made, ">>", "appipe").inpipe = NoFile
    BY <1>1, <1>5
<1> QED
    BY <1>2, <1>3, <1>4, <1>6 DEF Command

LEMMA CopierOwnsNothing ==
    ASSUME NEW com, Copies(com), com.inpipe = NoFile
    PROVE  Own(com) = 0
BY DEF Copies, Own, NoFile

\* A step of the child of shell s: it touches nothing but its own two pipes and what
\* the line delivers.
KidMoves(s) ==
    /\ kid[s].state = "runs" /\ UNCHANGED <<pc, line, fds, whole, before>>
    /\ kid'[s].state \in {"runs", "zombie"} /\ kid'[s].stage = kid[s].stage
    /\ kid'[s].copies = kid[s].copies /\ kid'[s].src = kid[s].src /\ kid'[s].dst = kid[s].dst
    /\ \A t \in Shell \ {s} : kid'[t] = kid[t] /\ out'[t] = out[t]
    /\ out' \in [Shell -> Seq(Nat)]
    /\ \A q \in Pipe : q = kid[s].src \/ q = kid[s].dst \/ pipe'[q] = pipe[q]

LEMMA KidFlow ==
    ASSUME IInv, FlowInv, NEW s \in Shell, KidMoves(s),
           Joined(s) /\ Goes(s) => Joined(s)' /\ Goes(s)'
    PROVE  FlowInv'
<1>0. ShellInv /\ Mine(s) /\ Flow(s) /\ Done(s) /\ pc[s] = "wait" /\ Running(s) /\ Busy(s)
    BY DEF IInv, FlowInv, Mine, KidMoves, Running, Busy
<1>1. /\ pc' = pc /\ piper' = piper /\ i' = i /\ in' = in /\ currpipe' = currpipe
      /\ fds' = fds /\ whole' = whole /\ before' = before
    BY DEF KidMoves, line
<1>2. OwnPipe(kid[s].src, s) /\ OwnPipe(kid[s].dst, s)
    BY <1>0 DEF Mine, KidMoves
<1>3. Mine(s)'
    <2>1. (Running(s)' <=> Running(s)) /\ Held(s)' = Held(s)
        BY <1>1 DEF Running, Held, First
    <2> QED BY <1>0, <1>1, <1>2, <2>1 DEF Mine, KidMoves
<1>4. Done(s)'
    BY <1>0, <1>1 DEF Done
<1>5. Flow(s)'
    BY <1>0, <1>1 DEF Flow
<1>6. ASSUME NEW t \in Shell \ {s} PROVE Apart(t)
    <2>1. Untouched(t) /\ whole'[t] = whole[t] /\ out'[t] = out[t] /\ kid'[t] = kid[t]
        BY <1>1 DEF Untouched, KidMoves
    <2>2. \A q \in Pipe : q[1] = t => pipe'[q] = pipe[q]
        BY <1>2, EndsTyped DEF OwnPipe, KidMoves
    <2> QED BY <2>1, <2>2 DEF Apart
<1> QED
    BY <1>0, <1>3, <1>4, <1>5, <1>6, OneMoves DEF KidMoves

\* What does not change while the child works.
LEMMA SameStage ==
    ASSUME NEW s \in Shell, KidMoves(s)
    PROVE  /\ (First(s)' <=> First(s)) /\ (Final(s)' <=> Final(s))
           /\ InPipe(s)' = InPipe(s) /\ OutPipe(s)' = OutPipe(s) /\ Com(s)' = Com(s)
           /\ piper'[s] = piper[s] /\ i'[s] = i[s]
BY DEF KidMoves, line, First, Final, InPipe, OutPipe, Com

\* A unit a program writes of its own accord is one less to come.
LEMMA ProduceFlow ==
    ASSUME IInv, FlowInv, NEW s \in Shell, Produce(s)
    PROVE  FlowInv'
<1>0. KidTyped /\ PipeTyped /\ out \in [Shell -> Seq(Nat)] /\ i[s] \in Nat
    BY DEF IInv, FlowInv, ShellInv, ShellTyped
<1>1. PICK k \in KidType : k = kid[s]
    BY <1>0 DEF KidTyped
<1>2. k.stage \in Nat /\ k.left \in Nat \ {0} /\ k.state = "runs"
    BY <1>1 DEF KidType, Produce
<1>3. /\ Write(s, k.stage) /\ kid' = [kid EXCEPT ![s] = [k EXCEPT !.left = k.left - 1]]
      /\ UNCHANGED <<pc, line, fds, whole, before>>
    BY <1>0, <1>1 DEF Produce, KidTyped
<1>4. /\ kid'[s].left = k.left - 1 /\ kid'[s].state = "runs" /\ kid'[s].stage = k.stage
      /\ kid'[s].copies = k.copies /\ kid'[s].src = k.src /\ kid'[s].dst = k.dst
      /\ \A t \in Shell \ {s} : kid'[t] = kid[t]
    BY <1>0, <1>2, <1>3 DEF KidTyped, KidType
<1>5. /\ k.dst \in Pipe => /\ pipe' = [pipe EXCEPT ![k.dst] = Append(pipe[k.dst], k.stage)]
                           /\ out' = out
      /\ k.dst \notin Pipe => /\ out' = [out EXCEPT ![s] = Append(out[s], k.stage)]
                              /\ pipe' = pipe
    BY <1>1, <1>3 DEF Write
<1>6. out' \in [Shell -> Seq(Nat)] /\ \A t \in Shell \ {s} : out'[t] = out[t]
    <2>1. Append(out[s], k.stage) \in Seq(Nat)
        BY <1>0, <1>2, AppendProperties
    <2> QED BY <1>0, <1>5, <2>1
<1>7. KidMoves(s)
    <2>1. \A q \in Pipe : q = k.dst \/ pipe'[q] = pipe[q]
        BY <1>0, <1>5 DEF PipeTyped
    <2> QED BY <1>1, <1>2, <1>3, <1>4, <1>6, <2>1 DEF KidMoves
<1>8. ASSUME Joined(s), Goes(s) PROVE Joined(s)' /\ Goes(s)'
    <2>1. /\ k.stage = i[s] /\ Own(Com(s)) > 0
          /\ k.dst = (IF Final(s) THEN NoPipe ELSE OutPipe(s))
          /\ Written(s) \o ToCome(s) = Units(piper[s])[i[s]]
        BY <1>1, <1>2, <1>8 DEF Goes
    <2>2. Written(s)' = Append(Written(s), i[s]) /\ Written(s) \in Seq(Nat)
        <3>1. CASE Final(s)
            BY <1>0, <1>5, <1>7, <2>1, <3>1, SameStage, EndsTyped DEF Written
        <3>2. CASE ~Final(s)
            <4>1. OutPipe(s) \in Pipe
                BY <1>8 DEF Joined
            <4> QED BY <1>0, <1>5, <1>7, <2>1, <3>2, <4>1, SameStage DEF Written, PipeTyped
        <3> QED BY <3>1, <3>2
    <2>3. ToCome(s) = [j \in 1..k.left |-> i[s]] /\ ToCome(s)' = [j \in 1..k.left-1 |-> i[s]]
        BY <1>1, <1>4, <1>7, <2>1, SameStage DEF ToCome
    <2>4. Written(s)' \o ToCome(s)' = Units(piper[s])[i[s]]
        <3>1. PICK u \in Seq(Nat), x \in Nat, m \in Nat \ {0} :
                  u = Written(s) /\ x = i[s] /\ m = k.left
            BY <1>0, <1>2, <2>2
        <3>2. Append(u, x) \o [j \in 1..m-1 |-> x] = u \o [j \in 1..m |-> x]
            BY OneOfManyOn
        <3> QED BY <2>1, <2>2, <2>3, <3>1, <3>2
    <2>5. Joined(s)'
        <3>1. ~Final(s) => out' = out
            BY <1>5, <1>8, <2>1 DEF Joined
        <3> QED BY <1>7, <1>8, <3>1, SameStage DEF Joined
    <2>6. Goes(s)'
        BY <1>1, <1>4, <1>7, <1>8, <2>1, <2>4, SameStage DEF Goes
    <2> QED BY <2>5, <2>6
<1> QED
    BY <1>7, <1>8, KidFlow
\* A unit a program copies is one more written and one less to come.
LEMMA CopyFlow ==
    ASSUME IInv, FlowInv, NEW s \in Shell, Copy(s)
    PROVE  FlowInv'
<1>0. KidTyped /\ PipeTyped /\ out \in [Shell -> Seq(Nat)]
    BY DEF IInv, FlowInv
<1>d. PICK d : d = kid[s].dst
    OBVIOUS
<1>1. PICK q \in Pipe : q = kid[s].src /\ d = kid[s].dst
    BY <1>d DEF Copy
<1>2. PICK units \in Seq(Nat) : units = pipe[q] /\ units # <<>>
    BY <1>0, <1>1 DEF PipeTyped, Copy
<1>3. /\ Head(units) \in Nat /\ Tail(units) \in Seq(Nat)
    BY <1>2, HeadTailProperties
<1>4. /\ kid[s].state = "runs" /\ kid[s].copies /\ kid' = kid
      /\ UNCHANGED <<pc, line, fds, whole, before>>
    BY DEF Copy
<1>5. pipe' = [p \in Pipe |-> IF p = d THEN Append(IF p = q THEN Tail(pipe[p]) ELSE pipe[p], Head(units))
                             ELSE IF p = q THEN Tail(pipe[p]) ELSE pipe[p]]
    BY <1>1, <1>2 DEF Copy, Moved
<1>6. /\ d \in Pipe => out' = out
      /\ d \notin Pipe => out' = [out EXCEPT ![s] = Append(out[s], Head(units))]
    BY <1>1, <1>2 DEF Copy
<1>7. out' \in [Shell -> Seq(Nat)] /\ \A t \in Shell \ {s} : out'[t] = out[t]
    <2>1. Append(out[s], Head(units)) \in Seq(Nat)
        BY <1>0, <1>3, AppendProperties
    <2> QED BY <1>0, <1>6, <2>1
<1>8. KidMoves(s)
    <2>1. \A p \in Pipe : p = q \/ p = d \/ pipe'[p] = pipe[p]
        BY <1>5
    <2> QED BY <1>1, <1>4, <1>7, <2>1 DEF KidMoves
<1>9. ASSUME Joined(s), Goes(s) PROVE Joined(s)' /\ Goes(s)'
    <2>1. /\ ~First(s) /\ q = InPipe(s) /\ Copies(Com(s)) /\ q # OutPipe(s)
          /\ d = (IF Final(s) THEN NoPipe ELSE OutPipe(s)) /\ OutPipe(s) \in Pipe
          /\ Written(s) \o ToCome(s) = Units(piper[s])[i[s]]
        BY <1>1, <1>4, <1>9, EndsTyped DEF Goes, Joined
    <2>2. Com(s).inpipe = NoFile
        BY <2>1, LaterReadsNoFile DEF Com, First
    <2>3. ~(Own(Com(s)) > 0)
        <3>1. Own(Com(s)) = 0
            BY <2>1, <2>2, CopierOwnsNothing
        <3> QED BY <3>1
    <2>4. d # q
        BY <2>1, EndsTyped
    <2>5. pipe'[q] = Tail(units) /\ (d \in Pipe => pipe'[d] = Append(pipe[d], Head(units)))
        BY <1>2, <1>5, <2>4
    <2>6. ToCome(s) = units /\ ToCome(s)' = Tail(units)
        BY <1>2, <1>8, <2>1, <2>2, <2>3, <2>5, SameStage DEF ToCome, Rest
    <2>7. Written(s)' = Append(Written(s), Head(units)) /\ Written(s) \in Seq(Nat)
        <3>1. CASE Final(s)
            BY <1>0, <1>6, <1>8, <2>1, <3>1, SameStage, EndsTyped DEF Written
        <3>2. CASE ~Final(s)
            BY <1>0, <1>8, <2>1, <2>5, <3>2, SameStage DEF Written, PipeTyped
        <3> QED BY <3>1, <3>2
    <2>8. Written(s)' \o ToCome(s)' = Units(piper[s])[i[s]]
        <3>1. PICK u \in Seq(Nat) : u = Written(s)
            BY <2>7
        <3>2. Append(u, Head(units)) \o Tail(units) = u \o units
            BY <1>2, OneUnitOn
        <3> QED BY <2>1, <2>6, <2>7, <3>1, <3>2
    <2>9. Joined(s)'
        <3>1. ~Final(s) => out' = out
            BY <1>6, <2>1
        <3> QED BY <1>8, <1>9, <3>1, SameStage DEF Joined
    <2>10. Goes(s)'
        BY <1>4, <1>8, <1>9, <2>8, SameStage DEF Goes
    <2> QED BY <2>9, <2>10
<1> QED
    BY <1>8, <1>9, KidFlow

\* A program ends when it has written all it had to: what copies, when there is
\* nothing left to read.
LEMMA TerminateFlow ==
    ASSUME IInv, FlowInv, NEW s \in Shell, Terminate(s)
    PROVE  FlowInv'
<1>0. KidTyped /\ PipeTyped /\ out \in [Shell -> Seq(Nat)]
    BY DEF IInv, FlowInv
<1>1. PICK k \in KidType : k = kid[s]
    BY <1>0 DEF KidTyped
<1>2. k.state = "runs" /\ k.left = 0 /\ (k.copies => AtEof(s))
    BY <1>1 DEF Terminate
<1>3. /\ kid' = [kid EXCEPT ![s] = [k EXCEPT !.state = "zombie"]]
      /\ UNCHANGED <<pc, line, fds, whole, before>> /\ pipe' = pipe /\ out' = out
    BY <1>0, <1>1 DEF Terminate, KidTyped, ghosts
<1>4. /\ kid'[s].left = 0 /\ kid'[s].state = "zombie" /\ kid'[s].stage = k.stage
      /\ kid'[s].copies = k.copies /\ kid'[s].src = k.src /\ kid'[s].dst = k.dst
      /\ \A t \in Shell \ {s} : kid'[t] = kid[t]
    BY <1>0, <1>2, <1>3 DEF KidTyped, KidType
<1>5. KidMoves(s)
    BY <1>0, <1>1, <1>2, <1>3, <1>4 DEF KidMoves
<1>6. ASSUME Joined(s), Goes(s) PROVE Joined(s)' /\ Goes(s)'
    <2>1. Rest(s)' = Rest(s) /\ Written(s)' = Written(s)
        BY <1>3, <1>5, SameStage DEF Rest, Written
    <2>2. ToCome(s)' = ToCome(s)
        BY <1>1, <1>2, <1>4, <1>5, <2>1, SameStage DEF ToCome
    <2>3. ToCome(s) = <<>>
        <3>1. CASE Own(Com(s)) > 0
            <4>1. [j \in 1..0 |-> i[s]] = <<>>
                OBVIOUS
            <4> QED BY <1>1, <1>2, <3>1, <4>1 DEF ToCome
        <3>2. CASE ~(Own(Com(s)) > 0) /\ Copies(Com(s)) /\ Com(s).inpipe = NoFile
            <4>1. CASE First(s)
                BY <3>2, <4>1 DEF ToCome, Rest
            <4>2. CASE ~First(s)
                <5>1. k.copies /\ k.src = InPipe(s) /\ InPipe(s) \in Pipe
                    BY <1>1, <1>6, <3>2, <4>2 DEF Goes, Joined
                <5>2. pipe[InPipe(s)] = <<>>
                    BY <1>1, <1>2, <5>1 DEF AtEof
                <5> QED BY <3>2, <4>2, <5>2 DEF ToCome, Rest
            <4> QED BY <4>1, <4>2
        <3>3. CASE ~(Own(Com(s)) > 0) /\ ~(Copies(Com(s)) /\ Com(s).inpipe = NoFile)
            BY <3>3 DEF ToCome
        <3> QED BY <3>1, <3>2, <3>3
    <2>4. Joined(s)'
        BY <1>3, <1>5, <1>6, SameStage DEF Joined
    <2>5. Goes(s)'
        BY <1>1, <1>4, <1>5, <1>6, <2>1, <2>2, <2>3, SameStage DEF Goes
    <2> QED BY <2>4, <2>5
<1> QED
    BY <1>5, <1>6, KidFlow

LEMMA InitFlow == Init => FlowInv
<1> SUFFICES ASSUME Init PROVE FlowInv
    OBVIOUS
<1>1. out \in [Shell -> Seq(Nat)]
    <2>1. <<>> \in Seq(Nat)
        OBVIOUS
    <2> QED BY <2>1 DEF Init
<1>2. ASSUME NEW s \in Shell PROVE Mine(s) /\ Flow(s) /\ Done(s)
    <2>1. pc[s] \in {"prompt", "none"} /\ kid[s].state = "none" /\ whole[s] = "cut"
        BY DEF Init, NoKid
    <2> QED BY <2>1 DEF Mine, Flow, Done, Running
<1> QED
    BY <1>1, <1>2 DEF FlowInv

LEMMA NextFlow == IInv /\ FlowInv /\ [Next]_vars => FlowInv'
<1> SUFFICES ASSUME IInv, FlowInv, [Next]_vars PROVE FlowInv'
    OBVIOUS
<1>1. ASSUME NEW s \in Shell, ShellStep(s) PROVE FlowInv'
    BY <1>1, OpenPipeFlow, OpenPipeFailsFlow, CrashFlow, SpawnFlow, SpawnFailsFlow,
       WaitReturnsFlow, WaitForgetsFlow DEF ShellStep
<1>2. ASSUME NEW s \in Shell, KidStep(s) PROVE FlowInv'
    BY <1>2, ProduceFlow, CopyFlow, TerminateFlow DEF KidStep
<1>3. CASE User
    BY <1>3, ReadLineFlow, ReadAsyncLineFlow, EndOfInputFlow DEF User
<1>4. CASE UNCHANGED vars
    <2>1. /\ pc' = pc /\ piper' = piper /\ i' = i /\ in' = in /\ currpipe' = currpipe
          /\ fds' = fds /\ kid' = kid /\ pipe' = pipe /\ out' = out /\ whole' = whole
          /\ before' = before
        BY <1>4 DEF vars, line, ghosts
    <2>2. \A t \in Shell : Apart(t)
        BY <2>1 DEF Apart, Untouched
    <2>3. ShellInv
        BY DEF IInv
    <2> QED BY <2>1, <2>2, <2>3, ApartKept DEF FlowInv
<1> QED
    BY <1>1, <1>2, <1>3, <1>4 DEF Next

\* A line all of whose stages were started delivers what its stages make of each
\* other's output: a stage reads what the stage before it wrote, all of it and in
\* order, whatever lines ran before or run beside it and however wait() returns.
THEOREM PipelineResultHolds == Spec => []PipelineResult
<1>1. Spec => []FlowInv
    BY InitFlow, NextFlow, Invariant, PTL DEF Spec
<1>2. FlowInv => PipelineResult
    BY DEF FlowInv, Done, PipelineResult
<1> QED
    BY <1>1, <1>2, PTL
=============================================================================
