---------------------------- MODULE IpToolsProofs ----------------------------

(***************************************************************************)
(* Theorems about IpTools, for every set of tables and words and however   *)
(* the file is cut: what the three programs read is what the table has,    *)
(* and what they answer is what they have read. The names of a record are  *)
(* a recursive function of it: Counting is the induction its lemmas use.   *)
(***************************************************************************)
EXTENDS IpTools, FiniteSetTheorems, SequenceTheorems, WellFoundedInduction, TLAPS

(***************************************************************************)
(* Counting, and the least number.                                         *)
(***************************************************************************)

\* A set of numbers that is not empty has a least member.
LEMMA LeastOf ==
  ASSUME NEW T, T \subseteq Nat, T # {}
  PROVE  \E m \in T : \A k \in T : m <= k
<1>1. PICK m \in T : \A k \in T : ~(<<k, m>> \in OpToRel(<, Nat))
  BY NatLessThanWellFounded, WFMin, ZenonT(30)
<1>2. \A k \in T : ~(k < m)
  BY <1>1 DEF OpToRel
<1> QED
  BY <1>2

\* A set that has a number and with each up to another the next has all of them.
LEMMA Counting ==
  ASSUME NEW b \in Nat, NEW n \in Nat, NEW T, b \in T,
         \A k \in b..(n - 1) : k \in T => k + 1 \in T
  PROVE  \A k \in b..n : k \in T
<1> DEFINE Bad == {k \in b..n : k \notin T}
<1>1. SUFFICES ASSUME Bad # {} PROVE FALSE
  OBVIOUS
<1>2. Bad \subseteq Nat
  OBVIOUS
<1>3. PICK m \in Bad : \A k \in Bad : m <= k
  <2> HIDE DEF Bad
  <2> QED
    BY <1>1, <1>2, LeastOf
<1>4. m \in b..n /\ m \notin T /\ m # b
  OBVIOUS
<1>5. m - 1 \in b..(n - 1) /\ (m - 1) + 1 = m /\ m - 1 < m
  BY <1>4
<1>6. m - 1 \in T
  <2>1. m - 1 \in b..n
    BY <1>4, <1>5
  <2> QED
    BY <1>3, <1>5, <2>1
<1> QED
  BY <1>4, <1>5, <1>6

(***************************************************************************)
(* Sequences put one behind the other.                                     *)
(***************************************************************************)

\* A function that puts them together step by step exists.
Chain(f, s, S) ==
    /\ f \in [1..Len(s) -> Seq(S)]
    /\ f[1] = s[1] /\ \A k \in 2..Len(s) : f[k] = f[k - 1] \o s[k]

LEMMA ChainExists ==
  ASSUME NEW S, NEW s \in Seq(Seq(S)), Len(s) > 0
  PROVE  \E f : Chain(f, s, S)
<1> DEFINE StepsTo(m, f) == f[1] = s[1] /\ \A k \in 2..m : f[k] = f[k - 1] \o s[k]
           T == {m \in 1..Len(s) : \E f \in [1..m -> Seq(S)] : StepsTo(m, f)}
<1>0. Len(s) \in Nat /\ \A k \in 1..Len(s) : s[k] \in Seq(S)
  OBVIOUS
<1>1. 1 \in T
  <2> DEFINE f == [k \in 1..1 |-> s[1]]
  <2>1. f \in [1..1 -> Seq(S)] /\ StepsTo(1, f) /\ 1 \in 1..Len(s)
    BY <1>0
  <2> HIDE DEF f
  <2> QED
    BY <2>1
<1>2. ASSUME NEW m \in 1..(Len(s) - 1), m \in T
      PROVE  m + 1 \in T
  <2>1. PICK f \in [1..m -> Seq(S)] : StepsTo(m, f)
    BY <1>2
  <2>2. m + 1 \in 2..Len(s) /\ m \in 1..m /\ (m + 1) - 1 = m /\ m + 1 \in 1..Len(s)
    BY <1>0
  <2>3. f[m] \o s[m + 1] \in Seq(S)
    BY <1>0, <2>1, <2>2, ConcatProperties
  <2> DEFINE g == [k \in 1..(m + 1) |-> IF k = m + 1 THEN f[m] \o s[m + 1] ELSE f[k]]
  <2>4. g \in [1..(m + 1) -> Seq(S)]
    BY <2>1, <2>3
  <2>5. StepsTo(m + 1, g)
    <3>1. g[1] = s[1]
      BY <2>1
    <3>2. ASSUME NEW k \in 2..(m + 1) PROVE g[k] = g[k - 1] \o s[k]
      <4>1. k - 1 \in 1..m /\ g[k - 1] = f[k - 1]
        OBVIOUS
      <4>2. CASE k = m + 1
        <5>1. g[k] = f[m] \o s[m + 1] /\ k - 1 = m
          BY <4>2
        <5> QED
          BY <4>1, <4>2, <5>1, Zenon
      <4>3. CASE k # m + 1
        <5>1. k \in 2..m /\ g[k] = f[k]
          BY <4>3
        <5> QED
          BY <2>1, <4>1, <5>1
      <4> QED
        BY <4>2, <4>3
    <3> QED
      BY <3>1, <3>2
  <2> HIDE DEF g
  <2> QED
    BY <2>2, <2>4, <2>5
<1> HIDE DEF T
<1>3. \A k \in 1..Len(s) : k \in T
  BY <1>0, <1>1, <1>2, Counting
<1>4. Len(s) \in T
  BY <1>0, <1>3
<1> QED
  BY <1>4 DEF T, Chain

\* FlattenSeq is the last of such a function, and there is only one.
LEMMA FlattenIsChain ==
  ASSUME NEW S, NEW s \in Seq(Seq(S)), Len(s) > 0
  PROVE  \E f : Chain(f, s, S) /\ FlattenSeq(s) = f[Len(s)]
<1> DEFINE n == Len(s)
<1>1. PICK f : Chain(f, s, S)
  BY ChainExists
<1>2. n \in Nat /\ n # 0
  OBVIOUS
<1>3. f = [i \in 1..n |-> IF i = 1 THEN s[i] ELSE f[i - 1] \o s[i]]
  <2>1. \A i \in 1..n : i = 1 \/ i \in 2..n
    BY <1>2
  <2> QED
    BY <1>1, <2>1 DEF Chain
<1>4. FlattenSeq(s) =
        (CHOOSE g : g = [i \in 1..n |-> IF i = 1 THEN s[i] ELSE g[i - 1] \o s[i]])[n]
  BY <1>2 DEF FlattenSeq
<1>5. PICK g : /\ g[n] = FlattenSeq(s)
               /\ g = [i \in 1..n |-> IF i = 1 THEN s[i] ELSE g[i - 1] \o s[i]]
  BY <1>3, <1>4
<1>6. g[1] = s[1] /\ \A k \in 2..n : g[k] = g[k - 1] \o s[k]
  <2>1. 1 \in 1..n /\ \A k \in 2..n : k \in 1..n /\ k # 1
    BY <1>2
  <2> QED
    BY <1>5, <2>1
<1>7. g \in [1..n -> Seq(S)]
  <2>1. \A k \in 1..n : s[k] \in Seq(S)
    OBVIOUS
  <2> DEFINE T == {k \in 1..n : g[k] \in Seq(S)}
  <2>2. 1 \in T
    BY <1>2, <1>6, <2>1
  <2>3. ASSUME NEW k \in 1..(n - 1), k \in T PROVE k + 1 \in T
    <3>1. k + 1 \in 2..n /\ k + 1 \in 1..n /\ (k + 1) - 1 = k
      BY <1>2
    <3>2. g[k + 1] = g[k] \o s[k + 1]
      BY <1>6, <3>1
    <3>3. g[k] \in Seq(S) /\ s[k + 1] \in Seq(S)
      BY <2>1, <2>3, <3>1
    <3>4. g[k + 1] \in Seq(S)
      BY <3>2, <3>3, ConcatProperties, Zenon
    <3> QED
      BY <3>1, <3>4
  <2> HIDE DEF T
  <2>4. \A k \in 1..n : k \in T
    BY <1>2, <2>2, <2>3, Counting
  <2>5. \A k \in 1..n : g[k] \in Seq(S)
    BY <2>4 DEF T
  <2> QED
    BY <1>5, <2>5
<1> QED
  BY <1>5, <1>6, <1>7 DEF Chain

Agree(f, g, n) == \A k \in 1..n : f[k] = g[k]

LEMMA ChainsAgree ==
  ASSUME NEW S, NEW s \in Seq(Seq(S)), NEW t \in Seq(Seq(S)),
         Len(s) <= Len(t), Agree(s, t, Len(s)),
         NEW f, Chain(f, s, S), NEW g, Chain(g, t, S)
  PROVE  Agree(f, g, Len(s))
<1> USE DEF Agree
<1> DEFINE n == Len(s)
           T == {k \in 1..n : f[k] = g[k]}
<1>0. n \in Nat
  OBVIOUS
<1>1. CASE n = 0
  BY <1>1
<1>2. CASE n > 0
  <2>1. 1 \in T
    BY <1>2 DEF Chain
  <2>2. ASSUME NEW k \in 1..(n - 1), k \in T PROVE k + 1 \in T
    <3>1. k + 1 \in 2..Len(s) /\ k + 1 \in 2..Len(t) /\ k + 1 \in 1..n /\ (k + 1) - 1 = k
      OBVIOUS
    <3>2. f[k + 1] = f[k] \o s[k + 1] /\ g[k + 1] = g[k] \o t[k + 1]
      BY <3>1 DEF Chain
    <3> QED
      BY <2>2, <3>1, <3>2
  <2> HIDE DEF T
  <2>3. \A k \in 1..n : k \in T
    BY <1>0, <2>1, <2>2, Counting
  <2> QED
    BY <2>3 DEF T
<1> QED
  BY <1>0, <1>1, <1>2

LEMMA FlattenEmpty == FlattenSeq(<<>>) = <<>>
BY DEF FlattenSeq

LEMMA FlattenType ==
  ASSUME NEW S, NEW s \in Seq(Seq(S))
  PROVE  FlattenSeq(s) \in Seq(S)
<1>1. CASE Len(s) = 0
  BY <1>1, EmptySeq, FlattenEmpty
<1>2. CASE Len(s) > 0
  <2>1. PICK f : Chain(f, s, S) /\ FlattenSeq(s) = f[Len(s)]
    BY <1>2, FlattenIsChain
  <2>2. Len(s) \in 1..Len(s)
    BY <1>2
  <2> QED
    BY <2>1, <2>2 DEF Chain
<1> QED
  BY <1>1, <1>2

LEMMA FlattenAppend ==
  ASSUME NEW S, NEW s \in Seq(Seq(S)), NEW x \in Seq(S)
  PROVE  FlattenSeq(Append(s, x)) = FlattenSeq(s) \o x
<1> DEFINE t == Append(s, x)
<1>1. t \in Seq(Seq(S)) /\ Len(t) = Len(s) + 1 /\ t[Len(s) + 1] = x
      /\ Len(s) \in Nat /\ \A k \in 1..Len(s) : t[k] = s[k]
  BY AppendProperties
<1> HIDE DEF t
<1>2. PICK g : Chain(g, t, S) /\ FlattenSeq(t) = g[Len(s) + 1]
  <2>1. Len(t) > 0
    BY <1>1
  <2> QED
    BY <1>1, <2>1, FlattenIsChain
<1>3. CASE Len(s) = 0
  <2>1. s = <<>> /\ FlattenSeq(t) = x
    BY <1>1, <1>2, <1>3, EmptySeq DEF Chain
  <2>2. <<>> \o x = x
    BY ConcatEmptySeq
  <2> QED
    BY <2>1, <2>2, FlattenEmpty DEF t
<1>4. CASE Len(s) > 0
  <2>1. PICK f : Chain(f, s, S) /\ FlattenSeq(s) = f[Len(s)]
    BY <1>4, FlattenIsChain
  <2>2. f[Len(s)] = g[Len(s)]
    <3>1. Agree(f, g, Len(s))
      <4>1. Len(s) <= Len(t) /\ Agree(s, t, Len(s))
        BY <1>1 DEF Agree
      <4>2. Chain(f, s, S) /\ Chain(g, t, S)
        BY <1>2, <2>1
      <4> QED
        BY <1>1, <4>1, <4>2, ChainsAgree, Zenon
    <3> QED
      BY <1>1, <1>4, <3>1 DEF Agree
  <2>3. Len(s) + 1 \in 2..Len(t) /\ (Len(s) + 1) - 1 = Len(s)
    BY <1>1, <1>4
  <2>4. g[Len(s) + 1] = g[Len(s)] \o x
    BY <1>1, <1>2, <2>3 DEF Chain
  <2> QED
    BY <1>2, <2>1, <2>2, <2>4 DEF t
<1> QED
  BY <1>1, <1>3, <1>4

\* The first k of the sequences, one behind the other.
Joined(s, k) == FlattenSeq(SubSeq(s, 1, k))

LEMMA JoinedType ==
  ASSUME NEW S, NEW s \in Seq(Seq(S))
  PROVE  /\ Joined(s, 0) = <<>> /\ Joined(s, Len(s)) = FlattenSeq(s)
         /\ \A k \in 0..Len(s) : Joined(s, k) \in Seq(S)
<1>1. SubSeq(s, 1, 0) = <<>> /\ SubSeq(s, 1, Len(s)) = s
  BY SubSeqEmpty, SubSeqFull
<1>2. ASSUME NEW k \in 0..Len(s) PROVE SubSeq(s, 1, k) \in Seq(Seq(S))
  BY SubSeqProperties
<1>3. \A k \in 0..Len(s) : Joined(s, k) \in Seq(S)
  BY <1>2, FlattenType DEF Joined
<1> QED
  BY <1>1, <1>3, FlattenEmpty DEF Joined

LEMMA JoinedNext ==
  ASSUME NEW S, NEW s \in Seq(Seq(S)), NEW k \in 1..Len(s)
  PROVE  /\ Joined(s, k) = Joined(s, k - 1) \o s[k]
         /\ Joined(s, k - 1) \in Seq(S) /\ Joined(s, k) \in Seq(S) /\ s[k] \in Seq(S)
         /\ Len(Joined(s, k)) = Len(Joined(s, k - 1)) + Len(s[k])
<1>1. s[k] \in Seq(S) /\ k - 1 \in 0..Len(s) /\ k \in 0..Len(s)
  OBVIOUS
<1>2. SubSeq(s, 1, k - 1) \in Seq(Seq(S))
  BY <1>1, SubSeqProperties
<1>3. SubSeq(s, 1, k) = Append(SubSeq(s, 1, k - 1), s[k])
  BY <1>1, <1>2
<1>4. Joined(s, k) = Joined(s, k - 1) \o s[k]
  BY <1>1, <1>2, <1>3, FlattenAppend DEF Joined
<1>5. Joined(s, k - 1) \in Seq(S) /\ Joined(s, k) \in Seq(S)
  BY <1>1, JoinedType
<1> QED
  BY <1>1, <1>4, <1>5, ConcatProperties

\* What has been put together stays where it is.
Begins(a, b) == Len(a) <= Len(b) /\ \A i \in 1..Len(a) : b[i] = a[i]

LEMMA JoinedBegins ==
  ASSUME NEW S, NEW s \in Seq(Seq(S)), NEW k \in 0..Len(s), NEW n \in k..Len(s)
  PROVE  Begins(Joined(s, k), Joined(s, n))
<1> DEFINE T == {j \in k..Len(s) : Begins(Joined(s, k), Joined(s, j))}
<1>1. Len(s) \in Nat /\ k \in Nat /\ Joined(s, k) \in Seq(S)
  BY JoinedType
<1>2. k \in T
  BY <1>1 DEF Begins
<1>3. ASSUME NEW j \in k..(Len(s) - 1), j \in T PROVE j + 1 \in T
  <2>1. j + 1 \in 1..Len(s) /\ j + 1 \in k..Len(s) /\ (j + 1) - 1 = j
    BY <1>1
  <2>2. /\ Joined(s, j + 1) = Joined(s, j) \o s[j + 1]
        /\ Joined(s, j) \in Seq(S) /\ s[j + 1] \in Seq(S)
    BY <2>1, JoinedNext
  <2>3. Begins(Joined(s, k), Joined(s, j))
    BY <1>3
  <2>4. \A a, b, c \in Seq(S) : Begins(a, b) => Begins(a, b \o c)
    BY ConcatProperties DEF Begins
  <2>5. Begins(Joined(s, k), Joined(s, j + 1))
    BY <1>1, <2>2, <2>3, <2>4
  <2> QED
    BY <2>1, <2>5
<1> HIDE DEF T
<1>4. \A j \in k..Len(s) : j \in T
  BY <1>1, <1>2, <1>3, Counting
<1>5. n \in T
  BY <1>4
<1> QED
  BY <1>5 DEF T

\* Where the k-th of the sequences is in all of them.
LEMMA JoinedAt ==
  ASSUME NEW S, NEW s \in Seq(Seq(S)), NEW k \in 1..Len(s)
  PROVE  /\ Len(Joined(s, k - 1)) \in Nat
         /\ Len(Joined(s, k - 1)) + Len(s[k]) = Len(Joined(s, k))
         /\ Len(Joined(s, k)) <= Len(FlattenSeq(s))
         /\ \A i \in 1..Len(s[k]) : FlattenSeq(s)[Len(Joined(s, k - 1)) + i] = s[k][i]
<1>1. /\ Joined(s, k) = Joined(s, k - 1) \o s[k]
      /\ Joined(s, k - 1) \in Seq(S) /\ Joined(s, k) \in Seq(S) /\ s[k] \in Seq(S)
      /\ Len(Joined(s, k)) = Len(Joined(s, k - 1)) + Len(s[k])
  BY JoinedNext
<1>2. Begins(Joined(s, k), FlattenSeq(s))
  <2>1. k \in 0..Len(s) /\ Len(s) \in k..Len(s)
    OBVIOUS
  <2> QED
    BY <2>1, JoinedBegins, JoinedType
<1>3. ASSUME NEW i \in 1..Len(s[k])
      PROVE  FlattenSeq(s)[Len(Joined(s, k - 1)) + i] = s[k][i]
  <2>1. Len(Joined(s, k - 1)) + i \in 1..Len(Joined(s, k))
    BY <1>1
  <2>2. Joined(s, k)[Len(Joined(s, k - 1)) + i] = s[k][i]
    BY <1>1, ConcatProperties
  <2> QED
    BY <1>2, <2>1, <2>2 DEF Begins
<1>4. Len(Joined(s, k)) <= Len(FlattenSeq(s))
  BY <1>2 DEF Begins
<1>5. Len(Joined(s, k - 1)) \in Nat
  BY <1>1
<1> QED
  BY <1>1, <1>3, <1>4, <1>5

(***************************************************************************)
(* Where in the file what stands.                                          *)
(***************************************************************************)

Machine == [address : [1..4 -> Byte], names : Seq(Seq(Byte \ {Nul}))]

\* The bytes of each machine, the place where the r-th machine ends, and the
\* place in front of its name k + 1.
Bytes(t) == [i \in DOMAIN t |-> RecordBytes(t[i])]
Start(t, r) == Len(Joined(Bytes(t), r))
NameStart(t, r, k) == Start(t, r - 1) + 8 + Len(Joined(NameBytes(t[r]), k))

LEMMA Constants ==
  /\ ByteRange \in Nat /\ ByteRange > Dot /\ ByteRange <= 256 /\ Dot = 46
  /\ UintRange \in Nat /\ UintRange >= ByteRange
  /\ MAX_NAME_LENGTH \in Nat /\ MAX_NAME_LENGTH > 2 /\ MaxWords \in Nat
  /\ Words \subseteq Name /\ Nul = 0 /\ Nul \in Byte
  /\ Byte \subseteq Nat /\ \A n \in Nat : n < ByteRange => n \in Byte
BY IpToolsAssumption DEF Dot, Nul, Byte

LEMMA CountBytesType ==
  ASSUME NEW n \in Nat
  PROVE  CountBytes(n) \in Seq(Byte) /\ Len(CountBytes(n)) = 4
<1>1. ByteRange \in Nat \ {0}
  BY Constants
<1>2. \A x \in Nat : x \div ByteRange \in Nat /\ x % ByteRange \in Byte
  BY <1>1 DEF Byte
<1> QED
  BY <1>2 DEF CountBytes

\* A number of one byte has zeros in front.
LEMMA CountBytesSmall ==
  ASSUME NEW n \in Byte
  PROVE  CountBytes(n) = <<0, 0, 0, n>>
<1>1. ByteRange \in Nat \ {0} /\ n \in Nat /\ n < ByteRange
  BY Constants DEF Byte
<1>2. n \div ByteRange = 0 /\ n % ByteRange = n
  BY <1>1
<1>3. 0 \div ByteRange = 0 /\ 0 % ByteRange = 0
  BY <1>1
<1> QED
  BY <1>2, <1>3 DEF CountBytes

LEMMA MachineBytes ==
  ASSUME NEW m \in Machine
  PROVE  /\ NameBytes(m) \in Seq(Seq(Byte)) /\ Len(NameBytes(m)) = Len(m.names)
         /\ \A k \in 1..Len(m.names) :
              /\ m.names[k] \in Seq(Byte \ {Nul}) /\ m.names[k] \in Name
              /\ NameBytes(m)[k] = Append(m.names[k], Nul)
              /\ Len(NameBytes(m)[k]) = Len(m.names[k]) + 1
<1>1. Len(m.names) \in Nat /\ DOMAIN m.names = 1..Len(m.names)
  BY DEF Machine
<1>2. ASSUME NEW k \in 1..Len(m.names)
      PROVE  /\ m.names[k] \in Seq(Byte \ {Nul}) /\ m.names[k] \in Seq(Byte)
             /\ Append(m.names[k], Nul) \in Seq(Byte)
             /\ Len(Append(m.names[k], Nul)) = Len(m.names[k]) + 1
  <2>1. m.names[k] \in Seq(Byte \ {Nul})
    BY <1>1 DEF Machine
  <2>2. m.names[k] \in Seq(Byte)
    BY <2>1, SeqMonotonic
  <2> QED
    BY <2>1, <2>2, Constants, AppendProperties
<1>3. NameBytes(m) \in Seq(Seq(Byte)) /\ Len(NameBytes(m)) = Len(m.names)
  BY <1>1, <1>2 DEF NameBytes
<1> QED
  BY <1>1, <1>2, <1>3 DEF NameBytes, Name

LEMMA TwoParts ==
  ASSUME NEW S, NEW a \in Seq(S), NEW b \in Seq(S)
  PROVE  /\ a \o b \in Seq(S) /\ Len(a \o b) = Len(a) + Len(b)
         /\ \A i \in 1..Len(a) : (a \o b)[i] = a[i]
         /\ \A i \in 1..Len(b) : (a \o b)[Len(a) + i] = b[i]
BY ConcatProperties

LEMMA RecordBytesIs ==
  ASSUME NEW m \in Machine
  PROVE  LET b == RecordBytes(m)
             f == FlattenSeq(NameBytes(m))
         IN  /\ b \in Seq(Byte) /\ f \in Seq(Byte) /\ Len(b) = 8 + Len(f)
             /\ \A i \in 1..4 :
                  b[i] = m.address[i] /\ b[4 + i] = CountBytes(Len(m.names))[i]
             /\ \A i \in 1..Len(f) : b[8 + i] = f[i]
<1> DEFINE f == FlattenSeq(NameBytes(m))
           c == CountBytes(Len(m.names))
<1>1. f \in Seq(Byte)
  BY MachineBytes, FlattenType
<1>2. c \in Seq(Byte) /\ Len(c) = 4
  <2>1. Len(m.names) \in Nat
    BY DEF Machine
  <2> QED
    BY <2>1, CountBytesType
<1>3. m.address \in Seq(Byte) /\ Len(m.address) = 4
  <2>1. m.address \in [1..4 -> Byte]
    BY DEF Machine
  <2>2. m.address = [i \in 1..4 |-> m.address[i]]
    BY <2>1
  <2>3. \A i \in 1..4 : m.address[i] \in Byte
    BY <2>1
  <2> DEFINE a == [i \in 1..4 |-> m.address[i]]
  <2>4. a \in Seq(Byte) /\ Len(a) = 4
    BY <2>3
  <2> QED
    BY <2>2, <2>4
<1> HIDE DEF f, c
<1> DEFINE h == m.address \o c
<1>4. /\ h \in Seq(Byte) /\ Len(h) = 8
      /\ \A i \in 1..4 : h[i] = m.address[i] /\ h[4 + i] = c[i]
  <2>1. PICK a \in Seq(Byte) : a = m.address /\ Len(a) = 4
    BY <1>3
  <2>2. h = a \o c
    BY <2>1, Zenon
  <2> HIDE DEF h
  <2>3. /\ h \in Seq(Byte) /\ Len(h) = Len(a) + Len(c)
        /\ \A i \in 1..Len(a) : h[i] = a[i]
        /\ \A i \in 1..Len(c) : h[Len(a) + i] = c[i]
    BY <1>2, <2>1, <2>2, TwoParts
  <2>4. Len(h) = 8 /\ h \in Seq(Byte)
    BY <1>2, <2>1, <2>3, SMT
  <2>5. \A i \in 1..4 : h[i] = a[i] /\ h[4 + i] = c[i]
    BY <1>2, <2>1, <2>3, SMT
  <2> QED
    BY <2>1, <2>4, <2>5, Zenon
<1>5. RecordBytes(m) = h \o f
  BY DEF RecordBytes, c, f
<1> HIDE DEF h, f, c
<1>6. /\ h \o f \in Seq(Byte) /\ Len(h \o f) = 8 + Len(f)
      /\ \A i \in 1..8 : (h \o f)[i] = h[i]
      /\ \A i \in 1..Len(f) : (h \o f)[8 + i] = f[i]
  <2>1. /\ h \o f \in Seq(Byte) /\ Len(h \o f) = Len(h) + Len(f)
        /\ \A i \in 1..Len(h) : (h \o f)[i] = h[i]
        /\ \A i \in 1..Len(f) : (h \o f)[Len(h) + i] = f[i]
    <3>1. h \in Seq(Byte) /\ f \in Seq(Byte)
      BY <1>1, <1>4
    <3> QED
      BY <3>1, TwoParts
  <2> QED
    BY <1>4, <2>1
<1>7. \A i \in 1..4 : i \in 1..8 /\ 4 + i \in 1..8
  OBVIOUS
<1>8. \A i \in 1..4 : RecordBytes(m)[i] = m.address[i] /\ RecordBytes(m)[4 + i] = c[i]
  BY <1>4, <1>5, <1>6, <1>7
<1> QED
  BY <1>1, <1>5, <1>6, <1>8 DEF c, f

LEMMA TableBytes ==
  ASSUME NEW t \in Seq(Machine)
  PROVE  /\ Bytes(t) \in Seq(Seq(Byte)) /\ Len(Bytes(t)) = Len(t) /\ Len(t) \in Nat
         /\ \A r \in 1..Len(t) : t[r] \in Machine /\ Bytes(t)[r] = RecordBytes(t[r])
         /\ Encode(t) = FlattenSeq(Bytes(t)) /\ Encode(t) \in Seq(Byte)
         /\ Start(t, 0) = 0 /\ Start(t, Len(t)) = Len(Encode(t))
<1>1. DOMAIN t = 1..Len(t) /\ Len(t) \in Nat /\ \A r \in 1..Len(t) : t[r] \in Machine
  OBVIOUS
<1>2. \A r \in 1..Len(t) : RecordBytes(t[r]) \in Seq(Byte)
  BY <1>1, RecordBytesIs
<1>3. /\ Bytes(t) \in Seq(Seq(Byte)) /\ Len(Bytes(t)) = Len(t)
      /\ \A r \in 1..Len(t) : Bytes(t)[r] = RecordBytes(t[r])
  BY <1>1, <1>2 DEF Bytes
<1>4. Encode(t) = FlattenSeq(Bytes(t))
  BY DEF Encode, Bytes
<1>5. Encode(t) \in Seq(Byte)
  BY <1>3, <1>4, FlattenType
<1>6. Start(t, 0) = 0 /\ Start(t, Len(t)) = Len(Encode(t))
  BY <1>3, <1>4, JoinedType, EmptySeq DEF Start
<1> QED
  BY <1>1, <1>3, <1>4, <1>5, <1>6

\* A record lies behind the one before it, its address and its count first.
LEMMA RecordAt ==
  ASSUME NEW t \in Seq(Machine), NEW r \in 1..Len(t)
  PROVE  LET at == Start(t, r - 1)
             f == FlattenSeq(NameBytes(t[r]))
         IN  /\ at \in Nat /\ Len(f) \in Nat /\ Start(t, r) = at + 8 + Len(f)
             /\ Start(t, r) <= Len(Encode(t))
             /\ \A i \in 1..4 : /\ Encode(t)[at + i] = t[r].address[i]
                                /\ Encode(t)[at + 4 + i] = CountBytes(Len(t[r].names))[i]
             /\ \A i \in 1..Len(f) : Encode(t)[at + 8 + i] = f[i]
<1> DEFINE at == Start(t, r - 1)
           f == FlattenSeq(NameBytes(t[r]))
           b == RecordBytes(t[r])
<1>1. /\ Bytes(t) \in Seq(Seq(Byte)) /\ r \in 1..Len(Bytes(t)) /\ t[r] \in Machine
      /\ Bytes(t)[r] = b /\ Encode(t) = FlattenSeq(Bytes(t))
  BY TableBytes
<1>2. /\ b \in Seq(Byte) /\ f \in Seq(Byte) /\ Len(b) = 8 + Len(f)
      /\ \A i \in 1..4 :
           b[i] = t[r].address[i] /\ b[4 + i] = CountBytes(Len(t[r].names))[i]
      /\ \A i \in 1..Len(f) : b[8 + i] = f[i]
  BY <1>1, RecordBytesIs
<1> HIDE DEF b
<1>3. /\ at \in Nat /\ at + Len(b) = Start(t, r) /\ Start(t, r) <= Len(Encode(t))
      /\ \A i \in 1..Len(b) : Encode(t)[at + i] = b[i]
  <2> DEFINE B == Bytes(t)
  <2>1. B \in Seq(Seq(Byte)) /\ r \in 1..Len(B) /\ B[r] = b /\ Encode(t) = FlattenSeq(B)
    BY <1>1
  <2>2. at = Len(Joined(B, r - 1)) /\ Start(t, r) = Len(Joined(B, r))
    BY DEF Start
  <2> HIDE DEF B, at
  <2>3. /\ Len(Joined(B, r - 1)) \in Nat
        /\ Len(Joined(B, r - 1)) + Len(B[r]) = Len(Joined(B, r))
        /\ Len(Joined(B, r)) <= Len(FlattenSeq(B))
        /\ \A i \in 1..Len(B[r]) : FlattenSeq(B)[Len(Joined(B, r - 1)) + i] = B[r][i]
    BY <2>1, JoinedAt
  <2> QED
    BY <2>1, <2>2, <2>3
<1> HIDE DEF at, f
<1>4. Len(f) \in Nat
  BY <1>2
<1>5. ASSUME NEW i \in 1..4
      PROVE  /\ Encode(t)[at + i] = t[r].address[i]
             /\ Encode(t)[at + 4 + i] = CountBytes(Len(t[r].names))[i]
  <2>0. Len(b) \in Nat /\ Len(b) >= 8 /\ at \in Nat
    BY <1>2, <1>3, <1>4
  <2>1. i \in 1..Len(b) /\ 4 + i \in 1..Len(b) /\ at + (4 + i) = at + 4 + i
    BY <2>0
  <2>2. Encode(t)[at + i] = b[i] /\ Encode(t)[at + (4 + i)] = b[4 + i]
    BY <1>3, <2>1
  <2>3. b[i] = t[r].address[i] /\ b[4 + i] = CountBytes(Len(t[r].names))[i]
    BY <1>2
  <2> QED
    BY <2>1, <2>2, <2>3
<1>6. ASSUME NEW i \in 1..Len(f)
      PROVE  Encode(t)[at + 8 + i] = f[i]
  <2>1. 8 + i \in 1..Len(b) /\ at + (8 + i) = at + 8 + i
    BY <1>2, <1>3, <1>4
  <2> QED
    BY <1>2, <1>3, <2>1
<1>7. Start(t, r) = at + 8 + Len(f)
  BY <1>2, <1>3, <1>4
<1> QED
  BY <1>3, <1>4, <1>5, <1>6, <1>7 DEF at, f

\* The names of a record follow, each with a NUL behind it.
LEMMA NameAt ==
  ASSUME NEW t \in Seq(Machine), NEW r \in 1..Len(t), NEW k \in 1..Len(t[r].names)
  PROVE  LET at == NameStart(t, r, k - 1)
             name == t[r].names[k]
         IN  /\ at \in Nat /\ NameStart(t, r, k) = at + Len(name) + 1
             /\ at >= Start(t, r - 1) + 8 /\ NameStart(t, r, k) <= Start(t, r)
             /\ \A i \in 1..Len(name) : Encode(t)[at + i] = name[i]
             /\ Encode(t)[at + Len(name) + 1] = Nul
<1> DEFINE m == t[r]
           B == NameBytes(m)
           begin == Start(t, r - 1)
           off == Len(Joined(B, k - 1))
           name == m.names[k]
<1>1. m \in Machine
  OBVIOUS
<1>2. /\ B \in Seq(Seq(Byte)) /\ k \in 1..Len(B) /\ name \in Seq(Byte \ {Nul})
      /\ name \in Name /\ B[k] = Append(name, Nul) /\ Len(B[k]) = Len(name) + 1
  BY <1>1, MachineBytes
<1>3. /\ begin \in Nat /\ Len(FlattenSeq(B)) \in Nat
      /\ Start(t, r) = begin + 8 + Len(FlattenSeq(B))
      /\ \A i \in 1..Len(FlattenSeq(B)) : Encode(t)[begin + 8 + i] = FlattenSeq(B)[i]
  BY RecordAt
<1>4. NameStart(t, r, k - 1) = begin + 8 + off
      /\ NameStart(t, r, k) = begin + 8 + Len(Joined(B, k))
  BY DEF NameStart
<1>5. Len(name) \in Nat /\ \A i \in 1..Len(name) : B[k][i] = name[i]
  BY <1>2, AppendProperties
<1>6. B[k][Len(name) + 1] = Nul
  BY <1>2, AppendProperties, SMTT(60)
<1> HIDE DEF m, B, begin, name
<1>7. /\ off \in Nat /\ off + Len(B[k]) = Len(Joined(B, k))
      /\ Len(Joined(B, k)) <= Len(FlattenSeq(B))
      /\ \A i \in 1..Len(B[k]) : FlattenSeq(B)[off + i] = B[k][i]
  BY <1>2, JoinedAt
<1> HIDE DEF off
<1>8. ASSUME NEW i \in 1..(Len(name) + 1)
      PROVE  Encode(t)[(begin + 8 + off) + i] = B[k][i]
  <2>1. /\ off + i \in 1..Len(FlattenSeq(B)) /\ i \in 1..Len(B[k])
        /\ begin + 8 + (off + i) = (begin + 8 + off) + i
    BY <1>2, <1>3, <1>5, <1>7
  <2> QED
    BY <1>3, <1>7, <2>1
<1>9. \A i \in 1..Len(name) : Encode(t)[(begin + 8 + off) + i] = name[i]
  BY <1>5, <1>8
<1>10. Encode(t)[(begin + 8 + off) + Len(name) + 1] = Nul
  <2>1. /\ Len(name) + 1 \in 1..(Len(name) + 1)
        /\ (begin + 8 + off) + (Len(name) + 1) = (begin + 8 + off) + Len(name) + 1
    BY <1>3, <1>5, <1>7
  <2> QED
    BY <1>6, <1>8, <2>1
<1>11. /\ begin + 8 + off \in Nat /\ begin + 8 + off >= begin + 8
       /\ begin + 8 + Len(Joined(B, k)) = (begin + 8 + off) + Len(name) + 1
       /\ begin + 8 + Len(Joined(B, k)) <= Start(t, r)
  <2>1. Len(B[k]) = Len(name) + 1 /\ Len(Joined(B, k)) = off + (Len(name) + 1)
    BY <1>2, <1>7, Zenon
  <2>2. PICK a, b, c \in Nat : a = begin /\ b = off /\ c = Len(name)
    BY <1>3, <1>5, <1>7
  <2>3. PICK d \in Nat : d = Len(FlattenSeq(B))
    BY <1>3
  <2>4. b + (c + 1) <= d /\ Start(t, r) = a + 8 + d
    BY <1>3, <1>7, <2>1, <2>2, <2>3, Zenon
  <2> QED
    BY <2>1, <2>2, <2>4
<1> QED
  BY <1>4, <1>9, <1>10, <1>11 DEF m, begin, name

\* The first name begins behind the count, the last ends with the record.
LEMMA NamesSpan ==
  ASSUME NEW t \in Seq(Machine), NEW r \in 1..Len(t)
  PROVE  /\ NameStart(t, r, 0) = Start(t, r - 1) + 8
         /\ NameStart(t, r, Len(t[r].names)) = Start(t, r)
<1> DEFINE B == NameBytes(t[r])
<1>1. t[r] \in Machine
  OBVIOUS
<1>2. B \in Seq(Seq(Byte)) /\ Len(B) = Len(t[r].names)
  BY <1>1, MachineBytes
<1>3. Start(t, r - 1) \in Nat /\ Start(t, r) = Start(t, r - 1) + 8 + Len(FlattenSeq(B))
  BY RecordAt
<1> HIDE DEF B
<1>4. Len(Joined(B, 0)) = 0 /\ Joined(B, Len(B)) = FlattenSeq(B)
  BY <1>2, JoinedType, EmptySeq
<1>5. /\ NameStart(t, r, 0) = Start(t, r - 1) + 8 + Len(Joined(B, 0))
      /\ NameStart(t, r, Len(t[r].names)) = Start(t, r - 1) + 8 + Len(Joined(B, Len(B)))
  BY <1>2 DEF NameStart, B
<1> QED
  BY <1>3, <1>4, <1>5

(***************************************************************************)
(* What a read returns.                                                    *)
(***************************************************************************)

LEMMA TerminatorIs ==
  ASSUME file \in Seq(Byte), pos \in 0..Len(file)
  PROVE  /\ Terminator \in Nat /\ Terminator > pos /\ Terminator <= Len(file) + 1
         /\ Terminator <= Len(file) => file[Terminator] = Nul
         /\ \A i \in pos + 1..Len(file) : file[i] = Nul => Terminator <= i
<1> DEFINE nuls == {i \in pos + 1..Len(file) : file[i] = Nul}
<1>0. Len(file) \in Nat /\ pos \in Nat /\ pos <= Len(file)
  OBVIOUS
<1>1. Terminator = IF nuls = {} THEN Len(file) + 1
                   ELSE CHOOSE i \in nuls : \A j \in nuls : i <= j
  BY DEF Terminator
<1>2. \A i : i \in nuls <=> i \in pos + 1..Len(file) /\ file[i] = Nul
  OBVIOUS
<1>3. nuls \subseteq Nat
  BY <1>0
<1> HIDE DEF nuls
<1>4. CASE nuls = {}
  BY <1>0, <1>1, <1>2, <1>4
<1>5. CASE nuls # {}
  <2>1. Terminator \in nuls /\ \A j \in nuls : Terminator <= j
    BY <1>1, <1>3, <1>5, LeastOf
  <2> QED
    BY <1>0, <1>2, <2>1
<1> QED
  BY <1>4, <1>5

LEMMA FunctionIsSeq ==
  ASSUME NEW n \in Nat, NEW S, NEW f \in [1..n -> S]
  PROVE  f \in Seq(S) /\ Len(f) = n
<1>1. f = [i \in 1..n |-> f[i]] /\ \A i \in 1..n : f[i] \in S
  OBVIOUS
<1> DEFINE g == [i \in 1..n |-> f[i]]
<1>2. g \in Seq(S) /\ Len(g) = n
  BY <1>1
<1> QED
  BY <1>1, <1>2

\* There is at most one local name: only one dot is the first.
LEMMA LocalsIs ==
  ASSUME NEW name \in Name
  PROVE  /\ SetToSeq(Locals(name)) \in Seq(Locals(name))
         /\ Locals(name) \subseteq Name
         /\ SetToSeq(Locals(name)) \in Seq(Name)
         /\ name # <<>> /\ name[1] # Dot => \A x \in Locals(name) : x # <<>>
<1> DEFINE First(i) == /\ i \in DOMAIN name /\ name[i] = Dot
                       /\ \A j \in 1..i - 1 : name[j] # Dot
<1>1. \A x : x \in Locals(name) <=> \E i : First(i) /\ x = SubSeq(name, 1, i - 1)
  BY DEF Locals
<1>2. Len(name) \in Nat /\ name \in Seq(Byte) /\ DOMAIN name = 1..Len(name)
  BY DEF Name
<1>3. \A i, j : First(i) /\ First(j) => i = j
  <2> SUFFICES ASSUME NEW i, NEW j, First(i), First(j), i # j PROVE FALSE
    OBVIOUS
  <2>1. i \in Nat /\ j \in Nat /\ i >= 1 /\ j >= 1
    BY <1>2
  <2>2. i \in 1..j - 1 \/ j \in 1..i - 1
    BY <2>1
  <2> QED
    BY <2>2
<1>4. \A i : First(i) => SubSeq(name, 1, i - 1) \in Name
  BY <1>2, SubSeqProperties DEF Name
<1>5. ASSUME name # <<>>, name[1] # Dot, NEW i, First(i) PROVE SubSeq(name, 1, i - 1) # <<>>
  <2>1. i \in 2..Len(name)
    BY <1>2, <1>5
  <2>2. Len(SubSeq(name, 1, i - 1)) = i - 1
    BY <1>2, <2>1
  <2> QED
    BY <2>1, <2>2
<1> HIDE DEF First
<1>6. Locals(name) \subseteq Name
  BY <1>1, <1>4
<1>7. SetToSeq(Locals(name)) \in Seq(Locals(name))
  <2>1. CASE Locals(name) = {}
    <3>1. Cardinality(Locals(name)) = 0
      BY <2>1, FS_EmptySet
    <3> DEFINE f == [i \in 1..0 |-> i]
    <3>2. f \in [1..0 -> Locals(name)] /\ IsInjective(f)
      BY DEF IsInjective
    <3> HIDE DEF f
    <3>3. SetToSeq(Locals(name)) \in [1..0 -> Locals(name)]
      BY <3>1, <3>2 DEF SetToSeq
    <3> QED
      BY <3>3, FunctionIsSeq
  <2>2. CASE Locals(name) # {}
    <3>0. PICK i : First(i)
      BY <1>1, <2>2
    <3>1. PICK x : Locals(name) = {x}
      <4>1. Locals(name) = {SubSeq(name, 1, i - 1)}
        BY <1>1, <1>3, <3>0
      <4> QED
        BY <4>1
    <3>2. Cardinality(Locals(name)) = 1
      BY <3>1, FS_Singleton
    <3> DEFINE f == [j \in 1..1 |-> x]
    <3>3. f \in [1..1 -> Locals(name)] /\ IsInjective(f)
      BY <3>1 DEF IsInjective
    <3> HIDE DEF f
    <3>4. SetToSeq(Locals(name)) \in [1..1 -> Locals(name)]
      BY <3>2, <3>3 DEF SetToSeq
    <3> QED
      BY <3>4, FunctionIsSeq
  <2> QED
    BY <2>1, <2>2
<1>8. SetToSeq(Locals(name)) \in Seq(Name)
  BY <1>6, <1>7, SeqMonotonic
<1> QED
  BY <1>1, <1>5, <1>6, <1>7, <1>8

LEMMA NumNamesType ==
  ASSUME file \in Seq(Byte), pos \in Nat
  PROVE  NumNames \in Nat
<1>1. ASSUME NEW x \in Nat, NEW y \in Nat PROVE intcat(x, y) \in Nat
  <2>1. UintRange \in Nat /\ UintRange > 0
    BY Constants
  <2>2. \A z \in Nat : z % UintRange \in Nat
    BY <2>1
  <2>3. PICK z \in Nat :
            z = x * (IF y < 10 THEN 10 ELSE IF y < 100 THEN 100 ELSE 1000) + y
    OBVIOUS
  <2>4. intcat(x, y) = z % UintRange
    BY <2>3 DEF intcat
  <2> QED
    BY <2>2, <2>4
<1>2. ASSUME NEW i \in 1..4 PROVE CountByte(i) \in Nat
  <2>1. Len(file) \in Nat /\ \A j \in 1..Len(file) : file[j] \in Byte
    OBVIOUS
  <2>2. \A j \in 1..Len(file) : file[j] \in Nat
    BY <2>1, Constants
  <2> QED
    BY <2>1, <2>2 DEF CountByte, ByteOr, Last
<1>3. PICK a, b, c, d \in Nat :
          a = CountByte(1) /\ b = CountByte(2) /\ c = CountByte(3) /\ d = CountByte(4)
  BY <1>2
<1>4. \A x, y \in Nat : intcat(x, y) \in Nat
  BY <1>1
<1>5. intcat(intcat(intcat(intcat(0, a), b), c), d) \in Nat
  <2>1. 0 \in Nat
    OBVIOUS
  <2> QED
    BY <1>4, <2>1, Zenon
<1> QED
  BY <1>3, <1>5 DEF NumNames

LEMMA NameReadType ==
  ASSUME file \in Seq(Byte), pos \in 0..Len(file)
  PROVE  NameRead \in Name /\ NameEnd \in 0..Len(file)
<1>1. /\ Terminator \in Nat /\ Terminator > pos /\ Terminator <= Len(file) + 1
      /\ Len(file) \in Nat /\ pos \in Nat /\ pos <= Len(file)
      /\ Room \in Nat
  BY TerminatorIs, Constants DEF Room
<1>2. \A i \in 1..Len(file) : file[i] \in Byte
  OBVIOUS
<1>3. NameEnd \in 0..Len(file)
  BY <1>1 DEF NameEnd, InTime, Upto
<1>4. CASE InTime
  <2>1. \A i \in pos + 1..Terminator - 1 : file[i] \in Byte
    BY <1>1, <1>2, <1>4 DEF InTime
  <2>2. SubSeq(file, pos + 1, Terminator - 1) \in Seq(Byte)
    BY <1>1, <1>4 DEF InTime
  <2> QED
    BY <1>3, <1>4, <2>2 DEF NameRead, Name
<1>5. CASE ~InTime /\ TooLong
  <2>1. pos + Room <= Len(file)
    BY <1>1, <1>5 DEF TooLong
  <2>2. SubSeq(file, pos + 1, pos + Room) \in Seq(Byte)
    BY <1>1, <2>1
  <2> QED
    BY <1>3, <1>5, <2>2 DEF NameRead, Name
<1>6. CASE ~InTime /\ ~TooLong /\ pos = Len(file)
  <2>1. <<>> \in Seq(Byte)
    BY EmptySeq
  <2> QED
    BY <1>3, <1>6, <2>1 DEF NameRead, Name
<1>7. CASE ~InTime /\ ~TooLong /\ pos # Len(file)
  <2>1. \A i \in 1..Room : ByteOr(pos + i, Last(file)) \in Byte
    BY <1>1, <1>2, <1>7 DEF ByteOr, Last
  <2>2. [i \in 1..Room |-> ByteOr(pos + i, Last(file))] \in Seq(Byte)
    BY <1>1, <2>1
  <2> QED
    BY <1>3, <1>7, <2>2 DEF NameRead, Name
<1> QED
  BY <1>4, <1>5, <1>6, <1>7

(***************************************************************************)
(* Types.                                                                  *)
(***************************************************************************)

\* While names are inserted there is a record that they belong to.
Inserting ==
    stage = "insert" =>
        /\ ip_list # <<>> /\ ip = ip_list[Len(ip_list)]
        /\ left <= Len(ip.names)

Inv == TypeOK /\ Inserting

LEMMA InitInv == Init => Inv
<1> SUFFICES ASSUME Init PROVE Inv
  OBVIOUS
<1>1. table \in Seq(Machine)
  BY IpToolsAssumption DEF Init, Machine
<1>2. Encode(table) \in Seq(Byte)
  BY <1>1, TableBytes
<1>3. file \in Seq(Byte) /\ 0 \in 0..Len(file)
  <2>1. PICK n \in 0..Len(Encode(table)) : file = SubSeq(Encode(table), 1, n)
    BY DEF Init
  <2>2. file \in Seq(Byte)
    BY <1>2, <2>1, SubSeqProperties
  <2> QED
    BY <2>2
<1>4. NoIp \in [address : Seq(Byte), names : Seq(Name)]
  <2>1. <<>> \in Seq(Name)
    BY EmptySeq
  <2>2. <<0, 0, 0, 0>> \in Seq(Byte)
    BY Constants
  <2> QED
    BY <2>1, <2>2 DEF NoIp
<1>5. DOMAIN ip_tree = {}
  BY DEF Init
<1>6. input \in Name /\ typed \in Seq(Words) /\ Len(typed) <= MaxWords
  BY Constants, EmptySeq DEF Init, Name
<1>7. /\ answers \in Seq([word : Name, ips : Seq(DOMAIN ip_list)])
      /\ ip_list \in Seq([address : Seq(Byte), names : Seq(Name)])
  BY EmptySeq DEF Init
<1> QED
  BY <1>3, <1>4, <1>5, <1>6, <1>7 DEF Init, Inv, TypeOK, Inserting

\* A list that has grown has the records it had.
LEMMA ListGrows ==
  ASSUME NEW S, NEW s \in Seq(S), NEW x \in S
  PROVE  /\ Append(s, x) \in Seq(S) /\ Len(Append(s, x)) = Len(s) + 1
         /\ DOMAIN s \subseteq DOMAIN Append(s, x)
         /\ Append(s, x)[Len(s) + 1] = x /\ \A i \in DOMAIN s : Append(s, x)[i] = s[i]
         /\ \A i \in DOMAIN Append(s, x) : i \in DOMAIN s \/ i = Len(s) + 1
BY AppendProperties

LEMMA ReadHeaderType == Inv /\ ReadHeader => Inv'
<1> SUFFICES ASSUME Inv, ReadHeader PROVE Inv'
  OBVIOUS
<1>1. /\ file \in Seq(Byte) /\ Len(file) \in Nat /\ pos \in 0..Len(file) /\ pos \in Nat
      /\ \A i \in 1..Len(file) : file[i] \in Byte
  BY DEF Inv, TypeOK
<1>2. left' \in Nat
  BY <1>1, NumNamesType DEF ReadHeader
<1>3. pos' \in 0..Len(file)
  BY <1>1 DEF ReadHeader, Upto
<1>4. ip' \in [address : Seq(Byte), names : Seq(Name)]
  <2>1. \A i \in 1..4 : ByteOr(pos + i, 0) \in Byte
    BY <1>1, Constants DEF ByteOr
  <2> DEFINE a == [i \in 1..4 |-> ByteOr(pos + i, 0)]
  <2>2. a \in Seq(Byte)
    BY <2>1
  <2>3. <<>> \in Seq(Name)
    BY EmptySeq
  <2>4. ip' = [address |-> a, names |-> <<>>]
    BY DEF ReadHeader
  <2> HIDE DEF a
  <2> QED
    BY <2>2, <2>3, <2>4
<1>5. feof' \in BOOLEAN /\ stage' = "names"
  BY DEF ReadHeader
<1> QED
  BY <1>2, <1>3, <1>4, <1>5 DEF Inv, TypeOK, Inserting, ReadHeader

LEMMA ReadNameType == Inv /\ ReadName => Inv'
<1> SUFFICES ASSUME Inv, ReadName PROVE Inv'
  OBVIOUS
<1>1. /\ file \in Seq(Byte) /\ pos \in 0..Len(file) /\ left \in Nat
      /\ ip \in [address : Seq(Byte), names : Seq(Name)]
  BY DEF Inv, TypeOK
<1>2. NameRead \in Name /\ NameEnd \in 0..Len(file)
  BY <1>1, NameReadType
<1>3. left' \in Nat
  BY <1>1 DEF ReadName
<1>4. ip' \in [address : Seq(Byte), names : Seq(Name)]
  <2>1. SetToSeq(Locals(NameRead)) \in Seq(Name) /\ <<NameRead>> \in Seq(Name)
    BY <1>2, LocalsIs
  <2>2. ip.names \o <<NameRead>> \o SetToSeq(Locals(NameRead)) \in Seq(Name)
    BY <1>1, <2>1, ConcatProperties
  <2>3. ip' = [ip EXCEPT !.names = ip.names \o <<NameRead>> \o SetToSeq(Locals(NameRead))]
    BY DEF ReadName
  <2> QED
    BY <1>1, <2>2, <2>3
<1> QED
  BY <1>2, <1>3, <1>4 DEF Inv, TypeOK, Inserting, ReadName

LEMMA EndRecordType == Inv /\ EndRecord => Inv'
<1> SUFFICES ASSUME Inv, EndRecord PROVE Inv'
  OBVIOUS
<1> DEFINE S == [address : Seq(Byte), names : Seq(Name)]
<1>1. ip_list \in Seq(S) /\ ip \in S
  BY DEF Inv, TypeOK
<1>2. /\ ip_list' \in Seq(S) /\ Len(ip_list') = Len(ip_list) + 1
      /\ DOMAIN ip_list \subseteq DOMAIN ip_list'
      /\ ip_list'[Len(ip_list) + 1] = ip
  <2> HIDE DEF S
  <2> QED
    BY <1>1, ListGrows DEF EndRecord
<1>3. Len(ip.names) \in Nat /\ left' = Len(ip.names) /\ ip' = ip
  BY <1>1 DEF EndRecord
<1>4. Inserting'
  <2>1. ip_list' # <<>> /\ ip' = ip_list'[Len(ip_list')]
    BY <1>1, <1>2, <1>3
  <2> QED
    BY <1>3, <2>1 DEF Inserting
<1>5. Seq(DOMAIN ip_list) \subseteq Seq(DOMAIN ip_list')
  BY <1>2, SeqMonotonic
<1>6. ip_tree' = ip_tree /\ \A n \in DOMAIN ip_tree :
          n \in Name /\ ip_tree[n] \in Seq(DOMAIN ip_list') /\ ip_tree[n] # <<>>
  BY <1>5 DEF Inv, TypeOK, EndRecord
<1>7. answers' \in Seq([word : Name, ips : Seq(DOMAIN ip_list')])
  <2>1. [word : Name, ips : Seq(DOMAIN ip_list)]
          \subseteq [word : Name, ips : Seq(DOMAIN ip_list')]
    BY <1>5
  <2>2. answers \in Seq([word : Name, ips : Seq(DOMAIN ip_list)]) /\ answers' = answers
    BY DEF Inv, TypeOK, EndRecord
  <2> QED
    BY <2>1, <2>2, SeqMonotonic
<1> HIDE DEF S
<1>8. TypeOK'
  <2>1. stage' = "insert"
    BY DEF EndRecord
  <2> QED
    BY <1>1, <1>2, <1>3, <1>6, <1>7, <2>1 DEF Inv, TypeOK, EndRecord, S
<1> QED
  BY <1>4, <1>8 DEF Inv

\* What InsertAt returns.
Inserted(t, S, s, i, e) ==
    /\ t \in Seq(S) /\ Len(t) = Len(s) + 1
    /\ \A j \in 1..i - 1 : t[j] = s[j]
    /\ t[i] = e
    /\ \A j \in i..Len(s) : t[j + 1] = s[j]

LEMMA InsertAtIs ==
  ASSUME NEW S, NEW s \in Seq(S), NEW e \in S, NEW i \in 1..Len(s) + 1
  PROVE  Inserted(InsertAt(s, i, e), S, s, i, e)
<1> DEFINE a == SubSeq(s, 1, i - 1)
           b == SubSeq(s, i, Len(s))
           u == a \o <<e>>
<1>1. Len(s) \in Nat /\ i \in Nat /\ i >= 1 /\ i <= Len(s) + 1
  OBVIOUS
<1>2. a \in Seq(S) /\ Len(a) = i - 1 /\ \A j \in 1..i - 1 : a[j] = s[j]
  BY <1>1
<1>3. b \in Seq(S) /\ Len(b) = Len(s) + 1 - i /\ \A j \in 1..Len(b) : b[j] = s[i - 1 + j]
  BY <1>1
<1> HIDE DEF a, b
<1>4. /\ u \in Seq(S) /\ Len(u) = i /\ \A j \in 1..i - 1 : u[j] = s[j]
      /\ u[i] = e
  BY <1>1, <1>2
<1> HIDE DEF u
<1>5. /\ u \o b \in Seq(S) /\ Len(u \o b) = Len(u) + Len(b)
      /\ \A j \in 1..Len(u) : (u \o b)[j] = u[j]
      /\ \A j \in 1..Len(b) : (u \o b)[Len(u) + j] = b[j]
  <2>1. u \in Seq(S) /\ b \in Seq(S)
    BY <1>3, <1>4
  <2> QED
    BY <2>1, TwoParts
<1>6. InsertAt(s, i, e) = u \o b
  BY DEF InsertAt, u, a, b
<1>7. Len(u \o b) = Len(s) + 1
  BY <1>1, <1>3, <1>4, <1>5
<1>8. ASSUME NEW j \in 1..i - 1 PROVE (u \o b)[j] = s[j]
  <2>1. j \in 1..Len(u)
    BY <1>1, <1>4
  <2> QED
    BY <1>4, <1>5, <2>1
<1>9. (u \o b)[i] = e
  <2>1. i \in 1..Len(u)
    BY <1>1, <1>4
  <2> QED
    BY <1>4, <1>5, <2>1
<1>10. ASSUME NEW j \in i..Len(s) PROVE (u \o b)[j + 1] = s[j]
  <2>1. j + 1 - i \in 1..Len(b) /\ i + (j + 1 - i) = j + 1 /\ i - 1 + (j + 1 - i) = j
    BY <1>1, <1>3
  <2>2. (u \o b)[i + (j + 1 - i)] = b[j + 1 - i]
    BY <1>4, <1>5, <2>1
  <2>3. b[j + 1 - i] = s[i - 1 + (j + 1 - i)]
    BY <1>3, <2>1
  <2> QED
    BY <2>1, <2>2, <2>3
<1> QED
  BY <1>5, <1>6, <1>7, <1>8, <1>9, <1>10 DEF Inserted

LEMMA UnderType ==
  ASSUME Inv, NEW w
  PROVE  Under(w) \in Seq(DOMAIN ip_list)
BY EmptySeq DEF Inv, TypeOK, Under

LEMMA InsertNameType == Inv /\ InsertName => Inv'
<1> SUFFICES ASSUME Inv, InsertName PROVE Inv'
  OBVIOUS
<1> DEFINE name == ip.names[left]
<1>1. /\ ip \in [address : Seq(Byte), names : Seq(Name)] /\ left \in Nat /\ left > 0
      /\ ip_list \in Seq([address : Seq(Byte), names : Seq(Name)])
      /\ ip_list # <<>> /\ left <= Len(ip.names)
  BY DEF Inv, TypeOK, Inserting, InsertName
<1>2. name \in Name /\ Len(ip_list) \in DOMAIN ip_list /\ left' \in Nat
  BY <1>1 DEF InsertName
<1>3. PICK i \in 1..IF Under(name) = <<>> THEN 1 ELSE Len(Under(name)) :
          ip_tree' = [n \in DOMAIN ip_tree \cup {name} |->
                        IF n = name THEN InsertAt(Under(name), i, Len(ip_list))
                        ELSE ip_tree[n]]
  BY DEF InsertName
<1>4. Under(name) \in Seq(DOMAIN ip_list)
  BY UnderType
<1>5. i \in 1..Len(Under(name)) + 1
  BY <1>3, <1>4
<1> HIDE DEF name
<1>6. /\ InsertAt(Under(name), i, Len(ip_list)) \in Seq(DOMAIN ip_list)
      /\ InsertAt(Under(name), i, Len(ip_list)) # <<>>
  <2>1. Len(InsertAt(Under(name), i, Len(ip_list))) = Len(Under(name)) + 1
        /\ InsertAt(Under(name), i, Len(ip_list)) \in Seq(DOMAIN ip_list)
    BY <1>2, <1>4, <1>5, InsertAtIs DEF Inserted
  <2>2. Len(Under(name)) \in Nat
    BY <1>4
  <2> QED
    BY <2>1, <2>2
<1>7. \A n \in DOMAIN ip_tree' :
        n \in Name /\ ip_tree'[n] \in Seq(DOMAIN ip_list) /\ ip_tree'[n] # <<>>
  BY <1>2, <1>3, <1>6 DEF Inv, TypeOK
<1>8. Inserting'
  BY <1>1 DEF Inv, Inserting, InsertName
<1>9. TypeOK'
  BY <1>2, <1>7 DEF Inv, TypeOK, InsertName
<1> QED
  BY <1>8, <1>9 DEF Inv

LEMMA AnswerType ==
  ASSUME Inv, NEW word \in Name, NEW more \in BOOLEAN, Answer(word, more)
  PROVE  /\ answers' \in Seq([word : Name, ips : Seq(DOMAIN ip_list)])
         /\ input' = word /\ stage' \in {"search", "end"}
         /\ \E i \in 0..Len(Under(word)) :
               /\ i = 0 <=> Under(word) = <<>>
               /\ Found(word, i) \in Seq(DOMAIN ip_list)
               /\ answers' = Append(answers, [word |-> word, ips |-> Found(word, i)])
<1>1. Under(word) \in Seq(DOMAIN ip_list)
  BY UnderType
<1>2. PICK i \in 0..Len(Under(word)) :
          /\ i = 0 <=> Under(word) = <<>>
          /\ answers' = Append(answers, [word |-> word, ips |-> Found(word, i)])
  BY DEF Answer
<1>3. Found(word, i) \in Seq(DOMAIN ip_list)
  BY <1>1, SubSeqProperties DEF Found
<1>4. answers' \in Seq([word : Name, ips : Seq(DOMAIN ip_list)])
  <2> DEFINE S == [word : Name, ips : Seq(DOMAIN ip_list)]
  <2>1. answers \in Seq(S) /\ [word |-> word, ips |-> Found(word, i)] \in S
    BY <1>3 DEF Inv, TypeOK
  <2> HIDE DEF S
  <2>2. answers' \in Seq(S)
    BY <1>2, <2>1, AppendProperties
  <2> QED
    BY <2>2 DEF S
<1> QED
  BY <1>2, <1>3, <1>4 DEF Answer

LEMMA SearchType == Inv /\ (Search \/ InputOverrun \/ SearchStale) => Inv'
<1> SUFFICES ASSUME Inv, Search \/ InputOverrun \/ SearchStale PROVE Inv'
  OBVIOUS
<1>1. CASE Search
  <2>1. PICK word \in Words, more \in BOOLEAN :
            typed' = Append(typed, word) /\ Answer(word, more)
    BY <1>1 DEF Search
  <2>2. word \in Name
    BY Constants
  <2>3. typed' \in Seq(Words) /\ Len(typed') <= MaxWords
    BY <1>1, <2>1, Constants DEF Inv, TypeOK, Search
  <2>4. /\ answers' \in Seq([word : Name, ips : Seq(DOMAIN ip_list)])
        /\ input' = word /\ stage' \in {"search", "end"}
    BY <2>1, <2>2, AnswerType
  <2>5. UNCHANGED <<table, file, prog, reading, ip_list, ip_tree, status>>
    BY <2>1 DEF Answer
  <2> QED
    BY <2>2, <2>3, <2>4, <2>5 DEF Inv, TypeOK, Inserting, reading
<1>2. CASE SearchStale
  <2>1. input \in Name /\ Answer(input, FALSE) /\ typed' = typed
    BY <1>2 DEF SearchStale, Inv, TypeOK
  <2>2. /\ answers' \in Seq([word : Name, ips : Seq(DOMAIN ip_list)])
        /\ input' = input /\ stage' \in {"search", "end"}
    BY <2>1, AnswerType
  <2>3. UNCHANGED <<table, file, prog, reading, ip_list, ip_tree, status>>
    BY <2>1 DEF Answer
  <2> QED
    BY <2>1, <2>2, <2>3 DEF Inv, TypeOK, Inserting, reading
<1>3. CASE InputOverrun
  <2>1. typed' \in Seq(Words) /\ Len(typed') <= MaxWords /\ status' = "overrun"
    BY <1>3, Constants DEF Inv, TypeOK, InputOverrun
  <2>2. UNCHANGED <<table, file, prog, pos, feof, ip, left, stage, ip_list, ip_tree,
                    input, answers>>
    BY <1>3 DEF InputOverrun, reading
  <2> QED
    BY <2>1, <2>2 DEF Inv, TypeOK, Inserting
<1> QED
  BY <1>1, <1>2, <1>3

LEMMA NextInv == Inv /\ [Next]_vars => Inv'
<1> SUFFICES ASSUME Inv, [Next]_vars PROVE Inv'
  OBVIOUS
<1>1. CASE StreamEnds \/ BufferEnds \/ EmptyName
  BY <1>1 DEF StreamEnds, BufferEnds, EmptyName, Dies, reading, Inv, TypeOK, Inserting
<1>2. CASE EndInsert \/ EndReading
  BY <1>2 DEF EndInsert, EndReading, reading, Inv, TypeOK, Inserting
<1>3. CASE UNCHANGED vars
  BY <1>3 DEF vars, reading, Inv, TypeOK, Inserting
<1> QED
  BY <1>1, <1>2, <1>3, ReadHeaderType, ReadNameType, EndRecordType, InsertNameType,
     SearchType DEF Next

LEMMA Invariance == Spec => []Inv
BY InitInv, NextInv, PTL DEF Spec

\* Whatever file is read and whatever is typed, every variable keeps its type:
\* what has been read are records of addresses and names, and what the tree
\* and the answers hold are records that have been read (main of lab2).
THEOREM TypeCorrect == Spec => []TypeOK
<1>1. Inv => TypeOK
  BY DEF Inv
<1> QED
  BY <1>1, Invariance, PTL

(***************************************************************************)
(* The file, and what reading at its places gives.                         *)
(***************************************************************************)

Cut == \E n \in 0..Len(Encode(table)) : file = SubSeq(Encode(table), 1, n)

LEMMA FileIs ==
  ASSUME Inv, Cut
  PROVE  /\ table \in Seq(Machine) /\ Len(table) \in Nat
         /\ file \in Seq(Byte) /\ Len(file) \in Nat /\ pos \in Nat /\ pos <= Len(file)
         /\ Len(Encode(table)) \in Nat /\ Len(file) <= Len(Encode(table))
         /\ \A i \in 1..Len(file) : file[i] = Encode(table)[i]
         /\ Whole => Len(file) = Len(Encode(table))
<1>1. table \in Seq(Machine) /\ Len(table) \in Nat
  <2>1. table \in Tables
    BY DEF Inv, TypeOK
  <2>2. table \in Seq(Machine)
    BY <2>1, IpToolsAssumption DEF Machine
  <2> QED
    BY <2>2
<1>2. file \in Seq(Byte) /\ Len(file) \in Nat /\ pos \in Nat /\ pos <= Len(file)
  BY DEF Inv, TypeOK
<1>3. Encode(table) \in Seq(Byte) /\ Len(Encode(table)) \in Nat
  BY <1>1, TableBytes
<1>4. PICK n \in 0..Len(Encode(table)) : file = SubSeq(Encode(table), 1, n)
  BY DEF Cut
<1>5. Len(file) = n /\ \A i \in 1..n : file[i] = Encode(table)[i]
  BY <1>3, <1>4
<1>6. Len(file) <= Len(Encode(table))
  BY <1>3, <1>5
<1>7. Whole => Len(file) = Len(Encode(table))
  BY DEF Whole
<1> QED
  BY <1>1, <1>2, <1>3, <1>5, <1>6, <1>7

LEMMA PlainIs ==
  ASSUME Plain, table \in Seq(Machine), NEW r \in 1..Len(table)
  PROVE  /\ table[r] \in Machine /\ Len(table[r].names) \in Byte
         /\ \A k \in 1..Len(table[r].names) :
               LET name == table[r].names[k]
               IN  /\ name \in Seq(Byte \ {Nul}) /\ name \in Name /\ Len(name) \in Nat
                   /\ Len(name) >= 1 /\ Len(name) + 1 <= Room /\ name[1] # Dot
<1>1. r \in DOMAIN table /\ table[r] \in Machine
  OBVIOUS
<1>2. /\ Len(table[r].names) \in Byte
      /\ \A k \in DOMAIN table[r].names : Proper(table[r].names[k])
  BY <1>1 DEF Plain
<1>3. DOMAIN table[r].names = 1..Len(table[r].names)
  BY <1>1 DEF Machine
<1>4. ASSUME NEW k \in 1..Len(table[r].names)
      PROVE  LET name == table[r].names[k]
             IN  /\ name \in Seq(Byte \ {Nul}) /\ name \in Name /\ Len(name) \in Nat
                 /\ Len(name) >= 1 /\ Len(name) + 1 <= Room /\ name[1] # Dot
  <2> DEFINE name == table[r].names[k]
  <2>1. name \in Seq(Byte \ {Nul}) /\ name \in Name
    BY <1>1, MachineBytes
  <2>2. Len(name) \in 1..Room - 1 /\ name[1] # Dot
    BY <1>2, <1>3 DEF Proper
  <2>3. Room \in Nat
    BY Constants DEF Room
  <2> HIDE DEF name
  <2>4. Len(name) \in Nat /\ Len(name) >= 1 /\ Len(name) + 1 <= Room
    BY <2>2, <2>3
  <2> QED
    BY <2>1, <2>2, <2>4 DEF name
<1> QED
  BY <1>1, <1>2, <1>4

\* The first NUL behind p is the one behind n others, if there are so many.
LEMMA Scan ==
  ASSUME NEW p \in Nat, NEW n \in Nat, NEW size \in Nat, p <= size, NEW f,
         NEW nul \in Nat, nul > p, nul <= size + 1, nul <= size => f[nul] = Nul,
         \A i \in p + 1..size : f[i] = Nul => nul <= i,
         \A i \in 1..n : p + i <= size => f[p + i] # Nul,
         p + n + 1 <= size => f[p + n + 1] = Nul
  PROVE  /\ p + n + 1 <= size => nul = p + n + 1
         /\ p + n + 1 > size => nul = size + 1
<1>1. ~(nul <= size /\ nul < p + n + 1)
  <2> SUFFICES ASSUME nul <= size, nul < p + n + 1 PROVE FALSE
    OBVIOUS
  <2>1. nul - p \in 1..n /\ p + (nul - p) = nul
    OBVIOUS
  <2> QED
    BY <2>1
<1>2. p + n + 1 <= size => nul <= p + n + 1
  OBVIOUS
<1> QED
  BY <1>1, <1>2

\* The bytes behind p are a name if each of them is.
LEMMA Cutting ==
  ASSUME NEW S, NEW f \in Seq(S), NEW name \in Seq(S), NEW p \in Nat, NEW n \in Nat,
         n = Len(name), p + n <= Len(f), \A i \in 1..n : f[p + i] = name[i]
  PROVE  SubSeq(f, p + 1, p + n) = name
<1> DEFINE w == SubSeq(f, p + 1, p + n)
<1>1. PICK size \in Nat : size = Len(f)
  OBVIOUS
<1>2. w \in Seq(S) /\ Len(w) = n /\ \A i \in 1..n : w[i] = f[p + i]
  BY <1>1
<1> HIDE DEF w
<1>3. w = name
  BY <1>2, SeqEqual
<1> QED
  BY <1>3 DEF w

\* A name is read whole unless the file breaks off before its end.
LEMMA ReadsTheName ==
  ASSUME Inv, Cut, Plain, NEW r \in 1..Len(table), NEW k \in 1..Len(table[r].names),
         pos = NameStart(table, r, k - 1)
  PROVE  /\ ~TooLong
         /\ InTime <=> NameStart(table, r, k) <= Len(file)
         /\ InTime => /\ NameRead = table[r].names[k]
                      /\ NameEnd = NameStart(table, r, k)
<1> DEFINE name == table[r].names[k]
           end == NameStart(table, r, k)
<1>1. /\ table \in Seq(Machine) /\ file \in Seq(Byte)
      /\ Len(file) \in Nat /\ pos \in Nat /\ pos <= Len(file)
      /\ Len(file) <= Len(Encode(table)) /\ \A i \in 1..Len(file) : file[i] = Encode(table)[i]
  BY FileIs
<1>2. /\ name \in Seq(Byte \ {Nul}) /\ Len(name) \in Nat
      /\ Len(name) >= 1 /\ Len(name) + 1 <= Room
  BY <1>1, PlainIs
<1>3. /\ end = pos + Len(name) + 1
      /\ \A i \in 1..Len(name) : Encode(table)[pos + i] = name[i]
      /\ Encode(table)[pos + Len(name) + 1] = Nul
  BY <1>1, NameAt
<1>4. Room \in Nat
  BY Constants DEF Room
<1>5. /\ Terminator \in Nat /\ Terminator > pos /\ Terminator <= Len(file) + 1
      /\ Terminator <= Len(file) => file[Terminator] = Nul
      /\ \A i \in pos + 1..Len(file) : file[i] = Nul => Terminator <= i
  <2>1. pos \in 0..Len(file)
    BY <1>1
  <2> QED
    BY <1>1, <2>1, TerminatorIs
<1> HIDE DEF name, end
<1>6. PICK p \in Nat, n \in Nat, size \in Nat, room \in Nat, nul \in Nat :
          /\ p = pos /\ n = Len(name) /\ size = Len(file) /\ room = Room
          /\ nul = Terminator
          /\ n >= 1 /\ n + 1 <= room /\ p <= size /\ nul > p /\ nul <= size + 1
  BY <1>1, <1>2, <1>4, <1>5
<1>7. end = p + n + 1
  BY <1>3, <1>6, Zenon
<1>8. /\ \A i \in 1..n : Encode(table)[p + i] = name[i] /\ name[i] # Nul
      /\ Encode(table)[p + n + 1] = Nul
      /\ \A i \in 1..size : file[i] = Encode(table)[i]
      /\ nul <= size => file[nul] = Nul
      /\ \A i \in p + 1..size : file[i] = Nul => nul <= i
  <2>1. \A i \in 1..n : name[i] \in Byte \ {Nul}
    BY <1>2, <1>6
  <2>2. \A i \in 1..n : name[i] # Nul
    BY <2>1
  <2> QED
    BY <1>1, <1>3, <1>5, <1>6, <2>2, Zenon
<1>9. \A i \in 1..n : p + i <= size => file[p + i] = name[i] /\ file[p + i] # Nul
  <2>1. \A i \in 1..n : p + i <= size => p + i \in 1..size
    OBVIOUS
  <2> QED
    BY <1>8, <2>1
<1>10. p + n + 1 <= size => file[p + n + 1] = Nul
  <2>1. p + n + 1 <= size => p + n + 1 \in 1..size
    OBVIOUS
  <2> QED
    BY <1>8, <2>1
<1>11. /\ p + n + 1 <= size => nul = p + n + 1
       /\ p + n + 1 > size => nul = size + 1
  <2>1. p <= size /\ nul > p /\ nul <= size + 1
    BY <1>6
  <2>2. \A i \in 1..n : p + i <= size => file[p + i] # Nul
    BY <1>9
  <2>3. /\ nul <= size => file[nul] = Nul
        /\ \A i \in p + 1..size : file[i] = Nul => nul <= i
    BY <1>8
  <2> QED
    BY <1>10, <2>1, <2>2, <2>3, Scan, ZenonT(90)
<1>12. CASE p + n + 1 <= size
  <2>1. nul <= size /\ nul - p <= room /\ ~(nul - p > room) /\ nul - 1 = p + n
    <3>1. n >= 1 /\ n + 1 <= room
      BY <1>6
    <3> QED
      BY <1>11, <1>12, <3>1
  <2>2. InTime /\ ~TooLong /\ NameEnd = end
    BY <1>6, <1>7, <1>11, <1>12, <2>1 DEF InTime, TooLong, NameEnd
  <2>3. NameRead = SubSeq(file, p + 1, p + n)
    BY <1>6, <2>1, <2>2 DEF NameRead
  <2>4. SubSeq(file, p + 1, p + n) = name
    <3>1. name \in Seq(Byte) /\ file \in Seq(Byte)
      BY <1>1, <1>2, SeqMonotonic
    <3>2. \A i \in 1..n : file[p + i] = name[i]
      BY <1>9, <1>12
    <3>3. p + n <= Len(file)
      BY <1>6, <1>12
    <3> QED
      BY <1>6, <3>1, <3>2, <3>3, Cutting
  <2>5. end <= Len(file)
    BY <1>6, <1>7, <1>12
  <2> QED
    BY <2>2, <2>3, <2>4, <2>5 DEF name, end
<1>13. CASE p + n + 1 > size
  <2>1. ~(nul <= size) /\ ~(nul - p > room) /\ ~(p + n + 1 <= size)
    <3>1. n >= 1 /\ n + 1 <= room
      BY <1>6
    <3> QED
      BY <1>11, <1>13, <3>1
  <2>2. ~InTime /\ ~TooLong
    BY <1>6, <2>1 DEF InTime, TooLong
  <2>3. ~(end <= Len(file))
    BY <1>6, <1>7, <2>1
  <2> QED
    BY <2>2, <2>3 DEF end
<1> QED
  <2>1. p + n + 1 <= size \/ p + n + 1 > size
    OBVIOUS
  <2> QED
    BY <1>12, <1>13, <2>1

\* A number of one byte is what four such bytes are joined to.
LEMMA JoinedDigits ==
  ASSUME NEW n \in Byte
  PROVE  intcat(intcat(intcat(intcat(0, 0), 0), 0), n) = n
<1>1. /\ UintRange \in Nat /\ ByteRange \in Nat /\ UintRange >= ByteRange
      /\ n \in Nat /\ n < ByteRange /\ 0 < ByteRange
  BY Constants DEF Byte
<1>2. \A x \in Nat : x < UintRange => x % UintRange = x
  BY <1>1
<1>3. 0 \in Nat /\ 0 < UintRange /\ n < UintRange
  BY <1>1
<1>4. ASSUME NEW x \in Nat, x < UintRange PROVE intcat(0, x) = x
  <2>1. 0 * (IF x < 10 THEN 10 ELSE IF x < 100 THEN 100 ELSE 1000) + x = x
    OBVIOUS
  <2>2. x % UintRange = x
    BY <1>2, <1>4
  <2> QED
    BY <2>1, <2>2 DEF intcat
<1> QED
  BY <1>1, <1>3, <1>4

\* A whole header gives the address and the number of names.
LEMMA HeaderWhole ==
  ASSUME Inv, Cut, Plain, NEW r \in 1..Len(table), pos = Start(table, r - 1),
         pos + 8 <= Len(file)
  PROVE  /\ \A i \in 1..4 : ByteOr(pos + i, 0) = table[r].address[i]
         /\ NumNames = Len(table[r].names)
<1>1. /\ table \in Seq(Machine) /\ Len(file) \in Nat /\ pos \in Nat
      /\ \A i \in 1..Len(file) : file[i] = Encode(table)[i]
  BY FileIs
<1>2. PICK n \in Byte : n = Len(table[r].names)
  BY <1>1, PlainIs
<1>3. \A i \in 1..4 : /\ Encode(table)[pos + i] = table[r].address[i]
                      /\ Encode(table)[pos + 4 + i] = CountBytes(n)[i]
  BY <1>1, <1>2, RecordAt
<1>4. CountBytes(n) = <<0, 0, 0, n>>
  BY CountBytesSmall
<1>5. PICK p \in Nat, size \in Nat : p = pos /\ size = Len(file) /\ p + 8 <= size
  BY <1>1
<1>6. \A i \in 1..4 : /\ p + i <= size /\ p + i \in 1..size
                      /\ p + 4 + i <= size /\ p + 4 + i \in 1..size
  <2>1. p + 8 <= size
    BY <1>5
  <2> QED
    BY <2>1
<1>7. \A i \in 1..4 : ByteOr(pos + i, 0) = table[r].address[i]
  BY <1>1, <1>3, <1>5, <1>6 DEF ByteOr
<1>8. \A i \in 1..4 : CountByte(i) = CountBytes(n)[i]
  BY <1>1, <1>3, <1>5, <1>6 DEF ByteOr, CountByte
<1>9. CountByte(1) = 0 /\ CountByte(2) = 0 /\ CountByte(3) = 0 /\ CountByte(4) = n
  BY <1>4, <1>8
<1>10. NumNames = n
  BY <1>9, JoinedDigits DEF NumNames
<1> QED
  BY <1>2, <1>7, <1>10

\* A header that is cut off counts no names.
LEMMA HeaderCut ==
  ASSUME Inv, Cut, Plain, NEW r \in 0..Len(table), pos = Start(table, r),
         ~(pos + 8 <= Len(file))
  PROVE  /\ NumNames = 0
         /\ r = Len(table) => \A i \in 1..4 : ByteOr(pos + i, 0) = 0
         /\ Whole => r = Len(table)
<1>1. /\ table \in Seq(Machine) /\ Len(table) \in Nat /\ Len(file) \in Nat /\ pos \in Nat
      /\ pos <= Len(file) /\ Len(Encode(table)) \in Nat
      /\ Len(file) <= Len(Encode(table))
      /\ \A i \in 1..Len(file) : file[i] = Encode(table)[i]
      /\ Whole => Len(file) = Len(Encode(table))
  BY FileIs
<1>2. PICK p \in Nat, size \in Nat, all \in Nat :
          /\ p = pos /\ size = Len(file) /\ all = Len(Encode(table))
          /\ p <= size /\ size <= all /\ ~(p + 8 <= size)
  BY <1>1
<1>3. ASSUME \A i \in 1..4 : CountByte(i) = 0
      PROVE  NumNames = 0
  <2>1. CountByte(1) = 0 /\ CountByte(2) = 0 /\ CountByte(3) = 0 /\ CountByte(4) = 0
    BY <1>3
  <2>2. 0 \in Byte
    BY Constants
  <2> QED
    BY <2>1, <2>2, JoinedDigits DEF NumNames
<1>4. CASE r = Len(table)
  <2>1. p = all
    BY <1>1, <1>2, <1>4, TableBytes
  <2>2. size = p /\ \A i \in 1..4 : ~(p + i <= size) /\ ~(p + 4 + i <= size)
    <3>1. p <= size /\ size <= all
      BY <1>2
    <3> QED
      BY <2>1, <3>1
  <2>3. ~(p + 4 < size)
    BY <2>2
  <2>4. \A i \in 1..4 : CountByte(i) = 0 /\ ByteOr(pos + i, 0) = 0
    BY <1>2, <2>2, <2>3 DEF CountByte, ByteOr
  <2> QED
    BY <1>3, <1>4, <2>4
<1>5. CASE r # Len(table)
  <2>1. r + 1 \in 1..Len(table) /\ (r + 1) - 1 = r
    BY <1>1, <1>5
  <2>2. PICK n \in Byte : n = Len(table[r + 1].names)
    BY <1>1, <2>1, PlainIs
  <2>3. /\ \A i \in 1..4 : Encode(table)[p + 4 + i] = CountBytes(n)[i]
        /\ p + 8 + Len(FlattenSeq(NameBytes(table[r + 1]))) <= all
        /\ Len(FlattenSeq(NameBytes(table[r + 1]))) \in Nat
    <3> DEFINE f == FlattenSeq(NameBytes(table[r + 1]))
               at == Start(table, (r + 1) - 1)
    <3>1. /\ at \in Nat /\ Len(f) \in Nat /\ Start(table, r + 1) = at + 8 + Len(f)
          /\ Start(table, r + 1) <= Len(Encode(table))
          /\ \A i \in 1..4 :
               Encode(table)[at + 4 + i] = CountBytes(Len(table[r + 1].names))[i]
      BY <1>1, <2>1, RecordAt
    <3>2. at = p
      BY <1>2, <2>1
    <3> HIDE DEF f, at
    <3>3. \A i \in 1..4 : Encode(table)[p + 4 + i] = CountBytes(n)[i]
      BY <2>2, <3>1, <3>2
    <3>4. p + 8 + Len(f) <= all /\ Len(f) \in Nat
      BY <1>2, <3>1, <3>2
    <3> QED
      BY <3>3, <3>4 DEF f
  <2>4. ~Whole
    <3>1. PICK len \in Nat : len = Len(FlattenSeq(NameBytes(table[r + 1])))
      BY <2>3
    <3>2. p + 8 + len <= all /\ ~(p + 8 <= size)
      BY <1>2, <2>3, <3>1
    <3>3. size # all
      BY <3>2
    <3> QED
      BY <1>1, <1>2, <3>3
  <2>5. CountBytes(n) = <<0, 0, 0, n>>
    BY CountBytesSmall
  <2>6. \A i \in 1..3 : Encode(table)[p + 4 + i] = 0
    <3>1. \A i \in 1..3 : i \in 1..4 /\ CountBytes(n)[i] = 0
      BY <2>5
    <3> QED
      BY <2>3, <3>1
  <2>7. ~(p + 8 <= size)
    BY <1>2
  <2>8. \A i \in 1..4 : p + 4 + i <= size => i \in 1..3 /\ p + 4 + i \in 1..size
    BY <2>7
  <2>9. p + 4 < size => file[size] = 0
    <3> SUFFICES ASSUME p + 4 < size PROVE file[size] = 0
      OBVIOUS
    <3>1. size - (p + 4) \in 1..3 /\ p + 4 + (size - (p + 4)) = size /\ size \in 1..size
      BY <2>7
    <3>2. Encode(table)[size] = 0
      BY <2>6, <3>1
    <3> QED
      BY <1>1, <1>2, <3>1, <3>2
  <2>10. \A i \in 1..4 : p + 4 + i <= size => file[p + 4 + i] = 0
    BY <1>1, <1>2, <2>6, <2>8
  <2>11. \A i \in 1..4 : CountByte(i) = 0
    BY <1>2, <2>9, <2>10 DEF CountByte, ByteOr, Last
  <2> QED
    BY <1>3, <1>5, <2>4, <2>11
<1> QED
  BY <1>4, <1>5

(***************************************************************************)
(* What has been read.                                                     *)
(***************************************************************************)

IPs == [address : Seq(Byte), names : Seq(Name)]

LEMMA WithLocalsIs ==
  ASSUME NEW m \in Machine
  PROVE  /\ WithLocals(m) \in Seq(Seq(Name)) /\ Len(WithLocals(m)) = Len(m.names)
         /\ \A k \in 1..Len(m.names) :
              WithLocals(m)[k] = <<m.names[k]>> \o SetToSeq(Locals(m.names[k]))
         /\ RecordOf(m) \in IPs
         /\ (\A k \in 1..Len(m.names) : m.names[k] # <<>> /\ m.names[k][1] # Dot)
               => RecordOf(m).names \in Seq(Name \ {<<>>})
<1> DEFINE W == WithLocals(m)
           L == Len(m.names)
<1>1. /\ L \in Nat /\ DOMAIN m.names = 1..L /\ m.address \in [1..4 -> Byte]
      /\ \A k \in 1..L : m.names[k] \in Name
  <2>1. \A k \in 1..L : m.names[k] \in Name
    BY MachineBytes
  <2> QED
    BY <2>1 DEF Machine
<1>2. W = [k \in 1..L |-> <<m.names[k]>> \o SetToSeq(Locals(m.names[k]))]
  BY <1>1 DEF WithLocals
<1> HIDE DEF W, L
<1>3. ASSUME NEW T, NEW k \in 1..L, m.names[k] \in T, Locals(m.names[k]) \subseteq T
      PROVE  <<m.names[k]>> \o SetToSeq(Locals(m.names[k])) \in Seq(T)
  <2>1. SetToSeq(Locals(m.names[k])) \in Seq(T)
    BY <1>1, <1>3, LocalsIs, SeqMonotonic
  <2>2. <<m.names[k]>> \in Seq(T)
    BY <1>3
  <2> QED
    BY <2>1, <2>2, ConcatProperties
<1>4. \A k \in 1..L : <<m.names[k]>> \o SetToSeq(Locals(m.names[k])) \in Seq(Name)
  <2>1. \A k \in 1..L : m.names[k] \in Name /\ Locals(m.names[k]) \subseteq Name
    BY <1>1, LocalsIs
  <2> QED
    BY <1>3, <2>1
<1>5. /\ W \in Seq(Seq(Name)) /\ Len(W) = L
      /\ \A k \in 1..L : W[k] = <<m.names[k]>> \o SetToSeq(Locals(m.names[k]))
  <2>1. W \in [1..L -> Seq(Name)]
    BY <1>2, <1>4
  <2>2. W \in Seq(Seq(Name)) /\ Len(W) = L
    BY <1>1, <2>1, FunctionIsSeq
  <2> QED
    BY <1>2, <2>2
<1>6. FlattenSeq(W) \in Seq(Name)
  BY <1>5, FlattenType
<1>7. m.address \in Seq(Byte)
  BY <1>1, FunctionIsSeq
<1>8. RecordOf(m) \in IPs
  BY <1>6, <1>7 DEF RecordOf, IPs, W
<1>9. ASSUME \A k \in 1..L : m.names[k] # <<>> /\ m.names[k][1] # Dot
      PROVE  FlattenSeq(W) \in Seq(Name \ {<<>>})
  <2> DEFINE N == Name \ {<<>>}
  <2>1. \A k \in 1..L : m.names[k] \in N /\ Locals(m.names[k]) \subseteq N
    BY <1>1, <1>9, LocalsIs
  <2> HIDE DEF N
  <2>2. \A k \in 1..L : <<m.names[k]>> \o SetToSeq(Locals(m.names[k])) \in Seq(N)
    BY <1>3, <2>1
  <2>3. W \in [1..L -> Seq(N)]
    BY <1>2, <2>2
  <2>4. W \in Seq(Seq(N))
    BY <1>1, <2>3, FunctionIsSeq
  <2>5. FlattenSeq(W) \in Seq(N)
    BY <2>4, FlattenType
  <2> QED
    BY <2>5 DEF N
<1>10. RecordOf(m).names = FlattenSeq(W)
  BY DEF RecordOf, W
<1> QED
  BY <1>5, <1>8, <1>9, <1>10 DEF W, L

LEMMA RecordsIs ==
  ASSUME table \in Seq(Machine)
  PROVE  /\ Records \in Seq(IPs) /\ Len(Records) = Len(table)
         /\ \A r \in 1..Len(table) : Records[r] = RecordOf(table[r])
<1>1. DOMAIN table = 1..Len(table) /\ Len(table) \in Nat
      /\ \A r \in 1..Len(table) : table[r] \in Machine
  OBVIOUS
<1>2. \A r \in 1..Len(table) : RecordOf(table[r]) \in IPs
  BY <1>1, WithLocalsIs
<1>3. Records = [r \in 1..Len(table) |-> RecordOf(table[r])]
  BY <1>1 DEF Records
<1>4. Records \in [1..Len(table) -> IPs]
  BY <1>2, <1>3
<1> QED
  BY <1>1, <1>3, <1>4, FunctionIsSeq

\* The records before place r have been taken from the table, and the program
\* stands before the next one, or inside it.
Taken(r) == r \in 0..Len(table) /\ ip_list = SubSeq(Records, 1, r)
Between(r) == ~feof /\ Taken(r) /\ pos = Start(table, r)
Inside(r) ==
    /\ ~feof /\ Taken(r) /\ r < Len(table) /\ left <= Len(table[r + 1].names)
    /\ ip.address = table[r + 1].address
    /\ ip.names = Joined(WithLocals(table[r + 1]), Len(table[r + 1].names) - left)
    /\ pos = NameStart(table, r + 1, Len(table[r + 1].names) - left)

\* l2p1 has met the end of the file, and has, or is about to have, a record
\* without names more than it found.
Ended == prog = "l2p1" /\ feof /\ pos = Len(file)
Nameless(r, x) == x.names = <<>> /\ (Whole => r = Len(table) /\ x = NoIp)
AtLast(r) == Ended /\ Taken(r) /\ left = 0 /\ Nameless(r, ip)
Over(r) ==
    /\ Ended /\ r \in 0..Len(table) /\ Len(ip_list) = r + 1
    /\ \A i \in 1..r : ip_list[i] = Records[i]
    /\ Nameless(r, ip_list[r + 1])

\* Where the program is in the file at each stage.
Here(r) ==
    /\ stage \in {"loop", "insert"} => Between(r) \/ Over(r)
    /\ stage = "names" => Inside(r) \/ AtLast(r)
    /\ stage \in {"search", "end"} =>
          Over(r) \/ (prog # "l2p1" /\ Between(r) /\ pos = Len(file))

\* Nothing but a word typed has ended the program.
Works == status = "run" \/ (stage = "search" /\ ~Fits)

Covered == Plain /\ (prog = "l2p2" => Whole)
ReadSoFar ==
    Covered =>
        (\E r \in 0..Len(table) : Here(r)) /\ (Whole => Works)

ReadInv == Inv /\ Cut /\ ReadSoFar

\* What is said of the table and the file stays true of them.
LEMMA SameFile ==
  ASSUME UNCHANGED <<table, file, prog>>
  PROVE  /\ Records' = Records /\ (Plain' <=> Plain) /\ (Whole' <=> Whole)
         /\ (Cut' <=> Cut) /\ (Covered' <=> Covered)
<1>1. Records' = Records
  BY DEF Records
<1>2. Plain' <=> Plain
  BY DEF Plain
<1>3. Whole' <=> Whole
  BY DEF Whole
<1>4. Cut' <=> Cut
  BY DEF Cut
<1> QED
  BY <1>1, <1>2, <1>3, <1>4 DEF Covered

LEMMA RecordsPrefix ==
  ASSUME table \in Seq(Machine), NEW r \in 0..Len(table)
  PROVE  /\ SubSeq(Records, 1, r) \in Seq(IPs) /\ Len(SubSeq(Records, 1, r)) = r
         /\ \A i \in 1..r : SubSeq(Records, 1, r)[i] = Records[i]
         /\ r < Len(table) =>
              SubSeq(Records, 1, r + 1) = Append(SubSeq(Records, 1, r), Records[r + 1])
<1>1. Records \in Seq(IPs) /\ Len(Records) = Len(table) /\ Len(table) \in Nat
  BY RecordsIs
<1> DEFINE R == Records
<1> HIDE DEF R
<1>2. R \in Seq(IPs) /\ r \in 0..Len(R)
  BY <1>1 DEF R
<1>3. /\ SubSeq(R, 1, r) \in Seq(IPs) /\ Len(SubSeq(R, 1, r)) = r
      /\ \A i \in 1..r : SubSeq(R, 1, r)[i] = R[i]
  BY <1>2
<1>4. r < Len(R) => SubSeq(R, 1, r + 1) = Append(SubSeq(R, 1, r), R[r + 1])
  BY <1>2
<1> QED
  BY <1>1, <1>3, <1>4 DEF R

\* A program that has not met the end and has not read all is before a record.
LEMMA MoreToRead ==
  ASSUME Inv, Cut, NEW r \in 0..Len(table), pos = Start(table, r), pos < Len(file)
  PROVE  r < Len(table)
<1>1. /\ table \in Seq(Machine) /\ Len(table) \in Nat /\ Len(file) \in Nat /\ pos \in Nat
      /\ Len(Encode(table)) \in Nat /\ Len(file) <= Len(Encode(table))
  BY FileIs
<1>2. r = Len(table) => pos = Len(Encode(table))
  BY <1>1, TableBytes
<1>3. r # Len(table)
  BY <1>1, <1>2
<1> QED
  BY <1>1, <1>3

\* In a whole file a record that begins is there.
LEMMA RecordThere ==
  ASSUME Inv, Cut, Whole, NEW r \in 1..Len(table)
  PROVE  /\ Start(table, r - 1) + 8 <= Len(file) /\ Start(table, r) <= Len(file)
         /\ Start(table, r - 1) \in Nat /\ Start(table, r) \in Nat
         /\ \A k \in 1..Len(table[r].names) : NameStart(table, r, k) <= Len(file)
<1>1. /\ table \in Seq(Machine) /\ Len(file) \in Nat /\ Len(file) = Len(Encode(table))
  BY FileIs
<1> DEFINE f == Len(FlattenSeq(NameBytes(table[r])))
<1>2. /\ Start(table, r - 1) \in Nat /\ f \in Nat
      /\ Start(table, r) = Start(table, r - 1) + 8 + f
      /\ Start(table, r) <= Len(file)
  BY <1>1, RecordAt
<1> HIDE DEF f
<1>3. Start(table, r - 1) + 8 <= Len(file) /\ Start(table, r) \in Nat
  <2>1. PICK a, b, c \in Nat : a = Start(table, r - 1) /\ b = f /\ c = Len(file)
    BY <1>1, <1>2
  <2>2. a + 8 + b <= c
    BY <1>2, <2>1
  <2>3. a + 8 <= c
    BY <2>2
  <2> QED
    BY <1>2, <2>1, <2>3
<1>4. ASSUME NEW k \in 1..Len(table[r].names)
      PROVE  NameStart(table, r, k) <= Len(file)
  <2>1. /\ NameStart(table, r, k) <= Start(table, r)
        /\ NameStart(table, r, k) \in Nat
    <3> DEFINE at == NameStart(table, r, k - 1)
    <3>1. /\ at \in Nat /\ NameStart(table, r, k) = at + Len(table[r].names[k]) + 1
          /\ NameStart(table, r, k) <= Start(table, r)
      BY <1>1, NameAt
    <3>2. Len(table[r].names[k]) \in Nat
      <4>1. table[r] \in Machine
        BY <1>1
      <4>2. table[r].names[k] \in Seq(Byte \ {Nul})
        BY <4>1, MachineBytes
      <4> QED
        BY <4>2
    <3> HIDE DEF at
    <3> QED
      BY <3>1, <3>2
  <2> QED
    BY <1>1, <1>2, <1>3, <2>1
<1> QED
  BY <1>2, <1>3, <1>4

LEMMA MachineAt ==
  ASSUME NEW t \in Seq(Machine), NEW r \in 1..Len(t)
  PROVE  t[r] \in Machine /\ t[r].address \in [1..4 -> Byte] /\ Len(t[r].names) \in Nat
<1>1. t[r] \in Machine
  OBVIOUS
<1> QED
  BY <1>1 DEF Machine

LEMMA HeaderStep ==
  ASSUME ReadInv, Covered, ReadHeader, NEW r \in 0..Len(table), Here(r)
  PROVE  Here(r)'
<1>1. /\ Inv /\ Cut /\ Plain /\ (prog = "l2p2" => Whole) /\ prog \in Program
      /\ table \in Seq(Machine) /\ Len(table) \in Nat /\ Len(file) \in Nat /\ pos \in Nat
      /\ pos <= Len(file)
  BY FileIs DEF ReadInv, Covered, Inv, TypeOK
<1>2. Between(r)
  BY DEF Here, Over, Ended, ReadHeader, AtEnd
<1>3. /\ ~feof /\ Taken(r) /\ pos = Start(table, r)
  BY <1>2 DEF Between
<1>4. /\ UNCHANGED <<table, file, prog, ip_list>> /\ stage' = "names"
      /\ left' = NumNames /\ pos' = Upto(pos + 8) /\ feof' = (pos + 8 > Len(file))
      /\ ip' = [address |-> [i \in 1..4 |-> ByteOr(pos + i, 0)], names |-> <<>>]
  BY DEF ReadHeader
<1>5. Taken(r)' /\ (Whole' <=> Whole)
  BY <1>3, <1>4, SameFile DEF Taken
<1>6. PICK p \in Nat, size \in Nat : p = pos /\ size = Len(file) /\ p <= size
  BY <1>1
<1>7. CASE p + 8 <= size
  <2>1. pos < Len(file) /\ pos + 8 <= Len(file)
    BY <1>6, <1>7
  <2>2. r + 1 \in 1..Len(table) /\ (r + 1) - 1 = r /\ r < Len(table)
    BY <1>1, <1>3, <2>1, MoreToRead
  <2>3. /\ \A i \in 1..4 : ByteOr(pos + i, 0) = table[r + 1].address[i]
        /\ NumNames = Len(table[r + 1].names)
    BY <1>1, <1>3, <2>1, <2>2, HeaderWhole
  <2>4. ip'.address = table[r + 1].address
    <3>1. table[r + 1].address \in [1..4 -> Byte]
      BY <1>1, <2>2, MachineAt
    <3> QED
      BY <1>4, <2>3, <3>1
  <2>5. /\ WithLocals(table[r + 1]) \in Seq(Seq(Name))
        /\ Len(table[r + 1].names) \in Nat
    <3>1. table[r + 1] \in Machine /\ Len(table[r + 1].names) \in Nat
      BY <1>1, <2>2, MachineAt
    <3> QED
      BY <3>1, WithLocalsIs
  <2>6. ip'.names = Joined(WithLocals(table[r + 1]), Len(table[r + 1].names) - left')
    <3>1. Len(table[r + 1].names) - left' = 0
      BY <1>4, <2>3, <2>5
    <3>2. Joined(WithLocals(table[r + 1]), 0) = <<>>
      BY <2>5, JoinedType
    <3> QED
      BY <1>4, <3>1, <3>2
  <2>7. pos' = NameStart(table, r + 1, Len(table[r + 1].names) - left')
    <3>1. Len(table[r + 1].names) - left' = 0
      BY <1>4, <2>3, <2>5
    <3>2. NameStart(table, r + 1, 0) = Start(table, r) + 8
      BY <1>1, <2>2, NamesSpan
    <3>3. pos' = pos + 8
      BY <1>4, <2>1 DEF Upto
    <3> QED
      BY <1>3, <3>1, <3>2, <3>3
  <2>8. ~feof' /\ left' <= Len(table[r + 1].names)
    <3>1. ~(p + 8 > size)
      BY <1>7
    <3>2. PICK len \in Nat : len = Len(table[r + 1].names)
      BY <2>5
    <3>3. left' = len
      BY <1>4, <2>3, <3>2
    <3>4. len <= len
      BY <3>2
    <3>5. ~(pos + 8 > Len(file))
      BY <1>6, <3>1, Zenon
    <3> QED
      BY <1>4, <3>2, <3>3, <3>4, <3>5, Zenon
  <2>9. Inside(r)'
    BY <1>4, <1>5, <2>2, <2>4, <2>6, <2>7, <2>8 DEF Inside
  <2> QED
    BY <1>4, <2>9 DEF Here
<1>8. CASE ~(p + 8 <= size)
  <2>1. ~(pos + 8 <= Len(file)) /\ pos + 8 > Len(file)
    BY <1>6, <1>8
  <2>2. prog = "l2p1"
    <3>1. CASE prog = "l2p3"
      BY <2>1, <3>1 DEF ReadHeader, Past
    <3>2. CASE prog = "l2p2"
      <4>1. pos < Len(file)
        BY <1>1, <3>2 DEF ReadHeader, AtEnd
      <4>2. r + 1 \in 1..Len(table) /\ (r + 1) - 1 = r
        BY <1>1, <1>3, <4>1, MoreToRead
      <4> QED
        BY <1>1, <1>3, <2>1, <3>2, <4>2, RecordThere
    <3> QED
      BY <1>1, <3>1, <3>2 DEF Program
  <2>3. /\ NumNames = 0
        /\ r = Len(table) => \A i \in 1..4 : ByteOr(pos + i, 0) = 0
        /\ Whole => r = Len(table)
    BY <1>1, <1>3, <2>1, HeaderCut
  <2>4. pos' = Len(file) /\ feof'
    BY <1>4, <2>1 DEF Upto
  <2>5. Whole => ip' = NoIp
    <3> SUFFICES ASSUME Whole PROVE ip' = NoIp
      OBVIOUS
    <3>1. [i \in 1..4 |-> ByteOr(pos + i, 0)] = <<0, 0, 0, 0>>
      <4>1. [i \in 1..4 |-> ByteOr(pos + i, 0)] = [i \in 1..4 |-> 0]
        BY <2>3
      <4>2. [i \in 1..4 |-> 0] = <<0, 0, 0, 0>>
        OBVIOUS
      <4> QED
        BY <4>1, <4>2
    <3> QED
      BY <1>4, <3>1 DEF NoIp
  <2>6. AtLast(r)'
    BY <1>4, <1>5, <2>2, <2>3, <2>4, <2>5 DEF AtLast, Ended, Nameless
  <2> QED
    BY <1>4, <2>6 DEF Here
<1> QED
  BY <1>7, <1>8

LEMMA NameStep ==
  ASSUME ReadInv, Covered, ReadName, NEW r \in 0..Len(table), Here(r)
  PROVE  Here(r)'
<1>1. /\ Inv /\ Cut /\ Plain /\ left \in Nat /\ ip \in IPs
      /\ table \in Seq(Machine) /\ Len(table) \in Nat
  BY FileIs DEF ReadInv, Covered, Inv, TypeOK, IPs
<1>2. Inside(r) /\ left > 0
  BY DEF Here, AtLast, ReadName
<1>3. /\ UNCHANGED <<table, file, prog, ip_list, feof>> /\ stage' = "names"
      /\ left' = left - 1 /\ pos' = NameEnd /\ (BrokenOff => prog = "l2p2")
      /\ ip' = [ip EXCEPT !.names = @ \o <<NameRead>> \o SetToSeq(Locals(NameRead))]
  BY DEF ReadName
<1> DEFINE m == table[r + 1]
           L == Len(m.names)
           k == L - left + 1
<1>4. /\ ~feof /\ Taken(r) /\ r < Len(table) /\ left <= L
      /\ ip.address = m.address /\ ip.names = Joined(WithLocals(m), L - left)
      /\ pos = NameStart(table, r + 1, L - left)
  BY <1>2 DEF Inside
<1>5. r + 1 \in 1..Len(table) /\ m \in Machine /\ L \in Nat
  <2>1. r + 1 \in 1..Len(table)
    BY <1>1, <1>4
  <2> QED
    BY <1>1, <2>1, MachineAt
<1>6. k \in 1..L /\ k - 1 = L - left /\ L - left' = k /\ left' <= L
  <2>1. PICK l \in Nat, n \in Nat : l = L /\ n = left /\ n > 0 /\ n <= l
    BY <1>1, <1>2, <1>4, <1>5
  <2>2. l - n + 1 \in 1..l /\ (l - n + 1) - 1 = l - n /\ l - (n - 1) = l - n + 1
        /\ n - 1 <= l
    BY <2>1
  <2> QED
    BY <1>3, <2>1, <2>2
<1> HIDE DEF k
<1>7. /\ ~TooLong /\ (InTime <=> NameStart(table, r + 1, k) <= Len(file))
      /\ InTime => NameRead = m.names[k] /\ NameEnd = NameStart(table, r + 1, k)
  <2>1. pos = NameStart(table, r + 1, k - 1)
    BY <1>4, <1>6
  <2> QED
    BY <1>1, <1>5, <1>6, <2>1, ReadsTheName
<1>8. InTime
  <2>1. Whole => InTime
    BY <1>1, <1>5, <1>6, <1>7, RecordThere
  <2> QED
    BY <1>3, <1>7, <2>1 DEF BrokenOff, Covered
<1>9. NameRead = m.names[k] /\ NameEnd = NameStart(table, r + 1, k)
  BY <1>7, <1>8
<1>10. ip'.names = Joined(WithLocals(m), k) /\ ip'.address = m.address
  <2> DEFINE W == WithLocals(m)
             name == m.names[k]
             s == SetToSeq(Locals(name))
  <2>1. /\ W \in Seq(Seq(Name)) /\ k \in 1..Len(W) /\ W[k] = <<name>> \o s
    BY <1>5, <1>6, WithLocalsIs
  <2>2. name \in Name /\ s \in Seq(Name) /\ <<name>> \in Seq(Name)
    <3>1. name \in Name
      BY <1>5, <1>6, MachineBytes
    <3> HIDE DEF name
    <3> QED
      BY <3>1, LocalsIs
  <2> HIDE DEF W, s
  <2>3. Joined(W, k) = Joined(W, k - 1) \o W[k] /\ Joined(W, k - 1) \in Seq(Name)
    BY <2>1, JoinedNext
  <2>4. (Joined(W, k - 1) \o <<name>>) \o s = Joined(W, k - 1) \o (<<name>> \o s)
    <3> HIDE DEF name
    <3> QED
      BY <2>2, <2>3, ConcatAssociative, SMTT(60)
  <2>5. ip'.names = (Joined(W, k - 1) \o <<name>>) \o s /\ ip'.address = ip.address
    BY <1>1, <1>3, <1>4, <1>6, <1>9 DEF W, s, IPs
  <2> QED
    BY <1>4, <2>1, <2>3, <2>4, <2>5 DEF W
<1>11. Taken(r)'
  BY <1>3, <1>4, SameFile DEF Taken
<1>12. Inside(r)'
  BY <1>3, <1>4, <1>6, <1>9, <1>10, <1>11 DEF Inside
<1> QED
  BY <1>3, <1>12 DEF Here

\* The names that are stored are not empty, so that none makes the program end.
LEMMA NoEmptyName ==
  ASSUME ReadInv, Covered, NEW r \in 0..Len(table), Here(r), stage = "names", left = 0
  PROVE  \A i \in DOMAIN ip.names : ip.names[i] # <<>>
<1>1. /\ Plain /\ table \in Seq(Machine) /\ Len(table) \in Nat /\ ip \in IPs
  BY FileIs DEF ReadInv, Covered, Inv, TypeOK, IPs
<1>2. CASE AtLast(r)
  <2>1. ip.names = <<>>
    BY <1>2 DEF AtLast, Nameless
  <2> QED
    BY <2>1
<1>3. CASE Inside(r)
  <2>1. r + 1 \in 1..Len(table)
    BY <1>1, <1>3 DEF Inside
  <2> DEFINE m == table[r + 1]
  <2>2. m \in Machine /\ Len(m.names) \in Nat
    BY <1>1, <2>1, MachineAt
  <2>3. ip.names = Joined(WithLocals(m), Len(m.names))
    <3>1. Len(m.names) - left = Len(m.names)
      BY <2>2
    <3> QED
      BY <1>3, <3>1 DEF Inside
  <2>4. \A k \in 1..Len(m.names) : m.names[k] # <<>> /\ m.names[k][1] # Dot
    <3>1. \A k \in 1..Len(m.names) :
             m.names[k] \in Name /\ Len(m.names[k]) >= 1 /\ m.names[k][1] # Dot
      BY <1>1, <2>1, PlainIs
    <3>2. Len(<<>>) = 0
      OBVIOUS
    <3> QED
      BY <3>1, <3>2
  <2> HIDE DEF m
  <2>5. ip.names = RecordOf(m).names
    <3>1. WithLocals(m) \in Seq(Seq(Name)) /\ Len(WithLocals(m)) = Len(m.names)
      BY <2>2, WithLocalsIs
    <3>2. Joined(WithLocals(m), Len(m.names)) = FlattenSeq(WithLocals(m))
      BY <3>1, JoinedType
    <3> QED
      BY <2>3, <3>2 DEF RecordOf
  <2>6. ip.names \in Seq(Name \ {<<>>})
    BY <2>2, <2>4, <2>5, WithLocalsIs
  <2> QED
    BY <2>6
<1> QED
  BY <1>2, <1>3 DEF Here

LEMMA RecordStep ==
  ASSUME ReadInv, Covered, EndRecord, NEW r \in 0..Len(table), Here(r)
  PROVE  \E q \in 0..Len(table) : Here(q)'
<1>1. /\ Inv /\ Cut /\ Plain /\ ip \in IPs /\ ip_list \in Seq(IPs)
      /\ table \in Seq(Machine) /\ Len(table) \in Nat
  BY FileIs DEF ReadInv, Covered, Inv, TypeOK, IPs
<1>2. /\ UNCHANGED <<table, file, prog, pos, feof, ip>> /\ stage' = "insert"
      /\ ip_list' = Append(ip_list, ip) /\ left = 0 /\ stage = "names"
  BY DEF EndRecord
<1>3. Records' = Records /\ (Whole' <=> Whole)
  BY <1>2, SameFile
<1>4. CASE Inside(r)
  <2> DEFINE m == table[r + 1]
  <2>1. /\ ~feof /\ Taken(r) /\ r < Len(table)
        /\ ip.address = m.address /\ ip.names = Joined(WithLocals(m), Len(m.names) - left)
        /\ pos = NameStart(table, r + 1, Len(m.names) - left)
    BY <1>4 DEF Inside
  <2>2. r + 1 \in 1..Len(table) /\ r + 1 \in 0..Len(table) /\ (r + 1) - 1 = r
    BY <1>1, <2>1
  <2>3. m \in Machine /\ Len(m.names) \in Nat
    BY <1>1, <2>2, MachineAt
  <2>4. Len(m.names) - left = Len(m.names)
    BY <1>2, <2>3
  <2>5. pos = Start(table, r + 1)
    BY <1>1, <2>1, <2>2, <2>4, NamesSpan
  <2>6. ip = RecordOf(m)
    <3>1. WithLocals(m) \in Seq(Seq(Name)) /\ Len(WithLocals(m)) = Len(m.names)
          /\ RecordOf(m) \in IPs
      BY <2>3, WithLocalsIs
    <3> HIDE DEF m
    <3>2. Joined(WithLocals(m), Len(m.names)) = FlattenSeq(WithLocals(m))
      BY <3>1, JoinedType
    <3>3. ip.names = RecordOf(m).names /\ ip.address = RecordOf(m).address
      BY <2>1, <2>4, <3>2 DEF RecordOf
    <3> QED
      BY <1>1, <3>1, <3>3 DEF IPs
  <2>7. ip_list' = SubSeq(Records, 1, r + 1)
    <3>1. Records[r + 1] = RecordOf(m)
      BY <1>1, <2>2, RecordsIs
    <3>2. SubSeq(Records, 1, r + 1) = Append(SubSeq(Records, 1, r), Records[r + 1])
      BY <1>1, <2>1, RecordsPrefix
    <3> QED
      BY <1>2, <2>1, <2>6, <3>1, <3>2 DEF Taken
  <2>8. Between(r + 1)'
    BY <1>2, <1>3, <2>1, <2>2, <2>5, <2>7 DEF Between, Taken
  <2>9. Here(r + 1)'
    BY <1>2, <2>8 DEF Here
  <2> QED
    BY <2>2, <2>9
<1>5. CASE AtLast(r)
  <2>1. Ended /\ Nameless(r, ip) /\ ip_list = SubSeq(Records, 1, r)
    BY <1>5 DEF AtLast, Taken
  <2>2. Len(ip_list) = r /\ \A i \in 1..r : ip_list[i] = Records[i]
    BY <1>1, <2>1, RecordsPrefix
  <2>3. /\ Len(ip_list') = r + 1 /\ ip_list'[r + 1] = ip
        /\ \A i \in 1..r : ip_list'[i] = Records[i]
    BY <1>1, <1>2, <2>2, AppendProperties
  <2>4. Over(r)'
    BY <1>2, <1>3, <2>1, <2>3 DEF Over, Ended, Nameless
  <2>5. Here(r)'
    BY <1>2, <2>4 DEF Here
  <2> QED
    BY <2>5
<1> QED
  BY <1>2, <1>4, <1>5 DEF Here

\* What keeps the file, what has been read and the place in the file.
LEMMA SamePlace ==
  ASSUME UNCHANGED <<table, file, prog, pos, feof, ip_list>>, NEW r
  PROVE  (Between(r)' <=> Between(r)) /\ (Over(r)' <=> Over(r))
<1>1. Records' = Records /\ (Whole' <=> Whole)
  BY SameFile
<1> QED
  BY <1>1 DEF Between, Taken, Over, Ended, Nameless

LEMMA OtherStep ==
  ASSUME ReadInv, Covered, NEW r \in 0..Len(table), Here(r),
         EndReading \/ EndInsert \/ InsertName \/ Search \/ InputOverrun \/ SearchStale
  PROVE  Here(r)'
<1>1. UNCHANGED <<table, file, prog, pos, feof, ip_list>>
  BY DEF EndReading, EndInsert, InsertName, Search, InputOverrun, SearchStale, Answer,
     reading
<1>2. (Between(r)' <=> Between(r)) /\ (Over(r)' <=> Over(r))
  BY <1>1, SamePlace
<1>3. CASE EndReading
  <2>1. stage = "loop" /\ stage' = "search" /\ AtEnd
    BY <1>3 DEF EndReading
  <2>2. Between(r) => prog # "l2p1" /\ pos = Len(file)
    BY <2>1 DEF AtEnd, Between
  <2>3. CASE Over(r)
    <3>1. Over(r)'
      BY <1>2, <2>3
    <3> QED
      BY <2>1, <3>1 DEF Here
  <2>4. CASE Between(r)
    <3>1. prog' # "l2p1" /\ Between(r)' /\ pos' = Len(file')
      BY <1>1, <1>2, <2>2, <2>4
    <3> QED
      BY <2>1, <3>1 DEF Here
  <2> QED
    BY <2>1, <2>3, <2>4 DEF Here
<1>4. CASE EndInsert \/ InsertName
  <2>1. stage = "insert" /\ stage' \in {"loop", "insert"}
    BY <1>4 DEF EndInsert, InsertName
  <2> QED
    BY <1>2, <2>1 DEF Here
<1>5. CASE Search \/ InputOverrun \/ SearchStale
  <2>1. stage = "search" /\ stage' \in {"search", "end"}
    BY <1>5 DEF Search, InputOverrun, SearchStale, Answer
  <2> QED
    BY <1>1, <1>2, <2>1 DEF Here
<1> QED
  BY <1>3, <1>4, <1>5

\* A whole file of proper names ends no program but at the end of the input.
LEMMA NothingEnds ==
  ASSUME ReadInv, Covered, Whole, NEW r \in 0..Len(table), Here(r)
  PROVE  ~StreamEnds /\ ~BufferEnds /\ ~EmptyName
<1>1. /\ Inv /\ Cut /\ Plain /\ table \in Seq(Machine) /\ Len(table) \in Nat
      /\ Len(file) \in Nat /\ pos \in Nat /\ pos <= Len(file) /\ left \in Nat
  BY FileIs DEF ReadInv, Covered, Inv, TypeOK
<1>2. ~(stage = "names" /\ left > 0 /\ BrokenOff)
  <2> SUFFICES ASSUME stage = "names", left > 0 PROVE ~BrokenOff
    OBVIOUS
  <2>1. Inside(r)
    BY DEF Here, AtLast
  <2> DEFINE L == Len(table[r + 1].names)
             k == L - left + 1
  <2>2. r + 1 \in 1..Len(table) /\ L \in Nat /\ left <= L
    <3>1. r + 1 \in 1..Len(table)
      BY <1>1, <2>1 DEF Inside
    <3>2. L \in Nat
      BY <1>1, <3>1, MachineAt
    <3> QED
      BY <2>1, <3>1, <3>2 DEF Inside
  <2>3. k \in 1..L /\ k - 1 = L - left
    <3>1. PICK l \in Nat, n \in Nat : l = L /\ n = left /\ n > 0 /\ n <= l
      BY <1>1, <2>2
    <3>2. l - n + 1 \in 1..l /\ (l - n + 1) - 1 = l - n
      BY <3>1
    <3> QED
      BY <3>1, <3>2
  <2>4. pos = NameStart(table, r + 1, L - left)
    BY <2>1 DEF Inside
  <2> HIDE DEF k
  <2>5. InTime <=> NameStart(table, r + 1, k) <= Len(file)
    BY <1>1, <2>2, <2>3, <2>4, ReadsTheName
  <2>6. NameStart(table, r + 1, k) <= Len(file)
    BY <1>1, <2>2, <2>3, RecordThere
  <2> QED
    BY <2>5, <2>6 DEF BrokenOff
<1>3. ~(prog = "l2p3" /\ stage = "loop" /\ ~AtEnd /\ Past(pos + 8))
  <2> SUFFICES ASSUME prog = "l2p3", stage = "loop", ~AtEnd PROVE ~Past(pos + 8)
    OBVIOUS
  <2>1. Between(r)
    BY DEF Here, Over, Ended
  <2>2. pos = Start(table, r) /\ pos < Len(file)
    BY <1>1, <2>1 DEF Between, AtEnd
  <2>3. r + 1 \in 1..Len(table) /\ (r + 1) - 1 = r
    BY <1>1, <2>2, MoreToRead
  <2>4. pos + 8 <= Len(file)
    BY <1>1, <2>2, <2>3, RecordThere
  <2> QED
    BY <1>1, <2>4 DEF Past
<1>4. ~EmptyName
  BY NoEmptyName DEF EmptyName
<1> QED
  BY <1>2, <1>3, <1>4 DEF StreamEnds, BufferEnds

LEMMA InitRead == Init => ReadInv
<1> SUFFICES ASSUME Init PROVE ReadInv
  OBVIOUS
<1>1. Inv /\ Cut
  BY InitInv DEF Init, Cut
<1>2. table \in Seq(Machine) /\ Len(table) \in Nat
  BY <1>1, FileIs
<1>3. Between(0)
  <2>1. SubSeq(Records, 1, 0) = <<>>
    BY <1>2, RecordsIs, SubSeqEmpty
  <2>2. Start(table, 0) = 0
    BY <1>2, TableBytes
  <2> QED
    BY <1>2, <2>1, <2>2 DEF Between, Taken, Init
<1>4. Here(0) /\ 0 \in 0..Len(table) /\ status = "run"
  BY <1>2, <1>3 DEF Here, Init
<1> QED
  BY <1>1, <1>4 DEF ReadInv, ReadSoFar, Works

LEMMA NextRead == ReadInv /\ [Next]_vars => ReadInv'
<1> SUFFICES ASSUME ReadInv, [Next]_vars PROVE ReadInv'
  OBVIOUS
<1>1. Inv'
  BY NextInv DEF ReadInv
<1>2. UNCHANGED <<table, file, prog>>
  BY DEF Next, vars, ReadHeader, ReadName, StreamEnds, BufferEnds, EmptyName, Dies,
     EndRecord, InsertName, EndInsert, EndReading, Search, InputOverrun, SearchStale,
     Answer
<1>3. Cut' /\ (Covered' <=> Covered) /\ (Whole' <=> Whole)
  BY <1>2, SameFile DEF ReadInv
<1>4. SUFFICES ASSUME Covered
               PROVE  (\E r \in 0..Len(table) : Here(r)') /\ (Whole => Works')
  <2>1. table' = table
    BY <1>2
  <2> QED
    BY <1>1, <1>3, <1>4, <2>1 DEF ReadInv, ReadSoFar
<1>5. PICK r \in 0..Len(table) : Here(r)
  BY <1>4 DEF ReadInv, ReadSoFar
<1>6. Whole => Works
  BY <1>4 DEF ReadInv, ReadSoFar
<1>7. CASE StreamEnds \/ BufferEnds \/ EmptyName
  <2>1. ~Whole
    BY <1>4, <1>5, <1>7, NothingEnds
  <2>2. UNCHANGED <<table, file, prog, pos, feof, ip, left, ip_list, stage>>
    BY <1>7 DEF StreamEnds, BufferEnds, EmptyName, Dies, reading
  <2>3. Records' = Records /\ (Whole' <=> Whole)
    BY <2>2, SameFile
  <2>4. Here(r)'
    BY <1>5, <2>2, <2>3
       DEF Here, Between, Inside, Taken, Over, AtLast, Ended, Nameless
  <2> QED
    BY <2>1, <2>4
<1>8. CASE UNCHANGED vars
  <2>1. UNCHANGED <<table, file, prog, pos, feof, ip, left, ip_list, stage, status, typed>>
    BY <1>8 DEF vars, reading
  <2>2. Records' = Records /\ (Whole' <=> Whole)
    BY <2>1, SameFile
  <2>3. Here(r)'
    BY <1>5, <2>1, <2>2
       DEF Here, Between, Inside, Taken, Over, AtLast, Ended, Nameless
  <2>4. Works' <=> Works
    BY <2>1 DEF Works, Fits
  <2> QED
    BY <1>6, <2>3, <2>4
<1>9. CASE ReadHeader \/ ReadName \/ EndRecord \/ EndReading \/ EndInsert \/ InsertName
            \/ Search \/ SearchStale
  <2>1. \E q \in 0..Len(table) : Here(q)'
    BY <1>4, <1>5, <1>9, HeaderStep, NameStep, RecordStep, OtherStep
  <2>2. status' = "run"
    BY <1>9 DEF ReadHeader, ReadName, EndRecord, EndReading, EndInsert, InsertName,
       Search, SearchStale, Answer
  <2> QED
    BY <2>1, <2>2 DEF Works
<1>10. CASE InputOverrun
  <2>1. \E q \in 0..Len(table) : Here(q)'
    BY <1>4, <1>5, <1>10, OtherStep
  <2>2. stage' = "search" /\ ~Fits'
    <3>1. PICK word \in Words : ~RoomFor(word) /\ typed' = Append(typed, word)
      BY <1>10 DEF InputOverrun
    <3>2. typed \in Seq(Words)
      BY DEF ReadInv, Inv, TypeOK
    <3>3. Len(typed) + 1 \in DOMAIN typed' /\ typed'[Len(typed) + 1] = word
      BY <3>1, <3>2, AppendProperties
    <3> QED
      BY <1>10, <3>1, <3>3 DEF InputOverrun, Fits, RoomFor
  <2> QED
    BY <2>1, <2>2 DEF Works
<1> QED
  BY <1>7, <1>8, <1>9, <1>10 DEF Next

LEMMA ReadInvariance == Spec => []ReadInv
BY InitRead, NextRead, PTL DEF Spec

\* What the programs have when they have read.
LEMMA ReadMeans == ReadInv => ReadsWhatIsThere
<1> SUFFICES ASSUME ReadInv PROVE ReadsWhatIsThere
  OBVIOUS
<1>1. /\ Inv /\ table \in Seq(Machine) /\ Len(table) \in Nat /\ ip_list \in Seq(IPs)
      /\ Records \in Seq(IPs) /\ Len(Records) = Len(table)
      /\ Len(file) \in Nat /\ Len(Encode(table)) \in Nat
      /\ Whole => Len(file) = Len(Encode(table))
  BY FileIs, RecordsIs DEF ReadInv, Inv, TypeOK, IPs
<1>2. ASSUME NEW r \in 0..Len(table), Over(r), Whole
      PROVE  ip_list = Append(Records, NoIp)
  <2>1. /\ r = Len(table) /\ Len(ip_list) = Len(Records) + 1
        /\ \A i \in 1..Len(Records) : ip_list[i] = Records[i]
        /\ ip_list[Len(Records) + 1] = NoIp
    BY <1>1, <1>2 DEF Over, Nameless
  <2>2. NoIp \in IPs
    <3>1. Len(ip_list) \in 1..Len(ip_list)
      BY <1>1, <2>1
    <3> QED
      BY <1>1, <2>1, <3>1
  <2> DEFINE R == Records
  <2>3. /\ R \in Seq(IPs) /\ Append(R, NoIp) \in Seq(IPs)
        /\ Len(Append(R, NoIp)) = Len(R) + 1
        /\ Append(R, NoIp)[Len(R) + 1] = NoIp
        /\ \A i \in 1..Len(R) : Append(R, NoIp)[i] = R[i]
    <3>1. R \in Seq(IPs)
      BY <1>1
    <3> HIDE DEF R
    <3> QED
      BY <2>2, <3>1, AppendProperties
  <2> HIDE DEF R
  <2>4. \A i \in 1..Len(R) + 1 : i \in 1..Len(R) \/ i = Len(R) + 1
    BY <2>3
  <2>5. \A i \in 1..Len(ip_list) : ip_list[i] = Append(R, NoIp)[i]
    BY <2>1, <2>3, <2>4 DEF R
  <2>6. ip_list = Append(R, NoIp)
    <3>1. Len(ip_list) = Len(Append(R, NoIp))
      BY <2>1, <2>3 DEF R
    <3> QED
      BY <1>1, <2>3, <2>5, <3>1, SeqEqual
  <2> QED
    BY <2>6 DEF R
<1>3. ASSUME NEW r \in 0..Len(table), Between(r), pos = Len(file), Whole
      PROVE  ip_list = Records
  <2>1. r = Len(table)
    <3> SUFFICES ASSUME r # Len(table) PROVE FALSE
      OBVIOUS
    <3>1. r + 1 \in 1..Len(table) /\ (r + 1) - 1 = r
      BY <1>1
    <3>2. Start(table, r) + 8 <= Len(file) /\ Start(table, r) \in Nat
      BY <1>3, <3>1, RecordThere DEF ReadInv
    <3> QED
      BY <1>1, <1>3, <3>2 DEF Between
  <2>2. SubSeq(Records, 1, Len(Records)) = Records
    BY <1>1, SubSeqFull
  <2> QED
    BY <1>1, <1>3, <2>1, <2>2 DEF Between, Taken
<1>4. ReadsAll
  <2> SUFFICES ASSUME Plain, Whole
               PROVE  /\ Works
                      /\ stage \in {"search", "end"} =>
                           ip_list = IF prog = "l2p1" THEN Append(Records, NoIp) ELSE Records
    BY DEF ReadsAll, Works
  <2>1. PICK r \in 0..Len(table) : Here(r) /\ Works
    BY DEF ReadInv, ReadSoFar, Covered
  <2>2. ASSUME stage \in {"search", "end"}
        PROVE  ip_list = IF prog = "l2p1" THEN Append(Records, NoIp) ELSE Records
    <3>1. CASE Over(r)
      BY <1>2, <3>1 DEF Over, Ended
    <3>2. CASE prog # "l2p1" /\ Between(r) /\ pos = Len(file)
      BY <1>3, <3>2
    <3> QED
      BY <2>1, <2>2, <3>1, <3>2 DEF Here
  <2> QED
    BY <2>1, <2>2
<1>5. NothingInvented
  <2> SUFFICES ASSUME Plain, prog # "l2p2", NEW i \in DOMAIN ip_list
               PROVE  \/ i <= Len(table) /\ ip_list[i] = Records[i]
                      \/ i = Len(ip_list) /\ ip_list[i].names = <<>>
    BY DEF NothingInvented
  <2>1. PICK r \in 0..Len(table) : Here(r)
    BY DEF ReadInv, ReadSoFar, Covered
  <2>2. i \in 1..Len(ip_list)
    BY <1>1
  <2>3. CASE Taken(r)
    <3>1. Len(ip_list) = r /\ ip_list[i] = Records[i]
      BY <1>1, <2>2, <2>3, RecordsPrefix DEF Taken
    <3>2. i <= Len(table)
      BY <1>1, <2>2, <3>1
    <3> QED
      BY <3>1, <3>2
  <2>4. CASE Over(r)
    <3>1. Len(ip_list) = r + 1
      BY <2>4 DEF Over
    <3>2. i \in 1..r \/ i = r + 1
      BY <2>2, <3>1
    <3>3. i \in 1..r => i <= Len(table)
      BY <1>1
    <3> QED
      BY <2>4, <3>1, <3>2, <3>3 DEF Over, Nameless
  <2>5. stage \in {"loop", "insert", "names", "search", "end"}
    BY <1>1 DEF Inv, TypeOK
  <2> QED
    BY <2>1, <2>3, <2>4, <2>5 DEF Here, Between, Inside, AtLast
<1> QED
  BY <1>4, <1>5 DEF ReadsWhatIsThere

\* For every table of proper names, each of the three ways of reading its file
\* gives its machines in order, with their addresses and names, and nothing
\* else but the nameless record of l2p1; and from a file that is cut anywhere
\* l2p1 and l2p3 take no other record either (read_bin_data_fpointer, _sys and
\* _buf with the loops that call them).
THEOREM ReadsWhatIsThereHolds == Spec => []ReadsWhatIsThere
BY ReadInvariance, ReadMeans, PTL

(***************************************************************************)
(* How often something is in a sequence.                                   *)
(***************************************************************************)

Where(s, x) == {j \in DOMAIN s : s[j] = x}

LEMMA WhereFinite ==
  ASSUME NEW S, NEW s \in Seq(S), NEW x
  PROVE  /\ Where(s, x) \subseteq 1..Len(s) /\ IsFiniteSet(Where(s, x))
         /\ Cardinality(Where(s, x)) \in Nat
<1>1. Len(s) \in Nat /\ Where(s, x) \subseteq 1..Len(s)
  BY DEF Where
<1>2. IsFiniteSet(1..Len(s))
  BY <1>1, FS_Interval
<1>3. IsFiniteSet(Where(s, x))
  BY <1>1, <1>2, FS_Subset
<1> QED
  BY <1>1, <1>3, FS_CardinalityType

\* What is put into a sequence is in it once more, and the rest as often as before.
LEMMA CountInserted ==
  ASSUME NEW S, NEW s \in Seq(S), NEW e \in S, NEW i \in 1..Len(s) + 1, NEW x
  PROVE  Cardinality(Where(InsertAt(s, i, e), x)) =
            Cardinality(Where(s, x)) + (IF x = e THEN 1 ELSE 0)
<1> DEFINE t == InsertAt(s, i, e)
           A == Where(s, x)
           B == Where(t, x)
<1>1. /\ t \in Seq(S) /\ Len(t) = Len(s) + 1
      /\ \A j \in 1..i - 1 : t[j] = s[j]
      /\ t[i] = e
      /\ \A j \in i..Len(s) : t[j + 1] = s[j]
  <2>1. Inserted(t, S, s, i, e)
    BY InsertAtIs
  <2> HIDE DEF t
  <2> QED
    BY <2>1 DEF Inserted
<1>2. /\ DOMAIN s = 1..Len(s) /\ Len(s) \in Nat /\ i \in Nat /\ i >= 1 /\ i <= Len(s) + 1
      /\ DOMAIN t = 1..Len(s) + 1
  <2> HIDE DEF t
  <2>1. DOMAIN s = 1..Len(s) /\ Len(s) \in Nat
    OBVIOUS
  <2>2. i \in Nat /\ i >= 1 /\ i <= Len(s) + 1
    BY <2>1
  <2>3. DOMAIN t = 1..Len(t)
    BY <1>1
  <2> QED
    BY <1>1, <2>1, <2>2, <2>3
<1>3. IsFiniteSet(A) /\ Cardinality(A) \in Nat /\ IsFiniteSet(B)
  <2>1. IsFiniteSet(A) /\ Cardinality(A) \in Nat
    BY WhereFinite
  <2>2. IsFiniteSet(B)
    BY <1>1, WhereFinite
  <2> QED
    BY <2>1, <2>2
<1>4. \A j \in A : j \in 1..Len(s) /\ s[j] = x
  BY <1>2 DEF Where
<1>5. \A j \in 1..Len(s) + 1 : j \in B <=> t[j] = x
  BY <1>2 DEF Where
<1>6. \A j \in B : j \in 1..Len(s) + 1
  BY <1>2 DEF Where
<1>7. \A j \in 1..Len(s) : s[j] = x => j \in A
  BY <1>2 DEF Where
<1> HIDE DEF t, A, B
<1> DEFINE f == [j \in A |-> IF j < i THEN j ELSE j + 1]
<1>8. f \in Bijection(A, B \ {i})
  <2>1. ASSUME NEW j \in A PROVE f[j] \in B \ {i}
    <3>1. j \in 1..Len(s) /\ s[j] = x
      BY <1>4
    <3>2. CASE j < i
      <4>1. j \in 1..i - 1 /\ j \in 1..Len(s) + 1 /\ j # i
        BY <1>2, <3>1, <3>2
      <4> QED
        BY <1>1, <1>5, <3>1, <3>2, <4>1
    <3>3. CASE ~(j < i)
      <4>1. j \in i..Len(s) /\ j + 1 \in 1..Len(s) + 1 /\ j + 1 # i
        BY <1>2, <3>1, <3>3
      <4> QED
        BY <1>1, <1>5, <3>1, <3>3, <4>1
    <3> QED
      BY <3>2, <3>3
  <2>2. ASSUME NEW j \in A, NEW k \in A, f[j] = f[k] PROVE j = k
    <3>1. j \in Nat /\ k \in Nat
      BY <1>2, <1>4
    <3> QED
      BY <1>2, <2>2, <3>1
  <2>3. ASSUME NEW k \in B \ {i} PROVE \E j \in A : f[j] = k
    <3>1. k \in 1..Len(s) + 1 /\ k # i /\ t[k] = x
      BY <1>5, <1>6
    <3>2. CASE k < i
      <4>1. k \in 1..i - 1 /\ k \in 1..Len(s)
        BY <1>2, <3>1, <3>2
      <4> QED
        BY <1>1, <1>7, <3>1, <3>2, <4>1
    <3>3. CASE ~(k < i)
      <4>1. k - 1 \in i..Len(s) /\ k - 1 \in 1..Len(s) /\ (k - 1) + 1 = k /\ ~(k - 1 < i)
        BY <1>2, <3>1, <3>3
      <4>2. k - 1 \in A
        BY <1>1, <1>7, <3>1, <4>1
      <4> QED
        BY <4>1, <4>2
    <3> QED
      BY <3>2, <3>3
  <2>4. f \in [A -> B \ {i}]
    BY <2>1
  <2> HIDE DEF f
  <2> QED
    BY <2>2, <2>3, <2>4 DEF Bijection, Injection, Surjection, IsInjective
<1>9. ExistsBijection(A, B \ {i})
  BY <1>8 DEF ExistsBijection
<1>10. Cardinality(B \ {i}) = Cardinality(A)
  BY <1>3, <1>9, FS_Bijection
<1>11. /\ Cardinality(B \ {i}) = IF i \in B THEN Cardinality(B) - 1 ELSE Cardinality(B)
       /\ Cardinality(B) \in Nat
  BY <1>3, FS_RemoveElement, FS_CardinalityType
<1>12. i \in B <=> x = e
  BY <1>1, <1>2, <1>5
<1> QED
  BY <1>3, <1>10, <1>11, <1>12 DEF t, A, B

\* The first few of a sequence.
LEMMA CountFirst ==
  ASSUME NEW S, NEW s \in Seq(S), NEW i \in 0..Len(s), NEW x
  PROVE  Cardinality(Where(SubSeq(s, 1, i), x)) <= Cardinality(Where(s, x))
<1>1. /\ SubSeq(s, 1, i) \in Seq(S) /\ Len(SubSeq(s, 1, i)) = i
      /\ \A j \in 1..i : SubSeq(s, 1, i)[j] = s[j]
      /\ DOMAIN s = 1..Len(s) /\ Len(s) \in Nat
  OBVIOUS
<1>2. Where(SubSeq(s, 1, i), x) \in SUBSET Where(s, x)
  BY <1>1 DEF Where
<1> QED
  BY <1>2, WhereFinite, FS_Subset

(***************************************************************************)
(* The tree, and the answers.                                              *)
(***************************************************************************)

\* A record is under a name as often as it has the name; the last one, while
\* its names are inserted, as often as it has it among those already inserted.
Entered(w, r) ==
    {j \in Where(ip_list[r].names, w) : stage = "insert" /\ r = Len(ip_list) => j > left}
InTree ==
    \A w \in Name : \A r \in DOMAIN ip_list :
        Cardinality(Where(Under(w), r)) = Cardinality(Entered(w, r))

\* What has been answered. There is a last answer more than words typed when
\* the last word was looked up again.
Asked == [i \in DOMAIN answers |-> answers[i].word]
Justified(a) ==
    \A r \in DOMAIN ip_list :
        /\ Cardinality(Where(a.ips, r)) <= Cardinality(Where(ip_list[r].names, a.word))
        /\ a.ips = <<>> => Cardinality(Where(ip_list[r].names, a.word)) = 0
AnswersSoFar ==
    /\ stage \notin {"search", "end"} => answers = <<>> /\ typed = <<>>
    /\ status = "run" =>
          /\ stage = "search" => Asked = typed
          /\ Asked = typed \/ Asked = Append(typed, input)
    /\ \A i \in DOMAIN answers : Justified(answers[i])

AnswerInv == Inv /\ InTree /\ AnswersSoFar

LEMMA ListedNames ==
  ASSUME Inv, NEW r \in DOMAIN ip_list
  PROVE  /\ ip_list[r] \in IPs /\ ip_list[r].names \in Seq(Name)
         /\ DOMAIN ip_list = 1..Len(ip_list) /\ Len(ip_list) \in Nat
<1>1. ip_list \in Seq(IPs)
  BY DEF Inv, TypeOK, IPs
<1>2. DOMAIN ip_list = 1..Len(ip_list) /\ Len(ip_list) \in Nat /\ ip_list[r] \in IPs
  BY <1>1
<1> QED
  BY <1>2 DEF IPs

\* Where no names are being inserted, all of them have been.
LEMMA AllEntered ==
  ASSUME stage = "insert" => left = 0, Inv, NEW w, NEW r \in DOMAIN ip_list
  PROVE  Entered(w, r) = Where(ip_list[r].names, w)
<1>1. Where(ip_list[r].names, w) \subseteq 1..Len(ip_list[r].names)
      /\ Len(ip_list[r].names) \in Nat
  BY ListedNames, WhereFinite
<1>2. \A j \in Where(ip_list[r].names, w) : j > 0
  BY <1>1
<1> QED
  BY <1>2 DEF Entered

\* The steps that leave the list and the tree alone.
LEMMA TreeSame ==
  ASSUME Inv, Inv', InTree, UNCHANGED <<ip_list, ip_tree>>,
         stage = "insert" => left = 0, stage' = "insert" => left' = 0
  PROVE  InTree'
<1> SUFFICES ASSUME NEW w \in Name, NEW r \in DOMAIN ip_list'
             PROVE  Cardinality(Where(Under(w)', r)) = Cardinality(Entered(w, r)')
  BY DEF InTree
<1>1. Entered(w, r) = Where(ip_list[r].names, w)
  BY AllEntered
<1>2. r \in DOMAIN ip_list /\ ip_list' = ip_list
  OBVIOUS
<1>3. Entered(w, r)' = Where(ip_list[r].names, w)
  <2>1. Where(ip_list'[r].names, w) \subseteq 1..Len(ip_list[r].names)
        /\ Len(ip_list[r].names) \in Nat
    BY <1>2, ListedNames, WhereFinite
  <2>2. \A j \in Where(ip_list'[r].names, w) : j > 0
    BY <2>1
  <2> QED
    BY <1>2, <2>2 DEF Entered
<1>4. Under(w)' = Under(w)
  BY DEF Under
<1> QED
  BY <1>1, <1>2, <1>3, <1>4 DEF InTree

\* A record that is new in the list is nowhere in the tree, and none of its
\* names has been inserted.
LEMMA TreeEndRecord ==
  ASSUME Inv, Inv', InTree, EndRecord
  PROVE  InTree'
<1> SUFFICES ASSUME NEW w \in Name, NEW r \in DOMAIN ip_list'
             PROVE  Cardinality(Where(Under(w)', r)) = Cardinality(Entered(w, r)')
  BY DEF InTree
<1>1. /\ ip_list \in Seq(IPs) /\ ip \in IPs /\ ip_list' = Append(ip_list, ip)
      /\ left' = Len(ip.names) /\ stage = "names" /\ stage' = "insert"
      /\ ip_tree' = ip_tree
  BY DEF Inv, TypeOK, IPs, EndRecord
<1>2. /\ Len(ip_list') = Len(ip_list) + 1 /\ ip_list'[Len(ip_list) + 1] = ip
      /\ \A i \in DOMAIN ip_list : ip_list'[i] = ip_list[i]
      /\ r \in DOMAIN ip_list \/ r = Len(ip_list) + 1
  BY <1>1, ListGrows
<1>3. Under(w)' = Under(w) /\ Under(w) \in Seq(DOMAIN ip_list)
  BY <1>1, UnderType DEF Under
<1>4. CASE r \in DOMAIN ip_list
  <2>1. r # Len(ip_list')
    BY <1>1, <1>2, <1>4
  <2>2. Entered(w, r) = Where(ip_list[r].names, w)
    BY <1>1, <1>4, AllEntered
  <2>3. Entered(w, r)' = Where(ip_list[r].names, w)
    BY <1>2, <1>4, <2>1 DEF Entered
  <2> QED
    BY <1>3, <1>4, <2>2, <2>3 DEF InTree
<1>5. CASE r = Len(ip_list) + 1
  <2>1. r \notin DOMAIN ip_list
    BY <1>1, <1>5
  <2>2. Where(Under(w), r) = {}
    BY <1>3, <2>1 DEF Where
  <2>3. ip_list'[r] = ip /\ ip.names \in Seq(Name)
    BY <1>1, <1>2, <1>5 DEF IPs
  <2>4. \A j \in Where(ip.names, w) : ~(j > left')
    BY <1>1, <2>3, WhereFinite
  <2>5. Entered(w, r)' = {}
    BY <1>1, <1>2, <1>5, <2>3, <2>4 DEF Entered
  <2> QED
    BY <1>3, <2>2, <2>5
<1> QED
  BY <1>2, <1>4, <1>5

\* A name is inserted: the record is once more under it, and one more of its
\* names has been inserted.
LEMMA TreeInsertName ==
  ASSUME Inv, Inv', InTree, InsertName
  PROVE  InTree'
<1> DEFINE name == ip.names[left]
           n == Len(ip_list)
<1>1. /\ ip_list \in Seq(IPs) /\ ip_list # <<>> /\ ip = ip_list[n] /\ stage = "insert"
      /\ left \in Nat /\ left > 0 /\ left <= Len(ip.names) /\ ip.names \in Seq(Name)
      /\ stage' = "insert" /\ left' = left - 1 /\ ip_list' = ip_list
  <2>1. ip.names \in Seq(Name)
    BY DEF Inv, TypeOK
  <2> QED
    BY <2>1 DEF Inv, TypeOK, IPs, Inserting, InsertName
<1>2. name \in Name /\ n \in DOMAIN ip_list /\ left \in 1..Len(ip.names)
  BY <1>1
<1>3. PICK i \in 1..IF Under(name) = <<>> THEN 1 ELSE Len(Under(name)) :
          ip_tree' = [v \in DOMAIN ip_tree \cup {name} |->
                        IF v = name THEN InsertAt(Under(name), i, n) ELSE ip_tree[v]]
  BY DEF InsertName
<1>4. Under(name) \in Seq(DOMAIN ip_list) /\ i \in 1..Len(Under(name)) + 1
  <2>1. Under(name) \in Seq(DOMAIN ip_list)
    BY UnderType
  <2> QED
    BY <1>3, <2>1
<1> SUFFICES ASSUME NEW w \in Name, NEW r \in DOMAIN ip_list
             PROVE  Cardinality(Where(Under(w)', r)) = Cardinality(Entered(w, r)')
  BY <1>1 DEF InTree
<1> HIDE DEF name
<1>5. Under(w)' = IF w = name THEN InsertAt(Under(name), i, n) ELSE Under(w)
  BY <1>3 DEF Under
<1>6. Cardinality(Where(Under(w)', r)) =
         Cardinality(Where(Under(w), r)) + (IF w = name /\ r = n THEN 1 ELSE 0)
  <2>1. CASE w = name
    BY <1>2, <1>4, <1>5, <2>1, CountInserted
  <2>2. CASE w # name
    <3>1. Cardinality(Where(Under(w), r)) \in Nat
      BY UnderType, WhereFinite
    <3> QED
      BY <1>5, <2>2, <3>1
  <2> QED
    BY <2>1, <2>2
<1> DEFINE A == Entered(w, r)
           B == Entered(w, r)'
<1>7. ip_list[r].names \in Seq(Name)
  BY ListedNames
<1>8. IsFiniteSet(A)
  <2>1. A \in SUBSET Where(ip_list[r].names, w)
    BY DEF Entered
  <2> QED
    BY <1>7, <2>1, WhereFinite, FS_Subset
<1>9. B = IF w = name /\ r = n THEN A \cup {left} ELSE A
  <2>1. CASE r # n
    BY <1>1, <2>1 DEF Entered
  <2>2. CASE r = n
    <3>1. /\ Where(ip.names, w) \subseteq 1..Len(ip.names)
          /\ left \in Where(ip.names, w) <=> w = name
      BY <1>1, <1>2, WhereFinite DEF Where, name
    <3>2. /\ A = {j \in Where(ip.names, w) : j > left}
          /\ B = {j \in Where(ip.names, w) : j > left - 1}
      BY <1>1, <2>2 DEF Entered
    <3>3. \A j \in Where(ip.names, w) : j > left - 1 <=> j > left \/ j = left
      BY <1>1, <3>1
    <3> HIDE DEF A, B
    <3> QED
      BY <2>2, <3>1, <3>2, <3>3
  <2> QED
    BY <2>1, <2>2
<1>10. r = n => left \notin A
  BY <1>1 DEF Entered
<1>11. Cardinality(A) = Cardinality(Where(Under(w), r))
  BY DEF InTree
<1> HIDE DEF A, B
<1>12. Cardinality(B) = Cardinality(A) + (IF w = name /\ r = n THEN 1 ELSE 0)
  <2>1. Cardinality(A) \in Nat
    BY <1>8, FS_CardinalityType
  <2>2. Cardinality(A \cup {left}) = IF left \in A THEN Cardinality(A) ELSE Cardinality(A) + 1
    BY <1>8, FS_AddElement
  <2> QED
    BY <1>9, <1>10, <2>1, <2>2
<1>13. Cardinality(B) = Cardinality(Where(Under(w)', r))
  BY <1>6, <1>11, <1>12
<1> QED
  BY <1>13 DEF B

\* The words of the answers when there is one more.
LEMMA AskedNext ==
  ASSUME NEW S, answers \in Seq([word : Name, ips : S]), NEW a \in [word : Name, ips : S],
         answers' = Append(answers, a)
  PROVE  Asked' = Append(Asked, a.word)
<1> DEFINE T == [word : Name, ips : S]
           n == Len(answers)
<1>1. /\ n \in Nat /\ DOMAIN answers = 1..n /\ \A i \in 1..n : answers[i] \in T
  <2>1. answers \in Seq(T)
    OBVIOUS
  <2> HIDE DEF T
  <2> QED
    BY <2>1
<1>2. /\ answers' \in Seq(T) /\ Len(answers') = n + 1 /\ answers'[n + 1] = a
      /\ \A i \in 1..n : answers'[i] = answers[i]
  <2>1. answers \in Seq(T) /\ a \in T
    OBVIOUS
  <2> HIDE DEF T
  <2> QED
    BY <2>1, AppendProperties
<1>3. Asked \in Seq(Name) /\ Len(Asked) = n
  <2>1. Asked \in [1..n -> Name]
    BY <1>1 DEF Asked
  <2> QED
    BY <1>1, <2>1, FunctionIsSeq
<1>4. Asked' \in Seq(Name) /\ Len(Asked') = n + 1
  <2>1. DOMAIN answers' = 1..n + 1 /\ \A i \in 1..n + 1 : answers'[i] \in T
    <3> HIDE DEF T
    <3> QED
      BY <1>1, <1>2
  <2>2. Asked' \in [1..n + 1 -> Name]
    BY <2>1 DEF Asked
  <2> QED
    BY <1>1, <2>2, FunctionIsSeq
<1>5. /\ \A i \in 1..n : Asked[i] = answers[i].word
      /\ \A i \in 1..n + 1 : Asked'[i] = answers'[i].word
  <2>1. DOMAIN answers' = 1..n + 1
    BY <1>1, <1>2
  <2> QED
    BY <1>1, <2>1 DEF Asked
<1> DEFINE b == Append(Asked, a.word)
<1>6. /\ b \in Seq(Name) /\ Len(b) = n + 1 /\ b[n + 1] = a.word
      /\ \A i \in 1..n : b[i] = Asked[i]
  BY <1>3, AppendProperties
<1> HIDE DEF b
<1>7. \A i \in 1..n + 1 : Asked'[i] = b[i]
  <2>1. \A i \in 1..n + 1 : i \in 1..n \/ i = n + 1
    BY <1>1
  <2> QED
    BY <1>1, <1>2, <1>5, <1>6, <2>1
<1> QED
  BY <1>4, <1>6, <1>7, SeqEqual DEF b

\* While nothing is read what was justified remains so.
LEMMA OneAnswer ==
  ASSUME AnswerInv, Inv', stage = "search", NEW word \in Name, NEW more \in BOOLEAN,
         Answer(word, more)
  PROVE  /\ Asked' = Append(Asked, word) /\ input' = word
         /\ stage' = IF more THEN "search" ELSE "end"
         /\ \A i \in DOMAIN answers' : Justified(answers[i])'
<1>1. PICK k \in 0..Len(Under(word)) :
         /\ k = 0 <=> Under(word) = <<>>
         /\ Found(word, k) \in Seq(DOMAIN ip_list)
         /\ answers' = Append(answers, [word |-> word, ips |-> Found(word, k)])
  BY AnswerType DEF AnswerInv
<1> DEFINE a == [word |-> word, ips |-> Found(word, k)]
<1>2. /\ answers \in Seq([word : Name, ips : Seq(DOMAIN ip_list)])
      /\ a \in [word : Name, ips : Seq(DOMAIN ip_list)]
  BY <1>1 DEF AnswerInv, Inv, TypeOK
<1>3. Asked' = Append(Asked, word)
  <2>1. Asked' = Append(Asked, a.word)
    BY <1>1, <1>2, AskedNext
  <2> QED
    BY <2>1
<1>4. Justified(a)
  <2> SUFFICES ASSUME NEW r \in DOMAIN ip_list
               PROVE  /\ Cardinality(Where(a.ips, r)) <=
                           Cardinality(Where(ip_list[r].names, a.word))
                      /\ a.ips = <<>> =>
                           Cardinality(Where(ip_list[r].names, a.word)) = 0
    BY DEF Justified
  <2>1. Cardinality(Where(Under(word), r)) = Cardinality(Where(ip_list[r].names, word))
    <3>1. Entered(word, r) = Where(ip_list[r].names, word)
      BY AllEntered DEF AnswerInv
    <3> QED
      BY <3>1 DEF AnswerInv, InTree
  <2>2. Under(word) \in Seq(DOMAIN ip_list) /\ Len(Under(word)) \in Nat
    <3>1. Under(word) \in Seq(DOMAIN ip_list)
      BY UnderType DEF AnswerInv
    <3> QED
      BY <3>1
  <2>3. Cardinality(Where(Found(word, k), r)) <= Cardinality(Where(Under(word), r))
    BY <2>2, CountFirst DEF Found
  <2>4. ASSUME Found(word, k) = <<>>
        PROVE  Cardinality(Where(ip_list[r].names, word)) = 0
    <3>1. Len(Found(word, k)) = k
      BY <2>2 DEF Found
    <3>2. Under(word) = <<>>
      BY <1>1, <2>4, <3>1
    <3>3. Where(Under(word), r) = {}
      BY <3>2 DEF Where
    <3> QED
      BY <2>1, <3>3, FS_EmptySet
  <2> QED
    BY <2>1, <2>3, <2>4
<1>5. ip_list' = ip_list /\ input' = word /\ stage' = IF more THEN "search" ELSE "end"
  BY DEF Answer
<1>6. ASSUME NEW i \in DOMAIN answers' PROVE Justified(answers[i])'
  <2> DEFINE T == [word : Name, ips : Seq(DOMAIN ip_list)]
  <2>1. answers \in Seq(T) /\ a \in T
    BY <1>2
  <2> HIDE DEF T, a
  <2>2. /\ \A j \in DOMAIN answers : answers'[j] = answers[j]
        /\ answers'[Len(answers) + 1] = a
        /\ i \in DOMAIN answers \/ i = Len(answers) + 1
    BY <1>1, <2>1, ListGrows DEF a
  <2>3. Justified(answers'[i])
    BY <1>4, <2>2 DEF AnswerInv, AnswersSoFar
  <2> QED
    BY <1>5, <2>3 DEF Justified
<1> QED
  BY <1>3, <1>5, <1>6

LEMMA InitAnswer == Init => AnswerInv
<1> SUFFICES ASSUME Init PROVE AnswerInv
  OBVIOUS
<1>1. DOMAIN ip_list = {} /\ DOMAIN answers = {} /\ Asked = <<>>
  BY DEF Init, Asked
<1> QED
  BY <1>1, InitInv DEF Init, AnswerInv, InTree, AnswersSoFar

LEMMA NextAnswer == AnswerInv /\ [Next]_vars => AnswerInv'
<1> SUFFICES ASSUME AnswerInv, [Next]_vars PROVE AnswerInv'
  OBVIOUS
<1>1. Inv /\ Inv' /\ InTree /\ AnswersSoFar
  BY NextInv DEF AnswerInv
<1> SUFFICES InTree' /\ AnswersSoFar'
  BY <1>1 DEF AnswerInv
<1>2. CASE ReadHeader \/ ReadName \/ EndInsert \/ EndReading
  <2>1. /\ UNCHANGED <<ip_list, ip_tree, answers, typed, input>>
        /\ stage = "insert" => left = 0 /\ stage' # "insert"
        /\ stage \notin {"search", "end"} /\ stage' # "insert"
    BY <1>2 DEF ReadHeader, ReadName, EndInsert, EndReading, reading
  <2>2. InTree'
    BY <1>1, <2>1, TreeSame
  <2>3. Asked' = Asked /\ answers' = <<>> /\ typed' = <<>> /\ Asked = <<>>
    BY <1>1, <2>1 DEF AnswersSoFar, Asked
  <2>4. DOMAIN answers' = {}
    BY <2>3
  <2> QED
    BY <2>2, <2>3, <2>4 DEF AnswersSoFar
<1>3. CASE EndRecord \/ InsertName
  <2>1. /\ UNCHANGED <<answers, typed, input>>
        /\ stage \in {"names", "insert"} /\ stage' = "insert"
    BY <1>3 DEF EndRecord, InsertName
  <2>2. InTree'
    BY <1>1, <1>3, TreeEndRecord, TreeInsertName
  <2>3. Asked' = Asked /\ answers' = <<>> /\ typed' = <<>> /\ Asked = <<>>
    BY <1>1, <2>1 DEF AnswersSoFar, Asked
  <2>4. DOMAIN answers' = {}
    BY <2>3
  <2> QED
    BY <2>1, <2>2, <2>3, <2>4 DEF AnswersSoFar
<1>4. CASE Search
  <2>1. PICK word \in Words, more \in BOOLEAN :
           typed' = Append(typed, word) /\ Answer(word, more)
    BY <1>4 DEF Search
  <2>2. stage = "search" /\ word \in Name
    BY <1>4, Constants DEF Search
  <2>3. /\ Asked' = Append(Asked, word)
        /\ \A i \in DOMAIN answers' : Justified(answers[i])'
        /\ stage' = IF more THEN "search" ELSE "end"
    BY <1>1, <2>1, <2>2, OneAnswer
  <2>4. Asked' = typed'
    BY <1>1, <1>4, <2>1, <2>2, <2>3 DEF AnswersSoFar, Search
  <2>5. InTree'
    <3>1. UNCHANGED <<ip_list, ip_tree>>
      BY <2>1 DEF Answer
    <3> QED
      BY <1>1, <2>2, <2>3, <3>1, TreeSame
  <2> QED
    BY <2>3, <2>4, <2>5 DEF AnswersSoFar
<1>5. CASE SearchStale
  <2>1. stage = "search" /\ Answer(input, FALSE) /\ typed' = typed /\ input \in Name
    BY <1>1, <1>5 DEF SearchStale, Inv, TypeOK
  <2>2. /\ Asked' = Append(Asked, input) /\ input' = input /\ stage' = "end"
        /\ \A i \in DOMAIN answers' : Justified(answers[i])'
    BY <1>1, <2>1, OneAnswer
  <2>3. Asked' = Append(typed', input')
    BY <1>1, <1>5, <2>1, <2>2 DEF AnswersSoFar, SearchStale
  <2>4. InTree'
    <3>1. UNCHANGED <<ip_list, ip_tree>>
      BY <2>1 DEF Answer
    <3> QED
      BY <1>1, <2>1, <2>2, <3>1, TreeSame
  <2> QED
    BY <2>2, <2>3, <2>4 DEF AnswersSoFar
<1>6. CASE UNCHANGED vars \/ StreamEnds \/ BufferEnds \/ EmptyName
  <2>1. UNCHANGED <<ip_list, ip_tree, answers, typed, input, stage, left>>
    BY <1>6 DEF StreamEnds, BufferEnds, EmptyName, Dies, reading, vars
  <2>2. InTree'
    BY <1>1, <2>1 DEF InTree, Entered, Under
  <2>3. Asked' = Asked
    BY <2>1 DEF Asked
  <2>4. status' = status \/ status' # "run"
    BY <1>6 DEF StreamEnds, BufferEnds, EmptyName, Dies, vars
  <2> QED
    BY <1>1, <2>1, <2>2, <2>3, <2>4 DEF AnswersSoFar, Justified
<1>7. CASE InputOverrun
  <2>1. /\ UNCHANGED <<ip_list, ip_tree, answers, input, stage, left>>
        /\ stage = "search" /\ status' # "run"
    BY <1>7 DEF InputOverrun, reading
  <2>2. InTree'
    BY <1>1, <2>1 DEF InTree, Entered, Under
  <2> QED
    BY <1>1, <2>1, <2>2 DEF AnswersSoFar, Justified
<1> QED
  BY <1>2, <1>3, <1>4, <1>5, <1>6, <1>7 DEF Next

LEMMA AnswerInvariance == Spec => []AnswerInv
BY InitAnswer, NextAnswer, PTL DEF Spec

\* What has been read is the table, so that the answers are about it.
LEMMA AnswersMean == AnswerInv /\ ReadInv => AnswersRight
<1> SUFFICES ASSUME AnswerInv, ReadInv, Plain, Whole
             PROVE  /\ status = "run" => Asked = typed \/ Asked = Append(typed, input)
                    /\ \A i \in DOMAIN answers :
                         /\ \A r \in DOMAIN table :
                              Printed(answers[i], r) <= Times(answers[i].word, r)
                         /\ answers[i].ips = <<>> =>
                              \A r \in DOMAIN table : Times(answers[i].word, r) = 0
  BY DEF AnswersRight, Asked
<1>1. status = "run" => Asked = typed \/ Asked = Append(typed, input)
  BY DEF AnswerInv, AnswersSoFar
<1>2. ASSUME NEW i \in DOMAIN answers, NEW r \in DOMAIN table
      PROVE  /\ Printed(answers[i], r) <= Times(answers[i].word, r)
             /\ answers[i].ips = <<>> => Times(answers[i].word, r) = 0
  <2>1. stage \in {"search", "end"}
    BY <1>2 DEF AnswerInv, AnswersSoFar
  <2>2. ip_list = IF prog = "l2p1" THEN Append(Records, NoIp) ELSE Records
    BY <2>1, ReadMeans DEF ReadsWhatIsThere, ReadsAll
  <2>3. /\ Records \in Seq(IPs) /\ Len(Records) = Len(table) /\ r \in DOMAIN Records
    <3>1. table \in Seq(Machine)
      BY FileIs DEF ReadInv
    <3>2. Records \in Seq(IPs) /\ Len(Records) = Len(table)
      BY <3>1, RecordsIs
    <3>3. r \in 1..Len(table)
      BY <1>2, <3>1
    <3> QED
      BY <3>2, <3>3
  <2>4. r \in DOMAIN ip_list /\ ip_list[r] = Records[r]
    <3> DEFINE R == Records
    <3>1. R \in Seq(IPs) /\ r \in DOMAIN R
      BY <2>3
    <3>2. ip_list = R \/ ip_list = Append(R, NoIp)
      BY <2>2
    <3>3. NoIp \in IPs
      <4>1. <<>> \in Seq(Name)
        BY EmptySeq
      <4>2. <<0, 0, 0, 0>> \in Seq(Byte)
        BY Constants
      <4> QED
        BY <4>1, <4>2 DEF NoIp, IPs
    <3> HIDE DEF R
    <3>4. r \in DOMAIN ip_list /\ ip_list[r] = R[r]
      BY <3>1, <3>2, <3>3, ListGrows
    <3> QED
      BY <3>4 DEF R
  <2>5. Justified(answers[i])
    BY <1>2 DEF AnswerInv, AnswersSoFar
  <2>6. /\ Printed(answers[i], r) = Cardinality(Where(answers[i].ips, r))
        /\ Times(answers[i].word, r) =
              Cardinality(Where(ip_list[r].names, answers[i].word))
    BY <2>4 DEF Printed, Times, Where
  <2> QED
    BY <2>4, <2>5, <2>6 DEF Justified
<1> QED
  BY <1>1, <1>2

\* For every table of proper names, read whole, and until a word is typed that the
\* buffer has no room for: each word typed is answered once and in order, the
\* last perhaps twice. No answer has a machine more often than the machine has the
\* name, and one that has none means that no machine of the table has it (main of
\* lab2, the search).
THEOREM AnswersRightHolds == Spec => []AnswersRight
BY AnswerInvariance, ReadInvariance, AnswersMean, PTL
=============================================================================
