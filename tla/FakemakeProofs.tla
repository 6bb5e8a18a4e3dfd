--------------------------- MODULE FakemakeProofs ---------------------------

(***************************************************************************)
(* Theorems about Fakemake, for every set of descriptions and files and    *)
(* whatever the user does: the lists hold what the description says, what  *)
(* is reported is true, and nothing is compiled without need. The lists    *)
(* are recursive functions: Counting is the induction their lemmas use.    *)
(***************************************************************************)
EXTENDS Fakemake, SequenceTheorems, WellFoundedInduction, TLAPS

(***************************************************************************)
(* Counting up to a number.                                                *)
(***************************************************************************)

\* A set that has 0 and with each number the next has all of them.
LEMMA Counting ==
  ASSUME NEW n \in Nat, NEW T, 0 \in T, \A k \in 0..(n - 1) : k \in T => k + 1 \in T
  PROVE  \A k \in 0..n : k \in T
<1> DEFINE Bad == {k \in 0..n : k \notin T}
<1>1. SUFFICES ASSUME Bad # {} PROVE FALSE
  OBVIOUS
<1>2. Bad \subseteq Nat
  OBVIOUS
<1> HIDE DEF Bad
<1>3. PICK m \in Bad : \A k \in Bad : ~(<<k, m>> \in OpToRel(<, Nat))
  BY <1>1, <1>2, NatLessThanWellFounded, WFMin, ZenonT(30)
<1>4. \A k \in Bad : ~(k < m)
  BY <1>2, <1>3 DEF OpToRel
<1>5. m \in 0..n /\ m \notin T
  BY DEF Bad
<1>6. m - 1 \in 0..(n - 1) /\ (m - 1) + 1 = m
  BY <1>5
<1>7. m - 1 \in T
  <2>1. m - 1 \in 0..n /\ m - 1 < m
    BY <1>5, <1>6
  <2> QED
    BY <1>4, <2>1 DEF Bad
<1> QED
  BY <1>5, <1>6, <1>7

\* What is defined step by step exists: G has a function for each of n steps.
Steps(G, n, S) == G \in [1..n -> [S -> S]]
Follows(f, base, G, n, S) ==
    /\ f \in [0..n -> S]
    /\ f[0] = base /\ \A k \in 1..n : f[k] = G[k][f[k - 1]]

LEMMA StepByStep ==
  ASSUME NEW S, NEW n \in Nat, NEW base \in S, NEW G, Steps(G, n, S)
  PROVE  \E f : Follows(f, base, G, n, S)
<1> USE DEF Steps, Follows
<1> DEFINE Upto(m, f) == f[0] = base /\ \A k \in 1..m : f[k] = G[k][f[k - 1]]
           T == {m \in 0..n : \E f \in [0..m -> S] : Upto(m, f)}
<1>1. 0 \in T
  <2> DEFINE f == [k \in 0..0 |-> base]
  <2>1. f \in [0..0 -> S] /\ Upto(0, f)
    OBVIOUS
  <2>2. 0 \in 0..n
    OBVIOUS
  <2> HIDE DEF f
  <2> QED
    BY <2>1, <2>2
<1>2. ASSUME NEW m \in 0..(n - 1), m \in T
      PROVE  m + 1 \in T
  <2>1. PICK f \in [0..m -> S] : Upto(m, f)
    BY <1>2
  <2>2. m + 1 \in 1..n /\ m \in 0..m /\ (m + 1) - 1 = m
    OBVIOUS
  <2>3. G[m + 1][f[m]] \in S
    BY <2>1, <2>2
  <2> DEFINE g == [k \in 0..(m + 1) |-> IF k = m + 1 THEN G[m + 1][f[m]] ELSE f[k]]
  <2>4. g \in [0..(m + 1) -> S]
    BY <2>1, <2>3
  <2>5. Upto(m + 1, g)
    <3>1. g[0] = base
      BY <2>1
    <3>2. ASSUME NEW k \in 1..(m + 1) PROVE g[k] = G[k][g[k - 1]]
      <4>1. k - 1 \in 0..m /\ g[k - 1] = f[k - 1]
        OBVIOUS
      <4>2. CASE k = m + 1
        BY <2>2, <4>1, <4>2
      <4>3. CASE k # m + 1
        <5>1. k \in 1..m /\ g[k] = f[k]
          BY <4>3
        <5> QED
          BY <2>1, <4>1, <5>1
      <4> QED
        BY <4>2, <4>3
    <3> QED
      BY <3>1, <3>2
  <2>6. m + 1 \in 0..n
    OBVIOUS
  <2> HIDE DEF g
  <2> QED
    BY <2>4, <2>5, <2>6
<1> HIDE DEF T
<1>3. \A k \in 0..n : k \in T
  BY <1>1, <1>2, Counting
<1> QED
  BY <1>3 DEF T

(***************************************************************************)
(* The lists of a description.                                             *)
(***************************************************************************)

\* The loop of add_srcs and the others, word by word.
LEMMA FillingIs ==
  ASSUME NEW list \in ListNames, compilation[list] \in Seq(Word), NEW words \in Seq(Word)
  PROVE  LET f == Filling(list, words) IN
         /\ f[0] = compilation[list]
         /\ \A j \in 0..Len(words) : f[j] \in Seq(Word)
         /\ \A j \in 1..Len(words) :
              f[j] = IF Accepts(list, words[j]) /\ Len(f[j - 1]) < MAX_ARGS
                     THEN Append(f[j - 1], words[j]) ELSE f[j - 1]
<1> DEFINE n == Len(words)
           After(a, j) == IF Accepts(list, words[j]) /\ Len(a) < MAX_ARGS
                         THEN Append(a, words[j]) ELSE a
           G == [j \in 1..n |-> [a \in Seq(Word) |-> After(a, j)]]
<1>1. n \in Nat /\ \A j \in 1..n : words[j] \in Word
  BY LenProperties, ElementOfSeq
<1>2. \A j \in 1..n : \A a \in Seq(Word) : After(a, j) \in Seq(Word)
  BY <1>1, AppendProperties
<1> HIDE DEF n, After
<1>3. G \in [1..n -> [Seq(Word) -> Seq(Word)]]
  <2>1. \A j \in 1..n : [a \in Seq(Word) |-> After(a, j)] \in [Seq(Word) -> Seq(Word)]
    BY <1>2
  <2> QED
    BY <2>1
<1>4. PICK H \in [1..n -> [Seq(Word) -> Seq(Word)]] :
          \A j \in 1..n : \A a \in Seq(Word) : H[j][a] = After(a, j)
  BY <1>3
<1>5. PICK f \in [0..n -> Seq(Word)] :
          f[0] = compilation[list] /\ \A k \in 1..n : f[k] = After(f[k - 1], k)
  <2>1. PICK first \in Seq(Word) : first = compilation[list]
    OBVIOUS
  <2>2. PICK f : Follows(f, first, H, n, Seq(Word))
    <3>1. Steps(H, n, Seq(Word))
      BY DEF Steps
    <3> QED
      BY <1>1, <3>1, StepByStep
  <2>3. \A k \in 1..n : f[k - 1] \in Seq(Word)
    BY <1>1, <2>2 DEF Follows
  <2> QED
    BY <1>4, <2>1, <2>2, <2>3, ZenonT(60) DEF Follows
<1>6. f = [j \in 0..n |-> IF j = 0 THEN compilation[list] ELSE After(f[j - 1], j)]
  <2>1. \A j \in 0..n : j = 0 \/ j \in 1..n
    BY <1>1
  <2> QED
    BY <1>5, <2>1
<1>7. Filling(list, words) =
        CHOOSE g : g = [j \in 0..n |-> IF j = 0 THEN compilation[list] ELSE After(g[j - 1], j)]
  BY DEF Filling, After, n
<1>8. PICK g : /\ g = Filling(list, words)
               /\ g = [j \in 0..n |-> IF j = 0 THEN compilation[list] ELSE After(g[j - 1], j)]
  BY <1>6, <1>7
<1>9. g[0] = compilation[list] /\ \A j \in 1..n : g[j] = After(g[j - 1], j)
  <2>1. 0 \in 0..n /\ \A j \in 1..n : j \in 0..n /\ j # 0
    BY <1>1
  <2> QED
    BY <1>8, <2>1
<1>10. \A j \in 0..n : g[j] \in Seq(Word)
  <2> DEFINE T == {j \in 0..n : g[j] \in Seq(Word)}
  <2>1. 0 \in T
    BY <1>1, <1>9
  <2>2. ASSUME NEW j \in 0..(n - 1), j \in T PROVE j + 1 \in T
    <3>1. j + 1 \in 1..n /\ j + 1 \in 0..n /\ (j + 1) - 1 = j
      BY <1>1
    <3>2. g[j + 1] = After(g[j], j + 1)
      BY <1>9, <3>1
    <3> QED
      BY <1>2, <2>2, <3>1, <3>2
  <2> HIDE DEF T
  <2>3. \A j \in 0..n : j \in T
    BY <1>1, <2>1, <2>2, Counting
  <2> QED
    BY <2>3 DEF T
<1> QED
  BY <1>8, <1>9, <1>10 DEF After, n

\* The words of a line that are in S, word by word.
LEMMA AmongIs ==
  ASSUME NEW S, NEW words \in Seq(Word)
  PROVE  \E f : /\ f[0] = <<>>
                /\ \A j \in 0..Len(words) : f[j] \in Seq(Word)
                /\ \A j \in 1..Len(words) :
                     f[j] = IF words[j] \in S THEN Append(f[j - 1], words[j])
                            ELSE f[j - 1]
                /\ Among(words, S) = f[Len(words)]
<1> DEFINE n == Len(words)
           After(a, j) == IF words[j] \in S THEN Append(a, words[j]) ELSE a
           G == [j \in 1..n |-> [a \in Seq(Word) |-> After(a, j)]]
<1>1. n \in Nat /\ \A j \in 1..n : words[j] \in Word
  BY LenProperties, ElementOfSeq
<1>2. \A j \in 1..n : \A a \in Seq(Word) : After(a, j) \in Seq(Word)
  BY <1>1, AppendProperties
<1> HIDE DEF n, After
<1>3. G \in [1..n -> [Seq(Word) -> Seq(Word)]]
  <2>1. \A j \in 1..n : [a \in Seq(Word) |-> After(a, j)] \in [Seq(Word) -> Seq(Word)]
    BY <1>2
  <2> QED
    BY <2>1
<1>4. PICK H \in [1..n -> [Seq(Word) -> Seq(Word)]] :
          \A j \in 1..n : \A a \in Seq(Word) : H[j][a] = After(a, j)
  BY <1>3
<1>5. PICK f \in [0..n -> Seq(Word)] :
          f[0] = <<>> /\ \A k \in 1..n : f[k] = After(f[k - 1], k)
  <2>1. PICK first \in Seq(Word) : first = <<>>
    BY EmptySeq
  <2>2. PICK f : Follows(f, first, H, n, Seq(Word))
    <3>1. Steps(H, n, Seq(Word))
      BY DEF Steps
    <3> QED
      BY <1>1, <3>1, StepByStep
  <2>3. \A k \in 1..n : f[k - 1] \in Seq(Word)
    BY <1>1, <2>2 DEF Follows
  <2> QED
    BY <1>4, <2>1, <2>2, <2>3, ZenonT(60) DEF Follows
<1>6. f = [j \in 0..n |-> IF j = 0 THEN <<>> ELSE After(f[j - 1], j)]
  <2>1. \A j \in 0..n : j = 0 \/ j \in 1..n
    BY <1>1
  <2> QED
    BY <1>5, <2>1
<1>7. Among(words, S) = (CHOOSE g : g = [j \in 0..n |-> IF j = 0 THEN <<>> ELSE After(g[j - 1], j)])[n]
  BY DEF Among, After, n
<1>8. PICK g : /\ Among(words, S) = g[n]
               /\ g = [j \in 0..n |-> IF j = 0 THEN <<>> ELSE After(g[j - 1], j)]
  BY <1>6, <1>7
<1>9. g[0] = <<>> /\ \A j \in 1..n : g[j] = After(g[j - 1], j)
  <2>1. 0 \in 0..n /\ \A j \in 1..n : j \in 0..n /\ j # 0
    BY <1>1
  <2> QED
    BY <1>8, <2>1
<1>10. \A j \in 0..n : g[j] \in Seq(Word)
  <2> DEFINE T == {j \in 0..n : g[j] \in Seq(Word)}
  <2>0. 0 \in 0..n /\ <<>> \in Seq(Word)
    BY <1>1, EmptySeq
  <2>1. 0 \in T
    BY <1>9, <2>0
  <2>2. ASSUME NEW j \in 0..(n - 1), j \in T PROVE j + 1 \in T
    <3>1. j + 1 \in 1..n /\ j + 1 \in 0..n /\ (j + 1) - 1 = j
      BY <1>1
    <3>2. g[j + 1] = After(g[j], j + 1)
      BY <1>9, <3>1
    <3> QED
      BY <1>2, <2>2, <3>1, <3>2
  <2> HIDE DEF T
  <2>3. \A j \in 0..n : j \in T
    BY <1>1, <2>1, <2>2, Counting
  <2> QED
    BY <2>3 DEF T
<1> QED
  BY <1>8, <1>9, <1>10 DEF After, n

\* Those of the lines of a kind, line by line.
LEMMA WordsIs ==
  ASSUME NEW S, NEW kind, NEW d \in Seq(Line)
  PROVE  LET f == WordsUpTo(d, kind, S) IN
         /\ f[0] = <<>>
         /\ \A k \in 0..Len(d) : f[k] \in Seq(Word)
         /\ \A k \in 1..Len(d) :
              /\ d[k].words \in Seq(Word) /\ Among(d[k].words, S) \in Seq(Word)
              /\ d[k].kind = kind => f[k] = f[k - 1] \o Among(d[k].words, S)
              /\ d[k].kind # kind => f[k] = f[k - 1]
<1> DEFINE n == Len(d)
           After(a, k) == IF d[k].kind = kind THEN a \o Among(d[k].words, S) ELSE a
           G == [k \in 1..n |-> [a \in Seq(Word) |-> After(a, k)]]
<1>1. n \in Nat /\ \A k \in 1..n : d[k] \in Line
  BY LenProperties, ElementOfSeq
<1>2. \A k \in 1..n : d[k].words \in Seq(Word)
  BY <1>1 DEF Line
<1>3. ASSUME NEW k \in 1..n PROVE Among(d[k].words, S) \in Seq(Word)
  <2>1. PICK words \in Seq(Word) : words = d[k].words
    BY <1>2
  <2>2. Among(words, S) \in Seq(Word)
    BY AmongIs, LenProperties
  <2> QED
    BY <2>1, <2>2
<1>4. \A k \in 1..n : \A a \in Seq(Word) : After(a, k) \in Seq(Word)
  BY <1>3, ConcatProperties
<1> HIDE DEF n, After
<1>5. G \in [1..n -> [Seq(Word) -> Seq(Word)]]
  <2>1. \A k \in 1..n : [a \in Seq(Word) |-> After(a, k)] \in [Seq(Word) -> Seq(Word)]
    BY <1>4
  <2> QED
    BY <2>1
<1>6. PICK H \in [1..n -> [Seq(Word) -> Seq(Word)]] :
          \A k \in 1..n : \A a \in Seq(Word) : H[k][a] = After(a, k)
  BY <1>5
<1>7. PICK f \in [0..n -> Seq(Word)] :
          f[0] = <<>> /\ \A k \in 1..n : f[k] = After(f[k - 1], k)
  <2>1. PICK first \in Seq(Word) : first = <<>>
    BY EmptySeq
  <2>2. PICK f : Follows(f, first, H, n, Seq(Word))
    <3>1. Steps(H, n, Seq(Word))
      BY DEF Steps
    <3> QED
      BY <1>1, <3>1, StepByStep
  <2>3. \A k \in 1..n : f[k - 1] \in Seq(Word)
    BY <1>1, <2>2 DEF Follows
  <2> QED
    BY <1>6, <2>1, <2>2, <2>3, ZenonT(60) DEF Follows
<1>8. f = [k \in 0..n |-> IF k = 0 THEN <<>> ELSE After(f[k - 1], k)]
  <2>1. \A k \in 0..n : k = 0 \/ k \in 1..n
    BY <1>1
  <2> QED
    BY <1>7, <2>1
<1>9. WordsUpTo(d, kind, S) =
        CHOOSE g : g = [k \in 0..n |-> IF k = 0 THEN <<>> ELSE After(g[k - 1], k)]
  BY DEF WordsUpTo, After, n
<1>10. PICK g : /\ g = WordsUpTo(d, kind, S)
                /\ g = [k \in 0..n |-> IF k = 0 THEN <<>> ELSE After(g[k - 1], k)]
  BY <1>8, <1>9
<1>11. g[0] = <<>> /\ \A k \in 1..n : g[k] = After(g[k - 1], k)
  <2>1. 0 \in 0..n /\ \A k \in 1..n : k \in 0..n /\ k # 0
    BY <1>1
  <2> QED
    BY <1>10, <2>1
<1>12. \A k \in 0..n : g[k] \in Seq(Word)
  <2> DEFINE T == {k \in 0..n : g[k] \in Seq(Word)}
  <2>1. 0 \in 0..n /\ <<>> \in Seq(Word)
    BY <1>1, EmptySeq
  <2>2. 0 \in T
    BY <1>11, <2>1
  <2>3. ASSUME NEW k \in 0..(n - 1), k \in T PROVE k + 1 \in T
    <3>1. k + 1 \in 1..n /\ k + 1 \in 0..n /\ (k + 1) - 1 = k
      BY <1>1
    <3>2. g[k + 1] = After(g[k], k + 1)
      BY <1>11, <3>1
    <3> QED
      BY <1>4, <2>3, <3>1, <3>2
  <2> HIDE DEF T
  <2>4. \A k \in 0..n : k \in T
    BY <1>1, <2>2, <2>3, Counting
  <2> QED
    BY <2>4 DEF T
<1> QED
  BY <1>2, <1>3, <1>10, <1>11, <1>12 DEF After, n

\* A line with a word that is in S has one.
LEMMA AmongIsLonger ==
  ASSUME NEW S, NEW words \in Seq(Word), NEW m \in 1..Len(words), words[m] \in S
  PROVE  Len(Among(words, S)) >= 1
<1>1. PICK n \in Nat : n = Len(words)
  BY LenProperties
<1>2. PICK a : /\ a[0] = <<>>
               /\ \A j \in 0..n : a[j] \in Seq(Word)
               /\ \A j \in 1..n : a[j] = IF words[j] \in S THEN Append(a[j - 1], words[j])
                                         ELSE a[j - 1]
               /\ Among(words, S) = a[n]
  BY <1>1, AmongIs
<1>3. \A j \in 0..n : Len(a[j]) \in Nat
  BY <1>2, LenProperties
<1> DEFINE T == {j \in 0..n : j >= m => Len(a[j]) >= 1}
<1>4. 0 \in T
  BY <1>1
<1>5. ASSUME NEW j \in 0..(n - 1), j \in T PROVE j + 1 \in T
  <2>1. j + 1 \in 0..n /\ j + 1 \in 1..n /\ (j + 1) - 1 = j /\ j \in 0..n
    BY <1>1
  <2>2. PICK b \in Seq(Word) : b = a[j]
    BY <1>2, <2>1
  <2>3. words[j + 1] \in Word /\ Len(b) \in Nat
    BY <1>1, <2>1, ElementOfSeq, LenProperties
  <2>4. CASE words[j + 1] \in S
    <3>1. a[j + 1] = Append(b, words[j + 1])
      BY <1>2, <2>1, <2>2, <2>4
    <3>2. Len(a[j + 1]) = Len(b) + 1
      BY <2>3, <3>1, AppendProperties
    <3> QED
      BY <2>1, <2>3, <3>2
  <2>5. CASE words[j + 1] \notin S
    <3>1. a[j + 1] = a[j] /\ j + 1 # m
      BY <1>2, <2>1, <2>5
    <3>2. j + 1 >= m => j >= m
      BY <1>1, <3>1
    <3> QED
      BY <1>5, <2>1, <3>1, <3>2
  <2> QED
    BY <2>4, <2>5
<1> HIDE DEF T
<1>6. \A j \in 0..n : j \in T
  BY <1>1, <1>4, <1>5, Counting
<1>7. n \in T /\ n >= m
  BY <1>1, <1>6
<1> QED
  BY <1>2, <1>7 DEF T

\* The words of more lines are no fewer.
LEMMA WordsGrow ==
  ASSUME NEW S, NEW kind, NEW d \in Seq(Line), NEW m \in 0..Len(d)
  PROVE  Len(AllWords(d, kind, S)) >= Len(WordsUpTo(d, kind, S)[m])
<1>1. PICK n \in Nat : n = Len(d)
  BY LenProperties
<1>2. PICK f : f = WordsUpTo(d, kind, S)
  OBVIOUS
<1>3. /\ \A k \in 0..n : f[k] \in Seq(Word)
      /\ \A k \in 1..n :
           /\ Among(d[k].words, S) \in Seq(Word)
           /\ d[k].kind = kind => f[k] = f[k - 1] \o Among(d[k].words, S)
           /\ d[k].kind # kind => f[k] = f[k - 1]
  BY <1>1, <1>2, WordsIs
<1>4. \A k \in 0..n : Len(f[k]) \in Nat
  BY <1>3, LenProperties
<1> DEFINE T == {k \in 0..n : k >= m => Len(f[k]) >= Len(f[m])}
<1>5. 0 \in T
  BY <1>1, <1>4
<1>6. ASSUME NEW k \in 0..(n - 1), k \in T PROVE k + 1 \in T
  <2>1. k + 1 \in 0..n /\ k + 1 \in 1..n /\ (k + 1) - 1 = k /\ k \in 0..n
    BY <1>1
  <2>2. Len(f[k + 1]) >= Len(f[k])
    <3>1. CASE d[k + 1].kind = kind
      <4>1. PICK b \in Seq(Word) : b = f[k]
        BY <1>3, <2>1
      <4>2. PICK more \in Seq(Word) : more = Among(d[k + 1].words, S)
        BY <1>3, <2>1
      <4>3. f[k + 1] = b \o more
        BY <1>3, <2>1, <3>1, <4>1, <4>2
      <4>4. Len(b \o more) = Len(b) + Len(more) /\ Len(b) \in Nat /\ Len(more) \in Nat
        BY ConcatProperties, LenProperties
      <4> QED
        BY <4>1, <4>3, <4>4
    <3>2. CASE d[k + 1].kind # kind
      <4>1. f[k + 1] = f[k]
        BY <1>3, <2>1, <3>2
      <4>2. Len(f[k]) \in Nat
        BY <1>4, <2>1
      <4> QED
        BY <4>1, <4>2
    <3> QED
      BY <3>1, <3>2
  <2>3. CASE k + 1 = m
    BY <1>4, <2>1, <2>3
  <2>4. CASE k >= m
    <3>1. Len(f[k]) >= Len(f[m])
      BY <1>6, <2>4
    <3>2. m \in 0..n
      BY <1>1
    <3> QED
      BY <1>4, <2>1, <2>2, <3>1, <3>2
  <2>5. CASE k + 1 < m
    BY <1>1, <2>1, <2>5
  <2> QED
    BY <1>1, <2>3, <2>4, <2>5
<1> HIDE DEF T
<1>7. \A k \in 0..n : k \in T
  BY <1>1, <1>5, <1>6, Counting
<1>8. n \in T /\ n >= m
  BY <1>1, <1>7
<1> QED
  BY <1>1, <1>2, <1>8 DEF T, AllWords

\* Sets that agree on the words of a line pick the same.
LEMMA SameAmong ==
  ASSUME NEW S, NEW R, NEW words \in Seq(Word),
         \A j \in 1..Len(words) : words[j] \in S <=> words[j] \in R
  PROVE  Among(words, S) = Among(words, R)
<1>1. PICK n \in Nat : n = Len(words)
  BY LenProperties
<1>2. PICK a : /\ a[0] = <<>>
               /\ \A j \in 0..n : a[j] \in Seq(Word)
               /\ \A j \in 1..n : a[j] = IF words[j] \in S THEN Append(a[j - 1], words[j])
                                         ELSE a[j - 1]
               /\ Among(words, S) = a[n]
  BY <1>1, AmongIs
<1>3. PICK b : /\ b[0] = <<>>
               /\ \A j \in 0..n : b[j] \in Seq(Word)
               /\ \A j \in 1..n : b[j] = IF words[j] \in R THEN Append(b[j - 1], words[j])
                                         ELSE b[j - 1]
               /\ Among(words, R) = b[n]
  BY <1>1, AmongIs
<1> DEFINE T == {j \in 0..n : a[j] = b[j]}
<1>4. 0 \in T
  BY <1>1, <1>2, <1>3
<1>5. ASSUME NEW j \in 0..(n - 1), j \in T PROVE j + 1 \in T
  <2>1. j + 1 \in 0..n /\ j + 1 \in 1..n /\ (j + 1) - 1 = j
    BY <1>1
  <2>2. words[j + 1] \in S <=> words[j + 1] \in R
    BY <1>1, <2>1
  <2> QED
    BY <1>2, <1>3, <1>5, <2>1, <2>2
<1> HIDE DEF T
<1>6. n \in T
  <2>1. \A j \in 0..n : j \in T
    BY <1>1, <1>4, <1>5, Counting
  <2> QED
    BY <1>1, <2>1
<1> QED
  BY <1>2, <1>3, <1>6 DEF T

\* And so of a description.
LEMMA SameWords ==
  ASSUME NEW S, NEW R, NEW kind, NEW d \in Seq(Line),
         \A k \in 1..Len(d) : d[k].kind = kind =>
            \A j \in 1..Len(d[k].words) : d[k].words[j] \in S <=> d[k].words[j] \in R
  PROVE  AllWords(d, kind, S) = AllWords(d, kind, R)
<1>1. PICK n \in Nat : n = Len(d)
  BY LenProperties
<1>2. PICK f : f = WordsUpTo(d, kind, S)
  OBVIOUS
<1>3. /\ f[0] = <<>>
      /\ \A k \in 1..n :
           /\ d[k].words \in Seq(Word)
           /\ d[k].kind = kind => f[k] = f[k - 1] \o Among(d[k].words, S)
           /\ d[k].kind # kind => f[k] = f[k - 1]
  BY <1>1, <1>2, WordsIs
<1>4. PICK g : g = WordsUpTo(d, kind, R)
  OBVIOUS
<1>5. /\ g[0] = <<>>
      /\ \A k \in 1..n :
           /\ d[k].kind = kind => g[k] = g[k - 1] \o Among(d[k].words, R)
           /\ d[k].kind # kind => g[k] = g[k - 1]
  BY <1>1, <1>4, WordsIs
<1> DEFINE T == {k \in 0..n : f[k] = g[k]}
<1>6. 0 \in T
  BY <1>1, <1>3, <1>5
<1>7. ASSUME NEW k \in 0..(n - 1), k \in T PROVE k + 1 \in T
  <2>1. k + 1 \in 0..n /\ k + 1 \in 1..n /\ (k + 1) - 1 = k
    BY <1>1
  <2>2. f[k] = g[k]
    BY <1>7
  <2>3. CASE d[k + 1].kind = kind
    <3>1. PICK words \in Seq(Word) : words = d[k + 1].words
      BY <1>3, <2>1
    <3>2. \A j \in 1..Len(words) : words[j] \in S <=> words[j] \in R
      BY <1>1, <2>1, <2>3, <3>1
    <3>3. Among(words, S) = Among(words, R)
      BY <3>2, SameAmong
    <3>4. f[k + 1] = f[k] \o Among(words, S) /\ g[k + 1] = g[k] \o Among(words, R)
      BY <1>3, <1>5, <2>1, <2>3, <3>1
    <3>5. f[k + 1] = g[k + 1]
      BY <2>2, <3>3, <3>4
    <3> QED
      BY <2>1, <3>5
  <2>4. CASE d[k + 1].kind # kind
    BY <1>3, <1>5, <2>1, <2>2, <2>4
  <2> QED
    BY <2>3, <2>4
<1> HIDE DEF T
<1>8. n \in T
  <2>1. \A k \in 0..n : k \in T
    BY <1>1, <1>6, <1>7, Counting
  <2> QED
    BY <1>1, <2>1
<1> QED
  BY <1>1, <1>2, <1>4, <1>8 DEF T, AllWords

\* What a list has room for is the beginning of the words.
LEMMA FittingIs ==
  ASSUME NEW s \in Seq(Word)
  PROVE  /\ Fitting(s) \in Seq(Word) /\ Len(Fitting(s)) <= MAX_ARGS
         /\ Len(s) <= MAX_ARGS => Fitting(s) = s
         /\ Len(s) >= MAX_ARGS => Len(Fitting(s)) = MAX_ARGS
         /\ \A j \in 1..Len(s) : j <= MAX_ARGS => Fitting(s)[j] = s[j]
<1>1. MAX_ARGS \in Nat \ {0} /\ Len(s) \in Nat
  BY FakemakeAssumption, LenProperties DEF FakemakeAssumption
<1>2. CASE Len(s) <= MAX_ARGS
  BY <1>1, <1>2 DEF Fitting
<1>3. CASE Len(s) > MAX_ARGS
  <2>1. Fitting(s) = SubSeq(s, 1, MAX_ARGS)
    BY <1>1, <1>3 DEF Fitting
  <2>2. \A j \in 1..MAX_ARGS : s[j] \in Word
    <3>1. \A j \in 1..MAX_ARGS : j \in 1..Len(s)
      BY <1>1, <1>3
    <3> QED
      BY <3>1, ElementOfSeq
  <2>3. MAX_ARGS \in Int /\ 1 \in Int
    BY <1>1
  <2>4. /\ Fitting(s) \in Seq(Word)
        /\ Len(Fitting(s)) = IF 1 <= MAX_ARGS THEN MAX_ARGS - 1 + 1 ELSE 0
        /\ \A j \in 1..MAX_ARGS - 1 + 1 : Fitting(s)[j] = s[1 + j - 1]
    BY <2>1, <2>2, <2>3, SubSeqProperties
  <2>5. PICK r : r = Fitting(s)
    OBVIOUS
  <2> QED
    BY <1>1, <1>3, <2>4, <2>5
<1> QED
  BY <1>1, <1>2, <1>3

\* A list with one more word, when it has room and when it is full.
LEMMA FittingGrows ==
  ASSUME NEW s \in Seq(Word), NEW w \in Word
  PROVE  Fitting(Append(s, w)) = IF Len(Fitting(s)) < MAX_ARGS
                                 THEN Append(Fitting(s), w) ELSE Fitting(s)
<1>1. MAX_ARGS \in Nat \ {0} /\ Len(s) \in Nat
  BY FakemakeAssumption, LenProperties DEF FakemakeAssumption
<1>2. PICK t \in Seq(Word) : t = Append(s, w)
  BY AppendProperties
<1>3. Len(t) = Len(s) + 1 /\ \A j \in 1..Len(s) : t[j] = s[j]
  BY <1>2, AppendProperties
<1>4. PICK r \in Seq(Word) : r = Fitting(s)
  BY FittingIs
<1>5. PICK q \in Seq(Word) : q = Fitting(t)
  BY FittingIs
<1>6. CASE Len(s) < MAX_ARGS
  <2>1. Len(s) <= MAX_ARGS /\ Len(t) <= MAX_ARGS
    BY <1>1, <1>3, <1>6
  <2>2. r = s /\ q = t
    BY <1>4, <1>5, <2>1, FittingIs
  <2> QED
    BY <1>2, <1>4, <1>5, <1>6, <2>1, <2>2
<1>7. CASE Len(s) >= MAX_ARGS
  <2>1. Len(t) >= MAX_ARGS
    BY <1>1, <1>3, <1>7
  <2>2. Len(r) = MAX_ARGS /\ Len(q) = MAX_ARGS
    BY <1>4, <1>5, <1>7, <2>1, FittingIs
  <2>3. ASSUME NEW j \in 1..MAX_ARGS PROVE q[j] = r[j]
    <3>1. j \in 1..Len(s) /\ j \in 1..Len(t) /\ j <= MAX_ARGS
      BY <1>1, <1>3, <1>7
    <3> QED
      BY <1>3, <1>4, <1>5, <3>1, FittingIs
  <2>4. q = r
    BY <2>2, <2>3, SeqEqual
  <2>5. ~(MAX_ARGS < MAX_ARGS) /\ MAX_ARGS <= MAX_ARGS
    BY <1>1
  <2> QED
    BY <1>2, <1>4, <1>5, <2>2, <2>4, <2>5
<1> QED
  BY <1>1, <1>6, <1>7

\* A list that holds what fits of the words so far holds, after one more line,
\* what fits of those and that line's.
LEMMA LineFits ==
  ASSUME NEW list \in ListNames, NEW words \in Seq(Word), NEW all \in Seq(Word),
         compilation[list] = Fitting(all)
  PROVE  Extended(list, words) = Fitting(all \o Among(words, LetIn(list)))
<1>1. PICK n \in Nat : n = Len(words)
  BY LenProperties
<1>2. PICK f : f = Filling(list, words)
  OBVIOUS
<1>3. compilation[list] \in Seq(Word)
  BY FittingIs
<1>4. /\ f[0] = Fitting(all)
      /\ \A j \in 1..n : f[j] = IF Accepts(list, words[j]) /\ Len(f[j - 1]) < MAX_ARGS
                                THEN Append(f[j - 1], words[j]) ELSE f[j - 1]
  BY <1>1, <1>2, <1>3, FillingIs
<1>5. PICK a : /\ a[0] = <<>>
               /\ \A j \in 0..n : a[j] \in Seq(Word)
               /\ \A j \in 1..n : a[j] = IF Accepts(list, words[j])
                                         THEN Append(a[j - 1], words[j]) ELSE a[j - 1]
               /\ Among(words, LetIn(list)) = a[n]
  <2>1. PICK S : S = LetIn(list)
    OBVIOUS
  <2>2. PICK a : /\ a[0] = <<>>
                 /\ \A j \in 0..n : a[j] \in Seq(Word)
                 /\ \A j \in 1..n : a[j] = IF words[j] \in S
                                           THEN Append(a[j - 1], words[j]) ELSE a[j - 1]
                 /\ Among(words, S) = a[n]
    BY <1>1, AmongIs, SMTT(60)
  <2>3. \A j \in 1..n : words[j] \in S <=> Accepts(list, words[j])
    BY <1>1, <2>1, ElementOfSeq DEF LetIn
  <2>4. Among(words, LetIn(list)) = a[n]
    BY <2>1, <2>2
  <2>5. \A j \in 1..n : a[j] = IF Accepts(list, words[j])
                               THEN Append(a[j - 1], words[j]) ELSE a[j - 1]
    BY <2>2, <2>3
  <2> QED
    BY <2>2, <2>4, <2>5
<1> DEFINE T == {j \in 0..n : f[j] = Fitting(all \o a[j])}
<1>6. 0 \in T
  <2>1. all \o <<>> = all
    BY ConcatEmptySeq
  <2>2. 0 \in 0..n
    BY <1>1
  <2> QED
    BY <1>4, <1>5, <2>1, <2>2
<1>7. ASSUME NEW j \in 0..(n - 1), j \in T PROVE j + 1 \in T
  <2>1. j + 1 \in 0..n /\ j + 1 \in 1..n /\ (j + 1) - 1 = j /\ j \in 0..n
    BY <1>1
  <2>2. words[j + 1] \in Word
    BY <1>1, <2>1, ElementOfSeq
  <2>3. f[j] = Fitting(all \o a[j])
    BY <1>7
  <2>4. CASE Accepts(list, words[j + 1])
    <3>1. a[j + 1] = Append(a[j], words[j + 1])
      BY <1>5, <2>1, <2>4
    <3>2. f[j + 1] = IF Len(f[j]) < MAX_ARGS THEN Append(f[j], words[j + 1]) ELSE f[j]
      BY <1>4, <2>1, <2>4
    <3>3. PICK b \in Seq(Word) : b = a[j]
      BY <1>5, <2>1
    <3>4. PICK s \in Seq(Word) : s = all \o b
      BY ConcatProperties
    <3>5. all \o Append(b, words[j + 1]) = Append(s, words[j + 1])
      <4>1. Append(b, words[j + 1]) = b \o <<words[j + 1]>>
        BY <2>2, AppendIsConcat
      <4>2. Append(s, words[j + 1]) = s \o <<words[j + 1]>>
        BY <2>2, AppendIsConcat
      <4>3. PICK one \in Seq(Word) : one = <<words[j + 1]>>
        <5>1. PICK v \in Word : v = words[j + 1]
          BY <2>2
        <5>2. <<v>> \in Seq(Word)
          OBVIOUS
        <5> QED
          BY <5>1, <5>2
      <4>4. (all \o b) \o one = all \o (b \o one)
        BY ConcatAssociative
      <4> QED
        BY <3>4, <4>1, <4>2, <4>3, <4>4
    <3>6. Fitting(Append(s, words[j + 1])) = IF Len(Fitting(s)) < MAX_ARGS
                 THEN Append(Fitting(s), words[j + 1]) ELSE Fitting(s)
      BY <2>2, FittingGrows
    <3>7. f[j + 1] = Fitting(all \o a[j + 1])
      BY <2>3, <3>1, <3>2, <3>3, <3>4, <3>5, <3>6
    <3> QED
      BY <2>1, <3>7
  <2>5. CASE ~Accepts(list, words[j + 1])
    BY <1>4, <1>5, <2>1, <2>3, <2>5
  <2> QED
    BY <2>4, <2>5
<1> HIDE DEF T
<1>8. \A j \in 0..n : j \in T
  BY <1>1, <1>6, <1>7, Counting
<1>9. n \in T
  BY <1>1, <1>8
<1> QED
  BY <1>1, <1>2, <1>5, <1>9 DEF T, Extended

\* The sources and headers of a description are among the files.
LEMMA ListedAreFiles ==
  ASSUME NEW d \in Descriptions, NEW list \in {"srcs", "headers"}
  PROVE  LET all == Fitting(AllWords(d, KindOf(list), LetIn(list))) IN
         \A j \in 1..Len(all) : all[j] \in Files
<1>1. PICK kind \in {"C", "H"} : kind = KindOf(list)
  BY DEF KindOf
<1>2. d \in Seq(Line) /\ list \in ListNames /\ Len(d) \in Nat
  BY FakemakeAssumption, LenProperties DEF FakemakeAssumption, ListNames
<1>3. PICK f : f = WordsUpTo(d, kind, LetIn(list))
  OBVIOUS
<1>4. /\ f[0] = <<>>
      /\ \A k \in 0..Len(d) : f[k] \in Seq(Word)
      /\ \A k \in 1..Len(d) :
           /\ d[k].words \in Seq(Word) /\ Among(d[k].words, LetIn(list)) \in Seq(Word)
           /\ d[k].kind = kind => f[k] = f[k - 1] \o Among(d[k].words, LetIn(list))
           /\ d[k].kind # kind => f[k] = f[k - 1]
  BY <1>2, <1>3, WordsIs
<1>5. ASSUME NEW k \in 1..Len(d), d[k].kind = kind
      PROVE  Among(d[k].words, LetIn(list)) \in Seq(Files)
  <2>1. PICK words \in Seq(Word) : words = d[k].words
    BY <1>4
  <2>2. \A j \in 1..Len(words) : Accepts(list, words[j]) => words[j] \in Files
    <3>1. DOMAIN words = 1..Len(words) /\ DOMAIN d = 1..Len(d)
      BY <1>2, <2>1, LenProperties
    <3>2. ASSUME NEW j \in 1..Len(words), Accepts(list, words[j]) PROVE words[j] \in Files
      <4>1. /\ d[k].kind = "C" /\ Accepts("srcs", d[k].words[j]) => d[k].words[j] \in Files
            /\ d[k].kind = "H" /\ Accepts("headers", d[k].words[j]) => d[k].words[j] \in Files
        BY <1>5, <2>1, <3>1, FakemakeAssumption DEF FakemakeAssumption
      <4>2. \/ list = "srcs" /\ d[k].kind = "C"
            \/ list = "headers" /\ d[k].kind = "H"
        BY <1>1, <1>5 DEF KindOf
      <4> QED
        BY <2>1, <3>2, <4>1, <4>2
    <3> QED
      BY <3>2
  <2>3. \A j \in 1..Len(words) : words[j] \in LetIn(list) <=> Accepts(list, words[j])
    BY <2>1, ElementOfSeq DEF LetIn
  <2>4. PICK n \in Nat : n = Len(words)
    BY LenProperties
  <2>5. PICK a : /\ a[0] = <<>>
                 /\ \A j \in 0..n : a[j] \in Seq(Word)
                 /\ \A j \in 1..n : a[j] = IF words[j] \in LetIn(list)
                                           THEN Append(a[j - 1], words[j]) ELSE a[j - 1]
                 /\ Among(words, LetIn(list)) = a[n]
    <3>1. PICK S : S = LetIn(list)
      OBVIOUS
    <3> QED
      BY <2>4, <3>1, AmongIs, SMTT(60)
  <2> DEFINE T == {j \in 0..n : a[j] \in Seq(Files)}
  <2>6. 0 \in 0..n /\ <<>> \in Seq(Files)
    BY <2>4, EmptySeq
  <2>7. 0 \in T
    BY <2>5, <2>6
  <2>8. ASSUME NEW j \in 0..(n - 1), j \in T PROVE j + 1 \in T
    <3>1. j + 1 \in 0..n /\ j + 1 \in 1..n /\ (j + 1) - 1 = j
      BY <2>4
    <3>2. words[j + 1] \in LetIn(list) => words[j + 1] \in Files
      BY <2>2, <2>3, <2>4, <3>1
    <3>3. a[j + 1] = IF words[j + 1] \in LetIn(list) THEN Append(a[j], words[j + 1]) ELSE a[j]
      BY <2>5, <3>1
    <3>4. a[j] \in Seq(Files)
      BY <2>8
    <3>5. a[j + 1] \in Seq(Files)
      BY <3>2, <3>3, <3>4, AppendProperties
    <3> QED
      BY <3>1, <3>5
  <2> HIDE DEF T
  <2>9. \A j \in 0..n : j \in T
    BY <2>4, <2>7, <2>8, Counting
  <2>10. n \in T
    BY <2>4, <2>9
  <2> QED
    BY <2>1, <2>5, <2>10 DEF T
<1> DEFINE T == {k \in 0..Len(d) : f[k] \in Seq(Files)}
<1>6. 0 \in 0..Len(d) /\ <<>> \in Seq(Files)
  BY <1>2, EmptySeq
<1>7. 0 \in T
  BY <1>4, <1>6
<1>8. ASSUME NEW k \in 0..(Len(d) - 1), k \in T PROVE k + 1 \in T
  <2>1. k + 1 \in 0..Len(d) /\ k + 1 \in 1..Len(d) /\ (k + 1) - 1 = k
    BY <1>2
  <2>2. f[k] \in Seq(Files)
    BY <1>8
  <2>3. CASE d[k + 1].kind = kind
    <3>1. PICK more \in Seq(Files) : more = Among(d[k + 1].words, LetIn(list))
      BY <1>5, <2>1, <2>3
    <3>2. f[k + 1] = f[k] \o more
      BY <1>4, <2>1, <2>3, <3>1
    <3>3. f[k] \o more \in Seq(Files)
      BY <2>2, ConcatProperties
    <3> QED
      BY <2>1, <3>2, <3>3
  <2>4. CASE d[k + 1].kind # kind
    BY <1>4, <2>1, <2>2, <2>4
  <2> QED
    BY <2>3, <2>4
<1> HIDE DEF T
<1>9. \A k \in 0..Len(d) : k \in T
  BY <1>2, <1>7, <1>8, Counting
<1>10. PICK all : all = AllWords(d, KindOf(list), LetIn(list))
  OBVIOUS
<1>11. all \in Seq(Files) /\ all \in Seq(Word)
  <2>1. Len(d) \in 0..Len(d)
    BY <1>2
  <2> QED
    BY <1>1, <1>3, <1>4, <1>9, <1>10, <2>1 DEF T, AllWords
<1>12. PICK s \in Seq(Word) : s = Fitting(all)
  BY <1>11, FittingIs
<1>13. MAX_ARGS \in Nat /\ Len(all) \in Nat /\ Len(s) \in Nat
  BY <1>11, LenProperties, FakemakeAssumption DEF FakemakeAssumption
<1>14. Len(s) <= Len(all) /\ Len(s) <= MAX_ARGS
  <2>1. CASE Len(all) <= MAX_ARGS
    BY <1>11, <1>12, <1>13, <2>1, FittingIs
  <2>2. CASE Len(all) > MAX_ARGS
    <3>1. Len(all) >= MAX_ARGS
      BY <1>13, <2>2
    <3>2. Len(s) = MAX_ARGS
      BY <1>11, <1>12, <3>1, FittingIs
    <3> QED
      BY <1>13, <3>1, <3>2
  <2> QED
    BY <1>13, <2>1, <2>2
<1>15. ASSUME NEW j \in 1..Len(s) PROVE s[j] \in Files
  <2>1. j \in 1..Len(all) /\ j <= MAX_ARGS
    BY <1>13, <1>14
  <2>2. s[j] = all[j]
    BY <1>11, <1>12, <2>1, FittingIs
  <2> QED
    BY <1>11, <2>1, <2>2, ElementOfSeq
<1> QED
  BY <1>10, <1>12, <1>15

(***************************************************************************)
(* What every state has.                                                   *)
(***************************************************************************)

\* The clock, and what carries a time.
Clocks ==
    /\ now \in 1..MaxTime /\ hasty \in BOOLEAN
    /\ file \in [Files -> [time : Nat, version : Nat]]
    /\ \A f \in Files : file[f].time <= now /\ file[f].version <= MaxVersion
    /\ DOMAIN obj = Objects /\ \A o \in Objects : obj[o].time \in 0..now
    /\ exec.time \in 0..now

\* The lists, while the description is read and after it.
Lists ==
    /\ desc \in Descriptions /\ DOMAIN compilation = ListNames \cup {"exec_name"}
    /\ i \in Nat \ {0} /\ pc \in Resting \cup Reading \cup Deciding \cup Running
    /\ \A list \in ListNames :
          compilation[list] \in Seq(Word) /\ Len(compilation[list]) <= MAX_ARGS
    /\ pc = "read" =>
         /\ i \in 1..Len(desc) + 1
         /\ \A list \in ListNames :
               compilation[list] = Fitting(WordsUpTo(desc, KindOf(list), LetIn(list))[i - 1])
    /\ pc \in Deciding \cup Running =>
         \A list \in ListNames :
            compilation[list] = Fitting(AllWords(desc, KindOf(list), LetIn(list)))
    /\ OverrunOnlyIfTooMany

LEMMA ClocksInit ==
  ASSUME Init PROVE Clocks
<1>1. /\ now = 1 /\ hasty = FALSE /\ file = [f \in Files |-> [time |-> 1, version |-> 0]]
      /\ obj = [o \in Objects |-> Absent] /\ exec = Absent
  BY DEF Init
<1>2. MaxTime \in Nat \ {0} /\ MaxVersion \in Nat
  BY FakemakeAssumption DEF FakemakeAssumption
<1>3. Absent.time = 0
  BY DEF Absent
<1>4. file \in [Files -> [time : Nat, version : Nat]]
  BY <1>1
<1>5. \A f \in Files : file[f].time <= now /\ file[f].version <= MaxVersion
  BY <1>1, <1>2
<1>6. DOMAIN obj = Objects /\ \A o \in Objects : obj[o].time \in 0..now
  BY <1>1, <1>3
<1>7. now \in 1..MaxTime /\ hasty \in BOOLEAN
  <2>1. now \in 1..MaxTime
    BY <1>1, <1>2
  <2>2. hasty \in BOOLEAN
    BY <1>1
  <2> QED
    BY <2>1, <2>2
<1>8. exec.time = 0 /\ 0 \in 0..1
  BY <1>1, <1>3
<1> QED
  BY <1>1, <1>4, <1>5, <1>6, <1>7, <1>8 DEF Clocks

LEMMA ClocksStep ==
  ASSUME Clocks, [Next]_vars PROVE Clocks'
<1>1. /\ MaxTime \in Nat \ {0} /\ MaxVersion \in Nat
      /\ now \in Nat \ {0} /\ now <= MaxTime
  BY FakemakeAssumption DEF FakemakeAssumption, Clocks
<1>2. CASE now' = now /\ hasty' = hasty /\ file' = file /\ obj' = obj /\ exec'.time \in 0..now
  <2>1. UNCHANGED <<now, hasty, file, obj>> /\ exec'.time \in 0..now'
    BY <1>2
  <2> QED
    BY <2>1 DEF Clocks
<1>3. CASE UNCHANGED <<now, hasty, file, obj, exec>>
  BY <1>2, <1>3 DEF Clocks
<1>4. CASE Compiled
  <2>1. now' = now /\ hasty' = hasty /\ file' = file /\ exec' = exec
    BY <1>4 DEF Compiled
  <2>2. CASE obj' = obj
    BY <1>3, <2>1, <2>2
  <2>3. CASE Makes(srcs[i]) \in Objects /\ obj' = [obj EXCEPT ![Makes(srcs[i])] = [time |-> now, of |-> input]]
    <3>1. DOMAIN obj' = Objects
      BY <2>3 DEF Clocks
    <3>2. ASSUME NEW o \in Objects PROVE obj'[o].time \in 0..now
      <4>1. CASE o = Makes(srcs[i])
        <5>1. obj'[o].time = now
          BY <2>3, <4>1 DEF Clocks
        <5> QED
          BY <1>1, <5>1
      <4>2. CASE o # Makes(srcs[i])
        <5>1. obj'[o] = obj[o]
          BY <2>3, <4>2 DEF Clocks
        <5> QED
          BY <5>1 DEF Clocks
      <4> QED
        BY <4>1, <4>2
    <3> QED
      BY <2>1, <3>1, <3>2 DEF Clocks
  <2> QED
    BY <1>4, <2>2, <2>3 DEF Compiled
<1>5. ASSUME NEW t \in {0, now}, Overwrite(t), Aliased, UNCHANGED <<now, obj>> PROVE Clocks'
  <2>1. PICK f \in Files : f = compilation.exec_name[1]
    BY <1>5 DEF Aliased
  <2>2. PICK v : v = IF file[f].version < MaxVersion THEN file[f].version + 1
                     ELSE file[f].version
    OBVIOUS
  <2>3. /\ file' = [file EXCEPT ![f] = [time |-> t, version |-> v]]
        /\ hasty' \in BOOLEAN /\ exec' = exec
    BY <1>5, <2>1, <2>2 DEF Overwrite
  <2>4. v \in Nat /\ v <= MaxVersion
    <3>1. file[f].version \in Nat /\ file[f].version <= MaxVersion
      BY DEF Clocks
    <3> QED
      BY <1>1, <2>2, <3>1
  <2>5. t \in Nat /\ t <= now
    BY <1>1, <1>5
  <2>6. file' \in [Files -> [time : Nat, version : Nat]]
    BY <2>3, <2>4, <2>5 DEF Clocks
  <2>7. \A g \in Files : file'[g].time <= now /\ file'[g].version <= MaxVersion
    BY <2>3, <2>4, <2>5 DEF Clocks
  <2> QED
    BY <1>5, <2>3, <2>6, <2>7 DEF Clocks
<1>6. CASE Linked \/ CommandFails
  <2>1. now' = now /\ obj' = obj
    BY <1>6 DEF Linked, CommandFails
  <2>2. CASE \E t \in {0, now} : Overwrite(t) /\ Aliased
    BY <1>5, <2>1, <2>2
  <2>3. CASE UNCHANGED <<file, hasty>> /\ exec' \in {exec, Absent, [time |-> now, of |-> input]}
    <3>1. exec'.time \in {exec.time, 0, now}
      BY <2>3 DEF Absent
    <3>2. exec'.time \in 0..now
      BY <1>1, <3>1 DEF Clocks
    <3> QED
      BY <1>2, <2>1, <2>3, <3>2
  <2> QED
    BY <1>6, <2>2, <2>3 DEF Linked, CommandFails
<1>7. CASE Tick
  <2>1. now' = now + 1 /\ now < MaxTime /\ UNCHANGED <<file, obj, exec, hasty>>
    BY <1>7 DEF Tick
  <2>2. \A f \in Files : file[f].time \in Nat
    BY DEF Clocks
  <2>3. now' \in 1..MaxTime /\ \A t \in Nat : t <= now => t <= now' /\ t \in 0..now'
    BY <1>1, <2>1
  <2>4. \A f \in Files : file[f].time <= now'
    BY <2>2, <2>3 DEF Clocks
  <2>5. \A o \in Objects : obj[o].time \in 0..now'
    BY <1>1, <2>3 DEF Clocks
  <2>6. exec.time \in 0..now'
    BY <1>1, <2>3 DEF Clocks
  <2> QED
    BY <2>1, <2>3, <2>4, <2>5, <2>6 DEF Clocks
<1>8. ASSUME NEW f \in Files, Save(f) PROVE Clocks'
  <2>1. /\ file[f].version < MaxVersion
        /\ file' = [file EXCEPT ![f] = [time |-> now, version |-> file[f].version + 1]]
        /\ UNCHANGED <<now, obj, exec>>
    BY <1>8 DEF Save
  <2>2. hasty' \in BOOLEAN
    BY <1>8 DEF Save, Clocks
  <2>3. file[f].version + 1 \in Nat /\ file[f].version + 1 <= MaxVersion
    BY <1>1, <2>1 DEF Clocks
  <2>4. file' \in [Files -> [time : Nat, version : Nat]]
    BY <1>1, <2>1, <2>3 DEF Clocks
  <2>5. \A g \in Files : file'[g].time <= now /\ file'[g].version <= MaxVersion
    BY <1>1, <2>1, <2>3 DEF Clocks
  <2> QED
    BY <2>1, <2>2, <2>4, <2>5 DEF Clocks
<1>9. ASSUME NEW f \in Files, Remove(f) PROVE Clocks'
  <2>1. file' = [file EXCEPT ![f].time = 0] /\ UNCHANGED <<now, obj, exec>>
    BY <1>9 DEF Remove
  <2>2. hasty' \in BOOLEAN
    BY <1>9 DEF Remove, Clocks
  <2>3. file' \in [Files -> [time : Nat, version : Nat]]
    BY <2>1 DEF Clocks
  <2>4. \A g \in Files : file'[g].time <= now /\ file'[g].version <= MaxVersion
    BY <1>1, <2>1 DEF Clocks
  <2> QED
    BY <2>1, <2>2, <2>3, <2>4 DEF Clocks
<1>10. CASE Clean
  <2>1. UNCHANGED <<now, file, hasty>>
    BY <1>10 DEF Clean
  <2>2. CASE obj' = obj /\ exec' = Absent
    <3>1. exec'.time = 0
      BY <2>2 DEF Absent
    <3>2. exec'.time \in 0..now
      BY <1>1, <3>1
    <3> QED
      BY <1>2, <2>1, <2>2, <3>2
  <2>3. ASSUME NEW o \in Objects, obj' = [obj EXCEPT ![o] = Absent], exec' = exec
        PROVE  Clocks'
    <3>1. Absent.time \in 0..now
      BY <1>1 DEF Absent
    <3>2. DOMAIN obj' = Objects /\ \A p \in Objects : obj'[p].time \in 0..now
      BY <2>3, <3>1 DEF Clocks
    <3> QED
      BY <2>1, <2>3, <3>2 DEF Clocks
  <2> QED
    BY <1>10, <2>2, <2>3 DEF Clean
<1>11. CASE ReadLine \/ EndOfDescription \/ Start \/ Killed
  BY <1>3, <1>11 DEF ReadLine, EndOfDescription, Start, Killed
<1>12. CASE \/ StatHeader \/ HeadersRead \/ AccessObject \/ StatSource \/ StatObject
            \/ ObjectsRead \/ Decide
  BY <1>3, <1>12 DEF StatHeader, HeadersRead, AccessObject, StatSource, StatObject,
       ObjectsRead, Decide, world
<1>13. CASE StartCompile \/ SkipSource \/ StartLink
  BY <1>3, <1>13 DEF StartCompile, SkipSource, StartLink, world
<1>14. CASE UNCHANGED vars
  BY <1>3, <1>14 DEF vars
<1> QED
  BY <1>4, <1>6, <1>7, <1>8, <1>9, <1>10, <1>11, <1>12, <1>13, <1>14
     DEF Next, Step, User

\* One more line of a description.
LEMMA WordsStep ==
  ASSUME NEW d \in Descriptions, NEW k \in 1..Len(d), NEW list \in ListNames
  PROVE  LET f == WordsUpTo(d, KindOf(list), LetIn(list)) IN
         /\ f[k - 1] \in Seq(Word) /\ f[k] \in Seq(Word) /\ d[k].words \in Seq(Word)
         /\ d[k].kind = KindOf(list) => f[k] = f[k - 1] \o Among(d[k].words, LetIn(list))
         /\ d[k].kind # KindOf(list) => f[k] = f[k - 1]
<1>1. d \in Seq(Line) /\ Len(d) \in Nat
  BY FakemakeAssumption, LenProperties DEF FakemakeAssumption
<1>2. PICK kind, S : kind = KindOf(list) /\ S = LetIn(list)
  OBVIOUS
<1>3. PICK f : f = WordsUpTo(d, kind, S)
  OBVIOUS
<1>4. /\ \A j \in 0..Len(d) : f[j] \in Seq(Word)
      /\ \A j \in 1..Len(d) :
           /\ d[j].words \in Seq(Word)
           /\ d[j].kind = kind => f[j] = f[j - 1] \o Among(d[j].words, S)
           /\ d[j].kind # kind => f[j] = f[j - 1]
  BY <1>1, <1>3, WordsIs
<1>5. k \in 0..Len(d) /\ k - 1 \in 0..Len(d)
  BY <1>1
<1>6. /\ f[k - 1] \in Seq(Word) /\ f[k] \in Seq(Word) /\ d[k].words \in Seq(Word)
      /\ d[k].kind = kind => f[k] = f[k - 1] \o Among(d[k].words, S)
      /\ d[k].kind # kind => f[k] = f[k - 1]
  BY <1>4, <1>5
<1> QED
  BY <1>2, <1>3, <1>6

LEMMA ListsInit ==
  ASSUME Init PROVE Lists
<1>1. /\ desc \in Descriptions /\ compilation = new_compilation /\ i = 1 /\ pc = "idle"
  BY DEF Init
<1>2. /\ pc \in Resting /\ pc \notin Deciding \cup Running /\ pc # "read"
      /\ OverrunOnlyIfTooMany
  BY <1>1 DEF Resting, Deciding, Running, OverrunOnlyIfTooMany
<1>3. DOMAIN compilation = ListNames \cup {"exec_name"}
  BY <1>1 DEF new_compilation, ListNames
<1>4. \A list \in ListNames : compilation[list] = <<>>
  BY <1>1 DEF new_compilation, ListNames
<1>5. \A list \in ListNames : compilation[list] \in Seq(Word) /\ Len(compilation[list]) <= MAX_ARGS
  <2>1. <<>> \in Seq(Word) /\ Len(<<>>) = 0 /\ 0 <= MAX_ARGS
    BY FakemakeAssumption, EmptySeq DEF FakemakeAssumption
  <2> QED
    BY <1>4, <2>1
<1> QED
  BY <1>1, <1>2, <1>3, <1>5 DEF Lists

\* A list that an earlier line filled and a line with a word for it: too many.
LEMMA OverflowIsTooMany ==
  ASSUME Lists, pc = "read", NEW list \in ListNames, i \in 1..Len(desc),
         desc[i].kind = KindOf(list), Overflows(list, desc[i].words)
  PROVE  Len(AllWords(desc, KindOf(list), LetIn(list))) > MAX_ARGS
<1>1. /\ desc \in Descriptions /\ desc \in Seq(Line) /\ MAX_ARGS \in Nat
      /\ i \in 0..Len(desc)
  <2>1. desc \in Descriptions /\ desc \in Seq(Line) /\ MAX_ARGS \in Nat
    BY FakemakeAssumption DEF Lists, FakemakeAssumption
  <2> QED
    BY <2>1, LenProperties
<1>2. PICK f : f = WordsUpTo(desc, KindOf(list), LetIn(list))
  OBVIOUS
<1>3. /\ f[i - 1] \in Seq(Word) /\ f[i] \in Seq(Word) /\ desc[i].words \in Seq(Word)
      /\ f[i] = f[i - 1] \o Among(desc[i].words, LetIn(list))
  BY <1>1, <1>2, WordsStep
<1>4. PICK before \in Seq(Word) : before = f[i - 1]
  BY <1>3
<1>5. PICK words \in Seq(Word) : words = desc[i].words
  BY <1>3
<1>6. Len(before) >= MAX_ARGS
  <2>1. compilation[list] = Fitting(before) /\ Len(compilation[list]) = MAX_ARGS
    BY <1>2, <1>4 DEF Lists, Overflows, Full
  <2>2. Len(before) \in Nat /\ (Len(before) <= MAX_ARGS => Fitting(before) = before)
    BY FittingIs, LenProperties
  <2> QED
    BY <1>1, <2>1, <2>2
<1>7. Len(Among(words, LetIn(list))) >= 1 /\ Among(words, LetIn(list)) \in Seq(Word)
  <2>1. PICK j \in 1..Len(words) : Accepts(list, words[j])
    BY <1>5, LenProperties DEF Overflows
  <2>2. words[j] \in LetIn(list)
    BY <2>1, ElementOfSeq DEF LetIn
  <2>3. Among(words, LetIn(list)) \in Seq(Word)
    <3>1. Len(words) \in 0..Len(words)
      BY LenProperties
    <3> QED
      BY <3>1, AmongIs
  <2> QED
    BY <2>2, <2>3, AmongIsLonger
<1>8. PICK more \in Seq(Word) : more = Among(words, LetIn(list))
  BY <1>7
<1>9. Len(f[i]) = Len(before) + Len(more) /\ Len(before) \in Nat /\ Len(more) \in Nat
  BY <1>3, <1>4, <1>5, <1>8, ConcatProperties, LenProperties
<1>10. PICK all \in Seq(Word) : all = AllWords(desc, KindOf(list), LetIn(list))
  <2>1. Len(desc) \in 0..Len(desc)
    BY <1>1, LenProperties
  <2> QED
    BY <1>1, <2>1, WordsIs DEF AllWords
<1>11. Len(all) >= Len(f[i]) /\ Len(all) \in Nat
  BY <1>1, <1>2, <1>10, WordsGrow, LenProperties
<1> QED
  BY <1>1, <1>6, <1>7, <1>8, <1>9, <1>10, <1>11

\* A line is added to the list of its kind, which then holds one line more of
\* the description.
LEMMA AddKeeps ==
  ASSUME Lists, pc = "read", i <= Len(desc), NEW list \in ListNames,
         desc[i].kind = KindOf(list), add(list, desc[i].words)
  PROVE  Lists'
<1>1. desc \in Seq(Line) /\ Len(desc) \in Nat /\ i \in 1..Len(desc)
  <2>1. desc \in Seq(Line)
    BY FakemakeAssumption DEF Lists, FakemakeAssumption
  <2> QED
    BY <2>1, LenProperties DEF Lists
<1>2. CASE Overflows(list, desc[i].words) /\ Stop("overrun")
  <2>1. pc' = "overrun" /\ UNCHANGED <<desc, compilation, i>>
    BY <1>2 DEF Stop
  <2>2. Len(AllWords(desc, KindOf(list), LetIn(list))) > MAX_ARGS
    BY <1>1, <1>2, OverflowIsTooMany
  <2>3. OverrunOnlyIfTooMany'
    <3>1. AllWords(desc, KindOf(list), LetIn(list))' = AllWords(desc, KindOf(list), LetIn(list))
      BY <2>1 DEF AllWords, WordsUpTo, Among, LetIn, Accepts, IsFlag, IsLink, IsLibrary, Char, KindOf
    <3> QED
      BY <2>1, <2>2, <3>1 DEF OverrunOnlyIfTooMany
  <2> QED
    BY <2>1, <2>3 DEF Lists, Resting, Deciding, Running
<1>3. CASE /\ compilation' = [compilation EXCEPT ![list] = Extended(list, desc[i].words)]
           /\ NextLine
  <2>1. i' = i + 1 /\ UNCHANGED <<desc, pc>>
    BY <1>3 DEF NextLine
  <2>2. DOMAIN compilation' = DOMAIN compilation /\ list \in DOMAIN compilation
    BY <1>3 DEF Lists
  <2>3. /\ compilation'[list] = Extended(list, desc[i].words)
        /\ \A l \in ListNames : l # list => compilation'[l] = compilation[l]
    BY <1>3, <2>2 DEF Lists
  <2>4. i - 1 \in 0..Len(desc) /\ i \in 0..Len(desc) /\ i + 1 \in 1..Len(desc) + 1
        /\ i + 1 \in Nat \ {0} /\ (i + 1) - 1 = i
    BY <1>1
  <2>5. ASSUME NEW l \in ListNames
        PROVE  /\ compilation'[l] = Fitting(WordsUpTo(desc, KindOf(l), LetIn(l))[i])
               /\ compilation'[l] \in Seq(Word) /\ Len(compilation'[l]) <= MAX_ARGS
    <3>1. PICK f : f = WordsUpTo(desc, KindOf(l), LetIn(l))
      OBVIOUS
    <3>2. /\ f[i - 1] \in Seq(Word) /\ f[i] \in Seq(Word) /\ desc[i].words \in Seq(Word)
          /\ desc[i].kind = KindOf(l) => f[i] = f[i - 1] \o Among(desc[i].words, LetIn(l))
          /\ desc[i].kind # KindOf(l) => f[i] = f[i - 1]
      <4>1. desc \in Descriptions
        BY DEF Lists
      <4> QED
        BY <1>1, <3>1, <4>1, WordsStep
    <3>3. compilation[l] = Fitting(f[i - 1])
      BY <3>1 DEF Lists
    <3>4. compilation'[l] = Fitting(f[i])
      <4>1. CASE l = list
        <5>1. PICK all \in Seq(Word) : all = f[i - 1]
          BY <3>2
        <5>2. PICK words \in Seq(Word) : words = desc[i].words
          BY <3>2
        <5>3. Extended(l, words) = Fitting(all \o Among(words, LetIn(l)))
          BY <3>3, <5>1, LineFits
        <5> QED
          BY <2>3, <3>2, <4>1, <5>1, <5>2, <5>3
      <4>2. CASE l # list
        <5>1. KindOf(l) # KindOf(list)
          BY <4>2 DEF KindOf, ListNames
        <5> QED
          BY <2>3, <3>2, <3>3, <4>2, <5>1
      <4> QED
        BY <4>1, <4>2
    <3>5. Fitting(f[i]) \in Seq(Word) /\ Len(Fitting(f[i])) <= MAX_ARGS
      <4>1. PICK s \in Seq(Word) : s = f[i]
        BY <3>2
      <4>2. Fitting(s) \in Seq(Word) /\ Len(Fitting(s)) <= MAX_ARGS
        BY FittingIs
      <4> QED
        BY <4>1, <4>2
    <3> QED
      BY <3>1, <3>4, <3>5
  <2>6. pc' = "read" /\ pc' \in Reading
    BY <2>1 DEF Reading
  <2> QED
    BY <2>1, <2>2, <2>4, <2>5, <2>6 DEF Lists, Deciding, Running, OverrunOnlyIfTooMany
<1> QED
  BY <1>2, <1>3 DEF add

LEMMA ReadKeepsLists ==
  ASSUME Lists, ReadLine PROVE Lists'
<1> DEFINE words == desc[i].words
<1>1. pc = "read" /\ i <= Len(desc) /\ i \in Nat \ {0}
  BY DEF ReadLine, Lists
<1>2. CASE \E how \in {"failed", "segv"} : Stop(how)
  <2>1. PICK how \in {"failed", "segv"} : pc' = how /\ UNCHANGED <<desc, compilation, i>>
    BY <1>2 DEF Stop
  <2>2. /\ pc' \in Resting /\ pc' \notin Deciding \cup Running /\ pc' # "read"
        /\ pc' # "overrun"
    BY <2>1 DEF Resting, Deciding, Running
  <2> QED
    BY <2>1, <2>2 DEF Lists, OverrunOnlyIfTooMany
<1>3. CASE /\ \A list \in ListNames : desc[i].kind # KindOf(list)
           /\ \/ compilation' = compilation
              \/ compilation' = [compilation EXCEPT !.exec_name = NameIn(desc[i])]
           /\ NextLine
  <2>1. i' = i + 1 /\ UNCHANGED <<desc, pc>>
    BY <1>3 DEF NextLine
  <2>2. DOMAIN compilation' = DOMAIN compilation
    BY <1>3
  <2>3. \A list \in ListNames : compilation'[list] = compilation[list]
    BY <1>3 DEF ListNames, Lists
  <2>4. desc \in Seq(Line) /\ Len(desc) \in Nat /\ i \in 1..Len(desc)
    <3>1. desc \in Seq(Line)
      BY FakemakeAssumption DEF Lists, FakemakeAssumption
    <3> QED
      BY <1>1, <3>1, LenProperties
  <2>5. i + 1 \in 1..Len(desc) + 1 /\ i + 1 \in Nat \ {0} /\ (i + 1) - 1 = i
    BY <2>4
  <2>6. \A list \in ListNames :
          WordsUpTo(desc, KindOf(list), LetIn(list))[i] = WordsUpTo(desc, KindOf(list), LetIn(list))[i - 1]
    <3>1. desc \in Descriptions
      BY DEF Lists
    <3> QED
      BY <1>3, <2>4, <3>1, WordsStep
  <2>7. \A list \in ListNames :
          compilation'[list] = Fitting(WordsUpTo(desc, KindOf(list), LetIn(list))[i])
    BY <1>1, <2>3, <2>6 DEF Lists
  <2>8. pc' = "read" /\ pc' \in Reading
    BY <1>1, <2>1 DEF Reading
  <2> QED
    BY <2>1, <2>2, <2>3, <2>5, <2>7, <2>8 DEF Lists, Deciding, Running, OverrunOnlyIfTooMany
<1>4. CASE desc[i].kind = "C"
  <2>1. "srcs" \in ListNames /\ KindOf("srcs") = "C"
    BY DEF ListNames, KindOf
  <2>2. add("srcs", words)
    BY <1>4 DEF ReadLine, add_srcs
  <2> QED
    BY <1>1, <1>4, <2>1, <2>2, AddKeeps
<1>5. CASE desc[i].kind = "H"
  <2>1. "headers" \in ListNames /\ KindOf("headers") = "H"
    BY DEF ListNames, KindOf
  <2>2. add("headers", words)
    BY <1>5 DEF ReadLine, add_headers
  <2> QED
    BY <1>1, <1>5, <2>1, <2>2, AddKeeps
<1>6. CASE desc[i].kind = "F"
  <2>1. "flag_list" \in ListNames /\ KindOf("flag_list") = "F"
    BY DEF ListNames, KindOf
  <2>2. add("flag_list", words)
    BY <1>6 DEF ReadLine, add_flags
  <2> QED
    BY <1>1, <1>6, <2>1, <2>2, AddKeeps
<1>7. CASE desc[i].kind = "L"
  <2>1. "libraries" \in ListNames /\ KindOf("libraries") = "L"
    BY DEF ListNames, KindOf
  <2>2. add_libraries(words)
    BY <1>7 DEF ReadLine
  <2>3. Stop("failed") \/ add("libraries", words)
    BY <2>2 DEF add_libraries
  <2> QED
    BY <1>1, <1>2, <1>7, <2>1, <2>3, AddKeeps
<1>8. CASE desc[i].kind \notin {"C", "H", "F", "L"}
  <2>1. \A list \in ListNames : desc[i].kind # KindOf(list)
    BY <1>8 DEF ListNames, KindOf
  <2>2. CASE desc[i].kind = "E"
    <3>1. add_exec(desc[i])
      BY <2>2 DEF ReadLine
    <3>2. \/ Stop("failed") \/ Stop("segv")
          \/ compilation' = [compilation EXCEPT !.exec_name = NameIn(desc[i])] /\ NextLine
      BY <3>1 DEF add_exec
    <3> QED
      BY <1>2, <1>3, <2>1, <3>2
  <2>3. CASE desc[i].kind = "empty"
    <3>1. NextLine /\ compilation' = compilation
      BY <2>3 DEF ReadLine
    <3> QED
      BY <1>3, <2>1, <3>1
  <2>4. CASE desc[i].kind \notin {"E", "empty"}
    <3>1. Stop("failed")
      BY <1>8, <2>4 DEF ReadLine
    <3> QED
      BY <1>2, <3>1
  <2> QED
    BY <2>2, <2>3, <2>4
<1> QED
  BY <1>4, <1>5, <1>6, <1>7, <1>8
LEMMA ListsStep ==
  ASSUME Lists, [Next]_vars PROVE Lists'
<1>1. ASSUME UNCHANGED <<desc, compilation>>, i' \in Nat \ {0},
             \/ pc' = pc /\ (pc # "read" \/ i' = i)
             \/ pc' \in Resting \ {"overrun"}
             \/ pc \in Deciding \cup Running /\ pc' \in Deciding \cup Running
      PROVE  Lists'
  <2>1. pc' = "read" => pc = "read" /\ i' = i
    BY <1>1 DEF Resting, Deciding, Running
  <2>2. pc' \in Deciding \cup Running => pc \in Deciding \cup Running
    BY <1>1 DEF Resting, Deciding, Running
  <2>3. pc' \in Resting \cup Reading \cup Deciding \cup Running
    BY <1>1 DEF Lists
  <2>4. OverrunOnlyIfTooMany'
    <3>1. pc' = "overrun" => pc = "overrun"
      BY <1>1 DEF Deciding, Running
    <3>2. \A list \in ListNames : AllWords(desc, KindOf(list), LetIn(list))' =
                                 AllWords(desc, KindOf(list), LetIn(list))
      BY <1>1 DEF AllWords, WordsUpTo, Among, LetIn, Accepts, IsFlag, IsLink, IsLibrary, Char, KindOf
    <3> QED
      BY <3>1, <3>2 DEF Lists, OverrunOnlyIfTooMany
  <2> QED
    BY <1>1, <2>1, <2>2, <2>3, <2>4 DEF Lists
<1>2. i \in Nat \ {0} /\ i + 1 \in Nat \ {0} /\ 1 \in Nat \ {0}
  BY DEF Lists
<1>3. CASE UNCHANGED <<desc, compilation, pc, i>>
  BY <1>1, <1>2, <1>3
<1>4. CASE ReadLine
  BY <1>4, ReadKeepsLists
<1>5. CASE EndOfDescription
  <2>1. /\ pc = "read" /\ i > Len(desc) /\ UNCHANGED <<desc, compilation>> /\ i' = 1
        /\ pc' = "headers" \/ pc' = "failed"
    BY <1>5 DEF EndOfDescription
  <2>2. Len(desc) \in Nat
    <3>1. desc \in Seq(Line)
      BY FakemakeAssumption DEF Lists, FakemakeAssumption
    <3> QED
      BY <3>1, LenProperties
  <2>3. i - 1 = Len(desc)
    BY <2>1, <2>2 DEF Lists
  <2>4. \A list \in ListNames :
           compilation[list] = Fitting(AllWords(desc, KindOf(list), LetIn(list)))
    BY <2>1, <2>3 DEF Lists, AllWords
  <2>5. pc' # "read" /\ pc' # "overrun" /\ pc' \in Resting \cup Deciding
    BY <2>1 DEF Resting, Deciding
  <2> QED
    BY <1>2, <2>1, <2>4, <2>5 DEF Lists, OverrunOnlyIfTooMany
<1>6. CASE Start
  <2>1. /\ pc' = "read" /\ i' = 1 /\ compilation' = new_compilation /\ desc' = desc
    BY <1>6 DEF Start
  <2>2. DOMAIN compilation' = ListNames \cup {"exec_name"}
    BY <2>1 DEF new_compilation, ListNames
  <2>3. \A list \in ListNames : compilation'[list] = <<>>
    BY <2>1 DEF new_compilation, ListNames
  <2>4. <<>> \in Seq(Word) /\ Len(<<>>) = 0 /\ 0 <= MAX_ARGS
    BY FakemakeAssumption, EmptySeq DEF FakemakeAssumption
  <2>5. desc \in Seq(Line) /\ Len(desc) \in Nat /\ desc \in Descriptions
    <3>1. desc \in Seq(Line) /\ desc \in Descriptions
      BY FakemakeAssumption DEF Lists, FakemakeAssumption
    <3> QED
      BY <3>1, LenProperties
  <2>6. 1 \in 1..Len(desc) + 1 /\ 1 - 1 = 0
    BY <2>5
  <2>7. \A list \in ListNames : Fitting(WordsUpTo(desc, KindOf(list), LetIn(list))[0]) = <<>>
    <3>1. Fitting(<<>>) = <<>>
      BY <2>4, FittingIs
    <3>2. \A list \in ListNames : WordsUpTo(desc, KindOf(list), LetIn(list))[0] = <<>>
      BY <2>5, WordsIs
    <3> QED
      BY <3>1, <3>2
  <2>8. pc' \in Reading /\ pc' \notin Deciding \cup Running /\ OverrunOnlyIfTooMany'
    BY <2>1 DEF Reading, Deciding, Running, OverrunOnlyIfTooMany
  <2>9. \A list \in ListNames :
           /\ compilation'[list] \in Seq(Word) /\ Len(compilation'[list]) <= MAX_ARGS
           /\ compilation'[list] = Fitting(WordsUpTo(desc, KindOf(list), LetIn(list))[0])
    BY <2>3, <2>4, <2>7
  <2> QED
    BY <1>2, <2>1, <2>2, <2>5, <2>6, <2>8, <2>9 DEF Lists
<1>7. CASE Killed
  BY <1>1, <1>2, <1>7 DEF Killed, Stop, Resting
<1>8. CASE StatHeader \/ HeadersRead \/ AccessObject \/ StatSource
  BY <1>1, <1>2, <1>8 DEF StatHeader, HeadersRead, AccessObject, StatSource, Judge, world,
       Resting, Deciding, Running
<1>9. CASE StatObject \/ ObjectsRead \/ Decide
  BY <1>1, <1>2, <1>9 DEF StatObject, ObjectsRead, Decide, Judge, world,
       Resting, Deciding, Running
<1>10. CASE StartCompile \/ SkipSource \/ Compiled
  BY <1>1, <1>2, <1>10 DEF StartCompile, SkipSource, Compiled, world, Resting, Deciding, Running
<1>11. CASE StartLink \/ Linked \/ CommandFails
  BY <1>1, <1>2, <1>11 DEF StartLink, Linked, CommandFails, Resting, Deciding, Running
<1>12. CASE Tick \/ Clean \/ (\E f \in Files : Save(f) \/ Remove(f)) \/ UNCHANGED vars
  BY <1>3, <1>12 DEF Tick, Clean, Save, Remove, vars, run
<1> QED
  BY <1>4, <1>5, <1>6, <1>7, <1>8, <1>9, <1>10, <1>11, <1>12 DEF Next, Step, User

\* Each list holds what its lines say, and of a description that is judged as the
\* comments say, what they say.
LEMMA ListsAreComplete ==
  ASSUME Lists PROVE ListsComplete
<1>1. SUFFICES ASSUME pc \in Deciding \cup Running, Judged(desc), NEW list \in ListNames
               PROVE  compilation[list] = Fitting(AllWords(desc, KindOf(list), Belonging(list)))
  BY DEF ListsComplete
<1>2. compilation[list] = Fitting(AllWords(desc, KindOf(list), LetIn(list)))
  BY <1>1 DEF Lists
<1>3. desc \in Seq(Line) /\ DOMAIN desc = 1..Len(desc)
  <2>1. desc \in Seq(Line)
    BY FakemakeAssumption DEF Lists, FakemakeAssumption
  <2> QED
    BY <2>1, LenProperties
<1>4. ASSUME NEW k \in 1..Len(desc), desc[k].kind = KindOf(list),
             NEW j \in 1..Len(desc[k].words)
      PROVE  desc[k].words[j] \in LetIn(list) <=> desc[k].words[j] \in Belonging(list)
  <2>1. PICK words \in Seq(Word) : words = desc[k].words
    <3>1. desc[k] \in Line
      BY <1>3, ElementOfSeq
    <3> QED
      BY <3>1 DEF Line
  <2>2. DOMAIN words = 1..Len(words) /\ words[j] \in Word
    BY <1>4, <2>1, LenProperties, ElementOfSeq
  <2>3. Accepts(list, words[j]) <=> Belongs(list, words[j])
    BY <1>1, <1>3, <1>4, <2>1, <2>2 DEF Judged
  <2> QED
    BY <2>1, <2>2, <2>3 DEF LetIn, Belonging
<1>5. AllWords(desc, KindOf(list), LetIn(list)) = AllWords(desc, KindOf(list), Belonging(list))
  BY <1>3, <1>4, SameWords
<1> QED
  BY <1>2, <1>5

\* ListsComplete, for every set of descriptions: whatever the kinds and the order
\* of its lines, and however often a run stops, the lists that get_commands works
\* from hold, in order, the first words that the comments say belong in them, as
\* many as there is room for, when the tests judge the words as the comments say.
THEOREM ListsCompleteHolds == Spec => []ListsComplete
<1>1. Init => Lists
  BY ListsInit
<1>2. Lists /\ [Next]_vars => Lists'
  BY ListsStep
<1>3. Lists => ListsComplete
  BY ListsAreComplete
<1> QED
  BY <1>1, <1>2, <1>3, PTL DEF Spec

\* OverrunOnlyIfTooMany, for every set of descriptions: no array is written past
\* its end unless the lines of one kind have together more words that the test
\* lets in than it has room for.
THEOREM OverrunHolds == Spec => []OverrunOnlyIfTooMany
<1>1. Init => Lists
  BY ListsInit
<1>2. Lists /\ [Next]_vars => Lists'
  BY ListsStep
<1>3. Lists => OverrunOnlyIfTooMany
  BY DEF Lists
<1> QED
  BY <1>1, <1>2, <1>3, PTL DEF Spec

(***************************************************************************)
(* The stages of get_commands and of main's loop.                          *)
(***************************************************************************)

JudgingSources == {"access", "statsrc", "statobj"}

\* What has been looked at so far; the command that comes next.
Stages ==
    /\ times \in [headers : Seq(Nat), src : Nat, objs : Seq(Nat)]
    /\ recompile \subseteq 1..Len(times.objs) /\ Len(times.objs) <= Len(srcs)
    /\ pc \in {"read", "headers"} => times.objs = <<>>
    /\ pc = "read" => times.headers = <<>>
    /\ pc = "headers" => Len(times.headers) = i - 1 /\ i <= Len(headers) + 1
    /\ pc \in JudgingSources => Len(times.objs) = i - 1
    /\ pc \in {"statsrc", "statobj"} => i <= Len(srcs)
    /\ pc \in JudgingSources \cup {"decide"} \cup Running => Len(times.headers) = Len(headers)
    /\ pc \in {"decide"} \cup Running => Len(times.objs) = Len(srcs)
    /\ pc = "decide" => i = 1
    /\ pc \in Running => i <= Len(srcs) + 1
    /\ pc = "gcc" => i \in recompile
    /\ pc = "ld" => i = Len(srcs) + 1

\* The lists that get_commands works from hold files.
LEMMA FilesInLists ==
  ASSUME Lists
  PROVE  /\ srcs \in Seq(Word) /\ headers \in Seq(Word)
         /\ Len(srcs) \in 0..MAX_ARGS /\ Len(headers) \in 0..MAX_ARGS
         /\ pc \in Deciding \cup Running =>
               /\ \A k \in 1..Len(srcs) : srcs[k] \in Files
               /\ \A k \in 1..Len(headers) : headers[k] \in Files
<1>1. "srcs" \in ListNames /\ "headers" \in ListNames
  BY DEF ListNames
<1>2. /\ compilation["srcs"] \in Seq(Word) /\ Len(compilation["srcs"]) <= MAX_ARGS
      /\ compilation["headers"] \in Seq(Word) /\ Len(compilation["headers"]) <= MAX_ARGS
  BY <1>1 DEF Lists
<1>3. srcs = compilation["srcs"] /\ headers = compilation["headers"]
  BY DEF srcs, headers
<1>4. MAX_ARGS \in Nat
  BY FakemakeAssumption DEF FakemakeAssumption
<1>5. Len(srcs) \in 0..MAX_ARGS /\ Len(headers) \in 0..MAX_ARGS
  <2>1. Len(compilation["srcs"]) \in Nat /\ Len(compilation["headers"]) \in Nat
    BY <1>2, LenProperties
  <2> QED
    BY <1>2, <1>3, <1>4, <2>1
<1>6. ASSUME pc \in Deciding \cup Running
      PROVE  /\ \A k \in 1..Len(srcs) : srcs[k] \in Files
             /\ \A k \in 1..Len(headers) : headers[k] \in Files
  <2>1. desc \in Descriptions
    BY DEF Lists
  <2>2. /\ compilation["srcs"] = Fitting(AllWords(desc, KindOf("srcs"), LetIn("srcs")))
        /\ compilation["headers"] = Fitting(AllWords(desc, KindOf("headers"), LetIn("headers")))
    BY <1>1, <1>6 DEF Lists
  <2>3. \A k \in 1..Len(compilation["srcs"]) : compilation["srcs"][k] \in Files
    BY <2>1, <2>2, ListedAreFiles
  <2>4. \A k \in 1..Len(compilation["headers"]) : compilation["headers"][k] \in Files
    BY <2>1, <2>2, ListedAreFiles
  <2> QED
    BY <1>3, <2>3, <2>4
<1> QED
  BY <1>2, <1>3, <1>5, <1>6

LEMMA StagesInit ==
  ASSUME Init PROVE Stages
<1>1. times = NoTimes /\ recompile = {} /\ pc = "idle" /\ compilation = new_compilation
  BY DEF Init
<1>2. times \in [headers : Seq(Nat), src : Nat, objs : Seq(Nat)]
  BY <1>1, EmptySeq DEF NoTimes
<1>3. Len(times.objs) = 0 /\ Len(srcs) = 0
  BY <1>1, EmptySeq DEF NoTimes, srcs, new_compilation
<1> QED
  BY <1>1, <1>2, <1>3 DEF Stages, Running, JudgingSources

LEMMA StagesStep ==
  ASSUME Clocks, Lists, Lists', Stages, [Next]_vars PROVE Stages'
<1>1. /\ Len(srcs) \in Nat /\ Len(headers) \in Nat /\ i \in Nat \ {0}
      /\ Len(times.objs) \in Nat /\ Len(times.headers) \in Nat
  <2>1. times.objs \in Seq(Nat) /\ times.headers \in Seq(Nat)
    BY DEF Stages
  <2>2. MAX_ARGS \in Nat /\ Len(srcs) \in 0..MAX_ARGS /\ Len(headers) \in 0..MAX_ARGS
    BY FilesInLists, FakemakeAssumption DEF FakemakeAssumption
  <2> QED
    BY <2>1, <2>2, LenProperties DEF Lists
<1>2. CASE UNCHANGED <<compilation, pc, i, times, recompile>>
  BY <1>2 DEF Stages, srcs, headers
<1>3. CASE UNCHANGED <<compilation, times, recompile>> /\ pc' \in Resting
  BY <1>3 DEF Stages, srcs, headers, Resting, JudgingSources, Running
<1>4. CASE ReadLine
  <2>1. pc = "read" /\ times' = times /\ recompile' = recompile
    BY <1>4 DEF ReadLine, add_srcs, add_headers, add_flags, add_libraries, add_exec, add,
         NextLine, Stop
  <2>2. pc' = "read" \/ pc' \in Resting
    BY <1>4 DEF ReadLine, add_srcs, add_headers, add_flags, add_libraries, add_exec, add,
         NextLine, Stop, Resting
  <2>3. times'.objs = <<>> /\ times'.headers = <<>> /\ Len(times'.objs) = 0
    BY <2>1, EmptySeq DEF Stages
  <2>4. Len(srcs') \in Nat
    <3>1. /\ MAX_ARGS \in Nat /\ compilation'["srcs"] \in Seq(Word)
      BY FakemakeAssumption DEF FakemakeAssumption, Lists, ListNames
    <3> QED
      BY <3>1, LenProperties DEF srcs
  <2>5. Len(times'.objs) <= Len(srcs')
    BY <2>3, <2>4
  <2> QED
    BY <2>1, <2>2, <2>3, <2>5 DEF Stages, Resting, JudgingSources, Running
<1>5. CASE EndOfDescription
  <2>1. /\ pc = "read" /\ i' = 1 /\ UNCHANGED <<compilation, times, recompile>>
        /\ pc' = "headers" \/ pc' = "failed"
    BY <1>5 DEF EndOfDescription
  <2>2. Len(times.headers) = 0 /\ 1 <= Len(headers) + 1
    BY <1>1, <2>1, EmptySeq DEF Stages
  <2> QED
    BY <1>1, <2>1, <2>2 DEF Stages, Resting, JudgingSources, Running, srcs, headers
<1>6. CASE StatHeader
  <2>1. pc = "headers" /\ i <= Len(headers) /\ UNCHANGED <<compilation, recompile>>
    BY <1>6 DEF StatHeader, world
  <2>2. CASE pc' = "failed" /\ UNCHANGED times
    BY <1>3, <2>1, <2>2 DEF Resting
  <2>3. CASE /\ times' = [times EXCEPT !.headers = Append(times.headers, file[headers[i]].time)]
             /\ i' = i + 1 /\ pc' = pc
    <3>1. headers[i] \in Files
      BY <1>1, <2>1, FilesInLists DEF Deciding
    <3>2. PICK t \in Nat : t = file[headers[i]].time
      BY <3>1 DEF Clocks
    <3>3. PICK hs \in Seq(Nat) : hs = times.headers
      BY DEF Stages
    <3>4. Append(hs, t) \in Seq(Nat) /\ Len(Append(hs, t)) = Len(hs) + 1
      BY AppendProperties
    <3>5. /\ times' \in [headers : Seq(Nat), src : Nat, objs : Seq(Nat)]
          /\ times'.objs = times.objs /\ times'.headers = Append(hs, t)
      BY <2>3, <3>2, <3>3, <3>4 DEF Stages
    <3>6. Len(hs) = i - 1 /\ i' = i + 1 /\ Len(times'.headers) = Len(hs) + 1
      BY <2>1, <2>3, <3>3, <3>4, <3>5 DEF Stages
    <3>7. Len(times'.headers) = i' - 1 /\ i' <= Len(headers) + 1
      BY <1>1, <2>1, <3>6
    <3> QED
      BY <2>1, <2>3, <3>5, <3>7 DEF Stages, srcs, headers, JudgingSources, Running
  <2> QED
    BY <1>6, <2>2, <2>3 DEF StatHeader
<1>7. CASE HeadersRead
  <2>1. /\ pc = "headers" /\ i > Len(headers) /\ pc' = "access" /\ i' = 1
        /\ UNCHANGED <<compilation, times, recompile>>
    BY <1>7 DEF HeadersRead, world
  <2>2. Len(times.headers) = Len(headers) /\ Len(times.objs) = 1 - 1
    BY <1>1, <2>1, EmptySeq DEF Stages
  <2> QED
    BY <2>1, <2>2 DEF Stages, srcs, headers, JudgingSources, Running
<1>8. ASSUME NEW stale \in BOOLEAN, NEW t \in Nat, Judge(stale, t), compilation' = compilation,
             pc \in JudgingSources, i <= Len(srcs)
      PROVE  Stages'
  <2>1. PICK os \in Seq(Nat) : os = times.objs
    BY DEF Stages
  <2>2. PICK longer \in Seq(Nat) : longer = Append(os, t)
    BY AppendProperties
  <2>3. Len(longer) = Len(os) + 1 /\ Len(os) = i - 1
    BY <1>8, <2>1, <2>2, AppendProperties DEF Stages
  <2>4. times' = [times EXCEPT !.objs = longer] /\ i' = i + 1 /\ pc' = "access"
    BY <1>8, <2>1, <2>2 DEF Judge
  <2>5. /\ times' \in [headers : Seq(Nat), src : Nat, objs : Seq(Nat)]
        /\ times'.objs = longer /\ times'.headers = times.headers
    BY <2>4 DEF Stages
  <2>6. Len(longer) = i' - 1 /\ Len(longer) <= Len(srcs)
    BY <1>1, <1>8, <2>3, <2>4
  <2>7. recompile' \subseteq 1..Len(longer)
    <3>1. \A k \in 1..Len(os) : k \in 1..Len(longer)
      BY <1>1, <2>3
    <3>2. i \in 1..Len(longer)
      BY <1>1, <2>3
    <3>3. recompile' \subseteq recompile \cup {i}
      BY <1>8 DEF Judge
    <3> QED
      BY <2>1, <3>1, <3>2, <3>3 DEF Stages
  <2>8. Len(times.headers) = Len(headers)
    BY <1>8 DEF Stages
  <2> QED
    BY <1>8, <2>4, <2>5, <2>6, <2>7, <2>8 DEF Stages, srcs, headers, JudgingSources, Running
<1>9. CASE AccessObject
  <2>1. pc = "access" /\ i <= Len(srcs) /\ UNCHANGED compilation
    BY <1>9 DEF AccessObject, world
  <2>2. CASE pc' = "statsrc" /\ UNCHANGED <<i, times, recompile>>
    BY <2>1, <2>2 DEF Stages, srcs, headers, JudgingSources, Running
  <2>3. CASE Judge(TRUE, 0)
    BY <1>8, <2>1, <2>3 DEF JudgingSources
  <2> QED
    BY <1>9, <2>2, <2>3 DEF AccessObject
<1>10. CASE StatSource
  <2>1. pc = "statsrc" /\ UNCHANGED <<compilation, i, recompile>>
    BY <1>10 DEF StatSource, world
  <2>2. CASE pc' = "failed" /\ UNCHANGED times
    BY <1>3, <2>1, <2>2 DEF Resting
  <2>3. CASE pc' = "statobj" /\ times' = [times EXCEPT !.src = file[srcs[i]].time]
    <3>1. i \in 1..Len(srcs)
      BY <1>1, <2>1 DEF Stages
    <3>2. srcs[i] \in Files
      BY <2>1, <3>1, FilesInLists DEF Deciding
    <3>3. PICK t \in Nat : t = file[srcs[i]].time
      BY <3>2 DEF Clocks
    <3>4. /\ times' \in [headers : Seq(Nat), src : Nat, objs : Seq(Nat)]
          /\ times'.objs = times.objs /\ times'.headers = times.headers
      BY <2>3, <3>3 DEF Stages
    <3> QED
      BY <2>1, <2>3, <3>4 DEF Stages, srcs, headers, JudgingSources, Running
  <2> QED
    BY <1>10, <2>2, <2>3 DEF StatSource
<1>11. CASE StatObject
  <2>1. pc = "statobj" /\ UNCHANGED compilation /\ i \in 1..Len(srcs)
    BY <1>1, <1>11 DEF StatObject, world, Stages
  <2>2. CASE pc' = "failed" /\ UNCHANGED <<i, times, recompile>>
    BY <1>3, <2>1, <2>2 DEF Resting
  <2>3. CASE Judge(OutOfDate(ObjectOf(i).time), ObjectOf(i).time)
    <3>1. srcs[i] \in Files
      BY <2>1, FilesInLists DEF Deciding
    <3>2. Object(srcs[i]) \in Objects
      BY <3>1 DEF Objects
    <3>3. obj[Object(srcs[i])].time \in 0..now /\ now \in 1..MaxTime
      BY <3>2 DEF Clocks
    <3>4. PICK t \in Nat : t = ObjectOf(i).time
      BY <3>3 DEF ObjectOf
    <3>5. PICK stale \in BOOLEAN : stale = OutOfDate(t)
      BY DEF OutOfDate
    <3>6. Judge(stale, t)
      BY <2>3, <3>4, <3>5
    <3> QED
      BY <1>8, <2>1, <3>6 DEF JudgingSources
  <2> QED
    BY <1>11, <2>2, <2>3 DEF StatObject
<1>12. CASE ObjectsRead
  <2>1. /\ pc = "access" /\ i > Len(srcs) /\ pc' = "decide" /\ i' = 1
        /\ UNCHANGED <<compilation, times, recompile>>
    BY <1>12 DEF ObjectsRead, world
  <2>2. Len(times.objs) = Len(srcs)
    BY <1>1, <2>1 DEF Stages, JudgingSources
  <2> QED
    BY <2>1, <2>2 DEF Stages, srcs, headers, JudgingSources, Running
<1>13. CASE Decide
  <2>1. pc = "decide" /\ UNCHANGED <<compilation, i, times, recompile>>
    BY <1>13 DEF Decide, world
  <2>2. pc' = "uptodate" \/ pc' = "command"
    BY <1>13 DEF Decide
  <2>3. i <= Len(srcs) + 1
    BY <1>1, <2>1 DEF Stages
  <2> QED
    BY <2>1, <2>2, <2>3 DEF Stages, srcs, headers, JudgingSources, Running
<1>14. CASE StartCompile
  <2>1. pc = "command" /\ i \in recompile /\ UNCHANGED <<compilation, i, times, recompile>>
    BY <1>14 DEF StartCompile
  <2>2. pc' = "gcc" \/ pc' = "failed"
    BY <1>14 DEF StartCompile
  <2> QED
    BY <2>1, <2>2 DEF Stages, srcs, headers, JudgingSources, Running
<1>15. CASE SkipSource
  <2>1. /\ pc = "command" /\ i \in DOMAIN srcs /\ i' = i + 1 /\ pc' = pc
        /\ UNCHANGED <<compilation, times, recompile>>
    BY <1>15 DEF SkipSource, world
  <2>2. DOMAIN srcs = 1..Len(srcs)
    BY FilesInLists, LenProperties
  <2>3. i' <= Len(srcs) + 1
    BY <1>1, <2>1, <2>2
  <2> QED
    BY <2>1, <2>3 DEF Stages, srcs, headers, JudgingSources, Running
<1>16. CASE Compiled
  <2>1. /\ pc = "gcc" /\ pc' = "command" /\ i' = i + 1
        /\ UNCHANGED <<compilation, times, recompile>>
    BY <1>16 DEF Compiled
  <2>2. i \in recompile /\ recompile \subseteq 1..Len(times.objs) /\ Len(times.objs) = Len(srcs)
    BY <2>1 DEF Stages, Running
  <2>3. i' <= Len(srcs) + 1
    BY <1>1, <2>1, <2>2
  <2> QED
    BY <2>1, <2>3 DEF Stages, srcs, headers, JudgingSources, Running
<1>17. CASE StartLink
  <2>1. pc = "command" /\ i > Len(srcs) /\ UNCHANGED <<compilation, i, times, recompile>>
    BY <1>17 DEF StartLink
  <2>2. i = Len(srcs) + 1
    BY <1>1, <1>17, <2>1 DEF Stages, Running, StartLink
  <2>3. pc' = "ld" \/ pc' = "failed"
    BY <1>17 DEF StartLink
  <2> QED
    BY <2>1, <2>2, <2>3 DEF Stages, srcs, headers, JudgingSources, Running
<1>18. CASE Linked \/ CommandFails \/ Killed
  BY <1>3, <1>18 DEF Linked, CommandFails, Killed, Stop, Resting
<1>19. CASE Start
  <2>1. /\ pc' = "read" /\ i' = 1 /\ compilation' = new_compilation
        /\ times' = NoTimes /\ recompile' = {}
    BY <1>19 DEF Start
  <2>2. times' \in [headers : Seq(Nat), src : Nat, objs : Seq(Nat)]
    BY <2>1, EmptySeq DEF NoTimes
  <2>3. times'.objs = <<>> /\ times'.headers = <<>> /\ Len(times'.objs) = 0 /\ Len(srcs') = 0
    BY <2>1, EmptySeq DEF NoTimes, srcs, new_compilation
  <2> QED
    BY <2>1, <2>2, <2>3 DEF Stages, JudgingSources, Running
<1>20. CASE Tick \/ Clean \/ (\E f \in Files : Save(f) \/ Remove(f)) \/ UNCHANGED vars
  BY <1>2, <1>20 DEF Tick, Clean, Save, Remove, vars, run
<1> QED
  BY <1>4, <1>5, <1>6, <1>7, <1>9, <1>10, <1>11, <1>12, <1>13, <1>14, <1>15, <1>16,
     <1>17, <1>18, <1>19, <1>20 DEF Next, Step, User
Sound == Clocks /\ Lists /\ Stages

LEMMA SoundHolds == Spec => []Sound
<1>1. Init => Sound
  BY ClocksInit, ListsInit, StagesInit DEF Sound
<1>2. Sound /\ [Next]_vars => Sound'
  BY ClocksStep, ListsStep, StagesStep DEF Sound
<1> QED
  BY <1>1, <1>2, PTL DEF Spec

\* TypeOK, for every description, any number of words a list has room for and
\* any length of time: while a run goes on its lists are within their arrays (a
\* write past one ends it, in "overrun", which this does not exclude: see
\* OverrunHolds), a run never has more verdicts than sources, and nothing is
\* younger than the clock.
THEOREM TypeCorrect == Spec => []TypeOK
<1>1. ASSUME Sound PROVE TypeOK
  <2>1. /\ now \in 1..MaxTime /\ hasty \in BOOLEAN /\ exec.time \in 0..now
        /\ \A o \in Objects : obj[o].time \in 0..now
    BY <1>1 DEF Sound, Clocks
  <2>2. MaxTime \in Nat /\ MaxVersion \in Nat /\ now \in Nat
    BY <2>1, FakemakeAssumption DEF FakemakeAssumption
  <2>3. ASSUME NEW f \in Files
        PROVE  file[f].time \in 0..now /\ file[f].version \in 0..MaxVersion
    <3>1. /\ file[f].time \in Nat /\ file[f].version \in Nat
          /\ file[f].time <= now /\ file[f].version <= MaxVersion
      BY <1>1 DEF Sound, Clocks
    <3> QED
      BY <2>2, <3>1
  <2>4. /\ desc \in Descriptions /\ i \in Nat \ {0}
        /\ pc \in Resting \cup Reading \cup Deciding \cup Running
        /\ \A field \in ListNames : Len(compilation[field]) <= MAX_ARGS
    BY <1>1 DEF Sound, Lists
  <2>5. recompile \subseteq DOMAIN times.objs /\ Len(times.objs) <= Len(srcs)
    <3>1. times.objs \in Seq(Nat)
      BY <1>1 DEF Sound, Stages
    <3>2. DOMAIN times.objs = 1..Len(times.objs)
      BY <3>1, LenProperties
    <3> QED
      BY <1>1, <3>2 DEF Sound, Stages
  <2> QED
    BY <2>1, <2>3, <2>4, <2>5 DEF TypeOK, ListNames
<1> QED
  BY <1>1, SoundHolds, PTL

(***************************************************************************)
(* What the products are made of.                                          *)
(***************************************************************************)

HeadersOf(d) == Fitting(AllWords(d, "H", LetIn("headers")))

\* The program that the description is of.
Sources == Range(SourcesOf(desc))
Products == {Object(w) : w \in Sources}
Needed(w) == {w} \cup Range(HeadersOf(desc))
Versions(w) == [f \in Needed(w) |-> file[f].version]

IsOn(g, S) == g = [x \in S |-> g[x]]

\* A product with the time t made of the version v of f: if that is not the
\* version there is, the times tell.
Traced(v, f, t) ==
    /\ v \in Nat /\ v <= file[f].version
    /\ file[f].version = v \/ file[f].time > t \/ ~Existing(file[f])
    /\ file[f].time > t => file[f].version > v

\* What gcc makes of w is its object.
IsMade(w) == w.ext \in Languages /\ Makes(w) = Object(w)

\* An object is made of its source and the headers.
Made ==
    \A w \in Sources : Existing(obj[Object(w)]) =>
        /\ IsMade(w) /\ IsOn(obj[Object(w)].of, Needed(w))
        /\ \A f \in Needed(w) : Traced(obj[Object(w)].of[f], f, obj[Object(w)].time)
NotMade == \A o \in Objects : ~Existing(obj[o]) => obj[o].of = <<>>

\* The executable is made of what some objects of the sources were made of.
MadeExec ==
    Existing(exec) =>
        /\ IsOn(exec.of, Products)
        /\ \A w \in Sources :
              /\ IsOn(exec.of[Object(w)], Needed(w))
              /\ \A f \in Needed(w) : Traced(exec.of[Object(w)][f], f, exec.time)

\* Something that w needs is newer than its object.
NewerThan(w, t) == \E f \in Needed(w) : file[f].time > t

\* The times that get_commands has noted are those of the files, and its verdicts
\* are right.
Looked ==
    pc \in Deciding =>
        /\ \A h \in 1..Len(times.headers) :
              Existing(file[headers[h]]) /\ times.headers[h] = file[headers[h]].time
        /\ pc = "statobj" => Existing(file[srcs[i]]) /\ times.src = file[srcs[i]].time
        /\ \A k \in 1..Len(times.objs) : k \notin recompile =>
              /\ \A f \in Needed(srcs[k]) : Existing(file[f]) /\ file[f].time <= times.objs[k]
              /\ Existing(ObjectOf(k)) => ObjectOf(k).time = times.objs[k]
        /\ \A k \in recompile : Existing(ObjectOf(k)) => NewerThan(srcs[k], ObjectOf(k).time)

\* A source that has no command, or whose command is done, has its object; one
\* whose command is to come needs it.
Commanded ==
    pc \in Running =>
        /\ \A k \in 1..Len(srcs) : (k \notin recompile \/ k < i) /\ Existing(ObjectOf(k)) =>
              ObjectOf(k).of = Versions(srcs[k])
        /\ \A k \in recompile : k >= i /\ ~ListedBefore(k) /\ Existing(ObjectOf(k)) =>
              NewerThan(srcs[k], ObjectOf(k).time)
        /\ pc = "gcc" => input = Versions(srcs[i])
        /\ pc = "ld" => /\ IsOn(input, Products)
                        /\ \A w \in Sources : input[Object(w)] = Versions(w)

Honest == hasty \/ (Made /\ NotMade /\ MadeExec /\ Looked /\ Commanded)

\* While fakemake works, a change of a file makes it hasty.
LEMMA Still ==
  ASSUME Sound, [Next]_vars, ~hasty'
  PROVE  ~hasty /\ desc' = desc /\ (pc \in Deciding \cup Running => file' = file)
<1>1. CASE UNCHANGED <<hasty, desc, file>>
  BY <1>1
<1>2. ASSUME NEW f \in Files, Save(f)
      PROVE  ~hasty /\ desc' = desc /\ pc \notin Deciding \cup Running
  BY <1>2 DEF Save, Unseen, run
<1>3. ASSUME NEW f \in Files, Remove(f)
      PROVE  ~hasty /\ desc' = desc /\ pc \notin Deciding \cup Running
  BY <1>3 DEF Remove, run
<1>4. CASE ReadLine
  BY <1>1, <1>4 DEF ReadLine, add_srcs, add_headers, add_flags, add_libraries, add_exec, add,
       NextLine, Stop
<1>5. CASE EndOfDescription \/ Start \/ Killed \/ Tick \/ Clean
  BY <1>1, <1>5 DEF EndOfDescription, Start, Killed, Stop, Tick, Clean, run
<1>6. CASE \/ StatHeader \/ HeadersRead \/ AccessObject \/ StatSource \/ StatObject
           \/ ObjectsRead \/ Decide
  BY <1>1, <1>6 DEF StatHeader, HeadersRead, AccessObject, StatSource, StatObject,
       ObjectsRead, Decide, world
<1>7. CASE StartCompile \/ SkipSource \/ Compiled \/ StartLink \/ Linked \/ CommandFails
  BY <1>1, <1>7 DEF StartCompile, SkipSource, Compiled, StartLink, Linked, CommandFails, Overwrite, world
<1>8. CASE UNCHANGED vars
  BY <1>1, <1>8 DEF vars, run
<1> QED
  BY <1>2, <1>3, <1>4, <1>5, <1>6, <1>7, <1>8 DEF Next, Step, User

\* What can become of a file.
LEMMA FilesStep ==
  ASSUME Sound, [Next]_vars, ~hasty', NEW f \in Files
  PROVE  \/ file'[f] = file[f]
         \/ /\ file'[f] = [time |-> now, version |-> file[f].version + 1]
            /\ now \notin {obj[o].time : o \in Objects} \cup {exec.time}
         \/ file'[f].time = 0 /\ file'[f].version = file[f].version
<1>1. CASE file' = file
  BY <1>1
<1>2. ASSUME NEW g \in Files, Save(g)
      PROVE  \/ file'[f] = file[f]
             \/ /\ file'[f] = [time |-> now, version |-> file[f].version + 1]
                /\ now \notin {obj[o].time : o \in Objects} \cup {exec.time}
  <2>1. /\ file' = [file EXCEPT ![g] = [time |-> now, version |-> file[g].version + 1]]
        /\ now \notin {obj[o].time : o \in Objects} \cup {exec.time}
    BY <1>2 DEF Save, Unseen
  <2>2. file \in [Files -> [time : Nat, version : Nat]]
    BY DEF Sound, Clocks
  <2> QED
    BY <2>1, <2>2
<1>3. ASSUME NEW g \in Files, Remove(g)
      PROVE  \/ file'[f] = file[f]
             \/ file'[f].time = 0 /\ file'[f].version = file[f].version
  <2>1. file' = [file EXCEPT ![g].time = 0]
    BY <1>3 DEF Remove
  <2>2. file \in [Files -> [time : Nat, version : Nat]]
    BY DEF Sound, Clocks
  <2> QED
    BY <2>1, <2>2
<1>4. CASE ReadLine \/ EndOfDescription \/ Start \/ Killed \/ Tick \/ Clean
  BY <1>1, <1>4 DEF ReadLine, EndOfDescription, Start, Killed, Tick, Clean
<1>5. CASE \/ StatHeader \/ HeadersRead \/ AccessObject \/ StatSource \/ StatObject
           \/ ObjectsRead \/ Decide
  BY <1>1, <1>5 DEF StatHeader, HeadersRead, AccessObject, StatSource, StatObject,
       ObjectsRead, Decide, world
<1>6. CASE StartCompile \/ SkipSource \/ Compiled \/ StartLink \/ Linked \/ CommandFails
  BY <1>1, <1>6 DEF StartCompile, SkipSource, Compiled, StartLink, Linked, CommandFails, Overwrite, world
<1>7. CASE UNCHANGED vars
  BY <1>1, <1>7 DEF vars
<1> QED
  BY <1>2, <1>3, <1>4, <1>5, <1>6, <1>7 DEF Next, Step, User

\* What can become of an object.
LEMMA ObjectsStep ==
  ASSUME Sound, [Next]_vars, NEW o \in Objects
  PROVE  \/ obj'[o] = obj[o] \/ obj'[o] = Absent
         \/ /\ Compiled /\ o = Makes(srcs[i]) /\ srcs[i].ext \in Languages
            /\ obj'[o] = [time |-> now, of |-> input]
<1>1. CASE obj' = obj
  BY <1>1
<1>2. DOMAIN obj = Objects
  BY DEF Sound, Clocks
<1>3. CASE Compiled
  BY <1>2, <1>3 DEF Compiled
<1>4. CASE Clean
  BY <1>2, <1>4 DEF Clean
<1>5. CASE ReadLine \/ EndOfDescription \/ Start \/ Killed \/ Tick
           \/ (\E f \in Files : Save(f) \/ Remove(f))
  BY <1>1, <1>5 DEF ReadLine, EndOfDescription, Start, Killed, Tick, Save, Remove
<1>6. CASE \/ StatHeader \/ HeadersRead \/ AccessObject \/ StatSource \/ StatObject
           \/ ObjectsRead \/ Decide
  BY <1>1, <1>6 DEF StatHeader, HeadersRead, AccessObject, StatSource, StatObject,
       ObjectsRead, Decide, world
<1>7. CASE StartCompile \/ SkipSource \/ StartLink \/ Linked \/ CommandFails
  BY <1>1, <1>7 DEF StartCompile, SkipSource, StartLink, Linked, CommandFails, world
<1>8. CASE UNCHANGED vars
  BY <1>1, <1>8 DEF vars
<1> QED
  BY <1>3, <1>4, <1>5, <1>6, <1>7, <1>8 DEF Next, Step, User

\* What can become of the executable.
LEMMA ExecStep ==
  ASSUME [Next]_vars
  PROVE  \/ exec' = exec \/ exec' = Absent
         \/ Linked /\ exec' = [time |-> now, of |-> input]
<1>1. CASE exec' = exec
  BY <1>1
<1>2. CASE Linked \/ CommandFails \/ Clean
  BY <1>2 DEF Linked, CommandFails, Overwrite, Clean
<1>3. CASE ReadLine \/ EndOfDescription \/ Start \/ Killed \/ Tick
           \/ (\E f \in Files : Save(f) \/ Remove(f))
  BY <1>1, <1>3 DEF ReadLine, EndOfDescription, Start, Killed, Tick, Save, Remove
<1>4. CASE \/ StatHeader \/ HeadersRead \/ AccessObject \/ StatSource \/ StatObject
           \/ ObjectsRead \/ Decide
  BY <1>1, <1>4 DEF StatHeader, HeadersRead, AccessObject, StatSource, StatObject,
       ObjectsRead, Decide, world
<1>5. CASE StartCompile \/ SkipSource \/ Compiled \/ StartLink
  BY <1>1, <1>5 DEF StartCompile, SkipSource, Compiled, StartLink, world
<1>6. CASE UNCHANGED vars
  BY <1>1, <1>6 DEF vars
<1> QED
  BY <1>2, <1>3, <1>4, <1>5, <1>6 DEF Next, Step, User

\* What was made is still traced after any step that is not hasty.
LEMMA TracedStep ==
  ASSUME Sound, [Next]_vars, ~hasty', NEW f \in Files, NEW v, NEW t \in 0..now,
         t \in {obj[o].time : o \in Objects} \cup {exec.time}, Traced(v, f, t)
  PROVE  Traced(v, f, t)'
<1>1. /\ file[f].time \in Nat /\ file[f].version \in Nat
      /\ now \in Nat \ {0} /\ t \in Nat /\ t <= now
  <2>1. file[f].time \in Nat /\ file[f].version \in Nat
    BY DEF Sound, Clocks
  <2>2. now \in 1..MaxTime /\ MaxTime \in Nat
    BY FakemakeAssumption DEF Sound, Clocks, FakemakeAssumption
  <2> QED
    BY <2>1, <2>2
<1>2. /\ v \in Nat /\ v <= file[f].version
      /\ file[f].version = v \/ file[f].time > t \/ file[f].time = 0
      /\ file[f].time > t => file[f].version > v
  BY DEF Traced, Existing
<1>3. SUFFICES /\ v <= file'[f].version
               /\ file'[f].version = v \/ file'[f].time > t \/ file'[f].time = 0
               /\ file'[f].time > t => file'[f].version > v
  BY <1>2 DEF Traced, Existing
<1>4. CASE file'[f] = file[f]
  BY <1>2, <1>4
<1>5. CASE /\ file'[f] = [time |-> now, version |-> file[f].version + 1]
           /\ now \notin {obj[o].time : o \in Objects} \cup {exec.time}
  <2>1. t # now /\ file'[f].time = now /\ file'[f].version = file[f].version + 1
    BY <1>5
  <2> QED
    BY <1>1, <1>2, <2>1
<1>6. CASE file'[f].time = 0 /\ file'[f].version = file[f].version
  <2>1. ~(0 > t)
    BY <1>1
  <2> QED
    BY <1>2, <1>6, <2>1
<1> QED
  BY <1>4, <1>5, <1>6, FilesStep

\* What is made now is traced.
LEMMA TracedNow ==
  ASSUME Sound, NEW f \in Files
  PROVE  Traced(file[f].version, f, now)
<1>1. file[f].time \in Nat /\ file[f].version \in Nat /\ file[f].time <= now
  BY DEF Sound, Clocks
<1>2. now \in Nat
  BY FakemakeAssumption DEF Sound, Clocks, FakemakeAssumption
<1>3. ~(file[f].time > now) /\ file[f].version <= file[f].version
  BY <1>1, <1>2
<1> QED
  BY <1>1, <1>3 DEF Traced
LEMMA SourcesAreFiles ==
  ASSUME Sound
  PROVE  /\ Sources \subseteq Files /\ \A w \in Sources : Object(w) \in Objects
         /\ \A w \in Sources : Needed(w) \subseteq Files /\ w \in Needed(w)
<1>1. desc \in Descriptions
  BY DEF Sound, Lists
<1>2. KindOf("srcs") = "C" /\ KindOf("headers") = "H"
  BY DEF KindOf
<1>3. PICK s : s = SourcesOf(desc)
  OBVIOUS
<1>4. PICK hs : hs = HeadersOf(desc)
  OBVIOUS
<1>5. desc \in Seq(Line) /\ s \in Seq(Word) /\ hs \in Seq(Word)
  <2>1. desc \in Seq(Line)
    BY <1>1, FakemakeAssumption DEF FakemakeAssumption
  <2>2. Len(desc) \in 0..Len(desc)
    BY <2>1, LenProperties
  <2>3. "srcs" \in ListNames /\ "headers" \in ListNames
    BY DEF ListNames
  <2>4. AllWords(desc, "C", LetIn("srcs")) \in Seq(Word)
    BY <2>1, <2>2, <2>3, WordsIs DEF AllWords
  <2>5. AllWords(desc, "H", LetIn("headers")) \in Seq(Word)
    BY <2>1, <2>2, <2>3, WordsIs DEF AllWords
  <2> QED
    BY <1>3, <1>4, <2>1, <2>4, <2>5, FittingIs DEF SourcesOf, HeadersOf
<1>6. DOMAIN s = 1..Len(s) /\ DOMAIN hs = 1..Len(hs)
  BY <1>5, LenProperties
<1>7. \A k \in 1..Len(s) : s[k] \in Files
  BY <1>1, <1>2, <1>3, ListedAreFiles DEF SourcesOf
<1>8. \A k \in 1..Len(hs) : hs[k] \in Files
  BY <1>1, <1>2, <1>4, ListedAreFiles DEF HeadersOf
<1>9. Sources \subseteq Files
  BY <1>3, <1>6, <1>7 DEF Sources, Range
<1>10. Range(HeadersOf(desc)) \subseteq Files
  BY <1>4, <1>6, <1>8 DEF Range
<1> QED
  BY <1>9, <1>10 DEF Needed, Objects

\* The lists of get_commands are the program's.
LEMMA InProject ==
  ASSUME Sound, pc \in Deciding \cup Running
  PROVE  /\ Sources = {srcs[k] : k \in 1..Len(srcs)}
         /\ Range(srcs) = Sources /\ LinkCommand = Products
         /\ Range(headers) = Range(HeadersOf(desc))
         /\ Range(headers) = {headers[h] : h \in 1..Len(headers)}
<1>1. srcs = SourcesOf(desc) /\ headers = HeadersOf(desc)
  <2>1. KindOf("srcs") = "C" /\ KindOf("headers") = "H" /\ {"srcs", "headers"} \subseteq ListNames
    BY DEF KindOf, ListNames
  <2>2. \A list \in ListNames :
           compilation[list] = Fitting(AllWords(desc, KindOf(list), LetIn(list)))
    BY DEF Sound, Lists
  <2>3. /\ compilation["srcs"] = Fitting(AllWords(desc, "C", LetIn("srcs")))
        /\ compilation["headers"] = Fitting(AllWords(desc, "H", LetIn("headers")))
    BY <2>1, <2>2
  <2> QED
    BY <2>3 DEF srcs, headers, SourcesOf, HeadersOf
<1>2. DOMAIN srcs = 1..Len(srcs) /\ DOMAIN headers = 1..Len(headers)
  BY FilesInLists, LenProperties DEF Sound
<1>3. Range(srcs) = Sources /\ Range(headers) = Range(HeadersOf(desc))
  BY <1>1 DEF Sources
<1>4. Range(srcs) = {srcs[k] : k \in 1..Len(srcs)}
  BY <1>2 DEF Range
<1>5. Range(headers) = {headers[h] : h \in 1..Len(headers)}
  BY <1>2 DEF Range
<1>6. LinkCommand = Products
  <2>1. LinkCommand = {Object(srcs[k]) : k \in 1..Len(srcs)}
    BY <1>2 DEF LinkCommand
  <2> QED
    BY <1>3, <1>4, <2>1 DEF Products
<1> QED
  BY <1>3, <1>4, <1>5, <1>6

\* What gcc finds are the versions.
LEMMA ContentsAreVersions ==
  ASSUME Sound, pc \in Deciding \cup Running, NEW w
  PROVE  Contents(w) = Versions(w) /\ {w} \cup Range(headers) = Needed(w)
<1>1. {w} \cup Range(headers) = Needed(w)
  BY InProject DEF Needed
<1> QED
  BY <1>1 DEF Contents, Versions

LEMMA MadeStep ==
  ASSUME OneObjectEach, Sound, ~hasty', [Next]_vars, Made, Commanded
  PROVE  Made'
<1>1. desc' = desc /\ Sources' = Sources /\ desc \in Descriptions
  BY Still DEF Sources, Sound, Lists
<1>2. SUFFICES ASSUME NEW w \in Sources, Existing(obj'[Object(w)])
               PROVE  /\ IsMade(w) /\ IsOn(obj'[Object(w)].of, Needed(w))
                      /\ \A f \in Needed(w) :
                           Traced(obj[Object(w)].of[f], f, obj[Object(w)].time)'
  BY <1>1 DEF Made, Needed, IsOn
<1>3. PICK o \in Objects : o = Object(w)
  BY SourcesAreFiles
<1>4. CASE obj'[o] = obj[o]
  <2>1. Existing(obj[o])
    BY <1>2, <1>3, <1>4 DEF Existing
  <2>2. /\ IsMade(w) /\ IsOn(obj[o].of, Needed(w))
        /\ \A f \in Needed(w) : Traced(obj[o].of[f], f, obj[o].time)
    BY <1>3, <2>1 DEF Made
  <2>3. ASSUME NEW f \in Needed(w) PROVE Traced(obj[o].of[f], f, obj[o].time)'
    <3>1. PICK v : v = obj[o].of[f]
      OBVIOUS
    <3>2. PICK t \in 0..now : t = obj[o].time
      BY DEF Sound, Clocks
    <3>3. f \in Files
      BY SourcesAreFiles
    <3>4. Traced(v, f, t)'
      BY <2>2, <3>1, <3>2, <3>3, TracedStep
    <3> QED
      BY <1>4, <3>1, <3>2, <3>4 DEF Traced
  <2> QED
    BY <1>3, <1>4, <2>2, <2>3
<1>5. CASE obj'[o] = Absent
  BY <1>2, <1>3, <1>5 DEF Existing, Absent
<1>6. CASE /\ Compiled /\ o = Makes(srcs[i]) /\ srcs[i].ext \in Languages
           /\ obj'[o] = [time |-> now, of |-> input]
  <2>1. pc = "gcc" /\ file' = file
    BY <1>6 DEF Compiled
  <2>2. i \in 1..Len(srcs)
    <3>1. i \in recompile /\ recompile \subseteq 1..Len(times.objs) /\ Len(times.objs) = Len(srcs)
      BY <2>1 DEF Sound, Stages, Running
    <3> QED
      BY <3>1
  <2>3. srcs[i] \in Sources
    BY <2>1, <2>2, InProject DEF Running
  <2>4. srcs[i] = w
    BY <1>1, <1>3, <1>6, <2>3 DEF OneObjectEach, Sources
  <2>5. input = Versions(w)
    BY <2>1, <2>4 DEF Commanded, Running
  <2>6. obj'[o].of = [f \in Needed(w) |-> file[f].version] /\ obj'[o].time = now
    BY <1>6, <2>5 DEF Versions
  <2>7. ASSUME NEW f \in Needed(w) PROVE Traced(obj[o].of[f], f, obj[o].time)'
    <3>1. f \in Files
      BY SourcesAreFiles
    <3>2. Traced(file[f].version, f, now)
      BY <3>1, TracedNow
    <3>3. obj'[o].of[f] = file[f].version
      BY <2>6
    <3> QED
      BY <2>1, <2>6, <3>2, <3>3 DEF Traced
  <2>8. IsOn(obj'[o].of, Needed(w)) /\ IsMade(w)
    BY <1>3, <1>6, <2>4, <2>6 DEF IsOn, IsMade
  <2> QED
    BY <1>3, <1>6, <2>4, <2>7, <2>8
<1> QED
  BY <1>4, <1>5, <1>6, ObjectsStep

LEMMA NotMadeStep ==
  ASSUME Sound, [Next]_vars, NotMade PROVE NotMade'
<1>1. Objects' = Objects
  BY DEF Objects
<1>2. SUFFICES ASSUME NEW o \in Objects, ~Existing(obj'[o]) PROVE obj'[o].of = <<>>
  BY <1>1 DEF NotMade
<1>3. CASE obj'[o] = obj[o]
  BY <1>2, <1>3 DEF NotMade
<1>4. CASE obj'[o] = Absent
  BY <1>4 DEF Absent
<1>5. CASE obj'[o] = [time |-> now, of |-> input]
  <2>1. now \in 1..MaxTime /\ obj'[o].time = now
    BY <1>5 DEF Sound, Clocks
  <2>2. now # 0
    BY <2>1, FakemakeAssumption DEF FakemakeAssumption
  <2> QED
    BY <1>2, <2>1, <2>2 DEF Existing
<1> QED
  BY <1>3, <1>4, <1>5, ObjectsStep

LEMMA MadeExecStep ==
  ASSUME Sound, ~hasty', [Next]_vars, MadeExec, Commanded
  PROVE  MadeExec'
<1>1. desc' = desc /\ Sources' = Sources /\ Products' = Products
  BY Still DEF Sources, Products
<1>2. SUFFICES ASSUME Existing(exec')
               PROVE  /\ IsOn(exec'.of, Products)
                      /\ \A w \in Sources :
                           /\ IsOn(exec'.of[Object(w)], Needed(w))
                           /\ \A f \in Needed(w) :
                                Traced(exec.of[Object(w)][f], f, exec.time)'
  BY <1>1 DEF MadeExec, Needed, IsOn
<1>3. CASE exec' = exec
  <2>1. Existing(exec)
    BY <1>2, <1>3 DEF Existing
  <2>2. /\ IsOn(exec.of, Products)
        /\ \A w \in Sources :
              /\ IsOn(exec.of[Object(w)], Needed(w))
              /\ \A f \in Needed(w) : Traced(exec.of[Object(w)][f], f, exec.time)
    BY <2>1 DEF MadeExec
  <2>3. ASSUME NEW w \in Sources, NEW f \in Needed(w)
        PROVE  Traced(exec.of[Object(w)][f], f, exec.time)'
    <3>1. PICK v : v = exec.of[Object(w)][f]
      OBVIOUS
    <3>2. PICK t \in 0..now : t = exec.time
      BY DEF Sound, Clocks
    <3>3. f \in Files
      BY SourcesAreFiles
    <3>4. Traced(v, f, t)'
      BY <2>2, <3>1, <3>2, <3>3, TracedStep
    <3> QED
      BY <1>3, <3>1, <3>2, <3>4 DEF Traced
  <2> QED
    BY <1>3, <2>2, <2>3
<1>4. CASE exec' = Absent
  BY <1>2, <1>4 DEF Existing, Absent
<1>5. CASE Linked /\ exec' = [time |-> now, of |-> input]
  <2>1. pc = "ld" /\ file' = file /\ exec'.of = input /\ exec'.time = now
    BY <1>5, Still DEF Linked, Running
  <2>2. IsOn(input, Products) /\ \A w \in Sources : input[Object(w)] = Versions(w)
    BY <2>1 DEF Commanded, Running
  <2>3. ASSUME NEW w \in Sources
        PROVE  /\ IsOn(exec'.of[Object(w)], Needed(w))
               /\ \A f \in Needed(w) : Traced(exec.of[Object(w)][f], f, exec.time)'
    <3>1. exec'.of[Object(w)] = [f \in Needed(w) |-> file[f].version]
      BY <2>1, <2>2 DEF Versions
    <3>2. ASSUME NEW f \in Needed(w) PROVE Traced(exec.of[Object(w)][f], f, exec.time)'
      <4>1. f \in Files
        BY SourcesAreFiles
      <4>2. Traced(file[f].version, f, now)
        BY <4>1, TracedNow
      <4>3. exec'.of[Object(w)][f] = file[f].version
        BY <3>1
      <4> QED
        BY <2>1, <4>2, <4>3 DEF Traced
    <3> QED
      BY <3>1, <3>2 DEF IsOn
  <2> QED
    BY <2>1, <2>2, <2>3
<1> QED
  BY <1>3, <1>4, <1>5, ExecStep

\* Only gcc makes an object.
LEMMA ObjectsLeft ==
  ASSUME Sound, [Next]_vars, ~Compiled, NEW o \in Objects, Existing(obj'[o])
  PROVE  obj'[o] = obj[o]
<1>1. obj'[o] # Absent
  BY DEF Existing, Absent
<1> QED
  BY <1>1, ObjectsStep

LEMMA LookedStep ==
  ASSUME Sound, ~hasty', [Next]_vars, Looked
  PROVE  Looked'
<1>1. SUFFICES ASSUME pc' \in Deciding PROVE Looked'
  BY DEF Looked
<1>2. /\ desc' = desc /\ (pc \in Deciding \cup Running => file' = file)
      /\ i \in Nat \ {0} /\ Len(srcs) \in Nat
  BY Still, FilesInLists, FakemakeAssumption DEF Sound, Lists, FakemakeAssumption
<1>3. ASSUME pc \in Deciding, NEW k \in 1..Len(srcs)
      PROVE  srcs[k] \in Files /\ Object(srcs[k]) \in Objects
  BY <1>3, FilesInLists DEF Sound, Objects
<1>4. ASSUME pc \in Deciding, compilation' = compilation, NEW k \in 1..Len(srcs), Existing(ObjectOf(k)')
      PROVE  ObjectOf(k)' = ObjectOf(k)
  <2>1. ~Compiled
    BY <1>4 DEF Compiled, Deciding
  <2>2. PICK o \in Objects : o = Object(srcs[k])
    BY <1>3, <1>4
  <2>3. ObjectOf(k)' = obj'[o] /\ ObjectOf(k) = obj[o]
    BY <1>4, <2>2 DEF ObjectOf, srcs
  <2> QED
    BY <1>4, <2>1, <2>3, ObjectsLeft
<1>5. \A k \in 1..Len(times.objs) : k \in 1..Len(srcs)
  <2>1. Len(times.objs) <= Len(srcs) /\ Len(times.objs) \in Nat
    BY LenProperties DEF Sound, Stages
  <2> QED
    BY <1>2, <2>1
<1>6. recompile \subseteq 1..Len(times.objs)
  BY DEF Sound, Stages
<1>7. ASSUME pc \in Deciding, UNCHANGED <<compilation, recompile>>,
             \/ times' = times
             \/ times' = [times EXCEPT !.src = file[srcs[i]].time],
             pc' = "statobj" => Existing(file[srcs[i']]) /\ times'.src = file[srcs[i']].time
      PROVE  Looked'
  <2>1. file' = file /\ srcs' = srcs /\ headers' = headers
    BY <1>2, <1>7 DEF srcs, headers
  <2>2. times'.headers = times.headers /\ times'.objs = times.objs
    BY <1>7 DEF Sound, Stages
  <2>3. \A h \in 1..Len(times.headers) :
           Existing(file[headers[h]]) /\ times.headers[h] = file[headers[h]].time
    BY <1>7 DEF Looked
  <2>4. ASSUME NEW k \in 1..Len(times.objs), k \notin recompile
        PROVE  /\ \A f \in Needed(srcs[k]) : Existing(file[f]) /\ file[f].time <= times.objs[k]
               /\ Existing(ObjectOf(k)') => ObjectOf(k)'.time = times.objs[k]
    BY <1>4, <1>5, <1>7, <2>4 DEF Looked
  <2>5. ASSUME NEW k \in recompile, Existing(ObjectOf(k)')
        PROVE  NewerThan(srcs[k], ObjectOf(k)'.time)
    <3>1. ObjectOf(k)' = ObjectOf(k)
      BY <1>4, <1>5, <1>6, <1>7, <2>5
    <3> QED
      BY <1>7, <2>5, <3>1 DEF Looked
  <2> QED
    BY <1>2, <1>7, <2>1, <2>2, <2>3, <2>4, <2>5 DEF Looked, NewerThan, Needed
<1>8. CASE UNCHANGED <<run, file>>
  <2>1. UNCHANGED <<pc, compilation, i, times, recompile, file>>
    BY <1>8 DEF run
  <2>2. pc = "statobj" => Existing(file[srcs[i]]) /\ times.src = file[srcs[i]].time
    BY <1>1, <2>1 DEF Looked
  <2> QED
    BY <1>1, <1>7, <2>1, <2>2
<1>9. CASE EndOfDescription
  <2>1. pc = "read" /\ pc' = "headers" /\ UNCHANGED <<times, recompile>>
    BY <1>1, <1>9 DEF EndOfDescription, Deciding
  <2>2. times.headers = <<>> /\ times.objs = <<>> /\ recompile \subseteq 1..Len(times.objs)
    BY <2>1 DEF Sound, Stages
  <2>3. Len(times'.headers) = 0 /\ Len(times'.objs) = 0 /\ recompile' = {}
    BY <2>1, <2>2, EmptySeq
  <2> QED
    BY <2>1, <2>3 DEF Looked
<1>10. CASE StatHeader
  <2>1. /\ pc = "headers" /\ i \in 1..Len(headers) /\ Existing(file[headers[i]])
        /\ times' = [times EXCEPT !.headers = Append(times.headers, file[headers[i]].time)]
        /\ pc' = "headers" /\ UNCHANGED <<compilation, recompile>>
    <3>1. pc' # "failed"
      BY <1>1 DEF Deciding
    <3>2. Len(headers) \in Nat
      BY FilesInLists, FakemakeAssumption DEF Sound, FakemakeAssumption
    <3> QED
      BY <1>2, <1>10, <3>1, <3>2 DEF StatHeader, world
  <2>2. file' = file /\ headers' = headers
    BY <1>2, <2>1 DEF Deciding, headers
  <2>3. headers[i] \in Files
    BY <2>1, FilesInLists DEF Sound, Deciding
  <2>4. PICK t \in Nat : t = file[headers[i]].time
    BY <2>3 DEF Sound, Clocks
  <2>5. PICK hs \in Seq(Nat) : hs = times.headers
    BY DEF Sound, Stages
  <2>6. PICK longer \in Seq(Nat) : longer = Append(hs, t)
    BY AppendProperties
  <2>7. times'.headers = longer /\ times'.objs = times.objs
    BY <2>1, <2>4, <2>5, <2>6 DEF Sound, Stages
  <2>8. Len(hs) = i - 1 /\ times.objs = <<>>
    BY <2>1, <2>5 DEF Sound, Stages
  <2>9. Len(longer) = i /\ longer[i] = t /\ \A h \in 1..i - 1 : longer[h] = hs[h]
    <3>1. Len(hs) + 1 = i
      BY <2>1, <2>8
    <3> QED
      BY <2>6, <2>8, <3>1, AppendProperties
  <2>10. ASSUME NEW h \in 1..Len(longer)
         PROVE  Existing(file[headers[h]]) /\ longer[h] = file[headers[h]].time
    <3>1. CASE h = i
      BY <2>1, <2>4, <2>9, <3>1
    <3>2. CASE h # i
      <4>1. h \in 1..i - 1 /\ h \in 1..Len(hs)
        BY <2>1, <2>8, <2>9, <3>2
      <4> QED
        BY <2>1, <2>5, <2>9, <4>1 DEF Looked, Deciding
    <3> QED
      BY <3>1, <3>2
  <2>11. Len(times'.objs) = 0 /\ recompile' = {}
    BY <2>1, <2>7, <2>8, <1>6, EmptySeq
  <2> QED
    BY <2>1, <2>2, <2>7, <2>10, <2>11, SMTT(60) DEF Looked
<1>11. ASSUME NEW stale \in BOOLEAN, NEW t \in Nat, Judge(stale, t), obj' = obj,
              compilation' = compilation, pc \in JudgingSources, i <= Len(srcs),
              stale /\ Existing(ObjectOf(i)) => NewerThan(srcs[i], ObjectOf(i).time),
              ~stale => /\ \A f \in Needed(srcs[i]) : Existing(file[f]) /\ file[f].time <= t
                        /\ ObjectOf(i).time = t
       PROVE  Looked'
  <2>1. /\ pc \in Deciding /\ file' = file /\ srcs' = srcs /\ headers' = headers
        /\ \A k : ObjectOf(k)' = ObjectOf(k)
    BY <1>2, <1>11 DEF JudgingSources, Deciding, srcs, headers, ObjectOf
  <2>2. PICK os \in Seq(Nat) : os = times.objs
    BY DEF Sound, Stages
  <2>3. PICK longer \in Seq(Nat) : longer = Append(os, t)
    BY AppendProperties
  <2>4. /\ times' = [times EXCEPT !.objs = longer] /\ pc' = "access"
        /\ recompile' = IF stale THEN recompile \cup {i} ELSE recompile
    BY <1>11, <2>2, <2>3 DEF Judge
  <2>5. times'.headers = times.headers /\ times'.objs = longer
    BY <2>4 DEF Sound, Stages
  <2>6. Len(os) = i - 1 /\ recompile \subseteq 1..Len(os)
    BY <1>11, <2>2 DEF Sound, Stages
  <2>7. Len(longer) = i /\ longer[i] = t /\ \A k \in 1..i - 1 : longer[k] = os[k]
    <3>1. Len(os) + 1 = i
      BY <1>2, <2>6
    <3> QED
      BY <2>3, <2>6, <3>1, AppendProperties
  <2>8. ASSUME NEW k \in 1..Len(longer), k \notin recompile'
        PROVE  /\ \A f \in Needed(srcs[k]) : Existing(file[f]) /\ file[f].time <= longer[k]
               /\ Existing(ObjectOf(k)) => ObjectOf(k).time = longer[k]
    <3>1. CASE k = i
      <4>1. ~stale
        BY <2>4, <2>8, <3>1
      <4> QED
        BY <1>11, <2>7, <3>1, <4>1
    <3>2. CASE k # i
      <4>1. k \in 1..i - 1 /\ k \in 1..Len(os)
        BY <1>2, <2>6, <2>7, <3>2
      <4>2. k \notin recompile
        BY <2>4, <2>8
      <4> QED
        BY <2>1, <2>2, <2>7, <4>1, <4>2 DEF Looked
    <3> QED
      BY <3>1, <3>2
  <2>9. ASSUME NEW k \in recompile', Existing(ObjectOf(k))
        PROVE  NewerThan(srcs[k], ObjectOf(k).time)
    <3>1. CASE k \in recompile
      BY <2>1, <2>9, <3>1 DEF Looked
    <3>2. CASE stale /\ k = i
      BY <1>11, <2>9, <3>2
    <3> QED
      BY <2>4, <3>1, <3>2
  <2>10. \A h \in 1..Len(times.headers) :
            Existing(file[headers[h]]) /\ times.headers[h] = file[headers[h]].time
    BY <2>1 DEF Looked
  <2> QED
    BY <1>2, <2>1, <2>4, <2>5, <2>8, <2>9, <2>10 DEF Looked, NewerThan, Needed
<1>12. CASE HeadersRead \/ ObjectsRead
  <2>1. pc \in Deciding /\ pc' # "statobj" /\ UNCHANGED <<compilation, recompile, times>>
    BY <1>12 DEF HeadersRead, ObjectsRead, world, Deciding
  <2> QED
    BY <1>7, <2>1
<1>13. CASE AccessObject
  <2>1. pc = "access" /\ i <= Len(srcs) /\ UNCHANGED <<compilation, obj>>
    BY <1>13 DEF AccessObject, world
  <2>2. CASE pc' = "statsrc" /\ UNCHANGED <<i, times, recompile>>
    BY <1>7, <2>1, <2>2 DEF Deciding
  <2>3. CASE Judge(TRUE, 0) /\ ~Existing(ObjectOf(i))
    BY <1>11, <2>1, <2>3 DEF JudgingSources
  <2> QED
    BY <1>13, <2>2, <2>3 DEF AccessObject
<1>14. CASE StatSource
  <2>1. /\ pc = "statsrc" /\ Existing(file[srcs[i]]) /\ pc' = "statobj"
        /\ times' = [times EXCEPT !.src = file[srcs[i]].time] /\ UNCHANGED <<compilation, i, recompile>>
    BY <1>1, <1>14 DEF StatSource, world, Deciding
  <2>2. times'.src = file[srcs[i]].time
    BY <2>1 DEF Sound, Stages
  <2> QED
    BY <1>7, <2>1, <2>2 DEF Deciding
<1>15. CASE StatObject
  <2>1. /\ pc = "statobj" /\ UNCHANGED <<compilation, obj>> /\ i \in 1..Len(srcs)
        /\ Judge(OutOfDate(ObjectOf(i).time), ObjectOf(i).time)
    <3>1. pc' # "failed" /\ (pc = "statobj" => i <= Len(srcs))
      BY <1>1 DEF Deciding, Sound, Stages
    <3> QED
      BY <1>2, <1>15, <3>1 DEF StatObject, world
  <2>2. Object(srcs[i]) \in Objects
    BY <1>3, <2>1 DEF Deciding
  <2>3. PICK t \in Nat : t = ObjectOf(i).time
    <3>1. obj[Object(srcs[i])].time \in 0..now /\ now \in 1..MaxTime
      BY <2>2 DEF Sound, Clocks
    <3> QED
      BY <3>1 DEF ObjectOf
  <2>4. PICK stale \in BOOLEAN : stale = OutOfDate(t)
    BY DEF OutOfDate
  <2>5. /\ Existing(file[srcs[i]]) /\ times.src = file[srcs[i]].time
        /\ \A h \in 1..Len(headers) :
              Existing(file[headers[h]]) /\ times.headers[h] = file[headers[h]].time
    <3>1. Len(times.headers) = Len(headers)
      BY <2>1 DEF Sound, Stages, JudgingSources
    <3> QED
      BY <2>1, <3>1 DEF Looked, Deciding
  <2>6. DOMAIN times.headers = 1..Len(headers)
    <3>1. Len(times.headers) = Len(headers)
      BY <2>1 DEF Sound, Stages, JudgingSources
    <3>2. times.headers \in Seq(Nat)
      BY DEF Sound, Stages
    <3> QED
      BY <3>1, <3>2, LenProperties
  <2>7. \A f : f \in Needed(srcs[i]) <=> f = srcs[i] \/ \E h \in 1..Len(headers) : f = headers[h]
    <3>1. Needed(srcs[i]) = {srcs[i]} \cup {headers[h] : h \in 1..Len(headers)}
      BY <2>1, InProject DEF Needed, Deciding
    <3> QED
      BY <3>1
  <2>8. ASSUME stale PROVE NewerThan(srcs[i], t)
    <3>1. times.src > t \/ \E h \in 1..Len(headers) : times.headers[h] > t
      BY <2>4, <2>6, <2>8 DEF OutOfDate
    <3> QED
      BY <2>5, <2>7, <3>1 DEF NewerThan
  <2>9. ASSUME ~stale, NEW f \in Needed(srcs[i])
        PROVE  Existing(file[f]) /\ file[f].time <= t
    <3>1. ~(times.src > t) /\ \A h \in 1..Len(headers) : ~(times.headers[h] > t)
      BY <2>4, <2>6, <2>9 DEF OutOfDate
    <3>2. Existing(file[f]) /\ ~(file[f].time > t)
      BY <2>5, <2>7, <2>9, <3>1
    <3>3. f \in Files
      <4>1. srcs[i] \in Sources
        BY <2>1, InProject DEF Deciding
      <4> QED
        BY <2>9, <4>1, SourcesAreFiles
    <3>4. file[f].time \in Nat
      BY <3>3 DEF Sound, Clocks
    <3> QED
      BY <3>2, <3>4
  <2>10. Judge(stale, t) /\ pc \in JudgingSources /\ i <= Len(srcs)
    BY <1>2, <2>1, <2>3, <2>4 DEF JudgingSources
  <2> QED
    BY <1>11, <2>1, <2>3, <2>8, <2>9, <2>10
<1>16. CASE ReadLine
  <2>1. pc' = "read" \/ pc' \in Resting
    BY <1>16 DEF ReadLine, add_srcs, add_headers, add_flags, add_libraries, add_exec, add,
         NextLine, Stop, Resting
  <2> QED
    BY <1>1, <2>1 DEF Deciding, Resting
<1>17. CASE Decide \/ StartCompile \/ SkipSource \/ Compiled
  BY <1>1, <1>17 DEF Decide, StartCompile, SkipSource, Compiled, Deciding
<1>18. CASE StartLink \/ Linked \/ CommandFails \/ Killed \/ Start
  BY <1>1, <1>18 DEF StartLink, Linked, CommandFails, Killed, Stop, Start, Deciding
<1>19. CASE Tick \/ Clean \/ (\E f \in Files : Save(f) \/ Remove(f)) \/ UNCHANGED vars
  <2>1. run' = run
    BY <1>19 DEF Tick, Clean, Save, Remove, vars
  <2>2. pc \in Deciding
    BY <1>1, <2>1 DEF run
  <2> QED
    BY <1>2, <1>8, <2>1, <2>2
<1> QED
  BY <1>9, <1>10, <1>12, <1>13, <1>14, <1>15, <1>16, <1>17, <1>18, <1>19 DEF Next, Step, User

\* The name recovered from a command is its source.
LEMMA NameRecovered ==
  ASSUME Sound, NEW k \in 1..Len(srcs)
  PROVE  recover_fname_from_command(CompileCommand(k)) = srcs[k]
<1>1. PICK w \in Word : w = srcs[k]
  BY FilesInLists, ElementOfSeq DEF Sound
<1>2. PICK flags \in Seq(Word) : flags = compilation["flag_list"]
  BY DEF Sound, Lists, ListNames
<1>3. Append(flags, w)[Len(flags) + 1] = w /\ Len(Append(flags, w)) = Len(flags) + 1
  BY AppendProperties
<1>4. CompileCommand(k) = Append(flags, w)
  BY <1>1, <1>2 DEF CompileCommand
<1> QED
  BY <1>1, <1>3, <1>4 DEF recover_fname_from_command

LEMMA CommandedStep ==
  ASSUME OneObjectEach, Sound, ~hasty', [Next]_vars, Made, Looked, Commanded
  PROVE  Commanded'
<1>1. SUFFICES ASSUME pc' \in Running PROVE Commanded'
  BY DEF Commanded
<1>2. /\ desc' = desc /\ (pc \in Deciding \cup Running => file' = file)
      /\ i \in Nat \ {0} /\ Len(srcs) \in Nat /\ desc \in Descriptions
  BY Still, FilesInLists, FakemakeAssumption DEF Sound, Lists, FakemakeAssumption
<1>3. ASSUME pc \in Deciding \cup Running, NEW k \in 1..Len(srcs)
      PROVE  srcs[k] \in Sources /\ srcs[k] \in Files /\ Object(srcs[k]) \in Objects
  BY <1>3, FilesInLists, InProject DEF Sound, Objects
<1>4. ASSUME pc \in Deciding \cup Running, compilation' = compilation, ~Compiled,
             NEW k \in 1..Len(srcs), Existing(ObjectOf(k)')
      PROVE  ObjectOf(k)' = ObjectOf(k)
  <2>1. PICK o \in Objects : o = Object(srcs[k])
    BY <1>3, <1>4
  <2>2. ObjectOf(k)' = obj'[o] /\ ObjectOf(k) = obj[o]
    BY <1>4, <2>1 DEF ObjectOf, srcs
  <2> QED
    BY <1>4, <2>2, ObjectsLeft
<1>5. recompile \subseteq 1..Len(times.objs) /\ \A k \in 1..Len(times.objs) : k \in 1..Len(srcs)
  <2>1. Len(times.objs) <= Len(srcs) /\ Len(times.objs) \in Nat
    BY LenProperties DEF Sound, Stages
  <2>2. \A k \in 1..Len(times.objs) : k \in 1..Len(srcs)
    BY <1>2, <2>1
  <2> QED
    BY <2>2 DEF Sound, Stages
<1>6. ASSUME pc \in Running, ~Compiled, UNCHANGED <<compilation, recompile>>,
             i' = i \/ (i' = i + 1 /\ i \notin recompile),
             pc' = "gcc" => input' = Versions(srcs[i']),
             pc' = "ld" => /\ IsOn(input', Products)
                           /\ \A w \in Sources : input'[Object(w)] = Versions(w)
      PROVE  Commanded'
  <2>1. /\ file' = file /\ srcs' = srcs /\ headers' = headers
        /\ Sources' = Sources /\ Products' = Products
    BY <1>2, <1>6 DEF srcs, headers, Sources, Products
  <2>2. ASSUME NEW k \in 1..Len(srcs), k \notin recompile \/ k < i', Existing(ObjectOf(k)')
        PROVE  ObjectOf(k)'.of = Versions(srcs[k])
    <3>1. k \notin recompile \/ k < i
      BY <1>2, <1>6, <2>2
    <3>2. ObjectOf(k)' = ObjectOf(k)
      BY <1>4, <1>6, <2>2
    <3> QED
      BY <1>6, <2>2, <3>1, <3>2 DEF Commanded
  <2>3. ASSUME NEW k \in recompile, k >= i', ~ListedBefore(k), Existing(ObjectOf(k)')
        PROVE  NewerThan(srcs[k], ObjectOf(k)'.time)
    <3>1. k \in 1..Len(srcs) /\ k >= i
      BY <1>2, <1>5, <1>6, <2>3
    <3>2. ObjectOf(k)' = ObjectOf(k)
      BY <1>4, <1>6, <2>3, <3>1
    <3> QED
      BY <1>6, <2>3, <3>1, <3>2 DEF Commanded
  <2>4. \A k : ListedBefore(k)' = ListedBefore(k)
    BY <2>1 DEF ListedBefore
  <2>5. ASSUME NEW k \in 1..Len(srcs), k \notin recompile \/ k < i', Existing(ObjectOf(k))'
        PROVE  (ObjectOf(k).of = Versions(srcs[k]))'
    BY <1>2, <2>1, <2>2, <2>5 DEF Versions, Needed, Existing
  <2>6. ASSUME NEW k \in recompile, k >= i', ~ListedBefore(k), Existing(ObjectOf(k))'
        PROVE  NewerThan(srcs[k], ObjectOf(k).time)'
    BY <1>2, <2>1, <2>3, <2>6 DEF NewerThan, Needed, Existing
  <2>7. pc' = "gcc" => (input = Versions(srcs[i]))'
    BY <1>2, <1>6, <2>1 DEF Versions, Needed
  <2>8. pc' = "ld" => (IsOn(input, Products) /\ \A w \in Sources : input[Object(w)] = Versions(w))'
    <3>1. SUFFICES ASSUME pc' = "ld"
                   PROVE  (IsOn(input, Products) /\ \A w \in Sources : input[Object(w)] = Versions(w))'
      OBVIOUS
    <3>2. IsOn(input, Products)'
      BY <1>6, <2>1, <3>1 DEF IsOn
    <3>3. ASSUME NEW w \in Sources PROVE (input[Object(w)] = Versions(w))'
      <4>1. Versions(w)' = Versions(w)
        BY <1>2, <2>1 DEF Versions, Needed
      <4>2. input'[Object(w)] = Versions(w)
        BY <1>6, <3>1
      <4>3. Object(w)' = Object(w)
        BY DEF Object
      <4> QED
        BY <4>1, <4>2, <4>3
    <3> QED
      BY <2>1, <3>2, <3>3
  <2> QED
    BY <1>6, <2>1, <2>4, <2>5, <2>6, <2>7, <2>8 DEF Commanded
<1>7. CASE UNCHANGED <<run, file>>
  <2>1. UNCHANGED <<pc, compilation, i, times, recompile, input, file>> /\ pc \in Running
    BY <1>1, <1>7 DEF run
  <2>2. ~Compiled
    BY <2>1 DEF Compiled
  <2> QED
    BY <1>6, <2>1, <2>2 DEF Commanded
<1>8. CASE Decide
  <2>1. pc = "decide" /\ pc' = "command" /\ UNCHANGED <<compilation, i, times, recompile, obj>>
    BY <1>1, <1>8 DEF Decide, world, Running
  <2>2. /\ file' = file /\ srcs' = srcs /\ headers' = headers
        /\ Sources' = Sources /\ i = 1 /\ Len(times.objs) = Len(srcs)
        /\ \A k : ObjectOf(k)' = ObjectOf(k)
    BY <1>2, <2>1 DEF srcs, headers, Sources, Deciding, Sound, Stages, ObjectOf
  <2>3. ASSUME NEW k \in 1..Len(srcs), k \notin recompile \/ k < i, Existing(ObjectOf(k))
        PROVE  ObjectOf(k).of = Versions(srcs[k])
    <3>1. k \notin recompile /\ k \in 1..Len(times.objs)
      BY <1>2, <2>2, <2>3
    <3>2. /\ \A f \in Needed(srcs[k]) : Existing(file[f]) /\ file[f].time <= times.objs[k]
          /\ ObjectOf(k).time = times.objs[k]
      BY <2>1, <2>3, <3>1 DEF Looked, Deciding
    <3>3. srcs[k] \in Sources
      BY <1>3, <2>1 DEF Deciding
    <3>4. /\ IsOn(ObjectOf(k).of, Needed(srcs[k]))
          /\ \A f \in Needed(srcs[k]) : Traced(ObjectOf(k).of[f], f, ObjectOf(k).time)
      BY <2>3, <3>3 DEF Made, ObjectOf
    <3>5. ASSUME NEW f \in Needed(srcs[k]) PROVE ObjectOf(k).of[f] = file[f].version
      <4>1. f \in Files
        BY <3>3, SourcesAreFiles
      <4>2. file[f].time \in Nat /\ times.objs[k] \in Nat
        <5>1. times.objs \in Seq(Nat)
          BY DEF Sound, Stages
        <5> QED
          BY <3>1, <4>1, <5>1, ElementOfSeq DEF Sound, Clocks
      <4>3. ~(file[f].time > ObjectOf(k).time)
        BY <3>2, <4>2
      <4> QED
        BY <3>2, <3>4, <4>3 DEF Traced
    <3> QED
      BY <3>4, <3>5 DEF IsOn, Versions
  <2>4. ASSUME NEW k \in recompile, Existing(ObjectOf(k))
        PROVE  NewerThan(srcs[k], ObjectOf(k).time)
    BY <2>1, <2>4 DEF Looked, Deciding
  <2>5. ASSUME NEW k \in 1..Len(srcs), k \notin recompile \/ k < i, Existing(ObjectOf(k))'
        PROVE  (ObjectOf(k).of = Versions(srcs[k]))'
    BY <1>2, <2>2, <2>3, <2>5 DEF Versions, Needed, Existing
  <2>6. ASSUME NEW k \in recompile, Existing(ObjectOf(k))'
        PROVE  NewerThan(srcs[k], ObjectOf(k).time)'
    BY <1>2, <2>2, <2>4, <2>6 DEF NewerThan, Needed, Existing
  <2> QED
    BY <2>1, <2>2, <2>5, <2>6 DEF Commanded
<1>9. CASE StartCompile
  <2>1. /\ pc = "command" /\ pc' = "gcc" /\ i \in recompile
        /\ input' = Contents(recover_fname_from_command(CompileCommand(i)))
        /\ UNCHANGED <<compilation, recompile, i>>
    <3>1. pc' # "failed"
      BY <1>1 DEF Running
    <3> QED
      BY <1>9, <3>1 DEF StartCompile
  <2>2. input' = Versions(srcs[i])
    <3>1. i \in 1..Len(srcs)
      BY <1>5, <2>1
    <3> QED
      BY <2>1, <3>1, NameRecovered, ContentsAreVersions DEF Running
  <2>3. ~Compiled
    BY <2>1 DEF Compiled
  <2> QED
    BY <1>6, <2>1, <2>2, <2>3 DEF Running
<1>10. CASE SkipSource
  <2>1. /\ pc = "command" /\ pc' = "command" /\ i \notin recompile /\ i' = i + 1
        /\ UNCHANGED <<compilation, recompile>>
    BY <1>10 DEF SkipSource, world
  <2>2. ~Compiled
    BY <2>1 DEF Compiled
  <2> QED
    BY <1>6, <2>1, <2>2 DEF Running
<1>11. CASE Compiled
  <2>1. /\ pc = "gcc" /\ pc' = "command" /\ i' = i + 1 /\ i \in recompile
        /\ UNCHANGED <<compilation, recompile>> /\ input = Versions(srcs[i])
    BY <1>11 DEF Compiled, Sound, Stages, Commanded, Running
  <2>2. /\ file' = file /\ srcs' = srcs /\ headers' = headers /\ Sources' = Sources
        /\ i \in 1..Len(srcs)
    BY <1>2, <1>5, <2>1 DEF srcs, headers, Sources, Running
  <2>3. ASSUME NEW k \in 1..Len(srcs)
        PROVE  \/ ObjectOf(k)' = ObjectOf(k) \/ ~Existing(ObjectOf(k)')
               \/ srcs[k] = srcs[i] /\ ObjectOf(k)'.of = input
    <3>1. srcs[k] \in Sources /\ srcs[i] \in Sources
      BY <1>3, <2>1, <2>2 DEF Running
    <3>2. srcs[i].ext \in Languages /\ Makes(srcs[i]) = Object(srcs[k]) => srcs[i] = srcs[k]
      BY <1>2, <3>1 DEF OneObjectEach, Sources
    <3>3. PICK o \in Objects : o = Object(srcs[k])
      BY <1>3, <2>1 DEF Running
    <3>4. ObjectOf(k)' = obj'[o] /\ ObjectOf(k) = obj[o]
      BY <2>2, <3>3 DEF ObjectOf
    <3>5. \/ obj'[o] = obj[o] \/ ~Existing(obj'[o])
          \/ o = Makes(srcs[i]) /\ srcs[i].ext \in Languages /\ obj'[o].of = input
      BY ObjectsStep DEF Existing, Absent
    <3> QED
      BY <3>2, <3>3, <3>4, <3>5
  <2>4. ASSUME NEW k \in 1..Len(srcs), k \notin recompile \/ k < i', Existing(ObjectOf(k)')
        PROVE  ObjectOf(k)'.of = Versions(srcs[k])
    <3>1. CASE srcs[k] = srcs[i] /\ ObjectOf(k)'.of = input
      BY <2>1, <2>3, <3>1
    <3>2. CASE ObjectOf(k)' = ObjectOf(k) /\ (k \notin recompile \/ k < i)
      BY <2>1, <2>4, <3>2 DEF Commanded, Running
    <3>3. CASE ObjectOf(k)' = ObjectOf(k) /\ k = i
      <4>1. Existing(ObjectOf(i)) /\ srcs[i] \in Sources
        BY <1>3, <2>1, <2>2, <2>4, <3>3 DEF Running
      <4>2. IsMade(srcs[i]) /\ DOMAIN obj = Objects /\ Object(srcs[i]) \in Objects
        BY <1>3, <2>1, <2>2, <4>1 DEF Made, ObjectOf, Sound, Clocks, Running
      <4>3. obj' = [obj EXCEPT ![Object(srcs[i])] = [time |-> now, of |-> input]]
        BY <1>11, <4>2 DEF Compiled, IsMade
      <4>4. obj'[Object(srcs[i])].of = input
        BY <4>2, <4>3
      <4> QED
        BY <2>1, <2>2, <3>3, <4>4 DEF ObjectOf
    <3>4. k \notin recompile \/ k < i \/ k = i
      BY <1>2, <2>1, <2>2, <2>4
    <3> QED
      BY <2>3, <2>4, <3>1, <3>2, <3>3, <3>4
  <2>5. ASSUME NEW k \in recompile, k >= i', ~ListedBefore(k), Existing(ObjectOf(k)')
        PROVE  NewerThan(srcs[k], ObjectOf(k)'.time)
    <3>1. k \in 1..Len(srcs) /\ k >= i /\ i \in 1..k - 1
      BY <1>2, <1>5, <2>1, <2>5
    <3>2. Object(srcs[k]) # Object(srcs[i])
      BY <2>5, <3>1 DEF ListedBefore
    <3>3. ObjectOf(k)' = ObjectOf(k)
      BY <2>3, <2>5, <3>1, <3>2
    <3> QED
      BY <2>1, <2>5, <3>1, <3>3 DEF Commanded, Running
  <2>6. \A k : ListedBefore(k)' = ListedBefore(k)
    BY <2>2 DEF ListedBefore
  <2>7. ASSUME NEW k \in 1..Len(srcs), k \notin recompile \/ k < i', Existing(ObjectOf(k))'
        PROVE  (ObjectOf(k).of = Versions(srcs[k]))'
    BY <1>2, <2>2, <2>4, <2>7 DEF Versions, Needed, Existing
  <2>8. ASSUME NEW k \in recompile, k >= i', ~ListedBefore(k), Existing(ObjectOf(k))'
        PROVE  NewerThan(srcs[k], ObjectOf(k).time)'
    BY <1>2, <2>2, <2>5, <2>8 DEF NewerThan, Needed, Existing
  <2> QED
    BY <2>1, <2>2, <2>6, <2>7, <2>8 DEF Commanded
<1>12. CASE StartLink
  <2>1. /\ pc = "command" /\ pc' = "ld" /\ i > Len(srcs)
        /\ \A o \in LinkCommand : Existing(obj[o])
        /\ input' = [o \in LinkCommand |-> obj[o].of]
        /\ UNCHANGED <<compilation, recompile, i>>
    <3>1. pc' # "failed"
      BY <1>1 DEF Running
    <3> QED
      BY <1>12, <3>1 DEF StartLink
  <2>2. LinkCommand = Products /\ Sources = {srcs[k] : k \in 1..Len(srcs)}
    BY <2>1, InProject DEF Running
  <2>3. IsOn(input', Products)
    BY <2>1, <2>2 DEF IsOn
  <2>4. ASSUME NEW w \in Sources PROVE input'[Object(w)] = Versions(w)
    <3>1. PICK k \in 1..Len(srcs) : srcs[k] = w
      BY <2>2
    <3>2. Object(w) \in LinkCommand
      BY <2>2 DEF Products
    <3>3. k < i /\ Existing(ObjectOf(k))
      BY <1>2, <2>1, <3>1, <3>2 DEF ObjectOf
    <3>4. ObjectOf(k).of = Versions(w)
      BY <2>1, <3>1, <3>3 DEF Commanded, Running
    <3> QED
      BY <2>1, <3>1, <3>2, <3>4 DEF ObjectOf
  <2>5. ~Compiled
    BY <2>1 DEF Compiled
  <2> QED
    BY <1>6, <2>1, <2>3, <2>4, <2>5 DEF Running
<1>13. CASE ReadLine
  <2>1. pc' = "read" \/ pc' \in Resting
    BY <1>13 DEF ReadLine, add_srcs, add_headers, add_flags, add_libraries, add_exec, add,
         NextLine, Stop, Resting
  <2> QED
    BY <1>1, <2>1 DEF Running, Resting
<1>14. CASE EndOfDescription \/ StatHeader \/ HeadersRead \/ AccessObject
  BY <1>1, <1>14 DEF EndOfDescription, StatHeader, HeadersRead, AccessObject, Judge, Running
<1>15. CASE StatSource \/ StatObject \/ ObjectsRead
  BY <1>1, <1>15 DEF StatSource, StatObject, ObjectsRead, Judge, Running
<1>16. CASE Linked \/ CommandFails \/ Killed \/ Start
  BY <1>1, <1>16 DEF Linked, CommandFails, Killed, Stop, Start, Running
<1>17. CASE Tick \/ Clean \/ (\E f \in Files : Save(f) \/ Remove(f)) \/ UNCHANGED vars
  <2>1. run' = run
    BY <1>17 DEF Tick, Clean, Save, Remove, vars
  <2>2. pc \in Running
    BY <1>1, <2>1 DEF run
  <2> QED
    BY <1>2, <1>7, <2>1, <2>2
<1> QED
  BY <1>8, <1>9, <1>10, <1>11, <1>12, <1>13, <1>14, <1>15, <1>16, <1>17 DEF Next, Step, User
LEMMA HonestInit ==
  ASSUME Init PROVE Honest
<1>1. obj = [o \in Objects |-> Absent] /\ exec = Absent /\ pc = "idle"
  BY DEF Init
<1>2. Absent.of = <<>> /\ ~Existing(Absent)
  BY DEF Absent, Existing
<1>3. NotMade
  BY <1>1, <1>2 DEF NotMade
<1>4. Made
  <2>1. Sound
    BY ClocksInit, ListsInit, StagesInit DEF Sound
  <2>2. \A w \in Sources : obj[Object(w)] = Absent
    BY <1>1, <2>1, SourcesAreFiles
  <2> QED
    BY <1>2, <2>2 DEF Made
<1>5. MadeExec
  BY <1>1, <1>2 DEF MadeExec
<1>6. Looked /\ Commanded
  BY <1>1 DEF Looked, Commanded, Deciding, Running
<1> QED
  BY <1>3, <1>4, <1>5, <1>6 DEF Honest

LEMMA HonestStep ==
  ASSUME OneObjectEach, Sound, Honest, [Next]_vars PROVE Honest'
<1>1. SUFFICES ASSUME ~hasty' PROVE (Made /\ NotMade /\ MadeExec /\ Looked /\ Commanded)'
  BY DEF Honest
<1>2. ~hasty
  BY <1>1, Still
<1>3. Made /\ NotMade /\ MadeExec /\ Looked /\ Commanded
  BY <1>2 DEF Honest
<1>4. Made'
  BY <1>1, <1>3, MadeStep
<1>5. NotMade'
  BY <1>3, NotMadeStep
<1>6. MadeExec'
  BY <1>1, <1>3, MadeExecStep
<1>7. Looked'
  BY <1>1, <1>3, LookedStep
<1>8. Commanded'
  BY <1>1, <1>3, CommandedStep
<1> QED
  BY <1>4, <1>5, <1>6, <1>7, <1>8

LEMMA HonestHolds ==
  ASSUME OneObjectEach PROVE Spec => []Honest
<1>1. Init => Honest
  BY HonestInit
<1>2. Sound /\ Honest /\ [Next]_vars => Honest'
  BY HonestStep
<1> QED
  BY <1>1, <1>2, SoundHolds, PTL DEF Spec

\* Every object of the executable is made of the versions there are.
LEMMA AllFresh ==
  ASSUME Sound, pc \in Deciding \cup Running, Existing(exec), IsOn(exec.of, Products),
         \A w \in Sources : exec.of[Object(w)] = Versions(w)
  PROVE  Fresh
<1>1. LinkCommand = Products /\ Range(srcs) = Sources
  BY InProject
<1>2. ASSUME NEW o \in LinkCommand
      PROVE  exec.of[o] = Contents(CHOOSE w \in Range(srcs) : Object(w) = o)
  <2>1. \E w \in Range(srcs) : Object(w) = o
    BY <1>1 DEF Products
  <2>2. PICK c : c = CHOOSE w \in Range(srcs) : Object(w) = o
    OBVIOUS
  <2>3. c \in Sources /\ Object(c) = o
    BY <1>1, <2>1, <2>2
  <2>4. exec.of[o] = Contents(c)
    BY <2>3, ContentsAreVersions
  <2> QED
    BY <2>2, <2>4
<1>3. exec.of = [o \in LinkCommand |-> exec.of[o]]
  BY <1>1 DEF IsOn
<1>4. exec.of = [o \in LinkCommand |-> Contents(CHOOSE w \in Range(srcs) : Object(w) = o)]
  BY <1>2, <1>3
<1> QED
  BY <1>4 DEF Fresh

\* What Decide finds up to date is fresh.
LEMMA UpToDateIsFresh ==
  ASSUME Sound, Made, MadeExec, Looked, pc = "decide", UpToDate, ~Aliased
  PROVE  Fresh
<1>1. /\ recompile = {} /\ Existing(exec) /\ pc \in Deciding
      /\ \A k \in DOMAIN times.objs : times.objs[k] <= exec.time
  BY DEF UpToDate, Executable, Deciding
<1>2. times.objs \in Seq(Nat) /\ Len(times.objs) = Len(srcs)
  BY DEF Sound, Stages
<1>3. DOMAIN times.objs = 1..Len(srcs) /\ exec.time \in Nat
  <2>1. now \in Nat /\ exec.time \in 0..now
    BY FakemakeAssumption DEF Sound, Clocks, FakemakeAssumption
  <2> QED
    BY <1>2, <2>1, LenProperties
<1>4. ASSUME NEW w \in Sources PROVE exec.of[Object(w)] = Versions(w)
  <2>1. PICK k \in 1..Len(srcs) : srcs[k] = w
    BY <1>1, InProject
  <2>2. \A f \in Needed(w) : Existing(file[f]) /\ file[f].time <= times.objs[k]
    BY <1>1, <1>2, <2>1 DEF Looked
  <2>3. /\ IsOn(exec.of[Object(w)], Needed(w))
        /\ \A f \in Needed(w) : Traced(exec.of[Object(w)][f], f, exec.time)
    BY <1>1 DEF MadeExec
  <2>4. ASSUME NEW f \in Needed(w) PROVE exec.of[Object(w)][f] = file[f].version
    <3>1. file[f].time \in Nat
      BY SourcesAreFiles DEF Sound, Clocks
    <3>2. times.objs[k] \in Nat /\ times.objs[k] <= exec.time
      BY <1>1, <1>2, <1>3, ElementOfSeq
    <3>3. file[f].time <= times.objs[k] /\ Existing(file[f])
      BY <2>2
    <3>4. ~(file[f].time > exec.time)
      BY <1>3, <3>1, <3>2, <3>3
    <3> QED
      BY <2>3, <3>3, <3>4 DEF Traced
  <2> QED
    BY <2>3, <2>4 DEF IsOn, Versions
<1>5. IsOn(exec.of, Products)
  BY <1>1 DEF MadeExec
<1> QED
  BY <1>1, <1>4, <1>5, AllFresh

\* ReportsTruth, for every set of files and descriptions that have an object for
\* each source: however the user's changes, removals and kills fall between the
\* system calls of any number of runs, what is reported up to date or done is
\* made of the files as they are, or times could not tell, or the executable has
\* the name of a file.
THEOREM ReportsTruthHolds ==
  ASSUME OneObjectEach PROVE Spec => ReportsTruth
<1>1. ASSUME Sound, Honest, [Next]_vars, pc' # pc, pc' \in {"uptodate", "done"}
      PROVE  hasty \/ Aliased \/ Fresh'
  <2>1. SUFFICES ASSUME ~hasty, ~Aliased PROVE Fresh'
    OBVIOUS
  <2>2. Made /\ MadeExec /\ Looked /\ Commanded
    BY <1>1, <2>1 DEF Honest
  <2>3. Decide \/ Linked
    <3>1. ~UNCHANGED vars
      BY <1>1 DEF vars, run
    <3>2. ~ReadLine
      BY <1>1 DEF ReadLine, add_srcs, add_headers, add_flags, add_libraries, add_exec, add,
           NextLine, Stop
    <3>3. ~EndOfDescription /\ ~StatHeader /\ ~HeadersRead /\ ~AccessObject
      BY <1>1 DEF EndOfDescription, StatHeader, HeadersRead, AccessObject, Judge
    <3>4. ~StatSource /\ ~StatObject /\ ~ObjectsRead
      BY <1>1 DEF StatSource, StatObject, ObjectsRead, Judge
    <3>5. ~StartCompile /\ ~SkipSource /\ ~Compiled /\ ~StartLink /\ ~CommandFails
      BY <1>1 DEF StartCompile, SkipSource, Compiled, StartLink, CommandFails
    <3>6. ~Start /\ ~Tick /\ ~Clean /\ ~Killed /\ ~(\E f \in Files : Save(f) \/ Remove(f))
      BY <1>1 DEF Start, Tick, Clean, Killed, Stop, Save, Remove, run
    <3> QED
      BY <1>1, <3>1, <3>2, <3>3, <3>4, <3>5, <3>6 DEF Next, Step, User
  <2>4. CASE Decide
    <3>1. pc = "decide" /\ UpToDate /\ UNCHANGED <<exec, file, compilation>>
      BY <1>1, <2>4 DEF Decide, world
    <3>2. Fresh
      BY <1>1, <2>1, <2>2, <3>1, UpToDateIsFresh
    <3> QED
      BY <3>1, <3>2 DEF Fresh, LinkCommand, Contents, srcs, headers
  <2>5. CASE Linked
    <3>1. /\ pc = "ld" /\ exec' = [time |-> now, of |-> input]
          /\ UNCHANGED <<now, file, obj, hasty, desc, compilation, i, times, recompile, input>>
      BY <2>1, <2>5 DEF Linked
    <3>2. IsOn(input, Products) /\ \A w \in Sources : input[Object(w)] = Versions(w)
      BY <2>2, <3>1 DEF Commanded, Running
    <3>3. LinkCommand = Products /\ Range(srcs) = Sources
      BY <1>1, <3>1, InProject DEF Running
    <3>4. ASSUME NEW o \in LinkCommand
          PROVE  input[o] = Contents(CHOOSE w \in Range(srcs) : Object(w) = o)
      <4>1. \E w \in Range(srcs) : Object(w) = o
        BY <3>3 DEF Products
      <4>2. PICK c : c = CHOOSE w \in Range(srcs) : Object(w) = o
        OBVIOUS
      <4>3. c \in Sources /\ Object(c) = o
        BY <3>3, <4>1, <4>2
      <4>4. input[o] = Contents(c)
        BY <1>1, <3>1, <3>2, <4>3, ContentsAreVersions DEF Running
      <4> QED
        BY <4>2, <4>4
    <3>5. input = [o \in LinkCommand |-> input[o]]
      BY <3>2, <3>3 DEF IsOn
    <3>6. input = [o \in LinkCommand |-> Contents(CHOOSE w \in Range(srcs) : Object(w) = o)]
      BY <3>4, <3>5
    <3>7. now # 0
      BY <1>1, FakemakeAssumption DEF Sound, Clocks, FakemakeAssumption
    <3>8. Existing(exec')
      BY <3>1, <3>7 DEF Existing
    <3> QED
      BY <3>1, <3>6, <3>8 DEF Fresh, LinkCommand, Contents, srcs, headers
  <2> QED
    BY <2>3, <2>4, <2>5
<1>2. Sound /\ Honest /\ [Next]_vars =>
        [pc' # pc /\ pc' \in {"uptodate", "done"} => hasty \/ Aliased \/ Fresh']_vars
  BY <1>1
<1> QED
  BY <1>2, SoundHolds, HonestHolds, PTL DEF Spec, ReportsTruth

\* CompilesOnlyStale, for every set of files and descriptions that have an object
\* for each source: gcc is run for no object that is made of the files as they
\* are, but for a source that the description lists twice.
THEOREM CompilesOnlyStaleHolds ==
  ASSUME OneObjectEach PROVE Spec => CompilesOnlyStale
<1>1. ASSUME Sound, Honest, [Next]_vars, pc = "command", pc' = "gcc", ~hasty, ~ListedBefore(i)
      PROVE  ObjectOf(i).of # input'
  <2>1. Made /\ NotMade /\ Commanded
    BY <1>1 DEF Honest
  <2>2. StartCompile
    <3>1. ~UNCHANGED vars
      BY <1>1 DEF vars, run
    <3>2. ~ReadLine /\ ~EndOfDescription /\ ~StatHeader /\ ~HeadersRead /\ ~AccessObject
      BY <1>1 DEF ReadLine, EndOfDescription, StatHeader, HeadersRead, AccessObject
    <3>3. ~StatSource /\ ~StatObject /\ ~ObjectsRead /\ ~Decide
      BY <1>1 DEF StatSource, StatObject, ObjectsRead, Decide
    <3>4. ~SkipSource /\ ~Compiled /\ ~StartLink /\ ~Linked /\ ~CommandFails
      BY <1>1 DEF SkipSource, Compiled, StartLink, Linked, CommandFails
    <3>5. ~Start /\ ~Tick /\ ~Clean /\ ~Killed /\ ~(\E f \in Files : Save(f) \/ Remove(f))
      BY <1>1 DEF Start, Tick, Clean, Killed, Stop, Save, Remove, run
    <3> QED
      BY <1>1, <3>1, <3>2, <3>3, <3>4, <3>5 DEF Next, Step, User
  <2>3. i \in recompile /\ i \in Nat \ {0} /\ i \in 1..Len(srcs)
    <3>1. i \in recompile
      BY <2>2 DEF StartCompile
    <3>2. recompile \subseteq 1..Len(times.objs) /\ Len(times.objs) = Len(srcs)
      BY <1>1 DEF Sound, Stages, Running
    <3>3. i \in Nat \ {0}
      BY <1>1 DEF Sound, Lists
    <3> QED
      BY <3>1, <3>2, <3>3
  <2>4. PICK w \in Sources : w = srcs[i]
    BY <1>1, <2>3, InProject DEF Running
  <2>5. input' = Versions(w)
    <3>1. input' = Contents(recover_fname_from_command(CompileCommand(i)))
      BY <1>1, <2>2 DEF StartCompile
    <3>2. recover_fname_from_command(CompileCommand(i)) = w
      BY <1>1, <2>3, <2>4, NameRecovered
    <3> QED
      BY <1>1, <3>1, <3>2, ContentsAreVersions DEF Running
  <2>6. PICK o \in Objects : o = Object(w)
    BY <1>1, SourcesAreFiles
  <2>7. ObjectOf(i) = obj[o]
    BY <2>4, <2>6 DEF ObjectOf
  <2>8. CASE ~Existing(obj[o])
    <3>1. obj[o].of = <<>>
      BY <2>1, <2>8 DEF NotMade
    <3>2. DOMAIN Versions(w) = Needed(w) /\ w \in Needed(w)
      BY DEF Versions, Needed
    <3>3. DOMAIN <<>> = {}
      OBVIOUS
    <3> QED
      BY <2>5, <2>7, <3>1, <3>2, <3>3
  <2>9. CASE Existing(obj[o])
    <3>1. \E f \in Needed(w) : file[f].time > obj[o].time
      <4>1. i >= i
        BY <2>3
      <4> QED
        BY <1>1, <2>1, <2>3, <2>4, <2>7, <2>9, <4>1 DEF Commanded, Running, NewerThan
    <3>2. PICK f \in Needed(w) : file[f].time > obj[o].time
      BY <3>1
    <3>3. Traced(obj[o].of[f], f, obj[o].time)
      BY <2>1, <2>6, <2>9 DEF Made
    <3>4. f \in Files
      BY <1>1, SourcesAreFiles
    <3>5. file[f].version \in Nat
      BY <1>1, <3>4 DEF Sound, Clocks
    <3>6. obj[o].of[f] \in Nat /\ file[f].version > obj[o].of[f]
      BY <3>2, <3>3 DEF Traced
    <3>7. obj[o].of[f] # file[f].version
      BY <3>5, <3>6
    <3>8. Versions(w)[f] = file[f].version
      BY DEF Versions
    <3> QED
      BY <2>5, <2>7, <3>7, <3>8
  <2> QED
    BY <2>8, <2>9
<1>2. Sound /\ Honest /\ [Next]_vars =>
        [pc = "command" /\ pc' = "gcc" =>
            hasty \/ ListedBefore(i) \/ ObjectOf(i).of # input']_vars
  BY <1>1
<1> QED
  BY <1>2, SoundHolds, HonestHolds, PTL DEF Spec, CompilesOnlyStale
=============================================================================
