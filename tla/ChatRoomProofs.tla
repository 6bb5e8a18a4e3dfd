--------------------------- MODULE ChatRoomProofs ---------------------------
(***************************************************************************)
(* What the promise ChatRoom means for those who use the room: theorems    *)
(* for any number of people and messages. JtalkServer inherits them where  *)
(* it keeps the promise (KeepsRoom), with history for what is said and a   *)
(* socket's log for what is heard.                                         *)
(***************************************************************************)
EXTENDS ChatRoom, FiniteSetTheorems, SequenceTheorems, TLAPS

\* A number is never larger than what its sender has said: the strengthening
\* that makes the next number a new one.
NumbersBounded ==
    \A i \in DOMAIN said : said[i].n <= Cardinality(SaidBy(said[i].from))

\* Who has not come in has heard nothing.
NothingOutside == \A p \in Person : place[p] = "out" => heard[p] = <<>>

Hearing == TypeOK /\ HeardSuffix /\ OneAtATime /\ NothingOutside
Saying == SaidInOrder /\ NumbersBounded

Inv == Hearing /\ Saying

LEMMA InitInv == Init => Inv
  BY DEF Init, Inv, Hearing, Saying, TypeOK, Place, HeardSuffix, OneAtATime, SaidInOrder,
         NumbersBounded, NothingOutside, Hearing, Saying

\* What a person has said is finitely much, and a new thing adds one to it.
LEMMA SaidByFinite ==
  ASSUME TypeOK, NEW p
  PROVE  IsFiniteSet(SaidBy(p)) /\ Cardinality(SaidBy(p)) \in Nat
<1>1. IsFiniteSet(1..Len(said))
  BY FS_Interval DEF TypeOK
<1>2. SaidBy(p) \subseteq 1..Len(said)
  BY DEF SaidBy, TypeOK
<1> QED
  BY <1>1, <1>2, FS_Subset, FS_CardinalityType

LEMMA SaidByGrows ==
  ASSUME TypeOK, NEW p \in Person, NEW n \in Nat, NEW q,
         said' = Append(said, [from |-> p, n |-> n])
  PROVE  /\ SaidBy(q)' = IF q = p THEN SaidBy(q) \cup {Len(said) + 1}
                         ELSE SaidBy(q)
         /\ Cardinality(SaidBy(q)') =
              Cardinality(SaidBy(q)) + IF q = p THEN 1 ELSE 0
<1>1. /\ DOMAIN said' = 1..Len(said) + 1
      /\ DOMAIN said = 1..Len(said)
      /\ \A i \in 1..Len(said) : said'[i] = said[i]
      /\ said'[Len(said) + 1] = [from |-> p, n |-> n]
  BY DEF TypeOK
<1>2. SaidBy(q)' = IF q = p THEN SaidBy(q) \cup {Len(said) + 1} ELSE SaidBy(q)
  BY <1>1, SMTT(30) DEF SaidBy, TypeOK
<1>3. Len(said) + 1 \notin SaidBy(q)
  BY DEF SaidBy, TypeOK
<1>4. IsFiniteSet(SaidBy(q)) /\ Cardinality(SaidBy(q)) \in Nat
  BY SaidByFinite
<1>5. CASE q = p
  BY <1>2, <1>3, <1>4, <1>5, FS_AddElement
<1>6. CASE q # p
  BY <1>2, <1>4, <1>6
<1> QED
  BY <1>5, <1>6

LEMMA SaidTyped ==
  ASSUME TypeOK
  PROVE  \A i \in DOMAIN said : said[i].from \in Person /\ said[i].n \in Nat
<1>1. said \in Seq([from : Person, n : Nat]) /\ DOMAIN said = 1..Len(said)
  BY DEF TypeOK
<1>2. \A i \in 1..Len(said) : said[i] \in [from : Person, n : Nat]
  BY <1>1, ElementOfSeq
<1> QED
  BY <1>1, <1>2

\* The part of the invariant that is about what is said, kept by the two
\* actions that say something.
LEMMA SayingKeepsOrder ==
  ASSUME Inv, NEW p \in Person, NEW n \in Nat,
         said' = Append(said, [from |-> p, n |-> n]),
         0 \notin Numbers(p),
         n = 0 \/ n = Cardinality(SaidBy(p)) + 1
  PROVE  Saying'
<1>0. TypeOK /\ SaidInOrder /\ NumbersBounded
  BY DEF Inv, Hearing, Saying
<1>1. /\ DOMAIN said' = 1..Len(said) + 1
      /\ DOMAIN said = 1..Len(said)
      /\ \A i \in 1..Len(said) : said'[i] = said[i]
      /\ said'[Len(said) + 1] = [from |-> p, n |-> n]
      /\ Len(said) \in Nat
  BY <1>0 DEF TypeOK
<1>2. \A i \in DOMAIN said : said[i].from \in Person /\ said[i].n \in Nat
  BY <1>0, SaidTyped
<1>3. \A i \in DOMAIN said : said[i].from = p => said[i].n # 0
  BY DEF Numbers, SaidBy
<1>4. \A q : Cardinality(SaidBy(q)) \in Nat
  BY <1>0, SaidByFinite
<1>5. SaidInOrder'
  <2> SUFFICES ASSUME NEW i \in DOMAIN said', NEW j \in DOMAIN said', i < j,
                      said'[i].from = said'[j].from
               PROVE  /\ said'[i].n # 0
                      /\ said'[j].n = 0 \/ said'[i].n < said'[j].n
    BY DEF SaidInOrder
  <2>1. i \in DOMAIN said
    BY <1>1
  <2>2. CASE j \in DOMAIN said
    BY <1>0, <1>1, <2>1, <2>2 DEF SaidInOrder
  <2>3. CASE j = Len(said) + 1
    <3>1. said[i].from = p /\ said[i].n <= Cardinality(SaidBy(p))
      BY <1>0, <1>1, <2>1, <2>3 DEF NumbersBounded
    <3> QED
      BY <1>1, <1>2, <1>3, <1>4, <2>1, <2>3, <3>1
  <2> QED
    BY <1>1, <2>2, <2>3
<1>6. NumbersBounded'
  <2> DEFINE By(q) == {k \in DOMAIN said' : said'[k].from = q}
  <2>1. \A q : Cardinality(By(q)) =
                 Cardinality(SaidBy(q)) + IF q = p THEN 1 ELSE 0
    <3> TAKE q
    <3>1. By(q) = SaidBy(q)'
      BY DEF SaidBy
    <3> QED
      BY <1>0, <3>1, SaidByGrows
  <2> HIDE DEF By
  <2>2. ASSUME NEW i \in DOMAIN said'
        PROVE  said'[i].n <= Cardinality(By(said'[i].from))
    <3>1. CASE i \in DOMAIN said
      <4>1. said'[i] = said[i] /\ said[i].n <= Cardinality(SaidBy(said[i].from))
        BY <1>0, <1>1, <3>1 DEF NumbersBounded
      <4>2. Cardinality(SaidBy(said[i].from)) <= Cardinality(By(said[i].from))
        BY <1>4, <2>1
      <4> QED
        BY <1>2, <1>4, <2>1, <3>1, <4>1, <4>2
    <3>2. CASE i = Len(said) + 1
      <4>1. said'[i].from = p /\ said'[i].n = n
        BY <1>1, <3>2
      <4>2. Cardinality(By(p)) = Cardinality(SaidBy(p)) + 1
        BY <2>1
      <4>3. n <= Cardinality(SaidBy(p)) + 1
        BY <1>4
      <4> QED
        BY <4>1, <4>2, <4>3
    <3> QED
      BY <1>1, <3>1, <3>2
  <2> QED
    BY <2>2 DEF NumbersBounded, SaidBy, By
<1> QED
  BY <1>5, <1>6 DEF Saying

\* Everything else leaves what was said alone.
LEMMA SilenceKeepsOrder ==
  ASSUME Inv, UNCHANGED said
  PROVE  Saying'
  BY DEF Inv, Saying, SaidInOrder, NumbersBounded, SaidBy

\* Nobody waits when somebody says the next thing.
LEMMA QuietMeansHeard ==
  ASSUME Inv, Quiet, NEW p \in Person, place[p] = "in"
  PROVE  since[p] + Len(heard[p]) = Len(said)
<1>1. Len(said) \in Nat /\ Len(heard[p]) \in Nat /\ since[p] \in Nat
  BY DEF Inv, Hearing, Saying, TypeOK
<1>2. ~(since[p] + Len(heard[p]) + 1 <= Len(said))
  BY DEF Quiet, Waiting, Upcoming
<1>3. since[p] + Len(heard[p]) <= Len(said)
  BY DEF Inv, Hearing, Saying, HeardSuffix
<1> QED
  BY <1>1, <1>2, <1>3

\* Saying something lengthens said by one and changes nobody's place or hearing.
LEMMA SayingKeepsHearing ==
  ASSUME Inv, Quiet, NEW p \in Person, NEW n \in Nat,
         said' = Append(said, [from |-> p, n |-> n]),
         UNCHANGED <<open, place, since, heard>>
  PROVE  Hearing'
<1>1. TypeOK'
  BY DEF Inv, Hearing, Saying, TypeOK
<1>2. Len(said') = Len(said) + 1 /\ Len(said) \in Nat
  BY DEF Inv, Hearing, Saying, TypeOK
<1>3. \A q \in Person : Len(heard[q]) \in Nat /\ since[q] \in Nat
  BY DEF Inv, Hearing, Saying, TypeOK
<1>4. HeardSuffix'
  BY <1>2, <1>3 DEF Inv, Hearing, Saying, HeardSuffix
<1>5. OneAtATime'
  BY <1>2, <1>3, QuietMeansHeard DEF OneAtATime
<1>6. NothingOutside'
  BY DEF Inv, Hearing, NothingOutside
<1> QED
  BY <1>1, <1>4, <1>5, <1>6 DEF Hearing

LEMMA SuffixGrows ==
  ASSUME NEW b \in Nat, NEW h \in Seq(Nat), NEW g,
         h = [i \in 1..Len(h) |-> b + i],
         g = Append(h, b + Len(h) + 1)
  PROVE  Len(g) = Len(h) + 1 /\ g = [i \in 1..Len(g) |-> b + i]
<1> DEFINE k == Len(h)
<1>1. k \in Nat
  OBVIOUS
<1>2. /\ g \in Seq(Nat) /\ Len(g) = k + 1
      /\ \A i \in 1..k : g[i] = h[i]
      /\ g[k + 1] = b + k + 1
  BY <1>1
<1>3. \A i \in 1..k : h[i] = b + i
  OBVIOUS
<1>4. g = [i \in 1..Len(g) |-> g[i]]
  BY <1>2
<1> HIDE DEF k
<1>5. \A i \in 1..(k + 1) : g[i] = b + i
  <2> SUFFICES ASSUME NEW i \in 1..(k + 1) PROVE g[i] = b + i
    OBVIOUS
  <2>1. i \in 1..k \/ i = k + 1
    BY <1>1
  <2> QED
    BY <1>1, <1>2, <1>3, <2>1
<1> QED
  BY <1>2, <1>4, <1>5 DEF k

LEMMA NextInv == Inv /\ [Next]_vars => Inv'
<1> SUFFICES ASSUME Inv, [Next]_vars PROVE Inv'
  OBVIOUS
<1>0. /\ Len(said) \in Nat
      /\ \A q \in Person : Len(heard[q]) \in Nat /\ since[q] \in Nat
  BY DEF Inv, Hearing, Saying, TypeOK
<1>1. ASSUME NEW p \in Person, Join(p) PROVE Inv'
  <2>1. TypeOK'
    BY <1>0, <1>1 DEF Join, Inv, Hearing, Saying, TypeOK, Place
  <2>2. HeardSuffix' /\ OneAtATime'
    <3>0. heard[p] = <<>>
      BY <1>1 DEF Join, Inv, Hearing, NothingOutside
    <3> QED
      BY <1>0, <1>1, <3>0 DEF Join, Inv, Hearing, Saying, TypeOK, HeardSuffix, OneAtATime
  <2>3. NothingOutside'
    BY <1>1 DEF Join, Inv, Hearing, TypeOK, NothingOutside
  <2> QED
    BY <1>1, <2>1, <2>2, <2>3, SilenceKeepsOrder DEF Join, Inv, Hearing
<1>2. ASSUME NEW p \in Person, Say(p) PROVE Inv'
  <2> DEFINE n == Cardinality(SaidBy(p)) + 1
  <2>1. n \in Nat
    BY SaidByFinite DEF Inv, Hearing, Saying
  <2> QED
    BY <1>2, <2>1, SayingKeepsHearing, SayingKeepsOrder DEF Say, Inv, Hearing, Saying
<1>3. ASSUME NEW p \in Person, Hear(p) PROVE Inv'
  <2>1. TypeOK'
    BY <1>0, <1>3 DEF Hear, Upcoming, Inv, Hearing, Saying, TypeOK
  <2>2. HeardSuffix' /\ OneAtATime'
    <3>1. \A q \in Person \ {p} : heard'[q] = heard[q]
      BY <1>3 DEF Hear, Inv, Hearing, Saying, TypeOK
    <3>2. heard'[p] = Append(heard[p], since[p] + Len(heard[p]) + 1)
      BY <1>3 DEF Hear, Upcoming, Inv, Hearing, Saying, TypeOK
    <3>3. /\ heard[p] = [i \in 1..Len(heard[p]) |-> since[p] + i]
          /\ heard[p] \in Seq(Nat)
      BY DEF Inv, Hearing, Saying, HeardSuffix, TypeOK
    <3>4. /\ Len(heard'[p]) = Len(heard[p]) + 1
          /\ heard'[p] = [i \in 1..Len(heard'[p]) |-> since[p] + i]
      <4>1. since[p] \in Nat
        BY <1>0
      <4> QED
        BY <3>2, <3>3, <4>1, SuffixGrows
    <3>5. since[p] + Len(heard[p]) + 1 <= Len(said)
      BY <1>3 DEF Hear, Waiting, Upcoming
    <3>6. since' = since /\ said' = said /\ place' = place
      BY <1>3 DEF Hear
    <3>7. HeardSuffix'
      <4> SUFFICES ASSUME NEW q \in Person
                   PROVE  /\ heard'[q] = [i \in 1..Len(heard'[q]) |-> since[q] + i]
                          /\ since[q] + Len(heard'[q]) <= Len(said)
        BY <3>6 DEF HeardSuffix
      <4>1. CASE q = p
        BY <1>0, <3>4, <3>5, <4>1, SMTT(30)
      <4>2. CASE q # p
        BY <3>1, <4>2 DEF Inv, Hearing, HeardSuffix
      <4> QED
        BY <4>1, <4>2
    <3>8. OneAtATime'
      BY <1>0, <3>1, <3>4, <3>5, <3>6, SMTT(30) DEF Inv, Hearing, Saying, OneAtATime
    <3> QED
      BY <3>7, <3>8
  <2>3. NothingOutside'
    BY <1>3 DEF Hear, Waiting, Inv, Hearing, TypeOK, NothingOutside
  <2> QED
    BY <1>3, <2>1, <2>2, <2>3, SilenceKeepsOrder DEF Hear, Inv, Hearing
<1>4. ASSUME NEW p \in Person, Go(p) \/ TakeNote(p) PROVE Inv'
  <2>1. Hearing'
    <3>1. TypeOK'
      BY <1>4 DEF Go, TakeNote, Inv, Hearing, TypeOK, Place
    <3>2. HeardSuffix'
      BY <1>4 DEF Go, TakeNote, Inv, Hearing, HeardSuffix
    <3>3. OneAtATime' /\ NothingOutside'
      BY <1>4 DEF Go, TakeNote, Inv, Hearing, TypeOK, OneAtATime, NothingOutside
    <3> QED
      BY <3>1, <3>2, <3>3 DEF Hearing
  <2> QED
    BY <1>4, <2>1, SilenceKeepsOrder DEF Go, TakeNote, Inv, Hearing, Saying
<1>5. ASSUME NEW p \in Person, Farewell(p) PROVE Inv'
  BY <1>5, SayingKeepsHearing, SayingKeepsOrder DEF Farewell, Inv, Hearing, Saying
<1>6. ASSUME Close \/ UNCHANGED vars PROVE Inv'
  <2>1. Hearing'
    <3>1. TypeOK'
      BY <1>6 DEF Close, vars, Inv, Hearing, TypeOK
    <3>2. HeardSuffix' /\ OneAtATime' /\ NothingOutside'
      BY <1>6 DEF Close, vars, Inv, Hearing, HeardSuffix, OneAtATime,
                  NothingOutside
    <3> QED
      BY <3>1, <3>2 DEF Hearing
  <2> QED
    BY <1>6, <2>1, SilenceKeepsOrder DEF Close, vars, Inv, Hearing, Saying
<1> QED
  BY <1>1, <1>2, <1>3, <1>4, <1>5, <1>6 DEF Next

\* Everybody hears what was said from the coming in on, without a gap and in one
\* order, and no two people present are more than one message apart.
THEOREM HeardByAll == Spec => [](TypeOK /\ HeardSuffix /\ OneAtATime)
<1>1. Inv => TypeOK /\ HeardSuffix /\ OneAtATime
  BY DEF Inv, Hearing, Saying
<1> QED
  BY <1>1, InitInv, NextInv, PTL DEF Spec

\* What a person says is never reordered or doubled, and ends with the farewell.
THEOREM OrderKept == Spec => []SaidInOrder
<1>1. Inv => SaidInOrder
  BY DEF Inv, Hearing, Saying
<1> QED
  BY <1>1, InitInv, NextInv, PTL DEF Spec
=============================================================================
