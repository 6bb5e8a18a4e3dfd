--------------------------- MODULE FamtreeProofs ---------------------------
(***************************************************************************)
(* Theorems about Famtree, for every set of names and any number of lines: *)
(* links are mutual, the cycle check is right in both directions, nobody   *)
(* is printed before a parent, everybody is printed once, and the program  *)
(* fails only on a child with two parents of one sex.                      *)
(***************************************************************************)
EXTENDS Famtree, FiniteSetTheorems, SequenceTheorems, WellFoundedInduction, TLAPS

(***************************************************************************)
(* What holds of the people between two lines.                             *)
(***************************************************************************)

Key == {"name", "father", "mother"} \X (Names \cup {NoName})
People ==
    [people : SUBSET Names, sex : [Names -> Sexes \cup {"none"}],
     father : [Names -> Names \cup {NoName}], mother : [Names -> Names \cup {NoName}],
     children : [Names -> Seq(Names)], key : [Names -> Key]]

\* LinksMutual for the parents of one sex.
Mutual(d, parent, s) ==
    \A c \in Names :
        /\ parent[c] # NoName =>
             parent[c] \in d.people /\ d.sex[parent[c]] = s /\ IsChild(d, parent[c], c)
        /\ \A q \in Names : IsChild(d, q, c) =>
             c \in d.people /\ (d.sex[q] = s => parent[c] # NoName)

\* Who has children is in the tree, with a sex: the strengthening that makes
\* LinksMutual inductive, since a SEX line may come after the children.
ParentsKnown(d) ==
    \A q, c \in Names : IsChild(d, q, c) => q \in d.people /\ d.sex[q] \in {"M", "F"}

ChildrenOnce(d) == \A q \in Names : IsInjective(d.children[q])

Family(d) ==
    /\ d \in People
    /\ Mutual(d, d.father, "M") /\ Mutual(d, d.mother, "F")
    /\ ParentsKnown(d) /\ ChildrenOnce(d)

\* e is d after q, of sex s, has been given the child c.
Linked(d, e, s, q, c) ==
    /\ e \in People
    /\ e.people = d.people \cup {q, c}
    /\ e.sex = [d.sex EXCEPT ![q] = s]
    /\ e.father = IF s = "M" THEN [d.father EXCEPT ![c] = q] ELSE d.father
    /\ e.mother = IF s = "F" THEN [d.mother EXCEPT ![c] = q] ELSE d.mother
    /\ e.children = [d.children EXCEPT ![q] = Append(d.children[q], c)]

\* A child is in its parent's list when it is one of the list's places.
LEMMA ChildPlaces ==
  ASSUME NEW d \in People, NEW q \in Names, NEW c
  PROVE  IsChild(d, q, c) <=> \E i \in 1..Len(d.children[q]) : d.children[q][i] = c
<1>1. d.children[q] \in Seq(Names)
  BY DEF People
<1> QED
  BY <1>1, LenProperties DEF IsChild, Range

\* Appending to a list adds one child, and none twice if it was not there.
LEMMA LinkChildren ==
  ASSUME NEW d \in People, NEW e \in People, NEW q \in Names, NEW c \in Names,
         e.children = [d.children EXCEPT ![q] = Append(d.children[q], c)]
  PROVE  /\ \A r \in Names, k \in Names :
               IsChild(e, r, k) <=> IsChild(d, r, k) \/ (r = q /\ k = c)
         /\ ~IsChild(d, q, c) /\ ChildrenOnce(d) => ChildrenOnce(e)
<1> DEFINE old == d.children[q]
           new == e.children[q]
<1>1. d.children \in [Names -> Seq(Names)] /\ e.children \in [Names -> Seq(Names)]
  BY DEF People
<1>2. /\ new = Append(old, c) /\ old \in Seq(Names)
      /\ \A r \in Names : r # q => e.children[r] = d.children[r]
  BY <1>1
<1>3. /\ Len(new) = Len(old) + 1 /\ Len(old) \in Nat
      /\ \A i \in 1..Len(old) : new[i] = old[i]
      /\ new[Len(old) + 1] = c
      /\ DOMAIN new = 1..Len(new) /\ DOMAIN old = 1..Len(old)
  BY <1>1, <1>2, AppendProperties, LenProperties
<1> HIDE DEF old, new
<1>4. ASSUME NEW r \in Names, NEW k \in Names
      PROVE  IsChild(e, r, k) <=> IsChild(d, r, k) \/ (r = q /\ k = c)
  <2>1. CASE r = q
    <3>1. IsChild(d, q, k) <=> \E i \in 1..Len(old) : old[i] = k
      BY <1>3 DEF IsChild, Range, old
    <3>2. IsChild(e, q, k) <=> \E i \in 1..Len(new) : new[i] = k
      BY <1>3 DEF IsChild, Range, new
    <3> QED
      BY <2>1, <3>1, <3>2, <1>3
  <2>2. CASE r # q
    BY <2>2, <1>2 DEF IsChild
  <2> QED
    BY <2>1, <2>2
<1>5. ASSUME ~IsChild(d, q, c), ChildrenOnce(d), NEW r \in Names
      PROVE  IsInjective(e.children[r])
  <2>1. CASE r = q
    <3>1. \A i \in 1..Len(old) : old[i] # c
      BY <1>5, ChildPlaces DEF old
    <3>2. IsInjective(old)
      BY <1>5 DEF ChildrenOnce, old
    <3>3. IsInjective(new)
      BY <3>1, <3>2, <1>3 DEF IsInjective
    <3> QED
      BY <2>1, <3>3 DEF new
  <2>2. CASE r # q
    BY <2>2, <1>2, <1>5 DEF ChildrenOnce
  <2> QED
    BY <2>1, <2>2
<1> QED
  BY <1>4, <1>5 DEF ChildrenOnce

\* From d and its parents `old' of sex t to e and `new': q, of sex s, has gained c.
Gained(d, e, old, new, s, q, c, t) ==
    /\ e.people = d.people \cup {q, c}
    /\ \A k \in Names : new[k] = IF s = t /\ k = c THEN q ELSE old[k]
    /\ \A r \in Names : e.sex[r] = IF r = q THEN s ELSE d.sex[r]
    /\ \A r \in Names, k \in Names :
         IsChild(e, r, k) <=> IsChild(d, r, k) \/ (r = q /\ k = c)

\* A new link keeps the links of one sex mutual, whichever sex it is of.
LEMMA LinkKeepsMutual ==
  ASSUME NEW d, NEW e, NEW s \in {"M", "F"}, NEW q \in Names, NEW c \in Names,
         NEW t \in {"M", "F"}, NEW old \in [Names -> Names \cup {NoName}], NEW new,
         Gained(d, e, old, new, s, q, c, t),
         Mutual(d, old, t), ParentsKnown(d), d.sex[q] \in {"none", s}
  PROVE  Mutual(e, new, t)
<1> USE DEF Gained
<1>1. NoName \notin Names
  BY FamtreeAssumption DEF NoName
<1>2. ASSUME NEW k \in Names, new[k] # NoName
      PROVE  new[k] \in e.people /\ e.sex[new[k]] = t /\ IsChild(e, new[k], k)
  <2>1. CASE s = t /\ k = c
    BY <2>1
  <2>2. CASE ~(s = t /\ k = c)
    <3>1. new[k] = old[k] /\ old[k] \in Names
      BY <2>2, <1>2
    <3>2. old[k] \in d.people /\ d.sex[old[k]] = t /\ IsChild(d, old[k], k)
      BY <3>1, <1>2 DEF Mutual
    <3> QED
      BY <3>1, <3>2
  <2> QED
    BY <2>1, <2>2
<1>3. ASSUME NEW k \in Names, NEW r \in Names, IsChild(e, r, k)
      PROVE  k \in e.people /\ (e.sex[r] = t => new[k] # NoName)
  <2>1. CASE IsChild(d, r, k)
    <3>1. k \in d.people /\ (d.sex[r] = t => old[k] # NoName)
      BY <2>1 DEF Mutual
    <3>2. d.sex[r] \in {"M", "F"}
      BY <2>1 DEF ParentsKnown
    <3>3. e.sex[r] = t => d.sex[r] = t
      BY <3>2
    <3> QED
      BY <3>1, <3>3, <1>1
  <2>2. CASE r = q /\ k = c
    BY <2>2, <1>1
  <2> QED
    BY <1>3, <2>1, <2>2
<1> QED
  BY <1>2, <1>3 DEF Mutual

\* A new link keeps a family a family.
LEMMA LinkKeepsFamily ==
  ASSUME NEW d, NEW e, NEW s \in {"M", "F"}, NEW q \in Names, NEW c \in Names,
         Family(d), Linked(d, e, s, q, c),
         d.sex[q] \in {"none", s}, ~IsChild(d, q, c)
  PROVE  Family(e)
<1> USE FamtreeAssumption
<1>1. d \in People /\ e \in People
  BY DEF Family, Linked
<1>2. /\ \A r \in Names, k \in Names :
            IsChild(e, r, k) <=> IsChild(d, r, k) \/ (r = q /\ k = c)
      /\ ChildrenOnce(e)
  BY <1>1, LinkChildren DEF Linked, Family
<1>3. \A r \in Names : e.sex[r] = IF r = q THEN s ELSE d.sex[r]
  BY <1>1 DEF Linked, People
<1>4. ParentsKnown(e)
  BY <1>2, <1>3 DEF ParentsKnown, Family, Linked
<1>5. Mutual(e, e.father, "M")
  <2>1. \A k \in Names : e.father[k] = IF s = "M" /\ k = c THEN q ELSE d.father[k]
    BY <1>1 DEF Linked, People
  <2>2. d.father \in [Names -> Names \cup {NoName}]
    BY <1>1 DEF People
  <2>3. Gained(d, e, d.father, e.father, s, q, c, "M")
    BY <2>1, <1>2, <1>3 DEF Gained, Linked
  <2> QED
    BY <2>2, <2>3, LinkKeepsMutual DEF Family
<1>6. Mutual(e, e.mother, "F")
  <2>1. \A k \in Names : e.mother[k] = IF s = "F" /\ k = c THEN q ELSE d.mother[k]
    BY <1>1 DEF Linked, People
  <2>2. d.mother \in [Names -> Names \cup {NoName}]
    BY <1>1 DEF People
  <2>3. Gained(d, e, d.mother, e.mother, s, q, c, "F")
    BY <2>1, <1>2, <1>3 DEF Gained, Linked
  <2> QED
    BY <2>2, <2>3, LinkKeepsMutual DEF Family
<1> QED
  BY <1>1, <1>2, <1>4, <1>5, <1>6 DEF Family

(***************************************************************************)
(* What the functions of person.c return.                                  *)
(***************************************************************************)

\* A new node changes nothing but the set of people and a key.
LEMMA NewPersonFields ==
  ASSUME NEW d \in People, NEW n \in Names, NEW k \in Key
  PROVE  LET e == new_person_name(d, n, k) IN
         /\ e \in People /\ e.people = d.people \cup {n}
         /\ e.sex = d.sex /\ e.father = d.father /\ e.mother = d.mother
         /\ e.children = d.children
  BY DEF new_person_name, People

\* setSex changes one sex.
LEMMA SetSexFields ==
  ASSUME NEW d \in People, NEW n \in Names, NEW s \in Sexes
  PROVE  LET e == setSex(d, n, s) IN
         /\ e \in People /\ e.people = d.people
         /\ e.sex = [d.sex EXCEPT ![n] = s] /\ e.father = d.father
         /\ e.mother = d.mother /\ e.children = d.children
  BY DEF setSex, People

\* The keys that addChild and getParent give a node are keys.
LEMMA KeysAreKeys ==
  /\ OwnName \in Key
  /\ \A s \in {"M", "F"}, c \in Names : <<Side[s], c>> \in Key
  BY DEF OwnName, Key, NoName, Side

\* addChild links a child that it has not found, and makes it a person.
LEMMA AddChildLinks ==
  ASSUME NEW d \in People, NEW s \in {"M", "F"}, NEW q \in Names, NEW c \in Names,
         q \in d.people, d.sex[q] = s, ~IsChild(d, q, c)
  PROVE  Linked(d, addChild(d, q, c), s, q, c)
<1> DEFINE e == IF c \in d.people THEN d ELSE new_person_name(d, c, OwnName)
           g == addChild(d, q, c)
<1>1. /\ e \in People /\ e.people = d.people \cup {c}
      /\ e.sex = d.sex /\ e.father = d.father /\ e.mother = d.mother
      /\ e.children = d.children
  BY NewPersonFields, KeysAreKeys
<1>2. g = [e EXCEPT ![Side[d.sex[q]]][c] = q, !.children[q] = Append(@, c)]
  BY DEF addChild
<1> HIDE DEF e
<1>3. e.children[q] \in Seq(Names)
  BY <1>1 DEF People
<1>4. Append(e.children[q], c) \in Seq(Names)
  BY <1>3, AppendProperties
<1> HIDE DEF g
<1>5. CASE s = "M"
  <2>1. Side[d.sex[q]] = "father"
    BY <1>5 DEF Side
  <2>2. g = [e EXCEPT !["father"][c] = q, !.children[q] = Append(e.children[q], c)]
    BY <1>2, <2>1
  <2>3. g = [e EXCEPT !.father = [e.father EXCEPT ![c] = q],
                      !.children = [e.children EXCEPT ![q] = Append(e.children[q], c)]]
    BY <2>2, <1>1 DEF People
  <2>4. /\ g.people = e.people /\ g.sex = e.sex /\ g.mother = e.mother
        /\ g.father = [e.father EXCEPT ![c] = q]
        /\ g.children = [e.children EXCEPT ![q] = Append(e.children[q], c)]
        /\ g \in People
    BY <2>3, <1>1, <1>4 DEF People
  <2>5. g.sex = [d.sex EXCEPT ![q] = s]
    BY <2>4, <1>1 DEF People
  <2> QED
    BY <2>4, <2>5, <1>1, <1>5 DEF Linked, g
<1>6. CASE s = "F"
  <2>1. Side[d.sex[q]] = "mother"
    BY <1>6 DEF Side
  <2>2. g = [e EXCEPT !["mother"][c] = q, !.children[q] = Append(e.children[q], c)]
    BY <1>2, <2>1
  <2>3. g = [e EXCEPT !.mother = [e.mother EXCEPT ![c] = q],
                      !.children = [e.children EXCEPT ![q] = Append(e.children[q], c)]]
    BY <2>2, <1>1 DEF People
  <2>4. /\ g.people = e.people /\ g.sex = e.sex /\ g.father = e.father
        /\ g.mother = [e.mother EXCEPT ![c] = q]
        /\ g.children = [e.children EXCEPT ![q] = Append(e.children[q], c)]
        /\ g \in People
    BY <2>3, <1>1, <1>4 DEF People
  <2>5. g.sex = [d.sex EXCEPT ![q] = s]
    BY <2>4, <1>1 DEF People
  <2> QED
    BY <2>4, <2>5, <1>1, <1>6 DEF Linked, g
<1> QED
  BY <1>5, <1>6

\* Where the child is known already the parent has the sex and nothing changes.
LEMMA NoNews ==
  ASSUME NEW d, Family(d), NEW s \in {"M", "F"}, NEW q \in Names, NEW c \in Names,
         d.sex[q] \in {"none", s}, IsChild(d, q, c)
  PROVE  /\ q \in d.people /\ d.sex[q] = s
         /\ addChild(setSex(d, q, s), q, c) = d
<1>1. q \in d.people /\ d.sex[q] = s
  BY DEF Family, ParentsKnown
<1>2. setSex(d, q, s) = d
  BY <1>1 DEF setSex, Family, People
<1> QED
  BY <1>1, <1>2 DEF addChild

\* A lookup of a parent that is there changes nothing.
LEMMA LookupChangesNothing ==
  ASSUME NEW d, Family(d), NEW c \in Names
  PROVE  getFather(d, c) = d /\ getMother(d, c) = d
<1>1. /\ d.father[c] \in Names \cup {NoName} /\ d.mother[c] \in Names \cup {NoName}
  BY DEF Family, People
<1>2. getFather(d, c) = d
  <2>1. CASE d.father[c] = NoName
    BY <2>1 DEF getFather, getParent, Side
  <2>2. CASE d.father[c] # NoName
    <3>1. /\ d.father[c] \in d.people /\ d.sex[d.father[c]] = "M"
          /\ IsChild(d, d.father[c], c)
      BY <2>2 DEF Family, Mutual
    <3>2. addChild(setSex(d, d.father[c], "M"), d.father[c], c) = d
      BY <1>1, <2>2, <3>1, NoNews
    <3> QED
      BY <2>2, <3>1, <3>2 DEF getFather, getParent, Side
  <2> QED
    BY <2>1, <2>2
<1>3. getMother(d, c) = d
  <2>1. CASE d.mother[c] = NoName
    BY <2>1 DEF getMother, getParent, Side
  <2>2. CASE d.mother[c] # NoName
    <3>1. /\ d.mother[c] \in d.people /\ d.sex[d.mother[c]] = "F"
          /\ IsChild(d, d.mother[c], c)
      BY <2>2 DEF Family, Mutual
    <3>2. addChild(setSex(d, d.mother[c], "F"), d.mother[c], c) = d
      BY <1>1, <2>2, <3>1, NoNews
    <3> QED
      BY <2>2, <3>1, <3>2 DEF getMother, getParent, Side
  <2> QED
    BY <2>1, <2>2
<1> QED
  BY <1>2, <1>3

\* setSex keeps a family: the sex of somebody with children is not set anew.
LEMMA SetSexKeepsFamily ==
  ASSUME NEW d, Family(d), NEW n \in Names, NEW s \in Sexes, d.sex[n] \in {"none", s}
  PROVE  Family(setSex(d, n, s))
<1> DEFINE e == setSex(d, n, s)
<1>1. /\ e \in People /\ e.people = d.people /\ e.father = d.father
      /\ e.mother = d.mother /\ e.children = d.children
      /\ \A r \in Names : e.sex[r] = IF r = n THEN s ELSE d.sex[r]
  <2>1. d \in People
    BY DEF Family
  <2>2. /\ e \in People /\ e.people = d.people /\ e.father = d.father
        /\ e.mother = d.mother /\ e.children = d.children
        /\ e.sex = [d.sex EXCEPT ![n] = s]
    BY <2>1, SetSexFields
  <2> HIDE DEF e
  <2> QED
    BY <2>1, <2>2 DEF People
<1> HIDE DEF e
<1>2. /\ \A r, k : IsChild(e, r, k) <=> IsChild(d, r, k)
      /\ ChildrenOnce(e)
  BY <1>1 DEF IsChild, ChildrenOnce, Family
<1>3. "none" \notin {"M", "F"}
  OBVIOUS
<1>4. \A r, k \in Names : IsChild(d, r, k) => e.sex[r] = d.sex[r]
  BY <1>1, <1>3 DEF Family, ParentsKnown
<1>5. \A r \in Names : d.sex[r] \in {"M", "F"} => e.sex[r] = d.sex[r]
  BY <1>1, <1>3
<1>6. ParentsKnown(e)
  BY <1>1, <1>2, <1>4 DEF Family, ParentsKnown
<1>7. d.father \in [Names -> Names \cup {NoName}] /\ d.mother \in [Names -> Names \cup {NoName}]
  BY DEF Family, People
<1>8. Mutual(e, e.father, "M")
  BY <1>1, <1>2, <1>4, <1>5, <1>7 DEF Family, Mutual
<1>9. Mutual(e, e.mother, "F")
  BY <1>1, <1>2, <1>4, <1>5, <1>7 DEF Family, Mutual
<1> QED
  BY <1>1, <1>2, <1>6, <1>8, <1>9 DEF Family, e

\* A PERSON line keeps a family.
LEMMA NewPersonKeepsFamily ==
  ASSUME NEW d, Family(d), NEW n \in Names, NEW k \in Key
  PROVE  Family(new_person_name(d, n, k))
<1> DEFINE e == new_person_name(d, n, k)
<1>1. /\ d \in People
      /\ e \in People /\ e.people = d.people \cup {n} /\ e.sex = d.sex
      /\ e.father = d.father /\ e.mother = d.mother /\ e.children = d.children
  BY NewPersonFields DEF Family
<1> HIDE DEF e
<1>2. \A r, c : IsChild(e, r, c) <=> IsChild(d, r, c)
  BY <1>1 DEF IsChild
<1>3. ParentsKnown(e) /\ ChildrenOnce(e)
  BY <1>1, <1>2 DEF Family, ParentsKnown, ChildrenOnce
<1>4. Mutual(e, e.father, "M")
  BY <1>1, <1>2 DEF Family, Mutual
<1>5. Mutual(e, e.mother, "F")
  BY <1>1, <1>2 DEF Family, Mutual
<1> QED
  BY <1>1, <1>3, <1>4, <1>5 DEF Family, e

\* A FATHER_OF or MOTHER_OF line keeps a family.
LEMMA ChildLineKeepsFamily ==
  ASSUME NEW d, Family(d), NEW s \in {"M", "F"}, NEW q \in d.people, NEW c \in Names,
         d.sex[q] \in {"none", s}
  PROVE  LET e == addChild(setSex(d, q, s), q, c) IN
         Family(e) /\ d.people \subseteq e.people
<1> DEFINE f == setSex(d, q, s)
           e == addChild(f, q, c)
<1>1. d \in People /\ q \in Names /\ s \in Sexes
  BY FamtreeAssumption DEF Family, People
<1>2. CASE IsChild(d, q, c)
  BY <1>1, <1>2, NoNews
<1>3. CASE ~IsChild(d, q, c)
  <2>1. Family(f)
    BY <1>1, SetSexKeepsFamily
  <2>2. /\ f \in People /\ f.people = d.people /\ f.children = d.children
        /\ f.sex = [d.sex EXCEPT ![q] = s]
    BY <1>1, SetSexFields
  <2> HIDE DEF f
  <2>3. f.sex[q] = s /\ ~IsChild(f, q, c)
    BY <1>1, <1>3, <2>2 DEF IsChild, People
  <2>4. Linked(f, e, s, q, c)
    BY <1>1, <2>2, <2>3, AddChildLinks
  <2> HIDE DEF e
  <2>5. Family(e)
    BY <1>1, <2>1, <2>3, <2>4, LinkKeepsFamily
  <2>6. d.people \subseteq e.people
    BY <2>2, <2>4 DEF Linked
  <2> QED
    BY <2>5, <2>6 DEF e, f
<1> QED
  BY <1>2, <1>3

\* The people with a parent noted who may not know the child yet.
Noted(d, s, c, n) == [d EXCEPT ![Side[s]][c] = n]

\* What noting a parent changes.
LEMMA NotedFields ==
  ASSUME NEW d \in People, NEW s \in {"M", "F"}, NEW c \in Names, NEW n \in Names
  PROVE  LET e == Noted(d, s, c, n) IN
         /\ e \in People /\ e.people = d.people /\ e.sex = d.sex
         /\ e.children = d.children
         /\ e.father = IF s = "M" THEN [d.father EXCEPT ![c] = n] ELSE d.father
         /\ e.mother = IF s = "F" THEN [d.mother EXCEPT ![c] = n] ELSE d.mother
         /\ e[Side[s]][c] = n
<1> DEFINE e == Noted(d, s, c, n)
<1>1. CASE s = "M"
  <2>1. e = [d EXCEPT !["father"][c] = n] /\ Side[s] = "father"
    BY <1>1 DEF Noted, Side
  <2>2. e = [d EXCEPT !.father = [d.father EXCEPT ![c] = n]]
    BY <2>1 DEF People
  <2> HIDE DEF e
  <2>3. /\ e \in People /\ e.people = d.people /\ e.sex = d.sex
        /\ e.children = d.children /\ e.mother = d.mother
        /\ e.father = [d.father EXCEPT ![c] = n]
    BY <2>2 DEF People
  <2>4. e[Side[s]] = e.father
    BY <2>1, <2>3 DEF People
  <2>5. e[Side[s]][c] = n
    BY <2>3, <2>4 DEF People
  <2> QED
    BY <2>3, <2>5, <1>1 DEF e
<1>2. CASE s = "F"
  <2>1. e = [d EXCEPT !["mother"][c] = n] /\ Side[s] = "mother"
    BY <1>2 DEF Noted, Side
  <2>2. e = [d EXCEPT !.mother = [d.mother EXCEPT ![c] = n]]
    BY <2>1 DEF People
  <2> HIDE DEF e
  <2>3. /\ e \in People /\ e.people = d.people /\ e.sex = d.sex
        /\ e.children = d.children /\ e.father = d.father
        /\ e.mother = [d.mother EXCEPT ![c] = n]
    BY <2>2 DEF People
  <2>4. e[Side[s]] = e.mother
    BY <2>1, <2>3 DEF People
  <2>5. e[Side[s]][c] = n
    BY <2>3, <2>4 DEF People
  <2> QED
    BY <2>3, <2>5, <1>2 DEF e
<1> QED
  BY <1>1, <1>2

\* Each parent that is noted knows the child.
LEMMA NotedParentKnows ==
  ASSUME NEW d, Family(d), NEW s \in {"M", "F"}, NEW c \in Names, d[Side[s]][c] # NoName
  PROVE  LET n == d[Side[s]][c] IN
         n \in Names /\ n \in d.people /\ d.sex[n] = s /\ IsChild(d, n, c)
<1>1. CASE s = "M"
  <2>1. d[Side[s]] = d.father
    BY <1>1 DEF Side, Family, People
  <2> QED
    BY <2>1, <1>1 DEF Family, Mutual, People
<1>2. CASE s = "F"
  <2>1. d[Side[s]] = d.mother
    BY <1>2 DEF Side, Family, People
  <2> QED
    BY <2>1, <1>2 DEF Family, Mutual, People
<1> QED
  BY <1>1, <1>2

\* Noting what is noted changes nothing.
LEMMA NotedAgain ==
  ASSUME NEW d \in People, NEW s \in {"M", "F"}, NEW c \in Names, NEW n \in Names,
         d[Side[s]][c] = n
  PROVE  Noted(d, s, c, n) = d
<1>1. CASE s = "M"
  <2>1. Noted(d, s, c, n) = [d EXCEPT !["father"][c] = n] /\ d["father"][c] = n
    BY <1>1 DEF Noted, Side
  <2> QED
    BY <2>1 DEF People
<1>2. CASE s = "F"
  <2>1. Noted(d, s, c, n) = [d EXCEPT !["mother"][c] = n] /\ d["mother"][c] = n
    BY <1>2 DEF Noted, Side
  <2> QED
    BY <2>1 DEF People
<1> QED
  BY <1>1, <1>2

\* A FATHER or MOTHER line keeps a family.
LEMMA ParentLineKeepsFamily ==
  ASSUME NEW d, Family(d), NEW s \in {"M", "F"}, NEW c \in d.people, NEW n \in Names,
         d[Side[s]][c] \in {NoName, n}, d.sex[n] \in {"none", s}
  PROVE  LET g == getParent(Noted(d, s, c, n), c, s) IN
         Family(g) /\ d.people \subseteq g.people
<1> DEFINE dd == Noted(d, s, c, n)
           e == IF n \in dd.people THEN dd ELSE new_person_name(dd, n, <<Side[s], c>>)
           f == setSex(e, n, s)
           g == getParent(dd, c, s)
<1>1. d \in People /\ c \in Names /\ s \in Sexes
  BY FamtreeAssumption DEF Family, People
<1>2. /\ dd \in People /\ dd.people = d.people /\ dd.sex = d.sex
      /\ dd.children = d.children
      /\ dd.father = IF s = "M" THEN [d.father EXCEPT ![c] = n] ELSE d.father
      /\ dd.mother = IF s = "F" THEN [d.mother EXCEPT ![c] = n] ELSE d.mother
      /\ dd[Side[s]][c] = n
  BY <1>1, NotedFields
<1>3. g = addChild(f, n, c)
  <2>1. n # NoName
    BY FamtreeAssumption DEF NoName
  <2> HIDE DEF dd
  <2> QED
    BY <1>2, <2>1 DEF getParent
<1>4. CASE IsChild(d, n, c)
  <2>1. n \in d.people /\ d.sex[n] = s /\ addChild(setSex(d, n, s), n, c) = d
    BY <1>1, <1>4, NoNews
  <2>2. d[Side[s]][c] # NoName
    <3>1. CASE s = "M"
      <4>1. d[Side[s]] = d.father
        BY <3>1, <1>1 DEF Side, People
      <4> QED
        BY <4>1, <3>1, <2>1, <1>1, <1>4 DEF Family, Mutual
    <3>2. CASE s = "F"
      <4>1. d[Side[s]] = d.mother
        BY <3>2, <1>1 DEF Side, People
      <4> QED
        BY <4>1, <3>2, <2>1, <1>1, <1>4 DEF Family, Mutual
    <3> QED
      BY <3>1, <3>2
  <2>3. dd = d
    BY <1>1, <2>2, NotedAgain
  <2>4. e = d
    BY <2>1, <2>3
  <2> HIDE DEF dd, e
  <2>5. g = d
    BY <1>3, <2>1, <2>4
  <2> HIDE DEF g
  <2> QED
    BY <2>5 DEF g, dd
<1>5. CASE ~IsChild(d, n, c)
  <2>1. <<Side[s], c>> \in Key
    BY <1>1, KeysAreKeys
  <2> HIDE DEF dd
  <2>2. /\ e \in People /\ e.people = d.people \cup {n} /\ e.sex = d.sex
        /\ e.father = dd.father /\ e.mother = dd.mother /\ e.children = d.children
    BY <1>2, <2>1, NewPersonFields
  <2> HIDE DEF e
  <2>3. /\ f \in People /\ f.people = e.people /\ f.sex = [e.sex EXCEPT ![n] = s]
        /\ f.father = e.father /\ f.mother = e.mother /\ f.children = e.children
    BY <1>1, <2>2, SetSexFields
  <2> HIDE DEF f
  <2>4. n \in f.people /\ f.sex[n] = s /\ ~IsChild(f, n, c)
    BY <2>2, <2>3, <1>5 DEF IsChild, People
  <2> HIDE DEF g
  <2>5. Linked(f, g, s, n, c)
    <3>1. Linked(f, addChild(f, n, c), s, n, c)
      BY <1>1, <2>3, <2>4, AddChildLinks
    <3> QED
      BY <3>1, <1>3
  <2> DEFINE Twice(h) == [[h EXCEPT ![c] = n] EXCEPT ![c] = n] = [h EXCEPT ![c] = n]
  <2>6. Twice(d.father) /\ Twice(d.mother)
    <3>1. /\ d.father \in [Names -> Names \cup {NoName}]
          /\ d.mother \in [Names -> Names \cup {NoName}]
      BY <1>1 DEF People
    <3> QED
      BY <3>1
  <2>7. g.father = IF s = "M" THEN [d.father EXCEPT ![c] = n] ELSE d.father
    <3>1. f.father = IF s = "M" THEN [d.father EXCEPT ![c] = n] ELSE d.father
      BY <1>2, <2>2, <2>3
    <3>2. g.father = IF s = "M" THEN [f.father EXCEPT ![c] = n] ELSE f.father
      BY <2>5 DEF Linked
    <3> QED
      BY <3>1, <3>2, <2>6
  <2>8. g.mother = IF s = "F" THEN [d.mother EXCEPT ![c] = n] ELSE d.mother
    <3>1. f.mother = IF s = "F" THEN [d.mother EXCEPT ![c] = n] ELSE d.mother
      BY <1>2, <2>2, <2>3
    <3>2. g.mother = IF s = "F" THEN [f.mother EXCEPT ![c] = n] ELSE f.mother
      BY <2>5 DEF Linked
    <3> QED
      BY <3>1, <3>2, <2>6
  <2>9. g.sex = [d.sex EXCEPT ![n] = s]
    <3>1. f.sex = [d.sex EXCEPT ![n] = s] /\ g.sex = [f.sex EXCEPT ![n] = s]
      BY <2>2, <2>3, <2>5 DEF Linked
    <3>2. d.sex \in [Names -> Sexes \cup {"none"}]
      BY <1>1 DEF People
    <3> QED
      BY <3>1, <3>2
  <2>10. /\ g \in People /\ g.people = d.people \cup {n, c}
        /\ g.children = [d.children EXCEPT ![n] = Append(d.children[n], c)]
    BY <2>2, <2>3, <2>5 DEF Linked
  <2>11. Linked(d, g, s, n, c)
    BY <2>7, <2>8, <2>9, <2>10 DEF Linked
  <2>12. Family(g)
    BY <1>1, <1>5, <2>11, LinkKeepsFamily
  <2> QED
    BY <2>10, <2>12 DEF g, dd
<1> QED
  BY <1>4, <1>5

(***************************************************************************)
(* The inductive invariant.                                                *)
(***************************************************************************)

Calls == Seq([who : Names, left : Seq(Names)])

Typed ==
    /\ TypeOK /\ Family(db)
    /\ p # NoName => p \in db.people
    /\ todo \subseteq db.people
    /\ stack \in Calls /\ queue \in Seq(Names) /\ out \in Seq(Names)

\* The checks and the printing start from nothing.
Fresh ==
    phase = "read" =>
        /\ todo = {} /\ stack = <<>> /\ visited = [n \in Names |-> 0]
        /\ queue = <<>> /\ out = <<>>

\* Who is marked 2 is on the stack, once, above a parent.
OnStack(stk, vis) ==
    /\ \A n \in Names : vis[n] = 2 <=> \E i \in 1..Len(stk) : stk[i].who = n
    /\ \A i, j \in 1..Len(stk) : stk[i].who = stk[j].who => i = j
    /\ \A i \in 1..Len(stk) : stk[i].who \in db.people
    /\ \A i \in 1..Len(stk) - 1 : IsChild(db, stk[i + 1].who, stk[i].who)

\* The children of each person on the stack: still left, done, or the next on
\* the stack; of the uppermost also n, which is about to be called.
LeftBut(stk, vis, n) ==
    \A i \in 1..Len(stk) :
        /\ Range(stk[i].left) \subseteq Range(db.children[stk[i].who])
        /\ \A c \in Names : IsChild(db, stk[i].who, c) =>
              \/ c \in Range(stk[i].left) \/ vis[c] = 1
              \/ i > 1 /\ c = stk[i - 1].who
              \/ i = 1 /\ c = n

\* Who is done has only children who are, and there is no cycle among them.
DoneMeans(vis) ==
    /\ \A n \in Names : vis[n] = 1 =>
         \A c \in Names : IsChild(db, n, c) => vis[c] = 1
    /\ \A S \in SUBSET Names :
         S # {} /\ (\A n \in S : vis[n] = 1) =>
            ~\A q \in S : \E c \in S : IsChild(db, q, c)

Search(stk, vis, n) ==
    /\ stk \in Calls /\ vis \in [Names -> 0..2]
    /\ OnStack(stk, vis) /\ LeftBut(stk, vis, n) /\ DoneMeans(vis)

Checking ==
    phase = "check" =>
        /\ Search(stack, visited, NoName)
        /\ \A n \in db.people \ todo : visited[n] # 0

Inv == Typed /\ Fresh /\ Checking /\ CycleCheckRight /\ ParentsFirst

\* What Family says of types.
LEMMA FamilyTyped ==
  ASSUME NEW d, Family(d)
  PROVE  /\ d.people \subseteq Names
         /\ d.sex \in [Names -> Sexes \cup {"none"}]
         /\ d.father \in [Names -> Names \cup {NoName}]
         /\ d.mother \in [Names -> Names \cup {NoName}]
         /\ \A n \in Names : /\ Range(d.children[n]) \subseteq Names
                            /\ IsInjective(d.children[n])
<1>1. d \in People
  BY DEF Family
<1>2. \A n \in Names : d.children[n] \in Seq(Names)
  BY <1>1 DEF People
<1>3. \A n \in Names : Range(d.children[n]) \subseteq Names
  BY <1>2, RangeOfSeq
<1> QED
  BY <1>1, <1>3 DEF Family, ChildrenOnce, People

\* The initial state.
LEMMA InitInv == Init => Inv
<1> SUFFICES ASSUME Init PROVE Inv
  OBVIOUS
<1> USE DEF Init
<1>1. db \in People
  BY KeysAreKeys DEF new_person, People, NoName
<1>2. /\ db.people = {} /\ \A q \in Names : db.children[q] = <<>>
      /\ \A q \in Names : db.father[q] = NoName /\ db.mother[q] = NoName
  BY DEF new_person
<1>3. \A q \in Names : \A c : ~IsChild(db, q, c)
  BY <1>2 DEF IsChild, Range
<1>4. ChildrenOnce(db)
  BY <1>2 DEF ChildrenOnce, IsInjective
<1>5. Family(db)
  BY <1>1, <1>2, <1>3, <1>4 DEF Family, Mutual, ParentsKnown
<1>6. Range(queue) = {} /\ Range(out) = {}
  BY DEF Range
<1>7. TypeOK
  BY <1>5, <1>6, FamilyTyped DEF TypeOK
<1>8. Typed
  BY <1>5, <1>7 DEF Typed, Calls
<1>9. ParentsFirst /\ CycleCheckRight /\ Checking /\ Fresh
  BY DEF ParentsFirst, CycleCheckRight, Checking, Fresh
<1> QED
  BY <1>8, <1>9 DEF Inv

\* While lines are read only the people have to be looked at.
LEMMA ReadingKeepsInv ==
  ASSUME Inv, phase = "read", UNCHANGED walk,
         Family(db'), db.people \subseteq db'.people,
         p' \in db'.people \cup {NoName}, phase' \in {"read", "exit", "segv", "broken"}
  PROVE  Inv'
<1>1. /\ todo = {} /\ stack = <<>> /\ visited = [n \in Names |-> 0]
      /\ queue = <<>> /\ out = <<>>
  BY DEF Inv, Fresh
<1>2. Range(queue) = {} /\ Range(out) = {}
  BY <1>1 DEF Range
<1>3. TypeOK'
  BY <1>1, <1>2, FamilyTyped DEF TypeOK, walk, Ended
<1>4. Typed'
  BY <1>1, <1>3 DEF Typed, Calls, walk
<1>5. (ParentsFirst /\ CycleCheckRight /\ Checking /\ Fresh)'
  BY <1>1 DEF ParentsFirst, CycleCheckRight, Checking, Fresh, walk
<1> QED
  BY <1>4, <1>5 DEF Inv

\* main's loop.
LEMMA ReadLineKeepsInv == Inv /\ ReadLine => Inv'
<1> SUFFICES ASSUME Inv, ReadLine PROVE Inv'
  OBVIOUS
<1> USE FamtreeAssumption
<1>1. /\ Family(db) /\ db \in People /\ phase = "read" /\ p \in db.people \cup {NoName}
      /\ db.people \subseteq Names /\ p \in Names \cup {NoName}
      /\ UNCHANGED walk
  <2>1. phase = "read" /\ UNCHANGED walk
    BY DEF ReadLine, PersonLine, SexLine, setFather, setMother, setParent, FatherOf,
           MotherOf, ParentOf, NobodyLine, UnknownKey, Reading, walk
  <2> QED
    BY <2>1 DEF Inv, Typed, Family, People, TypeOK
<1>2. ASSUME phase' \in {"exit", "segv"}, UNCHANGED <<db, p>>
      PROVE  Inv'
  BY <1>1, <1>2, ReadingKeepsInv
<1>3. ASSUME NEW n \in Names, PersonLine(n)
      PROVE  Inv'
  <2>1. Family(db') /\ db'.people = db.people \cup {n}
    <3>1. CASE n \in db.people
      BY <3>1, <1>1, <1>3 DEF PersonLine
    <3>2. CASE n \notin db.people
      <4>1. db' = new_person_name(db, n, OwnName)
        BY <3>2, <1>3 DEF PersonLine
      <4> QED
        BY <4>1, <1>1, KeysAreKeys, NewPersonFields, NewPersonKeepsFamily
    <3> QED
      BY <3>1, <3>2
  <2> QED
    BY <1>1, <1>3, <2>1, ReadingKeepsInv DEF PersonLine
<1>4. ASSUME NEW s \in Sexes, SexLine(s)
      PROVE  Inv'
  <2>1. CASE SexMismatch(db, p, s)
    BY <1>2, <1>4, <2>1 DEF SexLine, Fail
  <2>2. CASE ~SexMismatch(db, p, s)
    <3>1. /\ p \in db.people /\ p \in Names /\ db.sex[p] \in {"none", s}
          /\ db' = setSex(db, p, s) /\ UNCHANGED <<p, phase>>
      BY <1>1, <1>4, <2>2 DEF SexLine, SexMismatch
    <3>2. Family(setSex(db, p, s)) /\ setSex(db, p, s).people = db.people
      BY <1>1, <3>1, SetSexFields, SetSexKeepsFamily, ZenonT(30)
    <3> QED
      BY <1>1, <3>1, <3>2, ReadingKeepsInv
  <2> QED
    BY <2>1, <2>2
<1>5. ASSUME NEW s \in {"M", "F"}, NEW n \in Names, setParent(s, n)
      PROVE  Inv'
  <2>1. CASE db[Side[s]][p] \notin {NoName, n} \/ SexMismatch(db, n, s)
    BY <1>2, <1>5, <2>1 DEF setParent, Fail
  <2>2. CASE ~(db[Side[s]][p] \notin {NoName, n} \/ SexMismatch(db, n, s))
    <3> DEFINE g == getParent(Noted(db, s, p, n), p, s)
    <3>1. /\ p \in db.people /\ db[Side[s]][p] \in {NoName, n}
          /\ db.sex[n] \in {"none", s} /\ UNCHANGED <<p, phase>>
      BY <1>1, <1>5, <2>2 DEF setParent, SexMismatch
    <3>2. db' = g
      BY <1>5, <2>2 DEF setParent, getFather, getMother, Noted
    <3>3. Family(g) /\ db.people \subseteq g.people
      BY <1>1, <3>1, ParentLineKeepsFamily
    <3> QED
      BY <1>1, <3>1, <3>2, <3>3, ReadingKeepsInv
  <2> QED
    BY <2>1, <2>2
<1>6. ASSUME NEW s \in {"M", "F"}, NEW c \in Names, ParentOf(s, c)
      PROVE  Inv'
  <2>1. CASE SexMismatch(db, p, s)
    BY <1>2, <1>6, <2>1 DEF ParentOf, Fail
  <2>2. CASE ~SexMismatch(db, p, s)
    <3> DEFINE g == addChild(setSex(db, p, s), p, c)
    <3>1. /\ p \in db.people /\ db.sex[p] \in {"none", s}
          /\ db' = g /\ p' = p /\ phase' \in {"broken", "read"}
      BY <1>1, <1>6, <2>2 DEF ParentOf, SexMismatch
    <3>2. Family(g) /\ db.people \subseteq g.people
      BY <1>1, <3>1, ChildLineKeepsFamily
    <3> QED
      BY <1>1, <3>1, <3>2, ReadingKeepsInv
  <2> QED
    BY <2>1, <2>2
<1>7. CASE NobodyLine
  BY <1>2, <1>7 DEF NobodyLine, Fail
<1>8. CASE UnknownKey
  BY <1>2, <1>8 DEF UnknownKey, Fail
<1> QED
  BY <1>3, <1>4, <1>5, <1>6, <1>7, <1>8
  DEF ReadLine, setFather, setMother, FatherOf, MotherOf

(***************************************************************************)
(* The cycle check, one call or return at a time.                          *)
(***************************************************************************)

\* A set of numbers that is not empty has a least element.
LEMMA MinIn ==
  ASSUME NEW T \in SUBSET Nat, T # {}
  PROVE  Min(T) \in T /\ \A y \in T : Min(T) <= y
<1> DEFINE Less == {ss \in Nat \X Nat : ss[1] < ss[2]}
<1>1. OpToRel(<, Nat) = Less
  BY DEF OpToRel
<1>2. \E x \in T : \A y \in T : <<y, x>> \notin Less
  BY <1>1, NatLessThanWellFounded, WFMin, ZenonT(60)
<1>3. PICK x \in T : \A y \in T : ~(y < x)
  BY <1>2
<1>4. \A y \in T : x <= y
  BY <1>3
<1> QED
  BY <1>4 DEF Min

\* What stands where when an element is put in front.
LEMMA PushFront ==
  ASSUME NEW S, NEW t \in Seq(S), NEW x \in S
  PROVE  LET u == <<x>> \o t IN
         /\ u \in Seq(S) /\ Len(u) = Len(t) + 1 /\ Len(t) \in Nat /\ u[1] = x
         /\ \A i \in 1..Len(t) : u[i + 1] = t[i]
         /\ \A i \in 1..Len(u) : i > 1 => i - 1 \in 1..Len(t) /\ u[i] = t[i - 1]
<1> DEFINE u == <<x>> \o t
<1>1. <<x>> \in Seq(S) /\ Len(<<x>>) = 1 /\ <<x>>[1] = x
  OBVIOUS
<1>2. /\ u \in Seq(S) /\ Len(u) = 1 + Len(t)
      /\ \A i \in 1..1 + Len(t) : u[i] = IF i <= 1 THEN <<x>>[i] ELSE t[i - 1]
  BY <1>1, ConcatProperties
<1>3. Len(t) \in Nat
  BY LenProperties
<1> HIDE DEF u
<1>4. u[1] = x
  BY <1>1, <1>2, <1>3
<1>5. \A i \in 1..Len(t) : u[i + 1] = t[i]
  BY <1>2, <1>3
<1>6. \A i \in 1..Len(u) : i > 1 => i - 1 \in 1..Len(t) /\ u[i] = t[i - 1]
  BY <1>2, <1>3
<1> QED
  BY <1>2, <1>3, <1>4, <1>5, <1>6 DEF u

\* The elements of a sequence are its head and those of its tail.
LEMMA RangeOfTail ==
  ASSUME NEW S, NEW t \in Seq(S), t # <<>>
  PROVE  Range(t) = {Head(t)} \cup Range(Tail(t)) /\ Head(t) = t[1]
<1>1. /\ Tail(t) \in Seq(S) /\ Len(Tail(t)) = Len(t) - 1 /\ Len(t) \in Nat \ {0}
      /\ \A i \in 1..Len(Tail(t)) : Tail(t)[i] = t[i + 1]
      /\ Head(t) = t[1]
  BY HeadTailProperties, EmptySeq
<1>2. /\ Range(t) = {t[i] : i \in 1..Len(t)}
      /\ Range(Tail(t)) = {Tail(t)[i] : i \in 1..Len(Tail(t))}
  BY <1>1, RangeEquality, ZenonT(60)
<1>3. ASSUME NEW x \in Range(t), x # Head(t)
      PROVE  x \in Range(Tail(t))
  <2>1. PICK i \in 1..Len(t) : x = t[i]
    BY <1>2
  <2>2. i - 1 \in 1..Len(Tail(t)) /\ Tail(t)[i - 1] = t[i]
    BY <1>1, <1>3, <2>1
  <2> QED
    BY <1>2, <2>1, <2>2
<1>4. ASSUME NEW x \in Range(Tail(t))
      PROVE  x \in Range(t)
  <2>1. PICK i \in 1..Len(Tail(t)) : x = Tail(t)[i]
    BY <1>2
  <2>2. i + 1 \in 1..Len(t) /\ x = t[i + 1]
    BY <1>1, <2>1
  <2> QED
    BY <1>2, <2>2
<1>5. Head(t) \in Range(t)
  BY <1>1, <1>2
<1> QED
  BY <1>1, <1>3, <1>4, <1>5

\* A call of a person not met yet.
LEMMA CallOpens ==
  ASSUME db \in People, NEW stk, NEW vis, NEW n \in Names,
         Search(stk, vis, n), vis[n] = 0, n \in db.people,
         stk # <<>> => IsChild(db, stk[1].who, n)
  PROVE  Search(<<[who |-> n, left |-> db.children[n]]>> \o stk,
                [vis EXCEPT ![n] = 2], NoName)
<1> DEFINE x == [who |-> n, left |-> db.children[n]]
           stk2 == <<x>> \o stk
           vis2 == [vis EXCEPT ![n] = 2]
<1>1. /\ x \in [who : Names, left : Seq(Names)] /\ x.who = n
      /\ x.left = db.children[n]
  BY DEF People
<1>2. /\ stk2 \in Calls /\ Len(stk2) = Len(stk) + 1 /\ Len(stk) \in Nat /\ stk2[1] = x
      /\ \A i \in 1..Len(stk) : stk2[i + 1] = stk[i]
      /\ \A i \in 1..Len(stk2) : i > 1 => i - 1 \in 1..Len(stk) /\ stk2[i] = stk[i - 1]
  BY <1>1, PushFront DEF Search, Calls
<1>3. /\ vis2 \in [Names -> 0..2]
      /\ \A k \in Names : vis2[k] = IF k = n THEN 2 ELSE vis[k]
      /\ \A k \in Names : vis2[k] = 1 <=> vis[k] = 1
  BY DEF Search
<1>4. /\ OnStack(stk, vis) /\ LeftBut(stk, vis, n) /\ DoneMeans(vis)
      /\ stk \in Calls
  BY DEF Search
<1> HIDE DEF x, stk2, vis2
<1>5. OnStack(stk2, vis2)
  <2>1. \A i \in 1..Len(stk) : stk[i].who # n
    BY <1>4 DEF OnStack
  <2>2. ASSUME NEW k \in Names
        PROVE  vis2[k] = 2 <=> \E i \in 1..Len(stk2) : stk2[i].who = k
    <3>1. CASE k = n
      BY <3>1, <1>1, <1>2, <1>3
    <3>2. CASE k # n
      <4>1. vis2[k] = 2 <=> \E i \in 1..Len(stk) : stk[i].who = k
        BY <3>2, <1>3, <1>4 DEF OnStack
      <4>2. ASSUME NEW i \in 1..Len(stk), stk[i].who = k
            PROVE  \E j \in 1..Len(stk2) : stk2[j].who = k
        <5>1. i + 1 \in 1..Len(stk2) /\ stk2[i + 1] = stk[i]
          BY <1>2
        <5> QED
          BY <5>1, <4>2
      <4>3. ASSUME NEW j \in 1..Len(stk2), stk2[j].who = k
            PROVE  \E i \in 1..Len(stk) : stk[i].who = k
        <5>1. j > 1
          BY <4>3, <3>2, <1>1, <1>2
        <5> QED
          BY <5>1, <4>3, <1>2
      <4> QED
        BY <4>1, <4>2, <4>3
    <3> QED
      BY <3>1, <3>2
  <2>3. ASSUME NEW i \in 1..Len(stk2), NEW j \in 1..Len(stk2), stk2[i].who = stk2[j].who
        PROVE  i = j
    <3>1. CASE i = 1 \/ j = 1
      BY <3>1, <2>1, <2>3, <1>1, <1>2, SMTT(30)
    <3>2. CASE i > 1 /\ j > 1
      <4>1. i - 1 = j - 1
        BY <3>2, <2>3, <1>2, <1>4 DEF OnStack
      <4> QED
        BY <4>1, <1>2
    <3> QED
      BY <3>1, <3>2, <1>2
  <2>4. ASSUME NEW i \in 1..Len(stk2)
        PROVE  stk2[i].who \in db.people
    <3>1. CASE i = 1
      BY <3>1, <1>1, <1>2
    <3>2. CASE i > 1
      BY <3>2, <1>2, <1>4 DEF OnStack
    <3> QED
      BY <3>1, <3>2, <1>2
  <2>5. ASSUME NEW i \in 1..Len(stk2) - 1
        PROVE  IsChild(db, stk2[i + 1].who, stk2[i].who)
    <3>1. i \in 1..Len(stk) /\ stk2[i + 1] = stk[i]
      BY <1>2
    <3>2. CASE i = 1
      <4>1. stk # <<>>
        BY <3>1
      <4> QED
        BY <4>1, <3>1, <3>2, <1>1, <1>2
    <3>3. CASE i > 1
      <4>1. i - 1 \in 1..Len(stk) - 1 /\ stk2[i] = stk[i - 1]
        BY <3>1, <3>3, <1>2
      <4>2. IsChild(db, stk[(i - 1) + 1].who, stk[i - 1].who)
        BY <4>1, <1>4 DEF OnStack
      <4>3. (i - 1) + 1 = i
        BY <3>1
      <4> QED
        BY <3>1, <4>1, <4>2, <4>3
    <3> QED
      BY <3>1, <3>2, <3>3
  <2> QED
    BY <2>2, <2>3, <2>4, <2>5 DEF OnStack
<1>6. LeftBut(stk2, vis2, NoName)
  <2>1. ASSUME NEW i \in 1..Len(stk2), i = 1
        PROVE  /\ Range(stk2[i].left) = Range(db.children[stk2[i].who])
               /\ \A c \in Names : IsChild(db, stk2[i].who, c) => c \in Range(stk2[i].left)
    BY <2>1, <1>1, <1>2 DEF IsChild
  <2>2. ASSUME NEW i \in 1..Len(stk2), i > 1
        PROVE  /\ Range(stk2[i].left) \subseteq Range(db.children[stk2[i].who])
               /\ \A c \in Names : IsChild(db, stk2[i].who, c) =>
                    c \in Range(stk2[i].left) \/ vis2[c] = 1 \/ c = stk2[i - 1].who
    <3> DEFINE k == i - 1
    <3>1. k \in 1..Len(stk) /\ stk2[i] = stk[k]
      BY <2>2, <1>2
    <3>2. /\ Range(stk[k].left) \subseteq Range(db.children[stk[k].who])
          /\ \A c \in Names : IsChild(db, stk[k].who, c) =>
                \/ c \in Range(stk[k].left) \/ vis[c] = 1
                \/ k > 1 /\ c = stk[k - 1].who
                \/ k = 1 /\ c = n
      BY <3>1, <1>4 DEF LeftBut
    <3>3. /\ k > 1 => stk2[k] = stk[k - 1]
          /\ k = 1 => stk2[k].who = n
      BY <3>1, <1>1, <1>2
    <3> QED
      BY <3>1, <3>2, <3>3, <1>3
  <2>3. \A i \in 1..Len(stk2) : i = 1 \/ i > 1
    BY <1>2
  <2> QED
    BY <2>1, <2>2, <2>3 DEF LeftBut
<1>7. DoneMeans(vis2)
  <2>1. \A S \in SUBSET Names : (\A k \in S : vis2[k] = 1) => \A k \in S : vis[k] = 1
    BY <1>3
  <2> QED
    BY <2>1, <1>3, <1>4 DEF DoneMeans
<1> QED
  BY <1>2, <1>3, <1>5, <1>6, <1>7 DEF Search, x, stk2, vis2

\* A call of a person who is done.
LEMMA CallSkips ==
  ASSUME NEW stk, NEW vis, NEW n \in Names, Search(stk, vis, n), vis[n] = 1
  PROVE  Search(stk, vis, NoName)
  BY DEF Search, LeftBut

\* A call of a person on the stack: those above it are a cycle.
LEMMA CallFindsCycle ==
  ASSUME NEW stk, NEW vis, NEW n \in Names, Search(stk, vis, n), vis[n] = 2,
         stk # <<>> => IsChild(db, stk[1].who, n)
  PROVE  HasCycle
<1>1. Len(stk) \in Nat /\ OnStack(stk, vis)
  BY LenProperties DEF Search, Calls
<1>2. PICK m \in 1..Len(stk) : stk[m].who = n
  BY <1>1 DEF OnStack
<1> DEFINE S == {stk[i].who : i \in 1..m}
<1>3. S \in SUBSET db.people /\ S # {}
  BY <1>1, <1>2 DEF OnStack
<1>4. ASSUME NEW i \in 1..m
      PROVE  \E c \in S : IsChild(db, stk[i].who, c)
  <2>1. CASE i = 1
    <3>1. stk # <<>>
      BY <1>2
    <3>2. IsChild(db, stk[i].who, n)
      BY <3>1, <2>1
    <3>3. n \in S
      BY <1>2
    <3> QED
      BY <3>2, <3>3
  <2>2. CASE i > 1
    <3> DEFINE j == i - 1
    <3>1. j \in 1..Len(stk) - 1 /\ j \in 1..m /\ j + 1 = i
      BY <2>2, <1>1, <1>2
    <3>2. IsChild(db, stk[j + 1].who, stk[j].who)
      BY <3>1, <1>1 DEF OnStack
    <3> QED
      BY <3>1, <3>2
  <2> QED
    BY <2>1, <2>2, <1>2
<1> QED
  BY <1>3, <1>4 DEF HasCycle

\* What the stack has on top and below.
LEMMA TopAndRest ==
  ASSUME NEW stk \in Calls, stk # <<>>
  PROVE  /\ Len(stk) \in Nat \ {0} /\ Tail(stk) \in Calls /\ Len(Tail(stk)) = Len(stk) - 1
         /\ \A i \in 1..Len(Tail(stk)) : Tail(stk)[i] = stk[i + 1]
         /\ 1 \in 1..Len(stk) /\ stk[1] \in [who : Names, left : Seq(Names)]
<1> DEFINE Call == [who : Names, left : Seq(Names)]
<1>1. Calls = Seq(Call)
  BY DEF Calls
<1> HIDE DEF Call
<1>2. Len(stk) \in Nat \ {0}
  BY <1>1, EmptySeq
<1>3. /\ Tail(stk) \in Seq(Call) /\ Len(Tail(stk)) = Len(stk) - 1
      /\ \A i \in 1..Len(Tail(stk)) : Tail(stk)[i] = stk[i + 1]
  BY <1>1, HeadTailProperties
<1>4. 1 \in 1..Len(stk) /\ stk[1] \in Call
  BY <1>1, <1>2, ElementOfSeq
<1> QED
  BY <1>1, <1>2, <1>3, <1>4 DEF Call

\* The next child of the uppermost person is taken from what is left.
LEMMA ChildTaken ==
  ASSUME NEW stk, NEW vis, Search(stk, vis, NoName), stk # <<>>, stk[1].left # <<>>
  PROVE  LET n == Head(stk[1].left)
             stk2 == <<[stk[1] EXCEPT !.left = Tail(@)]>> \o Tail(stk)
         IN  /\ n \in Names /\ Search(stk2, vis, n)
             /\ stk2 # <<>> /\ IsChild(db, stk2[1].who, n)
<1> DEFINE n == Head(stk[1].left)
           x == [stk[1] EXCEPT !.left = Tail(@)]
           stk2 == <<x>> \o Tail(stk)
           top == stk[1]
<1>1. /\ stk \in Calls /\ vis \in [Names -> 0..2]
      /\ OnStack(stk, vis) /\ LeftBut(stk, vis, NoName) /\ DoneMeans(vis)
  BY DEF Search
<1>2. /\ Len(stk) \in Nat \ {0} /\ Tail(stk) \in Calls /\ Len(Tail(stk)) = Len(stk) - 1
      /\ \A i \in 1..Len(Tail(stk)) : Tail(stk)[i] = stk[i + 1]
      /\ 1 \in 1..Len(stk) /\ top \in [who : Names, left : Seq(Names)]
  BY <1>1, TopAndRest
<1>3. /\ n \in Names /\ Tail(top.left) \in Seq(Names)
      /\ Range(top.left) = {n} \cup Range(Tail(top.left))
  BY <1>2, HeadTailProperties, RangeOfTail
<1>4. /\ x \in [who : Names, left : Seq(Names)] /\ x.who = top.who
      /\ x.left = Tail(top.left)
  BY <1>2, <1>3
<1>5. /\ stk2 \in Calls /\ Len(stk2) = Len(Tail(stk)) + 1 /\ stk2[1] = x
      /\ \A i \in 1..Len(stk2) : i > 1 => i - 1 \in 1..Len(Tail(stk)) /\ stk2[i] = Tail(stk)[i - 1]
  BY <1>2, <1>4, PushFront DEF Calls
<1> HIDE DEF n, x, stk2, top
<1>6. ASSUME NEW i \in 1..Len(stk2), i > 1
      PROVE  stk2[i] = stk[i]
  <2>1. i - 1 \in 1..Len(Tail(stk)) /\ stk2[i] = Tail(stk)[i - 1]
    BY <1>5, <1>6
  <2>2. Tail(stk)[i - 1] = stk[(i - 1) + 1] /\ (i - 1) + 1 = i
    BY <1>2, <2>1
  <2> QED
    BY <2>1, <2>2
<1>7. Len(stk2) = Len(stk) /\ stk2 # <<>>
  BY <1>2, <1>5
<1>8. \A i \in 1..Len(stk) : stk2[i].who = stk[i].who /\ (i > 1 => stk2[i] = stk[i])
  <2>1. stk2[1].who = stk[1].who
    BY <1>4, <1>5 DEF top
  <2> QED
    BY <2>1, <1>2, <1>6, <1>7
<1>9. OnStack(stk2, vis)
  <2>1. \A k \in Names : vis[k] = 2 <=> \E i \in 1..Len(stk2) : stk2[i].who = k
    BY <1>1, <1>7, <1>8 DEF OnStack
  <2>2. \A i, j \in 1..Len(stk2) : stk2[i].who = stk2[j].who => i = j
    BY <1>1, <1>7, <1>8 DEF OnStack
  <2>3. \A i \in 1..Len(stk2) : stk2[i].who \in db.people
    BY <1>1, <1>7, <1>8 DEF OnStack
  <2>4. ASSUME NEW i \in 1..Len(stk2) - 1
        PROVE  IsChild(db, stk2[i + 1].who, stk2[i].who)
    <3>1. i \in 1..Len(stk) - 1 /\ i \in 1..Len(stk) /\ i + 1 \in 1..Len(stk)
      BY <1>2, <1>7
    <3>2. IsChild(db, stk[i + 1].who, stk[i].who)
      BY <3>1, <1>1 DEF OnStack
    <3> QED
      BY <3>1, <3>2, <1>8
  <2> QED
    BY <2>1, <2>2, <2>3, <2>4 DEF OnStack
<1>10. /\ Range(top.left) \subseteq Range(db.children[top.who])
       /\ \A c \in Names : IsChild(db, top.who, c) => c \in Range(top.left) \/ vis[c] = 1
  <2>1. NoName \notin Names
    BY FamtreeAssumption DEF NoName
  <2>2. /\ Range(stk[1].left) \subseteq Range(db.children[stk[1].who])
        /\ \A c \in Names : IsChild(db, stk[1].who, c) =>
              c \in Range(stk[1].left) \/ vis[c] = 1 \/ c = NoName
    BY <1>1, <1>2 DEF LeftBut
  <2> QED
    BY <2>1, <2>2 DEF top
<1>11. LeftBut(stk2, vis, n)
  <2>1. ASSUME NEW i \in 1..Len(stk2), i = 1
        PROVE  /\ Range(stk2[i].left) \subseteq Range(db.children[stk2[i].who])
               /\ \A c \in Names : IsChild(db, stk2[i].who, c) =>
                    c \in Range(stk2[i].left) \/ vis[c] = 1 \/ c = n
    <3>1. stk2[i].left = Tail(top.left) /\ stk2[i].who = top.who
      BY <2>1, <1>4, <1>5
    <3> QED
      BY <3>1, <1>3, <1>10
  <2>2. ASSUME NEW i \in 1..Len(stk2), i > 1
        PROVE  /\ Range(stk2[i].left) \subseteq Range(db.children[stk2[i].who])
               /\ \A c \in Names : IsChild(db, stk2[i].who, c) =>
                    c \in Range(stk2[i].left) \/ vis[c] = 1 \/ c = stk2[i - 1].who
    <3>1. i \in 1..Len(stk) /\ i - 1 \in 1..Len(stk)
      BY <2>2, <1>2, <1>7
    <3>2. stk2[i] = stk[i] /\ stk2[i - 1].who = stk[i - 1].who
      BY <3>1, <2>2, <1>8
    <3>3. /\ Range(stk[i].left) \subseteq Range(db.children[stk[i].who])
          /\ \A c \in Names : IsChild(db, stk[i].who, c) =>
                c \in Range(stk[i].left) \/ vis[c] = 1 \/ c = stk[i - 1].who
      BY <3>1, <2>2, <1>1 DEF LeftBut
    <3> QED
      BY <3>2, <3>3
  <2>3. \A i \in 1..Len(stk2) : i = 1 \/ i > 1
    BY <1>2, <1>7
  <2> QED
    BY <2>1, <2>2, <2>3 DEF LeftBut
<1>12. IsChild(db, stk2[1].who, n)
  BY <1>3, <1>4, <1>5, <1>10 DEF IsChild
<1> QED
  BY <1>1, <1>3, <1>5, <1>7, <1>9, <1>11, <1>12 DEF Search, n, x, stk2

\* A call returns: its person is done, and closes no cycle.
LEMMA CallReturns ==
  ASSUME NEW stk, NEW vis, Search(stk, vis, NoName), stk # <<>>, stk[1].left = <<>>
  PROVE  Search(Tail(stk), [vis EXCEPT ![stk[1].who] = 1], NoName)
<1> DEFINE n == stk[1].who
           stk2 == Tail(stk)
           vis2 == [vis EXCEPT ![n] = 1]
<1>1. /\ stk \in Calls /\ vis \in [Names -> 0..2]
      /\ OnStack(stk, vis) /\ LeftBut(stk, vis, NoName) /\ DoneMeans(vis)
  BY DEF Search
<1>2. /\ Len(stk) \in Nat \ {0} /\ stk2 \in Calls /\ Len(stk2) = Len(stk) - 1
      /\ \A i \in 1..Len(stk2) : stk2[i] = stk[i + 1]
      /\ 1 \in 1..Len(stk) /\ n \in Names
  BY <1>1, TopAndRest
<1>3. /\ vis2 \in [Names -> 0..2]
      /\ \A k \in Names : vis2[k] = IF k = n THEN 1 ELSE vis[k]
  BY <1>1, <1>2
<1>4. vis[n] = 2
  BY <1>1, <1>2 DEF OnStack
<1>5. \A c \in Names : IsChild(db, n, c) => vis[c] = 1
  <2>1. NoName \notin Names /\ Range(stk[1].left) = {}
    BY FamtreeAssumption DEF NoName, Range
  <2> QED
    BY <2>1, <1>1, <1>2 DEF LeftBut
<1>6. \A i \in 1..Len(stk2) : i + 1 \in 1..Len(stk) /\ i + 1 # 1 /\ i \in 1..Len(stk)
  BY <1>2
<1>7. \A j \in 1..Len(stk) : j # 1 => j - 1 \in 1..Len(stk2) /\ stk2[j - 1] = stk[j]
  <2> TAKE j \in 1..Len(stk)
  <2> HAVE j # 1
  <2>1. j - 1 \in 1..Len(stk2) /\ (j - 1) + 1 = j
    BY <1>2
  <2> QED
    BY <2>1, <1>2
<1> HIDE DEF stk2, vis2
<1>8. OnStack(stk2, vis2)
  <2>1. ASSUME NEW k \in Names
        PROVE  vis2[k] = 2 <=> \E i \in 1..Len(stk2) : stk2[i].who = k
    <3>1. CASE k = n
      <4>1. vis2[k] # 2
        BY <3>1, <1>3
      <4>2. ASSUME NEW i \in 1..Len(stk2), stk2[i].who = k
            PROVE  FALSE
        <5>1. stk[i + 1].who = stk[1].who
          BY <4>2, <3>1, <1>2
        <5> QED
          BY <5>1, <1>1, <1>2, <1>6 DEF OnStack
      <4> QED
        BY <4>1, <4>2
    <3>2. CASE k # n
      <4>1. vis2[k] = 2 <=> \E i \in 1..Len(stk) : stk[i].who = k
        BY <3>2, <1>1, <1>3 DEF OnStack
      <4>2. (\E i \in 1..Len(stk) : stk[i].who = k) => \E i \in 1..Len(stk2) : stk2[i].who = k
        BY <3>2, <1>7
      <4>3. (\E i \in 1..Len(stk2) : stk2[i].who = k) => \E i \in 1..Len(stk) : stk[i].who = k
        BY <1>2, <1>6
      <4> QED
        BY <4>1, <4>2, <4>3
    <3> QED
      BY <3>1, <3>2
  <2>2. ASSUME NEW i \in 1..Len(stk2), NEW j \in 1..Len(stk2), stk2[i].who = stk2[j].who
        PROVE  i = j
    <3>1. stk[i + 1].who = stk[j + 1].who
      BY <2>2, <1>2
    <3>2. i + 1 = j + 1
      BY <3>1, <1>1, <1>6 DEF OnStack
    <3> QED
      BY <3>2, <1>2
  <2>3. \A i \in 1..Len(stk2) : stk2[i].who \in db.people
    BY <1>1, <1>2, <1>6 DEF OnStack
  <2>4. ASSUME NEW i \in 1..Len(stk2) - 1
        PROVE  IsChild(db, stk2[i + 1].who, stk2[i].who)
    <3>1. /\ i \in 1..Len(stk2) /\ i + 1 \in 1..Len(stk2) /\ i + 1 \in 1..Len(stk) - 1
      BY <1>2
    <3> QED
      BY <3>1, <1>1, <1>2 DEF OnStack
  <2> QED
    BY <2>1, <2>2, <2>3, <2>4 DEF OnStack
<1>9. LeftBut(stk2, vis2, NoName)
  <2>1. ASSUME NEW i \in 1..Len(stk2)
        PROVE  /\ Range(stk2[i].left) \subseteq Range(db.children[stk2[i].who])
               /\ \A c \in Names : IsChild(db, stk2[i].who, c) =>
                    \/ c \in Range(stk2[i].left) \/ vis2[c] = 1
                    \/ i > 1 /\ c = stk2[i - 1].who
    <3> DEFINE j == i + 1
    <3>1. j \in 1..Len(stk) /\ j > 1 /\ stk2[i] = stk[j] /\ j - 1 = i
      BY <1>2, <1>6
    <3>2. /\ Range(stk[j].left) \subseteq Range(db.children[stk[j].who])
          /\ \A c \in Names : IsChild(db, stk[j].who, c) =>
                c \in Range(stk[j].left) \/ vis[c] = 1 \/ c = stk[i].who
      BY <3>1, <1>1 DEF LeftBut
    <3>3. i = 1 \/ (i > 1 /\ stk2[i - 1] = stk[i])
      BY <1>6, <1>7
    <3>4. i = 1 => vis2[stk[i].who] = 1
      BY <1>2, <1>3
    <3>5. \A c \in Names : vis[c] = 1 => vis2[c] = 1
      BY <1>3
    <3> QED
      BY <3>1, <3>2, <3>3, <3>4, <3>5
  <2> QED
    BY <2>1 DEF LeftBut
<1>10. DoneMeans(vis2)
  <2>1. \A k \in Names : vis2[k] = 1 => \A c \in Names : IsChild(db, k, c) => vis[c] = 1
    BY <1>1, <1>3, <1>5 DEF DoneMeans
  <2>2. ASSUME NEW S \in SUBSET Names, S # {}, \A k \in S : vis2[k] = 1,
               \A q \in S : \E c \in S : IsChild(db, q, c)
        PROVE  FALSE
    <3> DEFINE T == {k \in S : vis[k] = 1}
    <3>1. \A q \in S : \E c \in T : IsChild(db, q, c)
      BY <2>1, <2>2
    <3>2. T \in SUBSET Names /\ T # {} /\ \A k \in T : vis[k] = 1
      BY <3>1, <2>2
    <3>3. \A q \in T : \E c \in T : IsChild(db, q, c)
      BY <3>1
    <3> HIDE DEF T
    <3> QED
      BY <3>2, <3>3, <1>1 DEF DoneMeans
  <2>3. \A k \in Names : vis2[k] = 1 => \A c \in Names : IsChild(db, k, c) => vis2[c] = 1
    BY <2>1, <1>3
  <2> QED
    BY <2>2, <2>3 DEF DoneMeans
<1> QED
  BY <1>2, <1>3, <1>8, <1>9, <1>10 DEF Search, stk2, vis2

\* Nothing printed, nothing to show.
LEMMA OrderStays ==
  ASSUME ParentsFirst, UNCHANGED <<db, out>>
  PROVE  ParentsFirst'
  BY DEF ParentsFirst

\* A call of isDescendant, whatever it finds.
LEMMA DescendantKeepsInv ==
  ASSUME Inv, phase = "check", UNCHANGED <<db, p, queue, out>>,
         NEW n \in db.people, NEW calls, isDescendant(n, calls),
         Search(calls, visited, n), calls # <<>> => IsChild(db, calls[1].who, n),
         todo' \subseteq todo, todo \ todo' \subseteq {n}
  PROVE  Inv'
<1>1. /\ Typed /\ db \in People /\ n \in Names /\ visited \in [Names -> 0..2]
      /\ db.people \subseteq Names
      /\ \A k \in db.people \ todo : visited[k] # 0
  BY DEF Inv, Typed, TypeOK, Family, Checking
<1>2. /\ stack' \in Calls /\ visited' \in [Names -> 0..2]
      /\ phase' \in {"check", "cycle"}
      /\ phase' = "cycle" => HasCycle
      /\ phase' = "check" => /\ Search(stack', visited', NoName)
                            /\ \A k \in db.people \ todo' : visited'[k] # 0
  <2>1. CASE visited[n] = 0 /\ Begin(n, calls)
    <3>1. /\ stack' = <<[who |-> n, left |-> db.children[n]]>> \o calls
          /\ visited' = [visited EXCEPT ![n] = 2] /\ phase' = "check"
      BY <2>1 DEF Begin
    <3>2. Search(stack', visited', NoName)
      BY <1>1, <2>1, <3>1, CallOpens
    <3>3. \A k \in db.people \ todo' : visited'[k] # 0
      BY <1>1, <3>1
    <3> QED
      BY <3>1, <3>2, <3>3 DEF Search
  <2>2. CASE visited[n] = 1 /\ stack' = calls /\ UNCHANGED <<visited, phase>>
    <3>1. Search(stack', visited', NoName)
      BY <1>1, <2>2, CallSkips
    <3>2. \A k \in db.people \ todo' : visited'[k] # 0
      BY <1>1, <2>2
    <3> QED
      BY <2>2, <3>1, <3>2 DEF Search
  <2>3. CASE visited[n] = 2 /\ phase' = "cycle" /\ UNCHANGED <<stack, visited>>
    <3>1. HasCycle
      BY <1>1, <2>3, CallFindsCycle
    <3> QED
      BY <1>1, <2>3, <3>1 DEF Typed
  <2> QED
    BY <2>1, <2>2, <2>3 DEF isDescendant
<1>3. HasCycle' <=> HasCycle
  BY DEF HasCycle, IsChild
<1>4. Typed'
  <2>1. TypeOK'
    BY <1>1, <1>2 DEF Typed, TypeOK, Ended
  <2> QED
    BY <1>1, <1>2, <2>1 DEF Typed
<1>5. Search(stack', visited', NoName) <=> Search(stack, visited, NoName)'
  BY DEF Search, OnStack, LeftBut, DoneMeans, IsChild
<1>6. Checking'
  BY <1>2, <1>5 DEF Checking
<1>7. CycleCheckRight' /\ Fresh'
  BY <1>2, <1>3 DEF CycleCheckRight, Fresh
<1>8. ParentsFirst'
  BY DEF Inv, ParentsFirst
<1> QED
  BY <1>4, <1>6, <1>7, <1>8 DEF Inv

\* The traversal of cycleCheck, and the calls it makes.
LEMMA CheckPersonKeepsInv == Inv /\ CheckPerson => Inv'
<1> SUFFICES ASSUME Inv, CheckPerson PROVE Inv'
  OBVIOUS
<1> DEFINE n == Min(todo)
<1>1. /\ phase = "check" /\ stack = <<>> /\ todo' = todo \ {n}
      /\ isDescendant(n, <<>>) /\ UNCHANGED <<db, p, queue, out>>
  BY DEF CheckPerson
<1>2. n \in db.people
  <2>1. todo \subseteq db.people /\ db.people \subseteq Names /\ todo # {}
    BY DEF Inv, Typed, TypeOK, CheckPerson
  <2>2. todo \in SUBSET Nat
    BY <2>1, FamtreeAssumption
  <2> QED
    BY <2>1, <2>2, MinIn
<1> HIDE DEF n
<1>3. Search(<<>>, visited, NoName)
  BY <1>1 DEF Inv, Checking
<1>4. Search(<<>>, visited, n)
  BY <1>3 DEF Search, LeftBut
<1>5. todo' \subseteq todo /\ todo \ todo' \subseteq {n}
  BY <1>1
<1> QED
  BY <1>1, <1>2, <1>4, <1>5, DescendantKeepsInv

\* The next child of the person on top of the stack is called.
LEMMA CheckChildKeepsInv == Inv /\ CheckChild => Inv'
<1> SUFFICES ASSUME Inv, CheckChild PROVE Inv'
  OBVIOUS
<1> DEFINE n == Head(stack[1].left)
           calls == <<[stack[1] EXCEPT !.left = Tail(@)]>> \o Tail(stack)
<1>1. Search(stack, visited, NoName) /\ stack \in Calls /\ stack # <<>> /\ phase = "check"
  BY DEF Inv, Checking, Typed, CheckChild
<1>2. Head(stack) = stack[1]
  BY <1>1, RangeOfTail DEF Calls
<1>3. /\ stack[1].left # <<>> /\ isDescendant(n, calls)
      /\ UNCHANGED <<db, p, todo, queue, out>>
  BY <1>2 DEF CheckChild
<1>4. /\ n \in Names /\ Search(calls, visited, n)
      /\ calls # <<>> /\ IsChild(db, calls[1].who, n)
  BY <1>1, <1>3, ChildTaken
<1> HIDE DEF n, calls
<1>5. calls[1].who \in Names
  <2>1. calls \in Calls
    BY <1>4 DEF Search
  <2> QED
    BY <2>1, <1>4, TopAndRest
<1>6. n \in db.people
  BY <1>4, <1>5 DEF Inv, Typed, Family, Mutual
<1> QED
  BY <1>1, <1>3, <1>4, <1>6, DescendantKeepsInv

\* A call of isDescendant returns.
LEMMA ReturnKeepsInv == Inv /\ Return => Inv'
<1> SUFFICES ASSUME Inv, Return PROVE Inv'
  OBVIOUS
<1>1. /\ Search(stack, visited, NoName) /\ stack \in Calls /\ stack # <<>> /\ phase = "check"
      /\ \A k \in db.people \ todo : visited[k] # 0
      /\ visited \in [Names -> 0..2] /\ db.people \subseteq Names
  BY DEF Inv, Checking, Typed, TypeOK, Return
<1>2. Head(stack) = stack[1]
  BY <1>1, RangeOfTail DEF Calls
<1>3. /\ stack[1].left = <<>> /\ stack' = Tail(stack)
      /\ visited' = [visited EXCEPT ![stack[1].who] = 1]
      /\ UNCHANGED <<db, p, phase, todo, queue, out>>
  BY <1>2 DEF Return
<1>4. Search(stack', visited', NoName)
  BY <1>1, <1>3, CallReturns
<1>5. \A k \in db.people \ todo' : visited'[k] # 0
  BY <1>1, <1>3
<1>6. stack' \in Calls /\ visited' \in [Names -> 0..2]
  BY <1>4 DEF Search
<1>7. Search(stack', visited', NoName) <=> Search(stack, visited, NoName)'
  BY <1>3 DEF Search, OnStack, LeftBut, DoneMeans, IsChild
<1>8. Checking'
  BY <1>3, <1>4, <1>5, <1>7 DEF Checking
<1>9. Fresh' /\ CycleCheckRight'
  BY <1>1, <1>3 DEF Fresh, CycleCheckRight
<1>10. Typed' /\ ParentsFirst'
  <2>1. TypeOK'
    BY <1>3, <1>6 DEF Inv, Typed, TypeOK
  <2>2. ParentsFirst'
    BY <1>3, OrderStays DEF Inv
  <2> QED
    BY <1>3, <1>6, <2>1, <2>2 DEF Inv, Typed
<1> QED
  BY <1>8, <1>9, <1>10 DEF Inv

\* Everybody is done, so there is no cycle.
LEMMA NoCycleKeepsInv == Inv /\ NoCycle => Inv'
<1> SUFFICES ASSUME Inv, NoCycle PROVE Inv'
  OBVIOUS
<1>1. /\ Search(stack, visited, NoName) /\ phase = "check" /\ stack = <<>> /\ todo = {}
      /\ \A k \in db.people \ todo : visited[k] # 0
      /\ visited \in [Names -> 0..2] /\ db.people \subseteq Names
  BY DEF Inv, Checking, Typed, TypeOK, NoCycle
<1>2. \A k \in db.people : visited[k] = 1
  <2>1. \A k \in Names : visited[k] # 2
    BY <1>1 DEF Search, OnStack
  <2> QED
    BY <1>1, <2>1
<1>3. ~HasCycle
  BY <1>1, <1>2 DEF HasCycle, Search, DoneMeans
<1>4. HasCycle' <=> HasCycle
  BY DEF HasCycle, IsChild, NoCycle
<1>5. Typed'
  BY DEF Inv, Typed, TypeOK, NoCycle
<1>6. Fresh' /\ Checking' /\ CycleCheckRight' /\ ParentsFirst'
  BY <1>3, <1>4 DEF Inv, Fresh, Checking, CycleCheckRight, ParentsFirst, NoCycle
<1> QED
  BY <1>5, <1>6 DEF Inv

\* The end of the input.
LEMMA EndOfInputKeepsInv == Inv /\ EndOfInput => Inv'
<1> SUFFICES ASSUME Inv, EndOfInput PROVE Inv'
  OBVIOUS
<1>1. /\ phase = "read" /\ phase' = "check" /\ todo' = db.people
      /\ UNCHANGED <<db, p, stack, visited, queue, out>>
      /\ stack = <<>> /\ visited = [n \in Names |-> 0]
  BY DEF EndOfInput, Inv, Fresh
<1>2. Typed' /\ Fresh' /\ CycleCheckRight' /\ ParentsFirst'
  BY <1>1 DEF Inv, Typed, TypeOK, Fresh, CycleCheckRight, ParentsFirst
<1>3. Search(stack, visited, NoName)'
  <2>1. stack' = <<>> /\ visited' = [n \in Names |-> 0]
    BY <1>1
  <2> QED
    BY <2>1 DEF Search, Calls, OnStack, LeftBut, DoneMeans
<1>4. Checking'
  BY <1>1, <1>3 DEF Checking
<1> QED
  BY <1>2, <1>4 DEF Inv

(***************************************************************************)
(* printFamtree.                                                           *)
(***************************************************************************)

\* After the check the people stay as they are.
LEMMA PrintingKeepsInv ==
  ASSUME Inv, phase \in {"roots", "print"}, UNCHANGED <<db, p, stack, visited>>,
         phase' \in {"roots", "print", "done", "segv"}, todo' \subseteq todo,
         queue' \in Seq(Names), Range(queue') \subseteq db.people,
         out' \in Seq(Names), Range(out') \subseteq db.people, ParentsFirst'
  PROVE  Inv'
<1>1. Typed /\ ~HasCycle
  BY DEF Inv, CycleCheckRight
<1>2. TypeOK'
  BY <1>1 DEF Typed, TypeOK, Ended
<1>3. Typed'
  BY <1>1, <1>2 DEF Typed
<1>4. HasCycle' <=> HasCycle
  BY DEF HasCycle, IsChild
<1>5. Fresh' /\ Checking' /\ CycleCheckRight'
  BY <1>1, <1>4 DEF Fresh, Checking, CycleCheckRight
<1> QED
  BY <1>3, <1>5 DEF Inv

\* What is in two sequences together, and in one after an element is appended.
LEMMA RangeOfBoth ==
  ASSUME NEW S, NEW t \in Seq(S), NEW u \in Seq(S)
  PROVE  Range(t \o u) = Range(t) \cup Range(u)
  BY RangeConcatenation, ZenonT(60)

LEMMA AppendRange ==
  ASSUME NEW S, NEW t \in Seq(S), NEW x \in S
  PROVE  Append(t, x) \in Seq(S) /\ Range(Append(t, x)) = Range(t) \cup {x}
<1>1. <<x>> \in Seq(S) /\ Append(t, x) = t \o <<x>>
  BY AppendIsConcat
<1>2. Range(<<x>>) = {x}
  BY DEF Range
<1>3. Range(t \o <<x>>) = Range(t) \cup Range(<<x>>)
  BY <1>1, RangeConcatenation, ZenonT(60)
<1>4. Append(t, x) \in Seq(S)
  BY AppendProperties
<1> QED
  BY <1>1, <1>2, <1>3, <1>4

\* The queue is filled with the people without parents.
LEMMA RootsKeepInv == Inv /\ (AddRoot \/ AllRoots) => Inv'
<1> SUFFICES ASSUME Inv, AddRoot \/ AllRoots PROVE Inv'
  OBVIOUS
<1>1. /\ todo \subseteq db.people /\ db.people \subseteq Names
      /\ queue \in Seq(Names) /\ out \in Seq(Names)
      /\ Range(queue) \subseteq db.people /\ Range(out) \subseteq db.people
      /\ ParentsFirst
  BY DEF Inv, Typed, TypeOK
<1>2. /\ phase = "roots" /\ phase' \in {"roots", "print"}
      /\ UNCHANGED <<db, p, stack, visited, out>>
  BY DEF AddRoot, AllRoots, walk
<1>3. ParentsFirst'
  <2>1. UNCHANGED <<db, out>>
    BY <1>2
  <2> QED
    BY <1>1, <2>1, OrderStays
<1>4. /\ queue' \in Seq(Names) /\ Range(queue') \subseteq db.people
      /\ todo' \subseteq todo
  <2>1. CASE AllRoots
    BY <2>1, <1>1 DEF AllRoots, walk
  <2>2. CASE AddRoot
    <3> DEFINE n == Min(todo)
    <3>1. /\ todo # {} /\ todo' = todo \ {n}
          /\ queue' = IF Parentless(n) THEN Append(queue, n) ELSE queue
      BY <2>2 DEF AddRoot
    <3>2. n \in todo
      <4>1. todo \in SUBSET Nat
        BY <1>1, FamtreeAssumption
      <4> QED
        BY <3>1, <4>1, MinIn
    <3> HIDE DEF n
    <3>3. Append(queue, n) \in Seq(Names) /\ Range(Append(queue, n)) = Range(queue) \cup {n}
      BY <1>1, <3>2, AppendRange
    <3> QED
      BY <1>1, <3>1, <3>2, <3>3
  <2> QED
    BY <2>1, <2>2
<1> QED
  BY <1>1, <1>2, <1>3, <1>4, PrintingKeepsInv

\* Whoever is ready comes after the parents in what is printed.
LEMMA PrintedAfterParents ==
  ASSUME Typed, ParentsFirst, NEW n \in Names, Ready(n),
         out' = Append(out, n), db' = db
  PROVE  ParentsFirst'
<1>1. /\ out \in Seq(Names) /\ Len(out) \in Nat /\ DOMAIN out = 1..Len(out)
      /\ db.father[n] = NoName \/ db.father[n] \in {out[j] : j \in 1..Len(out)}
      /\ db.mother[n] = NoName \/ db.mother[n] \in {out[j] : j \in 1..Len(out)}
  BY LenProperties, RangeEquality DEF Typed, Ready, Printed
<1>2. /\ DOMAIN out' = 1..Len(out) + 1 /\ out'[Len(out) + 1] = n
      /\ \A j \in 1..Len(out) : out'[j] = out[j]
  <2>1. /\ out' \in Seq(Names) /\ Len(out') = Len(out) + 1 /\ out'[Len(out) + 1] = n
        /\ \A j \in 1..Len(out) : out'[j] = out[j]
    BY <1>1, AppendProperties
  <2> QED
    BY <2>1, LenProperties
<1>3. ASSUME NEW i \in DOMAIN out'
      PROVE  {db.father[out'[i]], db.mother[out'[i]]} \ {NoName}
                \subseteq {out'[j] : j \in 1..(i - 1)}
  <2>1. CASE i \in 1..Len(out)
    <3>1. {db.father[out[i]], db.mother[out[i]]} \ {NoName} \subseteq {out[j] : j \in 1..(i - 1)}
      BY <2>1, <1>1 DEF ParentsFirst
    <3>2. \A j \in 1..(i - 1) : out'[j] = out[j]
      BY <2>1, <1>1, <1>2
    <3>3. out'[i] = out[i]
      BY <2>1, <1>2
    <3> QED
      BY <3>1, <3>2, <3>3
  <2>2. CASE i = Len(out) + 1
    <3>1. out'[i] = n /\ i - 1 = Len(out)
      BY <2>2, <1>1, <1>2
    <3> QED
      BY <3>1, <1>1, <1>2
  <2>3. i \in 1..Len(out) \/ i = Len(out) + 1
    BY <1>1, <1>2
  <2> QED
    BY <2>1, <2>2, <2>3
<1> QED
  BY <1>3 DEF ParentsFirst

\* The first of the queue is printed, or put off, or has been printed.
LEMMA PrintNextKeepsInv == Inv /\ PrintNext => Inv'
<1> SUFFICES ASSUME Inv, PrintNext PROVE Inv'
  OBVIOUS
<1> DEFINE n == Head(queue)
<1>1. /\ db.people \subseteq Names /\ Family(db) /\ Typed /\ ParentsFirst
      /\ queue \in Seq(Names) /\ out \in Seq(Names)
      /\ Range(queue) \subseteq db.people /\ Range(out) \subseteq db.people
  BY DEF Inv, Typed, TypeOK
<1>2. /\ phase = "print" /\ queue # <<>>
      /\ UNCHANGED <<p, todo, stack, visited>>
  BY DEF PrintNext
<1>3. /\ n \in db.people /\ n \in Names /\ Tail(queue) \in Seq(Names)
      /\ Range(Tail(queue)) \subseteq db.people
  BY <1>1, <1>2, HeadTailProperties, RangeOfTail
<1>4. LookedUp(n) = db
  BY <1>1, <1>3, LookupChangesNothing DEF LookedUp
<1>5. db' = db
  BY <1>4 DEF PrintNext
<1>6. /\ phase' \in {"print", "segv"}
      /\ \/ queue' = Tail(queue) /\ out' = out
         \/ queue' = queue /\ out' = out
         \/ Ready(n) /\ out' = Append(out, n) /\ queue' = Tail(queue) \o db.children[n]
  BY <1>2 DEF PrintNext, printPerson
<1> HIDE DEF n
<1>7. CASE out' = out /\ queue' \in {queue, Tail(queue)}
  <2>1. ParentsFirst'
    BY <1>1, <1>5, <1>7, OrderStays
  <2> QED
    BY <1>1, <1>2, <1>3, <1>5, <1>6, <1>7, <2>1, PrintingKeepsInv
<1>8. CASE Ready(n) /\ out' = Append(out, n) /\ queue' = Tail(queue) \o db.children[n]
  <2>1. db.children[n] \in Seq(Names)
    BY <1>1, <1>3 DEF Family, People
  <2>2. Range(db.children[n]) \subseteq db.people
    <3>1. \A c \in Names : IsChild(db, n, c) => c \in db.people
      BY <1>1, <1>3 DEF Family, Mutual
    <3> QED
      BY <3>1, <2>1, RangeOfSeq DEF IsChild
  <2>3. queue' \in Seq(Names) /\ Range(queue') \subseteq db.people
    <3>1. queue' \in Seq(Names)
      BY <1>3, <1>8, <2>1, ConcatProperties
    <3>2. Range(queue') = Range(Tail(queue)) \cup Range(db.children[n])
      BY <1>3, <1>8, <2>1, RangeConcatenation, ZenonT(60)
    <3> QED
      BY <1>3, <2>2, <3>1, <3>2
  <2>4. out' \in Seq(Names) /\ Range(out') \subseteq db.people
    BY <1>1, <1>3, <1>8, AppendRange
  <2>5. ParentsFirst'
    BY <1>1, <1>3, <1>5, <1>8, PrintedAfterParents
  <2> QED
    BY <1>2, <1>5, <1>6, <2>3, <2>4, <2>5, PrintingKeepsInv
<1> QED
  BY <1>6, <1>7, <1>8

\* The queue is empty.
LEMMA DoneKeepsInv == Inv /\ Done => Inv'
<1> SUFFICES ASSUME Inv, Done PROVE Inv'
  OBVIOUS
<1>1. /\ phase = "print" /\ phase' = "done" /\ Typed /\ ParentsFirst
      /\ UNCHANGED <<db, p, todo, stack, visited, queue, out>>
  BY DEF Done, walk, Inv
<1>2. ParentsFirst'
  <2>1. UNCHANGED <<db, out>>
    BY <1>1
  <2> QED
    BY <1>1, <2>1, OrderStays
<1> QED
  BY <1>1, <1>2, PrintingKeepsInv DEF Typed, TypeOK

(***************************************************************************)
(* The theorems.                                                           *)
(***************************************************************************)

\* Every step keeps the invariant.
LEMMA NextInv == Inv /\ [Next]_vars => Inv'
<1> SUFFICES ASSUME Inv, [Next]_vars PROVE Inv'
  OBVIOUS
<1>1. CASE ReadLine
  BY <1>1, ReadLineKeepsInv
<1>2. CASE EndOfInput
  BY <1>2, EndOfInputKeepsInv
<1>3. CASE Walk
  BY <1>3, CheckPersonKeepsInv, CheckChildKeepsInv, ReturnKeepsInv, NoCycleKeepsInv,
     RootsKeepInv, PrintNextKeepsInv, DoneKeepsInv DEF Walk
<1>4. CASE UNCHANGED vars
  <2>1. UNCHANGED <<db, p, line, phase, todo, stack, visited, queue, out>>
    BY <1>4 DEF vars
  <2>2. Typed' /\ Fresh'
    BY <2>1 DEF Inv, Typed, TypeOK, Fresh
  <2>3. Checking'
    <3>1. Search(stack, visited, NoName)' <=> Search(stack, visited, NoName)
      BY <2>1 DEF Search, OnStack, LeftBut, DoneMeans, IsChild
    <3> QED
      BY <2>1, <3>1 DEF Inv, Checking
  <2>4. CycleCheckRight'
    <3>1. HasCycle' <=> HasCycle
      BY <2>1 DEF HasCycle, IsChild
    <3> QED
      BY <2>1, <3>1 DEF Inv, CycleCheckRight
  <2>5. ParentsFirst'
    BY <2>1, OrderStays DEF Inv
  <2> QED
    BY <2>2, <2>3, <2>4, <2>5 DEF Inv
<1> QED
  BY <1>1, <1>2, <1>3, <1>4 DEF Next

\* The variables keep their types, and no child is twice in a parent's list.
THEOREM TypeCorrect == Spec => []TypeOK
<1>1. Inv => TypeOK
  BY DEF Inv, Typed
<1> QED
  BY <1>1, InitInv, NextInv, PTL DEF Spec

\* Whatever lines are read, in whatever order, the links that setFather, addChild
\* and getFather make go both ways.
THEOREM LinksMutualHolds == Spec => []LinksMutual
<1>1. Inv => LinksMutual
  <2> SUFFICES ASSUME Inv PROVE LinksMutual
    OBVIOUS
  <2>1. /\ Mutual(db, db.father, "M") /\ Mutual(db, db.mother, "F") /\ db \in People
    BY DEF Inv, Typed, Family
  <2>2. db[Side["M"]] = db.father /\ db[Side["F"]] = db.mother
    BY <2>1 DEF Side, People
  <2>3. \A s \in {"M", "F"} : Mutual(db, db[Side[s]], s)
    BY <2>1, <2>2
  <2> QED
    BY <2>3 DEF LinksMutual, Mutual
<1> QED
  BY <1>1, InitInv, NextInv, PTL DEF Spec

\* cycleCheck finds a cycle exactly if there is one, for any number of people
\* and any order of calls that the three marks lead to.
THEOREM CycleCheckRightHolds == Spec => []CycleCheckRight
<1>1. Inv => CycleCheckRight
  BY DEF Inv
<1> QED
  BY <1>1, InitInv, NextInv, PTL DEF Spec

\* printFamtree prints nobody before a parent.
THEOREM ParentsFirstHolds == Spec => []ParentsFirst
<1>1. Inv => ParentsFirst
  BY DEF Inv
<1> QED
  BY <1>1, InitInv, NextInv, PTL DEF Spec

(***************************************************************************)
(* How the program may fail.                                               *)
(***************************************************************************)

\* A node that uses a string of a child's is the parent whose name that is.
KeysNameParents(d) ==
    \A n \in d.people, c \in Names :
        /\ d.key[n] = <<"father", c>> => d.father[c] = n
        /\ d.key[n] = <<"mother", c>> => d.mother[c] = n

\* Who waits to be printed is a child of somebody printed, or nobody's.
ChildrenWait ==
    \A n \in Range(queue) : Parentless(n) \/ \E q \in Range(out) : IsChild(db, q, n)

FailInv ==
    /\ phase # "broken" => KeysNameParents(db)
    /\ ChildrenWait /\ FailsOnlyOnTwoParents

\* Whose string a node uses changes only when the node is made.
LEMMA NewPersonKeys ==
  ASSUME NEW d \in People, NEW n \in Names, NEW k \in Key
  PROVE  new_person_name(d, n, k).key = [d.key EXCEPT ![n] = k]
  BY DEF new_person_name, People

\* addChild makes a node with a name of its own.
LEMMA AddChildKeys ==
  ASSUME NEW d \in People, NEW s \in {"M", "F"}, NEW q \in Names, NEW c \in Names,
         d.sex[q] = s, ~IsChild(d, q, c)
  PROVE  addChild(d, q, c).key = IF c \in d.people THEN d.key
                                 ELSE [d.key EXCEPT ![c] = OwnName]
<1> DEFINE e == IF c \in d.people THEN d ELSE new_person_name(d, c, OwnName)
           g == addChild(d, q, c)
<1>1. /\ e \in People
      /\ e.key = IF c \in d.people THEN d.key ELSE [d.key EXCEPT ![c] = OwnName]
  BY NewPersonFields, NewPersonKeys, KeysAreKeys
<1>2. g = [e EXCEPT ![Side[d.sex[q]]][c] = q, !.children[q] = Append(@, c)]
  BY DEF addChild
<1> HIDE DEF e, g
<1>3. g.key = e.key
  <2>1. CASE s = "M"
    <3>0. Side[d.sex[q]] = "father"
      BY <2>1 DEF Side
    <3>1. g = [e EXCEPT !["father"][c] = q, !.children[q] = Append(e.children[q], c)]
      BY <3>0, <1>2
    <3>2. g = [e EXCEPT !.father = [e.father EXCEPT ![c] = q],
                        !.children = [e.children EXCEPT ![q] = Append(e.children[q], c)]]
      BY <3>1, <1>1 DEF People
    <3> QED
      BY <3>2, <1>1 DEF People
  <2>2. CASE s = "F"
    <3>0. Side[d.sex[q]] = "mother"
      BY <2>2 DEF Side
    <3>1. g = [e EXCEPT !["mother"][c] = q, !.children[q] = Append(e.children[q], c)]
      BY <3>0, <1>2
    <3>2. g = [e EXCEPT !.mother = [e.mother EXCEPT ![c] = q],
                        !.children = [e.children EXCEPT ![q] = Append(e.children[q], c)]]
      BY <3>1, <1>1 DEF People
    <3> QED
      BY <3>2, <1>1 DEF People
  <2> QED
    BY <2>1, <2>2
<1> QED
  BY <1>1, <1>3 DEF g

\* A new node with a string of its own uses nobody else's.
LEMMA NewPersonKeepsKeys ==
  ASSUME NEW d \in People, KeysNameParents(d), NEW n \in Names
  PROVE  KeysNameParents(new_person_name(d, n, OwnName))
<1> DEFINE e == new_person_name(d, n, OwnName)
<1>1. /\ e.people = d.people \cup {n} /\ e.father = d.father /\ e.mother = d.mother
      /\ e.key = [d.key EXCEPT ![n] = OwnName]
  BY NewPersonFields, NewPersonKeys, KeysAreKeys
<1> HIDE DEF e
<1>2. /\ d.key \in [Names -> Key] /\ d.people \subseteq Names
      /\ \A c \in Names : OwnName # <<"father", c>> /\ OwnName # <<"mother", c>>
  BY DEF People, OwnName
<1>3. KeysNameParents(e)
  BY <1>1, <1>2 DEF KeysNameParents
<1> QED
  BY <1>3 DEF e

\* setSex changes no string.
LEMMA SetSexKeepsKeys ==
  ASSUME NEW d \in People, KeysNameParents(d), NEW n \in Names, NEW s \in Sexes
  PROVE  KeysNameParents(setSex(d, n, s)) /\ setSex(d, n, s).key = d.key
<1>1. setSex(d, n, s).key = d.key
  BY DEF setSex, People
<1>2. /\ setSex(d, n, s).people = d.people /\ setSex(d, n, s).father = d.father
      /\ setSex(d, n, s).mother = d.mother
  BY SetSexFields
<1> QED
  BY <1>1, <1>2 DEF KeysNameParents

\* A new child's string is overwritten with the parent's name: nobody else's node
\* may use it.
LEMMA AddChildKeepsKeys ==
  ASSUME NEW d \in People, NEW s \in {"M", "F"}, NEW q \in Names, NEW c \in Names,
         q \in d.people, d.sex[q] = s, KeysNameParents(d), ~Rekeys(d, q, c)
  PROVE  KeysNameParents(addChild(d, q, c))
<1> DEFINE e == addChild(d, q, c)
<1>1. CASE IsChild(d, q, c)
  BY <1>1 DEF addChild
<1>2. CASE ~IsChild(d, q, c)
  <2>1. Linked(d, e, s, q, c)
    BY <1>2, AddChildLinks
  <2>2. e.key = IF c \in d.people THEN d.key ELSE [d.key EXCEPT ![c] = OwnName]
    BY <1>2, AddChildKeys
  <2>3. \A n \in d.people \ {q} : d.key[n] # <<Side[s], c>>
    BY <1>2 DEF Rekeys
  <2> HIDE DEF e
  <2>4. /\ d.key \in [Names -> Key] /\ d.people \subseteq Names
        /\ d.father \in [Names -> Names \cup {NoName}]
        /\ d.mother \in [Names -> Names \cup {NoName}]
        /\ \A k \in Names : OwnName # <<"father", k>> /\ OwnName # <<"mother", k>>
    BY DEF People, OwnName
  <2>5. \A n \in e.people : IF n \in d.people THEN e.key[n] = d.key[n]
                                            ELSE e.key[n] = OwnName
    <3>1. e.people = d.people \cup {c}
      BY <2>1 DEF Linked
    <3> QED
      BY <2>2, <2>4, <3>1
  <2>6. ASSUME NEW n \in e.people, NEW k \in Names, e.key[n] = <<"father", k>>
        PROVE  e.father[k] = n
    <3>1. n \in d.people /\ d.key[n] = <<"father", k>>
      BY <2>4, <2>5, <2>6
    <3>2. d.father[k] = n
      BY <3>1 DEF KeysNameParents
    <3>3. CASE s = "M" /\ k = c
      <4>1. n = q
        <5>1. Side[s] = "father"
          BY <3>3 DEF Side
        <5> QED
          BY <2>3, <3>1, <3>3, <5>1
      <4>2. e.father[k] = q
        BY <2>1, <2>4, <3>3 DEF Linked
      <4> QED
        BY <4>1, <4>2
    <3>4. CASE ~(s = "M" /\ k = c)
      <4>1. e.father[k] = d.father[k]
        BY <2>1, <2>4, <3>4 DEF Linked
      <4> QED
        BY <3>2, <4>1
    <3> QED
      BY <3>3, <3>4
  <2>7. ASSUME NEW n \in e.people, NEW k \in Names, e.key[n] = <<"mother", k>>
        PROVE  e.mother[k] = n
    <3>1. n \in d.people /\ d.key[n] = <<"mother", k>>
      BY <2>4, <2>5, <2>7
    <3>2. d.mother[k] = n
      BY <3>1 DEF KeysNameParents
    <3>3. CASE s = "F" /\ k = c
      <4>1. n = q
        <5>1. Side[s] = "mother"
          BY <3>3 DEF Side
        <5> QED
          BY <2>3, <3>1, <3>3, <5>1
      <4>2. e.mother[k] = q
        BY <2>1, <2>4, <3>3 DEF Linked
      <4> QED
        BY <4>1, <4>2
    <3>4. CASE ~(s = "F" /\ k = c)
      <4>1. e.mother[k] = d.mother[k]
        BY <2>1, <2>4, <3>4 DEF Linked
      <4> QED
        BY <3>2, <4>1
    <3> QED
      BY <3>3, <3>4
  <2>8. KeysNameParents(e)
    BY <2>6, <2>7 DEF KeysNameParents
  <2> QED
    BY <2>8 DEF e
<1> QED
  BY <1>1, <1>2
\* A parent that is noted and looked up: its node, if it is made, uses the
\* child's string, in which its name is.
LEMMA ParentLineKeepsKeys ==
  ASSUME NEW d, Family(d), KeysNameParents(d), NEW s \in {"M", "F"}, NEW c \in d.people,
         NEW n \in Names, d[Side[s]][c] \in {NoName, n}, d.sex[n] \in {"none", s}
  PROVE  KeysNameParents(getParent(Noted(d, s, c, n), c, s))
<1> DEFINE dd == Noted(d, s, c, n)
           e == IF n \in dd.people THEN dd ELSE new_person_name(dd, n, <<Side[s], c>>)
           f == setSex(e, n, s)
<1>1. d \in People /\ c \in Names /\ s \in Sexes /\ n # NoName /\ NoName \notin Names
  BY FamtreeAssumption DEF Family, People, NoName
<1>2. /\ dd \in People /\ dd.people = d.people /\ dd.sex = d.sex
      /\ dd.children = d.children
      /\ dd.father = IF s = "M" THEN [d.father EXCEPT ![c] = n] ELSE d.father
      /\ dd.mother = IF s = "F" THEN [d.mother EXCEPT ![c] = n] ELSE d.mother
      /\ dd[Side[s]][c] = n
  BY <1>1, NotedFields
<1>3. dd.key = d.key
  <2>1. CASE s = "M"
    <3>1. dd = [d EXCEPT !["father"][c] = n]
      BY <2>1 DEF Noted, Side
    <3> QED
      BY <3>1, <1>1 DEF People
  <2>2. CASE s = "F"
    <3>1. dd = [d EXCEPT !["mother"][c] = n]
      BY <2>2 DEF Noted, Side
    <3> QED
      BY <3>1, <1>1 DEF People
  <2> QED
    BY <2>1, <2>2
<1>4. getParent(dd, c, s) = addChild(f, n, c)
  <2> HIDE DEF dd
  <2> QED
    BY <1>1, <1>2 DEF getParent
<1> HIDE DEF dd
<1>5. /\ d.father \in [Names -> Names \cup {NoName}]
      /\ d.mother \in [Names -> Names \cup {NoName}]
      /\ d.people \subseteq Names /\ d.key \in [Names -> Key]
      /\ s = "M" => d.father[c] \in {NoName, n}
      /\ s = "F" => d.mother[c] \in {NoName, n}
  BY <1>1 DEF People, Side
<1>6. KeysNameParents(dd)
  <2>1. ASSUME NEW m \in d.people, NEW k \in Names, d.key[m] = <<"father", k>>
        PROVE  dd.father[k] = m
    <3>1. d.father[k] = m /\ m # NoName
      BY <1>1, <1>5, <2>1 DEF KeysNameParents
    <3> QED
      BY <1>1, <1>2, <1>5, <3>1
  <2>2. ASSUME NEW m \in d.people, NEW k \in Names, d.key[m] = <<"mother", k>>
        PROVE  dd.mother[k] = m
    <3>1. d.mother[k] = m /\ m # NoName
      BY <1>1, <1>5, <2>2 DEF KeysNameParents
    <3> QED
      BY <1>1, <1>2, <1>5, <3>1
  <2> QED
    BY <1>2, <1>3, <2>1, <2>2 DEF KeysNameParents
<1>7. /\ e \in People /\ e.people = d.people \cup {n} /\ KeysNameParents(e)
      /\ e.father = dd.father /\ e.mother = dd.mother
  <2>1. CASE n \in dd.people
    BY <1>2, <1>6, <2>1
  <2>2. CASE n \notin dd.people
    <3>1. <<Side[s], c>> \in Key
      BY <1>1, KeysAreKeys
    <3>2. /\ e \in People /\ e.people = d.people \cup {n}
          /\ e.father = dd.father /\ e.mother = dd.mother
      BY <1>2, <2>2, <3>1, NewPersonFields
    <3>3. e.key = [dd.key EXCEPT ![n] = <<Side[s], c>>]
      BY <1>2, <2>2, <3>1, NewPersonKeys
    <3> HIDE DEF e
    <3>4. \A m \in e.people : e.key[m] = IF m = n THEN <<Side[s], c>> ELSE dd.key[m]
      BY <1>3, <1>5, <3>2, <3>3
    <3>5. ASSUME NEW m \in e.people, NEW k \in Names
          PROVE  /\ e.key[m] = <<"father", k>> => e.father[k] = m
                 /\ e.key[m] = <<"mother", k>> => e.mother[k] = m
      <4>1. CASE m = n
        <5>1. e.key[m] = <<Side[s], c>>
          BY <3>4, <4>1
        <5>2. CASE s = "M"
          <6>1. Side[s] = "father" /\ dd.father[c] = n
            BY <1>2, <1>5, <1>1, <5>2 DEF Side
          <6> QED
            BY <3>2, <4>1, <5>1, <6>1
        <5>3. CASE s = "F"
          <6>1. Side[s] = "mother" /\ dd.mother[c] = n
            BY <1>2, <1>5, <1>1, <5>3 DEF Side
          <6> QED
            BY <3>2, <4>1, <5>1, <6>1
        <5> QED
          BY <5>2, <5>3
      <4>2. CASE m # n
        <5>1. m \in dd.people /\ e.key[m] = dd.key[m]
          BY <1>2, <3>2, <3>4, <4>2
        <5> QED
          BY <1>6, <3>2, <5>1 DEF KeysNameParents
      <4> QED
        BY <4>1, <4>2
    <3>6. KeysNameParents(e)
      BY <3>5 DEF KeysNameParents
    <3> QED
      BY <3>2, <3>6
  <2> QED
    BY <2>1, <2>2
<1> HIDE DEF e
<1>8. /\ f \in People /\ KeysNameParents(f) /\ f.key = e.key
      /\ f.people = e.people /\ f.father = e.father /\ f.mother = e.mother
      /\ f.sex = [e.sex EXCEPT ![n] = s]
  BY <1>1, <1>7, SetSexKeepsKeys, SetSexFields
<1> HIDE DEF f
<1>9. n \in f.people /\ f.sex[n] = s
  BY <1>7, <1>8 DEF People
<1>10. ~Rekeys(f, n, c)
  <2>1. \A m \in f.people : f.key[m] = <<Side[s], c>> => m = n
    <3>1. CASE s = "M"
      <4>1. Side[s] = "father" /\ f.father[c] = n
        BY <1>1, <1>2, <1>5, <1>7, <1>8, <3>1 DEF Side
      <4> QED
        BY <1>1, <1>8, <4>1 DEF KeysNameParents
    <3>2. CASE s = "F"
      <4>1. Side[s] = "mother" /\ f.mother[c] = n
        BY <1>1, <1>2, <1>5, <1>7, <1>8, <3>2 DEF Side
      <4> QED
        BY <1>1, <1>8, <4>1 DEF KeysNameParents
    <3> QED
      BY <3>1, <3>2
  <2> QED
    BY <1>9, <2>1 DEF Rekeys
<1>11. KeysNameParents(addChild(f, n, c))
  BY <1>1, <1>8, <1>9, <1>10, AddChildKeepsKeys
<1> QED
  BY <1>4, <1>11 DEF dd

\* Overwriting a string that another node uses: the child has a second parent.
LEMMA RekeyedHasTwoParents ==
  ASSUME NEW d, Family(d), KeysNameParents(d), NEW s \in {"M", "F"}, NEW q \in d.people,
         d.sex[q] \in {"none", s}, NEW c \in Names, Rekeys(setSex(d, q, s), q, c),
         db' = addChild(setSex(d, q, s), q, c)
  PROVE  TwoParents(c)'
<1> DEFINE f == setSex(d, q, s)
<1>1. d \in People /\ q \in Names /\ s \in Sexes
  BY FamtreeAssumption DEF Family, People
<1>2. /\ f \in People /\ f.people = d.people /\ f.children = d.children
      /\ f.sex = [d.sex EXCEPT ![q] = s] /\ f.key = d.key
  BY <1>1, SetSexFields, SetSexKeepsKeys
<1> HIDE DEF f
<1>3. f.sex[q] = s
  BY <1>1, <1>2 DEF People
<1>4. ~IsChild(f, q, c)
  BY DEF Rekeys, f
<1>5. PICK n \in d.people : n # q /\ d.key[n] = <<Side[s], c>>
  BY <1>2, <1>3 DEF Rekeys, f
<1>6. n \in Names /\ n # NoName
  BY <1>1, FamtreeAssumption DEF People, NoName
<1>7. IsChild(d, n, c) /\ d.sex[n] = s
  <2>1. CASE s = "M"
    <3>1. d.father[c] = n
      BY <1>5, <2>1 DEF KeysNameParents, Side
    <3> QED
      BY <2>1, <3>1, <1>6 DEF Family, Mutual
  <2>2. CASE s = "F"
    <3>1. d.mother[c] = n
      BY <1>5, <2>2 DEF KeysNameParents, Side
    <3> QED
      BY <2>2, <3>1, <1>6 DEF Family, Mutual
  <2> QED
    BY <2>1, <2>2
<1>8. Linked(f, db', s, q, c)
  <2>1. Linked(f, addChild(f, q, c), s, q, c)
    BY <1>1, <1>2, <1>3, <1>4, AddChildLinks
  <2> QED
    BY <2>1 DEF f
<1>9. IsChild(db', q, c) /\ IsChild(db', n, c)
  <2>1. \A r \in Names, k \in Names :
           IsChild(db', r, k) <=> IsChild(f, r, k) \/ (r = q /\ k = c)
    <3>1. PICK g : g = db'
      OBVIOUS
    <3>2. /\ g \in People
          /\ g.children = [f.children EXCEPT ![q] = Append(f.children[q], c)]
      BY <1>8, <3>1 DEF Linked
    <3>3. \A r \in Names, k \in Names :
             IsChild(g, r, k) <=> IsChild(f, r, k) \/ (r = q /\ k = c)
      BY <1>1, <1>2, <3>2, LinkChildren
    <3> QED
      BY <3>1, <3>3 DEF IsChild
  <2> QED
    BY <1>1, <1>2, <1>6, <1>7, <2>1 DEF IsChild
<1>10. db'.sex[q] = s /\ db'.sex[n] = s
  BY <1>1, <1>2, <1>3, <1>5, <1>6, <1>7, <1>8 DEF Linked, People
<1>11. q \in db'.people /\ n \in db'.people
  BY <1>2, <1>8 DEF Linked
<1> QED
  BY <1>5, <1>9, <1>10, <1>11 DEF TwoParents, IsChild
\* The initial state.
LEMMA InitFail == Init => FailInv
<1> SUFFICES ASSUME Init PROVE FailInv
  OBVIOUS
<1>1. Range(queue) = {}
  BY DEF Init, Range
<1>2. KeysNameParents(db)
  BY DEF KeysNameParents, Init, new_person
<1> QED
  BY <1>1, <1>2 DEF FailInv, ChildrenWait, FailsOnlyOnTwoParents, Init

\* While lines are read nobody waits.
LEMMA NobodyWaits ==
  ASSUME Inv, phase = "read", UNCHANGED walk
  PROVE  ChildrenWait'
<1>1. queue' = <<>>
  BY DEF Inv, Fresh, walk
<1> QED
  BY <1>1 DEF ChildrenWait, Range

\* main's loop.
LEMMA ReadLineKeepsFail == Inv /\ FailInv /\ ReadLine => FailInv'
<1> SUFFICES ASSUME Inv, FailInv, ReadLine PROVE FailInv'
  OBVIOUS
<1> USE FamtreeAssumption
<1>1. /\ Family(db) /\ db \in People /\ phase = "read" /\ p \in db.people \cup {NoName}
      /\ db.people \subseteq Names /\ UNCHANGED walk /\ KeysNameParents(db)
  <2>1. phase = "read" /\ UNCHANGED walk
    BY DEF ReadLine, PersonLine, SexLine, setFather, setMother, setParent, FatherOf,
           MotherOf, ParentOf, NobodyLine, UnknownKey, Reading, walk
  <2> QED
    BY <2>1 DEF Inv, FailInv, Typed, Family, People
<1>2. ChildrenWait'
  BY <1>1, NobodyWaits
<1>3. ASSUME KeysNameParents(db'), phase' = "read" PROVE FailInv'
  BY <1>2, <1>3 DEF FailInv, FailsOnlyOnTwoParents
<1>4. ASSUME phase' = "exit", db' = db PROVE FailInv'
  BY <1>1, <1>2, <1>4 DEF FailInv, FailsOnlyOnTwoParents
<1>5. ASSUME NEW n \in Names, PersonLine(n)
      PROVE  FailInv'
  <2>1. CASE n \in db.people
    BY <2>1, <1>1, <1>3, <1>5 DEF PersonLine
  <2>2. CASE n \notin db.people
    <3>1. db' = new_person_name(db, n, OwnName) /\ phase' = phase
      BY <2>2, <1>5 DEF PersonLine
    <3> QED
      BY <3>1, <1>1, <1>3, NewPersonKeepsKeys
  <2> QED
    BY <2>1, <2>2
<1>6. ASSUME NEW s \in Sexes, SexLine(s)
      PROVE  FailInv'
  <2>1. CASE SexMismatch(db, p, s)
    BY <1>4, <1>6, <2>1 DEF SexLine, Fail
  <2>2. CASE ~SexMismatch(db, p, s)
    <3>1. p \in Names /\ db' = setSex(db, p, s) /\ phase' = phase
      BY <1>1, <1>6, <2>2 DEF SexLine
    <3> QED
      BY <3>1, <1>1, <1>3, SetSexKeepsKeys
  <2> QED
    BY <2>1, <2>2
<1>7. ASSUME NEW s \in {"M", "F"}, NEW n \in Names, setParent(s, n)
      PROVE  FailInv'
  <2>1. CASE db[Side[s]][p] \notin {NoName, n} \/ SexMismatch(db, n, s)
    BY <1>4, <1>7, <2>1 DEF setParent, Fail
  <2>2. CASE ~(db[Side[s]][p] \notin {NoName, n} \/ SexMismatch(db, n, s))
    <3>1. /\ p \in db.people /\ db[Side[s]][p] \in {NoName, n}
          /\ db.sex[n] \in {"none", s} /\ phase' = phase
      BY <1>1, <1>7, <2>2 DEF setParent, SexMismatch
    <3>2. db' = getParent(Noted(db, s, p, n), p, s)
      BY <1>7, <2>2 DEF setParent, getFather, getMother, Noted
    <3>3. KeysNameParents(getParent(Noted(db, s, p, n), p, s))
      BY <1>1, <3>1, ParentLineKeepsKeys
    <3> QED
      BY <1>1, <1>3, <3>1, <3>2, <3>3
  <2> QED
    BY <2>1, <2>2
<1>8. ASSUME NEW s \in {"M", "F"}, NEW c \in Names, ParentOf(s, c)
      PROVE  FailInv'
  <2>1. CASE SexMismatch(db, p, s)
    BY <1>4, <1>8, <2>1 DEF ParentOf, Fail
  <2>2. CASE ~SexMismatch(db, p, s)
    <3> DEFINE f == setSex(db, p, s)
               g == addChild(f, p, c)
    <3>1. /\ p \in db.people /\ p \in Names /\ s \in Sexes /\ db.sex[p] \in {"none", s}
          /\ db' = g /\ phase' = IF Rekeys(f, p, c) THEN "broken" ELSE phase
      BY <1>1, <1>8, <2>2 DEF ParentOf, SexMismatch
    <3>2. CASE Rekeys(f, p, c)
      <4>1. TwoParents(c)'
        BY <1>1, <3>1, <3>2, RekeyedHasTwoParents
      <4> QED
        BY <1>2, <3>1, <3>2, <4>1 DEF FailInv, FailsOnlyOnTwoParents
    <3>3. CASE ~Rekeys(f, p, c)
      <4>1. /\ f \in People /\ f.people = db.people /\ KeysNameParents(f)
            /\ f.sex = [db.sex EXCEPT ![p] = s]
        BY <1>1, <3>1, SetSexFields, SetSexKeepsKeys
      <4> HIDE DEF f
      <4>2. f.sex[p] = s
        BY <1>1, <3>1, <4>1 DEF People
      <4>3. KeysNameParents(addChild(f, p, c))
        BY <3>1, <3>3, <4>1, <4>2, AddChildKeepsKeys
      <4> QED
        BY <1>1, <1>3, <3>1, <3>3, <4>3
    <3> QED
      BY <3>2, <3>3
  <2> QED
    BY <2>1, <2>2
<1>9. CASE NobodyLine
  <2>1. p = NoName /\ UNCHANGED <<db, p>>
    BY <1>9 DEF NobodyLine, Fail
  <2> QED
    BY <1>1, <1>2, <2>1 DEF FailInv, FailsOnlyOnTwoParents
<1>10. CASE UnknownKey
  BY <1>4, <1>10 DEF UnknownKey, Fail
<1> QED
  BY <1>5, <1>6, <1>7, <1>8, <1>9, <1>10
  DEF ReadLine, setFather, setMother, FatherOf, MotherOf

\* A step that changes neither the people nor who waits, and does not fail.
LEMMA QuietStepKeepsFail ==
  ASSUME FailInv, phase \notin Ended, phase' \notin {"segv", "broken"},
         UNCHANGED <<db, p, queue, out>>
  PROVE  FailInv'
<1>1. KeysNameParents(db')
  BY DEF FailInv, Ended, KeysNameParents
<1>2. ChildrenWait'
  BY DEF FailInv, ChildrenWait, Parentless, IsChild
<1> QED
  BY <1>1, <1>2 DEF FailInv, FailsOnlyOnTwoParents

\* The queue is filled with the people without parents.
LEMMA RootsKeepFail == Inv /\ FailInv /\ AddRoot => FailInv'
<1> SUFFICES ASSUME Inv, FailInv, AddRoot PROVE FailInv'
  OBVIOUS
<1> DEFINE n == Min(todo)
<1>1. /\ queue \in Seq(Names) /\ todo \subseteq Names /\ todo # {}
      /\ phase = "roots" /\ UNCHANGED <<db, p, phase, out>>
      /\ queue' = IF Parentless(n) THEN Append(queue, n) ELSE queue
  BY DEF Inv, Typed, TypeOK, AddRoot
<1>2. n \in todo
  <2>1. todo \in SUBSET Nat
    BY <1>1, FamtreeAssumption
  <2> QED
    BY <1>1, <2>1, MinIn
<1> HIDE DEF n
<1>3. ASSUME NEW m \in Range(queue') PROVE Parentless(m) \/ \E q \in Range(out) : IsChild(db, q, m)
  <2>1. m \in Range(queue) \/ (m = n /\ Parentless(n))
    <3>1. Range(Append(queue, n)) = Range(queue) \cup {n}
      BY <1>1, <1>2, AppendRange
    <3> QED
      BY <1>1, <1>3, <3>1
  <2> QED
    BY <2>1 DEF FailInv, ChildrenWait
<1>4. ChildrenWait'
  BY <1>1, <1>3 DEF ChildrenWait, Parentless, IsChild
<1>5. KeysNameParents(db')
  BY <1>1 DEF FailInv, KeysNameParents
<1> QED
  BY <1>1, <1>4, <1>5 DEF FailInv, FailsOnlyOnTwoParents

\* The condition dereferences a father that is not there: who has put this person
\* into the queue is a mother, printed, and the mother it names is not.
LEMMA NullFatherHasTwoParents ==
  ASSUME Inv, ChildrenWait, NEW n \in Range(queue), NullFather(n)
  PROVE  TwoParents(n)
<1>1. /\ Family(db) /\ db.people \subseteq Names /\ n \in db.people
      /\ Range(out) \subseteq db.people
  BY DEF Inv, Typed, TypeOK
<1>2. /\ db.father[n] = NoName /\ db.mother[n] # NoName /\ ~Printed(db.mother[n])
      /\ ~Parentless(n)
  BY DEF NullFather, Parentless
<1>3. PICK q \in Range(out) : IsChild(db, q, n)
  BY <1>2 DEF ChildrenWait
<1>4. q \in db.people /\ q \in Names /\ n \in Names /\ q # db.mother[n]
  BY <1>1, <1>2, <1>3 DEF Printed
<1>5. db.sex[q] = "F"
  <2>1. db.sex[q] \in {"M", "F"}
    BY <1>1, <1>3, <1>4 DEF Family, ParentsKnown
  <2>2. db.sex[q] # "M"
    BY <1>1, <1>2, <1>3, <1>4 DEF Family, Mutual
  <2> QED
    BY <2>1, <2>2
<1>6. /\ db.mother[n] \in db.people /\ db.sex[db.mother[n]] = "F"
      /\ IsChild(db, db.mother[n], n)
  BY <1>1, <1>2, <1>4 DEF Family, Mutual
<1> QED
  BY <1>3, <1>4, <1>5, <1>6 DEF TwoParents

\* The first of the queue; its children come into the queue when it is printed.
LEMMA PrintNextKeepsFail == Inv /\ FailInv /\ PrintNext => FailInv'
<1> SUFFICES ASSUME Inv, FailInv, PrintNext PROVE FailInv'
  OBVIOUS
<1> DEFINE n == Head(queue)
<1>1. /\ db.people \subseteq Names /\ Family(db) /\ db \in People
      /\ queue \in Seq(Names) /\ out \in Seq(Names)
      /\ Range(queue) \subseteq db.people
  BY DEF Inv, Typed, TypeOK, Family
<1>2. phase = "print" /\ queue # <<>> /\ UNCHANGED p
  BY DEF PrintNext
<1>3. /\ n \in Range(queue) /\ n \in db.people /\ n \in Names
      /\ Tail(queue) \in Seq(Names) /\ Range(Tail(queue)) \subseteq Range(queue)
  <2>1. n = queue[1] /\ Len(queue) > 0 /\ DOMAIN queue = 1..Len(queue)
    BY <1>1, <1>2, HeadTailProperties, EmptySeq, LenProperties
  <2>2. n \in Range(queue)
    BY <1>1, <2>1, LenProperties DEF Range
  <2> HIDE DEF n
  <2>3. Range(Tail(queue)) \subseteq Range(queue)
    BY <1>1, <1>2, RangeOfTail
  <2>4. Tail(queue) \in Seq(Names)
    BY <1>1, <1>2, HeadTailProperties
  <2> QED
    BY <1>1, <2>2, <2>3, <2>4
<1>4. db' = db
  <2>1. LookedUp(n) = db
    BY <1>1, <1>3, LookupChangesNothing DEF LookedUp
  <2> QED
    BY <2>1 DEF PrintNext
<1>5. KeysNameParents(db')
  BY <1>2, <1>4 DEF FailInv, KeysNameParents
<1>6. /\ \/ phase' = "print"
         \/ phase' = "segv" /\ NullFather(n)
      /\ \/ queue' = Tail(queue) /\ out' = out
         \/ queue' = queue /\ out' = out
         \/ out' = Append(out, n) /\ queue' = Tail(queue) \o db.children[n]
  BY <1>2 DEF PrintNext, printPerson
<1> HIDE DEF n
<1>7. ASSUME NEW m \in Range(queue')
      PROVE  Parentless(m) \/ \E q \in Range(out') : IsChild(db, q, m)
  <2>1. CASE out' = out /\ queue' \in {queue, Tail(queue)}
    BY <1>3, <1>7, <2>1 DEF FailInv, ChildrenWait
  <2>2. CASE out' = Append(out, n) /\ queue' = Tail(queue) \o db.children[n]
    <3>1. Range(out') = Range(out) \cup {n}
      BY <1>1, <1>3, <2>2, AppendRange
    <3>2. db.children[n] \in Seq(Names)
      BY <1>1, <1>3 DEF People
    <3>3. Range(queue') = Range(Tail(queue)) \cup Range(db.children[n])
      <4>1. Range(Tail(queue) \o db.children[n]) = Range(Tail(queue)) \cup Range(db.children[n])
        <5>1. Tail(queue) \in Seq(Names)
          BY <1>3
        <5> QED
          BY <5>1, <3>2, RangeOfBoth, Zenon
      <4> QED
        BY <2>2, <4>1, Zenon
    <3> QED
      BY <1>3, <1>7, <3>1, <3>3 DEF FailInv, ChildrenWait, IsChild
  <2> QED
    BY <1>6, <2>1, <2>2
<1>8. ChildrenWait'
  BY <1>4, <1>7 DEF ChildrenWait, Parentless, IsChild
<1>9. FailsOnlyOnTwoParents'
  <2>1. CASE phase' = "print"
    BY <2>1 DEF FailsOnlyOnTwoParents
  <2>2. CASE phase' = "segv" /\ NullFather(n)
    <3>1. TwoParents(n)
      BY <1>3, <2>2, NullFatherHasTwoParents DEF FailInv
    <3>2. PICK c \in Names : c = n
      BY <1>3
    <3>3. TwoParents(c)
      BY <3>1, <3>2
    <3>4. TwoParents(c)'
      BY <1>4, <3>3 DEF TwoParents, IsChild
    <3> QED
      BY <3>4 DEF FailsOnlyOnTwoParents
  <2> QED
    BY <1>6, <2>1, <2>2
<1> QED
  BY <1>5, <1>8, <1>9 DEF FailInv

\* Every step keeps what is said about failing.
LEMMA NextFail == Inv /\ FailInv /\ [Next]_vars => FailInv'
<1> SUFFICES ASSUME Inv, FailInv, [Next]_vars PROVE FailInv'
  OBVIOUS
<1>1. CASE ReadLine
  BY <1>1, ReadLineKeepsFail
<1>2. CASE EndOfInput
  BY <1>2, QuietStepKeepsFail DEF EndOfInput, Ended
<1>3. CASE CheckPerson \/ CheckChild \/ Return \/ NoCycle
  <2>1. /\ phase = "check" /\ phase' \in {"check", "cycle", "roots"}
        /\ UNCHANGED <<db, p, queue, out>>
    BY <1>3 DEF CheckPerson, CheckChild, Return, NoCycle, isDescendant, Begin
  <2> QED
    BY <2>1, QuietStepKeepsFail DEF Ended
<1>4. CASE AddRoot
  BY <1>4, RootsKeepFail
<1>5. CASE AllRoots \/ Done
  <2>1. /\ phase \in {"roots", "print"} /\ phase' \in {"print", "done"}
        /\ UNCHANGED <<db, p, queue, out>>
    BY <1>5 DEF AllRoots, Done, walk
  <2> QED
    BY <2>1, QuietStepKeepsFail DEF Ended
<1>6. CASE PrintNext
  BY <1>6, PrintNextKeepsFail
<1>7. CASE UNCHANGED vars
  <2>1. UNCHANGED <<db, p, phase, queue, out>>
    BY <1>7 DEF vars
  <2> QED
    BY <2>1 DEF FailInv, KeysNameParents, ChildrenWait, Parentless, IsChild,
                FailsOnlyOnTwoParents, TwoParents
<1> QED
  BY <1>1, <1>2, <1>3, <1>4, <1>5, <1>6, <1>7 DEF Next, Walk

\* famtree crashes, or loses its tree, only before it has read of anybody, or when
\* a child has two parents of one sex.
THEOREM FailsOnlyOnTwoParentsHolds == Spec => []FailsOnlyOnTwoParents
<1>1. FailInv => FailsOnlyOnTwoParents
  BY DEF FailInv
<1> QED
  BY <1>1, InitInv, NextInv, InitFail, NextFail, PTL DEF Spec
(***************************************************************************)
(* Everybody is printed, and once.                                         *)
(***************************************************************************)

\* While printing, whoever could be printed next is in the queue; before, nobody
\* is printed, and the people without parents come into the queue one by one.
WaitInv ==
    /\ IsInjective(out)
    /\ phase \in {"check", "roots"} => out = <<>>
    /\ phase = "roots" => \A n \in db.people \ todo : Parentless(n) => n \in Range(queue)
    /\ phase = "print" => \A n \in db.people : Ready(n) => Printed(n) \/ n \in Range(queue)
    /\ phase = "done" => Range(out) = db.people
\* Where everybody in a set of people has a parent in it, somebody is a descendant
\* of theirs: a smallest such set has nobody without a child in it.
LEMMA ParentsMakeCycle ==
  ASSUME db.people \subseteq Names, NEW U \in SUBSET db.people, U # {},
         \A n \in U : \E q \in U : IsChild(db, q, n)
  PROVE  HasCycle
<1> DEFINE Closed(S) == S # {} /\ \A n \in S : \E q \in S : IsChild(db, q, n)
           Sizes == {k \in Nat : \E S \in SUBSET db.people : Closed(S) /\ k = Cardinality(S)}
<1>1. \A S \in SUBSET db.people : IsFiniteSet(S) /\ Cardinality(S) \in Nat
  BY FamtreeAssumption, FS_Subset, FS_CardinalityType
<1>2. Closed(U)
  OBVIOUS
<1>3. Cardinality(U) \in Sizes
  BY <1>1, <1>2
<1>4. PICK k \in Sizes : \A m \in Sizes : k <= m
  <2>1. Sizes \in SUBSET Nat /\ Sizes # {}
    BY <1>3
  <2> HIDE DEF Sizes
  <2> QED
    BY <2>1, MinIn
<1>5. PICK S \in SUBSET db.people : Closed(S) /\ k = Cardinality(S)
  BY <1>4
<1>6. ASSUME NEW q \in S, \A c \in S : ~IsChild(db, q, c)
      PROVE  FALSE
  <2>1. \A n \in S : \E r \in S \ {q} : IsChild(db, r, n)
    BY <1>5, <1>6
  <2>2. Closed(S \ {q})
    BY <2>1
  <2>3. Cardinality(S \ {q}) = k - 1
    BY <1>1, <1>5, FS_RemoveElement
  <2>4. S \ {q} \in SUBSET db.people /\ k - 1 \in Nat
    BY <1>1, <1>5, <2>3
  <2>5. k - 1 \in Sizes
    BY <2>2, <2>3, <2>4
  <2> QED
    BY <1>4, <2>4, <2>5
<1> QED
  BY <1>5, <1>6 DEF HasCycle

\* The initial state, reading, and the check of cycles.
LEMMA EarlyKeepsWait ==
  ASSUME out = <<>>, UNCHANGED out, phase' \notin {"roots", "print", "done"}
  PROVE  WaitInv'
  BY DEF WaitInv, IsInjective

LEMMA NoCycleKeepsWait == WaitInv /\ NoCycle => WaitInv'
<1> SUFFICES ASSUME WaitInv, NoCycle PROVE WaitInv'
  OBVIOUS
<1>1. /\ out = <<>> /\ out' = out /\ phase' = "roots" /\ todo' = db'.people
  BY DEF WaitInv, NoCycle
<1> QED
  BY <1>1 DEF WaitInv, IsInjective

\* The people without parents come into the queue.
LEMMA AddRootKeepsWait == Inv /\ WaitInv /\ AddRoot => WaitInv'
<1> SUFFICES ASSUME Inv, WaitInv, AddRoot PROVE WaitInv'
  OBVIOUS
<1> DEFINE n == Min(todo)
<1>1. /\ queue \in Seq(Names) /\ todo \subseteq Names
      /\ phase = "roots" /\ UNCHANGED <<db, phase, out>>
      /\ todo # {} /\ todo' = todo \ {n}
      /\ queue' = IF Parentless(n) THEN Append(queue, n) ELSE queue
      /\ IsInjective(out) /\ out = <<>>
  BY DEF Inv, Typed, TypeOK, AddRoot, WaitInv
<1>2. n \in Names
  <2>1. todo \in SUBSET Nat
    BY <1>1, FamtreeAssumption
  <2> QED
    BY <1>1, <2>1, MinIn
<1> HIDE DEF n
<1>3. Range(Append(queue, n)) = Range(queue) \cup {n}
  BY <1>1, <1>2, AppendRange
<1>4. \A m \in db.people \ todo' : Parentless(m) => m \in Range(queue')
  BY <1>1, <1>3 DEF WaitInv
<1>5. \A m : Parentless(m)' = Parentless(m)
  BY <1>1 DEF Parentless
<1> QED
  BY <1>1, <1>4, <1>5 DEF WaitInv

\* Nobody is printed yet: who is ready has no parents.
LEMMA AllRootsKeepsWait == WaitInv /\ AllRoots => WaitInv'
<1> SUFFICES ASSUME WaitInv, AllRoots PROVE WaitInv'
  OBVIOUS
<1>1. /\ phase = "roots" /\ phase' = "print" /\ todo = {} /\ out = <<>>
      /\ UNCHANGED <<db, queue, out>> /\ IsInjective(out)
  BY DEF WaitInv, AllRoots, walk
<1>2. \A q : ~Printed(q)
  BY <1>1 DEF Printed, Range
<1>3. \A m : Ready(m)' = Ready(m)
  BY <1>1 DEF Ready, Printed
<1>4. \A m \in db.people : Ready(m) => m \in Range(queue)
  BY <1>1, <1>2 DEF WaitInv, Ready, Parentless
<1> QED
  BY <1>1, <1>3, <1>4 DEF WaitInv

\* A longer list that is new at its end has nobody twice.
LEMMA AppendOnce ==
  ASSUME NEW S, NEW t \in Seq(S), NEW x \in S, IsInjective(t), x \notin Range(t)
  PROVE  IsInjective(Append(t, x))
<1>1. /\ Len(Append(t, x)) = Len(t) + 1 /\ Len(t) \in Nat
      /\ \A j \in 1..Len(t) : Append(t, x)[j] = t[j]
      /\ Append(t, x)[Len(t) + 1] = x
      /\ DOMAIN Append(t, x) = 1..Len(t) + 1 /\ DOMAIN t = 1..Len(t)
  BY AppendProperties, LenProperties
<1>2. \A j \in 1..Len(t) : t[j] # x
  BY <1>1 DEF Range
<1> QED
  BY <1>1, <1>2 DEF IsInjective

\* Whoever becomes ready when somebody is printed is a child of theirs.
LEMMA PrintedMakesReady ==
  ASSUME Inv, NEW n \in Names, out \in Seq(Names), UNCHANGED db, out' = Append(out, n),
         NEW m \in db.people, Ready(m)', ~Ready(m)
  PROVE  m \in Range(db.children[n])
<1>1. /\ Family(db) /\ m \in Names /\ NoName \notin Names
  BY FamtreeAssumption DEF Inv, Typed, TypeOK, NoName
<1>2. Range(out') = Range(out) \cup {n}
  BY AppendRange
<1>3. \A q : Printed(q)' <=> Printed(q) \/ q = n
  BY <1>2 DEF Printed
<1>4. db.father[m] = n \/ db.mother[m] = n
  BY <1>3 DEF Ready
<1>5. IsChild(db, n, m)
  BY <1>1, <1>4 DEF Family, Mutual
<1> QED
  BY <1>5 DEF IsChild

\* The first of the queue is dropped, or printed and its children come in.
LEMMA PrintNextKeepsWait == Inv /\ WaitInv /\ PrintNext => WaitInv'
<1> SUFFICES ASSUME Inv, WaitInv, PrintNext PROVE WaitInv'
  OBVIOUS
<1> DEFINE n == Head(queue)
<1>1. /\ db.people \subseteq Names /\ Family(db) /\ db \in People
      /\ queue \in Seq(Names) /\ out \in Seq(Names)
      /\ Range(queue) \subseteq db.people
      /\ phase = "print" /\ queue # <<>> /\ IsInjective(out)
  BY DEF Inv, Typed, TypeOK, Family, PrintNext, WaitInv
<1>2. /\ Range(queue) = {n} \cup Range(Tail(queue)) /\ n \in Names
      /\ Tail(queue) \in Seq(Names)
  BY <1>1, RangeOfTail, HeadTailProperties
<1>3. db' = db
  <2>1. LookedUp(n) = db
    BY <1>1, <1>2, LookupChangesNothing DEF LookedUp
  <2> QED
    BY <2>1 DEF PrintNext
<1>4. \/ Printed(n) /\ queue' = Tail(queue) /\ out' = out /\ phase' = "print"
      \/ ~Ready(n) /\ queue' = Tail(queue) /\ out' = out /\ phase' = "print"
      \/ out' = out /\ phase' = "segv"
      \/ /\ ~Printed(n) /\ phase' = "print"
         /\ out' = Append(out, n) /\ queue' = Tail(queue) \o db.children[n]
  BY <1>1 DEF PrintNext, printPerson
<1> HIDE DEF n
<1>5. CASE out' = out /\ phase' = "segv"
  BY <1>1, <1>5 DEF WaitInv
<1>6. CASE /\ Printed(n) \/ ~Ready(n)
           /\ queue' = Tail(queue) /\ out' = out /\ phase' = "print"
  <2>1. \A m : (Ready(m)' <=> Ready(m)) /\ (Printed(m)' <=> Printed(m))
    BY <1>3, <1>6 DEF Ready, Printed
  <2>2. \A m \in db.people : Ready(m) => Printed(m) \/ m \in Range(Tail(queue))
    BY <1>1, <1>2, <1>6 DEF WaitInv
  <2> QED
    BY <1>1, <1>3, <1>6, <2>1, <2>2 DEF WaitInv
<1>7. CASE /\ ~Printed(n) /\ phase' = "print"
           /\ out' = Append(out, n) /\ queue' = Tail(queue) \o db.children[n]
  <2>1. IsInjective(out')
    BY <1>1, <1>2, <1>7, AppendOnce DEF Printed
  <2>2. Range(out') = Range(out) \cup {n}
    BY <1>1, <1>2, <1>7, AppendRange
  <2>3. db.children[n] \in Seq(Names)
    BY <1>1, <1>2 DEF People
  <2>4. Range(queue') = Range(Tail(queue)) \cup Range(db.children[n])
    <3>1. Range(Tail(queue) \o db.children[n]) = Range(Tail(queue)) \cup Range(db.children[n])
      <4>1. Tail(queue) \in Seq(Names)
        BY <1>2
      <4> QED
        BY <4>1, <2>3, RangeOfBoth, Zenon
    <3> QED
      BY <1>7, <3>1, Zenon
  <2>5. ASSUME NEW m \in db.people, Ready(m)'
        PROVE  Printed(m)' \/ m \in Range(queue')
    <3>1. CASE Ready(m)
      <4>1. Printed(m) \/ m \in Range(queue)
        BY <1>1, <3>1 DEF WaitInv
      <4> QED
        BY <1>2, <2>2, <2>4, <4>1 DEF Printed
    <3>2. CASE ~Ready(m)
      <4>1. m \in Range(db.children[n])
        BY <1>1, <1>2, <1>3, <1>7, <2>5, <3>2, PrintedMakesReady
      <4> QED
        BY <2>4, <4>1
    <3> QED
      BY <3>1, <3>2
  <2> QED
    BY <1>3, <1>7, <2>1, <2>5 DEF WaitInv
<1> QED
  BY <1>4, <1>5, <1>6, <1>7

\* Nobody is left in the queue: who is not printed has a parent that is not
\* printed either, and so on; there is no cycle, so everybody is printed.
LEMMA DoneKeepsWait == Inv /\ WaitInv /\ Done => WaitInv'
<1> SUFFICES ASSUME Inv, WaitInv, Done PROVE WaitInv'
  OBVIOUS
<1>1. /\ phase = "print" /\ phase' = "done" /\ queue = <<>> /\ UNCHANGED <<db, out>>
      /\ IsInjective(out) /\ ~HasCycle
      /\ db.people \subseteq Names /\ Family(db) /\ Range(out) \subseteq db.people
  BY DEF Inv, Typed, TypeOK, WaitInv, Done, walk, CycleCheckRight
<1> DEFINE U == db.people \ Range(out)
<1>2. Range(queue) = {}
  BY <1>1 DEF Range
<1>3. ASSUME NEW n \in U
      PROVE  \E q \in U : IsChild(db, q, n)
  <2>1. ~Ready(n) /\ n \in Names
    BY <1>1, <1>2 DEF WaitInv, Printed
  <2>2. \/ db.father[n] # NoName /\ ~Printed(db.father[n])
        \/ db.mother[n] # NoName /\ ~Printed(db.mother[n])
    BY <2>1 DEF Ready
  <2>3. /\ db.father[n] # NoName => db.father[n] \in db.people /\ IsChild(db, db.father[n], n)
        /\ db.mother[n] # NoName => db.mother[n] \in db.people /\ IsChild(db, db.mother[n], n)
    BY <1>1, <2>1 DEF Family, Mutual
  <2> QED
    BY <2>2, <2>3 DEF Printed
<1>4. U = {}
  BY <1>1, <1>3, ParentsMakeCycle
<1>5. Range(out) = db.people
  BY <1>1, <1>4
<1> QED
  BY <1>1, <1>5 DEF WaitInv

\* Every step keeps what is said about who waits.
LEMMA NextWait == Inv /\ WaitInv /\ [Next]_vars => WaitInv'
<1> SUFFICES ASSUME Inv, WaitInv, [Next]_vars PROVE WaitInv'
  OBVIOUS
<1>1. CASE ReadLine \/ EndOfInput
  <2>1. /\ phase = "read" /\ UNCHANGED out /\ phase' \in {"read", "check", "exit", "segv", "broken"}
    BY <1>1 DEF ReadLine, PersonLine, SexLine, setFather, setMother, setParent, FatherOf,
                MotherOf, ParentOf, NobodyLine, UnknownKey, EndOfInput, Reading, Fail, walk
  <2>2. out = <<>>
    BY <2>1 DEF Inv, Fresh
  <2> QED
    BY <2>1, <2>2, EarlyKeepsWait
<1>2. CASE CheckPerson \/ CheckChild \/ Return
  <2>1. phase = "check" /\ phase' \in {"check", "cycle"} /\ UNCHANGED out
    BY <1>2 DEF CheckPerson, CheckChild, Return, isDescendant, Begin
  <2>2. out = <<>>
    BY <2>1 DEF WaitInv
  <2> QED
    BY <2>1, <2>2, EarlyKeepsWait
<1>3. CASE UNCHANGED vars
  BY <1>3 DEF vars, WaitInv, Parentless, Ready, Printed
<1> QED
  BY <1>1, <1>2, <1>3, NoCycleKeepsWait, AddRootKeepsWait, AllRootsKeepsWait,
     PrintNextKeepsWait, DoneKeepsWait DEF Next, Walk

\* Each is printed after their parents, and when the queue is empty everybody has
\* been, and nobody twice: a person dropped while a parent is missing comes back
\* with the last one.
THEOREM PrintsRightHolds == Spec => []PrintsRight
<1>1. Init => WaitInv
  BY DEF Init, WaitInv, IsInjective
<1>2. Inv /\ WaitInv => PrintsRight
  BY DEF Inv, WaitInv, EveryoneOnce, PrintsRight
<1> QED
  BY <1>1, <1>2, InitInv, NextInv, NextWait, PTL DEF Spec
=============================================================================
