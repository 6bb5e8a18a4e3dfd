------------------------------ MODULE Famtree ------------------------------
(***************************************************************************)
(* famtree of lab1: it reads lines about people (famtree.c, main), links   *)
(* them (person.c), looks for cycles (cycleCheck, isDescendant) and prints *)
(* everybody after their parents (printFamtree).                           *)
(*                                                                         *)
(* A person is its name. The tree `people' is keyed by strings it does not *)
(* own: a parent that getFather or getMother creates is inserted under the *)
(* child's own copy of the parent's name. key says whose string a node     *)
(* uses. Once such a string changes, what a search of the tree finds is    *)
(* anybody's guess; the model stops there, in the phase "broken".          *)
(***************************************************************************)
EXTENDS Naturals, Sequences, FiniteSetsExt, Functions

CONSTANTS
    Names,       \* names that lines mention, ordered as strcmp orders them
    Sexes,       \* what a SEX line may say; "M" and "F" are among them
    MaxLines     \* bound: lines read

ASSUME FamtreeAssumption ==
    /\ Names \subseteq Nat \ {0} /\ IsFiniteSet(Names)
    /\ {"M", "F"} \subseteq Sexes /\ "none" \notin Sexes
    /\ MaxLines \in Nat

NoName == 0             \* the empty string, and p before the first PERSON line
OwnName == <<"name", NoName>>
Side == [M |-> "father", F |-> "mother"]

VARIABLES
    db,          \* people, sex, father, mother, children and key, by name
    p,           \* the person the lines are about
    line,        \* lines read
    phase,       \* "read", "check", "roots", "print", or how the program ended
    todo,        \* nodes that a traversal of the tree has not come to
    stack,       \* calls of isDescendant: the person and the children left
    visited,     \* 0, 1 or 2
    queue, out   \* printFamtree's queue, and the people printed

vars == <<db, p, line, phase, todo, stack, visited, queue, out>>
walk == <<todo, stack, visited, queue, out>>

Ended == {"done", "exit", "cycle", "segv", "broken"}

-----------------------------------------------------------------------------
(* person.c: each of these returns the people as the call leaves them.     *)

new_person ==
    [people |-> {}, sex |-> [n \in Names |-> "none"],
     father |-> [n \in Names |-> NoName], mother |-> [n \in Names |-> NoName],
     children |-> [n \in Names |-> <<>>], key |-> [n \in Names |-> OwnName]]

\* A new person, with its node in the tree.
new_person_name(d, n, k) ==
    [d EXCEPT !.people = @ \cup {n}, !.key[n] = k]

\* The person's sex is another one: setSex ends the program.
SexMismatch(d, n, s) == d.sex[n] \notin {"none", s}
setSex(d, n, s) == [d EXCEPT !.sex[n] = s]

IsChild(d, q, c) == c \in Range(d.children[q])

\* Variant: a child is appended without looking for it.
addChildAgain(d, q, c) ==
    LET e == IF c \in d.people THEN d ELSE new_person_name(d, c, OwnName)
    IN  [e EXCEPT ![Side[d.sex[q]]][c] = q, !.children[q] = Append(@, c)]
addChild(d, q, c) ==
    IF IsChild(d, q, c) THEN d
    ELSE LET e == IF c \in d.people THEN d ELSE new_person_name(d, c, OwnName)
         IN  [e EXCEPT ![Side[d.sex[q]]][c] = q, !.children[q] = Append(@, c)]

\* addChild overwrites a string that is the key of somebody's node.
Rekeys(d, q, c) ==
    /\ ~IsChild(d, q, c)
    /\ \E n \in d.people \ {q} : d.key[n] = <<Side[d.sex[q]], c>>

\* The parent whose name the child keeps: found or created, of the right sex,
\* with the child among its children.
getParent(d, c, s) ==
    LET q == d[Side[s]][c]
        e == IF q \in d.people THEN d ELSE new_person_name(d, q, <<Side[s], c>>)
    IN  IF q = NoName THEN d ELSE addChild(setSex(e, q, s), q, c)

getFather(d, c) == getParent(d, c, "M")

\* Variant: the mother does not get the child.
getMotherOnly(d, c) ==
    LET q == d.mother[c] IN
    IF q = NoName \/ q \in d.people THEN d
    ELSE setSex(new_person_name(d, q, <<"mother", c>>), q, "F")
getMother(d, c) == getParent(d, c, "F")

-----------------------------------------------------------------------------
(* main's loop: one action per kind of line.                               *)

Init ==
    /\ db = new_person /\ p = NoName /\ line = 0 /\ phase = "read"
    /\ todo = {} /\ stack = <<>> /\ visited = [n \in Names |-> 0]
    /\ queue = <<>> /\ out = <<>>

Reading ==
    /\ phase = "read" /\ line < MaxLines
    /\ line' = line + 1

Fail(how) == phase' = how /\ UNCHANGED <<db, p>>

PersonLine(n) ==
    /\ Reading
    /\ db' = IF n \in db.people THEN db ELSE new_person_name(db, n, OwnName)
    /\ p' = n
    /\ UNCHANGED <<phase, walk>>

SexLine(s) ==
    /\ Reading /\ p # NoName
    /\ IF SexMismatch(db, p, s)
       THEN Fail("exit")
       ELSE db' = setSex(db, p, s) /\ UNCHANGED <<p, phase>>
    /\ UNCHANGED walk

\* setFather and setMother: another parent of that sex, or a parent known to
\* be of the other, ends the program.
setParent(s, n) ==
    /\ Reading /\ p # NoName
    /\ IF db[Side[s]][p] \notin {NoName, n} \/ SexMismatch(db, n, s)
       THEN Fail("exit")
       ELSE LET d == [db EXCEPT ![Side[s]][p] = n] IN
            /\ db' = IF s = "M" THEN getFather(d, p) ELSE getMother(d, p)
            /\ UNCHANGED <<p, phase>>
    /\ UNCHANGED walk

setFather(n) == setParent("M", n)
setMother(n) == setParent("F", n)

ParentOf(s, c) ==
    /\ Reading /\ p # NoName
    /\ IF SexMismatch(db, p, s)
       THEN Fail("exit")
       ELSE LET d == setSex(db, p, s) IN
            /\ db' = addChild(d, p, c)
            /\ phase' = IF Rekeys(d, p, c) THEN "broken" ELSE phase
            /\ p' = p
    /\ UNCHANGED walk

FatherOf(c) == ParentOf("M", c)
MotherOf(c) == ParentOf("F", c)

\* A line that is not about anybody yet, and a line with an unknown key.
NobodyLine == Reading /\ p = NoName /\ Fail("segv") /\ UNCHANGED walk
UnknownKey == Reading /\ Fail("exit") /\ UNCHANGED walk

EndOfInput ==
    /\ phase = "read"
    /\ phase' = "check" /\ todo' = db.people
    /\ UNCHANGED <<db, p, line, stack, visited, queue, out>>

-----------------------------------------------------------------------------
(* cycleCheck and isDescendant, one call or return at a time.              *)

\* Variant: a person counts as visited from the start of its call.
BeginSeen(n, calls) ==
    /\ visited' = [visited EXCEPT ![n] = 1]
    /\ stack' = <<[who |-> n, left |-> db.children[n]]>> \o calls
    /\ UNCHANGED phase
Begin(n, calls) ==
    /\ visited' = [visited EXCEPT ![n] = 2]
    /\ stack' = <<[who |-> n, left |-> db.children[n]]>> \o calls
    /\ UNCHANGED phase

\* isDescendant(n) called from calls.
isDescendant(n, calls) ==
    \/ visited[n] = 0 /\ Begin(n, calls)
    \/ visited[n] = 1 /\ stack' = calls /\ UNCHANGED <<visited, phase>>
    \/ visited[n] = 2 /\ phase' = "cycle" /\ UNCHANGED <<stack, visited>>

CheckPerson ==
    /\ phase = "check" /\ stack = <<>> /\ todo # {}
    /\ todo' = todo \ {Min(todo)}
    /\ isDescendant(Min(todo), <<>>)
    /\ UNCHANGED <<db, p, line, queue, out>>

CheckChild ==
    /\ phase = "check" /\ stack # <<>> /\ Head(stack).left # <<>>
    /\ LET top == Head(stack) IN
       isDescendant(Head(top.left), <<[top EXCEPT !.left = Tail(@)]>> \o Tail(stack))
    /\ UNCHANGED <<db, p, line, todo, queue, out>>

Return ==
    /\ phase = "check" /\ stack # <<>> /\ Head(stack).left = <<>>
    /\ visited' = [visited EXCEPT ![Head(stack).who] = 1]
    /\ stack' = Tail(stack)
    /\ UNCHANGED <<db, p, line, phase, todo, queue, out>>

NoCycle ==
    /\ phase = "check" /\ stack = <<>> /\ todo = {}
    /\ phase' = "roots" /\ todo' = db.people
    /\ UNCHANGED <<db, p, line, stack, visited, queue, out>>

-----------------------------------------------------------------------------
(* printFamtree.                                                           *)

\* Variant: only the father is looked at.
FatherlessOnly(n) == db.father[n] = NoName
Parentless(n) == db.father[n] = NoName /\ db.mother[n] = NoName

AddRoot ==
    /\ phase = "roots" /\ todo # {}
    /\ todo' = todo \ {Min(todo)}
    /\ queue' = IF Parentless(Min(todo)) THEN Append(queue, Min(todo)) ELSE queue
    /\ UNCHANGED <<db, p, line, phase, stack, visited, out>>

AllRoots ==
    /\ phase = "roots" /\ todo = {}
    /\ phase' = "print"
    /\ UNCHANGED <<db, p, line, walk>>

Printed(n) == n \in Range(out)

\* Variant: one printed parent is enough.
ReadyEither(n) == Parentless(n) \/ Printed(db.father[n]) \/ Printed(db.mother[n])
\* Every known parent is printed.
Ready(n) ==
    /\ db.father[n] = NoName \/ Printed(db.father[n])
    /\ db.mother[n] = NoName \/ Printed(db.mother[n])

\* With only a mother, not yet printed, the condition goes on to dereference
\* the father, which is NULL.
NullFather(n) ==
    /\ db.father[n] = NoName
    /\ db.mother[n] # NoName /\ ~Printed(db.mother[n])

\* The condition looks the parents up as it goes.
LookedUp(n) ==
    IF db.father[n] # NoName /\ ~Printed(db.father[n])
    THEN getFather(db, n)
    ELSE getMother(getFather(db, n), n)

\* The name, the sex, the parents and the children, in a layout left out here.
printPerson(n) == out' = Append(out, n)

\* Variants: a person already printed stays in the queue, or is printed again.
PrintNextStuck ==
    /\ phase = "print" /\ queue # <<>>
    /\ LET n == Head(queue) IN
       \/ /\ Printed(n) /\ UNCHANGED <<db, phase, queue, out>>
       \/ /\ ~Printed(n) /\ ~NullFather(n)
          /\ db' = LookedUp(n)
          /\ IF Ready(n)
             THEN printPerson(n) /\ queue' = Tail(queue) \o db.children[n]
             ELSE queue' = Tail(queue) /\ UNCHANGED out
          /\ UNCHANGED phase
    /\ UNCHANGED <<p, line, todo, stack, visited>>
PrintNextAgain ==
    /\ phase = "print" /\ queue # <<>>
    /\ LET n == Head(queue) IN
       /\ db' = LookedUp(n)
       /\ IF Ready(n)
          THEN printPerson(n) /\ queue' = Tail(queue) \o db.children[n]
          ELSE queue' = Tail(queue) /\ UNCHANGED out
       /\ UNCHANGED phase
    /\ UNCHANGED <<p, line, todo, stack, visited>>

PrintNext ==
    /\ phase = "print" /\ queue # <<>>
    /\ LET n == Head(queue) IN
       \/ /\ Printed(n)
          /\ queue' = Tail(queue)
          /\ UNCHANGED <<db, phase, out>>
       \/ /\ ~Printed(n) /\ NullFather(n)
          /\ phase' = "segv" /\ UNCHANGED <<db, queue, out>>
       \/ /\ ~Printed(n) /\ ~NullFather(n)
          /\ db' = LookedUp(n)
          /\ IF Ready(n)
             THEN printPerson(n) /\ queue' = Tail(queue) \o db.children[n]
             ELSE queue' = Tail(queue) /\ UNCHANGED out
          /\ UNCHANGED phase
    /\ UNCHANGED <<p, line, todo, stack, visited>>

Done ==
    /\ phase = "print" /\ queue = <<>>
    /\ phase' = "done"
    /\ UNCHANGED <<db, p, line, walk>>

-----------------------------------------------------------------------------

ReadLine ==
    \/ \E n \in Names : PersonLine(n) \/ setFather(n) \/ setMother(n)
                           \/ FatherOf(n) \/ MotherOf(n)
    \/ \E s \in Sexes : SexLine(s)
    \/ NobodyLine \/ UnknownKey

Walk ==
    \/ CheckPerson \/ CheckChild \/ Return \/ NoCycle
    \/ AddRoot \/ AllRoots \/ PrintNext \/ Done

Next == ReadLine \/ EndOfInput \/ Walk

Spec == Init /\ [][Next]_vars

\* One sequential program: what follows the end of its input goes on by itself.
FairSpec == Spec /\ WF_vars(Walk)

-----------------------------------------------------------------------------
(* Properties.                                                             *)

\* Types, and that no child is twice in a parent's list (addChild).
TypeOK ==
    /\ db.people \subseteq Names
    /\ db.sex \in [Names -> Sexes \cup {"none"}]
    /\ db.father \in [Names -> Names \cup {NoName}]
    /\ db.mother \in [Names -> Names \cup {NoName}]
    /\ \A n \in Names :
         /\ Range(db.children[n]) \subseteq Names
         /\ IsInjective(db.children[n])
    /\ p \in Names \cup {NoName}
    /\ phase \in {"read", "check", "roots", "print"} \cup Ended
    /\ visited \in [Names -> 0..2]
    /\ Range(queue) \subseteq db.people /\ Range(out) \subseteq db.people

\* Links go both ways: the parents a person names are people of the right sex
\* that have it among their children, and a child whose parent is not the one
\* it names was given to a second one of that sex. Reading lines keeps this, and
\* so do the lookups made while printing (person.c, getFather, addChild).
LinksMutual ==
    \A s \in {"M", "F"} :
        LET parent == db[Side[s]] IN
        \A c \in Names :
            /\ parent[c] # NoName =>
                 /\ parent[c] \in db.people /\ db.sex[parent[c]] = s
                 /\ IsChild(db, parent[c], c)
            /\ \A q \in Names : IsChild(db, q, c) =>
                 /\ c \in db.people
                 /\ db.sex[q] = s => parent[c] # NoName

\* Some people are all descendants of one another.
HasCycle ==
    \E S \in SUBSET db.people :
        S # {} /\ \A q \in S : \E c \in S : IsChild(db, q, c)

\* cycleCheck reports a cycle exactly when the specification has one.
CycleCheckRight ==
    /\ phase \in {"roots", "print", "done"} => ~HasCycle
    /\ phase = "cycle" => HasCycle

\* Nobody is printed before a parent (famtree.c, "if all the person's parents
\* have been printed").
ParentsFirst ==
    \A i \in DOMAIN out :
        {db.father[out[i]], db.mother[out[i]]} \ {NoName} \subseteq {out[j] : j \in 1..(i - 1)}

\* Two people of one sex have this child.
TwoParents(c) ==
    \E q, r \in db.people : q # r /\ db.sex[q] = db.sex[r]
                               /\ IsChild(db, q, c) /\ IsChild(db, r, c)

\* The program crashes, or loses its tree, only on a line before any PERSON or
\* when FATHER_OF or MOTHER_OF lines give a child a second parent of one sex.
FailsOnlyOnTwoParents ==
    phase \in {"segv", "broken"} => p = NoName \/ \E c \in Names : TwoParents(c)

\* Everybody is printed once if no cycle was found and the program gets to its
\* end, and each after their parents (famtree.c, the queue: a person dropped from
\* it while a parent is missing is there again when the last parent is printed).
EveryoneOnce == phase = "done" => Range(out) = db.people /\ IsInjective(out)
PrintsRight == ParentsFirst /\ EveryoneOnce

\* After the end of the input the program ends, whatever cycles it was given.
CheckEnds == phase = "check" ~> phase \in Ended

=============================================================================
