------------------------------ MODULE ChatRoom ------------------------------
(***************************************************************************)
(* What jtalk promises the people who use it, without threads, sockets or  *)
(* a mutex: a room in which one thing is said at a time, everybody who is  *)
(* there hears all of it from the moment of coming in, and nothing anyone  *)
(* says is lost, repeated or put in another order.                         *)
(***************************************************************************)
EXTENDS Naturals, Sequences, FiniteSets

CONSTANT Person

VARIABLES
    open,      \* the room has not been closed
    place,     \* of each person: out, in, leaving or left
    said,      \* everything said, in order; number 0 is "<from> has quit"
    since,     \* how much had been said when a person came in
    heard      \* per person, what was heard, as places in said

vars == <<open, place, said, since, heard>>

Place == {"out", "in", "leaving", "left"}

Init ==
    /\ open = TRUE
    /\ place = [p \in Person |-> "out"]
    /\ said = <<>>
    /\ since = [p \in Person |-> 0]
    /\ heard = [p \in Person |-> <<>>]

\* The next thing for p to hear, and whether there is one.
Upcoming(p) == since[p] + Len(heard[p]) + 1
Waiting(p) == place[p] = "in" /\ Upcoming(p) <= Len(said)
Quiet == \A p \in Person : ~Waiting(p)

SaidBy(p) == {i \in DOMAIN said : said[i].from = p}
Numbers(p) == {said[i].n : i \in SaidBy(p)}

\* Nobody comes in while something is being said.
Join(p) ==
    /\ open /\ Quiet /\ place[p] = "out"
    /\ place' = [place EXCEPT ![p] = "in"]
    /\ since' = [since EXCEPT ![p] = Len(said)]
    /\ UNCHANGED <<open, said, heard>>

\* What a person says has the next number: the first is that p has joined.
Say(p) ==
    /\ open /\ Quiet /\ place[p] \in {"in", "leaving"}
    /\ 0 \notin Numbers(p)
    /\ said' = Append(said, [from |-> p, n |-> Cardinality(SaidBy(p)) + 1])
    /\ UNCHANGED <<open, place, since, heard>>

Hear(p) ==
    /\ open /\ Waiting(p)
    /\ heard' = [heard EXCEPT ![p] = Append(@, Upcoming(p))]
    /\ UNCHANGED <<open, place, said, since>>

\* A person goes at will, and from then on hears nothing; the room takes note
\* later, and then says so once.
Go(p) ==
    /\ open /\ place[p] = "in"
    /\ place' = [place EXCEPT ![p] = "leaving"]
    /\ UNCHANGED <<open, said, since, heard>>

TakeNote(p) ==
    /\ open /\ Quiet /\ place[p] = "leaving"
    /\ place' = [place EXCEPT ![p] = "left"]
    /\ UNCHANGED <<open, said, since, heard>>

Farewell(p) ==
    /\ open /\ Quiet /\ place[p] = "left" /\ 0 \notin Numbers(p)
    /\ said' = Append(said, [from |-> p, n |-> 0])
    /\ UNCHANGED <<open, place, since, heard>>

Close ==
    /\ open
    /\ open' = FALSE
    /\ UNCHANGED <<place, said, since, heard>>

Next ==
    \/ Close
    \/ \E p \in Person :
          Join(p) \/ Say(p) \/ Hear(p) \/ Go(p) \/ TakeNote(p) \/ Farewell(p)

Spec == Init /\ [][Next]_vars

\* What is being said reaches everybody who stays, while the room is open.
EveryoneHears ==
    \A p \in Person : Waiting(p) /\ open ~> ~Waiting(p) \/ ~open

\* Whoever goes is noticed and bidden farewell.
DeparturesNoted ==
    \A p \in Person : place[p] = "leaving" /\ open ~> 0 \in Numbers(p) \/ ~open

LiveSpec == Spec /\ EveryoneHears /\ DeparturesNoted

\* Every variable has its type.
TypeOK ==
    /\ open \in BOOLEAN
    /\ place \in [Person -> Place]
    /\ said \in Seq([from : Person, n : Nat])
    /\ since \in [Person -> Nat]
    /\ heard \in [Person -> Seq(Nat)]

\* What a person has heard is what was said from the coming in on, without a gap.
HeardSuffix ==
    \A p \in Person :
        /\ heard[p] = [i \in 1..Len(heard[p]) |-> since[p] + i]
        /\ since[p] + Len(heard[p]) <= Len(said)

\* Those present have heard all but perhaps the last thing said, so whatever two
\* of them have heard differs by one at most.
OneAtATime ==
    \A p \in Person : place[p] = "in" => since[p] + Len(heard[p]) + 1 >= Len(said)

\* What one person says is in order, and nothing of it follows the farewell.
SaidInOrder ==
    \A i, j \in DOMAIN said :
        i < j /\ said[i].from = said[j].from =>
            /\ said[i].n # 0
            /\ said[j].n = 0 \/ said[i].n < said[j].n
=============================================================================
