------------------------------ MODULE IpTools ------------------------------
(***************************************************************************)
(* The three programs of lab2, l2p1, l2p2 and l2p3, which read a table of  *)
(* machines from the file `converted` and answer which machines have a     *)
(* name. They differ in how they read (ip_parser.c): through a stream, by  *)
(* read(2), or from a buffer that holds the whole file; and so in what     *)
(* they do when the file ends where it should not.                         *)
(*                                                                         *)
(* A record of the file is four bytes of address, four that count the      *)
(* names, and the names, each ended by a NUL byte. Left out: that answers  *)
(* are printed in alphabetical order, and freeing.                         *)
(***************************************************************************)
EXTENDS Naturals, Sequences, FiniteSets, SequencesExt

CONSTANTS
    Tables,          \* the tables a file may have been made from
    Words,           \* the names the user may type
    MaxWords,        \* bound: how many of them
    MAX_NAME_LENGTH, \* of ip_parser.h, where it is 1024
    ByteRange,       \* how many values a byte has: 256
    UintRange        \* and an unsigned int: 2^32

Byte == 0..ByteRange - 1
Name == Seq(Byte)
Nul == 0
Dot == 46
Program == {"l2p1", "l2p2", "l2p3"}

ASSUME IpToolsAssumption ==
    /\ MAX_NAME_LENGTH \in Nat /\ MAX_NAME_LENGTH > 2 /\ MaxWords \in Nat
    /\ ByteRange \in Dot + 1..256 /\ UintRange \in Nat /\ UintRange >= ByteRange
    /\ Words \subseteq Name
    /\ \A t \in Tables :
          t \in Seq([address : [1..4 -> Byte], names : Seq(Seq(Byte \ {Nul}))])

\* The bytes of a table: what the tools take the file to be. The number of
\* names has its highest byte first.
CountBytes(n) ==
    LET Up(i) == i \div ByteRange
    IN  <<Up(Up(Up(n))) % ByteRange, Up(Up(n)) % ByteRange, Up(n) % ByteRange,
          n % ByteRange>>
NameBytes(m) == [j \in DOMAIN m.names |-> Append(m.names[j], Nul)]
RecordBytes(m) ==
    m.address \o CountBytes(Len(m.names)) \o FlattenSeq(NameBytes(m))
Encode(t) == FlattenSeq([i \in DOMAIN t |-> RecordBytes(t[i])])

VARIABLES
    table,      \* ghost: the table the file was made from
    file,       \* the bytes of the file: those of the table, or the first few
    prog,       \* which of the three programs runs
    pos,        \* how far it has read
    feof,       \* l2p1: a read has met the end of the file
    stage,      \* what main does next
    ip,         \* the record being read
    left,       \* how many of its names are still to be read, or inserted
    ip_list,    \* the records read
    ip_tree,    \* for each name, the records inserted under it, in tree order
    input,      \* the last word typed, in the buffer scanf fills
    typed,      \* ghost: the words typed
    answers,    \* for each search, the word and the records printed
    status      \* run, or how the program ended

reading == <<pos, feof, ip, left>>
vars == <<table, file, prog, reading, stage, ip_list, ip_tree, input, typed,
          answers, status>>

NoIp == [address |-> <<0, 0, 0, 0>>, names |-> <<>>]

Init ==
    /\ table \in Tables
    /\ \E n \in 0..Len(Encode(table)) : file = SubSeq(Encode(table), 1, n)
    /\ prog \in Program
    /\ pos = 0 /\ feof = FALSE
    /\ stage = "loop"
    /\ ip = NoIp /\ left = 0
    /\ ip_list = <<>> /\ ip_tree = <<>>
    /\ input = <<>> /\ typed = <<>> /\ answers = <<>>
    /\ status = "run"

Dies(how) ==
    /\ status' = how
    /\ UNCHANGED <<table, file, prog, reading, stage, ip_list, ip_tree, input,
                   typed, answers>>

(***************************************************************************)
(* Reading: the loop of main, and read_bin_data_fpointer, _sys, _buf.      *)
(***************************************************************************)

\* How each program knows that it has read the file.
AtEnd == IF prog = "l2p1" THEN feof ELSE pos = Len(file)

\* The buffer of l2p3 has no end: what follows it is read as well.
Past(n) == prog = "l2p3" /\ n > Len(file)

EndReading ==
    /\ status = "run" /\ stage = "loop" /\ AtEnd
    /\ stage' = "search"
    /\ UNCHANGED <<table, file, prog, reading, ip_list, ip_tree, input, typed,
                   answers, status>>

\* A byte of the file; where there is none a read leaves what was there before.
ByteOr(i, before) == IF i <= Len(file) THEN file[i] ELSE before

\* Where a read of the bytes up to n leaves off.
UptoAsked(n) == n  \* variant: as if there were always as many bytes as asked
Upto(n) == IF n <= Len(file) THEN n ELSE Len(file)

\* intcat puts the decimal digits of b behind those of a; the result wraps.
intcat(a, b) ==
    (a * (IF b < 10 THEN 10 ELSE IF b < 100 THEN 100 ELSE 1000) + b) % UintRange

\* The variable ch keeps its value where the file has ended.
CountByte(i) ==
    ByteOr(pos + 4 + i, IF pos + 4 < Len(file) THEN Last(file) ELSE 0)
NumNames ==
    intcat(intcat(intcat(intcat(0, CountByte(1)), CountByte(2)), CountByte(3)),
           CountByte(4))

ReadHeader ==
    /\ status = "run" /\ stage = "loop" /\ ~AtEnd
    /\ ~Past(pos + 8)
    /\ ip' = [address |-> [i \in 1..4 |-> ByteOr(pos + i, 0)], names |-> <<>>]
    /\ left' = NumNames
    /\ pos' = Upto(pos + 8)
    /\ feof' = (pos + 8 > Len(file))
    /\ stage' = "names"
    /\ UNCHANGED <<table, file, prog, ip_list, ip_tree, input, typed, answers,
                   status>>

\* The place of the byte that ends the name at pos, if the file has it; and the
\* longest name that is read.
Terminator ==
    LET nuls == {i \in pos + 1..Len(file) : file[i] = Nul}
    IN  IF nuls = {} THEN Len(file) + 1
        ELSE CHOOSE i \in nuls : \A j \in nuls : i <= j
Room == MAX_NAME_LENGTH - 2

\* A name that ends in time, one that is too long, of which the rest is read as
\* the next name, and one that the file breaks off.
InTime == Terminator <= Len(file) /\ Terminator - pos <= Room
TooLong == Terminator - pos > Room
BrokenOff == ~InTime /\ ~TooLong

NameRead ==
    IF InTime THEN SubSeq(file, pos + 1, Terminator - 1)
    ELSE IF TooLong THEN SubSeq(file, pos + 1, pos + Room)
    ELSE IF pos = Len(file) THEN <<>>
    ELSE [i \in 1..Room |-> ByteOr(pos + i, Last(file))]

NameEndBefore ==  \* variant: the terminator is left for the next name
    IF InTime THEN Terminator - 1 ELSE Upto(pos + Room)
NameEnd == IF InTime THEN Terminator ELSE Upto(pos + Room)

\* A name with a dot is absolute; what precedes its first dot is a name too.
Locals(name) ==
    {SubSeq(name, 1, i - 1) :
        i \in {i \in DOMAIN name : name[i] = Dot
                 /\ \A j \in 1..i - 1 : name[j] # Dot}}

ReadName ==
    /\ status = "run" /\ stage = "names" /\ left > 0
    /\ BrokenOff => prog = "l2p2"
    /\ ip' = [ip EXCEPT !.names = @ \o <<NameRead>> \o SetToSeq(Locals(NameRead))]
    /\ pos' = NameEnd
    /\ left' = left - 1
    /\ UNCHANGED <<table, file, prog, feof, stage, ip_list, ip_tree, input,
                   typed, answers, status>>

\* l2p1 notices the stream's end inside a name. read(2) says 0 at the end, which
\* l2p2 does not take for it.
StreamEnds ==
    /\ status = "run" /\ prog = "l2p1"
    /\ stage = "names" /\ left > 0 /\ BrokenOff
    /\ Dies("exit")

\* l2p3 goes on behind its buffer, and whatever it finds there it never meets
\* read_idx = size again; the model does not follow it.
BufferEnds ==
    /\ status = "run" /\ prog = "l2p3"
    /\ \/ stage = "names" /\ left > 0 /\ BrokenOff
       \/ stage = "loop" /\ ~AtEnd /\ Past(pos + 8)
    /\ Dies("overrun")

\* The record is complete, but the empty name comes first among its names.
EmptyName ==
    /\ status = "run" /\ stage = "names" /\ left = 0
    /\ \E i \in DOMAIN ip.names : ip.names[i] = <<>>
    /\ Dies("exit")

EndRecord ==
    /\ status = "run" /\ stage = "names" /\ left = 0
    /\ \A i \in DOMAIN ip.names : ip.names[i] # <<>>
    /\ ip_list' = Append(ip_list, ip)
    /\ left' = Len(ip.names)
    /\ stage' = "insert"
    /\ UNCHANGED <<table, file, prog, pos, feof, ip, ip_tree, input, typed,
                   answers, status>>

Under(name) == IF name \in DOMAIN ip_tree THEN ip_tree[name] ELSE <<>>

\* jrb_insert_str puts a node before the one that a search for its key finds,
\* which is any of those with that key.
InsertName ==
    /\ status = "run" /\ stage = "insert" /\ left > 0
    /\ LET name == ip.names[left] IN
       \E i \in 1..IF Under(name) = <<>> THEN 1 ELSE Len(Under(name)) :
          ip_tree' = [n \in DOMAIN ip_tree \cup {name} |->
                        IF n = name THEN InsertAt(Under(name), i, Len(ip_list))
                        ELSE ip_tree[n]]
    /\ left' = left - 1
    /\ UNCHANGED <<table, file, prog, pos, feof, stage, ip, ip_list, input,
                   typed, answers, status>>

EndInsert ==
    /\ status = "run" /\ stage = "insert" /\ left = 0
    /\ stage' = "loop"
    /\ UNCHANGED <<table, file, prog, reading, ip_list, ip_tree, input, typed,
                   answers, status>>

(***************************************************************************)
(* Searching.                                                              *)
(***************************************************************************)

\* From the node that jrb_find_str finds, backward to the first with that key.
FoundBefore(name, i) == SubSeq(Under(name), 1, i - 1)  \* variant
Found(name, i) == SubSeq(Under(name), 1, i)

Answer(word, more) ==
    /\ \E i \in 0..Len(Under(word)) :
          /\ i = 0 <=> Under(word) = <<>>
          /\ answers' = Append(answers, [word |-> word, ips |-> Found(word, i)])
    /\ input' = word
    /\ stage' = IF more THEN "search" ELSE "end"
    /\ UNCHANGED <<table, file, prog, reading, ip_list, ip_tree, status>>

\* The words that input has room for.
RoomFor(word) == Len(word) < MAX_NAME_LENGTH
Fits == \A i \in DOMAIN typed : RoomFor(typed[i])

\* scanf reads a word; feof(stdin) is true afterwards when nothing, not even
\* a newline, follows it.
Search ==
    /\ status = "run" /\ stage = "search" /\ Len(typed) < MaxWords
    /\ \E word \in Words, more \in BOOLEAN :
          /\ RoomFor(word)
          /\ typed' = Append(typed, word)
          /\ Answer(word, more)

\* scanf does not know how large input is: a word with no room is written past
\* its end, and the model does not follow it.
InputOverrun ==
    /\ status = "run" /\ stage = "search" /\ Len(typed) < MaxWords
    /\ \E word \in Words : ~RoomFor(word) /\ typed' = Append(typed, word)
    /\ status' = "overrun"
    /\ UNCHANGED <<table, file, prog, reading, stage, ip_list, ip_tree, input, answers>>

\* At the end of the input scanf leaves the buffer as it is, and the last word
\* is looked up again.
SearchStale ==
    /\ status = "run" /\ stage = "search"
    /\ Answer(input, FALSE)
    /\ UNCHANGED typed

Next ==
    \/ ReadHeader \/ ReadName \/ StreamEnds \/ BufferEnds \/ EmptyName
    \/ EndRecord \/ InsertName \/ EndInsert \/ EndReading
    \/ Search \/ InputOverrun \/ SearchStale

Spec == Init /\ [][Next]_vars

(***************************************************************************)
(* Properties.                                                             *)
(***************************************************************************)

\* Every variable has its type; a record is counted as read once, and what the
\* tree and the answers hold are records read.
TypeOK ==
    /\ table \in Tables /\ prog \in Program
    /\ file \in Seq(Byte) /\ pos \in 0..Len(file) /\ feof \in BOOLEAN
    /\ stage \in {"loop", "names", "insert", "search", "end"}
    /\ left \in Nat
    /\ ip \in [address : Seq(Byte), names : Seq(Name)]
    /\ ip_list \in Seq([address : Seq(Byte), names : Seq(Name)])
    /\ \A n \in DOMAIN ip_tree :
          n \in Name /\ ip_tree[n] \in Seq(DOMAIN ip_list) /\ ip_tree[n] # <<>>
    /\ input \in Name /\ typed \in Seq(Words) /\ Len(typed) <= MaxWords
    /\ answers \in Seq([word : Name, ips : Seq(DOMAIN ip_list)])
    /\ status \in {"run", "exit", "overrun"}

\* The file is all of a table of proper names, and no machine has so many that
\* their number takes two bytes: intcat would read 256, which is 0, 0, 1, 0, as 10.
Whole == file = Encode(table)
Proper(name) == Len(name) \in 1..Room - 1 /\ name[1] # Dot
Plain == \A i \in DOMAIN table :
            /\ Len(table[i].names) \in Byte
            /\ \A j \in DOMAIN table[i].names : Proper(table[i].names[j])

\* A machine's record in memory: its names, and the local part of each.
WithLocals(m) ==
    [j \in DOMAIN m.names |-> <<m.names[j]>> \o SetToSeq(Locals(m.names[j]))]
RecordOf(m) == [address |-> m.address, names |-> FlattenSeq(WithLocals(m))]
Records == [i \in DOMAIN table |-> RecordOf(table[i])]

\* All three programs read a whole file to the end and have its machines, but
\* for the nameless one that l2p1's test for the end adds. Only a word typed that
\* the buffer has no room for takes them down.
ReadsAll ==
    Plain /\ Whole =>
        /\ status = "run" \/ (stage = "search" /\ ~Fits)
        /\ stage \in {"search", "end"} =>
              ip_list = IF prog = "l2p1" THEN Append(Records, NoIp) ELSE Records

\* From a file that breaks off, l2p1 and l2p3 take no record but those of the
\* table, and perhaps a last one without names.
NothingInvented ==
    Plain /\ prog # "l2p2" =>
        \A i \in DOMAIN ip_list :
            \/ i <= Len(table) /\ ip_list[i] = Records[i]
            \/ i = Len(ip_list) /\ ip_list[i].names = <<>>

\* What the three ways of reading promise together (ip_parser.h: "Creates an IP
\* struct using data read from" the file).
ReadsWhatIsThere == ReadsAll /\ NothingInvented

\* How often a word is among a machine's names.
Times(word, r) ==
    Cardinality({j \in DOMAIN Records[r].names : Records[r].names[j] = word})
Printed(a, r) == Cardinality({j \in DOMAIN a.ips : a.ips[j] = r})

\* In a whole table of proper names, and until a word typed overruns the buffer,
\* each word typed is answered once and in order, except that the last may be
\* answered twice; an answer has only machines of that name, none more often
\* than it has the name, and has one if there is one (main, the search).
AnswersRight ==
    Plain /\ Whole =>
        /\ \/ status # "run"
           \/ [i \in DOMAIN answers |-> answers[i].word] = typed
           \/ [i \in DOMAIN answers |-> answers[i].word] = Append(typed, input)
        /\ \A i \in DOMAIN answers : LET a == answers[i] IN
              /\ \A r \in DOMAIN table : Printed(a, r) <= Times(a.word, r)
              /\ a.ips = <<>> => \A r \in DOMAIN table : Times(a.word, r) = 0
=============================================================================
