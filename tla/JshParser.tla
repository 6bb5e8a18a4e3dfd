----------------------------- MODULE JshParser -----------------------------
(***************************************************************************)
(* How jsh (lab6) takes a command line apart: create_piper and the search  *)
(* for redirections.  A line is the sequence of words split_command makes; *)
(* an array of n words and a final NULL is a sequence of length n.         *)
(***************************************************************************)
EXTENDS Naturals, Sequences, SequencesExt, FiniteSetsExt

NoFile == ""

\* A trailing & makes the line asynchronous and is taken off.
Async(words) == words # <<>> /\ Last(words) = "&"
remove_ampercand(words) == IF Async(words) THEN Front(words) ELSE words

\* Where the stages end: at every | in turn, and at the end of the line.
Bars(words) ==
    LET bars == {j \in DOMAIN words : words[j] = "|"}
    IN  [k \in 1..Cardinality(bars) |->
            CHOOSE j \in bars : Cardinality({b \in bars : b <= j}) = k]
CutsShort(words) == <<0>> \o Bars(words) \o <<Len(words)>>  \* variant: a word less
Cuts(words) == <<0>> \o Bars(words) \o <<Len(words) + 1>>

\* The stages of a line, one more than it has | signs; some may be empty.
Stages(words) ==
    LET cuts == Cuts(words)
    IN  [k \in 1..Len(cuts)-1 |-> SubSeq(words, cuts[k] + 1, cuts[k+1] - 1)]

create_piper(words) ==
    [async |-> Async(words), command_list |-> Stages(remove_ampercand(words))]

\* A stage while its redirections are being taken out.
Bare(words) == [argv |-> words, inpipe |-> NoFile, outpipe |-> NoFile,
                  appipe |-> NoFile, ended |-> TRUE]

\* remove_single_pipe takes out the first sign of its kind and the word behind
\* it. A sign with nothing behind it takes the final NULL out instead, and the
\* array is no longer ended.
Redirected(com, sign, field) ==
    LET signs == {i \in DOMAIN com.argv : com.argv[i] = sign}
        at == Min(signs)
        more == at < Len(com.argv)
    IN  IF signs = {}
        THEN com
        ELSE [com EXCEPT !.argv = SubSeq(@, 1, at - 1) \o SubSeq(@, at + 2, Len(@)),
                         ![field] = IF more THEN com.argv[at + 1] ELSE NoFile,
                         !.ended = @ /\ more]

\* < is looked for in the first stage only, > and >> in the last.
Command(p, i) ==
    LET read == IF i = 1
                THEN Redirected(Bare(p.command_list[i]), "<", "inpipe")
                ELSE Bare(p.command_list[i])
    IN  IF i = Len(p.command_list)
        THEN Redirected(Redirected(read, ">", "outpipe"), ">>", "appipe")
        ELSE read

\* Variant: the word before the last is compared with &; a lone word has none.
VerdictTooFar(p, i) ==
    IF Len(Command(p, i).argv) = 1 THEN {"segv"} ELSE {"run"}

\* What _run_sync_commands does with stage i. An array that is not ended is read
\* past its last word, which may or may not be noticed.
Verdict(p, i) ==
    LET words == p.command_list[i]
        com == Command(p, i)
    IN  IF words = <<>> THEN {"segv"}
        ELSE IF words[1] = "cd" THEN {"cd"}
        ELSE IF com.argv # <<>> /\ com.argv[1] = "exit" THEN {"exit"}
        ELSE IF ~com.ended THEN {"segv", "run", "syntax"}
        ELSE IF com.argv = <<>> THEN {"segv"}
        ELSE IF Last(com.argv) = "&" THEN {"syntax"}
        ELSE {"run"}

\* A line every stage of which has a program and every redirection a file.
WellFormed(p) ==
    \A i \in DOMAIN p.command_list :
        Command(p, i).argv # <<>> /\ Command(p, i).ended

\* The stages with | between them.
Rejoined(stages) ==
    LET upto[k \in DOMAIN stages] ==
            IF k = 1 THEN stages[1] ELSE upto[k - 1] \o <<"|">> \o stages[k]
    IN  upto[Len(stages)]

\* The line a piper was made of.
LineOf(p) == Rejoined(p.command_list) \o (IF p.async THEN <<"&">> ELSE <<>>)

=============================================================================
