----------------------------- MODULE MCFakemake -----------------------------
(* A small instance of Fakemake for TLC: a program of two sources and a      *)
(* header, and descriptions that reach every branch of the reading.          *)
EXTENDS Fakemake

W(stem, ext) == [dash |-> "", stem |-> stem, ext |-> ext]
L(kind, words) == [kind |-> kind, words |-> words, left |-> <<>>]

AFile == W("a", <<".", "c">>)
BFile == W("b", <<".", "c">>)
HFile == W("h", <<".", "h">>)
Text == W("notes", <<"t", "x", "t">>)
Script == W("make", <<".", "s", "h">>)
Prog == W("prog", <<>>)
Math == [dash |-> "-l", stem |-> "l", ext |-> <<"m">>]
Debug == [dash |-> "-", stem |-> "", ext |-> <<"g">>]
Archive == W("x", <<".", "a">>)
Gone == W("y", <<".", "s", "o">>)

UserFiles == {AFile, BFile, HFile}
UserLibs == {Archive, Text, Script}
Compilable == {<<".", "c">>, <<".", "c", "c">>}

E == L("E", <<Prog>>)
C == L("C", <<AFile, BFile>>)
H == L("H", <<HFile>>)
\* An E line without a name, where the lines before left nothing, or a word.
Nameless == L("E", <<>>)
Naming(w) == [Nameless EXCEPT !.left = <<w>>]

\* Two lines that just fill a list.
Program == <<E, L("C", <<AFile>>), H, L("C", <<BFile>>)>>
Unreadable == {
    <<E, L("C", <<AFile, Text, BFile, AFile>>), L("H", <<Text, HFile>>), L("C", <<AFile>>)>>,
    <<E, C, L("E", <<W("other", <<>>)>>)>>,
    <<L("empty", <<>>), C>>,
    <<E, L("X", <<>>)>>,
    <<Nameless>>, <<C, Nameless>>,
    <<E, L("L", <<Math, Gone>>)>>}
\* One list is full before the missing library; the E line without a name finds
\* nothing, and the next is the first.
OneSource ==
    <<L("F", <<Text, Debug>>), L("L", <<Text, Math, Archive, Gone>>), L("C", <<Text, AFile>>),
      Nameless, E>>

\* A source listed twice, a header among the sources and a source among the
\* headers, and an executable that is called like the source.
Odd == {
    <<E, L("C", <<AFile, AFile>>)>>,
    <<E, L("C", <<AFile, HFile>>), L("L", <<Script>>), L("H", <<AFile>>)>>,
    <<L("C", <<AFile>>), Naming(AFile)>>}

\* Behaviours are followed up to the first change that times cannot tell: the
\* properties promise nothing after it.
Telling == ~hasty

Projects == Unreadable \cup Odd \cup {Program, OneSource}

\* What the theorems about the products suppose holds here.
ASSUME OneObjectHere == OneObjectEach
=============================================================================
