------------------------------ MODULE Fakemake ------------------------------
(***************************************************************************)
(* fakemake of lab3: it reads a description (fakemake.c, add_* in          *)
(* compile.c), decides from modification times which objects are out of    *)
(* date (get_commands) and runs gcc, while a user saves, removes and runs  *)
(* again.                                                                  *)
(*                                                                         *)
(* A file's contents is its version. A product remembers what gcc read: an *)
(* object the versions of its source and of the headers, the executable    *)
(* its objects. Times are whole seconds; 0 is a file that does not exist.  *)
(* The user acts between any two system calls.                             *)
(***************************************************************************)
EXTENDS Naturals, Sequences, FiniteSets, Functions

CONSTANTS
    Descriptions,    \* what fmakefile may contain: sequences of lines
    Files,           \* sources and headers
    Libs,            \* library files that exist
    Languages,       \* the endings of what gcc -c makes an object of
    MAX_ARGS,        \* words that a list of the compilation has room for
    MaxTime,         \* bound: seconds
    MaxVersion       \* bound: versions of a file

\* A word: whether it begins with - or with -l (-L), and its last characters, from
\* the last dot on if it is one of the last three.
Word == [dash : {"", "-", "-l"}, stem : STRING, ext : Seq(STRING)]

\* Its k-th character from the end, as far as it matters.
Char(w, k) == IF k <= Len(w.ext) THEN w.ext[Len(w.ext) + 1 - k] ELSE ""

\* A line: its letter, its other words, and for an E line without a name what
\* the earlier lines left where its name would be: a word or nothing.
Line == [kind : STRING, words : Seq(Word), left : Seq(Word)]

\* obj_name: the last character becomes o. gcc replaces all of the ending.
Object(w) == [w EXCEPT !.ext[Len(w.ext)] = "o"]
Objects == {Object(w) : w \in Files}
Makes(w) == [w EXCEPT !.ext = <<".", "o">>]

VARIABLES
    now,             \* the clock
    file,            \* the user's files: time and version
    obj, exec,       \* the products: time and what they are made of
    desc,            \* the description
    compilation,     \* exec_name (a word or none), srcs, headers, flag_list, libraries
    pc,              \* what fakemake does next, or how it ended
    i,               \* the loop's index: a line, a header, a source, a command
    times,           \* header_times, src_time and obj_times
    recompile,       \* the sources to be compiled
    input,           \* what the running gcc has read
    hasty            \* history: a file changed where times cannot tell

run == <<desc, compilation, pc, i, times, recompile, input>>
vars == <<now, file, obj, exec, hasty, run>>

Absent == [time |-> 0, of |-> <<>>]
Existing(x) == x.time # 0

new_compilation ==
    [exec_name |-> <<>>, srcs |-> <<>>, headers |-> <<>>, flag_list |-> <<>>,
     libraries |-> <<>>]
NoTimes == [headers |-> <<>>, src |-> 0, objs |-> <<>>]

Resting == {"idle", "uptodate", "done", "failed", "killed", "segv", "overrun"}
Reading == {"read"}
Deciding == {"headers", "access", "statsrc", "statobj", "decide"}
Running == {"command", "gcc", "ld"}

-----------------------------------------------------------------------------
(* The lines of the description.                                           *)

IsFlag(w) == w.dash # ""
IsLink(w) == w.dash = "-l"

\* The tests of a suffix reject what fails in every character: one that is
\* right is enough.
IsLibrary(w) == \/ Char(w, 2) = "." \/ Char(w, 1) = "a"
                \/ Char(w, 3) = "." \/ Char(w, 2) = "s" \/ Char(w, 1) = "o"

Accepts(list, w) ==
    CASE list = "srcs" -> Char(w, 2) = "." \/ Char(w, 1) = "c"
      [] list = "headers" -> Char(w, 2) = "." \/ Char(w, 1) = "h"
      [] list = "flag_list" -> IsFlag(w)
      [] list = "libraries" -> IsLink(w) \/ IsLibrary(w)

\* What a description may list is among the files, whether or not it exists, and
\* nothing of the user's has the name of an object.
ASSUME FakemakeAssumption ==
    /\ MAX_ARGS \in Nat \ {0} /\ MaxTime \in Nat \ {0} /\ MaxVersion \in Nat
    /\ Files \subseteq Word /\ Libs \subseteq Word
    /\ Descriptions \subseteq Seq(Line)
    /\ \A d \in Descriptions : \A k \in DOMAIN d : \A j \in DOMAIN d[k].words :
          /\ d[k].kind = "C" /\ Accepts("srcs", d[k].words[j]) => d[k].words[j] \in Files
          /\ d[k].kind = "H" /\ Accepts("headers", d[k].words[j]) => d[k].words[j] \in Files
    /\ Objects \cap Files = {}
    /\ \A d \in Descriptions : \A k \in DOMAIN d : d[k].kind = "E" =>
          (Range(d[k].words) \cup Range(d[k].left)) \cap Objects = {}

\* Variant: the loop looks for a full list one word late.
FillingLate(list, words) ==
    LET after[j \in 0..Len(words)] ==
            IF j = 0 THEN compilation[list]
            ELSE IF Accepts(list, words[j]) /\ Len(after[j - 1]) <= MAX_ARGS
                 THEN Append(after[j - 1], words[j]) ELSE after[j - 1]
    IN  after
\* A list after each of a line's words, up to the one that fills it.
Filling(list, words) ==
    LET after[j \in 0..Len(words)] ==
            IF j = 0 THEN compilation[list]
            ELSE IF Accepts(list, words[j]) /\ Len(after[j - 1]) < MAX_ARGS
                 THEN Append(after[j - 1], words[j]) ELSE after[j - 1]
    IN  after

\* Variant: a list counts as full that has room for one more.
FullEarly(list) == Len(compilation[list]) + 1 = MAX_ARGS
\* A list that an earlier line filled is written past its end.
Full(list) == Len(compilation[list]) = MAX_ARGS
Overflows(list, words) == Full(list) /\ \E j \in DOMAIN words : Accepts(list, words[j])

\* The loop comes to the word j: it has not stopped at a list just filled, nor
\* written past the end.
ComesTo(list, words, j) ==
    IF Full(list) THEN \A k \in 1..j - 1 : ~Accepts(list, words[k])
    ELSE Len(Filling(list, words)[j - 1]) < MAX_ARGS

\* Variant: a word that is not accepted loses the whole line.
ExtendedIfAll(list, words) ==
    IF \A j \in DOMAIN words : Accepts(list, words[j])
    THEN compilation[list] \o words ELSE compilation[list]
Extended(list, words) == Filling(list, words)[Len(words)]

NextLine == i' = i + 1 /\ UNCHANGED <<desc, times, recompile, input, pc>>
Stop(how) == pc' = how /\ UNCHANGED <<desc, compilation, i, times, recompile, input>>

add(list, words) ==
    IF Overflows(list, words) THEN Stop("overrun")
    ELSE compilation' = [compilation EXCEPT ![list] = Extended(list, words)] /\ NextLine

add_srcs(words) == add("srcs", words)
add_headers(words) == add("headers", words)
add_flags(words) == add("flag_list", words)

\* A library that is not there ends the program.
add_libraries(words) ==
    IF \E j \in DOMAIN words : /\ ComesTo("libraries", words, j)
                             /\ ~IsLink(words[j]) /\ words[j] \notin Libs
    THEN Stop("failed")
    ELSE add("libraries", words)

\* A second E line is an error. An E line without a name copies what earlier
\* lines left in fields[1], which may be nothing; no line before set it: a crash.
NameIn(line) == IF line.words = <<>> THEN line.left ELSE <<line.words[1]>>
FieldSet == \E k \in 1..i : desc[k].words # <<>>

add_exec(line) ==
    \/ compilation.exec_name # <<>> /\ Stop("failed")
    \/ compilation.exec_name = <<>> /\ ~FieldSet /\ Stop("segv")
    \/ /\ compilation.exec_name = <<>> /\ FieldSet
       /\ compilation' = [compilation EXCEPT !.exec_name = NameIn(line)]
       /\ NextLine

ReadLine ==
    /\ pc = "read" /\ i <= Len(desc)
    /\ LET words == desc[i].words IN
       CASE desc[i].kind = "C" -> add_srcs(words)
         [] desc[i].kind = "H" -> add_headers(words)
         [] desc[i].kind = "F" -> add_flags(words)
         [] desc[i].kind = "L" -> add_libraries(words)
         [] desc[i].kind = "E" -> add_exec(desc[i])
         [] desc[i].kind = "empty" -> NextLine /\ UNCHANGED compilation
         [] OTHER -> Stop("failed")
    /\ UNCHANGED <<now, file, obj, exec, hasty>>

EndOfDescription ==
    /\ pc = "read" /\ i > Len(desc)
    /\ pc' = IF compilation.exec_name # <<>> THEN "headers" ELSE "failed"
    /\ i' = 1
    /\ UNCHANGED <<now, file, obj, exec, hasty, desc, compilation, times, recompile, input>>

-----------------------------------------------------------------------------
(* get_commands.                                                           *)

srcs == compilation.srcs
headers == compilation.headers
ObjectOf(k) == obj[Object(srcs[k])]

world == <<now, file, obj, exec, hasty, desc, compilation, input>>

StatHeader ==
    /\ pc = "headers" /\ i <= Len(headers)
    /\ IF Existing(file[headers[i]])
       THEN /\ times' = [times EXCEPT !.headers = Append(@, file[headers[i]].time)]
            /\ i' = i + 1 /\ pc' = pc
       ELSE pc' = "failed" /\ UNCHANGED <<i, times>>
    /\ UNCHANGED <<world, recompile>>

HeadersRead ==
    /\ pc = "headers" /\ i > Len(headers)
    /\ pc' = "access" /\ i' = 1
    /\ UNCHANGED <<world, times, recompile>>

\* The next source; obj_times is left unset for an object that is not there.
Judge(stale, time) ==
    /\ recompile' = IF stale THEN recompile \cup {i} ELSE recompile
    /\ times' = [times EXCEPT !.objs = Append(@, time)]
    /\ i' = i + 1 /\ pc' = "access"

AccessObject ==
    /\ pc = "access" /\ i <= Len(srcs)
    /\ IF Existing(ObjectOf(i))
       THEN pc' = "statsrc" /\ UNCHANGED <<i, times, recompile>>
       ELSE Judge(TRUE, 0)
    /\ UNCHANGED world

StatSource ==
    /\ pc = "statsrc"
    /\ IF Existing(file[srcs[i]])
       THEN pc' = "statobj" /\ times' = [times EXCEPT !.src = file[srcs[i]].time]
       ELSE pc' = "failed" /\ UNCHANGED times
    /\ UNCHANGED <<world, i, recompile>>

\* Variants: the headers are forgotten; or a time that is equal counts as newer.
OutOfDateSrc(time) == times.src > time
OutOfDateEq(time) == times.src >= time \/ \E h \in DOMAIN times.headers : times.headers[h] >= time
\* The source, or any of the headers, is newer than the object.
OutOfDate(time) == times.src > time \/ \E h \in DOMAIN times.headers : times.headers[h] > time

StatObject ==
    /\ pc = "statobj"
    /\ IF Existing(ObjectOf(i))
       THEN Judge(OutOfDate(ObjectOf(i).time), ObjectOf(i).time)
       ELSE pc' = "failed" /\ UNCHANGED <<i, times, recompile>>
    /\ UNCHANGED world

ObjectsRead ==
    /\ pc = "access" /\ i > Len(srcs)
    /\ pc' = "decide" /\ i' = 1
    /\ UNCHANGED <<world, times, recompile>>

\* The executable has the name of a file of the user's.
Aliased == compilation.exec_name # <<>> /\ compilation.exec_name[1] \in Files
Executable == IF Aliased THEN file[compilation.exec_name[1]] ELSE exec

\* Nothing to compile, the executable is there and no object is newer.
UpToDate ==
    /\ recompile = {} /\ Existing(Executable)
    /\ \A k \in DOMAIN times.objs : times.objs[k] <= Executable.time

Decide ==
    /\ pc = "decide"
    /\ pc' = IF UpToDate THEN "uptodate" ELSE "command"
    /\ UNCHANGED <<world, i, times, recompile>>

-----------------------------------------------------------------------------
(* main's commands: i is the source of the next one, past the last the link. *)

\* The words of a command that differ from one to the next; the source is the
\* last, where recover_fname_from_command finds it again.
CompileCommand(k) == Append(compilation.flag_list, srcs[k])
recover_fname_from_command(command) == command[Len(command)]

\* The objects named by the last command.
LinkCommand == {Object(srcs[k]) : k \in DOMAIN srcs}

\* What gcc -c finds when it reads its input: what is in no language of its it
\* leaves to the linker.
Contents(w) == [f \in {w} \cup Range(headers) |-> file[f].version]

StartCompile ==
    /\ pc = "command" /\ i \in recompile
    /\ LET fname == recover_fname_from_command(CompileCommand(i)) IN
       IF /\ Existing(file[fname])
          /\ fname.ext \in Languages => \A f \in Range(headers) : Existing(file[f])
       THEN pc' = "gcc" /\ input' = Contents(fname)
       ELSE pc' = "failed" /\ UNCHANGED input
    /\ UNCHANGED <<now, file, obj, exec, hasty, desc, compilation, i, times, recompile>>

\* Only the sources in recompile have a command.
SkipSource ==
    /\ pc = "command" /\ i \in DOMAIN srcs \ recompile
    /\ i' = i + 1
    /\ UNCHANGED <<world, pc, times, recompile>>

Compiled ==
    /\ pc = "gcc"
    /\ obj' = IF srcs[i].ext \in Languages /\ Makes(srcs[i]) \in Objects
              THEN [obj EXCEPT ![Makes(srcs[i])] = [time |-> now, of |-> input]]
              ELSE obj
    /\ pc' = "command" /\ i' = i + 1
    /\ UNCHANGED <<now, file, exec, hasty, desc, compilation, times, recompile, input>>

StartLink ==
    /\ pc = "command" /\ i > Len(srcs)
    /\ IF LinkCommand # {} /\ \A o \in LinkCommand : Existing(obj[o])
       THEN pc' = "ld" /\ input' = [o \in LinkCommand |-> obj[o].of]
       ELSE pc' = "failed" /\ UNCHANGED input
    /\ UNCHANGED <<now, file, obj, exec, hasty, desc, compilation, i, times, recompile>>

\* A file of the user's with the name of the executable is lost, at the time t.
Overwrite(t) ==
    /\ file' = [file EXCEPT ![compilation.exec_name[1]] =
            [time |-> t, version |-> IF @.version < MaxVersion THEN @.version + 1 ELSE @.version]]
    /\ hasty' = TRUE /\ UNCHANGED exec

Linked ==
    /\ pc = "ld"
    /\ IF Aliased THEN Overwrite(now)
       ELSE exec' = [time |-> now, of |-> input] /\ UNCHANGED <<file, hasty>>
    /\ pc' = "done"
    /\ UNCHANGED <<now, obj, desc, compilation, i, times, recompile, input>>

\* An error in the source; a failed link leaves the old executable or none.
CommandFails ==
    /\ pc \in {"gcc", "ld"}
    /\ pc' = "failed"
    /\ \/ UNCHANGED <<file, exec, hasty>>
       \/ pc = "ld" /\ ~Aliased /\ exec' = Absent /\ UNCHANGED <<file, hasty>>
       \/ pc = "ld" /\ Aliased /\ Overwrite(0)
    /\ UNCHANGED <<now, obj, desc, compilation, i, times, recompile, input>>

Killed ==
    /\ pc \notin Resting
    /\ Stop("killed")
    /\ UNCHANGED <<now, file, obj, exec, hasty>>

-----------------------------------------------------------------------------
(* The user.                                                               *)

Start ==
    /\ pc \in Resting
    /\ pc' = "read" /\ i' = 1 /\ compilation' = new_compilation
    /\ times' = NoTimes /\ recompile' = {} /\ input' = <<>>
    /\ UNCHANGED <<now, file, obj, exec, hasty, desc>>

Tick ==
    /\ now < MaxTime
    /\ now' = now + 1
    /\ UNCHANGED <<file, obj, exec, hasty, run>>

\* A change that a comparison of times misses: after fakemake began to look, or
\* in the second of a product made from the version before.
Unseen ==
    \/ pc \in Deciding \cup Running
    \/ now \in {obj[o].time : o \in Objects} \cup {exec.time}

Save(f) ==
    /\ file[f].version < MaxVersion
    /\ file' = [file EXCEPT ![f] = [time |-> now, version |-> @.version + 1]]
    /\ hasty' = (hasty \/ Unseen)
    /\ UNCHANGED <<now, obj, exec, run>>

Remove(f) ==
    /\ Existing(file[f])
    /\ file' = [file EXCEPT ![f].time = 0]
    /\ hasty' = (hasty \/ pc \in Deciding \cup Running)
    /\ UNCHANGED <<now, obj, exec, run>>

Clean ==
    /\ \/ \E o \in Objects : Existing(obj[o]) /\ obj' = [obj EXCEPT ![o] = Absent] /\ exec' = exec
       \/ Existing(exec) /\ exec' = Absent /\ obj' = obj
    /\ UNCHANGED <<now, file, hasty, run>>

-----------------------------------------------------------------------------

Init ==
    /\ now = 1
    /\ file = [f \in Files |-> [time |-> 1, version |-> 0]]
    /\ obj = [o \in Objects |-> Absent] /\ exec = Absent
    /\ desc \in Descriptions
    /\ compilation = new_compilation /\ pc = "idle" /\ i = 1
    /\ times = NoTimes /\ recompile = {} /\ input = <<>>
    /\ hasty = FALSE

Step ==
    \/ ReadLine \/ EndOfDescription
    \/ StatHeader \/ HeadersRead \/ AccessObject \/ StatSource \/ StatObject
    \/ ObjectsRead \/ Decide
    \/ StartCompile \/ SkipSource \/ Compiled \/ StartLink \/ Linked \/ CommandFails

User == Start \/ Tick \/ Clean \/ Killed \/ \E f \in Files : Save(f) \/ Remove(f)

Next == Step \/ User

Spec == Init /\ [][Next]_vars

-----------------------------------------------------------------------------
(* Properties.                                                             *)

\* Types: the lists of a run that has not written past their arrays, times that
\* are not ahead of the clock, and verdicts on the sources looked at in order.
TypeOK ==
    /\ now \in 1..MaxTime /\ i \in Nat \ {0} /\ hasty \in BOOLEAN
    /\ \A f \in Files : file[f].time \in 0..now /\ file[f].version \in 0..MaxVersion
    /\ \A o \in Objects : obj[o].time \in 0..now
    /\ exec.time \in 0..now
    /\ desc \in Descriptions
    /\ \A field \in {"srcs", "headers", "flag_list", "libraries"} :
          Len(compilation[field]) <= MAX_ARGS
    /\ pc \in Resting \cup Reading \cup Deciding \cup Running
    /\ recompile \subseteq DOMAIN times.objs /\ Len(times.objs) <= Len(srcs)

\* The words of a line that are in S.
Among(words, S) ==
    LET upTo[j \in 0..Len(words)] ==
            IF j = 0 THEN <<>>
            ELSE IF words[j] \in S THEN Append(upTo[j - 1], words[j])
                 ELSE upTo[j - 1]
    IN  upTo[Len(words)]

\* Those of every line of a kind in d, up to each line.
WordsUpTo(d, kind, S) ==
    LET upTo[k \in 0..Len(d)] ==
            IF k = 0 THEN <<>>
            ELSE IF d[k].kind = kind THEN upTo[k - 1] \o Among(d[k].words, S)
                 ELSE upTo[k - 1]
    IN  upTo
AllWords(d, kind, S) == WordsUpTo(d, kind, S)[Len(d)]

ListNames == {"srcs", "headers", "flag_list", "libraries"}

\* The lines that a list is read from.
KindOf(list) ==
    CASE list = "srcs" -> "C" [] list = "headers" -> "H"
      [] list = "flag_list" -> "F" [] list = "libraries" -> "L"

\* What a list has room for.
Fitting(words) == IF Len(words) <= MAX_ARGS THEN words ELSE SubSeq(words, 1, MAX_ARGS)

\* What the comments say belongs in a list, and what the tests let in.
Belongs(list, w) ==
    CASE list = "srcs" -> w.ext = <<".", "c">>
      [] list = "headers" -> w.ext = <<".", "h">>
      [] list = "flag_list" -> IsFlag(w)
      [] list = "libraries" -> IsLink(w) \/ w.ext \in {<<".", "a">>, <<".", "s", "o">>}
Belonging(list) == {w \in Word : Belongs(list, w)}
LetIn(list) == {w \in Word : Accepts(list, w)}

\* A description whose words the tests judge as the comments say (compile.c:48, 111,
\* 153, 207). Of others, with a word like misc or h.h among the sources, the tests
\* let in more.
Judged(d) ==
    \A list \in ListNames : \A k \in DOMAIN d : d[k].kind = KindOf(list) =>
        \A j \in DOMAIN d[k].words :
            Accepts(list, d[k].words[j]) <=> Belongs(list, d[k].words[j])

\* A description that fakemake accepts is read completely: each list holds, in
\* order and across the lines of its kind, the first words that the comments of
\* add_srcs, add_headers, add_flags and add_libraries say belong in it, up to the
\* size of its array; of descriptions whose words the tests judge as they say.
ListsComplete ==
    pc \in Deciding \cup Running /\ Judged(desc) =>
        \A list \in ListNames :
            compilation[list] = Fitting(AllWords(desc, KindOf(list), Belonging(list)))

\* The array of a list is written past its end only for a description that has,
\* on all lines of the list's kind together, more words that its test lets in
\* than the array has room for (num_srcs == MAX_ARGS and its likes).
OverrunOnlyIfTooMany ==
    pc = "overrun" =>
        \E list \in ListNames : Len(AllWords(desc, KindOf(list), LetIn(list))) > MAX_ARGS

SourcesOf(d) == Fitting(AllWords(d, "C", LetIn("srcs")))

\* No description has two sources with one object, as a.c and a.h would, or one
\* that gcc makes the object of another of, as of a.cc that of a.c.
OneObjectEach ==
    \A d \in Descriptions : \A v, w \in Range(SourcesOf(d)) :
        \/ Object(v) = Object(w)
        \/ v.ext \in Languages /\ Makes(v) = Object(w)
        => v = w

\* The executable is made of objects made of what the user's files hold.
Fresh ==
    Existing(exec) /\ exec.of = [o \in LinkCommand |->
        Contents(CHOOSE w \in Range(srcs) : Object(w) = o)]

\* When fakemake says that the executable is up to date, or has made it, it is
\* made from the files as they are, whatever failed or was killed or removed in
\* earlier runs; unless a file was changed in the second of its object, or under
\* fakemake's eyes, or the executable has the name of a file of the user's
\* (get_commands, the comparisons of st_mtime).
ReportsTruth ==
    [][pc' # pc /\ pc' \in {"uptodate", "done"} => hasty \/ Aliased \/ Fresh']_vars

\* A source before the k-th has its object too, which is then compiled twice.
ListedBefore(k) == \E j \in 1..k - 1 : Object(srcs[j]) = Object(srcs[k])

\* Nothing is compiled that is there and made from the files as they are, unless
\* the description lists it twice.
CompilesOnlyStale ==
    [][pc = "command" /\ pc' = "gcc" =>
          hasty \/ ListedBefore(i) \/ ObjectOf(i).of # input']_vars

=============================================================================
