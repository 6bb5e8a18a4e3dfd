-------------------------------- MODULE Jtar --------------------------------
(***************************************************************************)
(* The archiver of lab4: `jtar c' walks the files and directories it is    *)
(* given, prints their headers, link names and contents (tar_manager.c,    *)
(* tar_head.c), and `jtar x' reads that from the other end of a pipe, or   *)
(* from a file, and makes the files again. Meanwhile another process may   *)
(* write to or remove the files that are being packed.                     *)
(*                                                                         *)
(* A path is a sequence of names. The stream is a sequence of what the     *)
(* code passes to fwrite: headers, names of links, and bytes of contents.  *)
(***************************************************************************)
EXTENDS Naturals, Sequences, SequencesExt, FiniteSets

CONSTANTS
    Sources,    \* the directory trees jtar may be started on: see Source
    Commands,   \* the lists of paths a user may give to `jtar c'
    NameLen,    \* the length of each name
    Sizes,      \* the sizes, in units of contents, a file may have
    MaxDirs,    \* length of read_tar's array of directories
    MaxEdits    \* bound: changes made to the files while they are packed

\* A tree: what each path is, with the inode of a regular file; and for each
\* inode its size, its mode and how many names it has elsewhere.
Source(s) ==
    /\ IsFiniteSet(DOMAIN s.node)
    /\ \A p \in DOMAIN s.node :
          /\ p \in Seq(DOMAIN NameLen) /\ p # <<>>
          /\ s.node[p] \in [type : {"dir"}, mode : {"rwx", "r-x"}]
                     \cup [type : {"file"}, ino : DOMAIN s.inode]
                     \cup {[type |-> "symlink"]}
          /\ Len(p) > 1 => /\ Front(p) \in DOMAIN s.node
                           /\ s.node[Front(p)].type = "dir"
    /\ \A i \in DOMAIN s.inode :
          s.inode[i] \in [size : Sizes, mode : {"rw-", "r--"}, outside : Nat]

ASSUME JtarAssumption ==
    /\ NameLen \in [DOMAIN NameLen -> Nat \ {0}]
    /\ \A s \in Sources : DOMAIN s.inode \cap DOMAIN NameLen = {}
    /\ Sizes \subseteq Nat /\ MaxDirs \in Nat /\ MaxEdits \in Nat
    /\ \A s \in Sources : Source(s)
    /\ \A c \in Commands : c \in Seq(Seq(DOMAIN NameLen) \ {<<>>})

\* A path to a file whose second name is longer than the first leaves strtok in the
\* middle of that name, which add_dir then opens: it fails, as it must be a file or
\* nothing where jtar runs.
ASSUME PathAssumption ==
    \A c \in Commands, s \in Sources : \A a \in {c[k] : k \in DOMAIN c} \cap DOMAIN s.node :
        /\ s.node[a].type = "file" /\ Len(a) > 1
        /\ NameLen[a[2]] > NameLen[a[1]] /\ <<a[2]>> \in DOMAIN s.node
        => s.node[<<a[2]>>].type = "file"

VARIABLES
    source, command,  \* the tree as it was, and the arguments
    gone,             \* paths another process has removed since
    size, version,    \* size and contents of each inode by now
    wpc,              \* `jtar c': what it does next
    args,             \* arguments still to be added
    work,             \* what add_file and add_dir have yet to do, as a stack
    headers,          \* TarManager's list
    next,             \* the header print_tar is at
    stream,           \* what has been printed
    rpc,              \* `jtar x': what it does next
    pos,              \* how much of the stream it has read
    links,            \* the links it has yet to make, and to which file
    dirs,             \* read_tar's array of directories
    target,           \* the directory it works in
    rounds            \* how often the archive has been extracted

outer == <<source, command>>
files == <<gone, size, version>>
writer == <<wpc, args, work, headers, next, stream>>
reader == <<rpc, pos, links, dirs, target, rounds>>
vars == <<outer, files, writer, reader>>

NoLinks == [of |-> 0, names |-> <<>>]
EmptyTarget == [dir |-> <<>>, file |-> <<>>, data |-> <<>>]

Init ==
    /\ source \in Sources /\ command \in Commands
    /\ gone = {}
    /\ size = [i \in DOMAIN source.inode |-> source.inode[i].size]
    /\ version = [i \in DOMAIN source.inode |-> 0]
    /\ wpc = "add" /\ args = command /\ work = <<>> /\ headers = <<>>
    /\ next = 1 /\ stream = <<>>
    /\ rpc = "read" /\ pos = 0 /\ links = NoLinks /\ dirs = <<>>
    /\ target = EmptyTarget /\ rounds = 1

(***************************************************************************)
(* The files that are packed, and who else writes them.                    *)
(***************************************************************************)

Paths == DOMAIN source.node \ gone
TypeOf(p) == source.node[p].type
InoOf(p) == source.node[p].ino
NamesOf(i) == {p \in DOMAIN source.node : TypeOf(p) = "file" /\ InoOf(p) = i}
Nlink(i) == Cardinality(NamesOf(i) \ gone) + source.inode[i].outside
Entries(d) == {p \in Paths : Len(p) = Len(d) + 1 /\ Front(p) = d}

WriterEnded == wpc \in {"done", "exit", "overrun"}
ReaderEnded == rpc \in {"done", "exit", "corrupt", "overrun"}

\* What has happened to inode i since the start.
Touched(i) == version[i] > 0 \/ NamesOf(i) \cap gone # {}
Edits == Cardinality(gone) + Cardinality({i \in DOMAIN version : version[i] > 0})

Rewrite(i) ==
    /\ ~WriterEnded /\ Edits < MaxEdits
    /\ version' = [version EXCEPT ![i] = 1]
    /\ \E n \in Sizes : size' = [size EXCEPT ![i] = n]
    /\ UNCHANGED <<outer, gone, writer, reader>>

Unlink(p) ==
    /\ ~WriterEnded /\ Edits < MaxEdits
    /\ TypeOf(p) = "file"
    /\ gone' = gone \cup {p}
    /\ UNCHANGED <<outer, size, version, writer, reader>>

(***************************************************************************)
(* `jtar c'.                                                               *)
(***************************************************************************)

\* The fields of struct stat that tell files and times of one file apart.
Stat(p) ==
    IF TypeOf(p) = "file"
    THEN [ino |-> <<InoOf(p)>>, size |-> size[InoOf(p)],
          mode |-> source.inode[InoOf(p)].mode, nlink |-> Nlink(InoOf(p)),
          time |-> version[InoOf(p)]]
    ELSE [ino |-> p, size |-> 0, nlink |-> 2, time |-> 0,
          mode |-> IF TypeOf(p) = "dir" THEN source.node[p].mode ELSE "rwx"]

create_header(p) ==
    [tar_name |-> p, ftype |-> TypeOf(p), file_stats |-> Stat(p), hard_links |-> <<>>]

stat_eq(s1, s2) == s1 = s2
header_eq(h1, h2) ==
    /\ h1.tar_name = h2.tar_name /\ h1.ftype = h2.ftype
    /\ stat_eq(h1.file_stats, h2.file_stats)

\* The first header that add_file's traversal stops at, 0 if none.
FirstNamed(h) ==  \* variant: links are not looked for
    SelectInSeq(headers, LAMBDA g : header_eq(h, g))
FirstMatch(h) ==
    SelectInSeq(headers,
        LAMBDA g : \/ header_eq(h, g)
                   \/ h.ftype = "file" /\ stat_eq(h.file_stats, g.file_stats))

\* The end of add_file: a new header, or a link of one that is there, or
\* nothing. Reading a directory may have changed its time of access, and then
\* it is taken for another one. hard_links has LinkRoom places.
LinkRoomShort(h) == h.file_stats.nlink - 2  \* variant
LinkRoom(h) == h.file_stats.nlink - 1

AddHeader(p, rest) ==
    LET h == create_header(p)
        k == FirstMatch(h)
        known == k > 0 /\ header_eq(h, headers[k])
        link == k > 0 /\ ~known
        full == link /\ Len(headers[k].hard_links) >= LinkRoom(h)
        Appended == {Append(headers, h)}
    IN  /\ headers' \in
              IF full THEN {headers}
              ELSE IF link THEN {[headers EXCEPT ![k].hard_links = Append(@, p)]}
              ELSE IF ~known THEN Appended
              ELSE {headers} \cup IF h.ftype = "dir" THEN Appended ELSE {}
        /\ wpc' = IF full THEN "overrun" ELSE "add"
        /\ work' = rest

\* add: links and directories at the top are told apart here. A path to a file
\* goes through the loop at the start of add_file, whose strtok is spoilt by the
\* call in it: the first component is added as a directory, and then the second
\* one is looked for in the working directory, if it is not the longer.
Add ==
    LET a == Head(args) IN
    /\ wpc = "add" /\ work = <<>> /\ args # <<>>
    /\ args' = Tail(args)
    /\ IF a \notin Paths
       THEN wpc' = "exit" /\ UNCHANGED work
       ELSE /\ UNCHANGED wpc
            /\ work' = CASE TypeOf(a) = "symlink" -> <<>>
                         [] TypeOf(a) = "dir"     -> <<[op |-> "list", at |-> a]>>
                         [] TypeOf(a) = "file" /\ Len(a) = 1 ->
                                <<[op |-> "file", at |-> a]>>
                         [] OTHER -> <<[op |-> "file", at |-> <<a[1]>>],
                                       [op |-> IF NameLen[a[2]] <= NameLen[a[1]]
                                               THEN "file" ELSE "fail",
                                        at |-> <<a[2]>>]>>
    /\ UNCHANGED <<outer, files, reader, headers, next, stream>>

\* add_file, called from add or by its own loop.
AddFile ==
    /\ wpc = "add" /\ work # <<>> /\ Head(work).op \in {"file", "fail"}
    /\ IF Head(work).op = "file" /\ Head(work).at \in Paths
       THEN AddHeader(Head(work).at, Tail(work))
       ELSE wpc' = "exit" /\ UNCHANGED <<work, headers>>
    /\ UNCHANGED <<outer, files, reader, args, next, stream>>

\* add_dir: opendir and readdir, in any order.
AddDir ==
    /\ wpc = "add" /\ work # <<>> /\ Head(work).op = "list"
    /\ \E order \in SetToSeqs(Entries(Head(work).at)) :
          work' = [k \in DOMAIN order |-> [op |-> "visit", at |-> order[k]]]
                    \o Tail(work)
    /\ UNCHANGED <<outer, files, reader, wpc, args, headers, next, stream>>

\* The body of add_dir's loop over the names it has read.
VisitEntry ==
    LET p == Head(work).at IN
    /\ wpc = "add" /\ work # <<>> /\ Head(work).op = "visit"
    /\ CASE p \notin Paths -> wpc' = "exit" /\ UNCHANGED <<work, headers>>
         [] p \in Paths /\ TypeOf(p) = "symlink" ->
                work' = Tail(work) /\ UNCHANGED <<wpc, headers>>
         [] p \in Paths /\ TypeOf(p) = "file" -> AddHeader(p, Tail(work))
         [] p \in Paths /\ TypeOf(p) = "dir" ->
                AddHeader(p, <<[op |-> "list", at |-> p]>> \o Tail(work))
    /\ UNCHANGED <<outer, files, reader, args, next, stream>>

StartPrinting ==
    /\ wpc = "add" /\ work = <<>> /\ args = <<>>
    /\ wpc' = "header"
    /\ UNCHANGED <<outer, files, reader, args, work, headers, next, stream>>

\* The names print_tar writes: nlink-1 of them, empty where none was found.
LinkNames(h) ==
    [k \in 1..h.file_stats.nlink - 1 |->
        IF k \in DOMAIN h.hard_links THEN h.hard_links[k] ELSE <<>>]

Tokens(kind, seq) == [k \in DOMAIN seq |-> [kind |-> kind, val |-> seq[k]]]

\* What is printed before the file is opened.
NothingIfGone(h) ==  \* variant: it is opened first
    IF h.ftype = "file" /\ h.tar_name \notin Paths THEN <<>>
    ELSE Tokens("head", <<h>>) \o
         IF h.ftype = "file" THEN Tokens("link", LinkNames(h)) ELSE <<>>
Opening(h) ==
    Tokens("head", <<h>>) \o
    IF h.ftype = "file" THEN Tokens("link", LinkNames(h)) ELSE <<>>

PrintHeader ==
    LET h == headers[next] IN
    /\ wpc = "header" /\ next <= Len(headers)
    /\ stream' = stream \o Opening(h)
    /\ IF h.ftype = "file" THEN wpc' = "data" /\ UNCHANGED next
                           ELSE next' = next + 1 /\ UNCHANGED wpc
    /\ UNCHANGED <<outer, files, reader, args, work, headers>>

\* The contents are as they are by now, the length is what lstat said before:
\* beyond the end of a file that has shrunk the buffer holds anything.
DataNow(i, n) == [k \in 1..size[i] |-> <<i, version[i]>>]  \* variant
Data(i, n) == [k \in 1..n |-> IF k <= size[i] THEN <<i, version[i]>> ELSE <<"?", 0>>]

PrintData ==
    LET h == headers[next]
        st == h.file_stats
    IN
    /\ wpc = "data"
    /\ IF h.tar_name \in Paths
       THEN /\ stream' = stream \o Tokens("byte", Data(st.ino[1], st.size))
            /\ next' = next + 1
            /\ wpc' = "header"
       ELSE wpc' = "exit" /\ UNCHANGED <<stream, next>>
    /\ UNCHANGED <<outer, files, reader, args, work, headers>>

StopPrinting ==
    /\ wpc = "header" /\ next > Len(headers)
    /\ wpc' = "done"
    /\ UNCHANGED <<outer, files, reader, args, work, headers, next, stream>>

(***************************************************************************)
(* `jtar x'. Its target holds directories, with mode and whether the time  *)
(* is that of the archive; names of files; and for each of these its data. *)
(***************************************************************************)

Ancestors(p) == {SubSeq(p, 1, k) : k \in 1..Len(p) - 1}
Made(d) == [mode |-> "rwx", time |-> "now"]

\* The directories with p's ancestors, and p itself newly entered in the last.
Grown(t, p) ==
    LET new == Ancestors(p) \ DOMAIN t.dir
        changed == {Front(q) : q \in new \cup {p}}
    IN  [d \in DOMAIN t.dir \cup new |->
            IF d \in new THEN Made(d)
            ELSE [t.dir[d] EXCEPT !.time = IF d \in changed THEN "now" ELSE @]]

\* Whoever extracts may create that: mkdir, open and link need to write to the
\* directory in which they make an entry.
MayGrow(t, p) ==
    \A q \in (Ancestors(p) \ DOMAIN t.dir) \cup {p} :
        Front(q) \in DOMAIN t.dir => t.dir[Front(q)].mode = "rwx"

SetAt(f, x, y) == [z \in DOMAIN f \cup {x} |-> IF z = x THEN y ELSE f[z]]

Left == Len(stream) - pos
Record == stream[pos + 1]
\* What the header says follows it, and whether it is there.
Links(h) == SubSeq(stream, pos + 2, pos + h.file_stats.nlink)
Bytes(h) == SubSeq(stream, pos + h.file_stats.nlink + 1,
                   pos + h.file_stats.nlink + h.file_stats.size)
RecordLen(h) == h.file_stats.nlink + h.file_stats.size

\* What follows is no header, and its numbers do not add up to its checksum.
ChecksumFails(r) == r.kind # "head"

ReadCorrupt ==
    /\ rpc' = "corrupt" /\ UNCHANGED <<pos, links, dirs, target>>

DirsFullLate == Len(dirs) > MaxDirs  \* variant: one too late
DirsFull == Len(dirs) = MaxDirs

ReadDirHeader(h) ==
    /\ pos' = pos + 1
    /\ IF h.ftype = "dir" /\ DirsFull
       THEN rpc' = "overrun" /\ UNCHANGED dirs
       ELSE /\ dirs' = IF h.ftype = "dir" THEN Append(dirs, h) ELSE dirs
            /\ UNCHANGED rpc
    /\ UNCHANGED <<links, target>>

\* fread and fwrite of no bytes return 0, which is not the 1 that is expected.
CanRead(h) == Left >= RecordLen(h) /\ h.file_stats.size > 0

\* recreate_file up to its links: fopen empties what is there already.
RecreateFile(h) ==
    LET p == h.tar_name
        old == p \in DOMAIN target.file
        id == IF old THEN target.file[p] ELSE Cardinality(DOMAIN target.data) + 1
        new == [bytes |-> [k \in DOMAIN Bytes(h) |-> Bytes(h)[k].val],
                mode |-> h.file_stats.mode]
    IN  IF \/ ~CanRead(h)
           \/ IF old THEN target.data[id].mode = "r--" ELSE ~MayGrow(target, p)
        THEN rpc' = "exit" /\ UNCHANGED <<pos, links, dirs, target>>
        ELSE /\ target' = [dir |-> IF old THEN target.dir ELSE Grown(target, p),
                           file |-> SetAt(target.file, p, id),
                           data |-> SetAt(target.data, id, new)]
             /\ links' = [of |-> id,
                          names |-> [k \in DOMAIN Links(h) |-> Links(h)[k].val]]
             /\ pos' = pos + RecordLen(h)
             /\ rpc' = "link"
             /\ UNCHANGED dirs

\* fread waits until the pipe holds what it needs or has been closed.
AwaitAll(h) == Left >= RecordLen(h)  \* variant: an end of file is not noticed
Await(h) == WriterEnded \/ Left >= RecordLen(h)

\* One turn of read_tar's loop.
ReadRecord ==
    /\ rpc = "read" /\ Left > 0
    /\ IF ChecksumFails(Record) THEN ReadCorrupt
       ELSE IF Record.val.ftype # "file" THEN ReadDirHeader(Record.val)
       ELSE Await(Record.val) /\ RecreateFile(Record.val)
    /\ UNCHANGED <<outer, files, writer, rounds>>

\* recreate_file's loop over the links. Without a name, or when there is such a
\* name already, link() fails.
RecreateLink ==
    LET l == Head(links.names) IN
    /\ rpc = "link" /\ links.names # <<>>
    /\ IF l = <<>> \/ l \in DOMAIN target.file \/ ~MayGrow(target, l)
       THEN rpc' = "exit" /\ UNCHANGED <<links, target>>
       ELSE /\ target' = [target EXCEPT !.dir = Grown(target, l),
                                        !.file = SetAt(@, l, links.of)]
            /\ links' = [links EXCEPT !.names = Tail(@)]
            /\ UNCHANGED rpc
    /\ UNCHANGED <<outer, files, writer, pos, dirs, rounds>>

LastLink ==
    /\ rpc = "link" /\ links.names = <<>>
    /\ rpc' = "read" /\ links' = NoLinks
    /\ UNCHANGED <<outer, files, writer, pos, dirs, target, rounds>>

EndOfArchive ==
    /\ rpc = "read" /\ Left = 0 /\ WriterEnded
    /\ rpc' = "dirs"
    /\ UNCHANGED <<outer, files, writer, pos, links, dirs, target, rounds>>

\* Which directory is next: the array is gone through backwards.
NextDirForward == 1  \* variant
NextDir == Len(dirs)

\* recreate_dir: make the directory if no file has, then set mode and times.
RecreateDir ==
    LET h == dirs[NextDir]
        p == h.tar_name
        there == IF p \in DOMAIN target.dir THEN target.dir ELSE Grown(target, p)
    IN
    /\ rpc = "dirs" /\ dirs # <<>>
    /\ IF p \notin DOMAIN target.dir /\ ~MayGrow(target, p)
       THEN rpc' = "exit" /\ UNCHANGED <<dirs, target>>
       ELSE /\ target' = [target EXCEPT !.dir =
                    SetAt(there, p, [mode |-> h.file_stats.mode, time |-> "stored"])]
            /\ dirs' = RemoveAt(dirs, NextDir)
            /\ UNCHANGED rpc
    /\ UNCHANGED <<outer, files, writer, pos, links, rounds>>

Finish ==
    /\ rpc = "dirs" /\ dirs = <<>>
    /\ rpc' = "done"
    /\ UNCHANGED <<outer, files, writer, pos, links, dirs, target, rounds>>

\* The user extracts the same archive again, over what is there.
ExtractAgain ==
    /\ WriterEnded /\ rpc \in {"done", "exit"} /\ rounds = 1
    /\ rounds' = 2
    /\ rpc' = "read" /\ pos' = 0 /\ links' = NoLinks /\ dirs' = <<>>
    /\ UNCHANGED <<outer, files, writer, target>>

WriterStep == Add \/ AddFile \/ AddDir \/ VisitEntry \/ StartPrinting
              \/ PrintHeader \/ PrintData \/ StopPrinting
ReaderStep == ReadRecord \/ RecreateLink \/ LastLink \/ EndOfArchive
              \/ RecreateDir \/ Finish
Editor == \/ \E i \in DOMAIN version : Rewrite(i)
          \/ \E p \in Paths : Unlink(p)

Next == WriterStep \/ ReaderStep \/ Editor \/ ExtractAgain

Spec == Init /\ [][Next]_vars

\* Both programs are scheduled; nobody has to edit or to extract again.
FairSpec == Spec /\ WF_vars(WriterStep) /\ WF_vars(ReaderStep)

(***************************************************************************)
(* Properties.                                                             *)
(***************************************************************************)

WriterType ==
    /\ wpc \in {"add", "header", "data", "done", "exit", "overrun"}
    /\ IsSuffix(args, command)
    /\ \A k \in DOMAIN work :
          /\ work[k].op \in {"list", "file", "fail", "visit"}
          /\ work[k].at \in Seq(DOMAIN NameLen)
    /\ \A k \in DOMAIN headers :
          /\ headers[k].tar_name \in DOMAIN source.node
          /\ \A j \in DOMAIN headers[k].hard_links :
                headers[k].hard_links[j] \in DOMAIN source.node
    /\ next \in 1..Len(headers) + 1
    /\ \A k \in DOMAIN stream : stream[k].kind \in {"head", "link", "byte"}

ReaderType ==
    /\ rpc \in {"read", "link", "dirs", "done", "exit", "corrupt", "overrun"}
    /\ pos \in 0..Len(stream)
    /\ links.of \in {0} \cup DOMAIN target.data /\ links.names \in Seq(Seq(DOMAIN NameLen))
    /\ Len(dirs) <= MaxDirs
    /\ \A d \in DOMAIN target.dir :
          target.dir[d] \in [mode : {"rwx", "r-x"}, time : {"now", "stored"}]
    /\ \A p \in DOMAIN target.file : target.file[p] \in DOMAIN target.data
    /\ rounds \in {1, 2}

\* Every variable has its type.
TypeOK ==
    /\ Source(source) /\ command \in Commands
    /\ gone \subseteq DOMAIN source.node
    /\ \A i \in DOMAIN source.inode : size[i] \in Sizes /\ version[i] \in {0, 1}
    /\ WriterType /\ ReaderType

\* What the user asked for: arguments that are directories, or files of the
\* working directory, and what is in and below them.
Plain == \A k \in DOMAIN command :
            /\ command[k] \in DOMAIN source.node
            /\ TypeOf(command[k]) = "file" => Len(command[k]) = 1
Asked(type) == {p \in DOMAIN source.node :
                   /\ TypeOf(p) = type
                   /\ \E k \in DOMAIN command : IsPrefix(command[k], p)}
AskedFiles == Asked("file")
\* A directory that is an argument is not packed itself, only what it holds.
AskedDirs == {d \in Asked("dir") :
                 \E k \in DOMAIN command : IsStrictPrefix(command[k], d)}

\* What the user asked for names something twice; or a directory before another
\* that it is in.
Repeated == \E j, k \in DOMAIN command : j # k /\ IsPrefix(command[j], command[k])
InnerFirst == \E j, k \in DOMAIN command :
                 j < k /\ IsStrictPrefix(command[k], command[j])

\* When `jtar x' ends well, every file that nobody touched is back with its
\* contents and mode, files are one file exactly if they were; every directory
\* below the arguments has its mode back, and its time, although files and empty
\* directories were made in it (add_file, print_tar, read_tar, recreate_dir). An
\* inner directory asked for first is finished before what was in it is made.
RoundTrip ==
    (Plain /\ wpc = "done" /\ rpc = "done") =>
        LET whole == {p \in AskedFiles : ~Touched(InoOf(p))}
            touched == {p \in DOMAIN source.node :
                          TypeOf(p) = "file" /\ Touched(InoOf(p))}
        IN
        /\ DOMAIN target.file \ touched = whole
        /\ \A p \in whole :
              /\ target.data[target.file[p]] =
                    [bytes |-> [k \in 1..source.inode[InoOf(p)].size |-> <<InoOf(p), 0>>],
                     mode |-> source.inode[InoOf(p)].mode]
              /\ \A q \in whole :
                    target.file[p] = target.file[q] <=> InoOf(p) = InoOf(q)
        /\ \A d \in AskedDirs :
              /\ d \in DOMAIN target.dir
              /\ target.dir[d].mode = source.node[d].mode
              /\ target.dir[d].time = "stored" \/ InnerFirst

\* Extracting an archive of files nobody touched fails only for the five reasons
\* this code has: an empty file, a file with a name outside the archive, when it
\* is done once more over its own result a file with two names or one that may
\* not be written, a directory that may not be written and is asked for twice,
\* more directories than the array holds.
ExtractFailsOnly ==
    (Plain /\ wpc = "done" /\ Edits = 0 /\ rpc \in {"exit", "overrun"}) =>
        \/ \E p \in AskedFiles :
              \/ source.inode[InoOf(p)].size = 0
              \/ ~(NamesOf(InoOf(p)) \subseteq AskedFiles)
              \/ source.inode[InoOf(p)].outside > 0
              \/ rounds = 2 /\ (Nlink(InoOf(p)) > 1
                                \/ source.inode[InoOf(p)].mode = "r--")
        \/ Repeated /\ \E d \in AskedDirs : source.node[d].mode = "r-x"
        \/ rpc = "overrun" /\ Len(command) * Cardinality(AskedDirs) > MaxDirs

\* However files change, shrink or vanish while they are packed, the reader
\* never takes contents for a header: print_tar writes as many names and bytes
\* as the header says, not as many as there are.
NeverCorrupt == rpc # "corrupt"

\* The table of links overflows only when what the user asked for names a file
\* with several names twice (add_file does not look among the links it has).
OverrunOnlyOnRepeat ==
    Plain /\ wpc = "overrun" => Repeated

\* If `jtar c' gives up in the middle of printing, because a file has vanished,
\* `jtar x' at the other end of the pipe does not report success: the header is
\* printed before the file is opened.
CutNoticed == wpc = "exit" /\ rpc = "done" => stream = <<>>

\* Both programs end, each whatever the other does.
BothEnd == <>(WriterEnded /\ ReaderEnded)
=============================================================================
