------------------------------ MODULE JtarProofs ------------------------------
(***************************************************************************)
(* What holds of jtar whatever the tree, the arguments, the sizes and the  *)
(* number of changes another process makes: the types, that the reader of  *)
(* the pipe never takes contents for a header, that it notices when the    *)
(* archive ends in the middle of a file, that a header has room for the    *)
(* links of its file unless the arguments name one twice, and that what is *)
(* extracted is what was packed.                                           *)
(***************************************************************************)
EXTENDS Jtar, FiniteSetTheorems, SequenceTheorems, WellFoundedInduction,
        TLAPS

Path == Seq(DOMAIN NameLen)
FileStat == [ino : {<<i>> : i \in DOMAIN source.inode}, size : Nat,
             mode : {"rw-", "r--"}, nlink : Nat \ {0}, time : {0, 1}]
OtherStat == [ino : Path, size : {0}, mode : {"rwx", "r-x"}, nlink : {2},
              time : {0}]
FileHeader == [tar_name : DOMAIN source.node, ftype : {"file"},
               file_stats : FileStat, hard_links : Seq(DOMAIN source.node)]
OtherHeader == [tar_name : DOMAIN source.node, ftype : {"dir", "symlink"},
                file_stats : OtherStat, hard_links : Seq(DOMAIN source.node)]
Header == FileHeader \cup OtherHeader
Token == [kind : {"head"}, val : Header]
         \cup [kind : {"link"}, val : Path]
         \cup [kind : {"byte"}, val : (DOMAIN source.inode \cup {"?"}) \X {0, 1}]
Todo == [op : {"list", "file", "fail", "visit"}, at : Path]

\* The types, in the detail that the invariant needs.
SourceTyped == Source(source) /\ source \in Sources /\ command \in Commands
FilesTyped ==
    /\ gone \subseteq DOMAIN source.node
    /\ size \in [DOMAIN source.inode -> Sizes]
    /\ version \in [DOMAIN source.inode -> {0, 1}]
WriterTyped ==
    /\ wpc \in {"add", "header", "data", "done", "exit", "overrun"}
    /\ args \in Seq(Path) /\ IsSuffix(args, command)
    /\ work \in Seq(Todo)
    /\ headers \in Seq(Header) /\ next \in 1..Len(headers) + 1
    /\ stream \in Seq(Token)
ReaderTyped ==
    /\ rpc \in {"read", "link", "dirs", "done", "exit", "corrupt", "overrun"}
    /\ pos \in 0..Len(stream)
    /\ links.of \in {0} \cup DOMAIN target.data /\ links.names \in Seq(Path)
    /\ links = [of |-> links.of, names |-> links.names]
    /\ rpc = "link" => links.of \in DOMAIN target.data
    /\ dirs \in Seq({h \in Header : h.ftype = "dir"}) /\ Len(dirs) <= MaxDirs
    /\ target = [dir |-> target.dir, file |-> target.file, data |-> target.data]
    /\ \A d \in DOMAIN target.dir :
          target.dir[d] \in [mode : {"rwx", "r-x"}, time : {"now", "stored"}]
    /\ \A p \in DOMAIN target.file : target.file[p] \in DOMAIN target.data
    /\ rounds \in {1, 2}

\* The stream is whole when the last file of which there is a header is there
\* with its contents.
Whole == wpc # "data" /\ (wpc = "exit" => stream = <<>>)

\* How much of the stream a header stands for.
Extent(h) == IF h.ftype = "file" THEN RecordLen(h) ELSE 1

\* Where the reader expects a header, and finds it or will find it.
Boundary(k) ==
    /\ k \in 0..Len(stream)
    /\ k < Len(stream) => stream[k + 1].kind = "head"
    /\ k = Len(stream) => Whole

\* Every header is followed by the names of the links it counts, and by as many
\* bytes as it says, and then by the next header; but for the last one, if it is
\* that of a file which could not be read.
Framed ==
    /\ wpc \in {"add", "overrun"} => stream = <<>>
    /\ wpc = "data" => /\ stream # <<>> /\ next \in DOMAIN headers
                       /\ headers[next].ftype = "file"
    /\ Boundary(0)
    /\ \A k \in 1..Len(stream) : stream[k].kind = "head" =>
          \/ \E b \in Nat : b = k - 1 + Extent(stream[k].val) /\ Boundary(b)
          \/ /\ ~Whole /\ stream[k].val.ftype = "file"
             /\ k - 1 + stream[k].val.file_stats.nlink = Len(stream)
             /\ wpc = "data" => stream[k].val = headers[next]
    /\ \A k \in 1..Len(stream) :
          stream[k].kind = "head" /\ stream[k].val.ftype = "file" =>
             /\ k - 1 + stream[k].val.file_stats.nlink <= Len(stream)
             /\ \A j \in 1..stream[k].val.file_stats.nlink - 1 :
                   stream[k + j].kind = "link"
ReaderInFrame ==
    /\ rpc \in {"read", "link", "dirs", "done"} => Boundary(pos)
    /\ rpc \in {"dirs", "done"} => WriterEnded /\ pos = Len(stream)
    /\ rpc # "corrupt"

TypeInv == SourceTyped /\ FilesTyped /\ WriterTyped /\ ReaderTyped
FrameInv == Framed /\ ReaderInFrame
------------------------------------------------------------------------------
(* The writer. *)

LEMMA LinksCounted ==
    ASSUME TypeInv, NEW p \in Paths, TypeOf(p) = "file"
    PROVE  InoOf(p) \in DOMAIN source.inode /\ Nlink(InoOf(p)) \in Nat \ {0}
<1>1. source.node[p] \in [type : {"dir"}, mode : {"rwx", "r-x"}]
                    \cup [type : {"file"}, ino : DOMAIN source.inode]
                    \cup {[type |-> "symlink"]}
  BY DEF Paths, TypeInv, SourceTyped, Source
<1>2. InoOf(p) \in DOMAIN source.inode
  BY <1>1 DEF TypeOf, InoOf
<1>3. source.inode[InoOf(p)].outside \in Nat
  BY <1>2 DEF TypeInv, SourceTyped, Source
<1>4. /\ IsFiniteSet(NamesOf(InoOf(p)) \ gone) /\ p \in NamesOf(InoOf(p)) \ gone
  <2>1. NamesOf(InoOf(p)) \ gone \subseteq DOMAIN source.node
    BY DEF NamesOf
  <2>2. p \in NamesOf(InoOf(p)) \ gone
    BY DEF NamesOf, Paths
  <2>. QED BY <2>1, <2>2, FS_Subset DEF TypeInv, SourceTyped, Source
<1>5. Cardinality(NamesOf(InoOf(p)) \ gone) \in Nat \ {0}
  BY <1>4, FS_CardinalityType, FS_EmptySet
<1>. QED BY <1>2, <1>3, <1>5 DEF Nlink

\* What lstat says of a path that is there makes a header.
LEMMA HeaderTyped ==
    ASSUME TypeInv, NEW p \in Paths
    PROVE  create_header(p) \in Header
<1>1. /\ source.node[p] \in [type : {"dir"}, mode : {"rwx", "r-x"}]
                       \cup [type : {"file"}, ino : DOMAIN source.inode]
                       \cup {[type |-> "symlink"]}
      /\ p \in DOMAIN source.node /\ p \in Path
  BY DEF Paths, TypeInv, SourceTyped, Source, Path
<1>2. CASE TypeOf(p) = "file"
  <2>1. InoOf(p) \in DOMAIN source.inode /\ Nlink(InoOf(p)) \in Nat \ {0}
    BY <1>2, LinksCounted
  <2>2. /\ size[InoOf(p)] \in Nat /\ version[InoOf(p)] \in {0, 1}
        /\ source.inode[InoOf(p)].mode \in {"rw-", "r--"}
    BY <2>1, JtarAssumption DEF TypeInv, FilesTyped, SourceTyped, Source
  <2>3. Stat(p) \in FileStat
    BY <1>2, <2>1, <2>2 DEF Stat, FileStat
  <2>. QED BY <1>1, <1>2, <2>3 DEF create_header, Header, FileHeader
<1>3. CASE TypeOf(p) # "file"
  <2>1. TypeOf(p) \in {"dir", "symlink"}
        /\ (TypeOf(p) = "dir" => source.node[p].mode \in {"rwx", "r-x"})
    BY <1>1, <1>3 DEF TypeOf
  <2>2. Stat(p) \in OtherStat
    BY <1>1, <1>3, <2>1 DEF Stat, OtherStat
  <2>. QED BY <1>1, <2>1, <2>2 DEF create_header, Header, OtherHeader
<1>. QED BY <1>2, <1>3

\* A header with another list of links.
LEMMA HeaderLinks ==
    ASSUME NEW r \in Header, NEW l \in Seq(DOMAIN source.node)
    PROVE  r.hard_links \in Seq(DOMAIN source.node) /\ [r EXCEPT !.hard_links = l] \in Header
<1>1. CASE r \in FileHeader
  <2>1. r.hard_links \in Seq(DOMAIN source.node)
    BY <1>1 DEF FileHeader
  <2>2. [r EXCEPT !.hard_links = l] \in FileHeader
    BY <1>1 DEF FileHeader
  <2>. QED BY <2>1, <2>2 DEF Header
<1>2. CASE r \in OtherHeader
  <2>1. r.hard_links \in Seq(DOMAIN source.node)
    BY <1>2 DEF OtherHeader
  <2>2. [r EXCEPT !.hard_links = l] \in OtherHeader
    BY <1>2 DEF OtherHeader
  <2>. QED BY <2>1, <2>2 DEF Header
<1>. QED BY <1>1, <1>2 DEF Header

\* add_file adds a header, or the name of a link, or nothing.
LEMMA AddHeaderTyped ==
    ASSUME TypeInv, NEW p \in Paths, NEW rest, AddHeader(p, rest)
    PROVE  /\ headers' \in Seq(Header) /\ Len(headers') >= Len(headers)
           /\ wpc' \in {"add", "overrun"} /\ work' = rest
<1>1. PICK k : headers' \in {headers, Append(headers, create_header(p)),
                            [headers EXCEPT ![k].hard_links = Append(@, p)]}
  BY DEF AddHeader
<1>2. headers \in Seq(Header) /\ create_header(p) \in Header /\ p \in DOMAIN source.node
  BY HeaderTyped DEF TypeInv, WriterTyped, Paths
<1>3. CASE headers' \in {headers, Append(headers, create_header(p))}
  BY <1>2, <1>3 DEF AddHeader
<1>4. CASE headers' = [headers EXCEPT ![k].hard_links = Append(@, p)]
  <2>1. /\ DOMAIN headers = 1..Len(headers) /\ Len(headers) \in Nat
        /\ \A j \in 1..Len(headers) : headers[j] \in Header
    BY <1>2
  <2>2. ASSUME NEW j \in 1..Len(headers) PROVE headers'[j] \in Header
    <3>1. PICK r \in Header : r = headers[j]
      BY <2>1
    <3>2. CASE j = k
      <4>1. headers'[j] = [r EXCEPT !.hard_links = Append(r.hard_links, p)]
        BY <1>4, <2>1, <3>1, <3>2
      <4>2. r.hard_links \in Seq(DOMAIN source.node)
        <5>1. <<>> \in Seq(DOMAIN source.node)
          OBVIOUS
        <5>. QED BY <3>1, <5>1, HeaderLinks
      <4>3. Append(r.hard_links, p) \in Seq(DOMAIN source.node)
        BY <1>2, <4>2, AppendProperties
      <4>. QED BY <3>1, <4>1, <4>3, HeaderLinks, ZenonT(60)
    <3>3. CASE j # k
      BY <1>4, <2>1, <3>1, <3>3
    <3>. QED BY <3>2, <3>3
  <2>3. DOMAIN headers' = 1..Len(headers)
    BY <1>4, <2>1
  <2>4. headers' = [j \in 1..Len(headers) |-> headers'[j]]
    BY <1>4, <2>1, <2>3
  <2>5. headers' \in Seq(Header) /\ Len(headers') = Len(headers)
    BY <2>1, <2>2, <2>4
  <2>. QED BY <1>2, <2>5 DEF AddHeader
<1>. QED BY <1>1, <1>3, <1>4
------------------------------------------------------------------------------
(* Sequences. *)

\* A prefix is a sequence whose elements are the first ones of the other.
LEMMA PrefixPointwise ==
    ASSUME NEW S, NEW u \in Seq(S), NEW v \in Seq(S)
    PROVE  /\ IsPrefix(u, v) => /\ Len(u) <= Len(v)
                                /\ \A i \in 1..Len(u) : u[i] = v[i]
           /\ (Len(u) <= Len(v) /\ \A i \in 1..Len(u) : u[i] = v[i]) => IsPrefix(u, v)
<1>1. Len(u) \in Nat /\ Len(v) \in Nat /\ \A i \in 1..Len(u) : u[i] \in S
  OBVIOUS
<1>2. \A i \in 1..Len(v) : v[i] \in S
  OBVIOUS
<1>3. ASSUME Len(u) <= Len(v)
      PROVE  /\ SubSeq(u, 1, Len(u)) \in Seq(S) /\ SubSeq(v, 1, Len(u)) \in Seq(S)
             /\ Len(SubSeq(u, 1, Len(u))) = Len(u) /\ Len(SubSeq(v, 1, Len(u))) = Len(u)
             /\ \A i \in 1..Len(u) : SubSeq(u, 1, Len(u))[i] = u[i]
             /\ \A i \in 1..Len(u) : SubSeq(v, 1, Len(u))[i] = v[i]
  BY <1>1, <1>2, <1>3
<1>4. ASSUME IsPrefix(u, v)
      PROVE  Len(u) <= Len(v) /\ \A i \in 1..Len(u) : u[i] = v[i]
  <2>1. Len(u) <= Len(v) /\ SubSeq(u, 1, Len(u)) = SubSeq(v, 1, Len(u))
    BY <1>4 DEF IsPrefix
  <2>. QED BY <1>3, <2>1
<1>5. ASSUME Len(u) <= Len(v), \A i \in 1..Len(u) : u[i] = v[i] PROVE IsPrefix(u, v)
  <2>1. SubSeq(u, 1, Len(u)) = SubSeq(v, 1, Len(u))
    BY <1>3, <1>5, SeqEqual
  <2>. QED BY <1>5, <2>1 DEF IsPrefix
<1>. QED BY <1>4, <1>5

LEMMA Reversed ==
    ASSUME NEW S, NEW s \in Seq(S)
    PROVE  /\ Reverse(s) \in Seq(S) /\ Len(Reverse(s)) = Len(s)
           /\ \A i \in 1..Len(s) : Reverse(s)[i] = s[(Len(s) - i) + 1]
<1>1. Len(s) \in Nat /\ \A i \in 1..Len(s) : (Len(s) - i) + 1 \in 1..Len(s)
  OBVIOUS
<1>. QED BY <1>1 DEF Reverse

\* What is left of the arguments stays the end of the command.
LEMMA SuffixTail ==
    ASSUME NEW S, NEW s \in Seq(S), NEW t \in Seq(S), s # <<>>, IsSuffix(s, t)
    PROVE  IsSuffix(Tail(s), t)
<1>1. /\ Reverse(s) \in Seq(S) /\ Reverse(t) \in Seq(S)
      /\ Len(Reverse(s)) = Len(s) /\ Len(Reverse(t)) = Len(t)
  BY Reversed
<1>2. PICK u \in Seq(S) : u = Tail(s)
  BY HeadTailProperties
<1>3. /\ Len(u) = Len(s) - 1 /\ Len(s) \in Nat \ {0}
      /\ \A i \in 1..Len(u) : u[i] = s[i + 1]
  BY <1>2, HeadTailProperties
<1>4. /\ Reverse(u) \in Seq(S) /\ Len(Reverse(u)) = Len(u)
      /\ \A i \in 1..Len(u) : Reverse(u)[i] = u[(Len(u) - i) + 1]
  BY Reversed
<1>5. /\ Len(s) <= Len(t)
      /\ \A i \in 1..Len(s) : Reverse(s)[i] = Reverse(t)[i]
  <2>1. IsPrefix(Reverse(s), Reverse(t))
    BY DEF IsSuffix
  <2>. QED BY <1>1, <2>1, PrefixPointwise
<1>6. ASSUME NEW i \in 1..Len(u) PROVE Reverse(u)[i] = Reverse(t)[i]
  <2>1. Reverse(s)[i] = s[(Len(s) - i) + 1] /\ i \in 1..Len(s)
    BY <1>3, Reversed
  <2>2. (Len(u) - i) + 1 \in 1..Len(u) /\ ((Len(u) - i) + 1) + 1 = (Len(s) - i) + 1
    BY <1>3
  <2>3. Reverse(u)[i] = s[(Len(s) - i) + 1]
    BY <1>3, <1>4, <2>2
  <2>. QED BY <1>5, <2>1, <2>3
<1>7. Len(u) <= Len(t)
  BY <1>3, <1>5
<1>8. IsPrefix(Reverse(u), Reverse(t))
  BY <1>1, <1>4, <1>6, <1>7, PrefixPointwise
<1>. QED BY <1>2, <1>8 DEF IsSuffix
------------------------------------------------------------------------------
(* The types. *)

\* The tree and the arguments stay, and so do the sets the types are made of.
LEMMA OuterKept ==
    ASSUME TypeInv, UNCHANGED outer
    PROVE  SourceTyped' /\ Header' = Header /\ Token' = Token
<1>1. source' = source /\ command' = command
  BY DEF outer
<1>2. FileStat' = FileStat /\ OtherStat' = OtherStat
  BY <1>1 DEF FileStat, OtherStat, Path
<1>3. Header' = Header
  BY <1>1, <1>2 DEF Header, FileHeader, OtherHeader
<1>4. Token' = Token
  BY <1>1, <1>3 DEF Token, Path
<1>. QED BY <1>1, <1>3, <1>4 DEF TypeInv, SourceTyped, Source

LEMMA FilesKept ==
    ASSUME TypeInv, UNCHANGED outer, UNCHANGED files
    PROVE  FilesTyped'
BY DEF TypeInv, FilesTyped, outer, files

LEMMA WriterKept ==
    ASSUME TypeInv, UNCHANGED outer, UNCHANGED writer
    PROVE  WriterTyped'
<1>1. /\ Header' = Header /\ Token' = Token /\ Todo' = Todo /\ Path' = Path
  BY OuterKept DEF Todo, Path
<1>. QED BY <1>1 DEF TypeInv, WriterTyped, outer, writer

LEMMA ReaderKept ==
    ASSUME TypeInv, UNCHANGED outer, UNCHANGED reader,
           Len(stream') \in Nat, Len(stream') >= Len(stream)
    PROVE  ReaderTyped'
<1>1. Header' = Header /\ Path' = Path
  BY OuterKept DEF Path
<1>2. Len(stream) \in Nat
  BY DEF TypeInv, WriterTyped
<1>3. pos' \in 0..Len(stream')
  BY <1>2 DEF TypeInv, ReaderTyped, reader
<1>. QED BY <1>1, <1>3 DEF TypeInv, ReaderTyped, outer, reader
\* A step of the writer that prints nothing leaves the other types alone.
LEMMA AddedTyped ==
    ASSUME TypeInv, UNCHANGED <<outer, files, reader, next, stream>>, WriterTyped'
    PROVE  TypeInv'
<1>1. SourceTyped' /\ FilesTyped' /\ stream' = stream
  BY OuterKept, FilesKept
<1>2. Len(stream) \in Nat
  BY DEF TypeInv, WriterTyped
<1>3. ReaderTyped'
  BY <1>1, <1>2, ReaderKept
<1>. QED BY <1>1, <1>3 DEF TypeInv

LEMMA AddTyped ==
    ASSUME TypeInv, Add
    PROVE  TypeInv'
<1>. DEFINE a == Head(args)
<1>1. /\ UNCHANGED <<outer, files, reader, headers, next, stream>>
      /\ args # <<>> /\ args' = Tail(args)
      /\ wpc' \in {"exit", wpc}
  BY DEF Add
<1>2. Header' = Header /\ Token' = Token /\ Todo' = Todo /\ Path' = Path
  BY <1>1, OuterKept DEF Todo, Path
<1>3. args' \in Seq(Path) /\ IsSuffix(args', command)
  <2>1. args \in Seq(Path) /\ IsSuffix(args, command)
    BY DEF TypeInv, WriterTyped
  <2>2. command \in Seq(Path)
    <3>1. command \in Seq(Seq(DOMAIN NameLen) \ {<<>>})
      BY JtarAssumption DEF TypeInv, SourceTyped
    <3>. QED BY <3>1, SeqMonotonic DEF Path
  <2>. QED BY <1>1, <2>1, <2>2, SuffixTail, HeadTailProperties
<1>4. work' \in Seq(Todo)
  <2>1. CASE a \notin Paths
    BY <2>1 DEF Add, TypeInv, WriterTyped
  <2>2. CASE a \in Paths
    <3>1. a \in Path /\ a # <<>>
      BY <2>2 DEF Paths, TypeInv, SourceTyped, Source, Path
    <3>2. Len(a) \in Nat \ {0} /\ <<a[1]>> \in Path
      BY <3>1 DEF Path
    <3>3. Len(a) # 1 => <<a[2]>> \in Path
      <4>1. ASSUME Len(a) # 1 PROVE a[2] \in DOMAIN NameLen
        <5>1. 2 \in 1..Len(a)
          <6>1. \A n \in Nat \ {0} : n # 1 => 2 \in 1..n
            OBVIOUS
          <6>. QED BY <3>2, <4>1, <6>1
        <5>. QED BY <3>1, <5>1, ElementOfSeq DEF Path
      <4>. QED BY <4>1 DEF Path
    <3>4. \A x \in Path : \A o \in {"list", "file", "fail"} : [op |-> o, at |-> x] \in Todo
      BY DEF Todo
    <3>5. PICK t, o : /\ t = TypeOf(a) /\ o \in {"file", "fail"}
                      /\ work' = CASE t = "symlink" -> <<>>
                                   [] t = "dir" -> <<[op |-> "list", at |-> a]>>
                                   [] t = "file" /\ Len(a) = 1 ->
                                          <<[op |-> "file", at |-> a]>>
                                   [] OTHER -> <<[op |-> "file", at |-> <<a[1]>>],
                                                 [op |-> o, at |-> <<a[2]>>]>>
      BY <2>2 DEF Add
    <3>6. t \in {"symlink", "dir", "file"}
      BY <2>2, <3>5 DEF Paths, TypeOf, TypeInv, SourceTyped, Source
    <3>7. CASE t = "symlink"
      BY <3>5, <3>7
    <3>8. CASE t = "dir"
      <4>1. work' = <<[op |-> "list", at |-> a]>>
        BY <3>5, <3>8
      <4>2. [op |-> "list", at |-> a] \in Todo
        BY <3>1, <3>4
      <4>. QED BY <4>1, <4>2
    <3>9. CASE t = "file" /\ Len(a) = 1
      <4>1. work' = <<[op |-> "file", at |-> a]>>
        BY <3>5, <3>9
      <4>2. [op |-> "file", at |-> a] \in Todo
        BY <3>1, <3>4
      <4>. QED BY <4>1, <4>2
    <3>10. CASE t = "file" /\ Len(a) # 1
      <4>1. work' = <<[op |-> "file", at |-> <<a[1]>>], [op |-> o, at |-> <<a[2]>>]>>
        BY <3>5, <3>10
      <4>2. /\ [op |-> "file", at |-> <<a[1]>>] \in Todo
            /\ [op |-> o, at |-> <<a[2]>>] \in Todo
        BY <3>2, <3>3, <3>4, <3>5, <3>10
      <4>. QED BY <4>1, <4>2
    <3>. QED BY <3>6, <3>7, <3>8, <3>9, <3>10
  <2>. QED BY <2>1, <2>2
<1>5. WriterTyped'
  BY <1>1, <1>2, <1>3, <1>4 DEF TypeInv, WriterTyped, outer
<1>. QED BY <1>1, <1>5, AddedTyped

\* What add_file and add_dir leave to be done.
LEMMA RestTyped ==
    ASSUME TypeInv, work # <<>>
    PROVE  /\ Head(work) \in Todo /\ Head(work).at \in Path
           /\ Tail(work) \in Seq(Todo)
<1>1. work \in Seq(Todo)
  BY DEF TypeInv, WriterTyped
<1>2. Head(work) \in Todo /\ Tail(work) \in Seq(Todo)
  BY <1>1, HeadTailProperties
<1>. QED BY <1>2 DEF Todo

\* A step of add_file or add_dir that adds a header, or fails, or does neither.
LEMMA WorkTyped ==
    ASSUME TypeInv, UNCHANGED <<outer, files, reader, args, next, stream>>,
           wpc' \in {"add", "exit", "overrun"}, work' \in Seq(Todo),
           headers' \in Seq(Header), Len(headers') >= Len(headers)
    PROVE  TypeInv'
<1>1. Header' = Header /\ Token' = Token /\ Todo' = Todo /\ Path' = Path
  BY OuterKept DEF Todo, Path
<1>2. Len(headers) \in Nat /\ Len(headers') \in Nat
  BY DEF TypeInv, WriterTyped
<1>3. next' \in 1..Len(headers') + 1
  BY <1>2 DEF TypeInv, WriterTyped
<1>4. WriterTyped'
  BY <1>1, <1>3 DEF TypeInv, WriterTyped, outer
<1>. QED BY <1>4, AddedTyped

LEMMA AddFileTyped ==
    ASSUME TypeInv, AddFile
    PROVE  TypeInv'
<1>1. /\ UNCHANGED <<outer, files, reader, args, next, stream>>
      /\ work # <<>>
  BY DEF AddFile
<1>2. headers \in Seq(Header) /\ Len(headers) >= Len(headers) /\ work \in Seq(Todo)
  BY DEF TypeInv, WriterTyped
<1>3. CASE AddHeader(Head(work).at, Tail(work)) /\ Head(work).at \in Paths
  BY <1>1, <1>3, AddHeaderTyped, RestTyped, WorkTyped
<1>4. CASE wpc' = "exit" /\ UNCHANGED <<work, headers>>
  BY <1>1, <1>2, <1>4, WorkTyped
<1>. QED BY <1>3, <1>4 DEF AddFile

LEMMA AddDirTyped ==
    ASSUME TypeInv, AddDir
    PROVE  TypeInv'
<1>1. /\ UNCHANGED <<outer, files, reader, wpc, args, headers, next, stream>>
      /\ work # <<>> /\ wpc = "add"
  BY DEF AddDir
<1>. DEFINE E == Entries(Head(work).at)
<1>2. E \subseteq Path /\ IsFiniteSet(E)
  <2>1. E \subseteq DOMAIN source.node
    BY DEF Entries, Paths
  <2>. QED BY <2>1, FS_Subset DEF TypeInv, SourceTyped, Source, Path
<1>3. PICK order \in SetToSeqs(E) :
          work' = [k \in DOMAIN order |-> [op |-> "visit", at |-> order[k]]] \o Tail(work)
  BY DEF AddDir
<1>4. PICK n \in Nat : order \in [1..n -> E]
  BY <1>2, FS_CardinalityType DEF SetToSeqs
<1>5. [k \in DOMAIN order |-> [op |-> "visit", at |-> order[k]]] \in Seq(Todo)
  <2>1. \A k \in 1..n : [op |-> "visit", at |-> order[k]] \in Todo
    BY <1>2, <1>4 DEF Todo
  <2>2. DOMAIN order = 1..n
    BY <1>4
  <2>. QED BY <2>1, <2>2, <1>4, IsASeq
<1>6. work' \in Seq(Todo)
  BY <1>1, <1>3, <1>5, RestTyped, ConcatProperties
<1>7. headers' \in Seq(Header) /\ Len(headers') >= Len(headers)
  BY <1>1 DEF TypeInv, WriterTyped
<1>. QED BY <1>1, <1>6, <1>7, WorkTyped

LEMMA VisitEntryTyped ==
    ASSUME TypeInv, VisitEntry
    PROVE  TypeInv'
<1>. DEFINE p == Head(work).at
<1>1. /\ UNCHANGED <<outer, files, reader, args, next, stream>>
      /\ work # <<>> /\ wpc = "add"
  BY DEF VisitEntry
<1>2. headers \in Seq(Header) /\ Len(headers) >= Len(headers) /\ work \in Seq(Todo)
  BY DEF TypeInv, WriterTyped
<1>3. p \in Path /\ Tail(work) \in Seq(Todo)
  BY <1>1, RestTyped
<1>4. CASE p \notin Paths
  BY <1>1, <1>2, <1>4, WorkTyped DEF VisitEntry
<1>5. CASE p \in Paths
  <2>1. TypeOf(p) \in {"symlink", "file", "dir"}
    BY <1>5 DEF Paths, TypeOf, TypeInv, SourceTyped, Source
  <2>2. CASE TypeOf(p) = "symlink"
    <3>1. work' = Tail(work) /\ UNCHANGED <<wpc, headers>>
      BY <1>5, <2>2 DEF VisitEntry
    <3>. QED BY <1>1, <1>2, <1>3, <3>1, WorkTyped
  <2>3. CASE TypeOf(p) = "file"
    <3>1. AddHeader(p, Tail(work))
      BY <1>5, <2>3 DEF VisitEntry
    <3>. QED BY <1>1, <1>3, <1>5, <3>1, AddHeaderTyped, WorkTyped
  <2>4. CASE TypeOf(p) = "dir"
    <3>1. AddHeader(p, <<[op |-> "list", at |-> p]>> \o Tail(work))
      BY <1>5, <2>4 DEF VisitEntry
    <3>2. [op |-> "list", at |-> p] \in Todo
      BY <1>3 DEF Todo
    <3>3. <<[op |-> "list", at |-> p]>> \in Seq(Todo)
      BY <3>2
    <3>4. <<[op |-> "list", at |-> p]>> \o Tail(work) \in Seq(Todo)
      BY <1>3, <3>3, ConcatProperties
    <3>. QED BY <1>1, <1>5, <3>1, <3>4, AddHeaderTyped, WorkTyped
  <2>. QED BY <2>1, <2>2, <2>3, <2>4
<1>. QED BY <1>4, <1>5
------------------------------------------------------------------------------
(* What is printed. *)

\* What a header of a file, or of anything else, holds.
LEMMA HeaderFields ==
    ASSUME NEW h \in Header
    PROVE  /\ h.ftype \in {"file", "dir", "symlink"}
           /\ h.tar_name \in DOMAIN source.node
           /\ h.hard_links \in Seq(DOMAIN source.node)
           /\ h.file_stats.nlink \in Nat \ {0} /\ h.file_stats.size \in Nat
           /\ h.ftype = "file" => h.file_stats \in FileStat
           /\ h.ftype # "file" => h.file_stats \in OtherStat
<1>1. CASE h \in FileHeader
  BY <1>1 DEF FileHeader, FileStat
<1>2. CASE h \in OtherHeader
  BY <1>2 DEF OtherHeader, OtherStat
<1>. QED BY <1>1, <1>2 DEF Header

\* A function on 1..n is a sequence of that length.
LEMMA CountedIsSeq ==
    ASSUME NEW S, NEW n \in Nat, NEW t, t = [k \in 1..n |-> t[k]],
           \A k \in 1..n : t[k] \in S
    PROVE  t \in Seq(S) /\ Len(t) = n
<1>1. t \in [1..n -> S]
  OBVIOUS
<1>. QED BY <1>1

\* print_tar writes a header, and as many names as the header counts.
LEMMA OpeningOf ==
    ASSUME TypeInv, NEW h \in Header
    PROVE  /\ Opening(h) \in Seq(Token)
           /\ Opening(h)[1] = [kind |-> "head", val |-> h]
           /\ h.ftype # "file" => Len(Opening(h)) = 1
           /\ h.ftype = "file" => Len(Opening(h)) = h.file_stats.nlink
           /\ \A j \in 2..Len(Opening(h)) : Opening(h)[j].kind = "link"
           /\ h.ftype = "file" => \A j \in 1..h.file_stats.nlink - 1 :
                                    Opening(h)[j + 1].val = LinkNames(h)[j]
<1>. DEFINE head == Tokens("head", <<h>>)
<1>1. /\ head \in Seq(Token) /\ Len(head) = 1
      /\ head[1] = [kind |-> "head", val |-> h]
  <2>1. [kind |-> "head", val |-> h] \in Token
    BY DEF Token
  <2>2. <<h>> = [k \in 1..1 |-> h]
    OBVIOUS
  <2>3. head = [k \in 1..1 |-> [kind |-> "head", val |-> h]]
    BY <2>2 DEF Tokens
  <2>4. 1 \in Nat /\ head = [k \in 1..1 |-> head[k]] /\ \A k \in 1..1 : head[k] \in Token
    BY <2>1, <2>3
  <2>5. head[1] = [kind |-> "head", val |-> h]
    BY <2>3
  <2>. HIDE DEF head
  <2>. QED BY <2>4, <2>5, CountedIsSeq
<1>2. PICK m \in Nat : m = h.file_stats.nlink - 1 /\ m + 1 = h.file_stats.nlink
  BY HeaderFields
<1>3. \A k \in 1..m : LinkNames(h)[k] \in Path
  <2>1. DOMAIN source.node \subseteq Path
    BY DEF TypeInv, SourceTyped, Source, Path
  <2>2. \A k \in DOMAIN h.hard_links : h.hard_links[k] \in Path
    BY <2>1, HeaderFields
  <2>3. <<>> \in Path
    BY DEF Path
  <2>. QED BY <1>2, <2>2, <2>3 DEF LinkNames
<1>4. \A k \in 1..m : [kind |-> "link", val |-> LinkNames(h)[k]] \in Token
  BY <1>3 DEF Token
<1>5. DOMAIN LinkNames(h) = 1..m
  BY <1>2 DEF LinkNames
<1>6. PICK t : t = Tokens("link", LinkNames(h))
  OBVIOUS
<1>7. /\ t \in Seq(Token) /\ Len(t) = m
      /\ \A k \in 1..m : t[k].kind = "link" /\ t[k].val = LinkNames(h)[k]
  <2>1. t = [k \in 1..m |-> [kind |-> "link", val |-> LinkNames(h)[k]]]
    BY <1>5, <1>6 DEF Tokens
  <2>2. t = [k \in 1..m |-> t[k]] /\ \A k \in 1..m : t[k] \in Token
    BY <1>4, <2>1
  <2>3. \A k \in 1..m : t[k].kind = "link" /\ t[k].val = LinkNames(h)[k]
    BY <2>1
  <2>. QED BY <2>2, <2>3, CountedIsSeq
<1>8. PICK g \in Seq(Token) : g = head
  BY <1>1
<1>9. CASE h.ftype = "file"
  <2>1. Opening(h) = g \o t
    BY <1>6, <1>8, <1>9 DEF Opening
  <2>2. /\ g \o t \in Seq(Token) /\ Len(g \o t) = 1 + m
        /\ \A i \in 1..1 + m : (g \o t)[i] = IF i <= 1 THEN g[i] ELSE t[i - 1]
    <3>1. Len(g) = 1 /\ Len(t) = m /\ t \in Seq(Token)
      BY <1>1, <1>7, <1>8
    <3>2. /\ g \o t \in Seq(Token) /\ Len(g \o t) = Len(g) + Len(t)
          /\ \A i \in 1..Len(g) + Len(t) :
                (g \o t)[i] = IF i <= Len(g) THEN g[i] ELSE t[i - Len(g)]
      BY <3>1, ConcatProperties
    <3>. QED BY <3>1, <3>2
  <2>3. Opening(h)[1] = [kind |-> "head", val |-> h]
    BY <1>1, <1>8, <2>1, <2>2
  <2>4. \A j \in 2..1 + m : (g \o t)[j].kind = "link"
    BY <1>7, <2>2
  <2>5. ASSUME NEW j \in 1..m PROVE Opening(h)[j + 1].val = LinkNames(h)[j]
    <3>1. j + 1 \in 1..1 + m /\ ~(j + 1 <= 1) /\ (j + 1) - 1 = j
      BY <1>2
    <3>2. (g \o t)[j + 1] = t[j]
      BY <2>2, <3>1
    <3>. QED BY <1>7, <2>1, <3>2
  <2>6. \A j \in 1..h.file_stats.nlink - 1 : Opening(h)[j + 1].val = LinkNames(h)[j]
    BY <1>2, <2>5
  <2>. QED BY <1>2, <1>9, <2>1, <2>2, <2>3, <2>4, <2>6, SMTT(60)
<1>10. CASE h.ftype # "file"
  <2>1. Opening(h) = g \o <<>>
    BY <1>8, <1>10 DEF Opening
  <2>2. Opening(h) = g
    BY <2>1, ConcatEmptySeq
  <2>. QED BY <1>1, <1>8, <1>10, <2>2
<1>. QED BY <1>9, <1>10

\* And as many bytes as lstat counted, whatever the length is by now.
LEMMA DataOf ==
    ASSUME TypeInv, NEW i \in DOMAIN source.inode, NEW n \in Nat
    PROVE  /\ Tokens("byte", Data(i, n)) \in Seq(Token)
           /\ Len(Tokens("byte", Data(i, n))) = n
           /\ \A k \in 1..n : /\ Tokens("byte", Data(i, n))[k].kind = "byte"
                              /\ Tokens("byte", Data(i, n))[k].val = Data(i, n)[k]
<1>1. DOMAIN Data(i, n) = 1..n
  BY DEF Data
<1>2. version[i] \in {0, 1}
  BY DEF TypeInv, FilesTyped
<1>3. ASSUME NEW k \in 1..n
      PROVE  Data(i, n)[k] \in (DOMAIN source.inode \cup {"?"}) \X {0, 1}
  BY <1>2 DEF Data
<1>4. \A k \in 1..n : [kind |-> "byte", val |-> Data(i, n)[k]] \in Token
  BY <1>3 DEF Token
<1>5. PICK t : t = Tokens("byte", Data(i, n))
  OBVIOUS
<1>6. t = [k \in 1..n |-> [kind |-> "byte", val |-> Data(i, n)[k]]]
  BY <1>1, <1>5 DEF Tokens
<1>7. t = [k \in 1..n |-> t[k]] /\ \A k \in 1..n : t[k] \in Token
  BY <1>4, <1>6
<1>8. \A k \in 1..n : t[k].kind = "byte" /\ t[k].val = Data(i, n)[k]
  BY <1>6
<1>. QED BY <1>5, <1>7, <1>8, CountedIsSeq

\* A step of print_tar writes at the end of the stream.
LEMMA PrintTyped ==
    ASSUME TypeInv, UNCHANGED <<outer, files, reader, args, work, headers>>,
           wpc' \in {"header", "data", "done", "exit"},
           next' \in 1..Len(headers) + 1,
           NEW more \in Seq(Token), stream' = stream \o more
    PROVE  TypeInv' /\ Len(stream') = Len(stream) + Len(more)
<1>1. Header' = Header /\ Token' = Token /\ Todo' = Todo /\ Path' = Path
  BY OuterKept DEF Todo, Path
<1>2. stream' \in Seq(Token) /\ Len(stream') = Len(stream) + Len(more)
  BY ConcatProperties DEF TypeInv, WriterTyped
<1>3. Len(stream) \in Nat /\ Len(more) \in Nat
  BY DEF TypeInv, WriterTyped
<1>4. WriterTyped'
  BY <1>1, <1>2 DEF TypeInv, WriterTyped, outer
<1>5. SourceTyped' /\ FilesTyped'
  BY OuterKept, FilesKept
<1>6. ReaderTyped'
  BY <1>2, <1>3, ReaderKept
<1>. QED BY <1>2, <1>4, <1>5, <1>6 DEF TypeInv
LEMMA PrintHeaderTyped ==
    ASSUME TypeInv, PrintHeader
    PROVE  /\ TypeInv' /\ headers[next] \in Header
           /\ stream' = stream \o Opening(headers[next])
           /\ Len(stream') = Len(stream) + Len(Opening(headers[next]))
<1>1. /\ UNCHANGED <<outer, files, reader, args, work, headers>>
      /\ wpc = "header" /\ next <= Len(headers)
      /\ wpc' \in {"header", "data"} /\ next' \in {next, next + 1}
      /\ stream' = stream \o Opening(headers[next])
  BY DEF PrintHeader
<1>2. /\ headers \in Seq(Header) /\ Len(headers) \in Nat
      /\ next \in 1..Len(headers) + 1
  BY DEF TypeInv, WriterTyped
<1>3. next \in 1..Len(headers) /\ next' \in 1..Len(headers) + 1
  BY <1>1, <1>2
<1>4. headers[next] \in Header
  BY <1>2, <1>3, ElementOfSeq
<1>5. Opening(headers[next]) \in Seq(Token)
  BY <1>4, OpeningOf
<1>. QED BY <1>1, <1>3, <1>4, <1>5, PrintTyped

\* What PrintData does: the file is gone, or it writes so many bytes.
LEMMA PrintDataTyped ==
    ASSUME TypeInv, FrameInv, PrintData
    PROVE  /\ TypeInv' /\ headers[next] \in Header
           /\ headers[next].ftype = "file" /\ next \in DOMAIN headers
           /\ \/ wpc' = "exit" /\ stream' = stream /\ next' = next
              \/ /\ wpc' = "header" /\ next' = next + 1
                 /\ \E more \in Seq(Token) :
                       /\ stream' = stream \o more
                       /\ Len(more) = headers[next].file_stats.size
                       /\ Len(stream') = Len(stream) + Len(more)
                       /\ \A k \in 1..Len(more) : more[k].kind = "byte"
<1>. DEFINE h == headers[next]
            st == h.file_stats
            bytes == Tokens("byte", Data(st.ino[1], st.size))
<1>1. /\ UNCHANGED <<outer, files, reader, args, work, headers>>
      /\ wpc = "data"
  BY DEF PrintData
<1>2. /\ headers \in Seq(Header) /\ Len(headers) \in Nat
      /\ next \in DOMAIN headers /\ h.ftype = "file"
  BY <1>1 DEF TypeInv, WriterTyped, FrameInv, Framed
<1>3. h \in Header /\ next \in 1..Len(headers)
  BY <1>2
<1>4. st \in FileStat
  BY <1>2, <1>3, HeaderFields
<1>5. st.ino[1] \in DOMAIN source.inode /\ st.size \in Nat
  BY <1>4 DEF FileStat
<1>6. CASE h.tar_name \in Paths
  <2>1. /\ stream' = stream \o bytes
        /\ next' = next + 1 /\ wpc' = "header"
    BY <1>6 DEF PrintData
  <2>2. /\ bytes \in Seq(Token) /\ Len(bytes) = st.size
        /\ \A k \in 1..st.size : bytes[k].kind = "byte"
    BY <1>5, DataOf
  <2>3. PICK more \in Seq(Token) : more = bytes
    BY <2>2
  <2>4. /\ stream' = stream \o more /\ Len(more) = st.size
        /\ \A k \in 1..Len(more) : more[k].kind = "byte"
    BY <2>1, <2>2, <2>3
  <2>5. next' \in 1..Len(headers) + 1
    BY <1>2, <1>3, <2>1, SMTT(30)
  <2>6. TypeInv' /\ Len(stream') = Len(stream) + Len(more)
    BY <1>1, <2>1, <2>4, <2>5, PrintTyped
  <2>. QED BY <1>2, <1>3, <2>1, <2>4, <2>6
<1>7. CASE h.tar_name \notin Paths
  <2>1. wpc' = "exit" /\ UNCHANGED <<stream, next>>
    BY <1>7 DEF PrintData
  <2>2. next' \in 1..Len(headers) + 1
    BY <1>2, <1>3, <2>1
  <2>3. <<>> \in Seq(Token) /\ stream' = stream \o <<>>
    BY <2>1, ConcatEmptySeq DEF TypeInv, WriterTyped
  <2>4. TypeInv'
    BY <1>1, <2>1, <2>2, <2>3, PrintTyped
  <2>. QED BY <1>2, <1>3, <2>1, <2>4
<1>. QED BY <1>6, <1>7

\* The other steps of the writer: to start and to stop printing.
LEMMA PhaseTyped ==
    ASSUME TypeInv, StartPrinting \/ StopPrinting
    PROVE  TypeInv'
<1>1. /\ UNCHANGED <<outer, files, reader, args, work, headers, next, stream>>
      /\ wpc' \in {"header", "done"}
  BY DEF StartPrinting, StopPrinting
<1>2. Header' = Header /\ Token' = Token /\ Todo' = Todo /\ Path' = Path
  BY <1>1, OuterKept DEF Todo, Path
<1>3. WriterTyped'
  BY <1>1, <1>2 DEF TypeInv, WriterTyped, outer
<1>. QED BY <1>1, <1>3, AddedTyped

LEMMA EditorTyped ==
    ASSUME TypeInv, Editor
    PROVE  TypeInv'
<1>1. UNCHANGED <<outer, writer, reader>>
  BY DEF Editor, Rewrite, Unlink
<1>2. stream' = stream /\ Len(stream) \in Nat
  BY <1>1 DEF writer, TypeInv, WriterTyped
<1>3. SourceTyped' /\ WriterTyped' /\ ReaderTyped'
  BY <1>1, <1>2, OuterKept, WriterKept, ReaderKept
<1>4. source' = source
  BY <1>1 DEF outer
<1>5. ASSUME NEW i \in DOMAIN version, Rewrite(i) PROVE FilesTyped'
  <2>1. PICK n \in Sizes : size' = [size EXCEPT ![i] = n]
    BY <1>5 DEF Rewrite
  <2>2. version' = [version EXCEPT ![i] = 1] /\ gone' = gone
    BY <1>5 DEF Rewrite
  <2>. QED BY <1>4, <2>1, <2>2 DEF TypeInv, FilesTyped
<1>6. ASSUME NEW p \in Paths, Unlink(p) PROVE FilesTyped'
  BY <1>4, <1>6 DEF Unlink, Paths, TypeInv, FilesTyped
<1>. QED BY <1>3, <1>5, <1>6 DEF Editor, TypeInv
------------------------------------------------------------------------------
(* The reader. *)

DirType == [mode : {"rwx", "r-x"}, time : {"now", "stored"}]

LEMMA TokenFields ==
    ASSUME NEW t \in Token
    PROVE  /\ t.kind \in {"head", "link", "byte"}
           /\ t.kind = "head" => t.val \in Header
           /\ t.kind = "link" => t.val \in Path
<1>1. CASE t \in [kind : {"head"}, val : Header]
  BY <1>1
<1>2. CASE t \in [kind : {"link"}, val : Path]
  BY <1>2
<1>3. CASE t \in [kind : {"byte"}, val : (DOMAIN source.inode \cup {"?"}) \X {0, 1}]
  BY <1>3
<1>. QED BY <1>1, <1>2, <1>3 DEF Token

LEMMA ReadTyped ==
    ASSUME TypeInv, UNCHANGED <<outer, files, writer>>, ReaderTyped'
    PROVE  TypeInv'
BY OuterKept, FilesKept, WriterKept DEF TypeInv

\* An entry that is set, and every other one as before.
LEMMA SetAtValues ==
    ASSUME NEW f, NEW x, NEW y, NEW D, y \in D, \A z \in DOMAIN f : f[z] \in D
    PROVE  \A z \in DOMAIN SetAt(f, x, y) : SetAt(f, x, y)[z] \in D
BY DEF SetAt

\* The directories of the target after mkdir and the creation of an entry.
LEMMA GrownTyped ==
    ASSUME ReaderTyped, NEW p
    PROVE  /\ DOMAIN target.dir \subseteq DOMAIN Grown(target, p)
           /\ \A d \in DOMAIN Grown(target, p) : Grown(target, p)[d] \in DirType
<1>. DEFINE new == Ancestors(p) \ DOMAIN target.dir
            changed == {Front(q) : q \in new \cup {p}}
<1>1. Grown(target, p) =
        [d \in DOMAIN target.dir \cup new |->
            IF d \in new THEN Made(d)
            ELSE [target.dir[d] EXCEPT !.time = IF d \in changed THEN "now" ELSE @]]
  BY DEF Grown
<1>2. ASSUME NEW d \in DOMAIN target.dir
      PROVE  [target.dir[d] EXCEPT !.time = IF d \in changed THEN "now" ELSE @] \in DirType
  <2>1. PICK r \in DirType : r = target.dir[d]
    BY DEF ReaderTyped, DirType
  <2>2. /\ [r EXCEPT !.time = "now"] \in DirType
        /\ [r EXCEPT !.time = r.time] \in DirType
    BY DEF DirType
  <2>. HIDE DEF changed
  <2>. QED BY <2>1, <2>2
<1>3. \A d \in new : Made(d) \in DirType
  BY DEF Made, DirType
<1>. HIDE DEF new, changed
<1>4. \A d \in DOMAIN target.dir \cup new : Grown(target, p)[d] \in DirType
  BY <1>1, <1>2, <1>3
<1>. QED BY <1>1, <1>4

\* Where a header is expected it is there, and so are the names it counts.
LEMMA RecordThere ==
    ASSUME TypeInv, FrameInv, rpc = "read", Left > 0
    PROVE  /\ Record.kind = "head" /\ Record.val \in Header
           /\ pos + 1 \in 1..Len(stream)
<1>1. /\ stream \in Seq(Token) /\ Len(stream) \in Nat
      /\ pos \in 0..Len(stream)
  BY DEF TypeInv, WriterTyped, ReaderTyped
<1>2. pos < Len(stream) /\ pos + 1 \in 1..Len(stream)
  BY <1>1 DEF Left
<1>3. Record.kind = "head"
  BY <1>2 DEF FrameInv, ReaderInFrame, Boundary, Record
<1>4. Record \in Token
  BY <1>1, <1>2, ElementOfSeq DEF Record
<1>. QED BY <1>2, <1>3, <1>4, TokenFields

LEMMA LinksTyped ==
    ASSUME TypeInv, FrameInv, rpc = "read", Left > 0, Record.val.ftype = "file"
    PROVE  [k \in DOMAIN Links(Record.val) |-> Links(Record.val)[k].val] \in Seq(Path)
<1>1. PICK h \in Header : h = Record.val
  BY RecordThere
<1>2. PICK n \in Nat \ {0} : n = h.file_stats.nlink
  BY HeaderFields
<1>3. /\ pos + n <= Len(stream)
      /\ \A j \in 1..n - 1 : stream[(pos + 1) + j].kind = "link"
  <2>1. PICK k \in 1..Len(stream) : k = pos + 1
    BY RecordThere
  <2>2. stream[k].kind = "head" /\ stream[k].val = h /\ h.ftype = "file"
    BY <1>1, <2>1, RecordThere DEF Record
  <2>3. /\ k - 1 + n <= Len(stream)
        /\ \A j \in 1..n - 1 : stream[k + j].kind = "link"
    BY <1>2, <2>2 DEF FrameInv, Framed
  <2>4. pos \in Nat /\ (k - 1) + n = pos + n
    BY <2>1 DEF TypeInv, ReaderTyped
  <2>. QED BY <2>1, <2>3, <2>4
<1>4. pos \in Nat /\ Len(stream) \in Nat /\ stream \in Seq(Token)
  BY DEF TypeInv, WriterTyped, ReaderTyped
<1>5. ASSUME NEW i \in pos + 2..pos + n
      PROVE  stream[i] \in [kind : {"link"}, val : Path]
  <2>1. i \in 1..Len(stream) /\ i - (pos + 1) \in 1..n - 1
        /\ (pos + 1) + (i - (pos + 1)) = i
    BY <1>2, <1>3, <1>4
  <2>2. stream[i].kind = "link"
    BY <1>3, <2>1
  <2>3. stream[i] \in Token
    BY <1>4, <2>1, ElementOfSeq
  <2>. QED BY <2>2, <2>3 DEF Token
<1>6. PICK s \in Seq([kind : {"link"}, val : Path]) : s = Links(h)
  <2>1. SubSeq(stream, pos + 2, pos + n) \in Seq([kind : {"link"}, val : Path])
    <3>1. pos + 2 \in Int /\ pos + n \in Int
      BY <1>4
    <3>. QED BY <1>5, <3>1, SubSeqProperties
  <2>. QED BY <1>2, <2>1 DEF Links
<1>7. ASSUME NEW k \in 1..Len(s) PROVE s[k].val \in Path
  <2>1. s[k] \in [kind : {"link"}, val : Path]
    BY ElementOfSeq
  <2>. QED BY <2>1
<1>8. DOMAIN s = 1..Len(s) /\ Len(s) \in Nat
  BY <1>6
<1>9. [k \in DOMAIN s |-> s[k].val] \in Seq(Path)
  BY <1>7, <1>8, IsASeq
<1>. QED BY <1>1, <1>6, <1>9
\* What recreate_file does to the target: a file, new or emptied, and its data.
LEMMA RecreateFileTyped ==
    ASSUME TypeInv, FrameInv, rpc = "read", Left > 0, Record.val.ftype = "file",
           RecreateFile(Record.val), UNCHANGED <<outer, files, writer, rounds>>
    PROVE  TypeInv'
<1>. DEFINE h == Record.val
            p == h.tar_name
            old == p \in DOMAIN target.file
            id == IF old THEN target.file[p] ELSE Cardinality(DOMAIN target.data) + 1
            new == [bytes |-> [k \in DOMAIN Bytes(h) |-> Bytes(h)[k].val],
                    mode |-> h.file_stats.mode]
            dir == IF old THEN target.dir ELSE Grown(target, p)
            names == [k \in DOMAIN Links(h) |-> Links(h)[k].val]
<1>1. Header' = Header /\ Path' = Path /\ stream' = stream /\ rounds' = rounds
  BY OuterKept DEF writer, Path
<1>2. CASE rpc' = "exit" /\ UNCHANGED <<pos, links, dirs, target>>
  <2>1. ReaderTyped'
    BY <1>1, <1>2 DEF TypeInv, ReaderTyped, outer
  <2>. QED BY <2>1, ReadTyped
<1>3. CASE /\ CanRead(h)
           /\ target' = [dir |-> dir, file |-> SetAt(target.file, p, id),
                         data |-> SetAt(target.data, id, new)]
           /\ links' = [of |-> id, names |-> names]
           /\ pos' = pos + RecordLen(h)
           /\ rpc' = "link" /\ UNCHANGED dirs
  <2>1. names \in Seq(Path)
    BY LinksTyped
  <2>2. /\ DOMAIN target.dir \subseteq DOMAIN dir
        /\ \A d \in DOMAIN dir : dir[d] \in DirType
    <3>1. ReaderTyped /\ \A d \in DOMAIN target.dir : target.dir[d] \in DirType
      BY DEF TypeInv, ReaderTyped, DirType
    <3>. QED BY <3>1, GrownTyped
  <2>3. pos' \in 0..Len(stream)
    <3>1. h.file_stats.nlink \in Nat /\ h.file_stats.size \in Nat
      BY RecordThere, HeaderFields
    <3>2. pos \in Nat /\ Len(stream) \in Nat
      BY DEF TypeInv, ReaderTyped, WriterTyped
    <3>3. Len(stream) - pos >= RecordLen(h)
      BY <1>3 DEF CanRead, Left
    <3>. QED BY <1>3, <3>1, <3>2, <3>3, SMTT(30) DEF RecordLen
  <2>. HIDE DEF h, p, old, id, new, dir, names
  <2>4. PICK D : D = DOMAIN SetAt(target.data, id, new)
    OBVIOUS
  <2>5. \A q \in DOMAIN SetAt(target.file, p, id) : SetAt(target.file, p, id)[q] \in D
    <3>1. id \in D /\ DOMAIN target.data \subseteq D
      BY <2>4 DEF SetAt
    <3>2. \A q \in DOMAIN target.file : target.file[q] \in D
      BY <3>1 DEF TypeInv, ReaderTyped
    <3>. QED BY <3>1, <3>2, SetAtValues
  <2>6. /\ target'.dir = dir /\ target'.file = SetAt(target.file, p, id)
        /\ target'.data = SetAt(target.data, id, new)
        /\ target' = [dir |-> target'.dir, file |-> target'.file, data |-> target'.data]
        /\ links'.of = id /\ links'.names = names
        /\ links' = [of |-> links'.of, names |-> links'.names]
    BY <1>3
  <2>7. dirs' = dirs /\ rpc' = "link"
    BY <1>3
  <2>8. /\ dirs' \in Seq({r \in Header : r.ftype = "dir"}) /\ Len(dirs') <= MaxDirs
        /\ rounds' \in {1, 2}
    BY <1>1, <2>7 DEF TypeInv, ReaderTyped
  <2>9. id \in DOMAIN target'.data
    BY <2>6 DEF SetAt
  <2>10. ReaderTyped'
    BY <1>1, <2>1, <2>2, <2>3, <2>4, <2>5, <2>6, <2>7, <2>8, <2>9 DEF ReaderTyped, DirType
  <2>. QED BY <2>10, ReadTyped
<1>. QED BY <1>2, <1>3 DEF RecreateFile

LEMMA ReadDirTyped ==
    ASSUME TypeInv, FrameInv, rpc = "read", Left > 0, Record.val.ftype # "file",
           ReadDirHeader(Record.val), UNCHANGED <<outer, files, writer, rounds>>
    PROVE  TypeInv'
<1>1. Header' = Header /\ Path' = Path /\ stream' = stream /\ rounds' = rounds
  BY OuterKept DEF writer, Path
<1>2. PICK h \in Header : h = Record.val
  BY RecordThere
<1>3. pos' \in 0..Len(stream)
  <2>1. pos' = pos + 1 /\ pos + 1 \in 1..Len(stream)
    BY RecordThere DEF ReadDirHeader
  <2>. QED BY <2>1 DEF TypeInv, WriterTyped
<1>4. UNCHANGED <<links, target>> /\ rpc' \in {"read", "overrun"}
  BY DEF ReadDirHeader
<1>5. dirs' \in Seq({r \in Header : r.ftype = "dir"}) /\ Len(dirs') <= MaxDirs
  <2>1. dirs \in Seq({r \in Header : r.ftype = "dir"}) /\ Len(dirs) <= MaxDirs
        /\ Len(dirs) \in Nat /\ MaxDirs \in Nat
    BY JtarAssumption DEF TypeInv, ReaderTyped
  <2>2. CASE dirs' = dirs
    BY <2>1, <2>2
  <2>3. CASE dirs' = Append(dirs, h) /\ h.ftype = "dir" /\ ~DirsFull
    <3>1. h \in {r \in Header : r.ftype = "dir"}
      BY <2>3
    <3>2. dirs' \in Seq({r \in Header : r.ftype = "dir"}) /\ Len(dirs') = Len(dirs) + 1
      BY <2>1, <2>3, <3>1, AppendProperties
    <3>3. Len(dirs) # MaxDirs
      BY <2>3 DEF DirsFull
    <3>. QED BY <2>1, <3>2, <3>3
  <2>. QED BY <1>2, <2>2, <2>3 DEF ReadDirHeader
<1>6. ReaderTyped'
  BY <1>1, <1>3, <1>4, <1>5 DEF TypeInv, ReaderTyped, outer
<1>. QED BY <1>6, ReadTyped

LEMMA ReadRecordTyped ==
    ASSUME TypeInv, FrameInv, ReadRecord
    PROVE  TypeInv'
<1>1. /\ rpc = "read" /\ Left > 0 /\ UNCHANGED <<outer, files, writer, rounds>>
  BY DEF ReadRecord
<1>2. ~ChecksumFails(Record)
  BY <1>1, RecordThere DEF ChecksumFails
<1>3. CASE Record.val.ftype = "file"
  <2>1. RecreateFile(Record.val)
    BY <1>2, <1>3 DEF ReadRecord
  <2>. QED BY <1>1, <1>3, <2>1, RecreateFileTyped
<1>4. CASE Record.val.ftype # "file"
  <2>1. ReadDirHeader(Record.val)
    BY <1>2, <1>4 DEF ReadRecord
  <2>. QED BY <1>1, <1>4, <2>1, ReadDirTyped
<1>. QED BY <1>3, <1>4
LEMMA RecreateLinkTyped ==
    ASSUME TypeInv, RecreateLink
    PROVE  TypeInv'
<1>. DEFINE l == Head(links.names)
<1>1. /\ UNCHANGED <<outer, files, writer, pos, dirs, rounds>>
      /\ rpc = "link" /\ links.names # <<>>
  BY DEF RecreateLink
<1>2. Header' = Header /\ Path' = Path /\ stream' = stream
  BY <1>1, OuterKept DEF writer, Path
<1>3. CASE rpc' = "exit" /\ UNCHANGED <<links, target>>
  <2>1. ReaderTyped'
    BY <1>1, <1>2, <1>3 DEF TypeInv, ReaderTyped, outer
  <2>. QED BY <1>1, <2>1, ReadTyped
<1>4. CASE /\ target' = [target EXCEPT !.dir = Grown(target, l),
                                       !.file = SetAt(@, l, links.of)]
           /\ links' = [links EXCEPT !.names = Tail(@)]
           /\ rpc' = rpc
  <2>1. /\ target = [dir |-> target.dir, file |-> target.file, data |-> target.data]
        /\ links = [of |-> links.of, names |-> links.names]
    BY DEF TypeInv, ReaderTyped
  <2>2. PICK g, f : g = Grown(target, l) /\ f = SetAt(target.file, l, links.of)
    OBVIOUS
  <2>3. target' = [dir |-> g, file |-> f, data |-> target.data]
    BY <1>4, <2>1, <2>2
  <2>4. links' = [of |-> links.of, names |-> Tail(links.names)]
    BY <1>4, <2>1
  <2>5. Tail(links.names) \in Seq(Path)
    BY <1>1, HeadTailProperties DEF TypeInv, ReaderTyped
  <2>6. \A d \in DOMAIN g : g[d] \in DirType
    BY <2>2, GrownTyped DEF TypeInv
  <2>7. /\ links.of \in DOMAIN target.data
        /\ \A q \in DOMAIN target.file : target.file[q] \in DOMAIN target.data
    BY <1>1 DEF TypeInv, ReaderTyped
  <2>8. \A q \in DOMAIN f : f[q] \in DOMAIN target.data
    BY <2>2, <2>7, SetAtValues
  <2>9. /\ rpc' = "link" /\ links'.of = links.of
        /\ links'.names = Tail(links.names)
        /\ target'.dir = g /\ target'.file = f /\ target'.data = target.data
    <3>1. rpc' = "link"
      BY <1>1, <1>4
    <3>. QED BY <2>3, <2>4, <3>1
  <2>10. /\ pos' \in 0..Len(stream) /\ rounds' \in {1, 2}
         /\ dirs' \in Seq({h \in Header : h.ftype = "dir"}) /\ Len(dirs') <= MaxDirs
    BY <1>1 DEF TypeInv, ReaderTyped
  <2>11. /\ target' = [dir |-> target'.dir, file |-> target'.file, data |-> target'.data]
         /\ links' = [of |-> links'.of, names |-> links'.names]
    BY <2>3, <2>4, <2>9
  <2>12. ReaderTyped'
    BY <1>2, <2>5, <2>6, <2>7, <2>8, <2>9, <2>10, <2>11 DEF ReaderTyped, DirType
  <2>. QED BY <1>1, <2>12, ReadTyped
<1>. QED BY <1>1, <1>3, <1>4 DEF RecreateLink

\* The steps that change no more than where the reader is.
LEMMA ReaderPhaseTyped ==
    ASSUME TypeInv, LastLink \/ EndOfArchive \/ Finish
    PROVE  TypeInv'
<1>1. /\ UNCHANGED <<outer, files, writer, pos, dirs, target, rounds>>
      /\ rpc' \in {"read", "dirs", "done"} /\ links' \in {links, NoLinks}
  BY DEF LastLink, EndOfArchive, Finish
<1>2. Header' = Header /\ Path' = Path /\ stream' = stream
  BY <1>1, OuterKept DEF writer, Path
<1>3. /\ links'.of \in {0} \cup DOMAIN target.data /\ links'.names \in Seq(Path)
      /\ links' = [of |-> links'.of, names |-> links'.names]
  <2>1. CASE links' = links
    BY <2>1 DEF TypeInv, ReaderTyped
  <2>2. CASE links' = NoLinks
    BY <2>2 DEF NoLinks
  <2>. QED BY <1>1, <2>1, <2>2
<1>4. /\ pos' = pos /\ dirs' = dirs /\ target' = target /\ rounds' = rounds
      /\ rpc' # "link"
      /\ rpc' \in {"read", "link", "dirs", "done", "exit", "corrupt", "overrun"}
  BY <1>1
<1>5. ReaderTyped'
  BY <1>2, <1>3, <1>4 DEF TypeInv, ReaderTyped
<1>. QED BY <1>1, <1>5, ReadTyped

LEMMA AgainTyped ==
    ASSUME TypeInv, ExtractAgain
    PROVE  TypeInv'
<1>1. /\ UNCHANGED <<outer, files, writer, target>>
      /\ rounds' = 2 /\ rpc' = "read" /\ pos' = 0 /\ links' = NoLinks /\ dirs' = <<>>
  BY DEF ExtractAgain
<1>2. Header' = Header /\ Path' = Path /\ stream' = stream
  BY <1>1, OuterKept DEF writer, Path
<1>3. Len(stream) \in Nat /\ MaxDirs \in Nat
  BY JtarAssumption DEF TypeInv, WriterTyped
<1>4. /\ dirs' \in Seq({h \in Header : h.ftype = "dir"}) /\ Len(dirs') <= MaxDirs
      /\ pos' \in 0..Len(stream)
  BY <1>1, <1>3
<1>5. /\ links'.of \in {0} \cup DOMAIN target.data /\ links'.names \in Seq(Path)
      /\ links' = [of |-> links'.of, names |-> links'.names]
  BY <1>1 DEF NoLinks
<1>6. ReaderTyped'
  BY <1>1, <1>2, <1>4, <1>5 DEF TypeInv, ReaderTyped, outer
<1>. QED BY <1>1, <1>6, ReadTyped

\* recreate_dir sets what a header of a directory says.
LEMMA RecreateDirTyped ==
    ASSUME TypeInv, RecreateDir
    PROVE  TypeInv'
<1>. DEFINE h == dirs[NextDir]
            p == h.tar_name
            there == IF p \in DOMAIN target.dir THEN target.dir ELSE Grown(target, p)
            set == [mode |-> h.file_stats.mode, time |-> "stored"]
<1>1. /\ UNCHANGED <<outer, files, writer, pos, links, rounds>>
      /\ rpc = "dirs" /\ dirs # <<>>
  BY DEF RecreateDir
<1>2. Header' = Header /\ Path' = Path /\ stream' = stream
  BY <1>1, OuterKept DEF writer, Path
<1>3. CASE rpc' = "exit" /\ UNCHANGED <<dirs, target>>
  <2>1. ReaderTyped'
    BY <1>1, <1>2, <1>3 DEF TypeInv, ReaderTyped, outer
  <2>. QED BY <1>1, <2>1, ReadTyped
<1>4. CASE /\ target' = [target EXCEPT !.dir = SetAt(there, p, set)]
           /\ dirs' = RemoveAt(dirs, NextDir)
           /\ rpc' = rpc
  <2>1. PICK D : D = {r \in Header : r.ftype = "dir"}
    OBVIOUS
  <2>2. /\ dirs \in Seq(D) /\ Len(dirs) <= MaxDirs /\ Len(dirs) \in Nat \ {0}
        /\ Len(dirs) \in 1..Len(dirs) /\ MaxDirs \in Nat
    BY <1>1, <2>1, JtarAssumption DEF TypeInv, ReaderTyped
  <2>3. dirs' \in Seq(D) /\ Len(dirs') <= MaxDirs
    <3>1. PICK n \in Nat \ {0} : n = Len(dirs)
      BY <2>2
    <3>2. dirs' = SubSeq(dirs, 1, n - 1) \o SubSeq(dirs, n + 1, n)
      BY <1>4, <3>1 DEF RemoveAt, NextDir
    <3>3. SubSeq(dirs, n + 1, n) = <<>>
      BY SubSeqEmpty
    <3>4. SubSeq(dirs, 1, n - 1) \in Seq(D) /\ Len(SubSeq(dirs, 1, n - 1)) = n - 1
      BY <2>2, <3>1, SubSeqProperties
    <3>5. dirs' = SubSeq(dirs, 1, n - 1)
      BY <3>2, <3>3, <3>4, ConcatEmptySeq
    <3>. QED BY <2>2, <3>1, <3>4, <3>5
  <2>4. h \in Header /\ h.ftype = "dir"
    <3>1. h \in D
      BY <2>2, ElementOfSeq DEF NextDir
    <3>. QED BY <2>1, <3>1
  <2>5. set \in DirType
    <3>1. h.file_stats \in OtherStat
      BY <2>4, HeaderFields
    <3>. QED BY <3>1 DEF OtherStat, DirType
  <2>6. \A d \in DOMAIN there : there[d] \in DirType
    <3>1. ReaderTyped /\ \A d \in DOMAIN target.dir : target.dir[d] \in DirType
      BY DEF TypeInv, ReaderTyped, DirType
    <3>. QED BY <3>1, GrownTyped
  <2>7. PICK g : g = SetAt(there, p, set)
    OBVIOUS
  <2>. HIDE DEF there, p, set
  <2>8. \A d \in DOMAIN g : g[d] \in DirType
    BY <2>5, <2>6, <2>7, SetAtValues
  <2>9. target = [dir |-> target.dir, file |-> target.file, data |-> target.data]
    BY DEF TypeInv, ReaderTyped
  <2>10. target' = [dir |-> g, file |-> target.file, data |-> target.data]
    BY <1>4, <2>7, <2>9
  <2>11. ReaderTyped'
    BY <1>1, <1>2, <1>4, <2>1, <2>3, <2>8, <2>10
       DEF TypeInv, ReaderTyped, DirType, outer
  <2>. QED BY <1>1, <2>11, ReadTyped
<1>. QED BY <1>3, <1>4 DEF RecreateDir

\* Every step keeps the types; FrameInv is needed where something is read.
LEMMA StepTyped ==
    ASSUME TypeInv, FrameInv, [Next]_vars
    PROVE  TypeInv'
<1>1. CASE WriterStep
  BY <1>1, AddTyped, AddFileTyped, AddDirTyped, VisitEntryTyped, PhaseTyped,
     PrintHeaderTyped, PrintDataTyped DEF WriterStep
<1>2. CASE ReaderStep
  BY <1>2, ReadRecordTyped, RecreateLinkTyped, ReaderPhaseTyped, RecreateDirTyped
     DEF ReaderStep
<1>3. CASE Editor \/ ExtractAgain
  BY <1>3, EditorTyped, AgainTyped
<1>4. CASE UNCHANGED vars
  <2>1. UNCHANGED <<outer, files, writer, reader>> /\ stream' = stream
    BY <1>4 DEF vars, writer
  <2>2. Len(stream') \in Nat /\ Len(stream') >= Len(stream)
    BY <2>1 DEF TypeInv, WriterTyped
  <2>. QED BY <2>1, <2>2, OuterKept, FilesKept, WriterKept, ReaderKept DEF TypeInv
<1>. QED BY <1>1, <1>2, <1>3, <1>4 DEF Next

LEMMA InitTyped ==
    ASSUME Init
    PROVE  TypeInv
<1>1. /\ source \in Sources /\ command \in Commands
      /\ gone = {}
      /\ size = [i \in DOMAIN source.inode |-> source.inode[i].size]
      /\ version = [i \in DOMAIN source.inode |-> 0]
  BY DEF Init
<1>2. SourceTyped
  BY <1>1, JtarAssumption DEF SourceTyped
<1>3. FilesTyped
  <2>1. \A i \in DOMAIN source.inode : source.inode[i].size \in Sizes
    BY <1>2 DEF SourceTyped, Source
  <2>. QED BY <1>1, <2>1 DEF FilesTyped
<1>4. args \in Seq(Path) /\ IsSuffix(args, command)
  <2>1. command \in Seq(Path)
    <3>1. command \in Seq(Seq(DOMAIN NameLen) \ {<<>>})
      BY <1>1, JtarAssumption
    <3>. QED BY <3>1, SeqMonotonic DEF Path
  <2>2. Reverse(command) \in Seq(Path)
    BY <2>1, Reversed
  <2>3. IsPrefix(Reverse(command), Reverse(command))
    BY <2>2, PrefixPointwise
  <2>. QED BY <2>1, <2>3 DEF Init, IsSuffix
<1>5. WriterTyped
  BY <1>4 DEF WriterTyped, Init
<1>6. ReaderTyped
  BY JtarAssumption DEF ReaderTyped, Init, NoLinks, EmptyTarget
<1>. QED BY <1>2, <1>3, <1>5, <1>6 DEF TypeInv
------------------------------------------------------------------------------
(* The frame: what the writer does. *)

\* As long as the stream stays as it is, so do the places where a header is
\* expected.
LEMMA BoundaryKept ==
    ASSUME stream' = stream, Whole => Whole', NEW k, Boundary(k)
    PROVE  Boundary(k)'
BY DEF Boundary

\* A step that leaves the writer alone leaves the frame alone.
LEMMA FramedKept ==
    ASSUME Framed, UNCHANGED writer
    PROVE  Framed'
<1>1. UNCHANGED <<wpc, headers, next, stream>>
  BY DEF writer
<1>2. \A k : Boundary(k)' = Boundary(k)
  BY <1>1 DEF Boundary, Whole
<1>3. Whole' = Whole
  BY <1>1 DEF Whole
<1>. QED BY <1>1, <1>2, <1>3 DEF Framed

\* Before anything is printed there is nothing to be framed.
LEMMA NothingPrinted ==
    ASSUME TypeInv, FrameInv, wpc = "add", UNCHANGED <<reader, stream>>,
           wpc' \in {"add", "header", "exit", "overrun"}
    PROVE  FrameInv'
<1>1. stream = <<>> /\ stream' = <<>> /\ Len(stream') = 0
  BY DEF FrameInv, Framed
<1>2. Whole'
  BY <1>1 DEF Whole
<1>3. Boundary(0)'
  BY <1>1, <1>2 DEF Boundary
<1>4. Framed'
  BY <1>1, <1>3 DEF Framed
<1>5. pos' = pos /\ rpc' = rpc
  BY DEF reader
<1>6. pos = 0
  BY <1>1 DEF TypeInv, ReaderTyped
<1>7. rpc \notin {"dirs", "done"} /\ rpc # "corrupt"
  BY DEF FrameInv, ReaderInFrame, WriterEnded
<1>8. ReaderInFrame'
  BY <1>3, <1>5, <1>6, <1>7 DEF ReaderInFrame
<1>. QED BY <1>4, <1>8 DEF FrameInv

LEMMA StopFramed ==
    ASSUME TypeInv, FrameInv, StopPrinting
    PROVE  FrameInv'
<1>1. /\ wpc = "header" /\ wpc' = "done"
      /\ UNCHANGED <<outer, files, reader, args, work, headers, next, stream>>
  BY DEF StopPrinting
<1>2. Whole /\ Whole'
  BY <1>1 DEF Whole
<1>3. \A k : Boundary(k) => Boundary(k)'
  BY <1>1, <1>2, BoundaryKept
<1>4. next' = next /\ headers' = headers /\ stream' = stream
  BY <1>1
<1>5. Framed'
  BY <1>1, <1>2, <1>3, <1>4 DEF FrameInv, Framed
<1>6. pos' = pos /\ rpc' = rpc
  BY <1>1 DEF reader
<1>7. rpc \notin {"dirs", "done"} /\ rpc # "corrupt"
  BY <1>1 DEF FrameInv, ReaderInFrame, WriterEnded
<1>8. ReaderInFrame'
  BY <1>3, <1>6, <1>7 DEF FrameInv, ReaderInFrame
<1>. QED BY <1>5, <1>8 DEF FrameInv

\* How what is printed reads afterwards.
LEMMA StreamGrows ==
    ASSUME TypeInv, NEW more \in Seq(Token), stream' = stream \o more
    PROVE  /\ Len(stream) \in Nat /\ Len(more) \in Nat
           /\ Len(stream') = Len(stream) + Len(more)
           /\ \A k \in 1..Len(stream) : stream'[k] = stream[k]
           /\ \A k \in 1..Len(more) : stream'[Len(stream) + k] = more[k]
<1>1. stream \in Seq(Token) /\ Len(stream) \in Nat /\ Len(more) \in Nat
  BY DEF TypeInv, WriterTyped
<1>2. /\ Len(stream') = Len(stream) + Len(more)
      /\ \A k \in 1..Len(stream) + Len(more) :
            stream'[k] = IF k <= Len(stream) THEN stream[k] ELSE more[k - Len(stream)]
  BY <1>1, ConcatProperties
<1>3. \A k \in 1..Len(stream) : k \in 1..Len(stream) + Len(more) /\ k <= Len(stream)
  BY <1>1
<1>4. \A k \in 1..Len(more) : /\ Len(stream) + k \in 1..Len(stream) + Len(more)
                              /\ ~(Len(stream) + k <= Len(stream))
                              /\ (Len(stream) + k) - Len(stream) = k
  BY <1>1
<1>. QED BY <1>1, <1>2, <1>3, <1>4

\* The names that are counted stay where they are.
LEMMA NamesKept ==
    ASSUME TypeInv, FrameInv, NEW more \in Seq(Token), stream' = stream \o more,
           NEW k \in 1..Len(stream), stream[k].kind = "head",
           stream[k].val.ftype = "file"
    PROVE  /\ k - 1 + stream[k].val.file_stats.nlink <= Len(stream')
           /\ \A j \in 1..stream[k].val.file_stats.nlink - 1 :
                 stream'[k + j].kind = "link"
<1>1. PICK n \in Nat \ {0} : n = stream[k].val.file_stats.nlink
  <2>1. stream[k] \in Token
    BY ElementOfSeq DEF TypeInv, WriterTyped
  <2>. QED BY <2>1, TokenFields, HeaderFields
<1>2. k - 1 + n <= Len(stream) /\ \A j \in 1..n - 1 : stream[k + j].kind = "link"
  BY <1>1 DEF FrameInv, Framed
<1>3. /\ Len(stream) \in Nat /\ Len(more) \in Nat
      /\ Len(stream') = Len(stream) + Len(more)
      /\ \A i \in 1..Len(stream) : stream'[i] = stream[i]
  BY StreamGrows
<1>4. k - 1 + n <= Len(stream') /\ \A j \in 1..n - 1 : k + j \in 1..Len(stream)
  BY <1>2, <1>3
<1>. QED BY <1>1, <1>2, <1>3, <1>4
\* A header is printed at the end of a whole stream, with its names.
LEMMA PrintHeaderFramed ==
    ASSUME TypeInv, FrameInv, PrintHeader
    PROVE  FrameInv'
<1>. DEFINE N == Len(stream)
<1>1. /\ wpc = "header" /\ next <= Len(headers)
      /\ UNCHANGED <<outer, files, reader, args, work, headers>>
      /\ IF headers[next].ftype = "file" THEN wpc' = "data" /\ next' = next
                                         ELSE next' = next + 1 /\ wpc' = "header"
  BY DEF PrintHeader
<1>2. PICK h \in Header : h = headers[next]
  BY PrintHeaderTyped
<1>3. PICK n \in Nat \ {0} : n = h.file_stats.nlink
  BY HeaderFields
<1>4. PICK more \in Seq(Token) :
          /\ stream' = stream \o more
          /\ more[1] = [kind |-> "head", val |-> h]
          /\ h.ftype # "file" => Len(more) = 1
          /\ h.ftype = "file" => Len(more) = n
          /\ \A j \in 2..Len(more) : more[j].kind = "link"
  BY <1>2, <1>3, PrintHeaderTyped, OpeningOf, ZenonT(60)
<1>5. /\ N \in Nat /\ Len(more) \in Nat \ {0}
      /\ Len(stream') = N + Len(more)
      /\ \A k \in 1..N : stream'[k] = stream[k]
      /\ \A k \in 1..Len(more) : stream'[N + k] = more[k]
  BY <1>3, <1>4, StreamGrows
<1>6. stream'[N + 1] = [kind |-> "head", val |-> h]
  <2>1. 1 \in 1..Len(more)
    BY <1>5
  <2>. QED BY <1>4, <1>5, <2>1
<1>7. Whole
  BY <1>1 DEF Whole
<1>8. ASSUME NEW b, Boundary(b) PROVE Boundary(b)'
  <2>1. b \in 0..N /\ (b < N => stream[b + 1].kind = "head")
    BY <1>8 DEF Boundary
  <2>2. b \in 0..Len(stream') /\ b < Len(stream')
    BY <1>5, <2>1
  <2>3. stream'[b + 1].kind = "head"
    <3>1. CASE b < N
      <4>1. b + 1 \in 1..N
        BY <1>5, <2>1, <3>1
      <4>. QED BY <1>5, <2>1, <3>1, <4>1
    <3>2. CASE b = N
      BY <1>6, <3>2
    <3>. QED BY <1>5, <2>1, <3>1, <3>2
  <2>4. b # Len(stream')
    BY <1>5, <2>2
  <2>. QED BY <2>2, <2>3, <2>4 DEF Boundary
<1>10. ASSUME NEW k \in 1..Len(stream'), stream'[k].kind = "head"
       PROVE  (k \in 1..N /\ stream'[k] = stream[k]) \/ k = N + 1
  <2>1. CASE k <= N
    BY <1>5, <2>1
  <2>2. CASE k > N + 1
    <3>1. PICK j : j = k - N
      OBVIOUS
    <3>2. j \in 2..Len(more) /\ j \in 1..Len(more) /\ N + j = k
      BY <1>5, <2>2, <3>1
    <3>3. stream'[k].kind = "link"
      BY <1>4, <1>5, <3>2
    <3>. QED BY <1>10, <3>3
  <2>. QED BY <1>5, <2>1, <2>2
<1>11. ASSUME NEW k \in 1..Len(stream'), stream'[k].kind = "head"
       PROVE  \/ \E b \in Nat : b = k - 1 + Extent(stream'[k].val) /\ Boundary(b)'
              \/ /\ ~Whole' /\ stream'[k].val.ftype = "file"
                 /\ k - 1 + stream'[k].val.file_stats.nlink = Len(stream')
                 /\ wpc' = "data" => stream'[k].val = headers'[next']
  <2>1. CASE k \in 1..N /\ stream'[k] = stream[k]
    <3>1. stream[k].kind = "head"
      BY <1>11, <2>1
    <3>2. PICK b \in Nat : b = k - 1 + Extent(stream[k].val) /\ Boundary(b)
      BY <1>7, <2>1, <3>1 DEF FrameInv, Framed
    <3>3. Boundary(b)'
      BY <1>8, <3>2
    <3>4. b = k - 1 + Extent(stream'[k].val)
      BY <2>1, <3>2
    <3>. QED BY <3>3, <3>4
  <2>2. CASE k = N + 1 /\ h.ftype = "file"
    <3>1. wpc' = "data" /\ next' = next /\ headers' = headers
      BY <1>1, <1>2, <2>2
    <3>2. stream' # <<>>
      BY <1>5
    <3>3. ~Whole'
      BY <3>1, <3>2 DEF Whole
    <3>4. stream'[k].val = h
      BY <1>6, <2>2
    <3>5. k - 1 + n = Len(stream')
      BY <1>3, <1>4, <1>5, <2>2
    <3>. QED BY <1>2, <1>3, <2>2, <3>1, <3>3, <3>4, <3>5
  <2>3. CASE k = N + 1 /\ h.ftype # "file"
    <3>1. wpc' = "header"
      BY <1>1, <1>2, <2>3
    <3>2. Whole'
      BY <3>1 DEF Whole
    <3>3. stream'[k].val = h
      BY <1>6, <2>3
    <3>4. Extent(h) = 1
      BY <2>3 DEF Extent
    <3>5. Len(stream') = k /\ k \in Nat /\ k - 1 + 1 = k
      BY <1>4, <1>5, <2>3
    <3>6. Boundary(k)'
      BY <3>2, <3>5 DEF Boundary
    <3>7. k = k - 1 + Extent(stream'[k].val)
      BY <3>3, <3>4, <3>5
    <3>. QED BY <3>5, <3>6, <3>7
  <2>. QED BY <1>10, <1>11, <2>1, <2>2, <2>3
<1>12. ASSUME NEW k \in 1..Len(stream'), stream'[k].kind = "head",
              stream'[k].val.ftype = "file"
       PROVE  /\ k - 1 + stream'[k].val.file_stats.nlink <= Len(stream')
              /\ \A j \in 1..stream'[k].val.file_stats.nlink - 1 :
                    stream'[k + j].kind = "link"
  <2>1. CASE k \in 1..N /\ stream'[k] = stream[k]
    BY <1>4, <1>12, <2>1, NamesKept
  <2>2. CASE k = N + 1
    <3>1. stream'[k].val = h /\ Len(more) = n
      BY <1>4, <1>6, <1>12, <2>2
    <3>2. k - 1 + n <= Len(stream')
      BY <1>5, <2>2, <3>1
    <3>3. ASSUME NEW j \in 1..n - 1 PROVE stream'[k + j].kind = "link"
      <4>1. 1 + j \in 2..Len(more) /\ 1 + j \in 1..Len(more) /\ N + (1 + j) = k + j
        BY <1>3, <1>5, <2>2, <3>1
      <4>. QED BY <1>4, <1>5, <4>1
    <3>. QED BY <1>3, <3>1, <3>2, <3>3
  <2>. QED BY <1>10, <1>12, <2>1, <2>2
<1>13. wpc' \in {"header", "data"} /\ stream' # <<>>
  BY <1>1, <1>5
<1>14. wpc' = "data" => next' \in DOMAIN headers' /\ headers'[next'].ftype = "file"
  BY <1>1 DEF TypeInv, WriterTyped
<1>15. Boundary(0)'
  BY <1>8 DEF FrameInv, Framed
<1>16. Framed'
  BY <1>11, <1>12, <1>13, <1>14, <1>15 DEF Framed
<1>17. pos' = pos /\ rpc' = rpc
  BY <1>1 DEF reader
<1>18. rpc \notin {"dirs", "done"} /\ rpc # "corrupt"
  BY <1>1 DEF FrameInv, ReaderInFrame, WriterEnded
<1>19. ReaderInFrame'
  BY <1>8, <1>17, <1>18 DEF FrameInv, ReaderInFrame
<1>. QED BY <1>16, <1>19 DEF FrameInv
\* The contents complete the last header's extent, or the program exits and
\* leaves the header without them.
LEMMA PrintDataFramed ==
    ASSUME TypeInv, FrameInv, PrintData
    PROVE  FrameInv'
<1>. DEFINE N == Len(stream)
<1>1. /\ wpc = "data" /\ UNCHANGED <<outer, files, reader, args, work, headers>>
  BY DEF PrintData
<1>2. PICK h \in Header : h = headers[next] /\ h.ftype = "file"
  BY PrintDataTyped
<1>3. stream # <<>> /\ ~Whole
  BY <1>1 DEF FrameInv, Framed, Whole
<1>4. pos' = pos /\ rpc' = rpc
  BY <1>1 DEF reader
<1>5. rpc \notin {"dirs", "done"} /\ rpc # "corrupt"
  BY <1>1 DEF FrameInv, ReaderInFrame, WriterEnded
<1>6. CASE wpc' = "exit" /\ stream' = stream /\ next' = next
  <2>1. ~Whole'
    BY <1>3, <1>6 DEF Whole
  <2>2. \A k : Boundary(k) => Boundary(k)'
    BY <1>3, <1>6, BoundaryKept
  <2>3. headers' = headers
    BY <1>1
  <2>4. Framed'
    BY <1>3, <1>6, <2>1, <2>2, <2>3 DEF FrameInv, Framed
  <2>5. ReaderInFrame'
    BY <1>4, <1>5, <2>2 DEF FrameInv, ReaderInFrame
  <2>. QED BY <2>4, <2>5 DEF FrameInv
<1>7. CASE /\ wpc' = "header" /\ next' = next + 1
           /\ \E more \in Seq(Token) :
                 /\ stream' = stream \o more
                 /\ Len(more) = headers[next].file_stats.size
                 /\ Len(stream') = Len(stream) + Len(more)
                 /\ \A k \in 1..Len(more) : more[k].kind = "byte"
  <2>1. PICK more \in Seq(Token) :
            /\ stream' = stream \o more /\ Len(more) = h.file_stats.size
            /\ \A k \in 1..Len(more) : more[k].kind = "byte"
    BY <1>2, <1>7
  <2>2. /\ N \in Nat /\ Len(more) \in Nat
        /\ Len(stream') = N + Len(more)
        /\ \A k \in 1..N : stream'[k] = stream[k]
        /\ \A k \in 1..Len(more) : stream'[N + k] = more[k]
    BY <2>1, StreamGrows
  <2>3. Whole'
    BY <1>7 DEF Whole
  <2>4. ASSUME NEW b, Boundary(b) PROVE Boundary(b)'
    <3>1. b \in 0..N /\ (b < N => stream[b + 1].kind = "head") /\ b # N
      BY <1>3, <2>4 DEF Boundary
    <3>2. b < N /\ b + 1 \in 1..N /\ b \in 0..Len(stream')
      BY <2>2, <3>1
    <3>3. stream'[b + 1].kind = "head"
      BY <2>2, <3>1, <3>2
    <3>. QED BY <2>3, <3>2, <3>3 DEF Boundary
  <2>5. ASSUME NEW k \in 1..Len(stream'), stream'[k].kind = "head"
        PROVE  k \in 1..N /\ stream'[k] = stream[k]
    <3>1. CASE k <= N
      BY <2>2, <3>1
    <3>2. CASE k > N
      <4>1. PICK j : j = k - N
        OBVIOUS
      <4>2. j \in 1..Len(more) /\ N + j = k
        BY <2>2, <3>2, <4>1
      <4>3. stream'[k].kind = "byte"
        BY <2>1, <2>2, <4>2
      <4>. QED BY <2>5, <4>3
    <3>. QED BY <2>2, <3>1, <3>2
  <2>6. ASSUME NEW k \in 1..Len(stream'), stream'[k].kind = "head"
        PROVE  \E b \in Nat : b = k - 1 + Extent(stream'[k].val) /\ Boundary(b)'
    <3>1. k \in 1..N /\ stream'[k] = stream[k] /\ stream[k].kind = "head"
      BY <2>5, <2>6
    <3>2. CASE \E b \in Nat : b = k - 1 + Extent(stream[k].val) /\ Boundary(b)
      BY <2>4, <3>1, <3>2
    <3>3. CASE /\ stream[k].val = h
               /\ k - 1 + stream[k].val.file_stats.nlink = Len(stream)
      <4>1. PICK n \in Nat \ {0}, m \in Nat :
                n = h.file_stats.nlink /\ m = h.file_stats.size
        BY HeaderFields
      <4>2. Extent(h) = n + m
        BY <1>2, <4>1 DEF Extent, RecordLen
      <4>3. k - 1 + n = N /\ Len(stream') = N + m
        BY <2>1, <2>2, <3>3, <4>1
      <4>4. k - 1 + (n + m) = Len(stream') /\ Len(stream') \in Nat
        <5>1. \A i, x, l, y \in Nat :
                 i - 1 + x = l => i - 1 + (x + y) = l + y /\ l + y \in Nat
          OBVIOUS
        <5>2. k \in Nat /\ n \in Nat /\ m \in Nat /\ N \in Nat
          BY <2>2, <3>1
        <5>3. k - 1 + (n + m) = N + m /\ N + m \in Nat
          BY <4>3, <5>1, <5>2
        <5>. QED BY <4>3, <5>3
      <4>5. Len(stream') = k - 1 + Extent(stream'[k].val)
        BY <3>1, <3>3, <4>2, <4>4
      <4>6. PICK b \in Nat : b = Len(stream')
        BY <4>4
      <4>7. Boundary(b)'
        BY <2>3, <4>6 DEF Boundary
      <4>. QED BY <4>5, <4>6, <4>7
    <3>. QED BY <1>1, <1>2, <3>1, <3>2, <3>3 DEF FrameInv, Framed
  <2>7. ASSUME NEW k \in 1..Len(stream'), stream'[k].kind = "head",
               stream'[k].val.ftype = "file"
        PROVE  /\ k - 1 + stream'[k].val.file_stats.nlink <= Len(stream')
               /\ \A j \in 1..stream'[k].val.file_stats.nlink - 1 :
                     stream'[k + j].kind = "link"
    <3>1. k \in 1..N /\ stream'[k] = stream[k]
      BY <2>5, <2>7
    <3>. QED BY <2>1, <2>7, <3>1, NamesKept
  <2>8. Boundary(0)'
    BY <2>4 DEF FrameInv, Framed
  <2>9. Framed'
    BY <1>7, <2>6, <2>7, <2>8 DEF Framed
  <2>10. ReaderInFrame'
    BY <1>4, <1>5, <2>4 DEF FrameInv, ReaderInFrame
  <2>. QED BY <2>9, <2>10 DEF FrameInv
<1>. QED BY <1>6, <1>7, PrintDataTyped
------------------------------------------------------------------------------
(* The frame: what the reader does. *)

\* A step of the reader that ends at a place where a header is expected.
LEMMA ReaderFramed ==
    ASSUME FrameInv, UNCHANGED writer, rpc' # "corrupt",
           rpc' \in {"read", "link", "dirs", "done"} => Boundary(pos)',
           rpc' \in {"dirs", "done"} => WriterEnded /\ pos' = Len(stream)
    PROVE  FrameInv'
<1>1. stream' = stream /\ WriterEnded' = WriterEnded
  BY DEF writer, WriterEnded
<1>2. Framed'
  BY FramedKept DEF FrameInv
<1>3. ReaderInFrame'
  BY <1>1 DEF ReaderInFrame
<1>. QED BY <1>2, <1>3 DEF FrameInv

LEMMA WriterStill ==
    ASSUME UNCHANGED writer, NEW k, Boundary(k)
    PROVE  Boundary(k)'
BY DEF writer, Boundary, Whole

\* Behind the record the reader has taken the next header is expected: were it
\* the pending one, the contents it counts would not have been there.
LEMMA ReadRecordFramed ==
    ASSUME TypeInv, FrameInv, ReadRecord
    PROVE  FrameInv'
<1>1. /\ rpc = "read" /\ Left > 0 /\ UNCHANGED <<outer, files, writer, rounds>>
  BY DEF ReadRecord
<1>2. /\ Record.kind = "head" /\ pos + 1 \in 1..Len(stream)
      /\ pos \in Nat /\ Len(stream) \in Nat
  BY <1>1, RecordThere DEF TypeInv, ReaderTyped, WriterTyped
<1>3. PICK h \in Header : h = Record.val
  BY <1>1, RecordThere
<1>4. PICK k \in 1..Len(stream) : k = pos + 1
  BY <1>2
<1>5. stream[k].kind = "head" /\ stream[k].val = h
  BY <1>2, <1>3, <1>4 DEF Record
<1>6. PICK n \in Nat \ {0}, m \in Nat :
          n = h.file_stats.nlink /\ m = h.file_stats.size
  BY HeaderFields
<1>7. \/ \E b \in Nat : b = k - 1 + Extent(h) /\ Boundary(b)
      \/ h.ftype = "file" /\ k - 1 + n = Len(stream)
  BY <1>5, <1>6 DEF FrameInv, Framed
<1>8. ~ChecksumFails(Record)
  BY <1>2 DEF ChecksumFails
<1>9. CASE h.ftype = "file"
  <2>1. RecreateFile(h)
    BY <1>3, <1>8, <1>9 DEF ReadRecord
  <2>2. CASE rpc' = "exit"
    BY <1>1, <2>2, ReaderFramed
  <2>3. CASE CanRead(h) /\ pos' = pos + RecordLen(h) /\ rpc' = "link"
    <3>1. Extent(h) = n + m /\ RecordLen(h) = n + m
      BY <1>6, <1>9 DEF Extent, RecordLen
    <3>2. Len(stream) - pos >= n + m /\ m > 0
      BY <1>6, <2>3, <3>1 DEF CanRead, Left
    <3>3. k - 1 = pos /\ pos + n # Len(stream)
      BY <1>2, <1>4, <1>6, <3>2, SMTT(30)
    <3>4. PICK b \in Nat : b = k - 1 + Extent(h) /\ Boundary(b)
      BY <1>7, <3>3
    <3>5. pos' = b
      BY <2>3, <3>1, <3>3, <3>4
    <3>6. Boundary(b)'
      BY <1>1, <3>4, WriterStill
    <3>7. Boundary(pos)'
      BY <3>5, <3>6
    <3>. QED BY <1>1, <2>3, <3>7, ReaderFramed
  <2>. QED BY <2>1, <2>2, <2>3 DEF RecreateFile
<1>10. CASE h.ftype # "file"
  <2>1. ReadDirHeader(h)
    BY <1>3, <1>8, <1>10 DEF ReadRecord
  <2>2. pos' = pos + 1 /\ rpc' \in {"read", "overrun"}
    BY <1>1, <2>1 DEF ReadDirHeader
  <2>3. Extent(h) = 1
    BY <1>10 DEF Extent
  <2>4. PICK b \in Nat : b = k - 1 + Extent(h) /\ Boundary(b)
    BY <1>7, <1>10
  <2>5. pos' = b
    BY <1>2, <1>4, <2>2, <2>3, <2>4
  <2>6. Boundary(b)'
    BY <1>1, <2>4, WriterStill
  <2>7. Boundary(pos)'
    BY <2>5, <2>6
  <2>. QED BY <1>1, <2>2, <2>7, ReaderFramed
<1>. QED BY <1>9, <1>10

LEMMA ReaderStepFramed ==
    ASSUME TypeInv, FrameInv,
           ReaderStep \/ ExtractAgain
    PROVE  FrameInv'
<1>1. CASE ReadRecord
  BY <1>1, ReadRecordFramed
<1>2. CASE RecreateLink \/ LastLink \/ RecreateDir \/ Finish
  <2>1. UNCHANGED writer /\ pos' = pos
    BY <1>2 DEF RecreateLink, LastLink, RecreateDir, Finish
  <2>2. /\ rpc \in {"link", "dirs"}
        /\ rpc = "link" => rpc' \in {"link", "read", "exit"}
        /\ rpc = "dirs" => rpc' \in {"dirs", "done", "exit"}
    BY <1>2 DEF RecreateLink, LastLink, RecreateDir, Finish
  <2>3. PICK k : k = pos
    OBVIOUS
  <2>4. Boundary(k)'
    BY <2>1, <2>2, <2>3, WriterStill DEF FrameInv, ReaderInFrame
  <2>5. Boundary(pos)'
    BY <2>1, <2>3, <2>4
  <2>6. rpc' \in {"dirs", "done"} => WriterEnded /\ pos' = Len(stream)
    BY <2>1, <2>2 DEF FrameInv, ReaderInFrame
  <2>. QED BY <2>1, <2>2, <2>5, <2>6, ReaderFramed
<1>3. CASE EndOfArchive
  <2>1. /\ rpc = "read" /\ Left = 0 /\ WriterEnded /\ rpc' = "dirs"
        /\ UNCHANGED writer /\ pos' = pos
    BY <1>3 DEF EndOfArchive
  <2>2. PICK k : k = pos
    OBVIOUS
  <2>3. Boundary(k)'
    BY <2>1, <2>2, WriterStill DEF FrameInv, ReaderInFrame
  <2>4. Boundary(pos)'
    BY <2>1, <2>2, <2>3
  <2>5. pos' = Len(stream)
    BY <2>1 DEF Left, TypeInv, ReaderTyped, WriterTyped
  <2>. QED BY <2>1, <2>4, <2>5, ReaderFramed
<1>4. CASE ExtractAgain
  <2>1. UNCHANGED writer /\ pos' = 0 /\ rpc' = "read"
    BY <1>4 DEF ExtractAgain
  <2>2. Boundary(0)'
    BY <2>1, WriterStill DEF FrameInv, Framed
  <2>3. Boundary(pos)'
    BY <2>1, <2>2
  <2>. QED BY <2>1, <2>3, ReaderFramed
<1>. QED BY <1>1, <1>2, <1>3, <1>4 DEF ReaderStep

\* Every step keeps the frame.
LEMMA StepFramed ==
    ASSUME TypeInv, FrameInv, [Next]_vars
    PROVE  FrameInv'
<1>1. CASE Add \/ AddFile \/ AddDir \/ VisitEntry \/ StartPrinting
  <2>1. wpc = "add" /\ UNCHANGED <<reader, stream>>
    BY <1>1 DEF Add, AddFile, AddDir, VisitEntry, StartPrinting
  <2>2. wpc' \in {"add", "header", "exit", "overrun"}
    <3>1. \A p, rest : AddHeader(p, rest) => wpc' \in {"add", "overrun"}
      BY DEF AddHeader
    <3>2. CASE AddFile
      BY <2>1, <3>1, <3>2 DEF AddFile
    <3>3. CASE VisitEntry
      <4>. DEFINE p == Head(work).at
      <4>1. p \in Paths => TypeOf(p) \in {"symlink", "file", "dir"}
        BY DEF Paths, TypeOf, TypeInv, SourceTyped, Source
      <4>2. CASE p \notin Paths
        BY <3>3, <4>2 DEF VisitEntry
      <4>3. CASE p \in Paths /\ TypeOf(p) = "symlink"
        BY <2>1, <3>3, <4>3 DEF VisitEntry
      <4>4. CASE p \in Paths /\ TypeOf(p) = "file"
        BY <3>1, <3>3, <4>4 DEF VisitEntry
      <4>5. CASE p \in Paths /\ TypeOf(p) = "dir"
        BY <3>1, <3>3, <4>5 DEF VisitEntry
      <4>. QED BY <4>1, <4>2, <4>3, <4>4, <4>5
    <3>4. CASE Add \/ AddDir \/ StartPrinting
      BY <2>1, <3>4 DEF Add, AddDir, StartPrinting
    <3>. QED BY <1>1, <3>2, <3>3, <3>4
  <2>. QED BY <2>1, <2>2, NothingPrinted
<1>2. CASE PrintHeader \/ PrintData \/ StopPrinting
  BY <1>2, PrintHeaderFramed, PrintDataFramed, StopFramed
<1>3. CASE ReaderStep \/ ExtractAgain
  BY <1>3, ReaderStepFramed
<1>4. CASE Editor \/ UNCHANGED vars
  <2>1. UNCHANGED <<writer, reader>>
    BY <1>4 DEF Editor, Rewrite, Unlink, vars
  <2>2. rpc' = rpc /\ pos' = pos
    BY <2>1 DEF reader
  <2>3. PICK k : k = pos
    OBVIOUS
  <2>4. Boundary(k) => Boundary(k)'
    BY <2>1, WriterStill
  <2>5. Boundary(pos) => Boundary(pos)'
    BY <2>2, <2>3, <2>4
  <2>. QED BY <2>1, <2>2, <2>5, ReaderFramed DEF FrameInv, ReaderInFrame
<1>. QED BY <1>1, <1>2, <1>3, <1>4 DEF Next, WriterStep

LEMMA InitFramed ==
    ASSUME Init
    PROVE  FrameInv
<1>1. stream = <<>> /\ Len(stream) = 0 /\ wpc = "add" /\ pos = 0 /\ rpc = "read"
  BY DEF Init
<1>2. Boundary(0)
  BY <1>1 DEF Boundary, Whole
<1>3. Framed
  BY <1>1, <1>2 DEF Framed
<1>4. ReaderInFrame
  BY <1>1, <1>2 DEF ReaderInFrame
<1>. QED BY <1>3, <1>4 DEF FrameInv
------------------------------------------------------------------------------
(* Nothing is added twice. *)

\* What is below a path in the tree N, and what add_file and add_dir have yet to
\* add on behalf of a piece of work.
Tree(N, p) == {q \in N : IsPrefix(p, q)}
Cover(N, w) == IF w.op = "list" THEN Tree(N, w.at) \ {w.at} ELSE Tree(N, w.at)

\* The names of files that a list of headers holds.
Names(h) == {h.tar_name} \cup {h.hard_links[j] : j \in DOMAIN h.hard_links}
Packed(hs) == {q \in UNION {Names(hs[k]) : k \in DOMAIN hs} :
                 \E k \in DOMAIN hs : hs[k].ftype = "file" /\ q \in Names(hs[k])}

Disjoint(S, T) == S \cap T = {}

\* Work W, arguments A and packed names P have nothing in common.
Apart(N, W, A, P) ==
    /\ \A j, k \in DOMAIN W : j # k => Disjoint(Cover(N, W[j]), Cover(N, W[k]))
    /\ \A j, k \in DOMAIN A : j # k => Disjoint(Tree(N, A[j]), Tree(N, A[k]))
    /\ \A j \in DOMAIN W, k \in DOMAIN A : Disjoint(Cover(N, W[j]), Tree(N, A[k]))
    /\ \A j \in DOMAIN W : Disjoint(Cover(N, W[j]), P)
    /\ \A j \in DOMAIN A : Disjoint(Tree(N, A[j]), P)

\* The names in a header are different names of one file. While the file has
\* as many names as it had when the header was made, they are all still there.
Tallied(h) ==
    LET i == h.file_stats.ino[1] IN
    /\ i \in DOMAIN source.inode /\ Names(h) \subseteq NamesOf(i)
    /\ Cardinality(Names(h)) = Len(h.hard_links) + 1
    /\ Nlink(i) <= h.file_stats.nlink
    /\ Nlink(i) = h.file_stats.nlink => Disjoint(Names(h), gone)

PlainArgs ==
    \A k \in DOMAIN args : /\ args[k] \in DOMAIN source.node
                           /\ TypeOf(args[k]) = "file" => Len(args[k]) = 1
EachTallied ==
    \A k \in DOMAIN headers : headers[k].ftype = "file" => Tallied(headers[k])

Adding == /\ Apart(DOMAIN source.node, work, args, Packed(headers))
          /\ PlainArgs /\ EachTallied
OnceInv == (Plain /\ ~Repeated) => (wpc # "overrun" /\ (wpc = "add" => Adding))

\* What is below two paths.
LEMMA TreeFacts ==
    ASSUME NEW N \in SUBSET Path, NEW p \in Path, NEW q \in Path
    PROVE  /\ p \in N => p \in Tree(N, p)
           /\ IsPrefix(p, q) => Tree(N, q) \subseteq Tree(N, p)
           /\ q \in Tree(N, p) => IsPrefix(p, q) /\ Len(p) <= Len(q)
           /\ \/ IsPrefix(p, q) \/ IsPrefix(q, p)
              \/ Disjoint(Tree(N, p), Tree(N, q))
<1>. DEFINE Pre(u, v) == Len(u) <= Len(v) /\ \A i \in 1..Len(u) : u[i] = v[i]
<1>1. \A u, v \in Path : IsPrefix(u, v) <=> Pre(u, v)
  BY PrefixPointwise DEF Path
<1>2. \A u \in Path : Len(u) \in Nat
  BY DEF Path
<1>. HIDE DEF Pre
<1>3. Pre(p, p)
  BY <1>2 DEF Pre
<1>4. ASSUME NEW x \in Path, Pre(p, q), Pre(q, x) PROVE Pre(p, x)
  <2>1. Len(p) <= Len(q) /\ Len(q) <= Len(x)
    BY <1>4 DEF Pre
  <2>2. \A i \in 1..Len(p) : p[i] = q[i] /\ q[i] = x[i]
    BY <1>2, <1>4, <2>1 DEF Pre
  <2>. QED BY <1>2, <2>1, <2>2 DEF Pre
<1>5. ASSUME NEW x \in Path, Pre(p, x), Pre(q, x) PROVE Pre(p, q) \/ Pre(q, p)
  <2>1. CASE Len(p) <= Len(q)
    BY <1>2, <1>5, <2>1 DEF Pre
  <2>2. CASE Len(q) <= Len(p)
    BY <1>2, <1>5, <2>2 DEF Pre
  <2>. QED BY <1>2, <2>1, <2>2
<1>6. p \in N => p \in Tree(N, p)
  BY <1>1, <1>3 DEF Tree
<1>7. IsPrefix(p, q) => Tree(N, q) \subseteq Tree(N, p)
  BY <1>1, <1>4 DEF Tree
<1>8. q \in Tree(N, p) => IsPrefix(p, q) /\ Len(p) <= Len(q)
  BY <1>1 DEF Tree, Pre
<1>9. IsPrefix(p, q) \/ IsPrefix(q, p) \/ Disjoint(Tree(N, p), Tree(N, q))
  BY <1>1, <1>5 DEF Tree, Disjoint
<1>. QED BY <1>6, <1>7, <1>8, <1>9

\* The entries of a directory are below it, and none is below another one.
LEMMA EntryFacts ==
    ASSUME TypeInv, NEW N, N = DOMAIN source.node, NEW p \in Path,
           NEW e \in Entries(p), NEW f \in Entries(p)
    PROVE  /\ e \in Path /\ Tree(N, e) \subseteq Tree(N, p) \ {p}
           /\ e # f => Disjoint(Tree(N, e), Tree(N, f))
<1>1. N \subseteq Path /\ e \in N /\ f \in N
  BY DEF Entries, Paths, TypeInv, SourceTyped, Source, Path
<1>2. /\ Len(p) \in Nat /\ Len(e) = Len(p) + 1 /\ Len(f) = Len(p) + 1
      /\ Front(e) = p /\ Front(f) = p
  BY DEF Entries, Path
<1>3. /\ e \in Path /\ f \in Path
  BY <1>1
<1>4. ASSUME NEW g \in {e, f} PROVE \A i \in 1..Len(p) : g[i] = p[i]
  <2>1. g \in Path /\ Len(g) = Len(p) + 1 /\ SubSeq(g, 1, Len(g) - 1) = p
    BY <1>2, <1>3 DEF Front
  <2>2. SubSeq(g, 1, Len(p)) = p
    BY <1>2, <2>1
  <2>3. \A i \in 1..Len(p) : SubSeq(g, 1, Len(p))[i] = g[i]
    <3>1. \A i \in 1..Len(p) : g[i] \in DOMAIN NameLen
      BY <1>2, <2>1 DEF Path
    <3>2. PICK n \in Nat : n = Len(p)
      BY <1>2
    <3>3. \A i \in 1..n : g[i] \in DOMAIN NameLen
      BY <3>1, <3>2
    <3>4. \A i \in 1..n - 1 + 1 : SubSeq(g, 1, n)[i] = g[1 + i - 1]
      BY <3>3, SubSeqProperties
    <3>5. \A i \in 1..n : i \in 1..n - 1 + 1 /\ 1 + i - 1 = i
      OBVIOUS
    <3>. QED BY <3>2, <3>4, <3>5
  <2>. QED BY <2>2, <2>3
<1>5. IsPrefix(p, e)
  BY <1>2, <1>3, <1>4, PrefixPointwise DEF Path
<1>6. Tree(N, e) \subseteq Tree(N, p) \ {p}
  <2>1. p \notin Tree(N, e)
    <3>1. p \in Tree(N, e) => Len(e) <= Len(p)
      BY <1>1, TreeFacts, Zenon
    <3>2. ~(Len(p) + 1 <= Len(p))
      BY <1>2
    <3>. QED BY <1>2, <3>1, <3>2
  <2>. QED BY <1>1, <1>3, <1>5, <2>1, TreeFacts
<1>7. ASSUME e # f PROVE ~IsPrefix(e, f) /\ ~IsPrefix(f, e)
  <2>1. PICK i \in 1..Len(p) + 1 : e[i] # f[i]
    BY <1>2, <1>3, <1>7, SeqEqual DEF Path
  <2>. QED BY <1>2, <1>3, <2>1, PrefixPointwise DEF Path
<1>. QED BY <1>1, <1>3, <1>6, <1>7, TreeFacts

\* The first piece of work is replaced by pieces that it covers, and what it
\* covers and they do not may be packed.
LEMMA WorkApart ==
    ASSUME NEW S, NEW W \in Seq(S), NEW new \in Seq(S), W # <<>>,
           NEW N, NEW A, NEW P, NEW Q, Apart(N, W, A, P),
           \A j \in 1..Len(new) : Cover(N, new[j]) \subseteq Cover(N, Head(W)),
           \A j, k \in 1..Len(new) :
              j # k => Disjoint(Cover(N, new[j]), Cover(N, new[k])),
           \A x \in Q : \/ x \in P
                        \/ /\ x \in Cover(N, Head(W))
                           /\ \A j \in 1..Len(new) : x \notin Cover(N, new[j])
    PROVE  Apart(N, new \o Tail(W), A, Q)
<1>. DEFINE V == new \o Tail(W)
<1>1. PICK n \in Nat, m \in Nat \ {0} : n = Len(new) /\ m = Len(W)
  <2>1. Len(W) \in Nat /\ Len(W) # 0 /\ Len(new) \in Nat
    BY EmptySeq
  <2>. QED BY <2>1
<1>2. /\ 1 \in DOMAIN W /\ Head(W) = W[1]
      /\ \A j \in 2..m : j \in DOMAIN W /\ j # 1
  BY <1>1
<1>3. ASSUME NEW j \in DOMAIN V
      PROVE  /\ j \in Int
             /\ \/ j \in 1..n /\ V[j] = new[j]
                \/ \E k \in 2..m : k = j - n + 1 /\ V[j] = W[k]
  <2>1. /\ Tail(W) \in Seq(S) /\ Len(Tail(W)) = m - 1
        /\ \A k \in 1..m - 1 : Tail(W)[k] = W[k + 1]
    BY <1>1, HeadTailProperties
  <2>2. j \in 1..n + (m - 1)
    BY <1>1, <2>1, ConcatProperties
  <2>3. CASE j \in 1..n
    BY <1>1, <2>1, <2>3, ConcatProperties
  <2>4. CASE j \notin 1..n
    <3>1. j - n \in 1..m - 1 /\ j - n + 1 \in 2..m
      BY <1>1, <2>2, <2>4
    <3>2. V[j] = Tail(W)[j - n]
      <4>1. j \in 1..Len(new) + Len(Tail(W)) /\ ~(j <= n)
        BY <1>1, <2>1, <2>2, <2>4
      <4>2. V[j] = IF j <= Len(new) THEN new[j] ELSE Tail(W)[j - Len(new)]
        BY <2>1, <4>1, ConcatProperties
      <4>. QED BY <1>1, <4>1, <4>2
    <3>. QED BY <2>1, <3>1, <3>2, SMTT(60)
  <2>. QED BY <2>2, <2>3, <2>4
<1>. HIDE DEF V
<1>4. ASSUME NEW j \in DOMAIN V, NEW k \in DOMAIN V, j # k
      PROVE  Disjoint(Cover(N, V[j]), Cover(N, V[k]))
  <2>1. CASE j \in 1..n /\ k \in 1..n /\ V[j] = new[j] /\ V[k] = new[k]
    BY <1>1, <1>4, <2>1
  <2>2. ASSUME NEW i \in DOMAIN V, NEW l \in DOMAIN V,
               i \in 1..n, V[i] = new[i], NEW t \in 2..m, V[l] = W[t]
        PROVE  Disjoint(Cover(N, V[i]), Cover(N, V[l]))
    BY <1>1, <1>2, <2>2 DEF Apart, Disjoint
  <2>3. ASSUME NEW t \in 2..m, NEW u \in 2..m, t = j - n + 1, u = k - n + 1,
               V[j] = W[t], V[k] = W[u]
        PROVE  Disjoint(Cover(N, V[j]), Cover(N, V[k]))
    <3>1. j \in Int /\ k \in Int
      BY <1>3, Zenon
    <3>2. t # u
      BY <1>1, <1>4, <2>3, <3>1
    <3>. QED BY <1>2, <2>3, <3>2 DEF Apart
  <2>4. CASE j \in 1..n /\ V[j] = new[j]
    BY <1>3, <2>1, <2>2, <2>4
  <2>5. CASE \E t \in 2..m : t = j - n + 1 /\ V[j] = W[t]
    <3>1. CASE k \in 1..n /\ V[k] = new[k]
      <4>1. Disjoint(Cover(N, V[k]), Cover(N, V[j]))
        BY <2>2, <2>5, <3>1
      <4>. QED BY <4>1 DEF Disjoint
    <3>2. CASE \E u \in 2..m : u = k - n + 1 /\ V[k] = W[u]
      BY <2>3, <2>5, <3>2
    <3>. QED BY <1>3, <3>1, <3>2
  <2>. QED BY <1>3, <2>4, <2>5
<1>5. ASSUME NEW j \in DOMAIN V, NEW k \in DOMAIN A
      PROVE  Disjoint(Cover(N, V[j]), Tree(N, A[k]))
  <2>1. \A t \in 1..m : Disjoint(Cover(N, W[t]), Tree(N, A[k]))
    BY <1>1, <1>5 DEF Apart
  <2>2. CASE j \in 1..n /\ V[j] = new[j]
    BY <1>1, <1>2, <2>1, <2>2 DEF Disjoint
  <2>. QED BY <1>3, <2>1, <2>2
<1>6. ASSUME NEW j \in DOMAIN V PROVE Disjoint(Cover(N, V[j]), Q)
  <2>1. CASE j \in 1..n /\ V[j] = new[j]
    BY <1>1, <1>2, <2>1 DEF Apart, Disjoint
  <2>2. ASSUME NEW t \in 2..m, V[j] = W[t] PROVE Disjoint(Cover(N, V[j]), Q)
    BY <1>2, <2>2 DEF Apart, Disjoint
  <2>. QED BY <1>3, <2>1, <2>2
<1>7. ASSUME NEW k \in DOMAIN A PROVE Disjoint(Tree(N, A[k]), Q)
  BY <1>2, <1>7 DEF Apart, Disjoint
<1>8. Apart(N, V, A, Q)
  BY <1>4, <1>5, <1>6, <1>7 DEF Apart
<1>. QED BY <1>8 DEF V

\* An argument becomes a piece of work, or is done with.
LEMMA ArgApart ==
    ASSUME NEW S, NEW A \in Seq(S), A # <<>>, NEW N, NEW P,
           NEW W, Apart(N, <<>>, A, P),
           W = <<>> \/ \E w : W = <<w>> /\ Cover(N, w) \subseteq Tree(N, Head(A))
    PROVE  Apart(N, W, Tail(A), P)
<1>1. PICK m \in Nat \ {0} : m = Len(A)
  <2>1. Len(A) \in Nat /\ Len(A) # 0
    BY EmptySeq
  <2>. QED BY <2>1
<1>2. /\ DOMAIN Tail(A) = 1..m - 1
      /\ \A k \in 1..m - 1 : Tail(A)[k] = A[k + 1] /\ k + 1 \in DOMAIN A /\ k + 1 # 1
      /\ Head(A) = A[1] /\ 1 \in DOMAIN A
  BY <1>1, HeadTailProperties
<1>3. \A j, k \in DOMAIN Tail(A) : j # k => Disjoint(Tree(N, Tail(A)[j]), Tree(N, Tail(A)[k]))
  BY <1>2 DEF Apart
<1>4. \A j \in DOMAIN Tail(A) : Disjoint(Tree(N, Tail(A)[j]), P)
  BY <1>2 DEF Apart
<1>5. CASE W = <<>>
  BY <1>3, <1>4, <1>5 DEF Apart
<1>6. ASSUME NEW w, W = <<w>>, Cover(N, w) \subseteq Tree(N, Head(A))
      PROVE  Apart(N, W, Tail(A), P)
  <2>1. DOMAIN W = {1} /\ W[1] = w
    BY <1>6
  <2>2. \A k \in DOMAIN Tail(A) : Disjoint(Cover(N, w), Tree(N, Tail(A)[k]))
    BY <1>2, <1>6 DEF Apart, Disjoint
  <2>3. Disjoint(Cover(N, w), P)
    BY <1>2, <1>6 DEF Apart, Disjoint
  <2>. QED BY <1>3, <1>4, <2>1, <2>2, <2>3 DEF Apart
<1>. QED BY <1>5, <1>6

\* A non-empty set of numbers has a least one, and Min is one of its members.
LEMMA MinIsIn ==
    ASSUME NEW S, S \subseteq Nat, S # {}
    PROVE  Min(S) \in S
<1>1. PICK m \in S : \A n \in S : ~(<<n, m>> \in OpToRel(<, Nat))
  BY NatLessThanWellFounded, WFMin, Zenon
<1>2. \A n \in S : ~(n < m)
  BY <1>1 DEF OpToRel
<1>3. \A n \in S : m <= n
  BY <1>2
<1>. QED BY <1>3 DEF Min

\* add_file's traversal stops at a header that is equal or of the same file.
LEMMA FirstMatchIs ==
    ASSUME TypeInv, NEW h, NEW k, k = FirstMatch(h), k > 0
    PROVE  /\ k \in 1..Len(headers)
           /\ \/ header_eq(h, headers[k])
              \/ h.ftype = "file" /\ stat_eq(h.file_stats, headers[k].file_stats)
<1>. DEFINE Fits(g) == \/ header_eq(h, g)
                       \/ h.ftype = "file" /\ stat_eq(h.file_stats, g.file_stats)
            I == {i \in 1..Len(headers) : Fits(headers[i])}
<1>1. k = IF I # {} THEN Min(I) ELSE 0
  BY DEF FirstMatch, SelectInSeq
<1>2. I # {} /\ k = Min(I)
  BY <1>1
<1>3. I \subseteq Nat
  BY DEF TypeInv, WriterTyped
<1>. HIDE DEF I
<1>4. k \in I
  BY <1>2, <1>3, MinIsIn
<1>. QED BY <1>4 DEF I

LEMMA TallyKept ==
    ASSUME UNCHANGED <<source, gone>>, NEW h, Tallied(h)
    PROVE  Tallied(h)'
BY DEF Tallied, Names, NamesOf, Nlink, TypeOf, InoOf, Disjoint

\* A header with the status of a file is a header of that file.
LEMMA SameFile ==
    ASSUME TypeInv, NEW p \in Paths, TypeOf(p) = "file",
           NEW g \in Header, g.file_stats = Stat(p)
    PROVE  /\ g.ftype = "file" /\ g.file_stats.ino[1] = InoOf(p)
           /\ g.file_stats.nlink = Nlink(InoOf(p))
<1>1. /\ g.file_stats.ino = <<InoOf(p)>> /\ g.file_stats.nlink = Nlink(InoOf(p))
  BY DEF Stat
<1>2. InoOf(p) \in DOMAIN source.inode
  BY LinksCounted
<1>3. InoOf(p) \notin DOMAIN NameLen
  BY <1>2, JtarAssumption DEF TypeInv, SourceTyped
<1>4. ASSUME g.ftype # "file" PROVE FALSE
  <2>1. g.file_stats.ino \in Path
    BY <1>4, HeaderFields DEF OtherStat
  <2>2. <<InoOf(p)>> \in Seq(DOMAIN NameLen) /\ Len(<<InoOf(p)>>) = 1
    BY <1>1, <2>1 DEF Path
  <2>3. <<InoOf(p)>>[1] \in DOMAIN NameLen
    BY <2>2, ElementOfSeq
  <2>. QED BY <1>3, <2>3
<1>. QED BY <1>1, <1>4

\* While the file has as many names as the header counts, and this is one more
\* of them, there is room for it among the links.
LEMMA RoomForOneMore ==
    ASSUME TypeInv, NEW p \in Paths, TypeOf(p) = "file",
           NEW g \in Header, Tallied(g), p \notin Names(g),
           g.file_stats.ino[1] = InoOf(p), g.file_stats.nlink = Nlink(InoOf(p)),
           NEW h, h = [g EXCEPT !.hard_links = Append(@, p)]
    PROVE  /\ Len(g.hard_links) < g.file_stats.nlink - 1
           /\ Names(h) = Names(g) \cup {p} /\ Tallied(h)
<1>. DEFINE i == InoOf(p)
            All == NamesOf(i) \ gone
<1>1. i \in DOMAIN source.inode /\ Nlink(i) \in Nat
  BY LinksCounted
<1>2. /\ Names(g) \subseteq NamesOf(i) /\ Cardinality(Names(g)) = Len(g.hard_links) + 1
      /\ Names(g) \cap gone = {}
  BY DEF Tallied, Disjoint
<1>3. p \in NamesOf(i) /\ p \notin gone
  BY DEF NamesOf, Paths
<1>4. IsFiniteSet(All)
  <2>1. All \subseteq DOMAIN source.node
    BY DEF NamesOf
  <2>. QED BY <2>1, FS_Subset DEF TypeInv, SourceTyped, Source
<1>5. Names(g) \cup {p} \subseteq All
  BY <1>2, <1>3
<1>6. g.hard_links \in Seq(DOMAIN source.node)
  BY HeaderFields
<1>7. Len(g.hard_links) \in Nat
  BY <1>6
<1>8. Cardinality(Names(g) \cup {p}) = Len(g.hard_links) + 2
  <2>1. IsFiniteSet(Names(g))
    BY <1>4, <1>5, FS_Subset
  <2>2. Cardinality(Names(g) \cup {p}) = Cardinality(Names(g)) + 1
    BY <2>1, FS_AddElement
  <2>. QED BY <1>2, <1>7, <2>2
<1>9. Cardinality(Names(g) \cup {p}) <= Cardinality(All)
  BY <1>4, <1>5, FS_Subset
<1>10. Cardinality(All) <= Nlink(i) /\ Cardinality(All) \in Nat
  <2>1. source.inode[i].outside \in Nat /\ Cardinality(All) \in Nat
    BY <1>1, <1>4, FS_CardinalityType DEF TypeInv, SourceTyped, Source
  <2>. QED BY <2>1 DEF Nlink
<1>. HIDE DEF All, i
<1>11. Len(g.hard_links) < g.file_stats.nlink - 1
  <2>1. Len(g.hard_links) + 2 <= Nlink(i)
    BY <1>1, <1>7, <1>8, <1>9, <1>10
  <2>. QED BY <1>1, <1>7, <2>1 DEF i
<1>12. /\ h.file_stats = g.file_stats /\ h.tar_name = g.tar_name
       /\ h.hard_links = Append(g.hard_links, p)
  BY DEF Header, FileHeader, OtherHeader
<1>13. Names(h) = Names(g) \cup {p} /\ Len(h.hard_links) = Len(g.hard_links) + 1
  <2>1. PICK m \in Nat : m = Len(g.hard_links)
    BY <1>7
  <2>2. /\ DOMAIN h.hard_links = 1..m + 1 /\ Len(h.hard_links) = m + 1
        /\ DOMAIN g.hard_links = 1..m
        /\ h.hard_links[m + 1] = p
        /\ \A j \in 1..m : h.hard_links[j] = g.hard_links[j]
    BY <1>6, <1>12, <2>1
  <2>3. 1..m + 1 = 1..m \cup {m + 1}
    BY <2>1
  <2>. QED BY <1>12, <2>1, <2>2, <2>3 DEF Names
<1>14. Tallied(h)
  <2>1. h.file_stats.ino[1] = i /\ h.file_stats.nlink = Nlink(i)
    BY <1>12 DEF i
  <2>2. Names(h) \subseteq NamesOf(i) /\ Disjoint(Names(h), gone)
    BY <1>2, <1>3, <1>13 DEF Disjoint
  <2>3. Cardinality(Names(h)) = Len(h.hard_links) + 1
    <3>1. Cardinality(Names(h)) = Len(g.hard_links) + 2
      BY <1>8, <1>13, Zenon
    <3>2. Len(g.hard_links) + 2 = (Len(g.hard_links) + 1) + 1
      BY <1>7
    <3>. QED BY <1>13, <3>1, <3>2, Zenon
  <2>4. Nlink(i) <= Nlink(i)
    BY <1>1
  <2>. QED BY <1>1, <2>1, <2>2, <2>3, <2>4, Zenon DEF Tallied
<1>. QED BY <1>11, <1>13, <1>14

\* A name that is packed is in some header of a file.
LEMMA PackedIs ==
    ASSUME NEW hs, NEW x
    PROVE  x \in Packed(hs) <=>
              \E k \in DOMAIN hs : hs[k].ftype = "file" /\ x \in Names(hs[k])
BY DEF Packed

\* A file that is not packed yet becomes a header, or a link for which there is
\* room; nothing else is packed.
LEMMA FileAdded ==
    ASSUME TypeInv, EachTallied, NEW p \in Paths, TypeOf(p) = "file",
           p \notin Packed(headers), NEW rest, AddHeader(p, rest),
           UNCHANGED <<outer, files>>
    PROVE  /\ wpc' = "add" /\ EachTallied'
           /\ \A x \in Packed(headers') : x \in Packed(headers) \/ x = p
<1>. DEFINE h == create_header(p)
            k == FirstMatch(h)
            known == k > 0 /\ header_eq(h, headers[k])
            link == k > 0 /\ ~known
            full == link /\ Len(headers[k].hard_links) >= LinkRoom(h)
<1>1. /\ headers' \in
            IF full THEN {headers}
            ELSE IF link THEN {[headers EXCEPT ![k].hard_links = Append(@, p)]}
            ELSE IF ~known THEN {Append(headers, h)}
            ELSE {headers} \cup IF h.ftype = "dir" THEN {Append(headers, h)} ELSE {}
      /\ wpc' = IF full THEN "overrun" ELSE "add"
  BY DEF AddHeader
<1>2. /\ h.tar_name = p /\ h.ftype = "file" /\ h.file_stats = Stat(p)
      /\ h.hard_links = <<>> /\ h \in Header
  BY HeaderTyped DEF create_header
<1>3. h.file_stats.ino[1] = InoOf(p) /\ h.file_stats.nlink = Nlink(InoOf(p))
  BY <1>2, SameFile
<1>4. headers \in Seq(Header) /\ UNCHANGED <<source, gone>>
  BY DEF TypeInv, WriterTyped, outer, files
<1>5. /\ \A j \in DOMAIN headers : headers[j] \in Header
      /\ \A j \in DOMAIN headers :
            headers[j].ftype = "file" => p \notin Names(headers[j])
  BY <1>4, PackedIs
<1>. HIDE DEF h, k
<1>6. k > 0 => /\ k \in 1..Len(headers) /\ k \in DOMAIN headers
               /\ header_eq(h, headers[k]) \/ headers[k].file_stats = Stat(p)
  BY <1>2, <1>4, FirstMatchIs DEF stat_eq, k
<1>7. CASE link
  <2>1. PICK g \in Header : g = headers[k]
    BY <1>5, <1>6, <1>7
  <2>2. /\ g.ftype = "file" /\ g.file_stats.ino[1] = InoOf(p)
        /\ g.file_stats.nlink = Nlink(InoOf(p))
    BY <1>6, <1>7, <2>1, SameFile
  <2>3. Tallied(g) /\ p \notin Names(g)
    BY <1>5, <1>6, <1>7, <2>1, <2>2 DEF EachTallied
  <2>4. PICK n : n = [g EXCEPT !.hard_links = Append(@, p)]
    OBVIOUS
  <2>5. /\ Len(g.hard_links) < g.file_stats.nlink - 1
        /\ Names(n) = Names(g) \cup {p} /\ Tallied(n)
    BY <2>2, <2>3, <2>4, RoomForOneMore
  <2>6. ~full
    <3>1. g.file_stats.nlink = h.file_stats.nlink
      BY <1>3, <2>2
    <3>2. Len(g.hard_links) \in Nat /\ g.file_stats.nlink \in Nat
      BY HeaderFields
    <3>. QED BY <2>1, <2>5, <3>1, <3>2 DEF LinkRoom
  <2>7. wpc' = "add" /\ headers' = [headers EXCEPT ![k].hard_links = Append(@, p)]
    BY <1>1, <1>7, <2>6
  <2>8. /\ DOMAIN headers' = DOMAIN headers
        /\ \A j \in DOMAIN headers : headers'[j] = IF j = k THEN n ELSE headers[j]
    BY <1>4, <2>1, <2>4, <2>7
  <2>9. ASSUME NEW j \in DOMAIN headers', headers'[j].ftype = "file"
        PROVE  /\ Tallied(headers[j])'
               /\ \A x \in Names(headers'[j]) : x \in Packed(headers) \/ x = p
    <3>1. PICK r : r = headers'[j]
      OBVIOUS
    <3>2. CASE j = k
      <4>1. r = n
        BY <2>8, <2>9, <3>1, <3>2
      <4>2. Tallied(r)'
        BY <1>4, <2>5, <4>1, TallyKept
      <4>3. \A x \in Names(g) : x \in Packed(headers)
        BY <1>6, <1>7, <2>1, <2>2, PackedIs
      <4>. QED BY <2>5, <3>1, <4>1, <4>2, <4>3
    <3>3. CASE j # k
      <4>1. r = headers[j] /\ j \in DOMAIN headers /\ r.ftype = "file"
        BY <2>8, <2>9, <3>1, <3>3
      <4>2. Tallied(r)
        BY <4>1 DEF EachTallied
      <4>3. Tallied(r)'
        BY <1>4, <4>2, TallyKept
      <4>4. \A x \in Names(r) : x \in Packed(headers)
        BY <4>1, PackedIs
      <4>. QED BY <3>1, <4>3, <4>4
    <3>. QED BY <3>2, <3>3
  <2>10. EachTallied'
    BY <2>9 DEF EachTallied
  <2>11. \A x \in Packed(headers') : x \in Packed(headers) \/ x = p
    BY <2>9, PackedIs
  <2>. QED BY <2>7, <2>10, <2>11
<1>8. CASE ~link /\ headers' = headers
  <2>1. wpc' = "add"
    BY <1>1, <1>8
  <2>2. ASSUME NEW j \in DOMAIN headers', headers'[j].ftype = "file"
        PROVE  Tallied(headers[j])'
    <3>1. PICK r : r = headers'[j] /\ Tallied(r)
      BY <1>8, <2>2 DEF EachTallied
    <3>2. Tallied(r)'
      BY <1>4, <3>1, TallyKept
    <3>. QED BY <3>1, <3>2
  <2>. QED BY <1>8, <2>1, <2>2 DEF EachTallied
<1>9. CASE ~link /\ headers' = Append(headers, h)
  <2>1. wpc' = "add"
    BY <1>1, <1>9
  <2>2. /\ DOMAIN headers' = 1..Len(headers) + 1 /\ Len(headers) \in Nat
        /\ headers'[Len(headers) + 1] = h
        /\ \A j \in 1..Len(headers) : headers'[j] = headers[j] /\ j \in DOMAIN headers
    BY <1>2, <1>4, <1>9, AppendProperties
  <2>3. Names(h) = {p}
    BY <1>2 DEF Names
  <2>4. Tallied(h)
    <3>1. InoOf(p) \in DOMAIN source.inode /\ Nlink(InoOf(p)) \in Nat
      BY LinksCounted
    <3>2. p \in NamesOf(InoOf(p)) /\ p \notin gone
      BY DEF NamesOf, Paths
    <3>3. Cardinality({p}) = 1
      BY FS_Singleton, Zenon
    <3>7. Len(h.hard_links) + 1 = 1
      BY <1>2
    <3>4. Nlink(InoOf(p)) <= Nlink(InoOf(p))
      BY <3>1
    <3>5. Disjoint(Names(h), gone)
      BY <2>3, <3>2 DEF Disjoint
    <3>6. Names(h) \subseteq NamesOf(InoOf(p)) /\ Cardinality(Names(h)) = 1
      BY <2>3, <3>2, <3>3
    <3>. QED BY <1>3, <3>1, <3>4, <3>5, <3>6, <3>7, Zenon DEF Tallied
  <2>5. ASSUME NEW j \in DOMAIN headers', headers'[j].ftype = "file"
        PROVE  /\ Tallied(headers[j])'
               /\ \A x \in Names(headers'[j]) : x \in Packed(headers) \/ x = p
    <3>1. PICK r : r = headers'[j]
      OBVIOUS
    <3>2. CASE j = Len(headers) + 1
      <4>1. r = h
        BY <2>2, <3>1, <3>2
      <4>2. Tallied(r)'
        BY <1>4, <2>4, <4>1, TallyKept
      <4>. QED BY <2>3, <3>1, <4>1, <4>2
    <3>3. CASE j # Len(headers) + 1
      <4>1. j \in 1..Len(headers)
        BY <2>2, <2>5, <3>3
      <4>2. r = headers[j] /\ j \in DOMAIN headers /\ r.ftype = "file"
        BY <2>2, <2>5, <3>1, <4>1
      <4>3. Tallied(r)
        BY <4>2 DEF EachTallied
      <4>4. Tallied(r)'
        BY <1>4, <4>3, TallyKept
      <4>5. \A x \in Names(r) : x \in Packed(headers)
        BY <4>2, PackedIs
      <4>. QED BY <3>1, <4>4, <4>5
    <3>. QED BY <3>2, <3>3
  <2>6. EachTallied'
    BY <2>5 DEF EachTallied
  <2>7. \A x \in Packed(headers') : x \in Packed(headers) \/ x = p
    BY <2>5, PackedIs
  <2>. QED BY <2>1, <2>6, <2>7
<1>10. link \/ headers' \in {headers, Append(headers, h)}
  BY <1>1
<1>. QED BY <1>7, <1>8, <1>9, <1>10

\* A header of anything else packs nothing.
LEMMA OtherAdded ==
    ASSUME TypeInv, EachTallied, NEW p \in Paths, TypeOf(p) # "file",
           NEW rest, AddHeader(p, rest), UNCHANGED <<outer, files>>
    PROVE  /\ wpc' = "add" /\ EachTallied'
           /\ \A x \in Packed(headers') : x \in Packed(headers)
<1>. DEFINE h == create_header(p)
            k == FirstMatch(h)
<1>1. h.ftype # "file" /\ h \in Header
  BY HeaderTyped DEF create_header
<1>2. k > 0 => header_eq(h, headers[k])
  BY <1>1, FirstMatchIs
<1>3. wpc' = "add" /\ headers' \in {headers, Append(headers, h)}
  BY <1>2 DEF AddHeader
<1>4. headers \in Seq(Header) /\ UNCHANGED <<source, gone>>
  BY DEF TypeInv, WriterTyped, outer, files
<1>. HIDE DEF h
<1>5. ASSUME NEW j \in DOMAIN headers', headers'[j].ftype = "file"
      PROVE  j \in DOMAIN headers /\ headers'[j] = headers[j]
  <2>1. CASE headers' = headers
    BY <1>5, <2>1
  <2>2. CASE headers' = Append(headers, h)
    <3>1. /\ DOMAIN headers' = 1..Len(headers) + 1 /\ Len(headers) \in Nat
          /\ headers'[Len(headers) + 1] = h
          /\ \A i \in 1..Len(headers) : headers'[i] = headers[i] /\ i \in DOMAIN headers
      BY <1>1, <1>4, <2>2, AppendProperties
    <3>2. j # Len(headers) + 1
      BY <1>1, <1>5, <3>1
    <3>3. j \in 1..Len(headers)
      BY <1>5, <3>1, <3>2
    <3>. QED BY <3>1, <3>3
  <2>. QED BY <1>3, <2>1, <2>2
<1>6. ASSUME NEW j \in DOMAIN headers', headers'[j].ftype = "file"
      PROVE  Tallied(headers[j])'
  <2>1. PICK r : r = headers'[j] /\ Tallied(r)
    BY <1>5, <1>6 DEF EachTallied
  <2>2. Tallied(r)'
    BY <1>4, <2>1, TallyKept
  <2>. QED BY <2>1, <2>2
<1>7. EachTallied'
  BY <1>6 DEF EachTallied
<1>8. \A x \in Packed(headers') : x \in Packed(headers)
  BY <1>5, PackedIs
<1>. QED BY <1>3, <1>7, <1>8

LEMMA TypesThere ==
    ASSUME TypeInv, NEW p \in Paths
    PROVE  TypeOf(p) \in {"symlink", "file", "dir"}
BY DEF Paths, TypeOf, TypeInv, SourceTyped, Source

LEMMA EachKept ==
    ASSUME EachTallied, UNCHANGED <<source, gone, headers>>
    PROVE  EachTallied'
<1>1. ASSUME NEW j \in DOMAIN headers, headers[j].ftype = "file"
      PROVE  Tallied(headers[j])'
  <2>1. PICK r : r = headers[j] /\ Tallied(r)
    BY <1>1 DEF EachTallied
  <2>2. Tallied(r)'
    BY <2>1, TallyKept
  <2>. QED BY <2>1, <2>2
<1>. QED BY <1>1 DEF EachTallied

LEMMA PlainKept ==
    ASSUME TypeInv, PlainArgs, UNCHANGED source,
           args' = args \/ (args # <<>> /\ args' = Tail(args))
    PROVE  PlainArgs'
<1>1. args \in Seq(Path)
  BY DEF TypeInv, WriterTyped
<1>2. ASSUME NEW k \in DOMAIN args' PROVE \E j \in DOMAIN args : args'[k] = args[j]
  <2>1. CASE args' = args
    BY <1>2, <2>1
  <2>2. CASE args # <<>> /\ args' = Tail(args)
    BY <1>1, <1>2, <2>2, HeadTailProperties
  <2>. QED BY <2>1, <2>2
<1>. QED BY <1>2 DEF PlainArgs, TypeOf

\* add_file is called for the first piece of work.
LEMMA HeadAdded ==
    ASSUME TypeInv, Adding, work # <<>>, Head(work).op \in {"file", "visit"},
           NEW p \in Paths, p = Head(work).at, NEW new \in Seq(Todo),
           \/ new = <<>>
           \/ TypeOf(p) # "file" /\ new = <<[op |-> "list", at |-> p]>>,
           AddHeader(p, new \o Tail(work)), UNCHANGED <<outer, files, args>>
    PROVE  wpc' = "add" /\ Adding'
<1>. DEFINE N == DOMAIN source.node
<1>1. /\ work \in Seq(Todo) /\ p \in N /\ p \in Path /\ N \in SUBSET Path
      /\ source' = source /\ args' = args
  BY DEF TypeInv, WriterTyped, SourceTyped, Source, Paths, Path, outer
<1>2. /\ Cover(N, Head(work)) = Tree(N, p) /\ p \in Tree(N, p)
      /\ Cover(N, [op |-> "list", at |-> p]) = Tree(N, p) \ {p}
  BY <1>1, TreeFacts DEF Cover
<1>3. 1 \in DOMAIN work /\ work[1] = Head(work)
  BY <1>1, EmptySeq
<1>4. p \notin Packed(headers)
  BY <1>2, <1>3 DEF Adding, Apart, Disjoint
<1>5. /\ wpc' = "add" /\ EachTallied'
      /\ \A x \in Packed(headers') : \/ x \in Packed(headers)
                                     \/ x = p /\ TypeOf(p) = "file"
  <2>1. CASE TypeOf(p) = "file"
    BY <1>4, <2>1, FileAdded DEF Adding
  <2>2. CASE TypeOf(p) # "file"
    BY <2>2, OtherAdded DEF Adding
  <2>. QED BY <2>1, <2>2
<1>6. work' = new \o Tail(work)
  BY DEF AddHeader
<1>. HIDE DEF N
<1>7. /\ \A j \in 1..Len(new) : Cover(N, new[j]) \subseteq Cover(N, Head(work))
      /\ \A j, k \in 1..Len(new) : j = k
      /\ \A x \in Packed(headers') :
            \/ x \in Packed(headers)
            \/ /\ x \in Cover(N, Head(work))
               /\ \A j \in 1..Len(new) : x \notin Cover(N, new[j])
  <2>1. CASE new = <<>>
    <3>1. \A j : j \notin 1..Len(new)
      BY <2>1
    <3>. QED BY <1>2, <1>5, <3>1
  <2>2. CASE TypeOf(p) # "file" /\ new = <<[op |-> "list", at |-> p]>>
    <3>1. /\ \A j \in 1..Len(new) : j = 1
          /\ new[1] = [op |-> "list", at |-> p]
      BY <2>2
    <3>. QED BY <1>2, <1>5, <2>2, <3>1
  <2>. QED BY <2>1, <2>2
<1>8. Apart(N, work, args, Packed(headers))
  BY DEF Adding, N
<1>9. Apart(N, new \o Tail(work), args, Packed(headers'))
  BY <1>1, <1>7, <1>8, WorkApart
<1>10. Apart(DOMAIN source.node, work, args, Packed(headers))'
  BY <1>1, <1>6, <1>9 DEF N
<1>11. PlainArgs'
  BY <1>1, PlainKept DEF Adding
<1>. QED BY <1>5, <1>10, <1>11 DEF Adding

LEMMA AddFileOnce ==
    ASSUME TypeInv, Adding, AddFile
    PROVE  wpc' # "overrun" /\ (wpc' = "add" => Adding')
<1>1. work # <<>> /\ UNCHANGED <<outer, files, args>>
  BY DEF AddFile
<1>2. CASE Head(work).op = "file" /\ Head(work).at \in Paths
  <2>1. PICK p \in Paths : p = Head(work).at
    BY <1>2
  <2>2. AddHeader(p, Tail(work))
    BY <1>2, <2>1 DEF AddFile
  <2>3. <<>> \in Seq(Todo) /\ <<>> \o Tail(work) = Tail(work)
    BY <1>1, RestTyped, ConcatEmptySeq
  <2>4. wpc' = "add" /\ Adding'
    BY <1>1, <1>2, <2>1, <2>2, <2>3, HeadAdded
  <2>. QED BY <2>4
<1>3. CASE ~(Head(work).op = "file" /\ Head(work).at \in Paths)
  BY <1>3 DEF AddFile
<1>. QED BY <1>2, <1>3

LEMMA VisitEntryOnce ==
    ASSUME TypeInv, Adding, VisitEntry
    PROVE  wpc' # "overrun" /\ (wpc' = "add" => Adding')
<1>. DEFINE p == Head(work).at
            N == DOMAIN source.node
<1>1. /\ work # <<>> /\ Head(work).op = "visit"
      /\ UNCHANGED <<outer, files, args>>
  BY DEF VisitEntry
<1>2. /\ <<>> \in Seq(Todo) /\ <<>> \o Tail(work) = Tail(work)
      /\ work \in Seq(Todo) /\ p \in Path
  BY <1>1, RestTyped, ConcatEmptySeq DEF TypeInv, WriterTyped
<1>3. CASE p \notin Paths
  BY <1>3 DEF VisitEntry
<1>4. CASE p \in Paths
  <2>1. TypeOf(p) \in {"symlink", "file", "dir"}
    BY <1>4, TypesThere
  <2>2. CASE TypeOf(p) = "symlink"
    <3>1. work' = Tail(work) /\ UNCHANGED <<source, gone, args, wpc, headers>>
      <4>1. work' = Tail(work) /\ UNCHANGED <<wpc, headers>>
        BY <1>4, <2>2 DEF VisitEntry
      <4>. QED BY <1>1, <4>1 DEF outer, files
    <3>2. Apart(N, <<>> \o Tail(work), args, Packed(headers))
      <4>1. \A j : j \notin 1..Len(<<>>)
        OBVIOUS
      <4>2. Apart(N, work, args, Packed(headers))
        BY DEF Adding
      <4>. QED BY <1>1, <1>2, <4>1, <4>2, WorkApart
    <3>3. Apart(N, work, args, Packed(headers))'
      BY <1>2, <3>1, <3>2
    <3>4. EachTallied' /\ PlainArgs'
      BY <3>1, EachKept, PlainKept DEF Adding
    <3>5. wpc = "add"
      BY DEF VisitEntry
    <3>. QED BY <3>1, <3>3, <3>4, <3>5 DEF Adding
  <2>3. CASE TypeOf(p) = "file"
    <3>1. AddHeader(p, Tail(work))
      BY <1>4, <2>3 DEF VisitEntry
    <3>2. wpc' = "add" /\ Adding'
      BY <1>1, <1>2, <1>4, <3>1, HeadAdded
    <3>. QED BY <3>2
  <2>4. CASE TypeOf(p) = "dir"
    <3>1. AddHeader(p, <<[op |-> "list", at |-> p]>> \o Tail(work))
      BY <1>4, <2>4 DEF VisitEntry
    <3>2. [op |-> "list", at |-> p] \in Todo
      BY <1>2 DEF Todo
    <3>3. <<[op |-> "list", at |-> p]>> \in Seq(Todo)
      BY <3>2
    <3>4. PICK new \in Seq(Todo) : new = <<[op |-> "list", at |-> p]>>
      BY <3>3
    <3>5. AddHeader(p, new \o Tail(work)) /\ TypeOf(p) # "file"
      BY <2>4, <3>1, <3>4
    <3>6. wpc' = "add" /\ Adding'
      BY <1>1, <1>4, <3>4, <3>5, HeadAdded
    <3>. QED BY <3>6
  <2>. QED BY <2>1, <2>2, <2>3, <2>4
<1>. QED BY <1>3, <1>4

LEMMA AddDirOnce ==
    ASSUME TypeInv, Adding, AddDir
    PROVE  Adding'
<1>. DEFINE d == Head(work).at
            N == DOMAIN source.node
<1>1. /\ work # <<>> /\ Head(work).op = "list"
      /\ UNCHANGED <<source, gone, args, headers>>
  BY DEF AddDir, outer, files
<1>2. /\ work \in Seq(Todo) /\ d \in Path
      /\ Apart(N, work, args, Packed(headers))
      /\ Cover(N, Head(work)) = Tree(N, d) \ {d}
  BY <1>1, RestTyped DEF TypeInv, WriterTyped, Adding, Cover
<1>3. PICK order \in SetToSeqs(Entries(d)) :
          work' = [k \in DOMAIN order |-> [op |-> "visit", at |-> order[k]]] \o Tail(work)
  BY DEF AddDir
<1>4. IsFiniteSet(Entries(d))
  <2>1. Entries(d) \subseteq DOMAIN source.node
    BY DEF Entries, Paths
  <2>. QED BY <2>1, FS_Subset DEF TypeInv, SourceTyped, Source
<1>5. PICK n \in Nat : /\ order \in [1..n -> Entries(d)]
                       /\ \A j, k \in 1..n : j # k => order[j] # order[k]
  BY <1>4, FS_CardinalityType DEF SetToSeqs
<1>6. PICK new : new = [k \in 1..n |-> [op |-> "visit", at |-> order[k]]]
  OBVIOUS
<1>7. work' = new \o Tail(work)
  BY <1>3, <1>5, <1>6
<1>8. \A k \in 1..n : /\ new[k] \in Todo
                      /\ Cover(N, new[k]) = Tree(N, order[k])
  <2>1. \A k \in 1..n : order[k] \in Path
    BY <1>2, <1>5, EntryFacts
  <2>. QED BY <1>6, <2>1 DEF Todo, Cover
<1>9. new \in Seq(Todo) /\ Len(new) = n
  BY <1>6, <1>8, CountedIsSeq
<1>. HIDE DEF N
<1>10. /\ \A j \in 1..Len(new) : Cover(N, new[j]) \subseteq Cover(N, Head(work))
       /\ \A j, k \in 1..Len(new) :
             j # k => Disjoint(Cover(N, new[j]), Cover(N, new[k]))
  <2>1. N = DOMAIN source.node
    BY DEF N
  <2>. QED BY <1>2, <1>5, <1>8, <1>9, <2>1, EntryFacts
<1>11. Apart(N, new \o Tail(work), args, Packed(headers))
  BY <1>1, <1>2, <1>9, <1>10, WorkApart
<1>12. Apart(DOMAIN source.node, work, args, Packed(headers))'
  BY <1>1, <1>7, <1>11 DEF N
<1>13. EachTallied' /\ PlainArgs'
  BY <1>1, EachKept, PlainKept DEF Adding
<1>. QED BY <1>12, <1>13 DEF Adding

LEMMA AddOnce ==
    ASSUME TypeInv, Adding, Add
    PROVE  wpc' # "overrun" /\ (wpc' = "add" => Adding')
<1>. DEFINE a == Head(args)
            N == DOMAIN source.node
<1>1. /\ work = <<>> /\ args # <<>> /\ args' = Tail(args) /\ wpc = "add"
      /\ UNCHANGED <<source, gone, headers>>
  BY DEF Add, outer, files
<1>2. CASE a \notin Paths
  BY <1>2 DEF Add
<1>3. CASE a \in Paths
  <2>1. wpc' = wpc
    BY <1>3 DEF Add
  <2>2. args \in Seq(Path) /\ 1 \in DOMAIN args /\ a = args[1]
    <3>1. args \in Seq(Path)
      BY DEF TypeInv, WriterTyped
    <3>. QED BY <1>1, <3>1, EmptySeq
  <2>3. TypeOf(a) \in {"symlink", "file", "dir"}
    BY <1>3, TypesThere
  <2>4. TypeOf(a) = "file" => Len(a) = 1
    BY <2>2 DEF Adding, PlainArgs
  <2>5. work' = <<>> \/ \E w : work' = <<w>> /\ Cover(N, w) \subseteq Tree(N, a)
    <3>1. CASE TypeOf(a) = "symlink"
      BY <1>3, <3>1 DEF Add
    <3>2. CASE TypeOf(a) = "dir"
      <4>1. work' = <<[op |-> "list", at |-> a]>>
        BY <1>3, <3>2 DEF Add
      <4>2. Cover(N, [op |-> "list", at |-> a]) \subseteq Tree(N, a)
        BY DEF Cover
      <4>. QED BY <4>1, <4>2
    <3>3. CASE TypeOf(a) = "file"
      <4>1. work' = <<[op |-> "file", at |-> a]>>
        BY <1>3, <2>4, <3>3 DEF Add
      <4>2. Cover(N, [op |-> "file", at |-> a]) \subseteq Tree(N, a)
        BY DEF Cover
      <4>. QED BY <4>1, <4>2
    <3>. QED BY <2>3, <3>1, <3>2, <3>3
  <2>6. Apart(N, <<>>, args, Packed(headers))
    BY <1>1 DEF Adding
  <2>. HIDE DEF N
  <2>7. PICK W : W = work'
    OBVIOUS
  <2>8. Apart(N, W, Tail(args), Packed(headers))
    BY <1>1, <2>2, <2>5, <2>6, <2>7, ArgApart
  <2>9. Apart(DOMAIN source.node, work, args, Packed(headers))'
    BY <1>1, <2>7, <2>8 DEF N
  <2>10. EachTallied' /\ PlainArgs'
    BY <1>1, EachKept, PlainKept DEF Adding
  <2>. QED BY <1>1, <2>1, <2>9, <2>10 DEF Adding
<1>. QED BY <1>2, <1>3

\* Another process removes a name: the file has fewer names than any header of
\* it that holds this name counts.
LEMMA UnlinkOnce ==
    ASSUME TypeInv, EachTallied, NEW p \in Paths, Unlink(p)
    PROVE  EachTallied'
<1>1. UNCHANGED <<source, headers>> /\ gone' = gone \cup {p} /\ p \notin gone
  BY DEF Unlink, outer, writer, Paths
<1>2. ASSUME NEW h \in Header, Tallied(h)
      PROVE  Tallied(h)'
  <2>. DEFINE i == h.file_stats.ino[1]
              All == NamesOf(i) \ gone
  <2>1. /\ i \in DOMAIN source.inode /\ Names(h) \subseteq NamesOf(i)
        /\ Cardinality(Names(h)) = Len(h.hard_links) + 1
        /\ Nlink(i) <= h.file_stats.nlink
        /\ Nlink(i) = h.file_stats.nlink => Disjoint(Names(h), gone)
    BY <1>2 DEF Tallied
  <2>2. h.file_stats.nlink \in Nat /\ source.inode[i].outside \in Nat
    BY <2>1, HeaderFields DEF TypeInv, SourceTyped, Source
  <2>3. IsFiniteSet(All) /\ Cardinality(All) \in Nat
    <3>1. All \subseteq DOMAIN source.node
      BY DEF NamesOf
    <3>2. IsFiniteSet(All)
      BY <3>1, FS_Subset DEF TypeInv, SourceTyped, Source
    <3>. QED BY <3>2, FS_CardinalityType
  <2>4. NamesOf(i)' = NamesOf(i) /\ Names(h)' = Names(h)
    BY <1>1 DEF NamesOf, TypeOf, InoOf, Names
  <2>5. Nlink(i)' = Cardinality(All \ {p}) + source.inode[i].outside
    <3>1. NamesOf(i)' \ gone' = All \ {p}
      BY <1>1, <2>4
    <3>2. Nlink(i)' = Cardinality(NamesOf(i)' \ gone') + source'.inode[i].outside
      BY DEF Nlink
    <3>. QED BY <1>1, <3>1, <3>2
  <2>6. Nlink(i) = Cardinality(All) + source.inode[i].outside
    BY DEF Nlink
  <2>7. Cardinality(All \ {p}) = IF p \in All THEN Cardinality(All) - 1 ELSE Cardinality(All)
    BY <2>3, FS_RemoveElement
  <2>8. p \in NamesOf(i) <=> p \in All
    BY <1>1
  <2>. HIDE DEF i, All
  <2>9. /\ Nlink(i)' <= h.file_stats.nlink
        /\ Nlink(i)' = h.file_stats.nlink =>
              p \notin NamesOf(i) /\ Nlink(i) = h.file_stats.nlink
    <3>1. PICK a \in Nat, o \in Nat, l \in Nat :
              a = Cardinality(All) /\ o = source.inode[i].outside /\ l = h.file_stats.nlink
      BY <2>2, <2>3
    <3>2. CASE p \in All
      <4>1. Nlink(i)' = (a - 1) + o /\ a + o <= l
        BY <2>1, <2>5, <2>6, <2>7, <3>1, <3>2
      <4>. QED BY <3>1, <4>1
    <3>3. CASE p \notin All
      <4>1. Nlink(i)' = a + o /\ Nlink(i) = a + o /\ a + o <= l
        BY <2>1, <2>5, <2>6, <2>7, <3>1, <3>3
      <4>. QED BY <2>8, <3>1, <3>3, <4>1
    <3>. QED BY <3>2, <3>3
  <2>10. Nlink(i)' = h.file_stats.nlink => Disjoint(Names(h), gone')
    BY <1>1, <2>1, <2>9 DEF Disjoint
  <2>. QED BY <1>1, <2>1, <2>4, <2>9, <2>10 DEF Tallied, Disjoint, i
<1>3. ASSUME NEW j \in DOMAIN headers, headers[j].ftype = "file"
      PROVE  Tallied(headers[j])'
  <2>1. PICK r \in Header : r = headers[j] /\ Tallied(r)
    BY <1>3 DEF EachTallied, TypeInv, WriterTyped
  <2>2. Tallied(r)'
    BY <1>2, <2>1
  <2>. QED BY <1>1, <2>1, <2>2
<1>. QED BY <1>1, <1>3 DEF EachTallied

\* Every step keeps to that.
LEMMA StepOnce ==
    ASSUME TypeInv, OnceInv, [Next]_vars
    PROVE  OnceInv'
<1>1. CASE Add \/ AddFile \/ AddDir \/ VisitEntry
  <2>1. wpc = "add" /\ UNCHANGED <<source, command>>
    BY <1>1 DEF Add, AddFile, AddDir, VisitEntry, outer
  <2>2. AddDir => wpc' = wpc
    BY DEF AddDir
  <2>3. ASSUME Plain, ~Repeated
        PROVE  wpc' # "overrun" /\ (wpc' = "add" => Adding')
    <3>1. Adding
      BY <2>1, <2>3 DEF OnceInv
    <3>. QED BY <1>1, <2>1, <2>2, <3>1, AddOnce, AddFileOnce, AddDirOnce, VisitEntryOnce
  <2>4. Plain' = Plain /\ Repeated' = Repeated
    BY <2>1 DEF Plain, Repeated, TypeOf
  <2>. QED BY <2>3, <2>4 DEF OnceInv
<1>2. CASE StartPrinting \/ PrintHeader \/ PrintData \/ StopPrinting
  <2>1. wpc' \in {"header", "data", "exit", "done"}
    BY <1>2 DEF StartPrinting, PrintHeader, PrintData, StopPrinting
  <2>. QED BY <2>1 DEF OnceInv
<1>3. CASE ReaderStep \/ ExtractAgain \/ Editor \/ UNCHANGED vars
  <2>1. UNCHANGED <<source, command, writer>>
    BY <1>3 DEF ReaderStep, ReadRecord, RecreateLink, LastLink, EndOfArchive,
        RecreateDir, Finish, ExtractAgain, Editor, Rewrite, Unlink, outer, vars
  <2>2. EachTallied => EachTallied'
    <3>1. CASE UNCHANGED gone
      BY <2>1, <3>1, EachKept DEF writer
    <3>2. CASE \E p \in Paths : Unlink(p)
      BY <3>2, UnlinkOnce
    <3>3. UNCHANGED gone \/ \E p \in Paths : Unlink(p)
      BY <1>3 DEF ReaderStep, ReadRecord, RecreateLink, LastLink, EndOfArchive,
          RecreateDir, Finish, ExtractAgain, Editor, Rewrite, files, vars
    <3>. QED BY <3>1, <3>2, <3>3
  <2>3. PlainArgs => PlainArgs'
    BY <2>1, PlainKept DEF writer
  <2>4. Adding => Adding'
    BY <2>1, <2>2, <2>3 DEF Adding, writer
  <2>5. Plain' = Plain /\ Repeated' = Repeated /\ wpc' = wpc
    BY <2>1 DEF Plain, Repeated, TypeOf, writer
  <2>. QED BY <2>4, <2>5 DEF OnceInv
<1>. QED BY <1>1, <1>2, <1>3 DEF Next, WriterStep

LEMMA InitOnce ==
    ASSUME TypeInv, Init
    PROVE  OnceInv
<1>. SUFFICES ASSUME Plain, ~Repeated PROVE wpc # "overrun" /\ Adding
  BY DEF OnceInv
<1>. DEFINE N == DOMAIN source.node
<1>1. wpc = "add" /\ args = command /\ work = <<>> /\ headers = <<>>
  BY DEF Init
<1>2. N \in SUBSET Path /\ args \in Seq(Path)
  BY DEF TypeInv, SourceTyped, Source, WriterTyped, Path
<1>3. Packed(headers) = {}
  BY <1>1 DEF Packed
<1>4. \A j, k \in DOMAIN args : j # k => Disjoint(Tree(N, args[j]), Tree(N, args[k]))
  <2>1. ASSUME NEW j \in DOMAIN args, NEW k \in DOMAIN args, j # k
        PROVE  Disjoint(Tree(N, args[j]), Tree(N, args[k]))
    <3>1. ~IsPrefix(args[j], args[k]) /\ ~IsPrefix(args[k], args[j])
      BY <1>1, <2>1 DEF Repeated
    <3>2. args[j] \in Path /\ args[k] \in Path
      BY <1>2
    <3>. QED BY <1>2, <3>1, <3>2, TreeFacts
  <2>. QED BY <2>1
<1>5. Apart(N, work, args, Packed(headers))
  BY <1>1, <1>3, <1>4 DEF Apart, Disjoint
<1>6. PlainArgs
  BY <1>1 DEF Plain, PlainArgs
<1>7. EachTallied
  BY <1>1 DEF EachTallied
<1>. QED BY <1>1, <1>5, <1>6, <1>7 DEF Adding
------------------------------------------------------------------------------
(* The theorems. *)

LEMMA Invariant == Spec => [](TypeInv /\ FrameInv /\ OnceInv)
<1>1. Init => TypeInv /\ FrameInv /\ OnceInv
  BY InitTyped, InitFramed, InitOnce
<1>2. TypeInv /\ FrameInv /\ OnceInv /\ [Next]_vars => (TypeInv /\ FrameInv /\ OnceInv)'
  BY StepTyped, StepFramed, StepOnce
<1>. QED BY <1>1, <1>2, PTL DEF Spec

\* Whatever the tree, the arguments and the changes to the files, the variables
\* have their types; in particular every name of a file in the target leads to
\* its data. Of read_tar's array it says nothing: a write past it is possible,
\* and ends in "overrun", which the types allow.
THEOREM TypeCorrect == Spec => []TypeOK
<1>1. TypeInv => TypeOK
  <2>. SUFFICES ASSUME TypeInv PROVE TypeOK
    OBVIOUS
  <2>1. Source(source) /\ command \in Commands /\ gone \subseteq DOMAIN source.node
    BY DEF TypeInv, SourceTyped, FilesTyped
  <2>2. \A i \in DOMAIN source.inode : size[i] \in Sizes /\ version[i] \in {0, 1}
    BY DEF TypeInv, FilesTyped
  <2>3. WriterType
    <3>1. \A k \in DOMAIN work : /\ work[k].op \in {"list", "file", "fail", "visit"}
                                 /\ work[k].at \in Seq(DOMAIN NameLen)
      <4>1. ASSUME NEW k \in DOMAIN work
            PROVE  work[k].op \in {"list", "file", "fail", "visit"} /\ work[k].at \in Path
        <5>1. work[k] \in Todo
          BY DEF TypeInv, WriterTyped
        <5>. QED BY <5>1 DEF Todo
      <4>. QED BY <4>1 DEF Path
    <3>2. ASSUME NEW k \in DOMAIN headers
          PROVE  /\ headers[k].tar_name \in DOMAIN source.node
                 /\ \A j \in DOMAIN headers[k].hard_links :
                       headers[k].hard_links[j] \in DOMAIN source.node
      <4>1. PICK h \in Header : h = headers[k]
        BY DEF TypeInv, WriterTyped
      <4>2. h.tar_name \in DOMAIN source.node /\ h.hard_links \in Seq(DOMAIN source.node)
        BY HeaderFields
      <4>. QED BY <4>1, <4>2
    <3>3. ASSUME NEW k \in DOMAIN stream PROVE stream[k].kind \in {"head", "link", "byte"}
      <4>1. stream[k] \in Token
        BY DEF TypeInv, WriterTyped
      <4>. QED BY <4>1, TokenFields
    <3>4. /\ wpc \in {"add", "header", "data", "done", "exit", "overrun"}
          /\ IsSuffix(args, command) /\ next \in 1..Len(headers) + 1
      BY DEF TypeInv, WriterTyped
    <3>. QED BY <3>1, <3>2, <3>3, <3>4 DEF WriterType
  <2>4. ReaderType
    BY DEF TypeInv, ReaderTyped, ReaderType, Path
  <2>. QED BY <2>1, <2>2, <2>3, <2>4 DEF TypeOK
<1>. QED BY <1>1, Invariant, PTL

\* The reader never takes contents for a header (print_tar, read_tar).
THEOREM NeverCorruptHolds == Spec => []NeverCorrupt
<1>1. FrameInv => NeverCorrupt
  BY DEF FrameInv, ReaderInFrame, NeverCorrupt
<1>. QED BY <1>1, Invariant, PTL

\* If the archive ends in the middle of a file the reader does not report
\* success (print_tar, recreate_file).
THEOREM CutNoticedHolds == Spec => []CutNoticed
<1>1. FrameInv => CutNoticed
  <2>. SUFFICES ASSUME FrameInv, wpc = "exit", rpc = "done" PROVE stream = <<>>
    BY DEF CutNoticed
  <2>1. Boundary(pos) /\ pos = Len(stream)
    BY DEF FrameInv, ReaderInFrame
  <2>. QED BY <2>1 DEF Boundary, Whole
<1>. QED BY <1>1, Invariant, PTL

\* Unless what the user asks for names a file twice, the links that add_file
\* finds for a header never outnumber the places that header has, however many
\* names of the file come and go meanwhile (add, add_dir, add_file).
THEOREM OverrunOnlyOnRepeatHolds == Spec => []OverrunOnlyOnRepeat
<1>1. OnceInv => OverrunOnlyOnRepeat
  BY DEF OnceInv, Repeated, OverrunOnlyOnRepeat
<1>. QED BY <1>1, Invariant, PTL
------------------------------------------------------------------------------
(* What was packed comes back. *)

\* What one argument asks for, and what the arguments so far do.
Wanted(a) == {q \in DOMAIN source.node :
                 \/ TypeOf(q) = "file" /\ IsPrefix(a, q)
                 \/ TypeOf(q) = "dir" /\ IsStrictPrefix(a, q)}
Due == UNION {Wanted(command[k]) : k \in 1..Len(command) - Len(args)}

\* What is in the list of headers, and what is still to be added.
NamesIn(hs) == UNION {Names(hs[k]) : k \in DOMAIN hs}
Held == NamesIn(headers)
InWork(q) == \E j \in DOMAIN work : q \in Cover(DOMAIN source.node, work[j])

\* A header of a file holds names of it that were asked for and has room for its
\* links, and while nobody touches the file it says what lstat would.
Ino(h) == h.file_stats.ino[1]
OfFile(h) ==
    /\ h.ftype = "file" /\ Names(h) \subseteq AskedFiles \cap NamesOf(Ino(h))
    /\ Len(h.hard_links) <= h.file_stats.nlink - 1
    /\ ~Touched(Ino(h)) => h.file_stats = Stat(h.tar_name)
OfDir(h) ==
    /\ h.ftype = "dir" /\ h.tar_name \in AskedDirs /\ h.hard_links = <<>>
    /\ h.file_stats.mode = source.node[h.tar_name].mode
AllTrue(hs) == \A k \in DOMAIN hs : OfFile(hs[k]) \/ OfDir(hs[k])

\* A file nobody has touched has one header.
OneEach(hs) ==
    \A j, k \in DOMAIN hs :
       /\ j # k /\ hs[j].ftype = "file" /\ hs[k].ftype = "file"
       /\ Ino(hs[j]) = Ino(hs[k])
       => Touched(Ino(hs[k]))

\* Directories come before those that are in them.
Earlier(hs, k, d) == \E j \in 1..k - 1 : hs[j].ftype = "dir" /\ hs[j].tar_name = d
InOrder(hs) ==
    \A k \in DOMAIN hs, d \in AskedDirs :
       hs[k].ftype = "dir" /\ IsStrictPrefix(d, hs[k].tar_name) => Earlier(hs, k, d)

\* The work is on what was asked for, and the directories it is in are done with.
Below(d, w) == IsStrictPrefix(d, w.at) \/ (w.op = "list" /\ d = w.at)
Sensible(w) ==
    /\ w.at \in DOMAIN source.node
    /\ \/ /\ w.op = "list" /\ TypeOf(w.at) = "dir"
          /\ \E k \in DOMAIN command : IsPrefix(command[k], w.at)
       \/ w.op = "file" /\ w.at \in AskedFiles
       \/ /\ w.op = "visit"
          /\ \E k \in DOMAIN command : IsStrictPrefix(command[k], w.at)
    /\ ~InnerFirst => \A d \in AskedDirs : Below(d, w) => d \in Held

Gathered ==
    /\ \A p \in gone : TypeOf(p) = "file"
    /\ \A i \in DOMAIN source.inode : version[i] = 0 => size[i] = source.inode[i].size
    /\ AllTrue(headers) /\ OneEach(headers) /\ (~InnerFirst => InOrder(headers))
    /\ wpc = "add" => \A j \in DOMAIN work : Sensible(work[j])
    /\ wpc \in {"add", "header", "data", "done"} =>
          \A q \in Due : q \in gone \/ q \in Held \/ InWork(q)
    /\ wpc \in {"header", "data", "done"} => work = <<>> /\ args = <<>>

\* A header in the stream, and the names and bytes after that of a file.
HeadAt(k) == k \in 1..Len(stream) /\ stream[k].kind = "head"
FileAt(k) == HeadAt(k) /\ stream[k].val.ftype = "file"
DirAt(k) == HeadAt(k) /\ stream[k].val.ftype = "dir"
NamesFollow(k, h) ==
    \A j \in 1..h.file_stats.nlink - 1 : stream[k + j].val = LinkNames(h)[j]
BytesFollow(k, h) ==
    \A j \in 1..h.file_stats.size : k + h.file_stats.nlink - 1 + j <= Len(stream) =>
       /\ stream[k + h.file_stats.nlink - 1 + j].kind = "byte"
       /\ ~Touched(Ino(h)) => stream[k + h.file_stats.nlink - 1 + j].val = <<Ino(h), 0>>

Follow(k) == NamesFollow(k, stream[k].val) /\ BytesFollow(k, stream[k].val)
OuterBefore(k) ==
    \A d \in AskedDirs : IsStrictPrefix(d, stream[k].val.tar_name) =>
       \E j \in 1..k - 1 : DirAt(j) /\ stream[j].val.tar_name = d
ListAt(k) == \E j \in DOMAIN headers : stream[k].val = headers[j]
Shown(h) == \E k : HeadAt(k) /\ stream[k].val = h

Printed ==
    /\ wpc = "add" => next = 1
    /\ wpc = "done" => next = Len(headers) + 1
    /\ \A k : HeadAt(k) => ListAt(k)
    /\ \A j \in 1..next - 1 : Shown(headers[j])
    /\ wpc = "data" => Shown(headers[next])
    /\ ~InnerFirst => \A k : DirAt(k) => OuterBefore(k)
    /\ \A k : FileAt(k) => Follow(k)

\* What the reader has made so far.
MadeOf(p, h) ==
    /\ p \in Names(h) /\ h.tar_name \in DOMAIN target.file
    /\ target.file[p] = target.file[h.tar_name]
Good(i) == [bytes |-> [k \in 1..source.inode[i].size |-> <<i, 0>>],
            mode |-> source.inode[i].mode]
FilesMade ==
    /\ \A p \in DOMAIN target.file : \E k : FileAt(k) /\ MadeOf(p, stream[k].val)
    /\ \A p, q \in DOMAIN target.file :
          target.file[p] = target.file[q] => InoOf(p) = InoOf(q)
    /\ \E n \in Nat : DOMAIN target.data = 1..n
    /\ \A p \in DOMAIN target.file :
          ~Touched(InoOf(p)) => target.data[target.file[p]] = Good(InoOf(p))

\* What it has read is there, or is among the links it has yet to make.
Awaited == {links.names[j] : j \in DOMAIN links.names}
Taken(k) == Names(stream[k].val) \subseteq DOMAIN target.file \cup Awaited
Linking(k) ==
    /\ FileAt(k) /\ stream[k].val.tar_name \in DOMAIN target.file
    /\ links.of = target.file[stream[k].val.tar_name]
    /\ Awaited \subseteq Names(stream[k].val) \cup {<<>>}
NamesMade ==
    /\ rpc \in {"read", "link", "dirs", "done"} => \A k \in 1..pos : FileAt(k) => Taken(k)
    /\ rpc = "link" => \E k : Linking(k)
    /\ rpc \in {"read", "dirs", "done"} => links.names = <<>>

\* Every directory is in the array, or is finished and will not change again.
Restored(d) == /\ d \in DOMAIN target.dir
               /\ target.dir[d].mode = source.node[d].mode
               /\ target.dir[d].time = "stored" \/ InnerFirst
InDirs(d) == \E j \in DOMAIN dirs : dirs[j].tar_name = d
DirsMade ==
    /\ \A j \in DOMAIN dirs : \E k : DirAt(k) /\ dirs[j] = stream[k].val
    /\ ~InnerFirst => InOrder(dirs)
    /\ rpc \in {"read", "link"} => \A k \in 1..pos : DirAt(k) => InDirs(stream[k].val.tar_name)
    /\ rpc \in {"dirs", "done"} /\ wpc = "done" =>
          \A d \in AskedDirs : InDirs(d) \/ Restored(d)
    /\ rpc = "done" => dirs = <<>>

TripInv == Plain => Gathered /\ Printed /\ FilesMade /\ NamesMade /\ DirsMade
------------------------------------------------------------------------------
(* What was packed comes back: the lists of headers. *)

\* What depends on the tree and the arguments alone stays.
LEMMA AskedStays ==
    ASSUME UNCHANGED outer
    PROVE  /\ source' = source /\ command' = command
           /\ Plain' = Plain /\ InnerFirst' = InnerFirst
           /\ AskedFiles' = AskedFiles /\ AskedDirs' = AskedDirs
           /\ \A i : NamesOf(i)' = NamesOf(i)
           /\ \A p : TypeOf(p)' = TypeOf(p) /\ InoOf(p)' = InoOf(p)
           /\ \A a : Wanted(a)' = Wanted(a)
<1>1. source' = source /\ command' = command
  BY DEF outer
<1>2. Plain' = Plain /\ InnerFirst' = InnerFirst
  BY <1>1 DEF Plain, InnerFirst, TypeOf
<1>3. AskedFiles' = AskedFiles /\ AskedDirs' = AskedDirs
  BY <1>1 DEF AskedFiles, AskedDirs, Asked, TypeOf
<1>4. \A i : NamesOf(i)' = NamesOf(i)
  BY <1>1 DEF NamesOf, TypeOf, InoOf
<1>5. \A p : TypeOf(p)' = TypeOf(p) /\ InoOf(p)' = InoOf(p)
  BY <1>1 DEF TypeOf, InoOf
<1>6. \A a : Wanted(a)' = Wanted(a)
  BY <1>1 DEF Wanted, TypeOf
<1>. QED BY <1>1, <1>2, <1>3, <1>4, <1>5, <1>6

\* As long as nobody touches a file, lstat says the same of it; a file that has
\* been touched stays so.
LEMMA StatStays ==
    ASSUME TypeInv, UNCHANGED outer, UNCHANGED files \/ Editor
    PROVE  /\ \A i \in DOMAIN source.inode : Touched(i) => Touched(i)'
           /\ \A i \in DOMAIN source.inode : \A p \in NamesOf(i) :
                 Touched(i)' \/ Stat(p)' = Stat(p)
           /\ gone \subseteq gone'
           /\ \A i \in DOMAIN source.inode :
                 version'[i] = 0 => version[i] = 0 /\ size'[i] = size[i]
<1>1. /\ source' = source /\ \A i : NamesOf(i)' = NamesOf(i)
      /\ \A p : TypeOf(p)' = TypeOf(p) /\ InoOf(p)' = InoOf(p)
  BY AskedStays
<1>3. /\ version \in [DOMAIN source.inode -> {0, 1}]
      /\ size \in [DOMAIN source.inode -> Sizes]
  BY DEF TypeInv, FilesTyped
<1>4. ASSUME NEW j \in DOMAIN source.inode
      PROVE  /\ gone \subseteq gone' /\ version'[j] \in {0, 1}
             /\ version[j] > 0 => version'[j] > 0
             /\ version'[j] = 0 => version[j] = 0 /\ size'[j] = size[j]
  <2>1. CASE UNCHANGED files
    BY <1>3, <2>1 DEF files
  <2>2. ASSUME NEW i \in DOMAIN version, Rewrite(i) PROVE <1>4!2
    <3>1. /\ gone' = gone /\ version' = [version EXCEPT ![i] = 1]
          /\ \E n \in Sizes : size' = [size EXCEPT ![i] = n]
      BY <2>2 DEF Rewrite
    <3>. QED BY <1>3, <3>1
  <2>3. ASSUME NEW p \in Paths, Unlink(p) PROVE <1>4!2
    BY <1>3, <2>3 DEF Unlink
  <2>. QED BY <2>1, <2>2, <2>3 DEF Editor
<1>5. ASSUME NEW i \in DOMAIN source.inode, Touched(i) PROVE Touched(i)'
  BY <1>1, <1>4, <1>5 DEF Touched
<1>6. ASSUME NEW i \in DOMAIN source.inode, NEW p \in NamesOf(i), ~Touched(i)'
      PROVE  Stat(p)' = Stat(p)
  <2>1. TypeOf(p) = "file" /\ InoOf(p) = i
    BY DEF NamesOf
  <2>2. ~(version'[i] > 0) /\ NamesOf(i) \cap gone' = {}
    BY <1>1, <1>6, <2>1 DEF Touched
  <2>3. version'[i] = 0 /\ version[i] = 0 /\ size'[i] = size[i]
    BY <1>4, <2>2
  <2>4. NamesOf(i) \ gone' = NamesOf(i) \ gone
    BY <1>4, <2>1, <2>2
  <2>5. Nlink(i)' = Nlink(i)
    <3>1. Nlink(i)' = Cardinality(NamesOf(i)' \ gone') + source'.inode[i].outside
      BY DEF Nlink
    <3>. QED BY <1>1, <2>4, <3>1 DEF Nlink
  <2>6. TypeOf(p)' = "file" /\ InoOf(p)' = i
    BY <1>1, <1>6, <2>1
  <2>. QED BY <1>1, <1>6, <2>1, <2>3, <2>5, <2>6 DEF Stat
<1>7. \A i \in DOMAIN source.inode : \A p \in NamesOf(i) :
         Touched(i)' \/ Stat(p)' = Stat(p)
  BY <1>6
<1>8. gone \subseteq gone'
  <2>1. CASE UNCHANGED files
    BY <2>1 DEF files
  <2>. QED BY <2>1 DEF Editor, Rewrite, Unlink
<1>. QED BY <1>4, <1>5, <1>7, <1>8

\* So a header stays true, while the list of headers stays or becomes longer.
LEMMA TrueStays ==
    ASSUME TypeInv, UNCHANGED outer, UNCHANGED files \/ Editor, NEW h \in Header
    PROVE  /\ OfFile(h) => OfFile(h)'
           /\ OfDir(h) => OfDir(h)'
<1>1. /\ source' = source /\ AskedFiles' = AskedFiles /\ AskedDirs' = AskedDirs
      /\ NamesOf(Ino(h))' = NamesOf(Ino(h)) /\ Names(h)' = Names(h) /\ Ino(h)' = Ino(h)
  BY AskedStays DEF Names, Ino
<1>2. ASSUME OfFile(h) PROVE OfFile(h)'
  <2>1. /\ h.ftype = "file" /\ Names(h) \subseteq AskedFiles \cap NamesOf(Ino(h))
        /\ Len(h.hard_links) <= h.file_stats.nlink - 1
        /\ ~Touched(Ino(h)) => h.file_stats = Stat(h.tar_name)
    BY <1>2 DEF OfFile
  <2>2. h.tar_name \in NamesOf(Ino(h))
    BY <2>1 DEF Names
  <2>3. Ino(h) \in DOMAIN source.inode
    BY <2>2 DEF NamesOf, TypeInv, SourceTyped, Source, TypeOf, InoOf
  <2>4. Touched(Ino(h))' \/ Stat(h.tar_name)' = Stat(h.tar_name)
    BY <2>2, <2>3, StatStays
  <2>5. Touched(Ino(h)) => Touched(Ino(h))'
    BY <2>3, StatStays
  <2>6. h.file_stats = Stat(h.tar_name)' \/ Touched(Ino(h))'
    BY <2>1, <2>4, <2>5
  <2>. QED BY <1>1, <2>1, <2>6 DEF OfFile
<1>3. ASSUME OfDir(h) PROVE OfDir(h)'
  BY <1>1, <1>3 DEF OfDir
<1>. QED BY <1>2, <1>3

LEMMA ListStays ==
    ASSUME TypeInv, UNCHANGED outer, UNCHANGED files \/ Editor,
           NEW hs \in Seq(Header)
    PROVE  /\ AllTrue(hs) => AllTrue(hs)'
           /\ AllTrue(hs) /\ OneEach(hs) => OneEach(hs)'
           /\ InOrder(hs)' = InOrder(hs) /\ NamesIn(hs)' = NamesIn(hs)
<1>1. \A k \in DOMAIN hs : hs[k] \in Header
  OBVIOUS
<1>2. ASSUME AllTrue(hs), NEW k \in DOMAIN hs PROVE (OfFile(hs[k]) \/ OfDir(hs[k]))'
  <2>1. PICK h \in Header : h = hs[k] /\ (OfFile(h) \/ OfDir(h))
    BY <1>1, <1>2 DEF AllTrue
  <2>2. (OfFile(h) \/ OfDir(h))'
    BY <2>1, TrueStays
  <2>. QED BY <2>1, <2>2
<1>3. ASSUME AllTrue(hs), OneEach(hs), NEW j \in DOMAIN hs, NEW k \in DOMAIN hs, j # k,
             hs[j].ftype = "file", hs[k].ftype = "file", Ino(hs[j]) = Ino(hs[k])
      PROVE  Touched(Ino(hs[k]))'
  <2>1. PICK i : i = Ino(hs[k])
    OBVIOUS
  <2>2. Touched(i)
    BY <1>3, <2>1 DEF OneEach
  <2>3. i \in DOMAIN source.inode
    <3>1. hs[k].file_stats \in FileStat
      BY <1>1, <1>3, HeaderFields
    <3>. QED BY <2>1, <3>1 DEF FileStat, Ino
  <2>4. Touched(i)'
    BY <2>2, <2>3, StatStays
  <2>. QED BY <2>1, <2>4 DEF Ino
<1>4. InOrder(hs)' = InOrder(hs)
  BY AskedStays DEF InOrder, Earlier
<1>5. NamesIn(hs)' = NamesIn(hs)
  BY DEF NamesIn, Names
<1>6. AllTrue(hs) => AllTrue(hs)'
  BY <1>2 DEF AllTrue
<1>7. AllTrue(hs) /\ OneEach(hs) => OneEach(hs)'
  BY <1>3 DEF OneEach, Ino
<1>. QED BY <1>4, <1>5, <1>6, <1>7

\* When add_file's traversal stops nowhere, there is no such header.
LEMMA NoMatch ==
    ASSUME TypeInv, NEW h, ~(FirstMatch(h) > 0), h.ftype = "file",
           NEW j \in DOMAIN headers
    PROVE  headers[j].file_stats # h.file_stats
<1>. DEFINE Fits(g) == \/ header_eq(h, g)
                       \/ h.ftype = "file" /\ stat_eq(h.file_stats, g.file_stats)
            I == {i \in 1..Len(headers) : Fits(headers[i])}
<1>1. FirstMatch(h) = IF I # {} THEN Min(I) ELSE 0
  BY DEF FirstMatch, SelectInSeq
<1>2. I \subseteq Nat /\ \A i \in I : i > 0
  BY DEF TypeInv, WriterTyped
<1>3. DOMAIN headers = 1..Len(headers)
  BY DEF TypeInv, WriterTyped
<1>4. I # {} => Min(I) \in I
  <2>. HIDE DEF I
  <2>. QED BY <1>2, MinIsIn
<1>5. I = {}
  <2>. HIDE DEF I
  <2>. QED BY <1>1, <1>2, <1>4
<1>. QED BY <1>3, <1>5 DEF stat_eq

\* What add_file makes of a path: a header that is there, a link, a new header.
LEMMA AddHeaderCases ==
    ASSUME TypeInv, NEW p \in Paths, NEW rest, AddHeader(p, rest)
    PROVE  \/ headers' = headers /\ wpc' = "overrun"
           \/ /\ headers' = headers /\ wpc' = "add"
              /\ \E k \in DOMAIN headers : headers[k].tar_name = p
           \/ /\ wpc' = "add" /\ TypeOf(p) = "file"
              /\ \E k \in DOMAIN headers :
                    /\ headers[k].file_stats = Stat(p)
                    /\ Len(headers[k].hard_links) < headers[k].file_stats.nlink - 1
                    /\ headers' = [headers EXCEPT ![k].hard_links = Append(@, p)]
           \/ /\ wpc' = "add" /\ headers' = Append(headers, create_header(p))
              /\ TypeOf(p) = "file" =>
                    \A j \in DOMAIN headers : headers[j].file_stats # Stat(p)
<1>. DEFINE h == create_header(p)
            k == FirstMatch(h)
            known == k > 0 /\ header_eq(h, headers[k])
            link == k > 0 /\ ~known
            full == link /\ Len(headers[k].hard_links) >= LinkRoom(h)
<1>1. /\ headers' \in
            IF full THEN {headers}
            ELSE IF link THEN {[headers EXCEPT ![k].hard_links = Append(@, p)]}
            ELSE IF ~known THEN {Append(headers, h)}
            ELSE {headers} \cup IF h.ftype = "dir" THEN {Append(headers, h)} ELSE {}
      /\ wpc' = IF full THEN "overrun" ELSE "add"
  BY DEF AddHeader
<1>2. h.tar_name = p /\ h.ftype = TypeOf(p) /\ h.file_stats = Stat(p) /\ h \in Header
  BY HeaderTyped DEF create_header
<1>3. headers \in Seq(Header) /\ DOMAIN headers = 1..Len(headers)
  BY DEF TypeInv, WriterTyped
<1>. HIDE DEF h, k
<1>4. k > 0 => /\ k \in DOMAIN headers
               /\ header_eq(h, headers[k]) \/ (h.ftype = "file" /\ headers[k].file_stats = Stat(p))
  BY <1>2, <1>3, FirstMatchIs DEF stat_eq, k
<1>5. CASE full
  BY <1>1, <1>5
<1>6. CASE link /\ ~full
  <2>1. headers' = [headers EXCEPT ![k].hard_links = Append(@, p)] /\ wpc' = "add"
    BY <1>1, <1>6
  <2>2. k \in DOMAIN headers /\ TypeOf(p) = "file" /\ headers[k].file_stats = Stat(p)
    BY <1>2, <1>4, <1>6
  <2>3. headers[k] \in Header
    BY <1>3, <2>2
  <2>4. Len(headers[k].hard_links) \in Nat /\ headers[k].file_stats.nlink \in Nat
    BY <2>3, HeaderFields
  <2>5. Len(headers[k].hard_links) < headers[k].file_stats.nlink - 1
    BY <1>2, <1>6, <2>2, <2>4 DEF LinkRoom
  <2>. QED BY <2>1, <2>2, <2>5
<1>7. CASE known
  <2>1. headers[k].tar_name = p /\ k \in DOMAIN headers
    BY <1>2, <1>4, <1>7 DEF header_eq
  <2>2. \/ headers' = headers /\ wpc' = "add"
        \/ wpc' = "add" /\ TypeOf(p) = "dir" /\ headers' = Append(headers, h)
    BY <1>1, <1>2, <1>7
  <2>. QED BY <2>1, <2>2 DEF h
<1>8. CASE ~(k > 0)
  <2>1. headers' = Append(headers, h) /\ wpc' = "add"
    BY <1>1, <1>8
  <2>2. TypeOf(p) = "file" => \A j \in DOMAIN headers : headers[j].file_stats # Stat(p)
    BY <1>2, <1>8, NoMatch DEF k
  <2>. QED BY <2>1, <2>2 DEF h
<1>. QED BY <1>5, <1>6, <1>7, <1>8

LEMMA LinkNamed ==
    ASSUME NEW g \in Header, NEW q \in DOMAIN source.node,
           NEW h, h = [g EXCEPT !.hard_links = Append(@, q)]
    PROVE  /\ h.ftype = g.ftype /\ h.tar_name = g.tar_name
           /\ h.file_stats = g.file_stats
           /\ Len(h.hard_links) = Len(g.hard_links) + 1
           /\ Names(h) = Names(g) \cup {q}
<1>1. /\ h.file_stats = g.file_stats /\ h.tar_name = g.tar_name /\ h.ftype = g.ftype
      /\ h.hard_links = Append(g.hard_links, q)
  BY DEF Header, FileHeader, OtherHeader
<1>2. PICK m \in Nat : m = Len(g.hard_links) /\ g.hard_links \in Seq(DOMAIN source.node)
  BY HeaderFields
<1>3. /\ DOMAIN h.hard_links = 1..m + 1 /\ Len(h.hard_links) = m + 1
      /\ DOMAIN g.hard_links = 1..m
      /\ h.hard_links[m + 1] = q
      /\ \A j \in 1..m : h.hard_links[j] = g.hard_links[j]
  BY <1>1, <1>2
<1>4. 1..m + 1 = 1..m \cup {m + 1}
  BY <1>2
<1>. QED BY <1>1, <1>2, <1>3, <1>4 DEF Names

\* A directory that was asked for is in the list if it has a header there.
LEMMA DirHeld ==
    ASSUME NEW hs, AllTrue(hs), NEW d \in AskedDirs, d \in NamesIn(hs)
    PROVE  \E j \in DOMAIN hs : hs[j].ftype = "dir" /\ hs[j].tar_name = d
<1>1. PICK j \in DOMAIN hs : d \in Names(hs[j])
  BY DEF NamesIn
<1>2. d \notin AskedFiles
  BY DEF AskedFiles, AskedDirs, Asked
<1>3. ~OfFile(hs[j])
  BY <1>1, <1>2 DEF OfFile
<1>4. OfDir(hs[j])
  BY <1>3 DEF AllTrue
<1>. QED BY <1>1, <1>4 DEF OfDir, Names

\* A new header is true.
LEMMA NewTrue ==
    ASSUME TypeInv, NEW p \in Paths, p \in AskedFiles \cup AskedDirs,
           NEW h, h = create_header(p)
    PROVE  /\ h \in Header /\ h.tar_name = p /\ h.ftype = TypeOf(p) /\ Names(h) = {p}
           /\ TypeOf(p) = "file" => OfFile(h) /\ Ino(h) = InoOf(p)
           /\ TypeOf(p) = "dir" => OfDir(h)
           /\ TypeOf(p) \in {"file", "dir"}
<1>1. /\ h.tar_name = p /\ h.ftype = TypeOf(p) /\ h.file_stats = Stat(p)
      /\ h.hard_links = <<>> /\ h \in Header /\ p \in DOMAIN source.node
  BY HeaderTyped DEF create_header, Paths
<1>2. Names(h) = {p}
  BY <1>1 DEF Names
<1>3. CASE TypeOf(p) = "file"
  <2>1. Ino(h) = InoOf(p)
    BY <1>1, <1>3, SameFile DEF Ino
  <2>2. p \in AskedFiles /\ p \in NamesOf(InoOf(p))
    BY <1>1, <1>3 DEF AskedDirs, Asked, NamesOf
  <2>3. Len(h.hard_links) <= h.file_stats.nlink - 1
    <3>1. PICK n \in Nat \ {0} : n = h.file_stats.nlink
      BY <1>1, HeaderFields
    <3>. QED BY <1>1, <3>1
  <2>. QED BY <1>1, <1>2, <1>3, <2>1, <2>2, <2>3 DEF OfFile
<1>4. CASE TypeOf(p) = "dir"
  <2>1. p \in AskedDirs
    BY <1>4 DEF AskedFiles, Asked
  <2>2. Stat(p).mode = source.node[p].mode
    BY <1>4 DEF Stat
  <2>. QED BY <1>1, <1>2, <1>4, <2>1, <2>2 DEF OfDir
<1>5. TypeOf(p) \in {"file", "dir"}
  BY DEF AskedFiles, AskedDirs, Asked
<1>. QED BY <1>1, <1>2, <1>3, <1>4, <1>5

\* add_file keeps the list true, and leaves the path in it.
LEMMA HeaderAdded ==
    ASSUME TypeInv, AllTrue(headers), OneEach(headers),
           NEW p \in Paths, p \in AskedFiles \cup AskedDirs,
           NEW rest, AddHeader(p, rest), NEW hs, hs = headers'
    PROVE  /\ AllTrue(hs) /\ OneEach(hs)
           /\ Held \subseteq NamesIn(hs) /\ (wpc' = "add" => p \in NamesIn(hs))
           /\ (/\ InOrder(headers)
               /\ \A d \in AskedDirs : IsStrictPrefix(d, p) => d \in Held)
              => InOrder(hs)
<1>1. /\ headers \in Seq(Header) /\ DOMAIN headers = 1..Len(headers) /\ Len(headers) \in Nat
      /\ \A j \in DOMAIN headers : headers[j] \in Header
  BY DEF TypeInv, WriterTyped
<1>2. CASE hs = headers /\ wpc' = "overrun"
  BY <1>2 DEF Held
<1>3. CASE hs = headers /\ wpc' = "add" /\ \E k \in DOMAIN headers : headers[k].tar_name = p
  <2>1. p \in NamesIn(headers)
    BY <1>3 DEF NamesIn, Names
  <2>. QED BY <1>3, <2>1 DEF Held
<1>4. ASSUME wpc' = "add", TypeOf(p) = "file", NEW k \in DOMAIN headers,
             headers[k].file_stats = Stat(p),
             Len(headers[k].hard_links) < headers[k].file_stats.nlink - 1,
             hs = [headers EXCEPT ![k].hard_links = Append(@, p)]
      PROVE  /\ AllTrue(hs) /\ OneEach(hs) /\ Held \subseteq NamesIn(hs) /\ p \in NamesIn(hs)
             /\ InOrder(headers) => InOrder(hs)
  <2>1. PICK g \in Header : g = headers[k]
    BY <1>1, <1>4
  <2>2. PICK h : h = [g EXCEPT !.hard_links = Append(@, p)]
    OBVIOUS
  <2>3. /\ DOMAIN hs = DOMAIN headers
        /\ \A j \in DOMAIN headers : hs[j] = IF j = k THEN h ELSE headers[j]
    BY <1>1, <1>4, <2>1, <2>2
  <2>4. p \in DOMAIN source.node
    BY DEF Paths
  <2>5. /\ h.ftype = g.ftype /\ h.tar_name = g.tar_name /\ h.file_stats = g.file_stats
        /\ Len(h.hard_links) = Len(g.hard_links) + 1 /\ Names(h) = Names(g) \cup {p}
    BY <2>2, <2>4, LinkNamed
  <2>6. g.ftype = "file" /\ Ino(g) = InoOf(p)
    BY <1>4, <2>1, SameFile DEF Ino
  <2>7. OfFile(g)
    BY <2>1, <2>6 DEF AllTrue, OfDir
  <2>8. OfFile(h)
    <3>1. Ino(h) = Ino(g)
      BY <2>5 DEF Ino
    <3>2. p \in AskedFiles /\ p \in NamesOf(Ino(g))
      BY <1>4, <2>4, <2>6 DEF AskedDirs, Asked, NamesOf
    <3>3. Len(h.hard_links) <= h.file_stats.nlink - 1
      <4>1. Len(g.hard_links) \in Nat /\ g.file_stats.nlink \in Nat
        BY HeaderFields
      <4>. QED BY <1>4, <2>1, <2>5, <4>1
    <3>. QED BY <2>5, <2>7, <3>1, <3>2, <3>3 DEF OfFile
  <2>9. \A j \in DOMAIN headers :
           /\ hs[j].ftype = headers[j].ftype /\ hs[j].tar_name = headers[j].tar_name
           /\ Ino(hs[j]) = Ino(headers[j]) /\ Names(headers[j]) \subseteq Names(hs[j])
    BY <2>1, <2>3, <2>5 DEF Ino
  <2>10. AllTrue(hs)
    BY <2>3, <2>8 DEF AllTrue
  <2>11. OneEach(hs)
    BY <2>3, <2>9 DEF OneEach
  <2>12. Held \subseteq NamesIn(hs)
    BY <2>3, <2>9 DEF NamesIn, Held
  <2>13. p \in NamesIn(hs)
    BY <1>4, <2>3, <2>5, SMTT(60) DEF NamesIn
  <2>14. InOrder(headers) => InOrder(hs)
    <3>1. ASSUME NEW j \in DOMAIN hs, NEW i \in 1..j - 1
          PROVE  i \in DOMAIN hs
      BY <1>1, <2>3
    <3>. QED BY <2>3, <2>9, <3>1 DEF InOrder, Earlier
  <2>. QED BY <2>10, <2>11, <2>12, <2>13, <2>14
<1>5. ASSUME wpc' = "add", hs = Append(headers, create_header(p)),
             TypeOf(p) = "file" => \A j \in DOMAIN headers : headers[j].file_stats # Stat(p)
      PROVE  /\ AllTrue(hs) /\ OneEach(hs) /\ Held \subseteq NamesIn(hs) /\ p \in NamesIn(hs)
             /\ (/\ InOrder(headers)
                 /\ \A d \in AskedDirs : IsStrictPrefix(d, p) => d \in Held)
                => InOrder(hs)
  <2>1. PICK m \in Nat : m = Len(headers)
    BY <1>1
  <2>2. PICK h : h = create_header(p)
    OBVIOUS
  <2>3. /\ h \in Header /\ h.tar_name = p /\ h.ftype = TypeOf(p) /\ Names(h) = {p}
        /\ TypeOf(p) = "file" => OfFile(h) /\ Ino(h) = InoOf(p)
        /\ TypeOf(p) = "dir" => OfDir(h)
        /\ TypeOf(p) \in {"file", "dir"}
    BY <2>2, NewTrue
  <2>4. /\ DOMAIN hs = 1..m + 1 /\ hs[m + 1] = h /\ DOMAIN headers = 1..m
        /\ \A j \in 1..m : hs[j] = headers[j]
    BY <1>1, <1>5, <2>1, <2>2, <2>3, AppendProperties
  <2>5. \A j \in 1..m + 1 : j \in 1..m \/ j = m + 1
    BY <2>1
  <2>6. AllTrue(hs)
    BY <2>3, <2>4, <2>5 DEF AllTrue
  <2>7. ASSUME NEW j \in 1..m, headers[j].ftype = "file", h.ftype = "file",
               Ino(headers[j]) = Ino(h)
        PROVE  Touched(Ino(h))
    <3>1. OfFile(headers[j])
      BY <2>4, <2>7 DEF AllTrue, OfDir
    <3>2. PICK t : t = headers[j].tar_name
      OBVIOUS
    <3>3. t \in NamesOf(Ino(h))
      BY <2>7, <3>1, <3>2 DEF OfFile, Names
    <3>4. TypeOf(t) = "file" /\ InoOf(t) = InoOf(p) /\ TypeOf(p) = "file"
      BY <2>3, <2>7, <3>3 DEF NamesOf
    <3>5. Stat(t) = Stat(p)
      BY <3>4 DEF Stat
    <3>6. headers[j].file_stats # Stat(p)
      BY <1>5, <2>4, <3>4
    <3>. QED BY <2>7, <3>1, <3>2, <3>5, <3>6 DEF OfFile
  <2>8. OneEach(hs)
    <3>1. ASSUME NEW j \in DOMAIN hs, NEW k \in DOMAIN hs, j # k,
                 hs[j].ftype = "file", hs[k].ftype = "file", Ino(hs[j]) = Ino(hs[k])
          PROVE  Touched(Ino(hs[k]))
      <4>1. CASE j \in 1..m /\ k \in 1..m
        BY <2>4, <3>1, <4>1 DEF OneEach
      <4>2. CASE j = m + 1 /\ k \in 1..m
        BY <2>4, <2>7, <3>1, <4>2
      <4>3. CASE k = m + 1 /\ j \in 1..m
        BY <2>4, <2>7, <3>1, <4>3
      <4>. QED BY <2>4, <2>5, <3>1, <4>1, <4>2, <4>3
    <3>. QED BY <3>1 DEF OneEach
  <2>9. \A j \in 1..m : j \in 1..m + 1
    BY <2>1
  <2>10. Held \subseteq NamesIn(hs)
    BY <2>4, <2>9 DEF NamesIn, Held
  <2>11. p \in NamesIn(hs)
    <3>1. m + 1 \in 1..m + 1
      BY <2>1
    <3>. QED BY <2>3, <2>4, <3>1 DEF NamesIn
  <2>12. ASSUME InOrder(headers),
                \A d \in AskedDirs : IsStrictPrefix(d, p) => d \in Held
         PROVE  InOrder(hs)
    <3>1. ASSUME NEW k \in DOMAIN hs, NEW d \in AskedDirs,
                 hs[k].ftype = "dir", IsStrictPrefix(d, hs[k].tar_name)
          PROVE  Earlier(hs, k, d)
      <4>1. CASE k \in 1..m
        <5>1. Earlier(headers, k, d)
          BY <2>4, <2>12, <3>1, <4>1 DEF InOrder
        <5>2. \A i \in 1..k - 1 : i \in 1..m
          BY <2>1, <4>1
        <5>. QED BY <2>4, <5>1, <5>2 DEF Earlier
      <4>2. CASE k = m + 1
        <5>1. d \in NamesIn(headers)
          BY <2>3, <2>4, <2>12, <3>1, <4>2 DEF Held
        <5>2. PICK j \in DOMAIN headers : headers[j].ftype = "dir" /\ headers[j].tar_name = d
          BY <5>1, DirHeld
        <5>3. j \in 1..k - 1
          BY <2>1, <2>4, <4>2
        <5>. QED BY <2>4, <5>2, <5>3 DEF Earlier
      <4>. QED BY <2>4, <2>5, <4>1, <4>2
    <3>. QED BY <3>1 DEF InOrder
  <2>. QED BY <2>6, <2>8, <2>10, <2>11, <2>12, ZenonT(30)
<1>. QED BY <1>2, <1>3, <1>4, <1>5, AddHeaderCases
------------------------------------------------------------------------------
(* What was packed comes back: everything is added. *)

\* A non-empty set of numbers has a least one.
LEMMA LeastIsIn ==
    ASSUME NEW S, S \subseteq Nat, S # {}
    PROVE  \E m \in S : \A n \in S : m <= n
<1>1. PICK m \in S : \A n \in S : ~(<<n, m>> \in OpToRel(<, Nat))
  BY NatLessThanWellFounded, WFMin, Zenon
<1>2. \A n \in S : ~(n < m)
  BY <1>1 DEF OpToRel
<1>. QED BY <1>2

\* Paths are in one another as their names say.
LEMMA PrefixFacts ==
    ASSUME NEW p \in Path, NEW q \in Path, NEW r \in Path
    PROVE  /\ IsPrefix(p, p)
           /\ IsPrefix(p, q) /\ IsPrefix(q, r) => IsPrefix(p, r)
           /\ IsPrefix(p, q) /\ IsPrefix(q, p) => p = q
           /\ IsStrictPrefix(p, q) /\ IsPrefix(q, r) => IsStrictPrefix(p, r)
           /\ IsPrefix(p, q) /\ IsStrictPrefix(q, r) => IsStrictPrefix(p, r)
           /\ IsPrefix(p, q) => Len(p) <= Len(q)
           /\ IsPrefix(p, q) /\ Len(p) = Len(q) => p = q
<1>. DEFINE Pre(u, v) == Len(u) <= Len(v) /\ \A i \in 1..Len(u) : u[i] = v[i]
<1>1. \A u, v \in Path : IsPrefix(u, v) <=> Pre(u, v)
  BY PrefixPointwise DEF Path
<1>2. \A u \in Path : Len(u) \in Nat
  BY DEF Path
<1>3. Pre(p, p)
  BY <1>2
<1>4. ASSUME Pre(p, q), Pre(q, r) PROVE Pre(p, r)
  <2>1. Len(p) <= Len(q) /\ Len(q) <= Len(r)
    BY <1>4
  <2>2. \A i \in 1..Len(p) : i \in 1..Len(q) /\ p[i] = q[i] /\ q[i] = r[i]
    BY <1>2, <1>4, <2>1
  <2>. QED BY <1>2, <2>1, <2>2
<1>5. ASSUME NEW u \in Path, NEW v \in Path, Pre(u, v), Len(u) = Len(v) PROVE u = v
  BY <1>2, <1>5, SeqEqual DEF Path
<1>6. ASSUME NEW u \in Path, NEW v \in Path, Pre(u, v), Pre(v, u) PROVE u = v
  <2>1. Len(u) = Len(v)
    BY <1>2, <1>6
  <2>. QED BY <1>5, <1>6, <2>1
<1>7. Pre(p, q) => Len(p) <= Len(q)
  OBVIOUS
<1>. HIDE DEF Pre
<1>8. /\ IsPrefix(p, q) /\ IsPrefix(q, r) => IsPrefix(p, r)
      /\ IsPrefix(p, q) /\ IsPrefix(q, p) => p = q
      /\ IsPrefix(q, r) /\ IsPrefix(r, q) => q = r
  BY <1>1, <1>4, <1>6
<1>9. /\ IsStrictPrefix(p, q) /\ IsPrefix(q, r) => IsStrictPrefix(p, r)
      /\ IsPrefix(p, q) /\ IsStrictPrefix(q, r) => IsStrictPrefix(p, r)
  BY <1>8, Zenon DEF IsStrictPrefix
<1>10. IsPrefix(p, q) => Len(p) <= Len(q)
  BY <1>1, <1>7
<1>11. IsPrefix(p, q) /\ Len(p) = Len(q) => p = q
  BY <1>1, <1>5
<1>. QED BY <1>1, <1>3, <1>8, <1>9, <1>10, <1>11

\* What begins a path, and that it is a path.
LEMMA InitialPart ==
    ASSUME NEW q \in Path, NEW k \in 1..Len(q)
    PROVE  /\ SubSeq(q, 1, k) \in Path /\ Len(SubSeq(q, 1, k)) = k
           /\ \A i \in 1..k : SubSeq(q, 1, k)[i] = q[i]
           /\ IsPrefix(SubSeq(q, 1, k), q)
           /\ k > 1 => SubSeq(SubSeq(q, 1, k), 1, k - 1) = SubSeq(q, 1, k - 1)
           /\ SubSeq(q, 1, Len(q)) = q
<1>1. Len(q) \in Nat /\ \A i \in 1..Len(q) : q[i] \in DOMAIN NameLen
  BY DEF Path
<1>2. ASSUME NEW j \in 1..Len(q)
      PROVE  /\ SubSeq(q, 1, j) \in Path /\ Len(SubSeq(q, 1, j)) = j
             /\ \A i \in 1..j : SubSeq(q, 1, j)[i] = q[i]
  BY <1>1 DEF Path
<1>3. IsPrefix(SubSeq(q, 1, k), q)
  <2>1. k <= Len(q)
    BY <1>1
  <2>. QED BY <1>2, <2>1, PrefixPointwise DEF Path
<1>4. ASSUME k > 1 PROVE SubSeq(SubSeq(q, 1, k), 1, k - 1) = SubSeq(q, 1, k - 1)
  <2>1. PICK u \in Path : u = SubSeq(q, 1, k) /\ Len(u) = k /\ \A i \in 1..k : u[i] = q[i]
    BY <1>2
  <2>2. k - 1 \in 1..Len(q) /\ k - 1 \in Nat /\ \A i \in 1..k - 1 : i \in 1..k
    BY <1>1, <1>4
  <2>3. PICK v \in Path : /\ v = SubSeq(q, 1, k - 1) /\ Len(v) = k - 1
                          /\ \A i \in 1..k - 1 : v[i] = q[i]
    BY <1>2, <2>2
  <2>4. PICK n \in Nat : n = k - 1
    BY <2>2
  <2>5. /\ SubSeq(u, 1, n) \in Path /\ Len(SubSeq(u, 1, n)) = n
        /\ \A i \in 1..n : SubSeq(u, 1, n)[i] = u[i]
    <3>1. \A i \in 1..n : i \in 1..Len(u)
      BY <2>1, <2>2, <2>4
    <3>2. \A i \in 1..n : u[i] \in DOMAIN NameLen
      BY <2>1, <3>1, ElementOfSeq DEF Path
    <3>. QED BY <2>4, <3>2 DEF Path
  <2>6. SubSeq(u, 1, n) = v
    BY <2>1, <2>2, <2>3, <2>4, <2>5, SeqEqual DEF Path
  <2>. QED BY <2>1, <2>3, <2>4, <2>6
<1>5. SubSeq(q, 1, Len(q)) = q
  <2>1. Len(q) \in 1..Len(q)
    BY <1>1
  <2>. QED BY <1>2, <2>1, SeqEqual DEF Path
<1>. QED BY <1>2, <1>3, <1>4, <1>5

\* Everything is in directories of the tree, from the top.
LEMMA AncestorsThere ==
    ASSUME TypeInv, NEW q \in DOMAIN source.node, NEW k \in 1..Len(q) - 1
    PROVE  /\ SubSeq(q, 1, k) \in DOMAIN source.node
           /\ TypeOf(SubSeq(q, 1, k)) = "dir"
<1>. DEFINE Dir(j) == /\ SubSeq(q, 1, j) \in DOMAIN source.node
                      /\ TypeOf(SubSeq(q, 1, j)) = "dir"
            S == {n \in 1..Len(q) - 1 : ~Dir(Len(q) - n)}
<1>1. q \in Path /\ Len(q) \in Nat
  BY DEF TypeInv, SourceTyped, Source, Path
<1>2. ASSUME NEW p \in DOMAIN source.node, Len(p) > 1
      PROVE  /\ SubSeq(p, 1, Len(p) - 1) \in DOMAIN source.node
             /\ TypeOf(SubSeq(p, 1, Len(p) - 1)) = "dir"
  BY <1>2 DEF TypeInv, SourceTyped, Source, Front, TypeOf
<1>. HIDE DEF Dir
<1>3. ASSUME NEW j \in 2..Len(q), j = Len(q) \/ Dir(j) PROVE Dir(j - 1)
  <2>1. j \in 1..Len(q) /\ j > 1
    BY <1>1
  <2>2. /\ SubSeq(q, 1, j) \in Path /\ Len(SubSeq(q, 1, j)) = j
        /\ SubSeq(SubSeq(q, 1, j), 1, j - 1) = SubSeq(q, 1, j - 1)
        /\ SubSeq(q, 1, Len(q)) = q
    BY <1>1, <2>1, InitialPart
  <2>3. SubSeq(q, 1, j) \in DOMAIN source.node
    BY <1>3, <2>2, ZenonT(60) DEF Dir
  <2>. QED BY <1>2, <2>1, <2>2, <2>3 DEF Dir
<1>4. ASSUME S # {} PROVE FALSE
  <2>1. S \subseteq Nat
    BY <1>1
  <2>2. PICK m \in S : \A n \in S : m <= n
    BY <1>4, <2>1, LeastIsIn
  <2>3. m \in 1..Len(q) - 1 /\ ~Dir(Len(q) - m)
    OBVIOUS
  <2>4. (Len(q) - m) + 1 \in 2..Len(q) /\ ((Len(q) - m) + 1) - 1 = Len(q) - m
    BY <1>1, <2>3
  <2>5. CASE m = 1
    <3>1. \A l \in Nat : (l - 1) + 1 = l
      OBVIOUS
    <3>2. (Len(q) - m) + 1 = Len(q)
      BY <1>1, <2>5, <3>1, SMTT(60)
    <3>. QED BY <1>3, <2>3, <2>4, <3>2
  <2>6. CASE m # 1
    <3>1. m - 1 \in 1..Len(q) - 1 /\ Len(q) - (m - 1) = (Len(q) - m) + 1 /\ ~(m <= m - 1)
      BY <1>1, <2>3, <2>6
    <3>2. Dir(Len(q) - (m - 1))
      BY <2>2, <3>1
    <3>. QED BY <1>3, <2>3, <2>4, <3>1, <3>2
  <2>. QED BY <2>5, <2>6
<1>5. Len(q) - k \in 1..Len(q) - 1 /\ Len(q) - (Len(q) - k) = k
  BY <1>1
<1>. QED BY <1>4, <1>5 DEF Dir

\* Nothing is in what is no directory.
LEMMA NothingBelow ==
    ASSUME TypeInv, NEW p \in DOMAIN source.node, TypeOf(p) # "dir"
    PROVE  Tree(DOMAIN source.node, p) = {p}
<1>1. DOMAIN source.node \subseteq Path /\ p # <<>>
  BY DEF TypeInv, SourceTyped, Source, Path
<1>2. p \in Path /\ Len(p) \in Nat /\ Len(p) # 0
  BY <1>1, EmptySeq DEF Path
<1>3. ASSUME NEW q \in DOMAIN source.node, IsPrefix(p, q), q # p PROVE FALSE
  <2>1. q \in Path /\ Len(q) \in Nat
    BY <1>1 DEF Path
  <2>2. Len(p) <= Len(q) /\ Len(p) # Len(q)
    BY <1>2, <1>3, <2>1, PrefixFacts
  <2>3. Len(p) \in 1..Len(q) - 1
    BY <1>2, <2>1, <2>2
  <2>4. SubSeq(q, 1, Len(p)) = p
    <3>1. SubSeq(p, 1, Len(p)) = SubSeq(q, 1, Len(p))
      BY <1>3 DEF IsPrefix
    <3>2. Len(p) \in 1..Len(p)
      BY <1>2
    <3>3. SubSeq(p, 1, Len(p)) = p
      BY <1>2, <3>2, InitialPart
    <3>. QED BY <3>1, <3>3
  <2>. QED BY <2>3, <2>4, AncestorsThere
<1>4. p \in Tree(DOMAIN source.node, p)
  BY <1>2, PrefixFacts DEF Tree
<1>. QED BY <1>3, <1>4 DEF Tree

\* What is in a directory is an entry of it or in one of them.
LEMMA EntryAbove ==
    ASSUME TypeInv, \A p \in gone : TypeOf(p) = "file",
           NEW d \in DOMAIN source.node, NEW q \in Tree(DOMAIN source.node, d), q # d,
           q \notin gone
    PROVE  \E e \in Entries(d) : q \in Tree(DOMAIN source.node, e)
<1>1. /\ DOMAIN source.node \subseteq Path /\ q \in DOMAIN source.node /\ IsPrefix(d, q)
  BY DEF TypeInv, SourceTyped, Source, Path, Tree
<1>2. d \in Path /\ q \in Path /\ Len(d) \in Nat /\ Len(q) \in Nat /\ Len(d) # 0
  <2>1. d \in Path /\ q \in Path /\ d # <<>>
    BY <1>1 DEF TypeInv, SourceTyped, Source
  <2>. QED BY <2>1, EmptySeq DEF Path
<1>3. Len(d) < Len(q)
  <2>1. Len(d) <= Len(q) /\ Len(d) # Len(q)
    BY <1>1, <1>2, PrefixFacts
  <2>. QED BY <1>2, <2>1
<1>4. PICK k \in 1..Len(q) : k = Len(d) + 1
  BY <1>2, <1>3
<1>5. PICK e : e = SubSeq(q, 1, k)
  OBVIOUS
<1>6. /\ e \in Path /\ Len(e) = k /\ IsPrefix(e, q)
      /\ k > 1 => SubSeq(e, 1, k - 1) = SubSeq(q, 1, k - 1)
      /\ SubSeq(q, 1, Len(q)) = q
  BY <1>2, <1>5, InitialPart
<1>7. k > 1 /\ k - 1 = Len(d)
  BY <1>2, <1>4
<1>8. Front(e) = d
  <2>1. SubSeq(d, 1, Len(d)) = SubSeq(q, 1, Len(d))
    BY <1>1 DEF IsPrefix
  <2>2. Len(d) \in 1..Len(d)
    BY <1>2
  <2>3. SubSeq(d, 1, Len(d)) = d
    BY <1>2, <2>2, InitialPart
  <2>. QED BY <1>6, <1>7, <2>1, <2>3 DEF Front
<1>9. e \in Paths
  <2>1. CASE k = Len(q)
    BY <1>1, <1>5, <1>6, <2>1 DEF Paths
  <2>2. CASE k # Len(q)
    <3>1. k \in 1..Len(q) - 1
      BY <1>2, <2>2
    <3>2. e \in DOMAIN source.node /\ TypeOf(e) = "dir"
      BY <1>1, <1>5, <3>1, AncestorsThere
    <3>. QED BY <3>2 DEF Paths
  <2>. QED BY <2>1, <2>2
<1>10. e \in Entries(d)
  BY <1>4, <1>6, <1>8, <1>9 DEF Entries
<1>. QED BY <1>1, <1>6, <1>10 DEF Tree

\* An entry and the directory it is in have the same directories above them.
LEMMA EntryOrder ==
    ASSUME TypeInv, NEW d \in DOMAIN source.node, NEW e \in Entries(d)
    PROVE  /\ e \in DOMAIN source.node
           /\ \A c \in Path : IsPrefix(c, d) => IsStrictPrefix(c, e)
           /\ \A c \in Path : IsStrictPrefix(c, e) => c = d \/ IsStrictPrefix(c, d)
<1>1. /\ DOMAIN source.node \subseteq Path /\ e \in DOMAIN source.node
      /\ Len(e) = Len(d) + 1 /\ SubSeq(e, 1, Len(e) - 1) = d
  BY DEF TypeInv, SourceTyped, Source, Path, Entries, Paths, Front
<1>2. d \in Path /\ e \in Path /\ Len(d) \in Nat /\ Len(e) \in Nat /\ Len(d) # 0
  <2>1. d \in Path /\ e \in Path /\ d # <<>>
    BY <1>1 DEF TypeInv, SourceTyped, Source
  <2>. QED BY <2>1, EmptySeq DEF Path
<1>3. IsPrefix(d, e) /\ d # e
  <2>1. PICK n \in Nat, m \in Nat : n = Len(d) /\ m = Len(e)
    BY <1>2
  <2>2. m = n + 1 /\ n # 0
    BY <1>1, <1>2, <2>1, Zenon
  <2>3. n \in 1..m /\ n # m /\ m - 1 = n
    BY <2>2
  <2>4. SubSeq(e, 1, n) = d
    BY <1>1, <2>1, <2>3, Zenon
  <2>5. IsPrefix(SubSeq(e, 1, n), e)
    BY <1>2, <2>1, <2>3, InitialPart
  <2>. QED BY <2>1, <2>3, <2>4, <2>5
<1>4. ASSUME NEW c \in Path, IsPrefix(c, d) PROVE IsStrictPrefix(c, e)
  BY <1>2, <1>3, <1>4, PrefixFacts DEF IsStrictPrefix
<1>5. ASSUME NEW c \in Path, IsStrictPrefix(c, e), c # d PROVE IsStrictPrefix(c, d)
  <2>1. IsPrefix(c, e) /\ c # e /\ Len(c) \in Nat
    BY <1>5 DEF IsStrictPrefix, Path
  <2>2. Len(c) <= Len(e) /\ Len(c) # Len(e)
    BY <1>2, <2>1, PrefixFacts
  <2>3. Len(c) <= Len(d)
    BY <1>1, <1>2, <2>1, <2>2
  <2>4. \A i \in 1..Len(c) : c[i] = e[i]
    BY <1>2, <2>1, PrefixPointwise DEF Path
  <2>5. Len(d) <= Len(e) /\ \A i \in 1..Len(d) : d[i] = e[i]
    BY <1>2, <1>3, PrefixPointwise DEF Path
  <2>6. \A i \in 1..Len(c) : c[i] = d[i]
    BY <1>2, <2>1, <2>3, <2>4, <2>5
  <2>7. IsPrefix(c, d)
    BY <1>2, <2>3, <2>6, PrefixPointwise DEF Path
  <2>. QED BY <1>5, <2>7 DEF IsStrictPrefix
<1>. QED BY <1>1, <1>4, <1>5

\* V is W with others in the place of the first piece of work.
Replaced(W, new, V) ==
    /\ \A j \in DOMAIN V : \/ \E i \in DOMAIN new : V[j] = new[i]
                           \/ \E i \in DOMAIN W : V[j] = W[i]
    /\ \A i \in DOMAIN new : \E j \in DOMAIN V : V[j] = new[i]
    /\ \A i \in DOMAIN W : W[i] = Head(W) \/ \E j \in DOMAIN V : V[j] = W[i]

LEMMA NewWork ==
    ASSUME NEW S, NEW W \in Seq(S), W # <<>>, NEW new \in Seq(S),
           NEW V, V = new \o Tail(W)
    PROVE  Replaced(W, new, V)
<1>1. PICK n \in Nat, m \in Nat \ {0} : n = Len(new) /\ m = Len(W)
  <2>1. Len(W) \in Nat /\ Len(W) # 0 /\ Len(new) \in Nat
    BY EmptySeq
  <2>. QED BY <2>1
<1>2. /\ Tail(W) \in Seq(S) /\ Len(Tail(W)) = m - 1
      /\ \A k \in 1..m - 1 : Tail(W)[k] = W[k + 1]
      /\ Head(W) = W[1] /\ DOMAIN W = 1..m /\ DOMAIN new = 1..n
  BY <1>1, HeadTailProperties
<1>3. PICK T \in Seq(S) : T = Tail(W)
  BY <1>2
<1>4. /\ DOMAIN V = 1..n + (m - 1)
      /\ \A j \in 1..n + (m - 1) : V[j] = IF j <= n THEN new[j] ELSE T[j - n]
  <2>1. /\ new \o T \in Seq(S) /\ Len(new \o T) = Len(new) + Len(T)
        /\ \A j \in 1..Len(new) + Len(T) :
              (new \o T)[j] = IF j <= Len(new) THEN new[j] ELSE T[j - Len(new)]
    BY ConcatProperties, ZenonT(30)
  <2>2. PICK U \in Seq(S) : U = new \o T
    BY <2>1
  <2>3. DOMAIN U = 1..Len(U) /\ V = U
    BY <1>3, <2>2
  <2>. QED BY <1>1, <1>2, <1>3, <2>1, <2>2, <2>3
<1>5. ASSUME NEW j \in DOMAIN V
      PROVE  \/ \E i \in DOMAIN new : V[j] = new[i]
             \/ \E i \in DOMAIN W : V[j] = W[i]
  <2>1. CASE j <= n
    BY <1>2, <1>4, <2>1
  <2>2. CASE ~(j <= n)
    <3>1. j - n \in 1..m - 1 /\ (j - n) + 1 \in 1..m
      BY <1>1, <1>4, <2>2
    <3>. QED BY <1>2, <1>3, <1>4, <2>2, <3>1
  <2>. QED BY <2>1, <2>2
<1>6. ASSUME NEW i \in DOMAIN new PROVE \E j \in DOMAIN V : V[j] = new[i]
  <2>1. i \in 1..n + (m - 1) /\ i <= n
    BY <1>1, <1>2
  <2>. QED BY <1>4, <2>1
<1>7. ASSUME NEW i \in DOMAIN W, W[i] # Head(W) PROVE \E j \in DOMAIN V : V[j] = W[i]
  <2>1. i \in 2..m
    BY <1>2, <1>7
  <2>2. PICK k : k = n + (i - 1)
    OBVIOUS
  <2>3. PICK l \in Nat : l = i - 1 /\ i = l + 1 /\ l \in 1..m - 1
    <3>1. i - 1 \in 1..m - 1 /\ i - 1 \in Nat /\ i = (i - 1) + 1
      BY <1>1, <2>1
    <3>. QED BY <3>1
  <2>6. k \in 1..n + (m - 1) /\ ~(k <= n) /\ k - n = l
    BY <1>1, <2>2, <2>3, SMTT(60)
  <2>4. V[k] = T[l]
    BY <1>4, <2>6
  <2>5. T[l] = W[i]
    BY <1>2, <1>3, <2>3
  <2>. QED BY <1>4, <2>4, <2>5, <2>6
<1>. QED BY <1>5, <1>6, <1>7 DEF Replaced

\* A piece of work stays sensible while headers are added.
LEMMA SensibleStays ==
    ASSUME UNCHANGED outer, Held \subseteq Held', NEW w, Sensible(w)
    PROVE  Sensible(w)'
<1>1. /\ source' = source /\ command' = command /\ InnerFirst' = InnerFirst
      /\ AskedDirs' = AskedDirs /\ AskedFiles' = AskedFiles
      /\ TypeOf(w.at)' = TypeOf(w.at) /\ w' = w
  BY AskedStays
<1>2. ~InnerFirst => \A d \in AskedDirs : Below(d, w) => d \in Held'
  BY DEF Sensible
<1>. QED BY <1>1, <1>2 DEF Sensible, Below

\* What has been asked for so far depends on the arguments only.
LEMMA DueStays ==
    ASSUME UNCHANGED outer, UNCHANGED args
    PROVE  Due' = Due
<1>1. command' = command /\ \A a : Wanted(a)' = Wanted(a)
  BY AskedStays
<1>2. ASSUME NEW k \in 1..Len(command) - Len(args)
      PROVE  Wanted(command[k])' = Wanted(command[k])
  <2>1. PICK a : a = command[k]
    OBVIOUS
  <2>2. Wanted(a)' = Wanted(a)
    BY <1>1
  <2>. QED BY <1>1, <2>1, <2>2 DEF Wanted
<1>. QED BY <1>1, <1>2 DEF Due

\* The list of headers stays what it is when it is not worked on.
LEMMA ListGathered ==
    ASSUME TypeInv, Gathered, UNCHANGED outer, UNCHANGED files \/ Editor,
           UNCHANGED headers
    PROVE  /\ \A p \in gone' : TypeOf(p)' = "file"
           /\ \A i \in DOMAIN source'.inode :
                 version'[i] = 0 => size'[i] = source'.inode[i].size
           /\ AllTrue(headers)' /\ OneEach(headers)'
           /\ (~InnerFirst => InOrder(headers))'
           /\ Held' = Held
<1>1. /\ source' = source /\ InnerFirst' = InnerFirst /\ headers \in Seq(Header)
      /\ \A p : TypeOf(p)' = TypeOf(p)
  BY AskedStays DEF TypeInv, WriterTyped
<1>2. PICK hs \in Seq(Header) : hs = headers
  BY <1>1
<1>3. /\ AllTrue(hs) => AllTrue(hs)'
      /\ AllTrue(hs) /\ OneEach(hs) => OneEach(hs)'
      /\ InOrder(hs)' = InOrder(hs) /\ NamesIn(hs)' = NamesIn(hs)
  BY ListStays
<1>4. AllTrue(hs) /\ OneEach(hs) /\ (~InnerFirst => InOrder(hs))
  BY <1>2 DEF Gathered
<1>5. hs = headers'
  BY <1>2
<1>6. AllTrue(headers)' /\ OneEach(headers)' /\ (~InnerFirst => InOrder(headers))'
  BY <1>1, <1>3, <1>4, <1>5 DEF AllTrue, OneEach, InOrder
<1>7. Held' = Held
  BY <1>2, <1>3, <1>5 DEF Held, NamesIn
<1>8. \A i \in DOMAIN source.inode : version'[i] = 0 => size'[i] = source.inode[i].size
  BY StatStays DEF Gathered
<1>9. ASSUME NEW p \in gone' PROVE TypeOf(p) = "file"
  <2>1. p \in gone \/ TypeOf(p) = "file"
    BY <1>9 DEF files, Editor, Rewrite, Unlink
  <2>. QED BY <2>1 DEF Gathered
<1>. QED BY <1>1, <1>6, <1>7, <1>8, <1>9

\* Steps that add nothing: of the reader, of another process, of print_tar.
LEMMA GatheredStays ==
    ASSUME TypeInv, Gathered, UNCHANGED outer, UNCHANGED files \/ Editor,
           UNCHANGED <<headers, args, work>>,
           \/ wpc' = wpc
           \/ wpc = "add" /\ work = <<>> /\ args = <<>> /\ wpc' = "header"
           \/ wpc \in {"header", "data"} /\ wpc' # "add"
    PROVE  Gathered'
<1>1. /\ \A p \in gone' : TypeOf(p)' = "file"
      /\ \A i \in DOMAIN source'.inode :
            version'[i] = 0 => size'[i] = source'.inode[i].size
      /\ AllTrue(headers)' /\ OneEach(headers)'
      /\ (~InnerFirst => InOrder(headers))'
      /\ Held' = Held
  BY ListGathered
<1>2. ASSUME wpc' = "add", NEW j \in DOMAIN work PROVE Sensible(work[j])'
  <2>1. PICK w : w = work[j]
    OBVIOUS
  <2>2. wpc = "add"
    BY <1>2
  <2>3. Sensible(w)
    BY <2>1, <2>2 DEF Gathered
  <2>4. Sensible(w)'
    BY <1>1, <2>3, SensibleStays
  <2>. QED BY <2>1, <2>4
<1>3. Due' = Due /\ gone \subseteq gone' /\ source' = source
  BY DueStays, StatStays DEF outer
<1>4. \A q : InWork(q)' = InWork(q)
  BY <1>3 DEF InWork
<1>5. wpc' \in {"add", "header", "data", "done"} =>
         \A q \in Due' : q \in gone' \/ q \in Held' \/ InWork(q)'
  BY <1>1, <1>3, <1>4 DEF Gathered
<1>6. wpc' \in {"header", "data", "done"} => work' = <<>> /\ args' = <<>>
  BY DEF Gathered
<1>7. work' = work /\ (wpc' = "add" => \A j \in DOMAIN work' : Sensible(work[j])')
  BY <1>2
<1>. QED BY <1>1, <1>5, <1>6, <1>7 DEF Gathered

\* When `jtar c' gives up nothing is promised of what it has not looked at.
LEMMA GaveUp ==
    ASSUME TypeInv, Gathered, UNCHANGED outer, UNCHANGED files, UNCHANGED headers,
           wpc' \in {"exit", "overrun"}
    PROVE  Gathered'
BY ListGathered DEF Gathered

\* The first piece of work is done, or leaves others to be done.
LEMMA WorkGathered ==
    ASSUME TypeInv, Gathered, wpc = "add", wpc' = "add", work # <<>>,
           UNCHANGED outer, UNCHANGED files, UNCHANGED args,
           NEW new \in Seq(Todo), work' = new \o Tail(work),
           AllTrue(headers)', OneEach(headers)', (~InnerFirst => InOrder(headers))',
           Held \subseteq Held',
           \A i \in DOMAIN new : Sensible(new[i])',
           \A q \in Cover(DOMAIN source.node, Head(work)) \cap Due :
              \/ q \in gone \/ q \in Held'
              \/ \E i \in DOMAIN new : q \in Cover(DOMAIN source.node, new[i])
    PROVE  Gathered'
<1>1. work \in Seq(Todo) /\ source' = source /\ gone' = gone
  BY DEF TypeInv, WriterTyped, outer, files
<1>2. PICK V : V = work'
  OBVIOUS
<1>3. /\ \A j \in DOMAIN V : \/ \E i \in DOMAIN new : V[j] = new[i]
                             \/ \E i \in DOMAIN work : V[j] = work[i]
      /\ \A i \in DOMAIN new : \E j \in DOMAIN V : V[j] = new[i]
      /\ \A i \in DOMAIN work : work[i] = Head(work) \/ \E j \in DOMAIN V : V[j] = work[i]
  <2>1. PICK S, W : S = Todo /\ W = work
    OBVIOUS
  <2>2. W \in Seq(S) /\ W # <<>> /\ new \in Seq(S) /\ V = new \o Tail(W)
    BY <1>1, <1>2, <2>1
  <2>3. Replaced(W, new, V)
    BY <2>2, NewWork
  <2>. QED BY <2>1, <2>3 DEF Replaced
<1>4. ASSUME NEW j \in DOMAIN V PROVE Sensible(V[j])'
  <2>1. CASE \E i \in DOMAIN new : V[j] = new[i]
    <3>1. PICK i \in DOMAIN new : V[j] = new[i]
      BY <2>1
    <3>2. Sensible(new[i])'
      OBVIOUS
    <3>. QED BY <3>1, <3>2
  <2>2. CASE \E i \in DOMAIN work : V[j] = work[i]
    <3>1. PICK i \in DOMAIN work : V[j] = work[i]
      BY <2>2
    <3>4. PICK w : w = work[i]
      OBVIOUS
    <3>2. Sensible(w)
      BY <3>4 DEF Gathered
    <3>3. Sensible(w)'
      BY <3>2, SensibleStays
    <3>5. V[j] = w
      BY <3>1, <3>4
    <3>. QED BY <3>3, <3>5
  <2>. QED BY <1>3, <2>1, <2>2
<1>5. Due' = Due
  BY DueStays
<1>6. ASSUME NEW q \in Due PROVE q \in gone \/ q \in Held' \/ InWork(q)'
  <2>1. q \in gone \/ q \in Held \/ InWork(q)
    BY <1>6 DEF Gathered
  <2>2. \A v : (\E j \in DOMAIN V : V[j] = v) /\ q \in Cover(DOMAIN source.node, v) => InWork(q)'
    BY <1>1, <1>2 DEF InWork
  <2>3. CASE InWork(q)
    <3>1. PICK i \in DOMAIN work : q \in Cover(DOMAIN source.node, work[i])
      BY <2>3 DEF InWork
    <3>2. CASE work[i] = Head(work)
      <4>1. \/ q \in gone \/ q \in Held'
            \/ \E k \in DOMAIN new : q \in Cover(DOMAIN source.node, new[k])
        BY <1>6, <3>1, <3>2
      <4>. QED BY <1>3, <2>2, <4>1
    <3>. QED BY <1>3, <2>2, <3>1, <3>2
  <2>. QED BY <2>1, <2>3
<1>7. /\ \A p \in gone' : TypeOf(p)' = "file"
      /\ \A i \in DOMAIN source'.inode :
            version'[i] = 0 => size'[i] = source'.inode[i].size
  <2>1. size' = size /\ version' = version /\ \A p : TypeOf(p)' = TypeOf(p)
    BY AskedStays DEF files
  <2>. QED BY <1>1, <2>1 DEF Gathered
<1>8. \A j \in DOMAIN work' : Sensible(work[j])'
  BY <1>2, <1>4
<1>9. \A q \in Due' : q \in gone' \/ q \in Held' \/ InWork(q)'
  BY <1>1, <1>5, <1>6
<1>. QED BY <1>7, <1>8, <1>9 DEF Gathered

\* A list of headers that is longer by one, or has one more link.
LEMMA ListLonger ==
    ASSUME TypeInv, Gathered, UNCHANGED outer, UNCHANGED files,
           NEW hs \in Seq(Header), hs = headers',
           AllTrue(hs), OneEach(hs), ~InnerFirst => InOrder(hs), Held \subseteq NamesIn(hs)
    PROVE  /\ AllTrue(headers)' /\ OneEach(headers)' /\ (~InnerFirst => InOrder(headers))'
           /\ Held' = NamesIn(hs) /\ Held \subseteq Held'
           /\ \A p \in gone' : TypeOf(p)' = "file"
           /\ \A i \in DOMAIN source'.inode :
                 version'[i] = 0 => size'[i] = source'.inode[i].size
<1>1. /\ source' = source /\ InnerFirst' = InnerFirst
      /\ gone' = gone /\ version' = version /\ size' = size
      /\ \A p : TypeOf(p)' = TypeOf(p)
  BY AskedStays DEF files
<1>2. /\ AllTrue(hs)' /\ OneEach(hs)'
      /\ InOrder(hs)' = InOrder(hs) /\ NamesIn(hs)' = NamesIn(hs)
  BY ListStays
<1>3. AllTrue(headers)' /\ OneEach(headers)' /\ (~InnerFirst => InOrder(headers))'
  BY <1>1, <1>2 DEF AllTrue, OneEach, InOrder
<1>4. Held' = NamesIn(hs)
  BY <1>2 DEF Held, NamesIn
<1>. QED BY <1>1, <1>3, <1>4 DEF Gathered

\* add_file for the first piece of work.
LEMMA AddedGathered ==
    ASSUME TypeInv, Gathered, wpc = "add", work # <<>>,
           UNCHANGED outer, UNCHANGED files, UNCHANGED args,
           NEW p \in Paths, p = Head(work).at, p \in AskedFiles \cup AskedDirs,
           Head(work).op \in {"file", "visit"},
           ~InnerFirst => \A d \in AskedDirs : IsStrictPrefix(d, p) => d \in Held,
           NEW new, new = IF TypeOf(p) = "dir" THEN <<[op |-> "list", at |-> p]>> ELSE <<>>,
           AddHeader(p, new \o Tail(work))
    PROVE  Gathered'
<1>1. PICK hs : hs = headers'
  OBVIOUS
<1>2. /\ AllTrue(headers) /\ OneEach(headers) /\ (~InnerFirst => InOrder(headers))
  BY DEF Gathered
<1>3. PICK rest : rest = new \o Tail(work) /\ AddHeader(p, rest)
  OBVIOUS
<1>4. /\ AllTrue(hs) /\ OneEach(hs)
      /\ Held \subseteq NamesIn(hs) /\ (wpc' = "add" => p \in NamesIn(hs))
      /\ (/\ InOrder(headers)
          /\ \A d \in AskedDirs : IsStrictPrefix(d, p) => d \in Held)
         => InOrder(hs)
  BY <1>1, <1>2, <1>3, HeaderAdded
<1>5. hs \in Seq(Header) /\ wpc' \in {"add", "overrun"} /\ work' = new \o Tail(work)
  BY <1>1, <1>3, AddHeaderTyped
<1>6. ~InnerFirst => InOrder(hs)
  BY <1>2, <1>4
<1>7. /\ AllTrue(headers)' /\ OneEach(headers)' /\ (~InnerFirst => InOrder(headers))'
      /\ Held' = NamesIn(hs) /\ Held \subseteq Held'
      /\ \A r \in gone' : TypeOf(r)' = "file"
      /\ \A i \in DOMAIN source'.inode :
            version'[i] = 0 => size'[i] = source'.inode[i].size
  BY <1>1, <1>4, <1>5, <1>6, ListLonger
<1>8. CASE wpc' = "overrun"
  BY <1>7, <1>8 DEF Gathered
<1>9. CASE wpc' = "add"
  <2>1. p \in Held'
    BY <1>4, <1>7, <1>9
  <2>2. /\ p \in Path /\ p \in DOMAIN source.node /\ TypeOf(p) \in {"file", "dir"}
        /\ source' = source /\ command' = command
    BY DEF Paths, TypeInv, SourceTyped, Source, Path, AskedFiles, AskedDirs, Asked, outer
  <2>3. new \in Seq(Todo)
    <3>1. [op |-> "list", at |-> p] \in Todo
      BY <2>2 DEF Todo
    <3>. QED BY <3>1
  <2>4. CASE TypeOf(p) = "dir"
    <3>1. PICK w : w = [op |-> "list", at |-> p]
      OBVIOUS
    <3>2. DOMAIN new = {1} /\ new[1] = w
      BY <2>4, <3>1
    <3>3. p \in AskedDirs /\ \E k \in DOMAIN command : IsPrefix(command[k], p)
      BY <2>4 DEF AskedFiles, AskedDirs, Asked
    <3>4. AskedDirs' = AskedDirs /\ InnerFirst' = InnerFirst /\ TypeOf(p)' = TypeOf(p)
      BY AskedStays
    <3>5. Sensible(w)'
      <4>1. w.op = "list" /\ w.at = p
        BY <3>1
      <4>2. ASSUME ~InnerFirst, NEW d \in AskedDirs, Below(d, w) PROVE d \in Held'
        BY <1>7, <2>1, <4>1, <4>2 DEF Below
      <4>3. ~InnerFirst' => \A d \in AskedDirs' : Below(d, w)' => d \in Held'
        BY <3>4, <4>2 DEF Below
      <4>4. TypeOf(w.at)' = "dir"
        BY <2>4, <3>4, <4>1 DEF TypeOf
      <4>5. /\ w.at \in DOMAIN source'.node
            /\ \E k \in DOMAIN command' : IsPrefix(command'[k], w.at)
        BY <2>2, <3>3, <4>1
      <4>. QED BY <4>1, <4>3, <4>4, <4>5 DEF Sensible
    <3>6. \A i \in DOMAIN new : Sensible(new[i])'
      BY <3>2, <3>5
    <3>7. ASSUME NEW q \in Cover(DOMAIN source.node, Head(work))
          PROVE  q \in Held' \/ \E i \in DOMAIN new : q \in Cover(DOMAIN source.node, new[i])
      <4>1. q \in Tree(DOMAIN source.node, p)
        BY <3>7 DEF Cover
      <4>2. q # p => q \in Cover(DOMAIN source.node, w)
        BY <3>1, <4>1 DEF Cover
      <4>. QED BY <2>1, <3>2, <4>2
    <3>. QED BY <1>5, <1>7, <1>9, <2>3, <3>6, <3>7, WorkGathered
  <2>5. CASE TypeOf(p) = "file"
    <3>1. new = <<>>
      BY <2>5
    <3>2. DOMAIN new = {}
      BY <3>1
    <3>3. Cover(DOMAIN source.node, Head(work)) = {p}
      BY <2>2, <2>5, NothingBelow DEF Cover
    <3>. QED BY <1>5, <1>7, <1>9, <2>1, <2>3, <3>2, <3>3, WorkGathered
  <2>. QED BY <2>2, <2>4, <2>5
<1>. QED BY <1>5, <1>8, <1>9

\* The first piece of work, which is a sensible one.
LEMMA HeadSensible ==
    ASSUME TypeInv, Gathered, wpc = "add", work # <<>>
    PROVE  Sensible(Head(work)) /\ Head(work) \in Todo
<1>1. work \in Seq(Todo)
  BY DEF TypeInv, WriterTyped
<1>2. Head(work) = work[1] /\ 1 \in DOMAIN work
  <2>1. Len(work) \in Nat /\ Len(work) # 0
    BY <1>1, EmptySeq
  <2>. QED BY <1>1, <2>1, HeadTailProperties
<1>3. \A j \in DOMAIN work : Sensible(work[j])
  BY DEF Gathered
<1>. QED BY <1>1, <1>2, <1>3, RestTyped

LEMMA AddFileGathered ==
    ASSUME TypeInv, Gathered, AddFile
    PROVE  Gathered'
<1>1. /\ wpc = "add" /\ work # <<>> /\ Head(work).op \in {"file", "fail"}
      /\ UNCHANGED outer /\ UNCHANGED files /\ UNCHANGED args
  BY DEF AddFile
<1>2. PICK w \in Todo : w = Head(work) /\ Sensible(w)
  BY <1>1, HeadSensible
<1>3. w.op = "file" /\ w.at \in AskedFiles
  BY <1>1, <1>2 DEF Sensible
<1>4. CASE w.at \notin Paths
  <2>1. wpc' = "exit" /\ UNCHANGED headers
    BY <1>2, <1>4 DEF AddFile
  <2>. QED BY <1>1, <2>1, GaveUp
<1>5. CASE w.at \in Paths
  <2>1. PICK p \in Paths : p = w.at
    BY <1>5
  <2>2. AddHeader(p, Tail(work))
    BY <1>2, <1>3, <2>1 DEF AddFile
  <2>3. TypeOf(p) = "file"
    BY <1>3, <2>1 DEF AskedFiles, Asked
  <2>4. <<>> \o Tail(work) = Tail(work)
    BY <1>1, RestTyped
  <2>5. ~InnerFirst => \A d \in AskedDirs : IsStrictPrefix(d, p) => d \in Held
    BY <1>2, <2>1 DEF Sensible, Below
  <2>6. AddHeader(p, (IF TypeOf(p) = "dir" THEN <<[op |-> "list", at |-> p]>> ELSE <<>>)
                     \o Tail(work))
    BY <2>2, <2>3, <2>4
  <2>. QED BY <1>1, <1>2, <1>3, <2>1, <2>5, <2>6, AddedGathered
<1>. QED BY <1>4, <1>5

LEMMA VisitEntryGathered ==
    ASSUME TypeInv, Gathered, VisitEntry
    PROVE  Gathered'
<1>1. /\ wpc = "add" /\ work # <<>> /\ Head(work).op = "visit"
      /\ UNCHANGED outer /\ UNCHANGED files /\ UNCHANGED args
  BY DEF VisitEntry
<1>2. PICK w \in Todo : w = Head(work) /\ Sensible(w)
  BY <1>1, HeadSensible
<1>3. /\ w.op = "visit" /\ w.at \in DOMAIN source.node
      /\ \E k \in DOMAIN command : IsStrictPrefix(command[k], w.at)
  BY <1>1, <1>2 DEF Sensible
<1>4. CASE w.at \notin Paths
  <2>1. wpc' = "exit" /\ UNCHANGED headers
    BY <1>2, <1>4 DEF VisitEntry
  <2>. QED BY <1>1, <2>1, GaveUp
<1>5. CASE w.at \in Paths
  <2>1. PICK p \in Paths : p = w.at
    BY <1>5
  <2>2. ~InnerFirst => \A d \in AskedDirs : IsStrictPrefix(d, p) => d \in Held
    BY <1>2, <2>1 DEF Sensible, Below
  <2>3. <<>> \o Tail(work) = Tail(work) /\ Tail(work) \in Seq(Todo)
    BY <1>1, RestTyped
  <2>4. CASE TypeOf(p) = "symlink"
    <3>1. work' = Tail(work) /\ wpc' = "add" /\ headers' = headers
      BY <1>1, <1>2, <2>1, <2>4 DEF VisitEntry
    <3>2. /\ AllTrue(headers)' /\ OneEach(headers)' /\ (~InnerFirst => InOrder(headers))'
          /\ Held' = Held
      BY <1>1, <3>1, ListGathered
    <3>3. Cover(DOMAIN source.node, Head(work)) = {p}
      BY <1>2, <1>3, <2>1, <2>4, NothingBelow DEF Cover
    <3>4. p \notin Due
      BY <2>4 DEF Due, Wanted
    <3>5. PICK new : new = <<>>
      OBVIOUS
    <3>6. new \in Seq(Todo) /\ work' = new \o Tail(work) /\ DOMAIN new = {}
      BY <2>3, <3>1, <3>5
    <3>. QED BY <1>1, <3>1, <3>2, <3>3, <3>4, <3>6, WorkGathered
  <2>5. CASE TypeOf(p) \in {"file", "dir"}
    <3>1. p \in AskedFiles \cup AskedDirs
      BY <1>3, <2>1, <2>5 DEF AskedFiles, AskedDirs, Asked, IsStrictPrefix
    <3>2. AddHeader(p, (IF TypeOf(p) = "dir" THEN <<[op |-> "list", at |-> p]>> ELSE <<>>)
                       \o Tail(work))
      <4>1. CASE TypeOf(p) = "file"
        BY <1>2, <2>1, <2>3, <4>1 DEF VisitEntry
      <4>2. CASE TypeOf(p) = "dir"
        BY <1>2, <2>1, <4>2 DEF VisitEntry
      <4>. QED BY <2>5, <4>1, <4>2
    <3>. QED BY <1>1, <1>2, <2>1, <2>2, <3>1, <3>2, AddedGathered
  <2>. QED BY <2>4, <2>5, TypesThere
<1>. QED BY <1>4, <1>5

\* readdir comes to every entry of a directory.
LEMMA EveryEntry ==
    ASSUME TypeInv, NEW d, NEW order \in SetToSeqs(Entries(d))
    PROVE  \E n \in Nat : /\ order \in [1..n -> Entries(d)]
                          /\ \A e \in Entries(d) : \E k \in 1..n : order[k] = e
<1>1. IsFiniteSet(Entries(d))
  <2>1. Entries(d) \subseteq DOMAIN source.node
    BY DEF Entries, Paths
  <2>. QED BY <2>1, FS_Subset DEF TypeInv, SourceTyped, Source
<1>2. PICK n \in Nat : n = Cardinality(Entries(d))
  BY <1>1, FS_CardinalityType
<1>3. /\ order \in [1..n -> Entries(d)]
      /\ \A j, k \in 1..n : j # k => order[j] # order[k]
  BY <1>2 DEF SetToSeqs
<1>4. order \in Injection(1..n, Entries(d))
  BY <1>3 DEF Injection, IsInjective
<1>5. Cardinality(1..n) = n
  BY FS_Interval
<1>6. order \in Surjection(1..n, Entries(d))
  BY <1>1, <1>2, <1>4, <1>5, FS_Injection
<1>. QED BY <1>3, <1>6 DEF Surjection

LEMMA AddDirGathered ==
    ASSUME TypeInv, Gathered, AddDir
    PROVE  Gathered'
<1>1. /\ wpc = "add" /\ work # <<>> /\ Head(work).op = "list"
      /\ UNCHANGED outer /\ UNCHANGED files /\ UNCHANGED args
      /\ wpc' = "add" /\ UNCHANGED headers
  BY DEF AddDir
<1>2. PICK w \in Todo : w = Head(work) /\ Sensible(w)
  BY <1>1, HeadSensible
<1>3. PICK d \in DOMAIN source.node : d = w.at
  BY <1>2 DEF Sensible
<1>4. /\ w.op = "list" /\ TypeOf(d) = "dir" /\ \E k \in DOMAIN command : IsPrefix(command[k], d)
      /\ ~InnerFirst => \A c \in AskedDirs : IsStrictPrefix(c, d) \/ c = d => c \in Held
  BY <1>1, <1>2, <1>3 DEF Sensible, Below
<1>5. PICK order \in SetToSeqs(Entries(d)) :
          work' = [k \in DOMAIN order |-> [op |-> "visit", at |-> order[k]]] \o Tail(work)
  BY <1>2, <1>3 DEF AddDir
<1>6. PICK n \in Nat : /\ order \in [1..n -> Entries(d)]
                       /\ \A e \in Entries(d) : \E k \in 1..n : order[k] = e
  BY EveryEntry
<1>7. PICK new : new = [k \in 1..n |-> [op |-> "visit", at |-> order[k]]]
  OBVIOUS
<1>8. work' = new \o Tail(work)
  BY <1>5, <1>6, <1>7
<1>9. \A k \in 1..n : /\ new[k].op = "visit" /\ new[k].at = order[k]
                      /\ order[k] \in Entries(d) /\ order[k] \in DOMAIN source.node
                      /\ order[k] \in Path /\ new[k] \in Todo
  BY <1>6, <1>7 DEF Entries, Paths, TypeInv, SourceTyped, Source, Path, Todo
<1>10. new \in Seq(Todo) /\ DOMAIN new = 1..n
  BY <1>7, <1>9, CountedIsSeq
<1>11. /\ AllTrue(headers)' /\ OneEach(headers)' /\ (~InnerFirst => InOrder(headers))'
       /\ Held' = Held
  BY <1>1, ListGathered
<1>12. /\ DOMAIN source.node \subseteq Path /\ \A k \in DOMAIN command : command[k] \in Path
       /\ AskedDirs \subseteq DOMAIN source.node
  <2>1. command \in Seq(Seq(DOMAIN NameLen) \ {<<>>})
    BY JtarAssumption DEF TypeInv, SourceTyped
  <2>2. \A k \in DOMAIN command : command[k] \in Path
    BY <2>1 DEF Path
  <2>3. DOMAIN source.node \subseteq Path
    BY DEF TypeInv, SourceTyped, Source, Path
  <2>. QED BY <2>2, <2>3 DEF AskedDirs, Asked
<1>13. ASSUME NEW e \in Entries(d), NEW v, v.op = "visit", v.at = e PROVE Sensible(v)
  <2>1. /\ e \in DOMAIN source.node
        /\ \A c \in Path : IsPrefix(c, d) => IsStrictPrefix(c, e)
        /\ \A c \in Path : IsStrictPrefix(c, e) => c = d \/ IsStrictPrefix(c, d)
    BY EntryOrder
  <2>2. \E k \in DOMAIN command : IsStrictPrefix(command[k], e)
    BY <1>4, <1>12, <2>1
  <2>3. ~InnerFirst => \A c \in AskedDirs : IsStrictPrefix(c, e) => c \in Held
    BY <1>4, <1>12, <2>1
  <2>. QED BY <1>13, <2>1, <2>2, <2>3 DEF Sensible, Below
<1>14. ASSUME NEW k \in DOMAIN new PROVE Sensible(new[k])'
  <2>0. PICK e, v : v = new[k] /\ e = order[k]
    OBVIOUS
  <2>1. e \in Entries(d) /\ v = new[k] /\ v.op = "visit" /\ v.at = e
    BY <1>9, <1>10, <2>0
  <2>2. Sensible(v)
    BY <1>13, <2>1
  <2>3. Sensible(v)'
    BY <1>1, <1>11, <2>2, SensibleStays
  <2>. QED BY <2>0, <2>3
<1>15. ASSUME NEW q \in Cover(DOMAIN source.node, Head(work)), q \notin gone
       PROVE  \E k \in DOMAIN new : q \in Cover(DOMAIN source.node, new[k])
  <2>1. q \in Tree(DOMAIN source.node, d) /\ q # d
    BY <1>2, <1>3, <1>4 DEF Cover
  <2>2. PICK e \in Entries(d) : q \in Tree(DOMAIN source.node, e)
    BY <1>15, <2>1, EntryAbove DEF Gathered
  <2>3. PICK k \in 1..n : order[k] = e
    BY <1>6
  <2>4. Cover(DOMAIN source.node, new[k]) = Tree(DOMAIN source.node, e)
    BY <1>9, <2>3 DEF Cover
  <2>. QED BY <1>10, <2>2, <2>4
<1>. QED BY <1>1, <1>8, <1>10, <1>11, <1>14, <1>15, WorkGathered

\* The argument that is next, and those before it.
LEMMA NextArgument ==
    ASSUME TypeInv, args # <<>>
    PROVE  \E n \in DOMAIN command :
              /\ command[n] = Head(args) /\ n = (Len(command) - Len(args)) + 1
              /\ Len(Tail(args)) = Len(args) - 1 /\ Len(command) - Len(Tail(args)) = n
<1>1. args \in Seq(Path) /\ command \in Seq(Path) /\ IsSuffix(args, command)
  <2>1. command \in Seq(Seq(DOMAIN NameLen) \ {<<>>})
    BY JtarAssumption DEF TypeInv, SourceTyped
  <2>2. command \in Seq(Path)
    BY <2>1, SeqMonotonic DEF Path
  <2>. QED BY <2>2 DEF TypeInv, WriterTyped
<1>2. PICK m \in Nat \ {0}, n \in Nat : m = Len(args) /\ n = Len(command)
  <2>1. Len(args) \in Nat /\ Len(args) # 0 /\ Len(command) \in Nat
    BY <1>1, EmptySeq
  <2>. QED BY <2>1
<1>3. /\ Reverse(args) \in Seq(Path) /\ Len(Reverse(args)) = m
      /\ Reverse(command) \in Seq(Path) /\ Len(Reverse(command)) = n
      /\ \A i \in 1..m : Reverse(args)[i] = args[(m - i) + 1]
      /\ \A i \in 1..n : Reverse(command)[i] = command[(n - i) + 1]
  BY <1>1, <1>2, Reversed
<1>4. m <= n /\ \A i \in 1..m : Reverse(args)[i] = Reverse(command)[i]
  <2>1. IsPrefix(Reverse(args), Reverse(command))
    BY <1>1 DEF IsSuffix
  <2>2. PICK u \in Seq(Path), v \in Seq(Path) : u = Reverse(args) /\ v = Reverse(command)
    BY <1>3
  <2>3. Len(u) <= Len(v) /\ \A i \in 1..Len(u) : u[i] = v[i]
    BY <2>1, <2>2, PrefixPointwise
  <2>. QED BY <1>3, <2>2, <2>3
<1>5. m \in 1..m /\ m \in 1..n /\ (m - m) + 1 = 1 /\ (n - m) + 1 \in 1..n
  BY <1>2, <1>4
<1>6. args[1] = command[(n - m) + 1]
  BY <1>3, <1>4, <1>5
<1>7. Head(args) = args[1] /\ Len(Tail(args)) = m - 1
  BY <1>1, <1>2, HeadTailProperties
<1>8. n - (m - 1) = (n - m) + 1
  BY <1>2
<1>9. DOMAIN command = 1..n
  BY <1>1, <1>2
<1>10. PICK k \in 1..n : k = (n - m) + 1
  BY <1>5
<1>11. command[k] = Head(args) /\ n - Len(Tail(args)) = k
  BY <1>6, <1>7, <1>8, <1>10
<1>12. /\ k \in DOMAIN command /\ command[k] = Head(args)
       /\ k = (Len(command) - Len(args)) + 1
       /\ Len(Tail(args)) = Len(args) - 1 /\ Len(command) - Len(Tail(args)) = k
  BY <1>2, <1>7, <1>9, <1>10, <1>11
<1>. QED BY <1>12, Zenon

\* What is due once an argument has been taken.
LEMMA DueGrows ==
    ASSUME TypeInv, UNCHANGED outer, args # <<>>, args' = Tail(args)
    PROVE  /\ Due' = Due \cup Wanted(Head(args))
           /\ \E n \in DOMAIN command :
                 /\ command[n] = Head(args)
                 /\ \A k \in DOMAIN command : k < n => Wanted(command[k]) \subseteq Due
<1>1. PICK n \in DOMAIN command :
              /\ command[n] = Head(args) /\ n = (Len(command) - Len(args)) + 1
              /\ Len(Tail(args)) = Len(args) - 1 /\ Len(command) - Len(Tail(args)) = n
  BY NextArgument
<1>2. PICK m \in Nat : m = Len(command) - Len(args) /\ n = m + 1
  <2>1. command \in Seq(Seq(DOMAIN NameLen) \ {<<>>}) /\ args \in Seq(Path)
    BY JtarAssumption DEF TypeInv, SourceTyped, WriterTyped
  <2>2. n \in 1..Len(command) /\ Len(command) \in Nat /\ Len(args) \in Nat
    BY <2>1
  <2>3. Len(command) - Len(args) \in Nat
    BY <1>1, <2>2
  <2>. QED BY <1>1, <2>3
<1>3. Due = UNION {Wanted(command[k]) : k \in 1..m}
  BY <1>2 DEF Due
<1>4. Due' = UNION {Wanted(command[k]) : k \in 1..n}
  <2>1. command' = command /\ \A a : Wanted(a)' = Wanted(a)
    BY AskedStays
  <2>2. Len(command') - Len(args') = n
    BY <1>1, <2>1
  <2>3. Due' = UNION {Wanted(command[k])' : k \in 1..n}
    BY <2>1, <2>2 DEF Due
  <2>4. ASSUME NEW k \in 1..n PROVE Wanted(command[k])' = Wanted(command[k])
    <3>1. PICK a : a = command[k]
      OBVIOUS
    <3>2. Wanted(a)' = Wanted(a)
      BY <2>1
    <3>. QED BY <2>1, <3>1, <3>2 DEF Wanted
  <2>. QED BY <2>3, <2>4
<1>5. 1..n = 1..m \cup {n}
  BY <1>2
<1>6. Due' = Due \cup Wanted(Head(args))
  BY <1>1, <1>3, <1>4, <1>5
<1>7. ASSUME NEW k \in DOMAIN command, k < n PROVE Wanted(command[k]) \subseteq Due
  <2>1. k \in 1..Len(command)
    <3>1. command \in Seq(Seq(DOMAIN NameLen) \ {<<>>})
      BY JtarAssumption DEF TypeInv, SourceTyped
    <3>. QED BY <3>1
  <2>2. k \in 1..m
    BY <1>2, <1>7, <2>1
  <2>. QED BY <1>3, <2>2
<1>. QED BY <1>1, <1>6, <1>7

\* The directories that an argument is in, or is, are due before it, unless the
\* outer one is asked for later.
LEMMA OuterDue ==
    ASSUME TypeInv, Plain, ~InnerFirst, NEW n \in DOMAIN command,
           \A k \in DOMAIN command : k < n => Wanted(command[k]) \subseteq Due,
           NEW d \in AskedDirs, IsPrefix(d, command[n])
    PROVE  d \in Due
<1>1. /\ d \in DOMAIN source.node /\ TypeOf(d) = "dir"
      /\ \E k \in DOMAIN command : IsStrictPrefix(command[k], d)
  BY DEF AskedDirs, Asked
<1>2. PICK k \in DOMAIN command : IsStrictPrefix(command[k], d)
  BY <1>1
<1>3. d \in Wanted(command[k])
  BY <1>1, <1>2 DEF Wanted
<1>4. IsStrictPrefix(command[k], command[n])
  <2>1. d \in Path /\ command[k] \in Path /\ command[n] \in Path
    BY <1>1 DEF Plain, TypeInv, SourceTyped, Source, Path
  <2>. QED BY <1>2, <2>1, PrefixFacts
<1>5. k # n
  BY <1>4 DEF IsStrictPrefix
<1>6. ~(n < k)
  BY <1>4 DEF InnerFirst
<1>7. k < n
  <2>1. command \in Seq(Seq(DOMAIN NameLen) \ {<<>>})
    BY JtarAssumption DEF TypeInv, SourceTyped
  <2>2. k \in Nat /\ n \in Nat
    BY <2>1
  <2>. QED BY <1>5, <1>6, <2>2
<1>. QED BY <1>3, <1>7

\* An argument becomes due, and a piece of work.
LEMMA ArgGathered ==
    ASSUME TypeInv, Gathered, wpc = "add", wpc' = "add", work = <<>>,
           UNCHANGED outer, UNCHANGED files, UNCHANGED headers, NEW a,
           Due' = Due \cup Wanted(a),
           \/ work' = <<>> /\ Wanted(a) = {}
           \/ \E w : /\ work' = <<w>> /\ Sensible(w)
                     /\ Wanted(a) \subseteq Cover(DOMAIN source.node, w)
    PROVE  Gathered'
<1>1. /\ \A p \in gone' : TypeOf(p)' = "file"
      /\ \A i \in DOMAIN source'.inode :
            version'[i] = 0 => size'[i] = source'.inode[i].size
      /\ AllTrue(headers)' /\ OneEach(headers)'
      /\ (~InnerFirst => InOrder(headers))'
      /\ Held' = Held
  BY ListGathered
<1>2. source' = source /\ gone' = gone
  BY DEF outer, files
<1>3. \A q \in Due : q \in gone \/ q \in Held
  <2>1. \A q : ~InWork(q)
    BY DEF InWork
  <2>. QED BY <2>1 DEF Gathered
<1>4. CASE work' = <<>> /\ Wanted(a) = {}
  <2>1. \A j \in DOMAIN work' : Sensible(work[j])'
    BY <1>4
  <2>. QED BY <1>1, <1>2, <1>3, <1>4, <2>1 DEF Gathered
<1>5. ASSUME NEW w, work' = <<w>>, Sensible(w), Wanted(a) \subseteq Cover(DOMAIN source.node, w)
      PROVE  Gathered'
  <2>1. DOMAIN work' = {1} /\ work'[1] = w
    BY <1>5
  <2>2. Sensible(w)'
    BY <1>1, <1>5, SensibleStays
  <2>3. \A j \in DOMAIN work' : Sensible(work[j])'
    BY <2>1, <2>2
  <2>4. \A q \in Wanted(a) : InWork(q)'
    BY <1>2, <1>5, <2>1 DEF InWork
  <2>5. \A q \in Due' : q \in gone' \/ q \in Held' \/ InWork(q)'
    BY <1>1, <1>2, <1>3, <2>4
  <2>. QED BY <1>1, <2>3, <2>5 DEF Gathered
<1>. QED BY <1>4, <1>5

LEMMA AddGathered ==
    ASSUME TypeInv, Plain, Gathered, Add
    PROVE  Gathered'
<1>1. /\ wpc = "add" /\ work = <<>> /\ args # <<>> /\ args' = Tail(args)
      /\ UNCHANGED outer /\ UNCHANGED files /\ UNCHANGED headers
  BY DEF Add
<1>2. PICK a : a = Head(args)
  OBVIOUS
<1>3. CASE a \notin Paths
  <2>1. wpc' = "exit"
    BY <1>2, <1>3 DEF Add
  <2>. QED BY <1>1, <2>1, GaveUp
<1>4. CASE a \in Paths
  <2>1. wpc' = "add"
    BY <1>1, <1>2, <1>4 DEF Add
  <2>2. Due' = Due \cup Wanted(a)
    BY <1>1, <1>2, DueGrows
  <2>3. PICK n \in DOMAIN command :
            /\ command[n] = a
            /\ \A k \in DOMAIN command : k < n => Wanted(command[k]) \subseteq Due
    BY <1>1, <1>2, DueGrows
  <2>4. /\ a \in DOMAIN source.node /\ a \in Path /\ IsPrefix(command[n], a)
        /\ TypeOf(a) = "file" => Len(a) = 1
    <3>1. a \in DOMAIN source.node /\ a \in Path /\ (TypeOf(a) = "file" => Len(a) = 1)
      BY <2>3 DEF Plain, TypeInv, SourceTyped, Source, Path
    <3>. QED BY <2>3, <3>1, PrefixFacts
  <2>5. \A q \in Wanted(a) : q \in Tree(DOMAIN source.node, a) /\ TypeOf(q) \in {"file", "dir"}
    BY DEF Wanted, Tree, IsStrictPrefix
  <2>6. ASSUME ~InnerFirst, NEW d \in AskedDirs, IsPrefix(d, a) PROVE d \in Held
    <3>1. d \in Due
      BY <2>3, <2>6, OuterDue
    <3>2. d \notin gone
      BY DEF Gathered, AskedDirs, Asked
    <3>3. ~InWork(d)
      BY <1>1 DEF InWork
    <3>. QED BY <1>1, <3>1, <3>2, <3>3 DEF Gathered
  <2>7. CASE TypeOf(a) = "symlink"
    <3>1. work' = <<>>
      BY <1>2, <1>4, <2>7 DEF Add
    <3>2. Wanted(a) = {}
      BY <2>4, <2>5, <2>7, NothingBelow
    <3>. QED BY <1>1, <2>1, <2>2, <3>1, <3>2, ArgGathered
  <2>8. CASE TypeOf(a) = "dir"
    <3>1. PICK w : w = [op |-> "list", at |-> a] /\ work' = <<w>>
      BY <1>2, <1>4, <2>8 DEF Add
    <3>2. w.op = "list" /\ w.at = a
      BY <3>1
    <3>3. Sensible(w)
      <4>1. ~InnerFirst => \A d \in AskedDirs : Below(d, w) => d \in Held
        <5>1. ASSUME NEW d \in AskedDirs, Below(d, w) PROVE IsPrefix(d, a)
          BY <2>4, <3>2, <5>1, PrefixFacts DEF Below, IsStrictPrefix
        <5>. QED BY <2>6, <5>1
      <4>2. \E k \in DOMAIN command : IsPrefix(command[k], w.at)
        BY <2>4, <3>2
      <4>. QED BY <2>4, <2>8, <3>2, <4>1, <4>2 DEF Sensible
    <3>4. Wanted(a) \subseteq Cover(DOMAIN source.node, w)
      <4>1. a \notin Wanted(a)
        BY <2>8 DEF Wanted, IsStrictPrefix
      <4>. QED BY <2>5, <3>2, <4>1 DEF Cover
    <3>. QED BY <1>1, <2>1, <2>2, <3>1, <3>3, <3>4, ArgGathered
  <2>9. CASE TypeOf(a) = "file"
    <3>1. PICK w : w = [op |-> "file", at |-> a] /\ work' = <<w>>
      BY <1>2, <1>4, <2>4, <2>9 DEF Add
    <3>2. w.op = "file" /\ w.at = a
      BY <3>1
    <3>3. Sensible(w)
      <4>1. a \in AskedFiles
        BY <2>4, <2>9 DEF AskedFiles, Asked
      <4>2. ~InnerFirst => \A d \in AskedDirs : Below(d, w) => d \in Held
        <5>1. ASSUME NEW d \in AskedDirs, Below(d, w) PROVE IsPrefix(d, a)
          BY <3>2, <5>1 DEF Below, IsStrictPrefix
        <5>. QED BY <2>6, <5>1
      <4>. QED BY <2>4, <3>2, <4>1, <4>2 DEF Sensible
    <3>4. Wanted(a) \subseteq Cover(DOMAIN source.node, w)
      BY <2>5, <3>2 DEF Cover
    <3>. QED BY <1>1, <2>1, <2>2, <3>1, <3>3, <3>4, ArgGathered
  <2>. QED BY <1>4, <2>7, <2>8, <2>9, TypesThere
<1>. QED BY <1>3, <1>4

LEMMA StepGathered ==
    ASSUME TypeInv, Plain, Gathered, [Next]_vars
    PROVE  Gathered'
<1>1. CASE Add \/ AddFile \/ AddDir \/ VisitEntry
  BY <1>1, AddGathered, AddFileGathered, AddDirGathered, VisitEntryGathered
<1>2. CASE StartPrinting \/ PrintHeader \/ PrintData \/ StopPrinting
  <2>1. /\ UNCHANGED <<outer, files, headers, args, work>>
        /\ \/ wpc = "add" /\ work = <<>> /\ args = <<>> /\ wpc' = "header"
           \/ wpc \in {"header", "data"} /\ wpc' # "add"
    BY <1>2 DEF StartPrinting, PrintHeader, PrintData, StopPrinting
  <2>. QED BY <2>1, GatheredStays
<1>3. CASE ReaderStep \/ ExtractAgain
  <2>1. UNCHANGED <<outer, files, writer>>
    BY <1>3 DEF ReaderStep, ReadRecord, RecreateLink, LastLink, EndOfArchive,
                RecreateDir, Finish, ExtractAgain
  <2>. QED BY <2>1, GatheredStays DEF writer
<1>4. CASE Editor
  <2>1. UNCHANGED <<outer, writer>>
    BY <1>4 DEF Editor, Rewrite, Unlink
  <2>. QED BY <1>4, <2>1, GatheredStays DEF writer
<1>5. CASE UNCHANGED vars
  BY <1>5, GatheredStays DEF vars, writer
<1>. QED BY <1>1, <1>2, <1>3, <1>4, <1>5 DEF Next, WriterStep
------------------------------------------------------------------------------
(* What was packed comes back: the list of headers is printed. *)

\* A header in the stream stays where it is.
LEMMA HeadsStay ==
    ASSUME TypeInv, NEW more \in Seq(Token), stream' = stream \o more, NEW k
    PROVE  /\ HeadAt(k) => /\ k \in 1..Len(stream) /\ k \in 1..Len(stream')
                           /\ stream'[k] = stream[k] /\ stream[k].val \in Header
           /\ HeadAt(k) => HeadAt(k)'
           /\ FileAt(k) => FileAt(k)'
           /\ DirAt(k) => DirAt(k)'
           /\ k \in 1..Len(stream) =>
                 /\ HeadAt(k)' = HeadAt(k) /\ FileAt(k)' = FileAt(k) /\ DirAt(k)' = DirAt(k)
                 /\ stream'[k] = stream[k]
<1>1. /\ Len(stream) \in Nat /\ Len(more) \in Nat
      /\ Len(stream') = Len(stream) + Len(more)
      /\ \A i \in 1..Len(stream) : stream'[i] = stream[i]
  BY StreamGrows
<1>2. \A i \in 1..Len(stream) : i \in 1..Len(stream')
  BY <1>1
<1>3. ASSUME HeadAt(k)
      PROVE  /\ k \in 1..Len(stream) /\ k \in 1..Len(stream')
             /\ stream'[k] = stream[k] /\ stream[k].val \in Header
  <2>1. k \in 1..Len(stream) /\ stream[k].kind = "head"
    BY <1>3 DEF HeadAt
  <2>2. stream[k] \in Token
    BY <2>1, ElementOfSeq DEF TypeInv, WriterTyped
  <2>. QED BY <1>1, <1>2, <2>1, <2>2, TokenFields
<1>4. ASSUME k \in 1..Len(stream)
      PROVE  /\ HeadAt(k)' = HeadAt(k) /\ FileAt(k)' = FileAt(k) /\ DirAt(k)' = DirAt(k)
             /\ stream'[k] = stream[k]
  <2>1. stream'[k] = stream[k] /\ k \in 1..Len(stream')
    BY <1>1, <1>2, <1>4
  <2>2. HeadAt(k)' = HeadAt(k)
    BY <1>4, <2>1 DEF HeadAt
  <2>. QED BY <2>1, <2>2 DEF FileAt, DirAt
<1>. QED BY <1>3, <1>4 DEF FileAt, DirAt

\* The numbers in a header of a file.
LEMMA FileNumbers ==
    ASSUME TypeInv, NEW k, FileAt(k)
    PROVE  /\ k \in 1..Len(stream) /\ stream[k].val \in Header
           /\ \E n \in Nat \ {0}, m \in Nat :
                 /\ n = stream[k].val.file_stats.nlink
                 /\ m = stream[k].val.file_stats.size
           /\ Ino(stream[k].val) \in DOMAIN source.inode
<1>1. k \in 1..Len(stream) /\ stream[k].kind = "head" /\ stream[k].val.ftype = "file"
  BY DEF FileAt, HeadAt
<1>2. stream[k] \in Token
  BY <1>1, ElementOfSeq DEF TypeInv, WriterTyped
<1>3. stream[k].val \in Header
  BY <1>1, <1>2, TokenFields
<1>4. stream[k].val.file_stats \in FileStat
  BY <1>1, <1>3, HeaderFields
<1>. QED BY <1>1, <1>3, <1>4 DEF FileStat, Ino

\* A file is all there, or it is the one that is being printed.
LEMMA Complete ==
    ASSUME TypeInv, FrameInv, NEW k, FileAt(k),
           NEW n \in Nat \ {0}, n = stream[k].val.file_stats.nlink,
           NEW m \in Nat, m = stream[k].val.file_stats.size
    PROVE  /\ k - 1 + n <= Len(stream)
           /\ \/ k - 1 + (n + m) <= Len(stream)
              \/ ~Whole /\ k - 1 + n = Len(stream)
                        /\ (wpc = "data" => stream[k].val = headers[next])
<1>1. k \in 1..Len(stream) /\ stream[k].kind = "head" /\ stream[k].val.ftype = "file"
  BY DEF FileAt, HeadAt
<1>2. Extent(stream[k].val) = n + m
  BY <1>1 DEF Extent, RecordLen
<1>3. k - 1 + n <= Len(stream)
  BY <1>1 DEF FrameInv, Framed
<1>4. Len(stream) \in Nat
  BY DEF TypeInv, WriterTyped
<1>5. CASE \E b \in Nat : b = k - 1 + Extent(stream[k].val) /\ Boundary(b)
  <2>1. PICK b \in Nat : b = k - 1 + (n + m) /\ b \in 0..Len(stream)
    BY <1>2, <1>5 DEF Boundary
  <2>. QED BY <1>3, <1>4, <2>1
<1>6. CASE ~Whole /\ k - 1 + n = Len(stream) /\ (wpc = "data" => stream[k].val = headers[next])
  BY <1>3, <1>6
<1>. QED BY <1>1, <1>5, <1>6 DEF FrameInv, Framed

\* A byte is in the part of the stream that its file is in.
LEMMA InFile ==
    ASSUME NEW k \in Nat \ {0}, NEW n \in Nat \ {0}, NEW m \in Nat, NEW j \in 1..m,
           NEW N \in Nat, NEW M \in Nat, k - 1 + (n + m) <= N \/ M = 0,
           k + n - 1 + j <= N + M
    PROVE  k + n - 1 + j \in 1..N
OBVIOUS

\* What follows the header of a file that is all there stays.
LEMMA FollowStays ==
    ASSUME TypeInv, FrameInv, UNCHANGED outer, UNCHANGED files \/ Editor,
           NEW more \in Seq(Token), stream' = stream \o more,
           NEW k, FileAt(k), Follow(k),
           NEW n \in Nat \ {0}, n = stream[k].val.file_stats.nlink,
           NEW m \in Nat, m = stream[k].val.file_stats.size,
           k - 1 + (n + m) <= Len(stream) \/ Len(more) = 0
    PROVE  Follow(k)'
<1>1. PICK h \in Header : h = stream[k].val /\ Ino(h) \in DOMAIN source.inode
  BY FileNumbers
<1>2. /\ k \in 1..Len(stream) /\ h = stream'[k].val
      /\ n = h.file_stats.nlink /\ m = h.file_stats.size
  BY <1>1, FileNumbers, HeadsStay DEF FileAt
<1>3. /\ Len(stream) \in Nat /\ Len(more) \in Nat
      /\ Len(stream') = Len(stream) + Len(more)
      /\ \A i \in 1..Len(stream) : stream'[i] = stream[i]
  BY StreamGrows
<1>4. k - 1 + n <= Len(stream)
  BY Complete
<1>5. NamesFollow(k, h) /\ BytesFollow(k, h)
  BY <1>1 DEF Follow
<1>6. ASSUME NEW j \in 1..n - 1 PROVE stream'[k + j].val = LinkNames(h)[j]
  <2>1. k + j \in 1..Len(stream)
    BY <1>2, <1>3, <1>4, SMTT(60)
  <2>. QED BY <1>2, <1>3, <1>5, <2>1 DEF NamesFollow
<1>7. NamesFollow(k, h)'
  BY <1>2, <1>6 DEF NamesFollow, LinkNames
<1>8. ASSUME NEW j \in 1..m, k + n - 1 + j <= Len(stream')
      PROVE  /\ stream'[k + n - 1 + j].kind = "byte"
             /\ ~Touched(Ino(h))' => stream'[k + n - 1 + j].val = <<Ino(h), 0>>
  <2>1. PICK i : i = k + n - 1 + j
    OBVIOUS
  <2>2. i \in 1..Len(stream) /\ i <= Len(stream)
    <3>1. PICK N \in Nat, M \in Nat : N = Len(stream) /\ M = Len(more)
      BY <1>3
    <3>2. k \in Nat \ {0} /\ j \in 1..m /\ k + n - 1 + j <= N + M
      BY <1>2, <1>3, <1>8, <3>1
    <3>3. k - 1 + (n + m) <= N \/ M = 0
      BY <3>1
    <3>4. k + n - 1 + j \in 1..N
      BY <3>2, <3>3, InFile
    <3>. QED BY <2>1, <3>1, <3>4
  <2>3. stream'[i] = stream[i]
    BY <1>3, <2>2
  <2>4. Touched(Ino(h)) => Touched(Ino(h))'
    <3>1. PICK x \in DOMAIN source.inode : x = Ino(h)
      BY <1>1
    <3>2. Touched(x) => Touched(x)'
      BY StatStays, SMTT(60)
    <3>. QED BY <3>1, <3>2
  <2>. QED BY <1>2, <1>5, <2>1, <2>2, <2>3, <2>4, ZenonT(60) DEF BytesFollow
<1>9. BytesFollow(k, h)'
  <2>1. Ino(h)' = Ino(h)
    BY DEF Ino
  <2>2. n = h.file_stats.nlink /\ m = h.file_stats.size
    BY <1>2
  <2>. QED BY <1>8, <2>2 DEF BytesFollow
<1>. QED BY <1>2, <1>7, <1>9 DEF Follow

\* Steps that print nothing: of the reader, of another process, between files.
LEMMA PrintedStays ==
    ASSUME TypeInv, FrameInv, Printed, UNCHANGED outer, UNCHANGED files \/ Editor,
           UNCHANGED <<headers, next, stream>>,
           wpc' = "add" => wpc = "add", wpc' = "data" => wpc = "data",
           wpc' = "done" => next = Len(headers) + 1
    PROVE  Printed'
<1>1. InnerFirst' = InnerFirst /\ AskedDirs' = AskedDirs
  BY AskedStays
<1>2. \A k : /\ HeadAt(k)' = HeadAt(k) /\ FileAt(k)' = FileAt(k) /\ DirAt(k)' = DirAt(k)
             /\ ListAt(k)' = ListAt(k)
  BY DEF HeadAt, FileAt, DirAt, ListAt
<1>3. \A h : Shown(h)' = Shown(h)
  BY <1>2 DEF Shown
<1>4. PICK more \in Seq(Token) : more = <<>> /\ Len(more) = 0 /\ stream' = stream \o more
  <2>1. stream' = stream \o <<>>
    BY ConcatEmptySeq DEF TypeInv, WriterTyped
  <2>2. <<>> \in Seq(Token) /\ Len(<<>>) = 0
    OBVIOUS
  <2>. QED BY <2>1, <2>2
<1>5. ASSUME NEW k, FileAt(k) PROVE Follow(k)'
  <2>1. PICK n \in Nat \ {0}, m \in Nat : /\ n = stream[k].val.file_stats.nlink
                                          /\ m = stream[k].val.file_stats.size
    BY <1>5, FileNumbers
  <2>2. Follow(k)
    BY <1>5 DEF Printed
  <2>. QED BY <1>4, <1>5, <2>1, <2>2, FollowStays
<1>6. \A k : OuterBefore(k)' = OuterBefore(k)
  BY <1>1, <1>2 DEF OuterBefore
<1>7. ASSUME NEW j \in 1..next - 1 PROVE Shown(headers[j])'
  <2>1. PICK h : h = headers[j] /\ Shown(h)
    BY <1>7 DEF Printed
  <2>2. Shown(h)'
    BY <1>3, <2>1
  <2>3. headers'[j] = h
    BY <2>1
  <2>. QED BY <2>2, <2>3 DEF Shown
<1>8. ASSUME wpc' = "data" PROVE Shown(headers[next])'
  <2>1. PICK h : h = headers[next] /\ Shown(h)
    BY <1>8 DEF Printed
  <2>2. Shown(h)'
    BY <1>3, <2>1
  <2>3. headers'[next'] = h
    BY <2>1
  <2>. QED BY <2>2, <2>3 DEF Shown
<1>9. /\ wpc' = "add" => next' = 1
      /\ wpc' = "done" => next' = Len(headers') + 1
      /\ \A k : HeadAt(k)' => ListAt(k)'
      /\ (~InnerFirst)' => \A k : DirAt(k)' => OuterBefore(k)'
  BY <1>1, <1>2, <1>6 DEF Printed
<1>10. \A k : FileAt(k)' => Follow(k)'
  BY <1>2, <1>5
<1>11. \A j \in 1..next' - 1 : Shown(headers[j])'
  BY <1>7
<1>. QED BY <1>8, <1>9, <1>10, <1>11 DEF Printed

\* Before anything is printed there is nothing to be right.
LEMMA NothingShown ==
    ASSUME TypeInv, FrameInv, Printed, wpc = "add", UNCHANGED <<next, stream>>,
           wpc' \in {"add", "exit", "overrun"}
    PROVE  Printed'
<1>1. stream = <<>> /\ stream' = <<>>
  BY DEF FrameInv, Framed
<1>2. Len(stream') = 0
  BY <1>1
<1>3. \A k : ~HeadAt(k)' /\ ~FileAt(k)' /\ ~DirAt(k)'
  BY <1>2 DEF HeadAt, FileAt, DirAt
<1>4. next' = 1
  BY DEF Printed
<1>5. \A j \in 1..next' - 1 : Shown(headers[j])'
  BY <1>4
<1>. QED BY <1>3, <1>4, <1>5 DEF Printed

\* What is true of an old header in the stream stays true.
LEMMA OldHeads ==
    ASSUME TypeInv, FrameInv, Printed, UNCHANGED outer, UNCHANGED files, UNCHANGED headers,
           NEW more \in Seq(Token), stream' = stream \o more
    PROVE  /\ \A k : HeadAt(k) => ListAt(k)'
           /\ \A h : Shown(h) => Shown(h)'
           /\ ~InnerFirst' => \A k : DirAt(k) => OuterBefore(k)'
           /\ \A k : FileAt(k) => \/ Follow(k)'
                                  \/ /\ ~Whole
                                     /\ wpc = "data" => stream[k].val = headers[next]
                                     /\ k - 1 + stream[k].val.file_stats.nlink = Len(stream)
<1>1. InnerFirst' = InnerFirst /\ AskedDirs' = AskedDirs
  BY AskedStays
<1>2. ASSUME NEW k, HeadAt(k) PROVE ListAt(k)'
  <2>1. stream'[k] = stream[k]
    BY <1>2, HeadsStay
  <2>. QED BY <1>2, <2>1 DEF Printed, ListAt
<1>3. ASSUME NEW h, Shown(h) PROVE Shown(h)'
  <2>1. PICK k : HeadAt(k) /\ stream[k].val = h
    BY <1>3 DEF Shown
  <2>2. HeadAt(k)' /\ stream'[k] = stream[k]
    BY <2>1, HeadsStay
  <2>. QED BY <2>1, <2>2 DEF Shown
<1>4. ASSUME ~InnerFirst, NEW k, DirAt(k) PROVE OuterBefore(k)'
  <2>1. OuterBefore(k) /\ stream'[k] = stream[k]
    BY <1>4, HeadsStay DEF Printed, DirAt
  <2>2. ASSUME NEW d \in AskedDirs, IsStrictPrefix(d, stream[k].val.tar_name)
        PROVE  \E j \in 1..k - 1 : DirAt(j)' /\ stream'[j].val.tar_name = d
    <3>1. PICK j \in 1..k - 1 : DirAt(j) /\ stream[j].val.tar_name = d
      BY <2>1, <2>2 DEF OuterBefore
    <3>2. DirAt(j)' /\ stream'[j] = stream[j]
      BY <3>1, HeadsStay DEF DirAt
    <3>. QED BY <3>1, <3>2
  <2>. QED BY <1>1, <2>1, <2>2 DEF OuterBefore
<1>5. ASSUME NEW k, FileAt(k)
      PROVE  \/ Follow(k)'
             \/ /\ ~Whole
                /\ wpc = "data" => stream[k].val = headers[next]
                /\ k - 1 + stream[k].val.file_stats.nlink = Len(stream)
  <2>1. PICK n \in Nat \ {0}, m \in Nat : /\ n = stream[k].val.file_stats.nlink
                                          /\ m = stream[k].val.file_stats.size
    BY <1>5, FileNumbers
  <2>2. \/ k - 1 + (n + m) <= Len(stream)
        \/ ~Whole /\ k - 1 + n = Len(stream) /\ (wpc = "data" => stream[k].val = headers[next])
    BY <1>5, <2>1, Complete
  <2>3. Follow(k)
    BY <1>5 DEF Printed
  <2>4. k - 1 + (n + m) <= Len(stream) => Follow(k)'
    BY <1>5, <2>1, <2>3, FollowStays
  <2>. QED BY <2>1, <2>2, <2>4
<1>. QED BY <1>1, <1>2, <1>3, <1>4, <1>5

LEMMA PrintHeaderPrinted ==
    ASSUME TypeInv, FrameInv, Gathered, Printed, PrintHeader
    PROVE  Printed'
<1>1. /\ UNCHANGED outer /\ UNCHANGED files /\ UNCHANGED headers
      /\ wpc = "header" /\ next <= Len(headers) /\ Whole
      /\ \/ headers[next].ftype = "file" /\ wpc' = "data" /\ next' = next
         \/ headers[next].ftype # "file" /\ wpc' = "header" /\ next' = next + 1
  BY DEF PrintHeader, Whole
<1>2. PICK h \in Header : h = headers[next]
  BY PrintHeaderTyped
<1>3. PICK more \in Seq(Token) :
        /\ stream' = stream \o more /\ more[1] = [kind |-> "head", val |-> h]
        /\ h.ftype # "file" => Len(more) = 1
        /\ h.ftype = "file" => Len(more) = h.file_stats.nlink
        /\ \A j \in 2..Len(more) : more[j].kind = "link"
        /\ h.ftype = "file" => \A j \in 1..h.file_stats.nlink - 1 :
                                  more[j + 1].val = LinkNames(h)[j]
  <2>1. stream' = stream \o Opening(h)
    BY <1>2, PrintHeaderTyped
  <2>. QED BY <2>1, OpeningOf
<1>4. PICK N \in Nat, M \in Nat \ {0} : N = Len(stream) /\ M = Len(more)
  <2>1. Len(more) \in Nat \ {0}
    BY <1>3, HeaderFields
  <2>. QED BY <1>3, <2>1, StreamGrows
<1>5. /\ Len(stream') = N + M
      /\ \A k \in 1..N : stream'[k] = stream[k]
      /\ \A k \in 1..M : stream'[N + k] = more[k]
  BY <1>3, <1>4, StreamGrows
<1>6. PICK s \in Nat : s = N + 1 /\ s \in 1..N + M
  BY <1>4
<1>7. HeadAt(s)' /\ stream'[s].val = h
  <2>1. 1 \in 1..M
    BY <1>4
  <2>2. stream'[s] = more[1]
    BY <1>5, <1>6, <2>1
  <2>. QED BY <1>3, <1>5, <1>6, <2>2 DEF HeadAt
<1>8. ASSUME NEW k, HeadAt(k)', k # s PROVE HeadAt(k) /\ stream'[k] = stream[k]
  <2>1. k \in 1..N + M /\ stream'[k].kind = "head"
    BY <1>5, <1>8 DEF HeadAt
  <2>2. CASE k \in 1..N
    BY <1>3, <1>4, <1>8, <2>2, HeadsStay
  <2>3. CASE k \notin 1..N
    <3>1. PICK j : j = k - N
      OBVIOUS
    <3>2. j \in 2..M /\ N + j = k /\ j \in 1..M
      BY <1>6, <1>8, <2>1, <2>3, <3>1
    <3>3. stream'[k].kind = "link"
      BY <1>3, <1>4, <1>5, <3>2
    <3>. QED BY <2>1, <3>3
  <2>. QED BY <2>2, <2>3
<1>9. /\ \A k : HeadAt(k) => ListAt(k)'
      /\ \A g : Shown(g) => Shown(g)'
      /\ ~InnerFirst' => \A k : DirAt(k) => OuterBefore(k)'
      /\ \A k : FileAt(k) => Follow(k)'
  BY <1>1, <1>3, OldHeads
<1>10. next \in 1..Len(headers) /\ DOMAIN headers = 1..Len(headers) /\ headers' = headers
  BY <1>1 DEF TypeInv, WriterTyped
<1>11. ASSUME NEW k, HeadAt(k)' PROVE ListAt(k)'
  BY <1>2, <1>7, <1>8, <1>9, <1>10, <1>11 DEF ListAt
<1>12. Shown(h)'
  BY <1>7 DEF Shown
<1>13. ASSUME NEW j \in 1..next' - 1 PROVE Shown(headers[j])'
  <2>1. PICK g : g = headers[j] /\ g = headers'[j]
    BY <1>10
  <2>2. j \in 1..next - 1 \/ j = next
    BY <1>1, <1>10
  <2>3. Shown(g) \/ g = h
    BY <1>2, <2>1, <2>2 DEF Printed
  <2>4. Shown(g)'
    BY <1>9, <1>12, <2>3
  <2>. QED BY <2>1, <2>4 DEF Shown
<1>14. wpc' = "data" => Shown(headers[next])'
  BY <1>1, <1>2, <1>10, <1>12 DEF Shown
<1>15. ASSUME ~InnerFirst', NEW k, DirAt(k)' PROVE OuterBefore(k)'
  <2>1. CASE k # s
    <3>1. DirAt(k)
      BY <1>8, <1>15, <2>1 DEF DirAt
    <3>. QED BY <1>9, <1>15, <3>1
  <2>2. CASE k = s
    <3>1. h.ftype = "dir" /\ InnerFirst' = InnerFirst /\ AskedDirs' = AskedDirs
      BY <1>1, <1>7, <1>15, <2>2, AskedStays DEF DirAt
    <3>2. ASSUME NEW d \in AskedDirs, IsStrictPrefix(d, h.tar_name)
          PROVE  \E j \in 1..s - 1 : DirAt(j)' /\ stream'[j].val.tar_name = d
      <4>1. PICK j \in 1..next - 1 : headers[j].ftype = "dir" /\ headers[j].tar_name = d
        BY <1>2, <1>10, <1>15, <3>1, <3>2 DEF Gathered, InOrder, Earlier
      <4>2. PICK i : HeadAt(i) /\ stream[i].val = headers[j]
        BY DEF Printed, Shown
      <4>3. DirAt(i) /\ i \in 1..N
        BY <1>4, <4>1, <4>2 DEF DirAt, HeadAt
      <4>4. DirAt(i)' /\ stream'[i] = stream[i]
        BY <1>3, <4>2, <4>3, HeadsStay
      <4>5. i \in 1..s - 1
        BY <1>6, <4>3
      <4>. QED BY <4>1, <4>2, <4>4, <4>5
    <3>. QED BY <1>7, <2>2, <3>1, <3>2 DEF OuterBefore
  <2>. QED BY <2>1, <2>2
<1>16. ASSUME NEW k, FileAt(k)' PROVE Follow(k)'
  <2>1. CASE k # s
    <3>1. FileAt(k)
      BY <1>8, <1>16, <2>1 DEF FileAt
    <3>. QED BY <1>9, <3>1
  <2>2. CASE k = s
    <3>1. h.ftype = "file" /\ M = h.file_stats.nlink
      BY <1>3, <1>4, <1>7, <1>16, <2>2 DEF FileAt
    <3>2. ASSUME NEW j \in 1..M - 1 PROVE stream'[s + j].val = LinkNames(h)[j]
      <4>1. j + 1 \in 1..M /\ N + (j + 1) = s + j
        BY <1>4, <1>6
      <4>2. stream'[N + (j + 1)] = more[j + 1]
        BY <1>5, <4>1
      <4>. QED BY <1>3, <3>1, <4>1, <4>2
    <3>3. NamesFollow(s, h)'
      BY <3>1, <3>2 DEF NamesFollow, LinkNames
    <3>4. \A j \in 1..h.file_stats.size : ~(s + h.file_stats.nlink - 1 + j <= Len(stream'))
      <4>1. PICK m \in Nat : m = h.file_stats.size
        BY HeaderFields
      <4>2. \A j \in 1..m : ~(s + M - 1 + j <= N + M)
        BY <1>4, <1>6
      <4>. QED BY <1>5, <3>1, <4>1, <4>2
    <3>5. BytesFollow(s, h)'
      BY <3>4 DEF BytesFollow
    <3>. QED BY <1>7, <2>2, <3>3, <3>5 DEF Follow
  <2>. QED BY <2>1, <2>2
<1>17. wpc' # "add" /\ wpc' # "done"
  BY <1>1
<1>. QED BY <1>11, <1>13, <1>14, <1>15, <1>16, <1>17 DEF Printed

\* While nobody has touched the file, its contents are what lstat counted.
LEMMA ContentsNow ==
    ASSUME TypeInv, Gathered, NEW h \in Header, OfFile(h),
           NEW i \in DOMAIN source.inode, i = Ino(h), ~Touched(i)
    PROVE  /\ version[i] = 0 /\ size[i] = source.inode[i].size
           /\ h.file_stats.size = source.inode[i].size
           /\ h.file_stats.mode = source.inode[i].mode
           /\ h.file_stats.nlink = Cardinality(NamesOf(i)) + source.inode[i].outside
<1>1. version[i] = 0
  <2>1. version[i] \in {0, 1} /\ ~(version[i] > 0)
    BY DEF Touched, TypeInv, FilesTyped
  <2>. QED BY <2>1
<1>2. size[i] = source.inode[i].size
  BY <1>1 DEF Gathered
<1>3. h.file_stats = Stat(h.tar_name) /\ h.tar_name \in NamesOf(i)
  BY DEF OfFile, Names
<1>4. TypeOf(h.tar_name) = "file" /\ InoOf(h.tar_name) = i
  BY <1>3 DEF NamesOf
<1>5. /\ Stat(h.tar_name).size = size[i] /\ Stat(h.tar_name).mode = source.inode[i].mode
      /\ Stat(h.tar_name).nlink = Nlink(i)
  BY <1>4 DEF Stat
<1>6. NamesOf(i) \ gone = NamesOf(i)
  BY DEF Touched
<1>. QED BY <1>1, <1>2, <1>3, <1>5, <1>6 DEF Nlink

LEMMA PrintDataPrinted ==
    ASSUME TypeInv, FrameInv, Gathered, Printed, PrintData
    PROVE  Printed'
<1>1. /\ UNCHANGED outer /\ UNCHANGED files /\ UNCHANGED headers /\ wpc = "data"
  BY DEF PrintData
<1>2. PICK h \in Header : h = headers[next] /\ h.ftype = "file"
  BY PrintDataTyped
<1>3. CASE wpc' = "exit" /\ stream' = stream /\ next' = next
  BY <1>1, <1>3, PrintedStays
<1>4. CASE wpc' = "header" /\ next' = next + 1
  <2>1. PICK n \in Nat \ {0}, m \in Nat, i \in DOMAIN source.inode :
           /\ n = h.file_stats.nlink /\ m = h.file_stats.size /\ i = Ino(h)
    <3>1. h.file_stats \in FileStat
      BY <1>2, HeaderFields
    <3>. QED BY <3>1 DEF FileStat, Ino
  <2>2. PICK more \in Seq(Token) :
           /\ stream' = stream \o more /\ Len(more) = m
           /\ \A k \in 1..m : more[k].kind = "byte" /\ more[k].val = Data(i, m)[k]
    <3>1. h.tar_name \in Paths
      BY <1>2, <1>4 DEF PrintData
    <3>2. stream' = stream \o Tokens("byte", Data(i, m))
      BY <1>2, <2>1, <3>1 DEF PrintData, Ino
    <3>. QED BY <3>2, DataOf
  <2>3. PICK N \in Nat : N = Len(stream)
    BY <2>2, StreamGrows
  <2>4. /\ Len(stream') = N + m
        /\ \A k \in 1..N : stream'[k] = stream[k]
        /\ \A k \in 1..m : stream'[N + k] = more[k]
    BY <2>2, <2>3, StreamGrows
  <2>5. ASSUME NEW k, HeadAt(k)' PROVE HeadAt(k) /\ stream'[k] = stream[k] /\ k \in 1..N
    <3>1. k \in 1..N + m /\ stream'[k].kind = "head"
      BY <2>4, <2>5 DEF HeadAt
    <3>2. CASE k \in 1..N
      BY <2>2, <2>3, <2>5, <3>2, HeadsStay
    <3>3. CASE k \notin 1..N
      <4>1. PICK j : j = k - N
        OBVIOUS
      <4>2. j \in 1..m /\ N + j = k
        BY <3>1, <3>3, <4>1
      <4>3. stream'[k].kind = "byte"
        BY <2>2, <2>4, <4>2
      <4>. QED BY <3>1, <4>3
    <3>. QED BY <3>2, <3>3
  <2>6. /\ \A k : HeadAt(k) => ListAt(k)'
        /\ \A g : Shown(g) => Shown(g)'
        /\ ~InnerFirst' => \A k : DirAt(k) => OuterBefore(k)'
        /\ \A k : FileAt(k) => \/ Follow(k)'
                               \/ /\ stream[k].val = headers[next]
                                  /\ k - 1 + stream[k].val.file_stats.nlink = Len(stream)
    BY <1>1, <2>2, OldHeads
  <2>7. \A k : HeadAt(k)' => ListAt(k)'
    BY <2>5, <2>6
  <2>8. \A k : DirAt(k)' => DirAt(k)
    BY <2>5 DEF DirAt
  <2>9. next \in DOMAIN headers /\ DOMAIN headers = 1..Len(headers) /\ headers' = headers
    BY <1>1, PrintDataTyped DEF TypeInv, WriterTyped
  <2>10. ASSUME NEW j \in 1..next' - 1 PROVE Shown(headers[j])'
    <3>1. PICK g : g = headers[j] /\ g = headers'[j]
      BY <2>9
    <3>2. j \in 1..next - 1 \/ j = next
      BY <1>4, <2>9
    <3>3. Shown(g)
      BY <1>1, <3>1, <3>2 DEF Printed
    <3>4. Shown(g)'
      BY <2>6, <3>3
    <3>. QED BY <3>1, <3>4 DEF Shown
  <2>11. ASSUME NEW k, FileAt(k)' PROVE Follow(k)'
    <3>1. FileAt(k) /\ stream'[k] = stream[k] /\ k \in 1..N
      BY <2>5, <2>11 DEF FileAt
    <3>2. CASE stream[k].val = h /\ k - 1 + n = N
      <4>1. stream'[k].val = h /\ NamesFollow(k, h)
        BY <3>1, <3>2 DEF Printed, Follow
      <4>2. ASSUME NEW j \in 1..n - 1 PROVE stream'[k + j].val = LinkNames(h)[j]
        <5>1. k + j \in 1..N
          BY <2>3, <3>1, <3>2
        <5>. QED BY <2>1, <2>4, <4>1, <5>1 DEF NamesFollow
      <4>3. NamesFollow(k, h)'
        BY <2>1, <4>2 DEF NamesFollow, LinkNames
      <4>4. ASSUME NEW j \in 1..m
            PROVE  /\ stream'[k + n - 1 + j].kind = "byte"
                   /\ ~Touched(i)' => stream'[k + n - 1 + j].val = <<i, 0>>
        <5>1. k + n - 1 + j = N + j
          <6>1. k \in Nat /\ j \in Nat
            BY <3>1
          <6>2. \A x, y, z, l \in Nat : x - 1 + y = l => x + y - 1 + z = l + z
            OBVIOUS
          <6>. QED BY <3>2, <6>1, <6>2
        <5>2. stream'[N + j] = more[j]
          BY <2>4
        <5>3. ASSUME ~Touched(i)' PROVE more[j].val = <<i, 0>>
          <6>1. ~Touched(i)
            BY <1>1, <5>3, StatStays
          <6>2. OfFile(h)
            BY <1>2, <2>9 DEF Gathered, AllTrue, OfDir
          <6>3. version[i] = 0 /\ size[i] = m
            BY <2>1, <6>1, <6>2, ContentsNow
          <6>4. Data(i, m)[j] = <<i, 0>>
            BY <6>3 DEF Data
          <6>. QED BY <2>2, <6>4
        <5>. QED BY <2>2, <5>1, <5>2, <5>3
      <4>5. BytesFollow(k, h)'
        <5>1. i = Ino(h)'
          BY <2>1 DEF Ino
        <5>. QED BY <2>1, <4>4, <5>1 DEF BytesFollow
      <4>. QED BY <4>1, <4>3, <4>5 DEF Follow
    <3>. QED BY <1>2, <2>1, <2>3, <2>6, <3>1, <3>2
  <2>12. wpc' # "add" /\ wpc' # "done" /\ wpc' # "data"
    BY <1>4
  <2>. QED BY <2>6, <2>7, <2>8, <2>10, <2>11, <2>12 DEF Printed
<1>. QED BY <1>3, <1>4, PrintDataTyped

LEMMA StepPrinted ==
    ASSUME TypeInv, FrameInv, Gathered, Printed, [Next]_vars
    PROVE  Printed'
<1>1. CASE Add \/ AddFile \/ AddDir \/ VisitEntry
  <2>1. wpc = "add" /\ UNCHANGED <<next, stream>> /\ wpc' \in {"add", "exit", "overrun"}
    <3>1. \A p, rest : AddHeader(p, rest) => wpc' \in {"add", "overrun"}
      BY DEF AddHeader
    <3>2. CASE Add
      BY <3>2 DEF Add
    <3>3. CASE AddFile
      BY <3>1, <3>3, Zenon DEF AddFile
    <3>4. CASE AddDir
      BY <3>4 DEF AddDir
    <3>5. CASE VisitEntry
      <4>1. PICK p : p = Head(work).at
        OBVIOUS
      <4>2. wpc = "add" /\ UNCHANGED <<next, stream>>
        BY <3>5 DEF VisitEntry
      <4>3. CASE p \notin Paths
        BY <3>5, <4>1, <4>2, <4>3 DEF VisitEntry
      <4>4. CASE p \in Paths /\ TypeOf(p) = "symlink"
        BY <3>5, <4>1, <4>2, <4>4 DEF VisitEntry
      <4>5. CASE p \in Paths /\ TypeOf(p) = "file"
        <5>1. AddHeader(p, Tail(work))
          BY <3>5, <4>1, <4>5 DEF VisitEntry
        <5>. QED BY <3>1, <4>2, <5>1
      <4>6. CASE p \in Paths /\ TypeOf(p) = "dir"
        <5>1. AddHeader(p, <<[op |-> "list", at |-> p]>> \o Tail(work))
          BY <3>5, <4>1, <4>6 DEF VisitEntry
        <5>. QED BY <3>1, <4>2, <5>1
      <4>. QED BY <4>3, <4>4, <4>5, <4>6, TypesThere
    <3>. QED BY <1>1, <3>2, <3>3, <3>4, <3>5
  <2>. QED BY <2>1, NothingShown
<1>2. CASE StartPrinting \/ StopPrinting
  <2>1. /\ UNCHANGED <<outer, files, headers, next, stream>> /\ wpc' \in {"header", "done"}
        /\ wpc' = "done" => next > Len(headers)
    BY <1>2 DEF StartPrinting, StopPrinting
  <2>2. wpc' = "done" => next = Len(headers) + 1
    <3>1. PICK n \in Nat : n = Len(headers) /\ next \in 1..n + 1
      BY DEF TypeInv, WriterTyped
    <3>. QED BY <2>1, <3>1
  <2>3. (wpc' = "add" => wpc = "add") /\ (wpc' = "data" => wpc = "data")
    BY <2>1
  <2>. QED BY <2>1, <2>2, <2>3, PrintedStays
<1>3. CASE ReaderStep \/ ExtractAgain
  <2>1. UNCHANGED <<outer, files, writer>>
    BY <1>3 DEF ReaderStep, ReadRecord, RecreateLink, LastLink, EndOfArchive,
                RecreateDir, Finish, ExtractAgain
  <2>. QED BY <2>1, PrintedStays DEF writer, Printed
<1>4. CASE Editor
  <2>1. UNCHANGED <<outer, writer>>
    BY <1>4 DEF Editor, Rewrite, Unlink
  <2>. QED BY <1>4, <2>1, PrintedStays DEF writer, Printed
<1>5. CASE UNCHANGED vars
  BY <1>5, PrintedStays DEF vars, writer, Printed
<1>. QED BY <1>1, <1>2, <1>3, <1>4, <1>5, PrintHeaderPrinted, PrintDataPrinted
         DEF Next, WriterStep
------------------------------------------------------------------------------
(* What was packed comes back: it is extracted. *)

\* What is true of a header in the stream.
LEMMA HeadTrue ==
    ASSUME TypeInv, Gathered, Printed, NEW k, HeadAt(k), NEW h, h = stream[k].val
    PROVE  /\ h \in Header /\ k \in 1..Len(stream)
           /\ FileAt(k) => OfFile(h)
           /\ ~FileAt(k) => OfDir(h) /\ DirAt(k)
<1>1. k \in 1..Len(stream) /\ stream[k].kind = "head"
  BY DEF HeadAt
<1>2. stream[k] \in Token
  BY <1>1, ElementOfSeq DEF TypeInv, WriterTyped
<1>3. h \in Header
  BY <1>1, <1>2, TokenFields
<1>4. PICK j \in DOMAIN headers : h = headers[j]
  BY DEF Printed, ListAt
<1>5. OfFile(h) \/ OfDir(h)
  BY <1>4 DEF Gathered, AllTrue
<1>. QED BY <1>1, <1>3, <1>5 DEF FileAt, DirAt, OfFile, OfDir

\* A file in the target is one that was asked for.
LEMMA MadeAsked ==
    ASSUME TypeInv, Gathered, Printed, FilesMade, NEW p \in DOMAIN target.file
    PROVE  /\ p \in AskedFiles /\ TypeOf(p) = "file" /\ InoOf(p) \in DOMAIN source.inode
           /\ target.file[p] \in DOMAIN target.data
<1>1. PICK k : FileAt(k) /\ MadeOf(p, stream[k].val)
  BY DEF FilesMade
<1>2. PICK h : h = stream[k].val
  OBVIOUS
<1>3. OfFile(h) /\ p \in Names(h)
  BY <1>1, <1>2, HeadTrue DEF FileAt, MadeOf
<1>4. p \in AskedFiles
  BY <1>3 DEF OfFile
<1>5. p \in DOMAIN source.node /\ TypeOf(p) = "file"
  BY <1>4 DEF AskedFiles, Asked
<1>6. InoOf(p) \in DOMAIN source.inode
  BY <1>5 DEF TypeInv, SourceTyped, Source, TypeOf, InoOf
<1>. QED BY <1>4, <1>5, <1>6 DEF TypeInv, ReaderTyped

\* A name in the header of a file is a name of that file.
LEMMA SameIno ==
    ASSUME NEW h, OfFile(h), NEW p \in Names(h)
    PROVE  InoOf(p) = Ino(h) /\ TypeOf(p) = "file" /\ p \in AskedFiles
           /\ InoOf(h.tar_name) = Ino(h)
BY DEF OfFile, NamesOf, Names

\* Whatever `jtar c' and others do meanwhile, what has been extracted is right.
LEMMA FilesStay ==
    ASSUME TypeInv, Gathered, Printed, FilesMade,
           UNCHANGED outer, UNCHANGED files \/ Editor, UNCHANGED reader,
           NEW more \in Seq(Token), stream' = stream \o more
    PROVE  FilesMade'
<1>1. /\ target' = target /\ source' = source
      /\ \A p : InoOf(p)' = InoOf(p)
  BY AskedStays DEF reader, outer
<1>2. ASSUME NEW p \in DOMAIN target.file
      PROVE  \E k : FileAt(k)' /\ MadeOf(p, stream[k].val)'
  <2>1. PICK k : FileAt(k) /\ MadeOf(p, stream[k].val)
    BY DEF FilesMade
  <2>2. FileAt(k)' /\ stream'[k] = stream[k]
    BY <2>1, HeadsStay DEF FileAt
  <2>3. MadeOf(p, stream[k].val)'
    BY <1>1, <2>1, <2>2 DEF MadeOf, Names
  <2>. QED BY <2>2, <2>3
<1>3. ASSUME NEW p \in DOMAIN target.file, ~Touched(InoOf(p))'
      PROVE  target.data[target.file[p]] = Good(InoOf(p))
  <2>1. PICK i \in DOMAIN source.inode : i = InoOf(p)
    BY MadeAsked
  <2>2. InoOf(p)' = i
    BY <1>1, <2>1
  <2>3. ~Touched(i)'
    BY <1>3, <2>2 DEF Touched
  <2>4. ~Touched(i)
    BY <2>3, StatStays
  <2>. QED BY <2>1, <2>4 DEF FilesMade
<1>4. \A p : Good(InoOf(p))' = Good(InoOf(p))
  BY <1>1 DEF Good
<1>5. \A p, q \in DOMAIN target'.file :
         target'.file[p] = target'.file[q] => InoOf(p)' = InoOf(q)'
  BY <1>1 DEF FilesMade
<1>6. \E n \in Nat : DOMAIN target'.data = 1..n
  BY <1>1 DEF FilesMade
<1>7. \A p \in DOMAIN target'.file : \E k : FileAt(k)' /\ MadeOf(p, stream[k].val)'
  BY <1>1, <1>2
<1>8. \A p \in DOMAIN target'.file :
         ~Touched(InoOf(p))' => target'.data[target'.file[p]] = Good(InoOf(p))'
  BY <1>1, <1>3, <1>4
<1>. QED BY <1>5, <1>6, <1>7, <1>8 DEF FilesMade

LEMMA NamesStay ==
    ASSUME TypeInv, NamesMade, UNCHANGED reader,
           NEW more \in Seq(Token), stream' = stream \o more
    PROVE  NamesMade'
<1>1. rpc' = rpc /\ pos' = pos /\ links' = links /\ target' = target /\ Awaited' = Awaited
  BY DEF reader, Awaited
<1>2. ASSUME NEW k \in 1..pos
      PROVE  FileAt(k)' = FileAt(k) /\ stream'[k] = stream[k]
  <2>1. k \in 1..Len(stream)
    BY StreamGrows DEF TypeInv, ReaderTyped
  <2>. QED BY <2>1, HeadsStay
<1>3. ASSUME NEW k, FileAt(k), k \in 1..Len(stream)
      PROVE  /\ FileAt(k)' /\ (Taken(k) => Taken(k)') /\ (Linking(k) => Linking(k)')
  <2>1. FileAt(k)' /\ stream'[k] = stream[k]
    BY <1>3, HeadsStay
  <2>. QED BY <1>1, <1>3, <2>1 DEF Taken, Linking, Names
<1>4. \A k \in 1..pos : k \in 1..Len(stream)
  BY StreamGrows DEF TypeInv, ReaderTyped
<1>5. ASSUME rpc \in {"read", "link", "dirs", "done"}, NEW k \in 1..pos, FileAt(k)'
      PROVE  Taken(k)'
  BY <1>2, <1>3, <1>4, <1>5 DEF NamesMade
<1>6. ASSUME rpc = "link" PROVE \E k : Linking(k)'
  <2>1. PICK k : Linking(k)
    BY <1>6 DEF NamesMade
  <2>2. FileAt(k) /\ k \in 1..Len(stream)
    BY <2>1 DEF Linking, FileAt, HeadAt
  <2>. QED BY <1>3, <2>1, <2>2
<1>7. rpc \in {"read", "dirs", "done"} => links.names = <<>>
  BY DEF NamesMade
<1>. QED BY <1>1, <1>5, <1>6, <1>7 DEF NamesMade

LEMMA DirsStay ==
    ASSUME TypeInv, DirsMade, UNCHANGED reader, UNCHANGED outer,
           NEW more \in Seq(Token), stream' = stream \o more,
           rpc \in {"dirs", "done"} /\ wpc' = "done" => wpc = "done"
    PROVE  DirsMade'
<1>1. /\ rpc' = rpc /\ pos' = pos /\ target' = target /\ dirs' = dirs
      /\ InnerFirst' = InnerFirst /\ AskedDirs' = AskedDirs /\ source' = source
  BY AskedStays DEF reader
<1>2. ASSUME NEW k \in 1..pos
      PROVE  DirAt(k)' = DirAt(k) /\ stream'[k] = stream[k]
  <2>1. k \in 1..Len(stream)
    BY StreamGrows DEF TypeInv, ReaderTyped
  <2>. QED BY <2>1, HeadsStay
<1>3. \A d : Restored(d)' = Restored(d) /\ InDirs(d)' = InDirs(d)
  BY <1>1 DEF Restored, InDirs
<1>4. ASSUME NEW j \in DOMAIN dirs PROVE \E k : DirAt(k)' /\ dirs[j] = stream'[k].val
  <2>1. PICK k : DirAt(k) /\ dirs[j] = stream[k].val
    BY DEF DirsMade
  <2>2. DirAt(k)' /\ stream'[k] = stream[k]
    BY <2>1, HeadsStay DEF DirAt
  <2>. QED BY <2>1, <2>2
<1>5. InOrder(dirs)' = InOrder(dirs)
  BY <1>1 DEF InOrder, Earlier
<1>7. ASSUME rpc \in {"read", "link"}, NEW k \in 1..pos, DirAt(k)'
      PROVE  InDirs(stream[k].val.tar_name)'
  <2>1. PICK d : d = stream[k].val.tar_name /\ d = stream'[k].val.tar_name
    BY <1>2
  <2>2. InDirs(d)
    BY <1>2, <1>7, <2>1 DEF DirsMade
  <2>3. InDirs(d)'
    BY <1>3, <2>2
  <2>. QED BY <2>1, <2>3 DEF InDirs
<1>8. rpc \in {"dirs", "done"} /\ wpc' = "done" =>
         \A d \in AskedDirs : InDirs(d)' \/ Restored(d)'
  BY <1>3 DEF DirsMade
<1>9. (~InnerFirst => InOrder(dirs)) /\ (rpc = "done" => dirs = <<>>)
  BY DEF DirsMade
<1>. QED BY <1>1, <1>4, <1>5, <1>7, <1>8, <1>9 DEF DirsMade

\* A place behind a header is that of a name or that of a byte.
NameOrByte(k, n, m, N, i) == \/ \E j \in 1..n - 1 : k + j = i
                             \/ \E j \in 1..m : k + n - 1 + j = i /\ i <= N

LEMMA InRecord ==
    ASSUME NEW k \in Nat \ {0}, NEW n \in Nat \ {0}, NEW m \in Nat, NEW N \in Nat,
           NEW i \in Nat, k < i, i <= k - 1 + (n + m), k - 1 + (n + m) <= N
    PROVE  NameOrByte(k, n, m, N, i)
<1>1. CASE i <= k + n - 1
  <2>1. i - k \in 1..n - 1 /\ k + (i - k) = i
    BY <1>1
  <2>. QED BY <2>1 DEF NameOrByte
<1>2. CASE i > k + n - 1
  <2>1. i - (k + n - 1) \in 1..m /\ k + n - 1 + (i - (k + n - 1)) = i /\ i <= N
    BY <1>2
  <2>. QED BY <2>1 DEF NameOrByte
<1>. QED BY <1>1, <1>2

\* Between the header of a file that is all there and the next one there is none.
LEMMA NoHeadInside ==
    ASSUME TypeInv, FrameInv, Printed, NEW k \in Nat \ {0}, FileAt(k),
           NEW n \in Nat \ {0}, n = stream[k].val.file_stats.nlink,
           NEW m \in Nat, m = stream[k].val.file_stats.size,
           k - 1 + (n + m) <= Len(stream),
           NEW i \in Nat, k < i, i <= k - 1 + (n + m)
    PROVE  ~HeadAt(i)
<1>1. k \in 1..Len(stream) /\ stream[k].kind = "head" /\ stream[k].val.ftype = "file"
  BY DEF FileAt, HeadAt
<1>2. PICK N \in Nat : N = Len(stream)
  BY DEF TypeInv, WriterTyped
<1>3. k - 1 + (n + m) <= N
  BY <1>2
<1>4. CASE \E j \in 1..n - 1 : k + j = i
  <2>1. PICK j \in 1..n - 1 : k + j = i
    BY <1>4
  <2>2. stream[i].kind = "link"
    BY <1>1, <2>1 DEF FrameInv, Framed
  <2>. QED BY <2>2 DEF HeadAt
<1>5. CASE \E j \in 1..m : k + n - 1 + j = i /\ i <= N
  <2>1. PICK j \in 1..m : k + n - 1 + j = i /\ i <= N
    BY <1>5
  <2>2. BytesFollow(k, stream[k].val)
    BY SMTT(60) DEF Printed, Follow
  <2>3. stream[i].kind = "byte"
    BY <1>2, <2>1, <2>2 DEF BytesFollow
  <2>. QED BY <2>3 DEF HeadAt
<1>6. NameOrByte(k, n, m, N, i)
  BY <1>3, InRecord
<1>. QED BY <1>4, <1>5, <1>6 DEF NameOrByte

\* The names after a header: those it holds, and empty ones.
LEMMA LinksAre ==
    ASSUME NEW h \in Header, OfFile(h), NEW n \in Nat \ {0}, n = h.file_stats.nlink,
           NEW S, S = {LinkNames(h)[j] : j \in 1..n - 1}
    PROVE  Names(h) \subseteq S \cup {h.tar_name} /\ S \subseteq Names(h) \cup {<<>>}
<1>1. PICK l \in Nat : l = Len(h.hard_links) /\ DOMAIN h.hard_links = 1..l /\ l <= n - 1
  BY HeaderFields DEF OfFile
<1>2. \A j \in 1..n - 1 : LinkNames(h)[j] = IF j \in 1..l THEN h.hard_links[j] ELSE <<>>
  BY <1>1 DEF LinkNames
<1>3. \A j \in 1..l : j \in 1..n - 1
  BY <1>1, SMTT(60)
<1>. QED BY <1>1, <1>2, <1>3 DEF Names

\* What recreate_file has done before its links.
Opened(k, h, id, new) ==
    /\ FileAt(k) /\ k = pos + 1 /\ h = stream[k].val /\ OfFile(h)
    /\ target'.file = SetAt(target.file, h.tar_name, id)
    /\ target'.data = SetAt(target.data, id, new)
    /\ \/ h.tar_name \in DOMAIN target.file /\ id = target.file[h.tar_name]
       \/ h.tar_name \notin DOMAIN target.file /\ id = Cardinality(DOMAIN target.data) + 1
    /\ ~Touched(Ino(h)) => new = Good(Ino(h))
    /\ links'.of = id
    /\ Names(h) \subseteq Awaited' \cup {h.tar_name} /\ Awaited' \subseteq Names(h) \cup {<<>>}
    /\ pos' = pos + RecordLen(h) /\ pos' <= Len(stream)
    /\ rpc' = "link" /\ dirs' = dirs

LEMMA FileOpened ==
    ASSUME TypeInv, FrameInv, Gathered, Printed, rpc = "read", Left > 0,
           Record.val.ftype = "file", RecreateFile(Record.val)
    PROVE  \/ rpc' = "exit" /\ UNCHANGED <<pos, links, dirs, target>>
           \/ \E k, h, id, new : Opened(k, h, id, new)
<1>0. PICK N \in Nat, P \in Nat : N = Len(stream) /\ P = pos
  <2>1. Len(stream) \in Nat /\ pos \in 0..Len(stream)
    BY DEF TypeInv, WriterTyped, ReaderTyped
  <2>. QED BY <2>1
<1>1. PICK k \in Nat \ {0} : k = pos + 1 /\ k = P + 1 /\ k \in 1..Len(stream)
  BY <1>0, RecordThere
<1>2. PICK h \in Header : h = Record.val /\ h = stream[k].val /\ stream[k].kind = "head"
  BY <1>1, RecordThere DEF Record
<1>3. FileAt(k)
  BY <1>1, <1>2 DEF FileAt, HeadAt
<1>4. OfFile(h)
  BY <1>2, <1>3, HeadTrue DEF FileAt
<1>5. PICK n \in Nat \ {0}, m \in Nat : n = h.file_stats.nlink /\ m = h.file_stats.size
  BY HeaderFields
<1>6. PICK i \in DOMAIN source.inode : i = Ino(h)
  BY <1>2, <1>3, FileNumbers
<1>. DEFINE old == h.tar_name \in DOMAIN target.file
            id == IF old THEN target.file[h.tar_name]
                  ELSE Cardinality(DOMAIN target.data) + 1
            bytes == [j \in DOMAIN Bytes(h) |-> Bytes(h)[j].val]
            new == [bytes |-> bytes, mode |-> h.file_stats.mode]
            names == [j \in DOMAIN Links(h) |-> Links(h)[j].val]
<1>8. CASE /\ CanRead(h)
           /\ target' = [dir |-> IF old THEN target.dir ELSE Grown(target, h.tar_name),
                         file |-> SetAt(target.file, h.tar_name, id),
                         data |-> SetAt(target.data, id, new)]
           /\ links' = [of |-> id, names |-> names]
           /\ pos' = pos + RecordLen(h)
           /\ rpc' = "link" /\ UNCHANGED dirs
  <2>1. P + (n + m) <= N /\ pos' = P + (n + m) /\ RecordLen(h) = n + m
    <3>1. RecordLen(h) = n + m
      BY <1>5 DEF RecordLen
    <3>2. N - P >= n + m
      BY <1>0, <1>8, <3>1 DEF CanRead, Left
    <3>. QED BY <1>0, <1>8, <3>1, <3>2
  <2>2. Follow(k) /\ stream \in Seq(Token)
    BY <1>3 DEF Printed, TypeInv, WriterTyped
  <2>3. \A j \in 1..m : stream[(P + n) + j].val = <<i, 0>> \/ Touched(i)
    <3>1. ASSUME NEW j \in 1..m, ~Touched(i) PROVE stream[(P + n) + j].val = <<i, 0>>
      <4>1. k + n - 1 + j = (P + n) + j /\ k + n - 1 + j <= N
        BY <1>1, <1>0, <2>1, SMTT(30)
      <4>2. BytesFollow(k, h)
        BY <1>2, <2>2 DEF Follow
      <4>. QED BY <1>5, <1>6, <1>0, <3>1, <4>1, <4>2 DEF BytesFollow
    <3>. QED BY <3>1
  <2>4. DOMAIN Bytes(h) = 1..m /\ \A j \in 1..m : Bytes(h)[j] = stream[(P + n) + j]
    <3>1. Bytes(h) = SubSeq(stream, P + n + 1, P + n + m)
      BY <1>5, <1>0 DEF Bytes
    <3>2. SubSeq(stream, P + n + 1, P + n + m) =
             [j \in 1..(P + n + m) - (P + n + 1) + 1 |-> stream[j + (P + n + 1) - 1]]
      OBVIOUS
    <3>3. (P + n + m) - (P + n + 1) + 1 = m
          /\ \A j \in 1..m : j + (P + n + 1) - 1 = (P + n) + j
      OBVIOUS
    <3>. QED BY <3>1, <3>2, <3>3
  <2>5. DOMAIN Links(h) = 1..n - 1 /\ \A j \in 1..n - 1 : Links(h)[j] = stream[k + j]
    <3>1. Links(h) = SubSeq(stream, P + 2, P + n)
      BY <1>5, <1>0 DEF Links
    <3>2. SubSeq(stream, P + 2, P + n) =
             [j \in 1..(P + n) - (P + 2) + 1 |-> stream[j + (P + 2) - 1]]
      OBVIOUS
    <3>3. (P + n) - (P + 2) + 1 = n - 1 /\ \A j \in 1..n - 1 : j + (P + 2) - 1 = k + j
      BY <1>1, <1>0
    <3>. QED BY <3>1, <3>2, <3>3
  <2>6. \A j \in 1..n - 1 : stream[k + j].val = LinkNames(h)[j]
    BY <1>2, <1>5, <2>2 DEF Follow, NamesFollow
  <2>7. ASSUME ~Touched(i) PROVE new = Good(i)
    <3>1. m = source.inode[i].size /\ h.file_stats.mode = source.inode[i].mode
      BY <1>4, <1>5, <1>6, <2>7, ContentsNow
    <3>2. bytes = [j \in 1..m |-> <<i, 0>>]
      BY <2>3, <2>4, <2>7
    <3>. HIDE DEF bytes
    <3>. QED BY <3>1, <3>2 DEF Good
  <2>8. Awaited' = {LinkNames(h)[j] : j \in 1..n - 1}
    <3>1. DOMAIN names = 1..n - 1 /\ \A j \in 1..n - 1 : names[j] = LinkNames(h)[j]
      BY <2>5, <2>6
    <3>2. links'.names = names
      BY <1>8
    <3>. HIDE DEF names
    <3>. QED BY <3>1, <3>2 DEF Awaited
  <2>9. /\ Names(h) \subseteq Awaited' \cup {h.tar_name}
        /\ Awaited' \subseteq Names(h) \cup {<<>>}
    BY <1>4, <1>5, <2>8, LinksAre
  <2>10. PICK x, y, z : x = id /\ y = new /\ z = names
    OBVIOUS
  <2>11. /\ target'.file = SetAt(target.file, h.tar_name, x)
         /\ target'.data = SetAt(target.data, x, y) /\ links'.of = x
    <3>. HIDE DEF id, new, names, old
    <3>. QED BY <1>8, <2>10
  <2>12. \/ h.tar_name \in DOMAIN target.file /\ x = target.file[h.tar_name]
         \/ h.tar_name \notin DOMAIN target.file /\ x = Cardinality(DOMAIN target.data) + 1
    BY <2>10
  <2>. HIDE DEF new
  <2>13. pos' <= Len(stream) /\ (~Touched(Ino(h)) => y = Good(Ino(h)))
    BY <1>6, <1>0, <2>1, <2>7, <2>10, SMTT(60)
  <2>14. Opened(k, h, x, y)
    BY <1>1, <1>2, <1>3, <1>4, <1>8, <2>9, <2>11, <2>12, <2>13 DEF Opened
  <2>. QED BY <2>14
<1>. QED BY <1>2, <1>8 DEF RecreateFile

\* The file that has been opened has the contents it should have; another name
\* of it, which has them too, is one of the same file.
LEMMA OpenedFiles ==
    ASSUME TypeInv, Gathered, Printed, FilesMade,
           UNCHANGED outer, UNCHANGED files, UNCHANGED writer,
           NEW k, NEW h, NEW id, NEW new, Opened(k, h, id, new)
    PROVE  FilesMade'
<1>1. /\ source' = source /\ stream' = stream
      /\ \A p : InoOf(p)' = InoOf(p)
      /\ \A i : NamesOf(i)' = NamesOf(i)
  BY AskedStays DEF writer
<1>2. \A i : Touched(i)' = Touched(i) /\ Good(i)' = Good(i)
  BY <1>1 DEF Touched, Good, files
<1>3. \A j : FileAt(j)' = FileAt(j)
  BY <1>1 DEF FileAt, HeadAt
<1>4. PICK p : p = h.tar_name
  OBVIOUS
<1>5. /\ FileAt(k) /\ h = stream[k].val /\ OfFile(h) /\ p \in Names(h)
      /\ InoOf(p) = Ino(h)
  BY <1>4, SameIno DEF Opened, Names
<1>6. PICK F, D : F = target'.file /\ D = target'.data
  OBVIOUS
<1>7. /\ DOMAIN F = DOMAIN target.file \cup {p} /\ F[p] = id
      /\ \A q \in DOMAIN target.file : q # p => F[q] = target.file[q]
      /\ DOMAIN D = DOMAIN target.data \cup {id} /\ D[id] = new
      /\ \A x \in DOMAIN target.data : x # id => D[x] = target.data[x]
  <2>1. F = SetAt(target.file, p, id) /\ D = SetAt(target.data, id, new)
    BY <1>4, <1>6 DEF Opened
  <2>. QED BY <2>1 DEF SetAt
<1>8. PICK n \in Nat : DOMAIN target.data = 1..n
  BY DEF FilesMade
<1>9. \/ p \in DOMAIN target.file /\ id = target.file[p] /\ id \in DOMAIN target.data
      \/ p \notin DOMAIN target.file /\ id = n + 1 /\ id \notin DOMAIN target.data
  <2>1. Cardinality(DOMAIN target.data) = n
    BY <1>8, FS_Interval
  <2>2. n + 1 \notin DOMAIN target.data
    BY <1>8
  <2>3. CASE p \in DOMAIN target.file /\ id = target.file[p]
    BY <2>3, MadeAsked
  <2>4. CASE p \notin DOMAIN target.file /\ id = Cardinality(DOMAIN target.data) + 1
    BY <2>1, <2>2, <2>4
  <2>5. \/ p \in DOMAIN target.file /\ id = target.file[p]
        \/ p \notin DOMAIN target.file /\ id = Cardinality(DOMAIN target.data) + 1
    BY <1>4 DEF Opened
  <2>. QED BY <2>3, <2>4, <2>5
<1>10. \A q \in DOMAIN target.file : F[q] = target.file[q]
  BY <1>7, <1>9
<1>11. \A q \in DOMAIN target.file : target.file[q] = id => InoOf(q) = InoOf(p)
  BY <1>9, MadeAsked DEF FilesMade
<1>12. ASSUME NEW q \in DOMAIN F PROVE \E j : FileAt(j)' /\ MadeOf(q, stream[j].val)'
  <2>1. CASE q = p
    <3>1. MadeOf(p, h)'
      BY <1>4, <1>5, <1>6, <1>7 DEF MadeOf, Names
    <3>2. MadeOf(q, stream[k].val)'
      BY <1>1, <1>5, <2>1, <3>1 DEF MadeOf, Names
    <3>. QED BY <1>3, <1>5, <3>2
  <2>2. CASE q \in DOMAIN target.file
    <3>1. PICK j : FileAt(j) /\ MadeOf(q, stream[j].val)
      BY <2>2 DEF FilesMade
    <3>2. PICK g : g = stream[j].val /\ g = stream'[j].val
      BY <1>1
    <3>3. q \in Names(g) /\ g.tar_name \in DOMAIN target.file
          /\ target.file[q] = target.file[g.tar_name]
      BY <3>1, <3>2 DEF MadeOf
    <3>4. g.tar_name \in DOMAIN F /\ F[q] = F[g.tar_name]
      BY <1>7, <1>10, <2>2, <3>3
    <3>5. MadeOf(q, stream[j].val)'
      BY <1>6, <3>2, <3>3, <3>4 DEF MadeOf, Names
    <3>. QED BY <1>3, <3>1, <3>5
  <2>. QED BY <1>7, <2>1, <2>2
<1>13. ASSUME NEW q \in DOMAIN F, NEW r \in DOMAIN F, F[q] = F[r]
       PROVE  InoOf(q) = InoOf(r)
  <2>1. CASE q \in DOMAIN target.file /\ r \in DOMAIN target.file
    BY <1>10, <1>13, <2>1 DEF FilesMade
  <2>2. CASE q = p /\ r \in DOMAIN target.file
    BY <1>7, <1>10, <1>11, <1>13, <2>2
  <2>3. CASE r = p /\ q \in DOMAIN target.file
    BY <1>7, <1>10, <1>11, <1>13, <2>3
  <2>4. CASE q = p /\ r = p
    BY <2>4
  <2>. QED BY <1>7, <2>1, <2>2, <2>3, <2>4
<1>14. \E x \in Nat : DOMAIN D = 1..x
  <2>1. CASE id \in DOMAIN target.data
    BY <1>7, <1>8, <2>1
  <2>2. CASE id = n + 1
    <3>1. (1..n) \cup {n + 1} = 1..n + 1
      OBVIOUS
    <3>. QED BY <1>7, <1>8, <2>2, <3>1
  <2>. QED BY <1>9, <2>1, <2>2
<1>15. ASSUME NEW q \in DOMAIN F, ~Touched(InoOf(q))
       PROVE  D[F[q]] = Good(InoOf(q))
  <2>1. CASE F[q] = id
    <3>1. InoOf(q) = InoOf(p)
      BY <1>7, <1>13, <2>1
    <3>2. new = Good(Ino(h))
      BY <1>5, <1>15, <3>1 DEF Opened
    <3>. QED BY <1>5, <1>7, <2>1, <3>1, <3>2
  <2>2. CASE F[q] # id
    <3>1. q \in DOMAIN target.file /\ F[q] = target.file[q]
      BY <1>7, <1>10, <2>2
    <3>2. target.file[q] \in DOMAIN target.data
      BY <3>1, MadeAsked
    <3>3. D[F[q]] = target.data[target.file[q]]
      BY <1>7, <2>2, <3>1, <3>2
    <3>. QED BY <1>15, <3>1, <3>3 DEF FilesMade
  <2>. QED BY <2>1, <2>2
<1>16. \A q \in DOMAIN target'.file : \E j : FileAt(j)' /\ MadeOf(q, stream[j].val)'
  BY <1>6, <1>12
<1>17. \A q, r \in DOMAIN target'.file :
          target'.file[q] = target'.file[r] => InoOf(q)' = InoOf(r)'
  BY <1>1, <1>6, <1>13
<1>18. \A q \in DOMAIN target'.file :
          ~Touched(InoOf(q))' => target'.data[target'.file[q]] = Good(InoOf(q))'
  <2>1. ASSUME NEW q \in DOMAIN F, ~Touched(InoOf(q))' PROVE D[F[q]] = Good(InoOf(q))'
    <3>1. PICK i : i = InoOf(q) /\ i = InoOf(q)'
      BY <1>1
    <3>2. ~Touched(i)' /\ Good(InoOf(q))' = Good(i)'
      BY <2>1, <3>1 DEF Touched, Good
    <3>. QED BY <1>2, <1>15, <3>1, <3>2
  <2>. QED BY <1>6, <2>1
<1>. QED BY <1>6, <1>14, <1>16, <1>17, <1>18 DEF FilesMade

LEMMA OpenedNames ==
    ASSUME TypeInv, FrameInv, Printed, NamesMade, rpc = "read", UNCHANGED writer,
           NEW k, NEW h, NEW id, NEW new, Opened(k, h, id, new)
    PROVE  NamesMade'
<1>1. stream' = stream /\ \A j : FileAt(j)' = FileAt(j)
  <2>1. stream' = stream
    BY DEF writer
  <2>. QED BY <2>1 DEF FileAt, HeadAt
<1>2. PICK F, A, p : F = target'.file /\ A = Awaited' /\ p = h.tar_name
  OBVIOUS
<1>3. /\ DOMAIN F = DOMAIN target.file \cup {p} /\ F[p] = id
      /\ Names(h) \subseteq A \cup {p} /\ A \subseteq Names(h) \cup {<<>>}
  <2>1. /\ F = SetAt(target.file, p, id)
        /\ Names(h) \subseteq A \cup {p} /\ A \subseteq Names(h) \cup {<<>>}
    BY <1>2 DEF Opened
  <2>2. DOMAIN F = DOMAIN target.file \cup {p} /\ F[p] = id
    BY <2>1 DEF SetAt
  <2>. QED BY <2>1, <2>2
<1>4. PICK P \in Nat : P = pos /\ P = k - 1 /\ k \in Nat \ {0} /\ k = P + 1
  BY DEF TypeInv, ReaderTyped, Opened
<1>5. FileAt(k) /\ h = stream[k].val
  BY DEF Opened
<1>6. PICK n \in Nat \ {0}, m \in Nat : n = h.file_stats.nlink /\ m = h.file_stats.size
  BY <1>5, FileNumbers
<1>7. pos' = P + (n + m) /\ P + (n + m) <= Len(stream)
  BY <1>4, <1>6 DEF Opened, RecordLen
<1>8. Taken(k)'
  BY <1>1, <1>2, <1>3, <1>5 DEF Taken, Names
<1>9. ASSUME NEW j \in 1..P, FileAt(j) PROVE Taken(j)'
  <2>1. links.names = <<>> /\ Taken(j)
    BY <1>4, <1>9 DEF NamesMade
  <2>2. Awaited = {}
    BY <2>1 DEF Awaited
  <2>. QED BY <1>1, <1>2, <1>3, <2>1, <2>2 DEF Taken, Names
<1>10. ASSUME NEW j \in 1..P + (n + m), FileAt(j) PROVE Taken(j)'
  <2>1. CASE j <= P
    BY <1>9, <1>10, <2>1
  <2>2. CASE j = P + 1
    BY <1>4, <1>8, <2>2
  <2>3. CASE j > P + 1
    <3>1. k < j /\ j <= k - 1 + (n + m) /\ k - 1 + (n + m) <= Len(stream) /\ j \in Nat
      BY <1>4, <1>7, <2>3
    <3>2. ~HeadAt(j)
      BY <1>4, <1>5, <1>6, <3>1, NoHeadInside
    <3>. QED BY <1>10, <3>2 DEF FileAt
  <2>. QED BY <2>1, <2>2, <2>3
<1>11. Linking(k)'
  BY <1>1, <1>2, <1>3, <1>5 DEF Linking, Names, Opened
<1>12. rpc' = "link"
  BY DEF Opened
<1>13. \A j \in 1..pos' : FileAt(j)' => Taken(j)'
  BY <1>1, <1>7, <1>10
<1>. QED BY <1>11, <1>12, <1>13 DEF NamesMade

LEMMA OpenedDirs ==
    ASSUME TypeInv, FrameInv, Printed, DirsMade, rpc = "read",
           UNCHANGED outer, UNCHANGED writer,
           NEW k, NEW h, NEW id, NEW new, Opened(k, h, id, new)
    PROVE  DirsMade'
<1>1. /\ stream' = stream /\ dirs' = dirs /\ rpc' = "link"
      /\ InnerFirst' = InnerFirst /\ AskedDirs' = AskedDirs
  BY AskedStays DEF writer, Opened
<1>2. \A j : DirAt(j)' = DirAt(j)
  BY <1>1 DEF DirAt, HeadAt
<1>3. \A d : InDirs(d)' = InDirs(d)
  BY <1>1 DEF InDirs
<1>4. PICK P \in Nat : P = pos /\ P = k - 1 /\ k \in Nat \ {0} /\ k = P + 1
  BY DEF TypeInv, ReaderTyped, Opened
<1>5. FileAt(k) /\ h = stream[k].val
  BY DEF Opened
<1>6. PICK n \in Nat \ {0}, m \in Nat : n = h.file_stats.nlink /\ m = h.file_stats.size
  BY <1>5, FileNumbers
<1>7. pos' = P + (n + m) /\ P + (n + m) <= Len(stream)
  BY <1>4, <1>6 DEF Opened, RecordLen
<1>8. ASSUME NEW j \in 1..P + (n + m), DirAt(j) PROVE InDirs(stream[j].val.tar_name)'
  <2>1. CASE j <= P
    <3>1. InDirs(stream[j].val.tar_name)
      BY <1>4, <1>8, <2>1 DEF DirsMade
    <3>. QED BY <1>1, <3>1 DEF InDirs
  <2>2. CASE j = P + 1
    BY <1>4, <1>5, <1>8, <2>2 DEF FileAt, DirAt
  <2>3. CASE j > P + 1
    <3>1. k < j /\ j <= k - 1 + (n + m) /\ k - 1 + (n + m) <= Len(stream) /\ j \in Nat
      BY <1>4, <1>7, <2>3
    <3>2. ~HeadAt(j)
      BY <1>4, <1>5, <1>6, <3>1, NoHeadInside
    <3>. QED BY <1>8, <3>2 DEF DirAt
  <2>. QED BY <2>1, <2>2, <2>3
<1>9. \A j \in 1..pos' : DirAt(j)' => InDirs(stream[j].val.tar_name)'
  BY <1>1, <1>2, <1>7, <1>8 DEF InDirs
<1>10. \A j \in DOMAIN dirs' : \E i : DirAt(i)' /\ dirs'[j] = stream'[i].val
  BY <1>1, <1>2 DEF DirsMade
<1>11. ~InnerFirst' => InOrder(dirs)'
  BY <1>1 DEF DirsMade, InOrder, Earlier
<1>. QED BY <1>1, <1>9, <1>10, <1>11 DEF DirsMade

\* What the reader leaves alone.
LEMMA FilesSame ==
    ASSUME FilesMade, UNCHANGED outer, UNCHANGED files, UNCHANGED writer,
           UNCHANGED target
    PROVE  FilesMade'
<1>1. /\ source' = source /\ stream' = stream /\ target' = target
      /\ gone' = gone /\ version' = version
  BY DEF outer, files, writer
<1>. QED BY <1>1 DEF FilesMade, FileAt, HeadAt, MadeOf, Names, InoOf, Touched, Good,
                     NamesOf, TypeOf

\* The reader has given up.
LEMMA ReaderGaveUp ==
    ASSUME NamesMade, DirsMade, UNCHANGED outer, UNCHANGED writer, UNCHANGED dirs,
           rpc' \in {"exit", "overrun"}
    PROVE  NamesMade' /\ DirsMade'
<1>1. /\ InnerFirst' = InnerFirst /\ AskedDirs' = AskedDirs /\ stream' = stream
      /\ dirs' = dirs
  BY AskedStays DEF writer
<1>2. NamesMade'
  BY DEF NamesMade
<1>3. \A j \in DOMAIN dirs' : \E k : DirAt(k)' /\ dirs'[j] = stream'[k].val
  BY <1>1 DEF DirsMade, DirAt, HeadAt
<1>4. ~InnerFirst' => InOrder(dirs)'
  BY <1>1 DEF DirsMade, InOrder, Earlier
<1>. QED BY <1>2, <1>3, <1>4 DEF DirsMade

LEMMA DirRecord ==
    ASSUME TypeInv, FrameInv, Gathered, Printed, rpc = "read", Left > 0,
           Record.val.ftype # "file"
    PROVE  \E P \in Nat, h \in Header :
              /\ P = pos /\ h = Record.val /\ h = stream[P + 1].val /\ P + 1 \in 1..Len(stream)
              /\ DirAt(P + 1) /\ OfDir(h) /\ h.ftype = "dir"
<1>1. PICK P \in Nat : P = pos
  BY DEF TypeInv, ReaderTyped, WriterTyped
<1>2. PICK h \in Header : h = Record.val
  BY RecordThere
<1>3. h = stream[P + 1].val /\ P + 1 \in 1..Len(stream) /\ HeadAt(P + 1)
  BY <1>1, <1>2, RecordThere DEF Record, HeadAt
<1>4. ~FileAt(P + 1)
  BY <1>2, <1>3 DEF FileAt
<1>5. OfDir(h) /\ DirAt(P + 1)
  BY <1>3, <1>4, HeadTrue
<1>. QED BY <1>1, <1>2, <1>3, <1>5 DEF OfDir

\* A directory is entered in the array, behind those that it is in.
LEMMA DirEntered ==
    ASSUME TypeInv, FrameInv, Gathered, Printed, FilesMade, NamesMade, DirsMade,
           rpc = "read", Left > 0, Record.val.ftype # "file",
           ReadDirHeader(Record.val), UNCHANGED outer, UNCHANGED files, UNCHANGED writer
    PROVE  FilesMade' /\ NamesMade' /\ DirsMade'
<1>1. PICK P \in Nat, h \in Header :
         /\ P = pos /\ h = Record.val /\ h = stream[P + 1].val /\ P + 1 \in 1..Len(stream)
         /\ DirAt(P + 1) /\ OfDir(h) /\ h.ftype = "dir"
  BY DirRecord
<1>2. FilesMade'
  BY FilesSame DEF ReadDirHeader
<1>3. CASE rpc' = "overrun" /\ UNCHANGED dirs
  BY <1>2, <1>3, ReaderGaveUp
<1>4. CASE dirs' = Append(dirs, h) /\ rpc' = rpc
  <2>1. /\ stream' = stream /\ links' = links /\ target' = target /\ pos' = P + 1
        /\ rpc' = "read" /\ InnerFirst' = InnerFirst /\ AskedDirs' = AskedDirs
    BY <1>1, <1>4, AskedStays DEF writer, ReadDirHeader
  <2>2. \A k : FileAt(k)' = FileAt(k) /\ DirAt(k)' = DirAt(k) /\ Taken(k)' = Taken(k)
    BY <2>1 DEF FileAt, DirAt, HeadAt, Taken, Names, Awaited
  <2>3. PICK n \in Nat : n = Len(dirs) /\ DOMAIN dirs = 1..n
    BY DEF TypeInv, ReaderTyped
  <2>4. PICK D : D = dirs'
    OBVIOUS
  <2>5. /\ DOMAIN D = 1..n + 1 /\ D[n + 1] = h
        /\ \A j \in 1..n : D[j] = dirs[j]
    <3>1. dirs \in Seq({r \in Header : r.ftype = "dir"})
      BY DEF TypeInv, ReaderTyped
    <3>2. h \in {r \in Header : r.ftype = "dir"}
      BY <1>1
    <3>. QED BY <1>4, <2>3, <2>4, <3>1, <3>2, AppendProperties
  <2>6. ASSUME NEW k \in 1..P + 1, FileAt(k) PROVE Taken(k)
    <3>1. k # P + 1
      BY <1>1, <2>6 DEF FileAt, DirAt
    <3>2. k \in 1..P
      BY <3>1
    <3>. QED BY <1>1, <2>6, <3>2 DEF NamesMade
  <2>7. \A k \in 1..pos' : FileAt(k)' => Taken(k)'
    BY <2>1, <2>2, <2>6
  <2>8. NamesMade'
    BY <2>1, <2>7 DEF NamesMade
  <2>9. ASSUME NEW d, InDirs(d)
        PROVE  InDirs(d)' /\ \E j \in 1..n : D[j].ftype = "dir" /\ D[j].tar_name = d
    <3>1. PICK j \in 1..n : dirs[j].tar_name = d
      BY <2>3, <2>9 DEF InDirs
    <3>2. dirs[j].ftype = "dir"
      BY <2>3 DEF DirsMade, DirAt
    <3>. QED BY <2>4, <2>5, <3>1, <3>2 DEF InDirs
  <2>10. ASSUME NEW k \in 1..P + 1, DirAt(k) PROVE InDirs(stream[k].val.tar_name)'
    <3>1. CASE k = P + 1
      <4>1. D[n + 1].tar_name = stream[k].val.tar_name /\ n + 1 \in DOMAIN D
        BY <1>1, <2>5, <3>1
      <4>. QED BY <2>1, <2>4, <4>1 DEF InDirs
    <3>2. CASE k # P + 1
      <4>1. k \in 1..P
        BY <3>2
      <4>2. PICK d : d = stream[k].val.tar_name
        OBVIOUS
      <4>3. InDirs(d)
        BY <1>1, <2>10, <4>1, <4>2 DEF DirsMade
      <4>4. InDirs(d)'
        BY <2>9, <4>3
      <4>. QED BY <2>1, <4>2, <4>4 DEF InDirs
    <3>. QED BY <3>1, <3>2
  <2>11. \A k \in 1..pos' : DirAt(k)' => InDirs(stream[k].val.tar_name)'
    BY <2>1, <2>2, <2>10 DEF InDirs
  <2>12. ASSUME NEW j \in 1..n + 1 PROVE \E k : DirAt(k) /\ D[j] = stream[k].val
    <3>1. CASE j = n + 1
      BY <1>1, <2>5, <3>1
    <3>2. CASE j # n + 1
      <4>1. j \in 1..n
        BY <3>2
      <4>. QED BY <2>3, <2>5, <4>1 DEF DirsMade
    <3>. QED BY <3>1, <3>2
  <2>13. ASSUME ~InnerFirst, NEW k \in 1..n + 1, NEW d \in AskedDirs,
                D[k].ftype = "dir", IsStrictPrefix(d, D[k].tar_name)
         PROVE  Earlier(D, k, d)
    <3>1. CASE k = n + 1
      <4>1. OuterBefore(P + 1)
        BY <1>1, <2>13 DEF Printed
      <4>2. PICK j \in 1..(P + 1) - 1 : DirAt(j) /\ stream[j].val.tar_name = d
        BY <1>1, <2>5, <2>13, <3>1, <4>1 DEF OuterBefore
      <4>3. j \in 1..pos
        BY <1>1, <4>2
      <4>4. InDirs(d)
        BY <4>2, <4>3 DEF DirsMade
      <4>5. PICK i \in 1..n : D[i].ftype = "dir" /\ D[i].tar_name = d
        BY <2>9, <4>4
      <4>6. i \in 1..k - 1
        BY <3>1, <4>5
      <4>. QED BY <4>5, <4>6 DEF Earlier
    <3>2. CASE k # n + 1
      <4>1. k \in 1..n /\ D[k] = dirs[k]
        BY <2>5, <3>2
      <4>2. Earlier(dirs, k, d)
        BY <2>3, <2>13, <4>1 DEF DirsMade, InOrder
      <4>3. PICK i \in 1..k - 1 : dirs[i].ftype = "dir" /\ dirs[i].tar_name = d
        BY <4>2 DEF Earlier
      <4>4. D[i] = dirs[i]
        BY <2>5, <4>1, <4>3
      <4>. QED BY <4>3, <4>4 DEF Earlier
    <3>. QED BY <3>1, <3>2
  <2>14. ~InnerFirst' => InOrder(dirs)'
    BY <2>1, <2>4, <2>5, <2>13 DEF InOrder, Earlier
  <2>15. \A j \in DOMAIN dirs' : \E k : DirAt(k)' /\ dirs'[j] = stream'[k].val
    BY <2>1, <2>2, <2>4, <2>5, <2>12
  <2>16. DirsMade'
    BY <2>1, <2>11, <2>14, <2>15 DEF DirsMade
  <2>. QED BY <1>2, <2>8, <2>16
<1>. QED BY <1>1, <1>3, <1>4 DEF ReadDirHeader

LEMMA ReadRecordTrip ==
    ASSUME TypeInv, FrameInv, Gathered, Printed, FilesMade, NamesMade, DirsMade,
           ReadRecord
    PROVE  FilesMade' /\ NamesMade' /\ DirsMade'
<1>1. /\ rpc = "read" /\ Left > 0
      /\ UNCHANGED outer /\ UNCHANGED files /\ UNCHANGED writer
  BY DEF ReadRecord
<1>2. ~ChecksumFails(Record)
  BY <1>1, RecordThere DEF ChecksumFails
<1>3. CASE Record.val.ftype = "file"
  <2>1. RecreateFile(Record.val)
    BY <1>2, <1>3 DEF ReadRecord
  <2>2. CASE rpc' = "exit" /\ UNCHANGED <<pos, links, dirs, target>>
    BY <1>1, <2>2, FilesSame, ReaderGaveUp
  <2>3. CASE \E k, h, id, new : Opened(k, h, id, new)
    <3>1. PICK k, h, id, new : Opened(k, h, id, new)
      BY <2>3
    <3>. QED BY <1>1, <3>1, OpenedFiles, OpenedNames, OpenedDirs
  <2>. QED BY <1>1, <1>3, <2>1, <2>2, <2>3, FileOpened
<1>4. CASE Record.val.ftype # "file"
  <2>1. ReadDirHeader(Record.val)
    BY <1>2, <1>4 DEF ReadRecord
  <2>. QED BY <1>1, <1>4, <2>1, DirEntered
<1>. QED BY <1>3, <1>4

\* A link is made to the file it belongs to.
LEMMA RecreateLinkTrip ==
    ASSUME TypeInv, FrameInv, Gathered, Printed, FilesMade, NamesMade, DirsMade,
           RecreateLink
    PROVE  FilesMade' /\ NamesMade' /\ DirsMade'
<1>1. /\ rpc = "link" /\ links.names # <<>> /\ UNCHANGED <<pos, dirs>>
      /\ UNCHANGED outer /\ UNCHANGED files /\ UNCHANGED writer
  BY DEF RecreateLink
<1>2. PICK l : l = Head(links.names)
  OBVIOUS
<1>3. CASE rpc' = "exit" /\ UNCHANGED <<links, target>>
  BY <1>1, <1>3, FilesSame, ReaderGaveUp
<1>4. CASE /\ l # <<>> /\ l \notin DOMAIN target.file /\ rpc' = rpc
           /\ target' = [target EXCEPT !.dir = Grown(target, l),
                                       !.file = SetAt(@, l, links.of)]
           /\ links' = [links EXCEPT !.names = Tail(@)]
  <2>1. /\ source' = source /\ stream' = stream /\ pos' = pos /\ dirs' = dirs /\ rpc' = "link"
        /\ InnerFirst' = InnerFirst /\ AskedDirs' = AskedDirs
        /\ \A p : InoOf(p)' = InoOf(p)
        /\ \A i : NamesOf(i)' = NamesOf(i)
    BY <1>1, <1>4, AskedStays DEF writer
  <2>2. \A i : Touched(i)' = Touched(i) /\ Good(i)' = Good(i)
    BY <1>1, <2>1 DEF Touched, Good, files
  <2>3. \A j : FileAt(j)' = FileAt(j) /\ DirAt(j)' = DirAt(j)
    BY <2>1 DEF FileAt, DirAt, HeadAt
  <2>4. PICK k : Linking(k)
    BY <1>1 DEF NamesMade
  <2>5. PICK h, r : h = stream[k].val /\ r = h.tar_name
    OBVIOUS
  <2>6. /\ FileAt(k) /\ r \in DOMAIN target.file /\ links.of = target.file[r]
        /\ Awaited \subseteq Names(h) \cup {<<>>} /\ OfFile(h)
    BY <2>4, <2>5, HeadTrue DEF Linking, FileAt
  <2>7. PICK F : F = target'.file
    OBVIOUS
  <2>8. /\ target'.data = target.data /\ F = SetAt(target.file, l, links.of)
    <3>1. target = [dir |-> target.dir, file |-> target.file, data |-> target.data]
      BY DEF TypeInv, ReaderTyped
    <3>2. PICK g, f : g = Grown(target, l) /\ f = SetAt(target.file, l, links.of)
      OBVIOUS
    <3>3. target' = [dir |-> g, file |-> f, data |-> target.data]
      BY <1>4, <3>1, <3>2
    <3>. QED BY <2>7, <3>2, <3>3
  <2>9. /\ DOMAIN F = DOMAIN target.file \cup {l} /\ F[l] = links.of
        /\ \A q \in DOMAIN target.file : F[q] = target.file[q]
    BY <1>4, <2>8 DEF SetAt
  <2>10. /\ links'.of = links.of /\ Awaited = Awaited' \cup {l}
    <3>1. links = [of |-> links.of, names |-> links.names] /\ links.names \in Seq(Path)
      BY DEF TypeInv, ReaderTyped
    <3>2. PICK N \in Seq(Path), T \in Seq(Path) : N = links.names /\ T = Tail(N)
      BY <1>1, <3>1, HeadTailProperties
    <3>3. links'.of = links.of /\ links'.names = T
      BY <1>4, <3>1, <3>2
    <3>4. N # <<>> /\ N[1] = l
      BY <1>1, <1>2, <3>2
    <3>5. PICK n \in Nat \ {0} : n = Len(N) /\ DOMAIN N = 1..n
      BY <3>4
    <3>6. DOMAIN T = 1..n - 1 /\ \A i \in 1..n - 1 : T[i] = N[i + 1]
      BY <3>2, <3>4, <3>5, HeadTailProperties
    <3>7. ASSUME NEW x \in Awaited PROVE x \in Awaited' \cup {l}
      <4>1. PICK i \in 1..n : x = N[i]
        BY <3>2, <3>5, <3>7 DEF Awaited
      <4>2. CASE i = 1
        BY <3>4, <4>1, <4>2
      <4>3. CASE i # 1
        <5>1. i - 1 \in 1..n - 1 /\ (i - 1) + 1 = i
          BY <4>3
        <5>2. x = T[i - 1] /\ i - 1 \in DOMAIN T
          BY <3>6, <4>1, <5>1
        <5>. QED BY <3>3, <5>2 DEF Awaited
      <4>. QED BY <4>2, <4>3
    <3>8. ASSUME NEW x \in Awaited' PROVE x \in Awaited
      <4>1. PICK i \in 1..n - 1 : x = N[i + 1]
        BY <3>3, <3>6, <3>8 DEF Awaited
      <4>2. i + 1 \in 1..n
        OBVIOUS
      <4>. QED BY <3>2, <3>5, <4>1, <4>2 DEF Awaited
    <3>9. l \in Awaited
      BY <3>2, <3>4, <3>5 DEF Awaited
    <3>. QED BY <3>3, <3>7, <3>8, <3>9
  <2>11. l \in Names(h) /\ InoOf(l) = InoOf(r)
    <3>1. l \in Names(h)
      BY <1>4, <2>6, <2>10
    <3>. QED BY <2>5, <2>6, <3>1, SameIno
  <2>12. F[l] = F[r] /\ r # l
    BY <1>4, <2>6, <2>9
  <2>13. ASSUME NEW q \in DOMAIN F PROVE \E j : FileAt(j)' /\ MadeOf(q, stream[j].val)'
    <3>1. CASE q = l
      <4>1. MadeOf(q, h)'
        BY <2>5, <2>6, <2>7, <2>9, <2>11, <2>12, <3>1 DEF MadeOf, Names
      <4>2. MadeOf(q, stream[k].val)'
        BY <2>1, <2>5, <4>1 DEF MadeOf, Names
      <4>. QED BY <2>3, <2>6, <4>2
    <3>2. CASE q \in DOMAIN target.file
      <4>1. PICK j : FileAt(j) /\ MadeOf(q, stream[j].val)
        BY <3>2 DEF FilesMade
      <4>2. PICK g : g = stream[j].val /\ g = stream'[j].val
        BY <2>1
      <4>3. q \in Names(g) /\ g.tar_name \in DOMAIN target.file
            /\ target.file[q] = target.file[g.tar_name]
        BY <4>1, <4>2 DEF MadeOf
      <4>4. g.tar_name \in DOMAIN F /\ F[q] = F[g.tar_name]
        BY <2>9, <3>2, <4>3
      <4>5. MadeOf(q, stream[j].val)'
        BY <2>7, <4>2, <4>3, <4>4 DEF MadeOf, Names
      <4>. QED BY <2>3, <4>1, <4>5
    <3>. QED BY <2>9, <3>1, <3>2
  <2>14. \A q \in DOMAIN target.file : target.file[q] = links.of => InoOf(q) = InoOf(l)
    BY <2>6, <2>11 DEF FilesMade
  <2>15. ASSUME NEW p \in DOMAIN F, NEW q \in DOMAIN F, F[p] = F[q]
         PROVE  InoOf(p) = InoOf(q)
    <3>1. CASE p \in DOMAIN target.file /\ q \in DOMAIN target.file
      BY <2>9, <2>15, <3>1 DEF FilesMade
    <3>2. CASE p = l /\ q \in DOMAIN target.file
      BY <2>9, <2>14, <2>15, <3>2
    <3>3. CASE q = l /\ p \in DOMAIN target.file
      BY <2>9, <2>14, <2>15, <3>3
    <3>4. CASE p = l /\ q = l
      BY <3>4
    <3>. QED BY <2>9, <3>1, <3>2, <3>3, <3>4
  <2>16. ASSUME NEW q \in DOMAIN F, ~Touched(InoOf(q))
         PROVE  target.data[F[q]] = Good(InoOf(q))
    <3>1. CASE q = l
      BY <2>6, <2>9, <2>11, <2>16, <3>1 DEF FilesMade
    <3>2. CASE q \in DOMAIN target.file
      BY <2>9, <2>16, <3>2 DEF FilesMade
    <3>. QED BY <2>9, <3>1, <3>2
  <2>17. \A q \in DOMAIN target'.file :
            ~Touched(InoOf(q))' => target'.data[target'.file[q]] = Good(InoOf(q))'
    <3>1. ASSUME NEW q \in DOMAIN F, ~Touched(InoOf(q))'
          PROVE  target.data[F[q]] = Good(InoOf(q))'
      <4>1. PICK i : i = InoOf(q) /\ i = InoOf(q)'
        BY <2>1
      <4>2. ~Touched(i)' /\ Good(InoOf(q))' = Good(i)'
        BY <3>1, <4>1 DEF Touched, Good
      <4>. QED BY <2>2, <2>16, <4>1, <4>2
    <3>. QED BY <2>7, <2>8, <3>1
  <2>18. FilesMade'
    <3>1. \A q \in DOMAIN target'.file : \E j : FileAt(j)' /\ MadeOf(q, stream[j].val)'
      BY <2>7, <2>13
    <3>2. \A p, q \in DOMAIN target'.file :
             target'.file[p] = target'.file[q] => InoOf(p)' = InoOf(q)'
      BY <2>1, <2>7, <2>15
    <3>3. \E n \in Nat : DOMAIN target'.data = 1..n
      BY <2>8 DEF FilesMade
    <3>. QED BY <2>17, <3>1, <3>2, <3>3 DEF FilesMade
  <2>19. \A j : Taken(j) => Taken(j)'
    BY <2>1, <2>7, <2>9, <2>10 DEF Taken, Names
  <2>20. Linking(k)'
    <3>1. Awaited' \subseteq Names(h) \cup {<<>>}
      BY <2>6, <2>10
    <3>. QED BY <2>1, <2>3, <2>5, <2>6, <2>7, <2>9, <2>10, <2>12, <3>1 DEF Linking, Names
  <2>21. NamesMade'
    <3>1. \A j \in 1..pos' : FileAt(j)' => Taken(j)'
      BY <1>1, <2>1, <2>3, <2>19 DEF NamesMade
    <3>. QED BY <2>1, <2>20, <3>1 DEF NamesMade
  <2>22. DirsMade'
    <3>1. \A j \in DOMAIN dirs' : \E i : DirAt(i)' /\ dirs'[j] = stream'[i].val
      BY <2>1, <2>3 DEF DirsMade
    <3>2. ~InnerFirst' => InOrder(dirs)'
      BY <2>1 DEF DirsMade, InOrder, Earlier
    <3>3. \A j \in 1..pos' : DirAt(j)' => InDirs(stream[j].val.tar_name)'
      BY <1>1, <2>1, <2>3 DEF DirsMade, InDirs
    <3>. QED BY <2>1, <3>1, <3>2, <3>3 DEF DirsMade
  <2>. QED BY <2>18, <2>21, <2>22
<1>. QED BY <1>2, <1>3, <1>4 DEF RecreateLink

\* When the whole archive has been read, every directory is in the array.
LEMMA AllEntered ==
    ASSUME TypeInv, FrameInv, Gathered, Printed, DirsMade, wpc = "done", rpc = "read",
           pos = Len(stream), NEW d \in AskedDirs
    PROVE  InDirs(d)
<1>1. work = <<>> /\ args = <<>> /\ next = Len(headers) + 1
  BY DEF Gathered, Printed
<1>2. d \in DOMAIN source.node /\ TypeOf(d) = "dir"
      /\ \E c \in DOMAIN command : IsStrictPrefix(command[c], d)
  BY DEF AskedDirs, Asked
<1>3. DOMAIN command = 1..Len(command) - Len(args)
  <2>1. command \in Seq(Seq(DOMAIN NameLen) \ {<<>>})
    BY JtarAssumption DEF TypeInv, SourceTyped
  <2>2. Len(args) = 0 /\ Len(command) \in Nat /\ DOMAIN command = 1..Len(command)
    BY <1>1, <2>1
  <2>. QED BY <2>2
<1>4. d \in Due
  BY <1>2, <1>3 DEF Due, Wanted
<1>5. d \notin gone /\ ~InWork(d)
  BY <1>1, <1>2 DEF Gathered, InWork
<1>6. d \in NamesIn(headers)
  BY <1>4, <1>5 DEF Gathered, Held
<1>7. PICK j \in DOMAIN headers : headers[j].ftype = "dir" /\ headers[j].tar_name = d
  BY <1>6, DirHeld DEF Gathered
<1>8. j \in 1..next - 1
  <2>1. DOMAIN headers = 1..Len(headers) /\ Len(headers) \in Nat
    BY DEF TypeInv, WriterTyped
  <2>. QED BY <1>1, <2>1
<1>9. PICK k : HeadAt(k) /\ stream[k].val = headers[j]
  BY <1>8 DEF Printed, Shown
<1>10. DirAt(k) /\ k \in 1..pos
  BY <1>7, <1>9 DEF DirAt, HeadAt
<1>. QED BY <1>7, <1>9, <1>10 DEF DirsMade

LEMMA ReaderPhaseTrip ==
    ASSUME TypeInv, FrameInv, Gathered, Printed, FilesMade, NamesMade, DirsMade,
           LastLink \/ EndOfArchive \/ Finish \/ ExtractAgain
    PROVE  FilesMade' /\ NamesMade' /\ DirsMade'
<1>1. /\ UNCHANGED outer /\ UNCHANGED files /\ UNCHANGED writer /\ target' = target
  BY DEF LastLink, EndOfArchive, Finish, ExtractAgain
<1>2. FilesMade'
  BY <1>1, FilesSame
<1>3. /\ stream' = stream /\ wpc' = wpc /\ InnerFirst' = InnerFirst
      /\ AskedDirs' = AskedDirs /\ source' = source
  BY <1>1, AskedStays DEF writer
<1>4. \A k : FileAt(k)' = FileAt(k) /\ DirAt(k)' = DirAt(k)
  BY <1>3 DEF FileAt, DirAt, HeadAt
<1>5. CASE LastLink \/ EndOfArchive \/ Finish
  <2>1. /\ pos' = pos /\ dirs' = dirs /\ links'.names = <<>> /\ links.names = <<>>
        /\ rpc \in {"read", "link", "dirs"} /\ rpc' \in {"read", "dirs", "done"}
        /\ rpc' = "dirs" => rpc = "read" /\ pos = Len(stream)
        /\ rpc' = "done" => rpc = "dirs" /\ dirs = <<>>
        /\ rpc' = "read" => rpc = "link"
    <3>1. CASE LastLink
      BY <3>1 DEF LastLink, NoLinks
    <3>2. CASE EndOfArchive
      <4>1. PICK N \in Nat, P \in Nat : N = Len(stream) /\ P = pos
        <5>1. Len(stream) \in Nat /\ pos \in 0..Len(stream)
          BY DEF TypeInv, WriterTyped, ReaderTyped
        <5>. QED BY <5>1
      <4>2. N - P = 0
        BY <3>2, <4>1 DEF EndOfArchive, Left
      <4>3. N = P
        BY <4>2
      <4>4. links.names = <<>> /\ rpc = "read"
        BY <3>2 DEF EndOfArchive, NamesMade
      <4>. QED BY <3>2, <4>1, <4>3, <4>4 DEF EndOfArchive
    <3>3. CASE Finish
      <4>1. links.names = <<>> /\ rpc = "dirs"
        BY <3>3 DEF Finish, NamesMade
      <4>. QED BY <3>3, <4>1 DEF Finish
    <3>. QED BY <1>5, <3>1, <3>2, <3>3
  <2>2. Awaited = {} /\ Awaited' = {}
    BY <2>1 DEF Awaited
  <2>3. \A k : Taken(k)' = Taken(k)
    BY <1>1, <1>3, <2>2 DEF Taken, Names
  <2>4. NamesMade'
    <3>1. \A k \in 1..pos' : FileAt(k)' => Taken(k)'
      BY <1>4, <2>1, <2>3 DEF NamesMade
    <3>2. rpc' # "link"
      BY <2>1
    <3>. QED BY <2>1, <3>1, <3>2 DEF NamesMade
  <2>5. \A d : InDirs(d)' = InDirs(d) /\ Restored(d)' = Restored(d)
    BY <1>1, <1>3, <2>1 DEF InDirs, Restored
  <2>6. \A j \in DOMAIN dirs' : \E i : DirAt(i)' /\ dirs'[j] = stream'[i].val
    BY <1>3, <1>4, <2>1 DEF DirsMade
  <2>7. ~InnerFirst' => InOrder(dirs)'
    BY <1>3, <2>1 DEF DirsMade, InOrder, Earlier
  <2>8. rpc' \in {"read", "link"} =>
           \A j \in 1..pos' : DirAt(j)' => InDirs(stream[j].val.tar_name)'
    BY <1>3, <1>4, <2>1 DEF DirsMade, InDirs
  <2>9. rpc' \in {"dirs", "done"} /\ wpc' = "done" =>
           \A d \in AskedDirs' : InDirs(d)' \/ Restored(d)'
    <3>1. ASSUME wpc = "done", rpc' \in {"dirs", "done"}, NEW d \in AskedDirs
          PROVE  InDirs(d) \/ Restored(d)
      <4>1. CASE rpc' = "dirs"
        BY <2>1, <3>1, <4>1, AllEntered
      <4>2. CASE rpc' = "done"
        BY <2>1, <3>1, <4>2 DEF DirsMade
      <4>. QED BY <3>1, <4>1, <4>2
    <3>. QED BY <1>3, <2>5, <3>1
  <2>10. rpc' = "done" => dirs' = <<>>
    BY <2>1
  <2>11. DirsMade'
    BY <2>6, <2>7, <2>8, <2>9, <2>10 DEF DirsMade
  <2>. QED BY <1>2, <2>4, <2>11
<1>6. CASE ExtractAgain
  <2>1. rpc' = "read" /\ pos' = 0 /\ links' = NoLinks /\ dirs' = <<>>
    BY <1>6 DEF ExtractAgain
  <2>2. NamesMade'
    BY <2>1 DEF NamesMade, NoLinks
  <2>3. DirsMade'
    BY <2>1 DEF DirsMade, InOrder
  <2>. QED BY <1>2, <2>2, <2>3
<1>. QED BY <1>5, <1>6

\* What mkdir does to a directory that is there: its time changes, if the one
\* that is made is below it.
LEMMA GrownKeeps ==
    ASSUME TypeInv, NEW p \in DOMAIN source.node, NEW d \in DOMAIN target.dir, d # <<>>
    PROVE  /\ d \in DOMAIN Grown(target, p)
           /\ Grown(target, p)[d].mode = target.dir[d].mode
           /\ \/ Grown(target, p)[d].time = target.dir[d].time
              \/ IsStrictPrefix(d, p)
<1>. DEFINE new == Ancestors(p) \ DOMAIN target.dir
            changed == {Front(q) : q \in new \cup {p}}
<1>1. Grown(target, p) =
        [c \in DOMAIN target.dir \cup new |->
            IF c \in new THEN Made(c)
            ELSE [target.dir[c] EXCEPT !.time = IF c \in changed THEN "now" ELSE @]]
  BY DEF Grown
<1>2. PICK r \in DirType : r = target.dir[d]
  BY DEF TypeInv, ReaderTyped, DirType
<1>3. PICK t : t = IF d \in changed THEN "now" ELSE r.time
  OBVIOUS
<1>4. [r EXCEPT !.time = t].mode = r.mode /\ [r EXCEPT !.time = t].time = t
  BY DEF DirType
<1>5. p \in Path /\ p # <<>>
  BY DEF TypeInv, SourceTyped, Source, Path
<1>6. PICK n \in Nat \ {0} : n = Len(p) /\ DOMAIN p = 1..n
  BY <1>5 DEF Path
<1>7. ASSUME d \in changed PROVE IsStrictPrefix(d, p)
  <2>1. PICK q \in Ancestors(p) \cup {p} : d = Front(q)
    BY <1>7
  <2>2. PICK k \in 1..n : q = SubSeq(p, 1, k)
    <3>1. CASE q = p
      <4>1. n \in 1..n /\ SubSeq(p, 1, n) = p
        BY <1>5, <1>6, InitialPart
      <4>. QED BY <3>1, <4>1
    <3>2. CASE q \in Ancestors(p)
      <4>1. PICK k \in 1..n - 1 : q = SubSeq(p, 1, k)
        BY <1>6, <3>2 DEF Ancestors
      <4>. QED BY <4>1
    <3>. QED BY <2>1, <3>1, <3>2
  <2>3. /\ q \in Path /\ Len(q) = k
        /\ k > 1 => SubSeq(q, 1, k - 1) = SubSeq(p, 1, k - 1)
    BY <1>5, <1>6, <2>2, InitialPart
  <2>4. d = SubSeq(q, 1, k - 1)
    BY <2>1, <2>3 DEF Front
  <2>5. k # 1
    <3>1. ASSUME k = 1 PROVE d = <<>>
      BY <2>4, <3>1, SubSeqEmpty
    <3>. QED BY <3>1
  <2>6. k - 1 \in 1..n /\ k - 1 < n /\ k > 1
    BY <2>5
  <2>7. IsPrefix(d, p) /\ Len(d) = k - 1
    <3>1. PICK l \in 1..Len(p) : l = k - 1
      BY <1>6, <2>6
    <3>2. d = SubSeq(p, 1, l)
      BY <2>3, <2>4, <2>6, <3>1
    <3>3. IsPrefix(SubSeq(p, 1, l), p) /\ Len(SubSeq(p, 1, l)) = l
      BY <1>5, InitialPart
    <3>. QED BY <3>1, <3>2, <3>3
  <2>8. d # p
    BY <1>6, <2>6, <2>7
  <2>. QED BY <2>7, <2>8 DEF IsStrictPrefix
<1>8. d \in DOMAIN target.dir \cup new /\ d \notin new
  OBVIOUS
<1>. HIDE DEF new, changed
<1>9. d \in DOMAIN Grown(target, p) /\ Grown(target, p)[d] = [r EXCEPT !.time = t]
  BY <1>1, <1>2, <1>3, <1>8
<1>. QED BY <1>2, <1>3, <1>4, <1>7, <1>9

\* The last directory of the array is finished, those it is in are yet to come.
LEMMA RecreateDirTrip ==
    ASSUME TypeInv, FrameInv, Gathered, Printed, FilesMade, NamesMade, DirsMade,
           RecreateDir
    PROVE  FilesMade' /\ NamesMade' /\ DirsMade'
<1>1. /\ rpc = "dirs" /\ dirs # <<>> /\ UNCHANGED <<pos, links>>
      /\ UNCHANGED outer /\ UNCHANGED files /\ UNCHANGED writer
  BY DEF RecreateDir
<1>2. PICK n \in Nat \ {0} : n = Len(dirs) /\ DOMAIN dirs = 1..n
  BY <1>1 DEF TypeInv, ReaderTyped
<1>3. PICK h, p : h = dirs[n] /\ p = h.tar_name
  OBVIOUS
<1>4. PICK there : there = IF p \in DOMAIN target.dir THEN target.dir ELSE Grown(target, p)
  OBVIOUS
<1>5. PICK G : G = SetAt(there, p, [mode |-> h.file_stats.mode, time |-> "stored"])
  OBVIOUS
<1>6. /\ source' = source /\ stream' = stream /\ wpc' = wpc /\ InnerFirst' = InnerFirst
      /\ AskedDirs' = AskedDirs /\ pos' = pos /\ links' = links
      /\ \A i : InoOf(i)' = InoOf(i)
      /\ \A i : NamesOf(i)' = NamesOf(i)
  BY <1>1, AskedStays DEF writer
<1>7. CASE rpc' = "exit" /\ UNCHANGED <<dirs, target>>
  BY <1>1, <1>7, FilesSame, ReaderGaveUp
<1>8. CASE /\ rpc' = rpc /\ dirs' = RemoveAt(dirs, n)
           /\ target' = [target EXCEPT !.dir = G]
  <2>1. target' = [dir |-> G, file |-> target.file, data |-> target.data]
    <3>1. target = [dir |-> target.dir, file |-> target.file, data |-> target.data]
      BY DEF TypeInv, ReaderTyped
    <3>. QED BY <1>8, <3>1
  <2>2. target'.dir = G /\ target'.file = target.file /\ target'.data = target.data
    BY <2>1
  <2>3. \A k : FileAt(k)' = FileAt(k) /\ DirAt(k)' = DirAt(k)
    BY <1>6 DEF FileAt, DirAt, HeadAt
  <2>4. FilesMade'
    <3>1. \A k, q : MadeOf(q, stream[k].val)' = MadeOf(q, stream[k].val)
      BY <1>6, <2>2 DEF MadeOf, Names
    <3>2. \A q \in DOMAIN target'.file : \E k : FileAt(k)' /\ MadeOf(q, stream[k].val)'
      BY <2>2, <2>3, <3>1 DEF FilesMade
    <3>3. \A q, r \in DOMAIN target'.file :
             target'.file[q] = target'.file[r] => InoOf(q)' = InoOf(r)'
      BY <1>6, <2>2 DEF FilesMade
    <3>4. \E m \in Nat : DOMAIN target'.data = 1..m
      BY <2>2 DEF FilesMade
    <3>5. \A i : Touched(i)' = Touched(i) /\ Good(i)' = Good(i)
      BY <1>1, <1>6 DEF Touched, Good, files
    <3>6. \A q \in DOMAIN target'.file :
             ~Touched(InoOf(q))' => target'.data[target'.file[q]] = Good(InoOf(q))'
      <4>1. ASSUME NEW q \in DOMAIN target.file, ~Touched(InoOf(q))'
            PROVE  target.data[target.file[q]] = Good(InoOf(q))'
        <5>1. PICK i : i = InoOf(q) /\ i = InoOf(q)'
          BY <1>6
        <5>2. ~Touched(i)' /\ Good(InoOf(q))' = Good(i)'
          BY <4>1, <5>1 DEF Touched, Good
        <5>. QED BY <3>5, <5>1, <5>2 DEF FilesMade
      <4>. QED BY <2>2, <4>1
    <3>. QED BY <3>2, <3>3, <3>4, <3>6 DEF FilesMade
  <2>5. NamesMade'
    <3>1. \A k : Taken(k)' = Taken(k)
      BY <1>6, <2>2 DEF Taken, Names, Awaited
    <3>2. \A k \in 1..pos' : FileAt(k)' => Taken(k)'
      BY <1>1, <1>6, <2>3, <3>1 DEF NamesMade
    <3>3. links'.names = <<>> /\ rpc' # "link"
      BY <1>1, <1>6, <1>8 DEF NamesMade
    <3>. QED BY <3>2, <3>3 DEF NamesMade
  <2>6. PICK E : E = dirs'
    OBVIOUS
  <2>7. DOMAIN E = 1..n - 1 /\ \A j \in 1..n - 1 : E[j] = dirs[j]
    <3>1. dirs \in Seq({r \in Header : r.ftype = "dir"})
      BY DEF TypeInv, ReaderTyped
    <3>2. E = SubSeq(dirs, 1, n - 1) \o SubSeq(dirs, n + 1, n)
      BY <1>2, <1>8, <2>6 DEF RemoveAt
    <3>3. SubSeq(dirs, n + 1, n) = <<>>
      BY SubSeqEmpty
    <3>4. \A i \in 1..n - 1 : dirs[i] \in {r \in Header : r.ftype = "dir"}
      BY <1>2, <3>1
    <3>5. /\ SubSeq(dirs, 1, n - 1) \in Seq({r \in Header : r.ftype = "dir"})
          /\ Len(SubSeq(dirs, 1, n - 1)) = n - 1
          /\ \A i \in 1..n - 1 : SubSeq(dirs, 1, n - 1)[i] = dirs[i]
      BY <3>4, SubSeqProperties
    <3>6. E = SubSeq(dirs, 1, n - 1)
      BY <3>2, <3>3, <3>5, ConcatEmptySeq
    <3>. QED BY <3>5, <3>6
  <2>8. \A j \in DOMAIN dirs' : \E k : DirAt(k)' /\ dirs'[j] = stream'[k].val
    BY <1>2, <1>6, <2>3, <2>6, <2>7 DEF DirsMade
  <2>9. ASSUME ~InnerFirst, NEW k \in 1..n - 1, NEW d \in AskedDirs,
               E[k].ftype = "dir", IsStrictPrefix(d, E[k].tar_name)
        PROVE  Earlier(E, k, d)
    <3>1. Earlier(dirs, k, d)
      BY <1>2, <2>7, <2>9 DEF DirsMade, InOrder
    <3>2. PICK i \in 1..k - 1 : dirs[i].ftype = "dir" /\ dirs[i].tar_name = d
      BY <3>1 DEF Earlier
    <3>3. i \in 1..n - 1
      OBVIOUS
    <3>. QED BY <2>7, <3>2, <3>3 DEF Earlier
  <2>10. ~InnerFirst' => InOrder(dirs)'
    BY <1>6, <2>6, <2>7, <2>9 DEF InOrder, Earlier
  <2>11. h.ftype = "dir" /\ OfDir(h)
    <3>1. PICK k : DirAt(k) /\ h = stream[k].val
      BY <1>2, <1>3 DEF DirsMade
    <3>2. HeadAt(k) /\ h.ftype = "dir" /\ ~FileAt(k)
      BY <3>1 DEF DirAt, FileAt
    <3>. QED BY <3>1, <3>2, HeadTrue
  <2>12. /\ p \in DOMAIN source.node /\ h.file_stats.mode = source.node[p].mode
    BY <1>3, <2>11 DEF OfDir, AskedDirs, Asked
  <2>13. /\ p \in DOMAIN G /\ G[p] = [mode |-> source.node[p].mode, time |-> "stored"]
         /\ \A d \in DOMAIN there : d # p => d \in DOMAIN G /\ G[d] = there[d]
    BY <1>5, <2>12 DEF SetAt
  <2>14. Restored(p)'
    <3>1. G[p].mode = source.node[p].mode /\ G[p].time = "stored"
      BY <2>13
    <3>. QED BY <1>6, <2>2, <2>13, <3>1 DEF Restored
  <2>15. ASSUME NEW d \in AskedDirs, Restored(d), d # p
         PROVE  Restored(d)' \/ InDirs(d)'
    <3>1. d \in DOMAIN target.dir /\ d # <<>>
      BY <2>15 DEF Restored, AskedDirs, Asked, TypeInv, SourceTyped, Source
    <3>2. CASE p \in DOMAIN target.dir
      <4>1. d \in DOMAIN G /\ G[d] = target.dir[d]
        BY <1>4, <2>13, <2>15, <3>1, <3>2
      <4>. QED BY <1>6, <2>2, <2>15, <4>1 DEF Restored
    <3>3. CASE p \notin DOMAIN target.dir
      <4>1. PICK g : g = Grown(target, p) /\ g = there
        BY <1>4, <3>3
      <4>2. /\ d \in DOMAIN g /\ g[d].mode = target.dir[d].mode
            /\ g[d].time = target.dir[d].time \/ IsStrictPrefix(d, p)
        BY <2>12, <3>1, <4>1, GrownKeeps
      <4>3. d \in DOMAIN G /\ G[d] = g[d]
        BY <2>13, <2>15, <4>1, <4>2
      <4>4. CASE g[d].time = target.dir[d].time \/ InnerFirst
        BY <1>6, <2>2, <2>15, <4>2, <4>3, <4>4 DEF Restored
      <4>5. CASE IsStrictPrefix(d, p) /\ ~InnerFirst
        <5>1. Earlier(dirs, n, d)
          BY <1>2, <1>3, <2>11, <4>5 DEF DirsMade, InOrder
        <5>2. PICK i \in 1..n - 1 : dirs[i].tar_name = d
          BY <5>1 DEF Earlier
        <5>. QED BY <2>6, <2>7, <5>2 DEF InDirs
      <4>. QED BY <4>2, <4>4, <4>5
    <3>. QED BY <3>2, <3>3
  <2>16. ASSUME NEW d \in AskedDirs, InDirs(d), d # p PROVE InDirs(d)'
    <3>1. PICK i \in 1..n : dirs[i].tar_name = d
      BY <1>2, <2>16 DEF InDirs
    <3>2. i # n
      BY <1>3, <2>16, <3>1
    <3>3. i \in 1..n - 1
      BY <3>2
    <3>. QED BY <2>6, <2>7, <3>1, <3>3 DEF InDirs
  <2>17. wpc' = "done" => \A d \in AskedDirs' : InDirs(d)' \/ Restored(d)'
    <3>1. ASSUME wpc = "done", NEW d \in AskedDirs PROVE InDirs(d)' \/ Restored(d)'
      <4>1. InDirs(d) \/ Restored(d)
        BY <1>1, <3>1 DEF DirsMade
      <4>2. CASE d = p
        BY <2>14, <4>2 DEF Restored
      <4>3. CASE d # p
        BY <2>15, <2>16, <4>1, <4>3
      <4>. QED BY <4>2, <4>3
    <3>. QED BY <1>6, <3>1
  <2>18. rpc' = "dirs"
    BY <1>1, <1>8
  <2>19. DirsMade'
    BY <2>8, <2>10, <2>17, <2>18 DEF DirsMade
  <2>. QED BY <2>4, <2>5, <2>19
<1>. QED BY <1>2, <1>3, <1>4, <1>5, <1>7, <1>8 DEF RecreateDir, NextDir

\* While the writer, or somebody else, takes a step.
LEMMA ReaderWaits ==
    ASSUME TypeInv, FrameInv, Gathered, Printed, FilesMade, NamesMade, DirsMade,
           UNCHANGED outer, UNCHANGED files \/ Editor, UNCHANGED reader,
           NEW more \in Seq(Token), stream' = stream \o more,
           wpc' = wpc \/ ~WriterEnded
    PROVE  FilesMade' /\ NamesMade' /\ DirsMade'
<1>1. rpc \in {"dirs", "done"} /\ wpc' = "done" => wpc = "done"
  BY DEF FrameInv, ReaderInFrame
<1>. QED BY <1>1, FilesStay, NamesStay, DirsStay

LEMMA StepMade ==
    ASSUME TypeInv, FrameInv, Gathered, Printed, FilesMade, NamesMade, DirsMade,
           [Next]_vars
    PROVE  FilesMade' /\ NamesMade' /\ DirsMade'
<1>. DEFINE nothing == <<>>
<1>1. nothing \in Seq(Token) /\ stream \o nothing = stream
  BY ConcatEmptySeq DEF TypeInv, WriterTyped
<1>. HIDE DEF nothing
<1>2. CASE Add \/ AddFile \/ AddDir \/ VisitEntry \/ StartPrinting \/ StopPrinting
  <2>1. /\ UNCHANGED outer /\ UNCHANGED files /\ UNCHANGED reader /\ stream' = stream
        /\ wpc \in {"add", "header"}
    BY <1>2 DEF Add, AddFile, AddDir, VisitEntry, StartPrinting, StopPrinting
  <2>2. stream' = stream \o nothing /\ ~WriterEnded
    BY <1>1, <2>1 DEF WriterEnded
  <2>. QED BY <1>1, <2>1, <2>2, ReaderWaits
<1>3. CASE PrintHeader
  <2>1. PICK more \in Seq(Token) : stream' = stream \o more
    BY <1>3, PrintHeaderTyped, OpeningOf
  <2>2. /\ UNCHANGED outer /\ UNCHANGED files /\ UNCHANGED reader /\ ~WriterEnded
    BY <1>3 DEF PrintHeader, WriterEnded
  <2>. QED BY <2>1, <2>2, ReaderWaits
<1>4. CASE PrintData
  <2>1. PICK more \in Seq(Token) : stream' = stream \o more
    BY <1>1, <1>4, PrintDataTyped
  <2>2. /\ UNCHANGED outer /\ UNCHANGED files /\ UNCHANGED reader /\ ~WriterEnded
    BY <1>4 DEF PrintData, WriterEnded
  <2>. QED BY <2>1, <2>2, ReaderWaits
<1>5. CASE Editor
  <2>1. UNCHANGED outer /\ UNCHANGED reader /\ stream' = stream \o nothing /\ wpc' = wpc
    BY <1>1, <1>5 DEF Editor, Rewrite, Unlink, writer
  <2>. QED BY <1>1, <1>5, <2>1, ReaderWaits
<1>6. CASE UNCHANGED vars
  <2>1. /\ UNCHANGED outer /\ UNCHANGED files /\ UNCHANGED reader
        /\ stream' = stream \o nothing /\ wpc' = wpc
    BY <1>1, <1>6 DEF vars, writer
  <2>. QED BY <1>1, <2>1, ReaderWaits
<1>7. CASE ReaderStep \/ ExtractAgain
  BY <1>7, ReadRecordTrip, RecreateLinkTrip, ReaderPhaseTrip, RecreateDirTrip
     DEF ReaderStep
<1>. QED BY <1>2, <1>3, <1>4, <1>5, <1>6, <1>7 DEF Next, WriterStep

LEMMA StepTrip ==
    ASSUME TypeInv, FrameInv, TripInv, [Next]_vars
    PROVE  TripInv'
<1>1. UNCHANGED outer
  BY DEF Next, WriterStep, Add, AddFile, AddDir, VisitEntry, StartPrinting, PrintHeader,
         PrintData, StopPrinting, ReaderStep, ReadRecord, RecreateLink, LastLink,
         EndOfArchive, RecreateDir, Finish, Editor, Rewrite, Unlink, ExtractAgain, vars
<1>2. Plain' = Plain
  BY <1>1, AskedStays
<1>. SUFFICES ASSUME Plain, Gathered, Printed, FilesMade, NamesMade, DirsMade
              PROVE  Gathered' /\ Printed' /\ FilesMade' /\ NamesMade' /\ DirsMade'
  BY <1>2 DEF TripInv
<1>. QED BY StepGathered, StepPrinted, StepMade, SMTT(60)

LEMMA InitTrip ==
    ASSUME TypeInv, Init
    PROVE  TripInv
<1>1. /\ gone = {} /\ wpc = "add" /\ args = command /\ work = <<>> /\ headers = <<>>
      /\ size = [i \in DOMAIN source.inode |-> source.inode[i].size]
      /\ next = 1 /\ stream = <<>> /\ rpc = "read" /\ pos = 0 /\ links.names = <<>>
      /\ dirs = <<>> /\ target = EmptyTarget
  BY DEF Init, NoLinks
<1>2. Gathered
  <2>1. AllTrue(headers) /\ OneEach(headers) /\ InOrder(headers)
    BY <1>1 DEF AllTrue, OneEach, InOrder
  <2>2. Due = {}
    <3>1. command \in Seq(Seq(DOMAIN NameLen) \ {<<>>})
      BY JtarAssumption DEF TypeInv, SourceTyped
    <3>2. Len(command) - Len(args) = 0
      BY <1>1, <3>1
    <3>. QED BY <3>2 DEF Due
  <2>3. \A i \in DOMAIN source.inode : size[i] = source.inode[i].size
    BY <1>1
  <2>4. \A j \in DOMAIN work : Sensible(work[j])
    BY <1>1
  <2>. QED BY <1>1, <2>1, <2>2, <2>3, <2>4 DEF Gathered
<1>3. \A k : ~HeadAt(k)
  BY <1>1 DEF HeadAt
<1>4. Printed
  BY <1>1, <1>3 DEF Printed, FileAt, DirAt
<1>5. FilesMade
  <2>1. DOMAIN target.file = {} /\ DOMAIN target.data = 1..0
    BY <1>1 DEF EmptyTarget
  <2>. QED BY <2>1 DEF FilesMade
<1>6. NamesMade
  BY <1>1 DEF NamesMade
<1>7. DirsMade
  BY <1>1 DEF DirsMade, InOrder
<1>. QED BY <1>2, <1>4, <1>5, <1>6, <1>7 DEF TripInv

\* When both are done every name of a file nobody touched has been made.
LEMMA WholeMade ==
    ASSUME TypeInv, FrameInv, Gathered, Printed, FilesMade, NamesMade,
           wpc = "done", rpc = "done",
           NEW p \in AskedFiles, ~Touched(InoOf(p))
    PROVE  p \in DOMAIN target.file
<1>1. work = <<>> /\ args = <<>> /\ next = Len(headers) + 1 /\ pos = Len(stream)
  BY DEF Gathered, Printed, FrameInv, ReaderInFrame
<1>2. p \in DOMAIN source.node /\ TypeOf(p) = "file"
      /\ \E c \in DOMAIN command : IsPrefix(command[c], p)
  BY DEF AskedFiles, Asked
<1>3. DOMAIN command = 1..Len(command) - Len(args)
  <2>1. command \in Seq(Seq(DOMAIN NameLen) \ {<<>>})
    BY JtarAssumption DEF TypeInv, SourceTyped
  <2>2. Len(args) = 0 /\ Len(command) \in Nat /\ DOMAIN command = 1..Len(command)
    BY <1>1, <2>1
  <2>. QED BY <2>2
<1>4. p \in Due
  BY <1>2, <1>3 DEF Due, Wanted
<1>5. p \notin gone /\ ~InWork(p)
  BY <1>1, <1>2 DEF InWork, Touched, NamesOf
<1>6. p \in NamesIn(headers)
  BY <1>4, <1>5 DEF Gathered, Held
<1>7. PICK j \in DOMAIN headers : p \in Names(headers[j])
  BY <1>6 DEF NamesIn
<1>8. j \in 1..next - 1
  <2>1. DOMAIN headers = 1..Len(headers) /\ Len(headers) \in Nat
    BY DEF TypeInv, WriterTyped
  <2>. QED BY <1>1, <2>1
<1>9. PICK k, h : HeadAt(k) /\ stream[k].val = h /\ p \in Names(h)
  BY <1>7, <1>8 DEF Printed, Shown
<1>10. FileAt(k) /\ k \in 1..pos
  <2>1. ASSUME OfDir(h) PROVE FALSE
    <3>1. p = h.tar_name
      BY <1>9, <2>1 DEF Names, OfDir
    <3>. QED BY <1>2, <2>1, <3>1 DEF OfDir, AskedDirs, Asked
  <2>2. FileAt(k)
    BY <1>9, <2>1, HeadTrue
  <2>. QED BY <1>1, <1>9, <2>2 DEF HeadAt
<1>11. Taken(k) /\ links.names = <<>>
  BY <1>10 DEF NamesMade
<1>. QED BY <1>9, <1>11 DEF Taken, Awaited

\* Two names of one file that nobody touched come from one header.
LEMMA OneFile ==
    ASSUME TypeInv, Gathered, Printed, FilesMade,
           NEW p \in DOMAIN target.file, NEW q \in DOMAIN target.file,
           InoOf(p) = InoOf(q), ~Touched(InoOf(p))
    PROVE  target.file[p] = target.file[q]
<1>1. ASSUME NEW r \in DOMAIN target.file
      PROVE  \E j \in DOMAIN headers : /\ MadeOf(r, headers[j])
                                       /\ headers[j].ftype = "file"
                                       /\ Ino(headers[j]) = InoOf(r)
  <2>1. PICK k : FileAt(k) /\ MadeOf(r, stream[k].val)
    BY DEF FilesMade
  <2>2. PICK j \in DOMAIN headers : stream[k].val = headers[j]
    BY <2>1 DEF Printed, ListAt, FileAt
  <2>3. PICK h : h = headers[j] /\ MadeOf(r, h) /\ h = stream[k].val
    BY <2>1, <2>2
  <2>4. OfFile(h) /\ r \in Names(h)
    BY <2>1, <2>3, HeadTrue DEF FileAt, MadeOf
  <2>5. InoOf(r) = Ino(h) /\ h.ftype = "file"
    BY <2>4, SameIno DEF OfFile
  <2>. QED BY <2>3, <2>5
<1>2. PICK j \in DOMAIN headers :
         MadeOf(p, headers[j]) /\ headers[j].ftype = "file" /\ Ino(headers[j]) = InoOf(p)
  BY <1>1
<1>3. PICK k \in DOMAIN headers :
         MadeOf(q, headers[k]) /\ headers[k].ftype = "file" /\ Ino(headers[k]) = InoOf(q)
  BY <1>1
<1>4. j = k
  BY <1>2, <1>3 DEF Gathered, OneEach
<1>. QED BY <1>2, <1>3, <1>4 DEF MadeOf

\* When both programs end well, what `jtar c' packed and `jtar x' made of it is
\* what there was: every file nobody touched with its contents and its mode,
\* names of one file as names of one file, every directory with its mode and its
\* time; whatever others did to the rest meanwhile, and also when the archive is
\* extracted once more (add_file, print_tar, read_tar, recreate_file,
\* recreate_dir).
THEOREM RoundTripHolds == Spec => []RoundTrip
<1>1. Init => TypeInv /\ FrameInv /\ TripInv
  BY InitTyped, InitFramed, InitTrip
<1>2. TypeInv /\ FrameInv /\ TripInv /\ [Next]_vars => (TypeInv /\ FrameInv /\ TripInv)'
  BY StepTyped, StepFramed, StepTrip
<1>3. TypeInv /\ FrameInv /\ TripInv => RoundTrip
  <2>. SUFFICES ASSUME TypeInv, FrameInv, TripInv, Plain, wpc = "done", rpc = "done"
                PROVE  RoundTrip
    BY DEF RoundTrip
  <2>. DEFINE whole == {p \in AskedFiles : ~Touched(InoOf(p))}
              touched == {p \in DOMAIN source.node : TypeOf(p) = "file" /\ Touched(InoOf(p))}
  <2>1. Gathered /\ Printed /\ FilesMade /\ NamesMade /\ DirsMade
    BY DEF TripInv
  <2>2. ASSUME NEW p \in whole PROVE p \in DOMAIN target.file /\ p \notin touched
    <3>1. p \in AskedFiles /\ ~Touched(InoOf(p))
      OBVIOUS
    <3>. QED BY <2>1, <3>1, WholeMade
  <2>3. ASSUME NEW p \in DOMAIN target.file, p \notin touched PROVE p \in whole
    <3>1. p \in AskedFiles /\ TypeOf(p) = "file"
      BY <2>1, MadeAsked
    <3>2. p \in DOMAIN source.node
      BY <3>1 DEF AskedFiles, Asked
    <3>. QED BY <2>3, <3>1, <3>2
  <2>4. DOMAIN target.file \ touched = whole
    BY <2>2, <2>3
  <2>5. ASSUME NEW p \in whole PROVE target.data[target.file[p]] = Good(InoOf(p))
    BY <2>1, <2>2, <2>5 DEF FilesMade
  <2>6. ASSUME NEW p \in whole, NEW q \in whole
        PROVE  target.file[p] = target.file[q] <=> InoOf(p) = InoOf(q)
    <3>1. p \in DOMAIN target.file /\ q \in DOMAIN target.file /\ ~Touched(InoOf(p))
      BY <2>2
    <3>2. target.file[p] = target.file[q] => InoOf(p) = InoOf(q)
      BY <2>1, <3>1 DEF FilesMade
    <3>3. InoOf(p) = InoOf(q) => target.file[p] = target.file[q]
      BY <2>1, <3>1, OneFile
    <3>. QED BY <3>2, <3>3
  <2>7. ASSUME NEW d \in AskedDirs
        PROVE  /\ d \in DOMAIN target.dir
               /\ target.dir[d].mode = source.node[d].mode
               /\ target.dir[d].time = "stored" \/ InnerFirst
    <3>1. dirs = <<>> /\ (InDirs(d) \/ Restored(d))
      BY <2>1 DEF DirsMade
    <3>2. ~InDirs(d)
      BY <3>1 DEF InDirs
    <3>. QED BY <3>1, <3>2 DEF Restored
  <2>. HIDE DEF whole, touched
  <2>8. \A p \in whole :
           /\ target.data[target.file[p]] = Good(InoOf(p))
           /\ \A q \in whole : target.file[p] = target.file[q] <=> InoOf(p) = InoOf(q)
    BY <2>5, <2>6
  <2>. USE DEF whole, touched
  <2>. QED BY <2>4, <2>7, <2>8 DEF RoundTrip, Good
<1>. QED BY <1>1, <1>2, <1>3, PTL DEF Spec
=============================================================================
