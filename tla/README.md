# A verification of the COSC360 laboratory programs

This directory holds TLA+ models of the programs in this repository, the TLC
runs that check them on small instances and the proofs, checked by TLAPS, of
theorems that hold for every size. The repository is a set of independent C
programs, one per laboratory. Two of them are concurrent: the chat server
`jtalk_server` (lab8) and the shell `jsh` (lab6); a third, `jtar` (lab4), is two
processes joined by a pipe, with files that others change meanwhile. The malloc
library (lab5), `fakemake` (lab3), `famtree` (lab1) and the three programs of
lab2 are sequential.

## 1. Inventory

| Component | Source | State | Operations | Talks to |
|---|---|---|---|---|
| jtalk server | `lab8/jtalk_server.c`, `server_tasks.c/h` | the trees `current_clients`, `all_clients`; `num_connections`, `num_clients`; `threads[]`; one mutex; the descriptors; per thread its locals `fd`, `cid`, `first`, `buf` | accept, join, message, departure, broadcast, console, shutdown | clients over sockets; its own threads through the globals |
| jtalk client | `lab8/jtalk.c` | two threads, a buffer, the socket | `send_string`, `receive_string`, ending when either side ends | server |
| sockets | `lab8/socketfun.c` | listening socket | `serve_socket`, `accept_connection`, `request_connection` | kernel |
| jsh | `lab6/jsh.c`, `piper.c` | the line, `currpipe`, `in`, the descriptors | read a line, split it, run its stages, `cd`, `exit`, `&` | spawner; forks of itself |
| spawner | `lab6/spawner.c` | a child | fork, move descriptors, redirect, exec, `pidwait` | kernel, programs |
| malloc | `lab5/malloc.c`, `freelist.c` | `flist_head`, the blocks | `malloc`, `calloc`, `realloc`, `free` | kernel (`sbrk`), programs |
| jtar | `lab4` | trees of inodes, real paths, directories | create, extract | file system |
| fakemake | `lab3` | lists of sources, headers, flags, objects | parse the description, decide what to compile, link | file system, gcc |
| famtree | `lab1` (again in `lab5/lab1`) | people with links to parents and children | read, link, check, print in generation order | stdin |
| IP tools | `lab2`: `ip_parser.c`, `l2p1.c`, `l2p2.c`, `l2p3.c` | the position in the file, the list of machines, the tree of names | read a binary file in three ways, insert names, look a word up | the file, stdin |

Hard behaviours. *jtalk*: three kinds of threads share the registry under one
mutex, but an id, a descriptor and a thread slot are taken outside it or from
a variable that has moved on; broadcasts block with the mutex held; a client
can leave between any two steps; shutdown races with everything. *jsh*: pipe
ends are opened, inherited and closed by several processes, and whether a stage
ends depends on who still holds an end; forks and pipes can fail in mid-line;
`wait()` returns other children than the one waited for. *malloc*: widths and
signs of sizes kept in bytes, and a list head passed by value. *jtar*: what the
header says against what the file still holds when it is read, an inode with
several names, directories whose mode and time must outlast what is made in
them. *IP tools*: a file that breaks off anywhere, read by three programs that
notice it differently. *fakemake*: a decision table over time stamps, and a user
who changes files while it runs. *famtree*: a linked structure whose tree of
names is keyed by strings that it does not own.

What makes each correct. *jtalk*: counters, trees and flags agree; ids are
unique; each connection has its own thread; everybody gets every message once,
in one order; departures are noticed; shutdown reaches every thread; nothing
but shutdown ends the server. *jsh*: a pipeline delivers the composition of its
stages; a line ends; it leaves no process and no descriptor. *malloc*: blocks
are disjoint and large enough, `realloc` keeps the contents, freed memory is
used again. *jtar*: extracting restores what was packed, links included; no file
that changes underway makes the reader take contents for a header. *IP tools*:
all three read the same table, and answer with the machines that have a name.
*fakemake*: the description is read completely and nothing else is taken into its
lists; what is older than what it depends on is rebuilt and nothing else.
*famtree*: links are mutual and acyclic, and nobody is printed before a parent.

## 2. Modules

| Module | Models | Runs |
|---|---|---|
| `ChatRoom` | the abstract promise of jtalk: one thing said at a time, heard by all | instantiated by `JtalkServer` |
| `ChatRoomProofs` | theorems about it | TLAPS |
| `JtalkServer` | the server, with clients and sockets as environment; at its end the refinement `Room` | `jtalk_*` (through `MCJtalkServer`) |
| `JtalkServerProofs` | theorems about it: whatever the clients do, while they all stay, and when they are orderly; the refinement of `ChatRoom` | TLAPS |
| `JshParser` | how a command line is taken apart | in `jsh_lines` |
| `Jsh` | the shell, its forks, children and pipes (extends `JshParser`) | `jsh_*` (through `MCJsh`) |
| `JshProofs` | theorems about the shell | TLAPS |
| `HeapContract` | the abstract promise of malloc, calloc, realloc, free | instantiated by `JMalloc` |
| `JMalloc` | the malloc library | `malloc_*` (through `MCJMalloc`) |
| `JMallocProofs` | theorems about it | TLAPS |
| `Fakemake` | reading a description, deciding, compiling, and the user | `fakemake` (through `MCFakemake`) |
| `FakemakeProofs` | theorems about it | TLAPS |
| `Famtree` | reading people, the cycle check, printing | `famtree` (through `MCFamtree`) |
| `FamtreeProofs` | theorems about it | TLAPS |
| `Jtar` | packing, the stream, extracting, and who changes the files | `jtar` (through `MCJtar`) |
| `JtarProofs` | theorems about it | TLAPS |
| `IpTools` | the three readers of a table of machines, and the search | `ip_tools` (through `MCIpTools`) |
| `IpToolsProofs` | theorems about it | TLAPS |

### JtalkServer

A thread of `communicate_with_client` and the `Client` it creates share a name
`t`; `pc[t]` says what the thread does next:

    start -> read -> text -> newclient -> addclient -> broadcast -> send -> read
                       \---> talk ------------------/            \
              read ---------------------> quit -> broadcast        -> exited

Each action is one step between two points at which another thread can
interfere: a system call, `pthread_mutex_lock`, or a read of a shared variable
outside the lock. A critical section that does not block is one action
(`AddClient`, `Talk`, `RemoveClient`, `CreateThread`, `Shutdown`); the
broadcast's is several, because each write can block (`BeginBroadcast`,
`SendOne`, `EndBroadcast`). The code's unlocked accesses are actions of their
own: `NewClient` reads `num_clients` before `AddClient` locks, and `StartThread`
reads `acceptFd`, the accept loop's local variable, whatever it holds by then.

A message is a sender and a number; its text is left out. On the wire it is two
pieces, the size and the text, as `send_string` writes it, so a client can die
between them and two threads can steal each other's pieces. A socket holds the
broadcasts its client has not read, at most `SockBuf`; a write to a full one
blocks. A client that dies leaves `fin`, after one more write `finrst`, or
`rst` when it had unread data: reading then gives an end of file or an error,
writing an error or SIGPIPE. `status` says how the process ended, if it has.

An uninitialised `cid` (a client that leaves before its first message) is any
value of the constant `UninitCid`. A duplicate id makes `FindInt` return
either node. What the console prints, the three time fields (they all alias
`ctime`'s buffer) and names are left out. The model is of a server whose
`threads` array is long enough (`MAX_THREADS > ThreadLimit + 1`); the code does
not check that, and a hazard says so.

### ChatRoom

People come in, say things, hear them and go. Nothing is said, and nobody comes
in, until all who are present have heard the last thing (`Quiet`): that is what
holding the mutex over the whole loop of `send_message_to_clients` is for.
`said` is `history`, what a person heard is the socket's `log`, `since` is where
`history` stood when the client was put into `current_clients`. A person goes
when the client dies, the room takes note when its thread has removed it, and
the farewell is `"<name> has quit"`. `KeepsRoom` is the whole specification with
its liveness, `Room!LiveSpec`, as a property of the server's.

### Jsh

Shell 0 is the user's; `line &` forks another, which runs the line and exits.
Each shell is where `_run_sync_commands` is: `open` (first `pipe()`), `stage`,
`wait`. `Advance` is everything between the return of
`spawn_synchronous_process` and the next stage: which ends are closed, which
becomes `in`, the next `pipe()`, which may fail. Descriptor tables are explicit,
as a leak or a number used again is the point. `SpawnFails` is the failed fork,
which closes both ends and goes on. `WaitReturns` and `WaitForgets` are the loop
of `pidwait`.

Programs are of three kinds: `src` writes `Burst` units, `cat` copies its input
until the end of file, everything else writes nothing. A unit is the number of
the stage that wrote it, so that a result shows which stage's output it is.
`JshParser` works on sequences of words. `strcmp` with a null pointer is the
action `Crash`; an argument array that lost its final NULL (a redirection sign
without a file) makes the shell compare whatever lies behind it: it may crash, run
the line after all, or take it for a stray `&`.

### JMalloc and HeapContract

`get_block`, `search_for_extra_space` and `return_block` get the list's head by
value, so `flist_head` is NULL at every call, each block is the start of a new
arena, and nothing is ever given back. The model has these paths; the branches that
need an element of the free list are never reached. A block is a number, its
bookkeeping size is `book[p]`, and `CurrSize` is what `realloc` reads of it: one
signed byte. `asked` and `good` are what the program asked for and how many bytes
hold what it put there; with `room`, the bytes that belong to the block, they are
the state of `HeapContract`: a block is new, has room for what was asked
(`Provides`), and keeps its contents when it is resized. `JMalloc` instantiates it
as `Heap` and implements it (`Contract`) as long as the sizes can be read back
exactly (`ReadBack`: the size kept is below 128);
finding 4 and section 5 say what happens otherwise. `realloc(NULL, n)` and products that
wrap in `calloc` are outside the model. When `sbrk` fails the library writes through
-1 (`SbrkFails`).

### Fakemake

A file is a time in seconds and a version; an object is the time it was written and
the versions gcc read. `get_commands` is one action per system call (`StatHeader`,
`AccessObject`, `StatSource`, `StatObject`, `Decide`), each command is two (gcc
reads, gcc writes), and the user may save, remove, clean, kill or start again
between any two. A word has its last characters (`ext`), and the suffix tests are
what the code has (`Accepts`, `IsLibrary`): they join with `&&` what should be
alternatives, so that one right character is enough. `Belongs` is what the comments
above them say, and a description is `Judged` if the two agree on its words: of others
`ListsComplete` says nothing, as the code contradicts those comments (section 5). The arrays have `MAX_ARGS`
places; a write past their end ends the model in `overrun` (`Overflows`). The loop
over a line's words is `Filling`, and `ComesTo` says which words it still looks at,
since a library that is missing ends the program only if it does. An E line without
a name copies what an earlier line left in `fields[1]`: the field `left` of a line
is what that is, if a line has set it at all (`FieldSet`). So the executable may be
called like one of the user's files (`Aliased`), which the link then overwrites
(`Overwrite`). No description lists an object file as a source or names it as the
executable (`FakemakeAssumption`). gcc is external: of words in one of its
`Languages` it makes an object, named for all of the ending (`Makes`), where
`fakemake` looks for one in which only the last character is replaced (`Object`);
other words it leaves to the linker. It fails or writes its output from what it read
at its start; a failed link leaves the old executable or none. `hasty` records the
first change that whole seconds cannot tell, or that happens after fakemake began to
look. The properties promise nothing after it, and the run does not follow it
further.

### Famtree

A person is its name; `db` holds the tree of people. One action per kind of
line; `isDescendant` is a stack of calls, so that its three marks are seen as
they change; printing is one action per element of the queue, with the lookups
that the condition makes. A node that `getFather` creates is keyed by the
child's copy of the name: `key` remembers that, and a line that overwrites such
a copy ends the model in `broken`, since a search of a tree with a changed key
can return anything.

### Jtar

A path is a sequence of names, a file an inode with a size, a mode and a version of
its contents, so that a byte is the inode and the version it was read from. The
packer's recursion (`add_file`, `add_dir`) is a stack of what is left to do, one
entry of a directory, one header, one link or one byte at a time; the reader takes
what has been printed so far. In between another process may rewrite a file with
another size or remove it (`Rewrite`, `Unlink`), and an archive may be extracted
once more over its own result. The overruns of `hard_links` and of the array of
directories end a program (`overrun`), `corrupt` is a reader that takes contents for
a header. A file given by a path is added by what `strtok` has left in its position
(`Add`, `AddFile`); one case of it, a second name that is longer than the first and
a directory where jtar runs, is left out (`PathAssumption`). Times are "now" or
"stored". Ownership, the text of messages and the layout of the header are left out.

### IpTools

The bytes of a file are those of a table or any first part of them. `prog` says
which program reads: `l2p1` through a stream, whose end it sees only after a read
has failed; `l2p2` by `read`, whose result it compares with less than is
needed; `l2p3` from a buffer. One action per read: the address, the count, a
name. `ip_tree` has for each name the nodes inserted under it, in the order of
the tree; a search goes to any one of them and from there backward. A typed word
with no room in the buffer of `MAX_NAME_LENGTH` bytes is written past its end by
`scanf("%s")`; that ends the model (`InputOverrun`). The file has
the number of names in four bytes, the highest first (`CountBytes`); the programs
join the decimal numbers of the four, and the result wraps (`intcat`). The two
agree below 256. `ByteRange` and `UintRange` are how many values a byte and an
`unsigned int` have: 256 and 2^32, for which TLC, with 32 bits, takes 2^16.

## 3. Runs

| Run | Instance | Shows |
|---|---|---|
| `jtalk_race` | 2 clients, 2 threads, 2 descriptors, sockets of one message, all faults | counters, trees and flags agree (`Bookkeeping`), one order of messages (`OneOrder`), no lookup of a joined client fails (`LookupNeverFails`), and the server stays up while all clients stay (`StaysUpWhileAllStay`), under every interleaving |
| `jtalk_orderly` | 3 clients that come or go only when nothing else is under way, and are silent while one leaves, but talk concurrently otherwise; no faults; a thread and a descriptor too few; fairness | such clients are served as promised: the server implements `ChatRoom` (`KeepsRoom`), and ids, descriptors and shutdown are right; messages get through and shutdown ends |
| `jtalk_shared_fd` | 2 clients, no faults | finding: two threads serve one connection, none the other |
| `jtalk_server_dies` | the same | finding: a client that leaves before its first message ends the server |
| `jsh_lines` | 9 lines in any order, 5 descriptors, 2 processes to spare, pipes of two units | `PipelineResult`, `WholeLineLeavesNoFd`, `CrashOnlyOnMalformed`, `LineKept`, `LineEndsIfForked` |
| `jsh_blocks` | one pipeline, an output longer than a pipe | finding: the shell never returns |
| `malloc_contract` | 3 arenas, sizes 0, 20, 30 and 120, 16-bit words | the library keeps `HeapContract` where sizes can be read back exactly |
| `malloc_loses` | 4 arenas, sizes 20 and 256 | finding: `realloc` loses the contents |
| `fakemake` | 2 sources, 1 header, one change of each, 3 seconds; 10 more descriptions, three of them odd: a source listed twice, a header among the sources, an executable called like the source | what is reported is true (`ReportsTruth`), nothing is compiled without need (`CompilesOnlyStale`), the lists are complete (`ListsComplete`), an array overruns only if there are too many words (`OverrunOnlyIfTooMany`) |
| `famtree` | every input of at most 6 lines about 3 people | `LinksMutual`, `CycleCheckRight`, `FailsOnlyOnTwoParents`, `PrintsRight`, `CheckEnds` |
| `jtar` | 90 small trees, 6 argument lists, one change while packing, two directories remembered, extracted once or twice | what was packed comes back (`RoundTrip`), the reasons for a failure are the known ones (`ExtractFailsOnly`), `NeverCorrupt`, `OverrunOnlyOnRepeat`, a packer that gives up is noticed (`CutNoticed`), `BothEnd` |
| `ip_tools` | 16 tables, each cut off after every byte, 2 words typed of 4, one of them too long, 3 programs | what is read is in the table (`ReadsWhatIsThere`), and an answer is about the machines of that name (`AnswersRight`) |

Bounds. Two clients are enough for every race in jtalk: each needs two threads.
Two messages per client (a join and one more) take a thread through each of its
stages; sockets of one message fill at once. `jtalk_orderly` has one client more
than descriptors and threads so that both run out; it uses no symmetry, which
liveness would not allow. In jsh the longest line has
three stages, which is first, middle and last; five descriptors are one more
than such a line and one leak need, so both `pipe()` calls fail in some
behaviour; `CloseMax` is one less than `MaxFd`, so a child inherits a
descriptor; two processes are the fewest for which one fork of a line can fail
and the next succeed. The lines reach every
branch of `_run_sync_commands`; `LineKept` checks the splitting of each.

For malloc the four sizes are one below the minimum, two kept in neighbouring
multiples of eight, between which a block may grow in place or must move, and the largest
that is read back; `malloc_loses` has a size whose byte is zero. Words of 16 bits leave
the comparison with a negative size as it is. `fakemake` needs three seconds for
a product, a change after it and a change after that; two sources for a run that
fails half-way; arrays of two words to fill. Three people are a child with two
parents, and a child with two mothers of whom one is the other's child; six lines
are enough to give each a sex and a link, to close every cycle and to overwrite a
key. Deadlock is checked in `fakemake`.

The trees of `jtar` have one directory below another, one that may be read-only
with a read-only directory or a file in it, a file with up to three names, and
one outside; sizes 0, 1 and 2 are empty, printed at once, and cut in the middle.
Two directories fill the reader's array. One change can fall between any two
steps; a second would not meet a step that the first has not. `ip_tools` has
tables of up to three machines with a name in two of them, a name of two parts,
one that starts with a dot and one of the greatest length. Its counts are small,
for which joined decimals are the right number, as they are up to 255.

Elsewhere deadlock is not checked: the server may be shut down or idle, a user need
not type, and `exit` ends the shell, and a program that has ended does nothing. What
must not stop is stated as liveness.

Fairness. `JtalkServer!FairSpec` has weak fairness of each thread of the server
and of a client's printing thread: the kernel schedules a runnable thread, and
`from_socket` is a loop that reads whenever there is something to read. No
strong fairness: weak fairness suffices because only boundedly many threads
contend for the mutex in the checked instance. `jtalk_orderly` is checked under
it. Nobody has to connect, talk or
leave, and the console need not end. `Jsh!FairSpec` has weak fairness of the
user's shell and of the program it waits for, and of nothing else.
`Famtree!FairSpec` has weak fairness of what the sequential program does after
the end of its input. `Jtar!FairSpec` has weak fairness of each of the two
programs; nobody has to edit or to extract again. `ip_tools` has none.

## 4. Theorems

In `JtalkServerProofs`, from `ConstantsAssumption` alone unless stated:

* `TypeCorrect`: `Spec => []TypeOK`. Not inductive by itself:
  `num_connections - 1` stays a natural number only because it is the size of
  `current_clients`, and `threads[num_connections + 1]` stays inside the array
  only because there are at most `ThreadLimit` clients.
* `BookkeepingHolds`: `Spec => []Bookkeeping`. The inductive invariant `Inv` is
  `TypeOK /\ Bookkeeping /\ Stages`; `Stages` says which stages a thread of a
  joined client can be at, which is why no thread adds its client twice.
* `OneOrderHolds`: `Spec => []OneOrder`, with `SendersHoldMutex` (a thread that
  sends holds the mutex and sends the newest broadcast) and `LogsBounded`.
* `LookupNeverFailsHolds`: `Spec => []LookupNeverFails` if an uninitialised
  `cid` is not a client's id (`UninitCid \subseteq {0}`). `KeyBalance` is the
  invariant: for each key, as many nodes in `current_clients` as clients that
  have not yet removed one. It survives duplicate ids, by counting.

* `StaysUpHolds`: `Spec => []StaysUpWhileAllStay`. Clients that come and talk, and
  none of whom leaves or is turned away, cannot bring the server down: not by joins
  and messages that overlap, ids given twice, a descriptor that two threads share
  (finding 1), messages too long or not reading. Only the want of a descriptor can.
  `StayInv` is why: while all stay, each connection that has come waits in the
  backlog or has one descriptor (`Placed`), every descriptor that a thread has or
  picks up is open (`Attended`), and nobody who joined has been removed (`Members`).
  So each socket's other end is open, no read sees an end and no write fails, and no
  thread reaches the departure path, where a lookup could fail. Finding
  2 is that without the condition one departure is enough.

The second half of the module is from `ConstantsAssumption` and `Peaceful`, which
says of the environment what run `jtalk_orderly` fixes. `Orderly`: a client
connects, leaves, or the console ends only when nothing else is under way, and
nobody speaks while a connection is leaving; messages may overlap each other, but
neither joins nor departures. `Faults = {}`: no client dies with a message half sent
or unread, none sends too much, and threads can be created. That is a strong
condition, which rules out the crashes of the server rather than showing that it
avoids them; what holds without it is above. The theorems show that under it the
rest follows for any numbers. The code needs both parts: without the first, two
threads take one id or one descriptor (finding 1), and without either a client that
goes before it has an id ends the server (finding 2).

* `UniqueIdsHold`, `ShutdownReachesAllHolds`, `OneThreadPerConnHolds`,
  `NoLeakedFdHolds`: the four invariants that only hold then. They are proved
  together, by `OrderlyInv`: while the server runs, one client at a time comes or
  goes (`OneChange`, `GoingAlone`); each open descriptor is that of one connection
  and of one thread (`Descriptors`); the slots of `threads` up to `num_connections`
  hold the threads of the clients, each once (`Slots`); what is in flight from a
  client are sizes and texts in turn (`Inboxes`). After `shutdown` everything is
  closed and each thread stops at its read (`Closed`). `OrderlyInv` has `ServerSurvives`
  too; that is no theorem of its own, since what could break it is excluded.
* `ImplementsChatRoom`: `Spec => Room!Spec`, a step of the server being a step of
  `ChatRoom` or a stutter. A broadcast is said when its thread has the mutex and
  heard send by send; the simulation needs that a message in hand is the next one of
  its sender (`Spoken`), and that a client has been sent all that was said since it
  joined, but for the last thing if a thread is still sending it (`Told`).
  `ChatRoom`'s own theorems then hold of the server. Its liveness, which run
  `jtalk_orderly` checks too, is TLC's.

In `JshProofs`, from `JshAssumption`, for any set of lines, any number of
processes and pipes the table allows:

* `TypeCorrect`: `Spec => []TypeOK`.
* `WholeLineLeavesNoFdHolds`: after a line whose stages were all started, the
  shell's descriptors are those it started the line with. `Kept` is why: but for
  the descriptors held for the line, which were free before it, the shell's table
  is the table from before. `AtStage` says which are held at which point of
  the loop over the stages, and `Inherited` that a pipe which another process
  opened is `main`'s, and that `main` keeps it open. `NewPipeIsNew` then shows, by
  the pigeonhole principle, that a number is free for each new pipe as long as
  each pipe is held by somebody, and that the number is not one the line still holds.
* `CrashOnlyOnMalformedHolds`: the shell is lost only on a line with a stage without a
  command, or with a redirection that lacks its file name.
* `LineKeptHolds`: no stage holds a bar, and the stages with bars between them are
  the line. The cuts are the bars, found by rank (`RankTaken`, `CutsAre`), and
  `RejoinedIsLine` says that up to any stage what has been joined is the line up to
  the cut behind that stage.
* `PipelineResultHolds`: a line all of whose stages were started delivers what its
  stages make of each other's output. `FlowInv` is why. Before a stage begins, the
  pipe it reads holds all that the stage before has written (`Begins`); while it
  runs, what it has written and what it has still to write are together what the
  stage writes (`Goes`); when the line is over, that of the last stage is what came
  out (`Done`). A shell and its program work only on pipes that this shell opened
  (`Mine`), so a step of another shell, or of its program, changes nothing of this
  (`Apart`, `ApartKept`). No fact about which line was typed is used: the lemmas are
  one per step of the loop over the stages (`OpensFlow`, `ReturnFlow`,
  `AdvanceFlow`) and of a program (`ProduceFlow`, `CopyFlow`, `TerminateFlow`).

In `JtarProofs`, from `JtarAssumption`, for any trees, arguments and editors:

* `TypeCorrect`: `Spec => []TypeOK`. Not inductive by itself: the type of what
  the reader takes for a name or a header depends on what the packer printed. It says
  nothing of the reader's array of directories, which the code fills without a bound:
  a write past it ends in `overrun`, and `ExtractFailsOnly` says when that may be.
* `NeverCorruptHolds`: the reader never takes contents for a header, whatever
  the files do while they are packed. `FrameInv` is why: what follows a header in
  the stream is as many names and bytes as it says, or the packer is still printing
  them (`Framed`), and the reader, between two headers, is where a header is or will
  be (`ReaderInFrame`). Only two actions, `PrintHeader` and `PrintData`, touch it.
* `CutNoticedHolds`: when the packer gave up in the middle of printing, the reader
  does not end well, for it only does so at a boundary.
* `OverrunOnlyOnRepeatHolds`: unless one argument is at or below another, `add_file`
  never finds more links for a header than the header has places. The places were
  counted by `lstat` when the header was made, and names come and go meanwhile; that
  there is always room rests on two things (`OnceInv`). What the arguments and the
  pieces of work have yet to add, and the names already packed, are disjoint
  (`Apart`), so a name is found once; each step replaces a piece of work by pieces
  it covers (`WorkApart`), or an argument by one (`ArgApart`). And the names in a
  header are as many as are counted there, all of one file, and all still there
  while the file has as many names as the header says (`Tallied`): a name that is
  one more of an equal count therefore leaves room (`RoomForOneMore`), and one that
  vanishes makes the counts differ (`UnlinkOnce`). TLC checked `OnceInv` first, on
  the instance of the run.
* `RoundTripHolds`: what is extracted is what was packed, whatever others do to other
  files meanwhile. `TripInv` is the invariant, in five parts. `Gathered`: what the
  arguments so far ask for is removed, in the list of headers, or in the work (`Due`); a
  header is true (`AllTrue`), a file nobody touched has one (`OneEach`), and directories
  stand before those in them (`InOrder`), unless an inner one was asked for first.
  `Printed`: the stream holds the headers of the list, each file's with its names and
  bytes behind it. `FilesMade`: a name in the target comes from such a header, equal
  data means equal inode, and the data of a file nobody touched is what it was.
  `NamesMade`: the names of the headers read so far are there or awaited, which rests on
  there being no header inside a file (`NoHeadInside`). `DirsMade`: a directory read so
  far is in the array, or restored and not to be disturbed: mkdir of another one sets
  its time only if that one is below it (`GrownKeeps`), and then it is still in the
  array. No induction over trees is needed: `EntryAbove` says that what is below
  a directory is at or below an entry of it, and so the work covers what it replaces.

Two attempts failed here for a reason in the model and changed it: two arms of
`Add`'s case overlapped for an argument that names a file by a path, and
`OverrunOnlyOnRepeat` is not true of such arguments, which it now leaves out.

In `JMallocProofs`, from `MallocAssumption`:

* `TypeCorrect`: `Spec => []TypeOK`, on the lemma `FullSize` about the rounding.
* `ContractKept`: if every size can be read back exactly, `Spec => Contract`, for every
  set of sizes and number of arenas: initial states map to initial states and
  each step to a step of `HeapContract` or a stutter. The inductive invariant
  `IInv` adds `BookOK` to `TypeOK`: the kept size is below 128 or has its sign bit
  set, in the first case it holds what was asked for, and what is good is no
  more than that. Without it a step of `ReallocMoves` need not copy all.

In `ChatRoomProofs`, with no assumption, for any set of people:

* `HeardByAll`: `Spec => [](TypeOK /\ HeardSuffix /\ OneAtATime)`. The
  strengthening is `NothingOutside`: who has not come in has heard nothing, so that
  coming in may set `since`.
* `OrderKept`: `Spec => []SaidInOrder`, by `NumbersBounded`: no number exceeds the
  count of what its sender has said, so the next one is new. It rests on the
  lemma `SaidByGrows` about cardinalities.

In `FamtreeProofs`, from `FamtreeAssumption`, for every set of names and every
number of lines:

* `TypeCorrect` and `LinksMutualHolds`: `Family(db)` is the invariant. It adds to
  `LinksMutual` that who has children is in the tree and has a sex
  (`ParentsKnown`): a SEX line may come after the children, and would otherwise
  give a parent's list a sex without giving the child a parent. One lemma per kind
  of line, on `LinkKeepsFamily`; `LookupChangesNothing` says that the lookups
  made while printing are only that.
* `CycleCheckRightHolds`: both directions of the cycle check. `Search` is the
  invariant of the depth-first search: the people marked 2 are those on the stack,
  once each, each a child of the one below; the children of each are still left,
  or done, or the next on the stack; those of a person marked 1 are marked 1, and
  no set of people marked 1 is a cycle. A call that meets a mark 2 then has its
  cycle in the stack (`CallFindsCycle`), and a person whose children are all
  done closes none (`CallReturns`). No induction over paths is needed.
* `ParentsFirstHolds`: nobody is printed before a parent, since the links do not
  change any more while people are printed.
* `FailsOnlyOnTwoParentsHolds`: the program crashes, or loses its tree, only before
  the first PERSON line or when a child has two parents of one sex. `FailInv` says
  why: a node that uses a string of a child's is the parent whose name that is
  (`KeysNameParents`), so that overwriting the string leaves two parents; and who
  waits to be printed is nobody's child or that of somebody printed
  (`ChildrenWait`), so that a mother who is not printed is a second one.
* `PrintsRightHolds` adds that once the queue is empty everybody has been printed,
  and nobody twice. `WaitInv` is why: who could be printed next is printed or in the
  queue, since whoever becomes ready is a child of the one just printed
  (`PrintedMakesReady`). When the queue is empty, each of those left over then has a
  parent who is left over too. A smallest non-empty set with that property has
  nobody without a child in it (`ParentsMakeCycle`), so it would be a cycle, and the
  check has found none. That printing ends is `CheckEnds`, TLC's.

In `FakemakeProofs`, from `FakemakeAssumption`, for any descriptions, files and
libraries, and whatever the user does:

* `TypeCorrect`, `ListsCompleteHolds` and `OverrunHolds`: `Lists` is the invariant;
  while line `i` is read, each list holds what fits of the words of the lines before
  it that its test lets in. `LineFits` is the lemma: the loop over one line, which
  stops at a full array, leaves what fits of the old words and the line's. Where the
  tests judge the words of a description as the comments say, these are the words
  that belong there (`ListsAreComplete`). The code does write past an array;
  `OverflowIsTooMany` says that there are then more words than places on all lines
  of that kind. `TypeCorrect` speaks of the arrays of a run that has not. `Stages`
  says how far the notes of `get_commands` have come.
* `ReportsTruthHolds` and `CompilesOnlyStaleHolds`, if no description has two
  sources with one object (`OneObjectEach`; `MCFakemake` assumes it of its
  descriptions, so TLC evaluates it): with `a.c` and `a.h` both listed as sources
  `a.o` is one of them at most. An executable called like one of the user's files is
  left out. `Honest` is the invariant, up to the first hasty change. What is in a
  product is *traced* (`Traced`): its version of a file is the one there is, or the
  file is newer or gone. That survives a save, a removal, a `rm *.o`, a kill and the
  next run (`TracedStep`). While `get_commands` looks, its notes are the files'
  times and its verdicts right (`Looked`); while `main` works, an object that has no
  command left holds what the files hold, and one that has needs it (`Commanded`).

In `IpToolsProofs`, from `IpToolsAssumption`, for every set of tables and words,
every length of a name and width of a byte, and wherever the file is cut:

* `TypeCorrect`: `Spec => []TypeOK`. It needs `Inserting`: while names are
  inserted there is a record they belong to, so that a node has one.
* `ReadsWhatIsThereHolds`: all three ways of reading, for tables of proper names
  (`Plain`). A file is a fold over the table, and so is a record with its local
  names: `JoinedAt` says where the parts of sequences put one behind the other
  are, `RecordAt` and `NameAt` where a record and a name are in a file. `ReadSoFar`
  is the invariant: the records taken are the first `r` of the table, and the
  program stands before the next one (`Between`), inside it with as many names
  taken as it has counted down (`Inside`), or is l2p1 behind its end (`Over`).
  `ReadsTheName` and `HeaderWhole` say what a read gives at such a place,
  `HeaderCut` that l2p1 takes nothing from a file that breaks off there;
  `NothingEnds` that a whole file gives no program a reason to stop.
* `AnswersRightHolds`, for tables of proper names read whole, until a typed word has no
  room in its buffer: `InTree` counts. A record is under a name as often as it
  has the name, the last one, while its names are inserted, as often as among
  those inserted (`Entered`); `CountInserted` says that a node more is one more,
  wherever in the tree it comes. What a search prints is a part of that
  (`CountFirst`), and is empty only if the whole is (`OneAnswer`).

TLC checked `ReadSoFar`, `InTree` and what the answers add to them on the instance
of `ip_tools` first. A proof of `ReadsAll` did not go through for the number of
names at first: the model had it in the file the way it is read. That is how
the error in `intcat` (section 5) was met.

`Rejoined`, `Units`, `Filling`, `Among`, `WordsUpTo` and `FlattenSeq` are recursive
functions. That they exist, and what they yield, is proved from two lemmas:
`Counting`, induction up to a number over a set, and `StepByStep`, that what is
defined step by step exists.

Only model-checked:

* liveness, `ChatRoom`'s included, and what is about fairness or ENABLED: out of
  the prover's reach;
* `ExtractFailsOnly` in `Jtar`: beyond `TripInv` it needs that no header of the stream comes
  twice, that the links of a header are all its names, and a count of the
  directories in the list, argument by argument.

## 5. Findings

Each of these has a run that shows it:

1. `server_tasks.c:361` passes the address of a local variable: two threads can
   read the same descriptor and one connection is never served.
2. `server_tasks.c:317` dereferences a failed lookup of an uninitialised id: a
   client that connects and leaves ends the server.
3. `piper.c:249`: stages run one after the other, so `cat bigfile | wc` never
   ends when the file is longer than a pipe.
4. `malloc.c:45` reads one signed byte of the size: `realloc` of a block of 256
   bytes copies nothing.

These were met in the models too, and are excluded by name where a property
would meet them:

* `server_tasks.c:104` takes the id before the lock: clients that join at the
  same time get one id (`UniqueIds` is checked with orderly joins).
* `malloc.c:46`: of a block of 121 bytes, kept as 128, the signed byte is read as nearly
  2^32, so `realloc` to 1000 bytes returns it as it is (`ReadBack` excludes such sizes;
  with 121 and 1000 as `Requests` TLC finds `Contract` violated).
* `compile.c:49` (and 112, 209) skips a word only if each character of its ending is
  wrong: `misc`, `b.cc` and `h.h` become sources, against the comment at line 48 (`Judged`
  in `ListsComplete`).
* `compile.c:90`: an E line without a name takes what an earlier line left there, so
  that the executable can overwrite a source (`Aliased` in `ReportsTruth`).
* `l2p1.c:53`: `scanf("%s")` writes a word of 1024 bytes or more past its buffer (`Fits` in
  `AnswersRight`).
* `tar_manager.c:295`: an archive with an empty file cannot be extracted
  (`ExtractFailsOnly`).
* `tar_manager.c:330`: directories are finished last to first, so that an inner one
  asked for before one it is in (`jtar c d/s d`) is finished before its own empty
  subdirectories are made: its time is lost, and if it may not be written
  extraction fails (`InnerFirst` in `RoundTrip`, `Repeated` in `ExtractFailsOnly`;
  it was met on the way to `RoundTripHolds`).
* `tar_manager.c:50`: the recursive call inside a loop over `strtok` destroys its
  position, so a file given by a path is looked up by its last component alone,
  and `jtar` gives up (`Plain` in `Jtar` leaves such arguments out).
* `ip_parser.c:9`: `intcat` joins the decimal digits of the bytes of a count, so
  that a machine with 256 names, whose bytes are 0, 0, 1, 0, is read as one with
  10 and the file from there on as something else (`Plain` in `IpTools` asks for
  fewer names).
* `ip_parser.c:163`: `l2p2` does not notice that `read` returned 0
  (`NothingInvented` leaves it out).
* `l2p1.c:78` (and the same loop in `l2p2.c`, `l2p3.c`): the search goes only
  backward from the node it finds, so it may print some of the machines of a
  name and not the rest (`AnswersRight` asks for one).

The hazards in `PROJECT.json` list more that the models contain but no run
singles out, such as the fork that fails in mid-line (`Jsh!SpawnFails`: the next
stage's `in` gets the number of the next pipe and the shell waits for a reader
whose writer it is itself), which is why `LineEndsIfForked` has its condition.

## 6. Plan

Done, in this order: `JtalkServer` and its proofs, `Jsh`, `JMalloc` and its
proofs, `Famtree`, `Fakemake`; then `Jtar`, `ChatRoom` with the refinement and
its proofs, `IpTools`, `FamtreeProofs`; then orderly clients with the proof
of the refinement, `JtarProofs`, `JshProofs`, `FakemakeProofs`, and `IpToolsProofs`. Next:

1. `JtalkClient`: the two threads of the client and how it ends.

Not planned: `heap_print.c` and `malloc_test` (they print addresses), the
scripts and build files, libfdr's red-black trees (external), the strings of
`ctime`, the choice of another description file in `fakemake`, `serve_socket`'s
setup. `submissions` holds copies of some programs; where they are the same code
the component names both.
