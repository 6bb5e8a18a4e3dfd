-------------------------------- MODULE Jsh --------------------------------
(***************************************************************************)
(* The shell jsh of lab6: main's loop (jsh.c), _run_sync_commands and      *)
(* _run_async_commands (piper.c), spawn_synchronous_process and pidwait    *)
(* (spawner.c), and, as their environment, the kernel's pipes and the      *)
(* programs the shell runs.                                                *)
(*                                                                         *)
(* Shell 0 is the one the user types to; the others are its forks, one per *)
(* asynchronous line. A shell has at most one child command, kid[s],       *)
(* because spawn_synchronous_process waits for it.                         *)
(***************************************************************************)
EXTENDS JshParser

CONSTANTS
    Lines,         \* the command lines a user may type
    MaxFd,         \* the last descriptor a process may have
    CloseMax,      \* the last descriptor a child closes before it executes
    ProcLimit,     \* processes the user may have besides the shell itself
    PipeCap,       \* units of output a pipe holds
    Burst,         \* units a producing program writes
    FileLen        \* units in an input file

ASSUME JshAssumption ==
    /\ Lines \subseteq Seq(STRING)
    /\ MaxFd \in Nat /\ CloseMax \in Nat /\ ProcLimit \in Nat
    /\ PipeCap \in Nat \ {0} /\ Burst \in Nat /\ FileLen \in Nat

Main == 0
Shell == 0..ProcLimit
Fd == 3..MaxFd
Pipe == Shell \X (1..Cardinality(Fd))   \* <<who opened it, number>>
NoPipe == <<0, 0>>                       \* the terminal, or a file

NoEnd == [pipe |-> NoPipe, end |-> "none"]
ReadEnd(q) == [pipe |-> q, end |-> "read"]
WriteEnd(q) == [pipe |-> q, end |-> "write"]

VARIABLES
    pc,         \* per shell: where it is
    piper,      \* the line it runs
    i,          \* the stage it is at
    in,         \* the descriptor in
    currpipe,   \* the two descriptors of the newest pipe
    fds,        \* its descriptor table
    kid,        \* its child command
    pipe,       \* what each pipe holds: the numbers of the stages that wrote it
    out,        \* ghost: what the line has delivered so far
    whole,      \* ghost: how its last line ended: "no" (it runs), "yes" (every
                \* stage was started and waited for) or "cut" (short)
    before      \* ghost: its descriptor table when the line began

line == <<piper, i, in, currpipe>>
ghosts == <<out, whole, before>>
vars == <<pc, line, fds, kid, pipe, ghosts>>

NoLine == [async |-> FALSE, command_list |-> <<>>]
NoKid == [state |-> "none", stage |-> 0, left |-> 0, copies |-> FALSE,
          src |-> NoPipe, dst |-> NoPipe, held |-> {}]
NoFds == [d \in Fd |-> NoEnd]

Init ==
    /\ pc = [s \in Shell |-> IF s = Main THEN "prompt" ELSE "none"]
    /\ piper = [s \in Shell |-> NoLine]
    /\ i = [s \in Shell |-> 0]
    /\ in = [s \in Shell |-> 0]
    /\ currpipe = [s \in Shell |-> <<0, 0>>]
    /\ fds = [s \in Shell |-> NoFds]
    /\ kid = [s \in Shell |-> NoKid]
    /\ pipe = [q \in Pipe |-> <<>>]
    /\ out = [s \in Shell |-> <<>>]
    /\ whole = [s \in Shell |-> "cut"]
    /\ before = [s \in Shell |-> NoFds]

(***************************************************************************)
(* Pipes and processes: the kernel.                                        *)
(***************************************************************************)

Processes == {s \in Shell \ {Main} : pc[s] # "none"}
Kids == {s \in Shell : kid[s].state # "none"}
CanFork == Cardinality(Processes) + Cardinality(Kids) < ProcLimit

Close(table, ds) == [d \in Fd |-> IF d \in ds THEN NoEnd ELSE table[d]]

\* pipe(): a new pipe on the two lowest free descriptors of a table.
FreeFds(table) == {d \in Fd : table[d] = NoEnd}
CanPipe(table) == Cardinality(FreeFds(table)) >= 2
Ends == UNION {{fds[s][d] : d \in Fd} : s \in Shell}
NewPipe(s) ==
    LET used == {e.pipe : e \in Ends}
    IN  <<s, Min({n \in 1..Cardinality(Fd) : <<s, n>> \notin used})>>
PipeFds(table) ==
    LET r == Min(FreeFds(table)) IN <<r, Min(FreeFds(table) \ {r})>>
WithPipe(table, q) ==
    [table EXCEPT ![PipeFds(table)[1]] = ReadEnd(q),
                  ![PipeFds(table)[2]] = WriteEnd(q)]

\* Somebody can still write to pipe q.
HasWriter(q) ==
    \/ WriteEnd(q) \in Ends
    \/ \E s \in Shell : /\ kid[s].state = "runs"
                        /\ kid[s].dst = q \/ WriteEnd(q) \in kid[s].held

(***************************************************************************)
(* Reading a line, and being done with it.                                 *)
(***************************************************************************)

Pipers == {create_piper(words) : words \in Lines}

\* A synchronous line is run by the shell itself.
ReadLine ==
    /\ pc[Main] = "prompt"
    /\ \E p \in Pipers :
          /\ ~p.async
          /\ piper' = [piper EXCEPT ![Main] = p]
    /\ pc' = [pc EXCEPT ![Main] = "open"]
    /\ whole' = [whole EXCEPT ![Main] = "no"]
    /\ UNCHANGED <<i, in, currpipe, fds, kid, pipe, out, before>>

\* _run_async_commands: a fork with a copy of the descriptors runs the line; the
\* shell does not wait.
ReadAsyncLine ==
    /\ pc[Main] = "prompt" /\ CanFork
    /\ \E p \in Pipers, s \in Shell \ {Main} :
          /\ p.async
          /\ s = Min({j \in Shell \ {Main} : pc[j] = "none"})
          /\ piper' = [piper EXCEPT ![s] = p]
          /\ pc' = [pc EXCEPT ![s] = "open"]
          /\ fds' = [fds EXCEPT ![s] = fds[Main]]
          /\ whole' = [whole EXCEPT ![s] = "no"]
    /\ UNCHANGED <<i, in, currpipe, kid, pipe, out, before>>

\* free_piper, and the ghosts with it.
Forget(s) ==
    /\ piper' = [piper EXCEPT ![s] = NoLine]
    /\ out' = [out EXCEPT ![s] = <<>>]
    /\ before' = [before EXCEPT ![s] = NoFds]

\* Variant: the fork does not exit when its line is done.
ReturnToPrompt(s, table, how, exits) ==
    /\ pc' = [pc EXCEPT ![s] = IF exits THEN "exited" ELSE "prompt"]
    /\ fds' = [fds EXCEPT ![s] = table]
    /\ whole' = [whole EXCEPT ![s] = how]
    /\ UNCHANGED <<piper, i, in, currpipe, out, before>>

\* A shell returns from _run_sync_commands with what is left of its descriptors:
\* the user's shell prompts again or exits, a fork of it exits.
Return(s, table, how, exits) ==
    /\ pc' = [pc EXCEPT ![s] = IF s # Main THEN "zombie"
                               ELSE IF exits THEN "exited" ELSE "prompt"]
    /\ fds' = [fds EXCEPT ![s] = IF s # Main \/ exits THEN NoFds ELSE table]
    /\ whole' = [whole EXCEPT ![s] = how]
    /\ i' = [i EXCEPT ![s] = 0]
    /\ in' = [in EXCEPT ![s] = 0]
    /\ currpipe' = [currpipe EXCEPT ![s] = <<0, 0>>]
    /\ IF how = "yes" THEN UNCHANGED <<piper, out, before>>
       ELSE Forget(s)

EndOfInput ==
    /\ pc[Main] = "prompt"
    /\ pc' = [pc EXCEPT ![Main] = "exited"]
    /\ fds' = [fds EXCEPT ![Main] = NoFds]
    /\ UNCHANGED <<line, kid, pipe, ghosts>>

(***************************************************************************)
(* _run_sync_commands.                                                     *)
(***************************************************************************)

OpenPipe(s) ==
    /\ pc[s] = "open" /\ CanPipe(fds[s])
    /\ fds' = [fds EXCEPT ![s] = WithPipe(@, NewPipe(s))]
    /\ pipe' = [pipe EXCEPT ![NewPipe(s)] = <<>>]
    /\ currpipe' = [currpipe EXCEPT ![s] = PipeFds(fds[s])]
    /\ in' = [in EXCEPT ![s] = 0]
    /\ i' = [i EXCEPT ![s] = 1]
    /\ pc' = [pc EXCEPT ![s] = "stage"]
    /\ out' = [out EXCEPT ![s] = <<>>]
    /\ before' = [before EXCEPT ![s] = fds[s]]
    /\ UNCHANGED <<piper, kid, whole>>

OpenPipeFails(s) ==
    /\ pc[s] = "open" /\ ~CanPipe(fds[s])
    /\ Return(s, fds[s], "cut", FALSE)
    /\ UNCHANGED <<kid, pipe>>

First(s) == i[s] = 1
Final(s) == i[s] = Len(piper[s].command_list)

\* cd, exit and a stray & return at once; the descriptors stay as they are.
BuiltIn(s) ==
    /\ pc[s] = "stage"
    /\ \E verdict \in Verdict(piper[s], i[s]) \cap {"cd", "exit", "syntax"} :
          Return(s, fds[s], "cut", verdict = "exit")
    /\ UNCHANGED <<kid, pipe>>

\* A stage without a program: strcmp is called with a null pointer.
Crash(s) ==
    /\ pc[s] = "stage" /\ "segv" \in Verdict(piper[s], i[s])
    /\ pc' = [pc EXCEPT ![s] = IF s = Main THEN "segv" ELSE "zombie"]
    /\ fds' = [fds EXCEPT ![s] = NoFds]
    /\ whole' = [whole EXCEPT ![s] = "cut"]
    /\ UNCHANGED <<line, kid, pipe, out, before>>

\* What spawn_synchronous_process is given as infd; outfd is currpipe[1].
InFd(s) == IF First(s) THEN currpipe[s][1] ELSE in[s]
OutFd(s) == currpipe[s][2]

\* The units a program writes of its own accord: none when its input cannot be
\* opened or it cannot be executed.
Own(com) ==
    CASE com.inpipe \in {NoFile, "file"} /\ com.argv # <<>> /\ com.argv[1] = "src" -> Burst
      [] com.inpipe = "file" /\ com.argv # <<>> /\ com.argv[1] = "cat" -> FileLen
      [] OTHER -> 0

\* Which program copies its input.
Copies(com) == com.argv # <<>> /\ com.argv[1] = "cat"

\* The child, once it has moved its descriptors and closed the others.
Child(s) ==
    LET com == Command(piper[s], i[s])
    IN  [state |-> "runs", stage |-> i[s], left |-> Own(com), copies |-> Copies(com),
         src |-> IF First(s) THEN NoPipe ELSE fds[s][InFd(s)].pipe,
         dst |-> IF Final(s) THEN NoPipe ELSE fds[s][OutFd(s)].pipe,
         held |-> {fds[s][d] : d \in {e \in Fd : e > CloseMax} \ {InFd(s), OutFd(s)}}]

Spawn(s) ==
    /\ pc[s] = "stage" /\ "run" \in Verdict(piper[s], i[s]) /\ CanFork
    /\ kid' = [kid EXCEPT ![s] = Child(s)]
    /\ pc' = [pc EXCEPT ![s] = "wait"]
    /\ UNCHANGED <<line, fds, pipe, ghosts>>

\* After spawn_synchronous_process, with the descriptors it leaves: the last stage
\* closes everything; any other makes the read end of its pipe the next stage's
\* in, closes what it has no use for and opens a new pipe.
UnusedAfterKeepsIn(s) == {currpipe[s][2]}                          \* variant
UnusedAfterKeepsWrite(s) == IF First(s) THEN {} ELSE {in[s]}       \* variant
UnusedAfter(s) == {currpipe[s][2]} \cup (IF First(s) THEN {} ELSE {in[s]})

Advance(s, table, how) ==
    LET rest == Close(table, UnusedAfter(s))
    IN  \/ /\ Final(s)
           /\ Return(s, Close(table, {InFd(s), currpipe[s][1], currpipe[s][2]}),
                     IF how = "no" THEN "yes" ELSE "cut", FALSE)
           /\ UNCHANGED pipe
        \/ /\ ~Final(s) /\ ~CanPipe(rest)
           /\ Return(s, rest, "cut", FALSE)
           /\ UNCHANGED pipe
        \/ /\ ~Final(s) /\ CanPipe(rest)
           /\ fds' = [fds EXCEPT ![s] = WithPipe(rest, NewPipe(s))]
           /\ pipe' = [pipe EXCEPT ![NewPipe(s)] = <<>>]
           /\ currpipe' = [currpipe EXCEPT ![s] = PipeFds(rest)]
           /\ in' = [in EXCEPT ![s] = currpipe[s][1]]
           /\ i' = [i EXCEPT ![s] = @ + 1]
           /\ pc' = [pc EXCEPT ![s] = "stage"]
           /\ whole' = [whole EXCEPT ![s] = how]
           /\ UNCHANGED <<piper, out, before>>

\* spawn_synchronous_process closes both descriptors when it cannot fork, and
\* its caller goes on as if the stage had run.
SpawnFails(s) ==
    /\ pc[s] = "stage" /\ "run" \in Verdict(piper[s], i[s]) /\ ~CanFork
    /\ Advance(s, Close(fds[s], {InFd(s), OutFd(s)}), "short")
    /\ UNCHANGED kid

\* pidwait: wait() returns some child that has ended. The one waited for ends the
\* wait; any other is forgotten, and the wait goes on.
WaitReturns(s) ==
    /\ pc[s] = "wait" /\ kid[s].state = "zombie"
    /\ Advance(s, fds[s], whole[s])
    /\ kid' = [kid EXCEPT ![s] = NoKid]

WaitForAny(s) ==  \* variant: any child ends the wait
    /\ pc[Main] = "wait" /\ s # Main /\ pc[s] = "zombie"
    /\ Advance(Main, fds[Main], whole[Main])
    /\ UNCHANGED kid

WaitForgets(s) ==
    /\ pc[Main] = "wait" /\ s # Main /\ pc[s] = "zombie"
    /\ pc' = [pc EXCEPT ![s] = "none"]
    /\ whole' = [whole EXCEPT ![s] = "cut"]
    /\ Forget(s)
    /\ UNCHANGED <<i, in, currpipe, fds, kid, pipe>>

(***************************************************************************)
(* The programs.                                                           *)
(***************************************************************************)

\* A write blocks while the pipe is full.
Write(s, unit) ==
    IF kid[s].dst \in Pipe
    THEN /\ Len(pipe[kid[s].dst]) < PipeCap
         /\ pipe' = [pipe EXCEPT ![kid[s].dst] = Append(@, unit)]
         /\ UNCHANGED out
    ELSE /\ out' = [out EXCEPT ![s] = Append(@, unit)]
         /\ UNCHANGED pipe

Produce(s) ==
    /\ kid[s].state = "runs" /\ kid[s].left > 0
    /\ Write(s, kid[s].stage)
    /\ kid' = [kid EXCEPT ![s].left = @ - 1]
    /\ UNCHANGED <<pc, line, fds, whole, before>>

\* The pipes once a unit has been read from q and, if d is one, written to d.
Moved(q, d) ==
    [p \in Pipe |-> LET rest == IF p = q THEN Tail(pipe[p]) ELSE pipe[p]
                    IN  IF p = d THEN Append(rest, Head(pipe[q])) ELSE rest]

Copy(s) ==
    LET q == kid[s].src
        d == kid[s].dst
    IN  /\ kid[s].state = "runs" /\ kid[s].copies
        /\ q \in Pipe /\ pipe[q] # <<>>
        /\ d \in Pipe => Len(pipe[d]) < PipeCap
        /\ pipe' = Moved(q, d)
        /\ out' = IF d \in Pipe THEN out
                  ELSE [out EXCEPT ![s] = Append(@, Head(pipe[q]))]
        /\ UNCHANGED <<pc, line, fds, kid, whole, before>>

\* A program that copies ends when its input does.
AtEof(s) ==
    kid[s].src \in Pipe => pipe[kid[s].src] = <<>> /\ ~HasWriter(kid[s].src)

Terminate(s) ==
    /\ kid[s].state = "runs" /\ kid[s].left = 0
    /\ kid[s].copies => AtEof(s)
    /\ kid' = [kid EXCEPT ![s].state = "zombie"]
    /\ UNCHANGED <<pc, line, fds, pipe, ghosts>>

(***************************************************************************)
(* The specification.                                                      *)
(***************************************************************************)

ShellStep(s) ==
    \/ OpenPipe(s) \/ OpenPipeFails(s)
    \/ BuiltIn(s) \/ Crash(s) \/ Spawn(s) \/ SpawnFails(s)
    \/ WaitReturns(s) \/ WaitForgets(s)

KidStep(s) == Produce(s) \/ Copy(s) \/ Terminate(s)

User == ReadLine \/ ReadAsyncLine \/ EndOfInput

Next == User \/ \E s \in Shell : ShellStep(s) \/ KidStep(s)

Spec == Init /\ [][Next]_vars

\* The kernel schedules the shell and the program it waits for; neither the user
\* nor the other processes have to do anything.
FairSpec ==
    /\ Spec
    /\ WF_vars(ShellStep(Main)) /\ WF_vars(KidStep(Main))

(***************************************************************************)
(* Properties.                                                             *)
(***************************************************************************)

EndType == [pipe : Pipe \cup {NoPipe}, end : {"none", "read", "write"}]

\* Every variable has its type; only the user's shell prompts, only a fork becomes
\* a zombie.
TypeOK ==
    /\ pc[Main] \in {"prompt", "open", "stage", "wait", "exited", "segv"}
    /\ \A s \in Shell \ {Main} : pc[s] \in {"none", "open", "stage", "wait", "zombie"}
    /\ i \in [Shell -> Nat]
    /\ in \in [Shell -> Fd \cup {0}]
    /\ currpipe \in [Shell -> (Fd \cup {0}) \X (Fd \cup {0})]
    /\ fds \in [Shell -> [Fd -> EndType]]
    /\ \A s \in Shell : kid[s].state \in {"none", "runs", "zombie"}
    /\ \A q \in Pipe : Len(pipe[q]) <= PipeCap
    /\ whole \in [Shell -> {"no", "short", "yes", "cut"}]

\* What stage k writes, given what the stage before it wrote: a producer writes for
\* itself, a copier passes on what it reads.
Writes(com, k, read) ==
    IF Own(com) > 0 THEN [j \in 1..Own(com) |-> k]
    ELSE IF Copies(com) /\ com.inpipe = NoFile THEN read
    ELSE <<>>

\* What each stage of a line writes; nothing comes before the first.
Units(p) ==
    LET units[k \in 0..Len(p.command_list)] ==
            IF k = 0 THEN <<>> ELSE Writes(Command(p, k), k, units[k-1])
    IN  units
Delivered(p) == Units(p)[Len(p.command_list)]

\* No stage of a line holds the sign that parts the stages.
StagesHaveNoBar ==
    \A s \in Shell : \A k \in DOMAIN piper[s].command_list :
        "|" \notin ToSet(piper[s].command_list[k])

\* What a shell runs is a line the user typed: create_piper's index arithmetic
\* loses no word and invents none, whatever its | and & signs.
LineKept ==
    /\ \A s \in Shell : piper[s] # NoLine => LineOf(piper[s]) \in Lines
    /\ StagesHaveNoBar

\* When every stage of a line was started, what came out at its end is what the
\* stages make of each other's output, whatever else runs: each stage reads the
\* pipe of the stage before it and writes to its own.
PipelineResult ==
    \A s \in Shell : whole[s] = "yes" => out[s] = Delivered(piper[s])

\* A line that ran to its end leaves the shell the descriptors it had before: only
\* a line that returns early (cd, a stray &, no pipe) leaves some open.
WholeLineLeavesNoFd ==
    pc[Main] = "prompt" /\ whole[Main] = "yes" => fds[Main] = before[Main]

\* The shell is only brought down by a line with an empty stage or a redirection
\* without a file name.
CrashOnlyOnMalformed == pc[Main] = "segv" => ~WellFormed(piper[Main])

Busy(s) == pc[s] \in {"open", "stage", "wait"}

\* The shell returns to the user.
LineEnds == Busy(Main) ~> ~Busy(Main)

\* It does if every fork of the line succeeds.
LineEndsIfForked == Busy(Main) ~> ~Busy(Main) \/ whole[Main] = "short"

=============================================================================
