---------------------------- MODULE JtalkServer ----------------------------
(***************************************************************************)
(* The jtalk chat server of lab8: main() and its console (jtalk_server.c), *)
(* the accepting thread and one thread per connection (server_tasks.c),    *)
(* and, as the environment, the sockets and the jtalk clients (jtalk.c).   *)
(*                                                                         *)
(* A thread t of communicate_with_client is also the name of the Client    *)
(* struct it creates: connection_id[t], fd[t], username[t] and stat[t] are *)
(* that struct's fields, current_clients and all_clients the two trees.    *)
(***************************************************************************)
EXTENDS Naturals, Sequences, FiniteSets

CONSTANTS
    Conn,          \* the TCP connections clients may ever make
    NoConn,        \* not a connection: a closed file descriptor
    ThreadLimit,   \* threads the process can create (none is ever joined)
    MAX_THREADS,   \* length of the threads array, which the model does not fill
    MaxFd,         \* file descriptors left for client sockets
    MaxMsgs,       \* bound: messages a client sends, the join included
    SockBuf,       \* bound: messages a socket holds unread by its client
    Backlog,       \* completed connections listen() keeps for accept()
    UninitCid,     \* values the uninitialised local cid may hold
    Faults,        \* what may go wrong outside: see below
    Orderly        \* a client comes, goes or the console ends only when nothing
                   \* else is under way, and nobody speaks while one is leaving

FaultKind == {"big",      \* a client sends a text longer than 1099 bytes
              "cut",      \* a client dies between the size and the text
              "hangup",   \* a client dies with messages unread: a reset
              "nothread"} \* the accepting thread cannot be created

ASSUME ConstantsAssumption ==
    /\ IsFiniteSet(Conn) /\ NoConn \notin Conn
    /\ ThreadLimit \in Nat
    /\ MAX_THREADS \in Nat /\ MAX_THREADS > ThreadLimit + 1
    /\ MaxFd \in Nat /\ MaxMsgs \in Nat /\ SockBuf \in Nat /\ Backlog \in Nat
    /\ UninitCid \subseteq Nat
    /\ Faults \subseteq FaultKind /\ Orderly \in BOOLEAN

Thread == 1..ThreadLimit
Acceptor == ThreadLimit + 1
Main == ThreadLimit + 2
NoThread == 0
Slot == 0..MAX_THREADS-1

\* The stages of communicate_with_client, named for what the thread does next.
Stage == {"none", "start", "read", "text", "newclient", "addclient", "talk",
          "broadcast", "send", "quit", "exited"}

VARIABLES
    peer,            \* state of the client's end: none, open, fin, finrst, rst
    inbox,           \* pieces in flight to the server: sizes and texts
    sent,            \* messages the client has begun to send
    log,             \* broadcasts written to the socket, as history indices
    got,             \* how many of them the client has read
    backlog,         \* connections waiting for accept()
    fdTable,         \* the process's descriptors
    accPc, acceptFd, \* the accepting thread and its local variable fd
    created,         \* number of client threads created so far
    pc, fd, msg,     \* per thread: stage, descriptor, message in buf/name
    todo,            \* per thread: clients its traversal has yet to reach
    turn,            \* ghost, per thread: its broadcast's place in history
    connection_id, username, stat,
    mut,             \* holder of the mutex
    num_connections, num_clients, threads, current_clients, all_clients,
    mainPc, cancelled, status,
    history,         \* ghost: the broadcasts begun, in order
    joinedAt         \* ghost: length of history when the client joined

client == <<peer, inbox, sent, got>>
acc == <<accPc, acceptFd, created>>
trav == <<todo, turn>>
thr == <<pc, fd, msg, trav>>
reg == <<connection_id, username, stat, num_connections, num_clients,
         current_clients, all_clients, joinedAt>>
proc == <<mainPc, cancelled, status>>
vars == <<client, log, backlog, fdTable, acc, thr, reg, mut, threads, proc,
          history>>

Message == [from : Conn, n : Nat]     \* n = 0 is the notice "<from> has quit"
NoMsg == [from |-> NoConn, n |-> 0]
Piece == [kind : {"size", "big", "text"}, n : Nat]

Init ==
    /\ peer = [c \in Conn |-> "none"]
    /\ inbox = [c \in Conn |-> <<>>]
    /\ sent = [c \in Conn |-> 0]
    /\ log = [c \in Conn |-> <<>>]
    /\ got = [c \in Conn |-> 0]
    /\ backlog = <<>>
    /\ fdTable = [f \in 1..MaxFd |-> NoConn]
    /\ accPc = "none" /\ acceptFd = 0 /\ created = 0
    /\ pc = [t \in Thread |-> "none"]
    /\ fd = [t \in Thread |-> 0]
    /\ msg = [t \in Thread |-> NoMsg]
    /\ todo = [t \in Thread |-> {}]
    /\ turn = [t \in Thread |-> 0]
    /\ connection_id = [t \in Thread |-> 0]
    /\ username = [t \in Thread |-> NoConn]
    /\ stat = [t \in Thread |-> "none"]
    /\ mut = NoThread
    /\ num_connections = 0 /\ num_clients = 0
    /\ threads = [i \in Slot |-> NoThread]
    /\ current_clients = {} /\ all_clients = {}
    /\ mainPc = "start" /\ cancelled = {} /\ status = "run"
    /\ history = <<>>
    /\ joinedAt = [t \in Thread |-> 0]

Alive == status \in {"run", "freed"}
Joined(t) == t \in all_clients
Live(t) == pc[t] \notin {"none", "exited"}

\* The connection behind the descriptor thread t holds, if it is still open.
ConnOf(t) == IF fd[t] \in 1..MaxFd THEN fdTable[fd[t]] ELSE NoConn

\* The process ends: nothing of it matters any more but how it ended.
Dies(how) ==
    /\ status' = how
    /\ UNCHANGED <<client, log, backlog, fdTable, acc, thr, reg, mut, threads,
                   mainPc, cancelled, history>>

(***************************************************************************)
(* The clients and the network.                                            *)
(***************************************************************************)

\* No join, message or departure is being handled.
Settled ==
    /\ mainPc = "console" /\ accPc = "accept" /\ backlog = <<>>
    /\ \A t \in Thread : Live(t) =>
          /\ pc[t] = "read" /\ Joined(t) /\ ConnOf(t) # NoConn
          /\ peer[ConnOf(t)] = "open" /\ inbox[ConnOf(t)] = <<>>

\* Some connection is closed at the client's end and open at the server's.
Leaving == \E f \in 1..MaxFd :
              fdTable[f] # NoConn /\ peer[fdTable[f]] # "open"

Connect(c) ==
    /\ status = "run" /\ mainPc # "start" /\ peer[c] = "none"
    /\ Len(backlog) < Backlog
    /\ Orderly => Settled
    /\ peer' = [peer EXCEPT ![c] = "open"]
    /\ backlog' = Append(backlog, c)
    /\ UNCHANGED <<inbox, sent, got, log, fdTable, acc, thr, reg, mut, threads,
                   proc, history>>

\* send_string writes the size of the text and then the text.
SendString(c) ==
    /\ status = "run" /\ peer[c] = "open" /\ sent[c] < MaxMsgs
    /\ Orderly => mainPc = "console" /\ ~Leaving
    /\ \E size \in {"size"} \cup (Faults \cap {"big"}) :
          inbox' = [inbox EXCEPT ![c] = @ \o
                      <<[kind |-> size, n |-> sent[c] + 1],
                        [kind |-> "text", n |-> sent[c] + 1]>>]
    /\ sent' = [sent EXCEPT ![c] = @ + 1]
    /\ UNCHANGED <<peer, got, log, backlog, fdTable, acc, thr, reg, mut,
                   threads, proc, history>>

\* Messages in the socket that the client has not read yet.
Unread(c) == Len(log[c]) - got[c]

\* The client process ends. Its kernel sends a reset, not an end of file, when
\* it had unread data.
Quit(c) ==
    /\ status = "run" /\ peer[c] = "open"
    /\ Orderly => Settled
    /\ Unread(c) > 0 => "hangup" \in Faults
    /\ peer' = [peer EXCEPT ![c] = IF Unread(c) > 0 THEN "rst" ELSE "fin"]
    /\ \/ UNCHANGED <<inbox, sent>>
       \/ /\ "cut" \in Faults /\ sent[c] < MaxMsgs
          /\ inbox' = [inbox EXCEPT ![c] =
                         Append(@, [kind |-> "size", n |-> sent[c] + 1])]
          /\ sent' = [sent EXCEPT ![c] = @ + 1]
    /\ UNCHANGED <<got, log, backlog, fdTable, acc, thr, reg, mut, threads,
                   proc, history>>

\* The client's from_socket thread prints one message.
ReceiveString(c) ==
    /\ status = "run" /\ peer[c] = "open" /\ Unread(c) > 0
    /\ got' = [got EXCEPT ![c] = @ + 1]
    /\ UNCHANGED <<peer, inbox, sent, log, backlog, fdTable, acc, thr, reg, mut,
                   threads, proc, history>>

(***************************************************************************)
(* The accepting thread: accept_client_connections.                        *)
(***************************************************************************)

FreeFds == {f \in 1..MaxFd : fdTable[f] = NoConn}

Accept ==
    /\ Alive /\ accPc = "accept" /\ Acceptor \notin cancelled
    /\ backlog # <<>>
    /\ \E f \in FreeFds :
          /\ \A g \in FreeFds : f <= g
          /\ acceptFd' = f
          /\ fdTable' = [fdTable EXCEPT ![f] = Head(backlog)]
    /\ backlog' = Tail(backlog)
    /\ accPc' = "create"
    /\ UNCHANGED <<client, log, created, thr, reg, mut, threads, proc, history>>

\* accept() fails for want of a descriptor, and accept_connection exits.
AcceptFails ==
    /\ Alive /\ accPc = "accept" /\ Acceptor \notin cancelled
    /\ backlog # <<>> /\ FreeFds = {}
    /\ Dies("exit1")

\* pthread_create has a thread left to give.
CanCreate == created < ThreadLimit

\* The new thread's id goes to threads[num_connections+1]; the thread is handed
\* the address of the local variable fd, not its value.
CreateThread ==
    /\ Alive /\ accPc = "create" /\ mut = NoThread
    /\ CanCreate
    /\ created' = created + 1
    /\ threads' = [threads EXCEPT ![num_connections + 1] = created']
    /\ pc' = [pc EXCEPT ![created'] = "start"]
    /\ accPc' = "accept"
    /\ UNCHANGED <<client, log, backlog, fdTable, acceptFd, fd, msg, trav, reg,
                   mut, proc, history>>

\* Variant: the descriptor is not closed.
CreateThreadFailsOpen ==
    /\ Alive /\ accPc = "create" /\ mut = NoThread /\ ~CanCreate
    /\ accPc' = "accept"
    /\ UNCHANGED <<client, log, backlog, fdTable, acceptFd, created, thr, reg,
                   mut, threads, proc, history>>

CreateThreadFails ==
    /\ Alive /\ accPc = "create" /\ mut = NoThread /\ ~CanCreate
    /\ fdTable' = [fdTable EXCEPT ![acceptFd] = NoConn]
    /\ accPc' = "accept"
    /\ UNCHANGED <<client, log, backlog, acceptFd, created, thr, reg, mut,
                   threads, proc, history>>

AcceptorCancelled ==
    /\ Alive /\ accPc = "accept" /\ Acceptor \in cancelled
    /\ accPc' = "exited"
    /\ UNCHANGED <<client, log, backlog, fdTable, acceptFd, created, thr, reg,
                   mut, threads, proc, history>>

(***************************************************************************)
(* A client's thread: communicate_with_client.                             *)
(***************************************************************************)

\* fd = *fdp reads the accepting thread's variable as it is by now.
StartThread(t) ==
    /\ Alive /\ pc[t] = "start"
    /\ fd' = [fd EXCEPT ![t] = acceptFd]
    /\ pc' = [pc EXCEPT ![t] = "read"]
    /\ UNCHANGED <<client, log, backlog, fdTable, acc, msg, trav, reg, mut,
                   threads, proc, history>>

\* Thread t is in read() with a piece of c's stream to return.
Readable(t, c) ==
    /\ Alive /\ t \notin cancelled
    /\ ConnOf(t) = c /\ c # NoConn /\ inbox[c] # <<>>

\* The four bytes of a size announce a text that fits in buf.
ReadSize(t) ==
    /\ pc[t] = "read"
    /\ \E c \in Conn :
          /\ Readable(t, c) /\ Head(inbox[c]).kind = "size"
          /\ inbox' = [inbox EXCEPT ![c] = Tail(@)]
          /\ msg' = [msg EXCEPT ![t] = [from |-> c, n |-> Head(inbox[c]).n]]
    /\ pc' = [pc EXCEPT ![t] = "text"]
    /\ UNCHANGED <<peer, sent, got, log, backlog, fdTable, acc, fd, trav, reg,
                   mut, threads, proc, history>>

\* The size is above 1099, or the four bytes are text whose size another thread
\* on the same descriptor has taken: the thread leaves, and leaves all behind.
ReadTooBig(t) ==
    /\ pc[t] = "read"
    /\ \E c \in Conn :
          /\ Readable(t, c) /\ Head(inbox[c]).kind \in {"big", "text"}
          /\ inbox' = [inbox EXCEPT ![c] = Tail(@)]
    /\ pc' = [pc EXCEPT ![t] = "exited"]
    /\ UNCHANGED <<peer, sent, got, log, backlog, fdTable, acc, fd, msg, trav,
                   reg, mut, threads, proc, history>>

\* The first text makes the client; later ones are looked up under its id.
AfterTextOnce(t) == IF Joined(t) THEN "read" ELSE "newclient"  \* variant
AfterTextAlways(t) == "talk"            \* variant: no text makes a client
AfterText(t) == IF Joined(t) THEN "talk" ELSE "newclient"

ReadText(t) ==
    /\ pc[t] = "text"
    /\ \E c \in Conn :
          Readable(t, c) /\ inbox' = [inbox EXCEPT ![c] = Tail(@)]
    /\ pc' = [pc EXCEPT ![t] = AfterText(t)]
    /\ UNCHANGED <<peer, sent, got, log, backlog, fdTable, acc, fd, msg, trav,
                   reg, mut, threads, proc, history>>

\* read() returns 0, or fails.
AtEof(t) ==
    /\ Alive /\ t \notin cancelled /\ ConnOf(t) # NoConn
    /\ inbox[ConnOf(t)] = <<>> /\ peer[ConnOf(t)] \in {"fin", "finrst"}
AtError(t) ==
    /\ Alive /\ t \notin cancelled
    /\ \/ ConnOf(t) = NoConn
       \/ /\ ConnOf(t) # NoConn
          /\ inbox[ConnOf(t)] = <<>> /\ peer[ConnOf(t)] = "rst"

\* Variant: an end of file is taken for an error.
ReadEofSilent(t) ==
    /\ pc[t] = "read" /\ AtEof(t)
    /\ pc' = [pc EXCEPT ![t] = "exited"]
    /\ UNCHANGED <<client, log, backlog, fdTable, acc, fd, msg, trav, reg, mut,
                   threads, proc, history>>

ReadEof(t) ==
    /\ pc[t] = "read" /\ AtEof(t)
    /\ pc' = [pc EXCEPT ![t] = "quit"]
    /\ UNCHANGED <<client, log, backlog, fdTable, acc, fd, msg, trav, reg, mut,
                   threads, proc, history>>

\* close(fd) closes whatever the number stands for by now.
CloseFd(t) ==
    fdTable' = [f \in 1..MaxFd |-> IF f = fd[t] THEN NoConn ELSE fdTable[f]]

ReadError(t) ==
    /\ pc[t] = "read" /\ AtError(t)
    /\ CloseFd(t)
    /\ pc' = [pc EXCEPT ![t] = "exited"]
    /\ UNCHANGED <<client, log, backlog, acc, fd, msg, trav, reg, mut, threads,
                   proc, history>>

\* In the middle of a text, an end of file or an error ends the process.
ReadTextFails(t) ==
    /\ pc[t] = "text"
    /\ \/ AtEof(t) /\ Dies("exit0")
       \/ AtError(t) /\ Dies("exit1")

\* new_client takes its id from num_clients without the mutex.
NextIdBefore == num_clients - 1         \* variant: one off, the wrong way
NextIdOfCurrent == num_connections + 1  \* variant: ids are used again
NextId == num_clients + 1

NewClient(t) ==
    /\ Alive /\ pc[t] = "newclient"
    /\ connection_id' = [connection_id EXCEPT ![t] = NextId]
    /\ username' = [username EXCEPT ![t] = msg[t].from]
    /\ stat' = [stat EXCEPT ![t] = "LIVE"]
    /\ pc' = [pc EXCEPT ![t] = "addclient"]
    /\ UNCHANGED <<client, log, backlog, fdTable, acc, fd, msg, trav,
                   num_connections, num_clients, current_clients, all_clients,
                   joinedAt, mut, threads, proc, history>>

AddClient(t) ==
    /\ status = "run" /\ pc[t] = "addclient" /\ mut = NoThread
    /\ num_connections' = num_connections + 1
    /\ num_clients' = num_clients + 1
    /\ current_clients' = current_clients \cup {t}
    /\ all_clients' = all_clients \cup {t}
    /\ joinedAt' = [joinedAt EXCEPT ![t] = Len(history)]
    /\ pc' = [pc EXCEPT ![t] = "broadcast"]
    /\ UNCHANGED <<client, log, backlog, fdTable, acc, fd, msg, trav,
                   connection_id, username, stat, mut, threads, proc, history>>

\* The nodes of current_clients that jrb_find_int may return for a key.
FindInt(id) == {u \in current_clients : connection_id[u] = id}

\* jrb_delete_node deletes the one node it is given.
DeleteKey(u) == current_clients \ FindInt(connection_id[u])  \* variant
DeleteNothing(u) == current_clients                          \* variant
DeleteNode(u) == current_clients \ {u}

\* The key thread t looks up: cid is set only once the client has joined.
Cid(t) == IF Joined(t) THEN {connection_id[t]} ELSE UninitCid

\* The lookup of a later message, which updates talk_time.
Talk(t) ==
    /\ status = "run" /\ pc[t] = "talk" /\ mut = NoThread
    /\ FindInt(connection_id[t]) # {}
    /\ pc' = [pc EXCEPT ![t] = "broadcast"]
    /\ UNCHANGED <<client, log, backlog, fdTable, acc, fd, msg, trav, reg, mut,
                   threads, proc, history>>

\* threads without t's id, the later ids moved down one slot; the ids beyond
\* num_connections are not looked at.
ThreadsWithout(t) ==
    LET moved(k) == /\ k <= num_connections
                    /\ \E i \in 1..k : threads[i] = t
    IN  [k \in Slot |-> IF ~moved(k) THEN threads[k]
                        ELSE IF k = num_connections THEN NoThread
                        ELSE threads[k + 1]]

\* The client has gone: its node is deleted, its descriptor closed, its thread
\* id removed, and the notice of its departure prepared.
RemoveClient(t) ==
    /\ status = "run" /\ pc[t] = "quit" /\ mut = NoThread
    /\ \E id \in Cid(t) : \E u \in FindInt(id) :
          /\ current_clients' = DeleteNode(u)
          /\ stat' = [stat EXCEPT ![u] = "DEAD"]
          /\ msg' = [msg EXCEPT ![t] = [from |-> username[u], n |-> 0]]
    /\ CloseFd(t)
    /\ threads' = ThreadsWithout(t)
    /\ num_connections' = num_connections - 1
    /\ pc' = [pc EXCEPT ![t] = "broadcast"]
    /\ UNCHANGED <<client, log, backlog, acc, fd, trav, connection_id, username,
                   num_clients, all_clients, joinedAt, mut, proc, history>>

\* jrb_find_int finds no node, and its result is dereferenced all the same.
LookupFails(t) ==
    /\ status = "run" /\ pc[t] \in {"talk", "quit"} /\ mut = NoThread
    /\ \E id \in Cid(t) : FindInt(id) = {}
    /\ Dies("segv")

\* pthread_mutex_lock and pthread_mutex_unlock around the traversal.
NoLock(t) == mut' = t  \* variant: the mutex is not waited for
Lock(t) == mut = NoThread /\ mut' = t
UnlockMessages(t) ==   \* variant: the notice of a departure keeps the mutex
    mut' = IF msg[t].n = 0 THEN mut ELSE NoThread
Unlock(t) == mut' = NoThread

\* Whom a message goes to: its sender too.
AudienceOfOthers(t) == current_clients \ {t}  \* variant: but not its sender
Audience(t) == current_clients

\* send_message_to_clients: the mutex is held for the whole traversal.
BeginBroadcast(t) ==
    /\ status = "run" /\ pc[t] = "broadcast"
    /\ Lock(t)
    /\ todo' = [todo EXCEPT ![t] = Audience(t)]
    /\ turn' = [turn EXCEPT ![t] = Len(history) + 1]
    /\ history' = Append(history, msg[t])
    /\ pc' = [pc EXCEPT ![t] = "send"]
    /\ UNCHANGED <<client, log, backlog, fdTable, acc, fd, msg, reg, threads,
                   proc>>

\* The traversal is in the order of the keys.
NextClient(t, u) ==
    u \in todo[t] /\ \A v \in todo[t] : connection_id[u] <= connection_id[v]

\* One send_string_server that succeeds. The write blocks while the socket is
\* full; one to a client that has just left is accepted and answered by a reset.
SendOne(t) ==
    /\ Alive /\ pc[t] = "send"
    /\ \E u \in todo[t] :
          /\ NextClient(t, u) /\ ConnOf(u) # NoConn
          /\ todo' = [todo EXCEPT ![t] = @ \ {u}]
          /\ LET c == ConnOf(u) IN
             \/ /\ peer[c] = "open" /\ Unread(c) < SockBuf
                /\ log' = [log EXCEPT ![c] = Append(@, turn[t])]
                /\ UNCHANGED peer
             \/ /\ peer[c] = "fin"
                /\ peer' = [peer EXCEPT ![c] = "finrst"]
                /\ UNCHANGED log
    /\ UNCHANGED <<inbox, sent, got, backlog, fdTable, acc, pc, fd, msg, turn,
                   reg, mut, threads, proc, history>>

\* One that does not: a closed descriptor or a reset makes write() fail, and a
\* client gone for longer than one write raises SIGPIPE, for which the server
\* has no handler (the reset may come between the size and the text).
SendFails(t) ==
    /\ Alive /\ pc[t] = "send"
    /\ \E u \in todo[t] :
          /\ NextClient(t, u)
          /\ \/ ConnOf(u) = NoConn /\ Dies("exit1")
             \/ /\ ConnOf(u) # NoConn
                /\ \/ peer[ConnOf(u)] = "rst" /\ Dies("exit1")
                   \/ peer[ConnOf(u)] \in {"fin", "finrst"} /\ Dies("sigpipe")

\* The thread of a client that has gone exits after its notice.
AfterBroadcast(t) == IF msg[t].n = 0 THEN "exited" ELSE "read"

EndBroadcast(t) ==
    /\ Alive /\ pc[t] = "send" /\ todo[t] = {}
    /\ Unlock(t)
    /\ turn' = [turn EXCEPT ![t] = 0]
    /\ pc' = [pc EXCEPT ![t] = AfterBroadcast(t)]
    /\ UNCHANGED <<client, log, backlog, fdTable, acc, fd, msg, todo, reg,
                   threads, proc, history>>

\* read() is where a cancelled thread stops.
ThreadCancelled(t) ==
    /\ Alive /\ t \in cancelled /\ pc[t] \in {"read", "text"}
    /\ pc' = [pc EXCEPT ![t] = "exited"]
    /\ UNCHANGED <<client, log, backlog, fdTable, acc, fd, msg, trav, reg, mut,
                   threads, proc, history>>

\* A thread gets the mutex after shutdown() has freed the trees.
TouchFreed(t) ==
    /\ status = "freed" /\ mut = NoThread
    /\ pc[t] \in {"addclient", "talk", "broadcast", "quit"}
    /\ Dies("uaf")

(***************************************************************************)
(* The main thread: main, the end of the console, shutdown.                *)
(***************************************************************************)

StartAcceptor ==
    /\ Alive /\ mainPc = "start"
    /\ threads' = [threads EXCEPT ![0] = Acceptor]
    /\ accPc' = "accept"
    /\ mainPc' = "console"
    /\ UNCHANGED <<client, log, backlog, fdTable, acceptFd, created, thr, reg,
                   mut, cancelled, status, history>>

\* main calls shutdown() between its lock and its unlock.
StartAcceptorFails ==
    /\ Alive /\ mainPc = "start" /\ "nothread" \in Faults
    /\ mut' = Main
    /\ mainPc' = "shutdown"
    /\ UNCHANGED <<client, log, backlog, fdTable, acc, thr, reg, threads,
                   cancelled, status, history>>

\* The console reads the end of its input.
ConsoleEof ==
    /\ Alive /\ mainPc = "console"
    /\ Orderly => Settled
    /\ mainPc' = "shutdown"
    /\ UNCHANGED <<client, log, backlog, fdTable, acc, thr, reg, mut, threads,
                   cancelled, status, history>>

\* The ids shutdown() cancels.
ShutdownIdsShort ==  \* variant: the last one is forgotten
    {threads[i] : i \in {j \in Slot : j < num_connections \/ j = 0}}
ShutdownIds == {threads[i] : i \in 0..num_connections}

Shutdown ==
    /\ Alive /\ mainPc = "shutdown" /\ mut = NoThread
    /\ NoThread \notin ShutdownIds
    /\ cancelled' = ShutdownIds
    /\ fdTable' = [f \in 1..MaxFd |->
                     IF \E u \in all_clients : fd[u] = f THEN NoConn
                     ELSE fdTable[f]]
    /\ status' = "freed"
    /\ mainPc' = "exit"
    /\ UNCHANGED <<client, log, backlog, acc, thr, reg, mut, threads, history>>

\* pthread_cancel of an empty slot dereferences a null thread.
ShutdownFails ==
    /\ Alive /\ mainPc = "shutdown" /\ mut = NoThread
    /\ NoThread \in ShutdownIds
    /\ Dies("segv")

Exit ==
    /\ Alive /\ mainPc = "exit"
    /\ Dies("down")

(***************************************************************************)
(* The specification.                                                      *)
(***************************************************************************)

AcceptorStep ==
    \/ Accept \/ AcceptFails
    \/ CreateThread \/ CreateThreadFails
    \/ AcceptorCancelled

ThreadStep(t) ==
    \/ StartThread(t)
    \/ ReadSize(t) \/ ReadTooBig(t) \/ ReadText(t)
    \/ ReadEof(t) \/ ReadError(t) \/ ReadTextFails(t)
    \/ NewClient(t) \/ AddClient(t) \/ Talk(t)
    \/ RemoveClient(t) \/ LookupFails(t)
    \/ BeginBroadcast(t) \/ SendOne(t) \/ SendFails(t) \/ EndBroadcast(t)
    \/ ThreadCancelled(t) \/ TouchFreed(t)

MainStep == StartAcceptor \/ StartAcceptorFails \/ Shutdown \/ ShutdownFails
            \/ Exit

Environment ==
    \/ ConsoleEof
    \/ \E c \in Conn :
          Connect(c) \/ SendString(c) \/ Quit(c) \/ ReceiveString(c)

Next ==
    \/ Environment
    \/ AcceptorStep
    \/ MainStep
    \/ \E t \in Thread : ThreadStep(t)

Spec == Init /\ [][Next]_vars

\* Every runnable thread is eventually scheduled, and a client that is there
\* prints what it receives; nobody has to connect, talk, leave or close stdin.
FairSpec ==
    /\ Spec
    /\ WF_vars(AcceptorStep)
    /\ WF_vars(MainStep)
    /\ \A t \in Thread : WF_vars(ThreadStep(t))
    /\ \A c \in Conn : WF_vars(ReceiveString(c))

(***************************************************************************)
(* Properties.                                                             *)
(***************************************************************************)

ClientType ==
    /\ peer \in [Conn -> {"none", "open", "fin", "finrst", "rst"}]
    /\ inbox \in [Conn -> Seq(Piece)]
    /\ sent \in [Conn -> Nat]
    /\ got \in [Conn -> Nat]

SocketType ==
    /\ log \in [Conn -> Seq(Nat)]
    /\ backlog \in Seq(Conn)
    /\ fdTable \in [1..MaxFd -> Conn \cup {NoConn}]
    /\ history \in Seq(Message)

AcceptorType ==
    /\ accPc \in {"none", "accept", "create", "exited"}
    /\ acceptFd \in 0..MaxFd
    /\ created \in 0..ThreadLimit

ThreadType ==
    /\ pc \in [Thread -> Stage]
    /\ fd \in [Thread -> 0..MaxFd]
    /\ msg \in [Thread -> Message \cup {NoMsg}]
    /\ todo \in [Thread -> SUBSET Thread]
    /\ turn \in [Thread -> Nat]

RegistryType ==
    /\ connection_id \in [Thread -> Nat]
    /\ username \in [Thread -> Conn \cup {NoConn}]
    /\ stat \in [Thread -> {"none", "LIVE", "DEAD"}]
    /\ num_connections \in Nat /\ num_clients \in Nat
    /\ current_clients \subseteq Thread /\ all_clients \subseteq Thread
    /\ joinedAt \in [Thread -> Nat]

ProcessType ==
    /\ mut \in Thread \cup {NoThread, Main}
    /\ threads \in [Slot -> Thread \cup {NoThread, Acceptor}]
    /\ mainPc \in {"start", "console", "shutdown", "exit"}
    /\ cancelled \subseteq Thread \cup {NoThread, Acceptor}
    /\ status \in {"run", "freed", "down", "segv", "sigpipe", "exit0", "exit1",
                   "uaf"}

\* Every variable has its type.
TypeOK ==
    /\ ClientType /\ SocketType /\ AcceptorType
    /\ ThreadType /\ RegistryType /\ ProcessType

\* The counters and the trees say the same: num_connections is the size of
\* current_clients and num_clients that of all_clients, and current_clients
\* holds exactly the LIVE clients of all_clients (add_client, and the removal
\* at the end of communicate_with_client), whatever the threads' interleaving.
Bookkeeping ==
    /\ num_connections = Cardinality(current_clients)
    /\ num_clients = Cardinality(all_clients)
    /\ current_clients = {t \in all_clients : stat[t] = "LIVE"}

\* No socket is written two broadcasts in the opposite order to that in which
\* they took the mutex, so all clients see one order: send_message_to_clients
\* holds the mutex for the whole traversal.
OneOrder ==
    \A c \in Conn : \A i, j \in DOMAIN log[c] :
        i <= j => log[c][i] <= log[c][j]

\* A client that has joined is always found under its connection id when its
\* thread looks it up, even when two clients were given the same id: the null
\* dereferences of the talk and quit paths need a thread that never joined.
LookupNeverFails ==
    \A t \in Thread : pc[t] \in {"talk", "quit"} /\ Joined(t) =>
        FindInt(connection_id[t]) # {}

\* What the stages of the threads say of their clients: the rest of the
\* inductive invariant for Bookkeeping.
Stages ==
    /\ \A t \in Thread : t > created => pc[t] = "none"
    /\ \A t \in all_clients :
          /\ pc[t] \notin {"none", "start", "newclient", "addclient"}
          /\ username[t] \in Conn
    /\ \A t \in Thread :
          /\ pc[t] \in {"text", "newclient", "addclient", "talk", "broadcast",
                       "send"} => msg[t] \in Message
          /\ pc[t] = "addclient" => stat[t] = "LIVE" /\ username[t] \in Conn

\* The inductive invariant behind OneOrder: a sender holds the mutex and sends
\* the last broadcast begun.
SendersHoldMutex ==
    \A t \in Thread : pc[t] = "send" => mut = t /\ turn[t] = Len(history)
LogsBounded ==
    \A c \in Conn : \A i \in DOMAIN log[c] : log[c][i] <= Len(history)
NotStarted == mainPc = "start" => accPc = "none" /\ created = 0

\* The inductive invariant behind LookupNeverFails: for every key there are as
\* many nodes in current_clients as clients that have yet to take one out.
Gone == {t \in all_clients : msg[t].n = 0}
Owners(k) == {t \in all_clients \ Gone : connection_id[t] = k}
KeyBalance == \A k \in Nat : Cardinality(Owners(k)) = Cardinality(FindInt(k))
KeysPositive ==
    \A t \in Thread : t \in all_clients \/ pc[t] = "addclient"
                        => connection_id[t] > 0
MessagesNumbered ==
    /\ \A c \in Conn : \A i \in DOMAIN inbox[c] : inbox[c][i].n > 0
    /\ \A t \in Thread :
          /\ pc[t] \in {"text", "newclient", "addclient", "talk"} => msg[t].n > 0
          /\ pc[t] \in {"read", "quit"} /\ t \in all_clients => msg[t].n > 0

\* Once shutdown() has freed the clients, every thread that still runs has been
\* cancelled (server_tasks.h: "Closes all active threads").
ShutdownReachesAll ==
    status = "freed" => \A t \in Thread : Live(t) => t \in cancelled

\* No two clients, past or present, have the same connection id.
UniqueIds ==
    \A t, u \in all_clients : connection_id[t] = connection_id[u] => t = u

\* A connection is served by one thread: the descriptor a thread picks up is
\* that of the connection it was created for.
OneThreadPerConn ==
    \A t, u \in Thread :
        /\ Live(t) /\ Live(u) /\ t # u
        /\ ConnOf(t) # NoConn
        => ConnOf(t) # ConnOf(u)

\* A descriptor that is open belongs to a thread, or is about to.
NoLeakedFd ==
    status = "run" =>
        \A f \in 1..MaxFd : fdTable[f] # NoConn =>
            \/ acceptFd = f /\ accPc = "create"
            \/ \E t \in Thread : Live(t) /\ f = IF pc[t] = "start" THEN acceptFd
                                                 ELSE fd[t]

\* accept_connection has just ended the process for want of a descriptor.
OutOfDescriptors ==
    status = "exit1" /\ accPc = "accept" /\ backlog # <<>> /\ FreeFds = {}

\* The server ends by its own shutdown, or for want of a descriptor.
ServerSurvives == status \in {"run", "freed", "down"} \/ OutOfDescriptors

\* The server has closed c's connection.
CutOff(c) ==
    /\ peer[c] # "none" /\ c \notin {backlog[i] : i \in DOMAIN backlog}
    /\ \A f \in 1..MaxFd : fdTable[f] # c

\* Nobody has left yet, nor been turned away.
AllStay == \A c \in Conn : peer[c] \in {"none", "open"} /\ ~CutOff(c)

\* As long as all clients stay, nothing they do brings the server down: joins,
\* first messages and messages that overlap in any order, ids given twice, two
\* threads that serve one connection while another has none, messages that are
\* too long, clients that do not read (server_tasks.c:104, 262, 361). It takes a
\* departure, a client turned away, the want of a descriptor or its own shutdown.
StaysUpWhileAllStay ==
    AllStay /\ mainPc = "console" => status = "run" \/ OutOfDescriptors

\* shutdown() ends the process.
ShutdownEnds == mainPc = "shutdown" ~> status \notin {"run", "freed"}

\* The connection was closed for want of a thread.
Refused(c) == CutOff(c) /\ \A t \in all_clients : username[t] # c

\* A message a client has sent is eventually broadcast, unless its connection has
\* been closed for want of a thread.
EveryMessageBroadcast ==
    \A c \in Conn : \A n \in 1..MaxMsgs :
        (status = "run" /\ mainPc = "console" /\ sent[c] >= n)
        ~> \/ status # "run" \/ mainPc # "console" \/ Refused(c)
           \/ [from |-> c, n |-> n] \in {history[i] : i \in DOMAIN history}

(***************************************************************************)
(* The promise: with clients that come and go only when nothing else is    *)
(* under way, the server is a ChatRoom of the connections.                 *)
(***************************************************************************)

\* The client of connection c, if it has joined.
ClientOf(c) == {t \in all_clients : username[t] = c}

PlaceOf(c) ==
    IF ClientOf(c) = {} THEN "out"
    ELSE IF ClientOf(c) \cap current_clients = {} THEN "left"
    ELSE IF peer[c] = "open" THEN "in" ELSE "leaving"

Since(c) == IF ClientOf(c) = {} THEN 0
            ELSE joinedAt[CHOOSE t \in ClientOf(c) : TRUE]

Room == INSTANCE ChatRoom WITH
            Person <- Conn, open <- status = "run", said <- history, heard <- log,
            place <- [c \in Conn |-> PlaceOf(c)],
            since <- [c \in Conn |-> Since(c)]

\* Every step of the server is a step of the room, or none: each client is sent
\* exactly the broadcasts begun since it joined, once each and in order, no
\* broadcast begins before the last has reached everybody, a client's messages
\* are broadcast in the order it sent them, none lost or doubled, and its
\* departure is announced once and after them (add_client, the loop of
\* communicate_with_client, send_message_to_clients). A broadcast reaches every
\* client that stays, although it may have to wait with the mutex held for a
\* client to read, and every departure is announced.
KeepsRoom == Room!LiveSpec

=============================================================================
