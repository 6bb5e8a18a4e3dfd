-------------------------- MODULE JtalkServerProofs --------------------------
(***************************************************************************)
(* Theorems about JtalkServer, for every value of its constants: first     *)
(* whatever the clients do, then for clients who come and go only when     *)
(* nothing else is under way, with nothing going wrong outside.            *)
(***************************************************************************)
EXTENDS JtalkServer, FiniteSetTheorems, SequenceTheorems, TLAPS

Inv == TypeOK /\ Bookkeeping /\ Stages

LEMMA InitInv == Init => Inv
<1>. SUFFICES ASSUME Init PROVE Inv
  OBVIOUS
<1>. USE ConstantsAssumption
<1>1. TypeOK
  BY DEF Init, TypeOK, ClientType, SocketType, AcceptorType,
     ThreadType, RegistryType, ProcessType, Thread, Slot, Stage, NoThread, NoMsg, Acceptor
<1>2. Bookkeeping
  BY FS_EmptySet DEF Init, Bookkeeping
<1>3. Stages
  BY DEF Init, Stages, Thread
<1>. QED
  BY <1>1, <1>2, <1>3 DEF Inv

\* The sets of clients are finite, being sets of threads.
LEMMA ClientsFinite ==
    RegistryType => IsFiniteSet(all_clients) /\ IsFiniteSet(current_clients)
<1>. IsFiniteSet(Thread)
  BY ConstantsAssumption, FS_Interval DEF Thread
<1>. QED BY FS_Subset DEF RegistryType

\* The threads array is longer than there can be connections.
LEMMA ConnectionsBound == Inv => num_connections + 1 \in Slot
<1>. SUFFICES ASSUME Inv PROVE num_connections + 1 \in Slot
  OBVIOUS
<1>. USE ConstantsAssumption
<1>1. IsFiniteSet(Thread) /\ Cardinality(Thread) = ThreadLimit
  BY FS_Interval DEF Thread
<1>2. Cardinality(current_clients) <= ThreadLimit
  BY <1>1, FS_Subset DEF Inv, TypeOK, RegistryType
<1>. QED
  BY <1>2 DEF Inv, TypeOK, RegistryType, Bookkeeping, Slot

\* Removing a thread's id leaves an array of thread ids.
LEMMA ThreadsWithoutType ==
    ASSUME TypeOK, NEW t \in Thread, num_connections + 1 \in Slot
    PROVE  ThreadsWithout(t) \in [Slot -> Thread \cup {NoThread, Acceptor}]
<1>. SUFFICES ASSUME NEW k \in Slot
              PROVE  ThreadsWithout(t)[k] \in Thread \cup {NoThread, Acceptor}
  BY DEF ThreadsWithout
<1>. USE ConstantsAssumption DEF TypeOK, ProcessType
<1>1. CASE k < num_connections
  <2>1. k + 1 \in Slot
    BY <1>1 DEF Slot, RegistryType
  <2>. QED BY <1>1, <2>1 DEF ThreadsWithout
<1>2. CASE ~(k < num_connections)
  BY <1>2 DEF ThreadsWithout, Slot, RegistryType
<1>. QED BY <1>1, <1>2

\* The clients and the console leave the registry and the stages alone.
LEMMA EnvironmentInv == Inv /\ Environment => Inv'
<1>. SUFFICES ASSUME Inv, Environment PROVE Inv'
  OBVIOUS
<1>. USE ConstantsAssumption DEF Inv, TypeOK, client, trav, thr, acc, reg, proc
<1>1. ASSUME ConsoleEof PROVE Inv'
  <2>1. ProcessType'
    BY <1>1 DEF ConsoleEof, ProcessType
  <2>2. (ClientType /\ SocketType /\ AcceptorType /\ ThreadType
          /\ RegistryType)'
    BY <1>1 DEF ConsoleEof, ClientType, SocketType, AcceptorType, ThreadType,
       RegistryType
  <2>3. Bookkeeping'
    BY <1>1 DEF ConsoleEof, Bookkeeping
  <2>4. Stages'
    BY <1>1 DEF ConsoleEof, Stages
  <2>. QED BY <2>1, <2>2, <2>3, <2>4
<1>2. ASSUME NEW c \in Conn, Connect(c) PROVE Inv'
  <2>1. ClientType'
    BY <1>2 DEF Connect, ClientType
  <2>2. SocketType'
    BY <1>2 DEF Connect, SocketType
  <2>3. (AcceptorType /\ ThreadType /\ RegistryType /\ ProcessType)'
    BY <1>2 DEF Connect, AcceptorType, ThreadType, RegistryType, ProcessType
  <2>4. Bookkeeping'
    BY <1>2 DEF Connect, Bookkeeping
  <2>5. Stages'
    BY <1>2 DEF Connect, Stages
  <2>. QED BY <2>1, <2>2, <2>3, <2>4, <2>5
<1>3. ASSUME NEW c \in Conn, SendString(c) PROVE Inv'
  <2>1. ClientType'
    BY <1>3 DEF SendString, ClientType, Piece
  <2>2. (SocketType /\ AcceptorType /\ ThreadType /\ RegistryType
          /\ ProcessType)'
    BY <1>3 DEF SendString, SocketType, AcceptorType, ThreadType, RegistryType,
       ProcessType
  <2>3. Bookkeeping'
    BY <1>3 DEF SendString, Bookkeeping
  <2>4. Stages'
    BY <1>3 DEF SendString, Stages
  <2>. QED BY <2>1, <2>2, <2>3, <2>4
<1>4. ASSUME NEW c \in Conn, Quit(c) PROVE Inv'
  <2>1. ClientType'
    <3>1. inbox' \in [Conn -> Seq(Piece)] /\ sent' \in [Conn -> Nat]
      <4>1. CASE UNCHANGED <<inbox, sent>>
        BY <4>1 DEF ClientType
      <4>2. CASE /\ inbox' = [inbox EXCEPT ![c] =
                                Append(@, [kind |-> "size", n |-> sent[c] + 1])]
                 /\ sent' = [sent EXCEPT ![c] = @ + 1]
        BY <4>2 DEF ClientType, Piece
      <4>. QED BY <1>4, <4>1, <4>2 DEF Quit
    <3>. QED BY <1>4, <3>1 DEF Quit, ClientType
  <2>2. (SocketType /\ AcceptorType /\ ThreadType /\ RegistryType
          /\ ProcessType)'
    BY <1>4 DEF Quit, SocketType, AcceptorType, ThreadType, RegistryType,
       ProcessType
  <2>3. Bookkeeping'
    BY <1>4 DEF Quit, Bookkeeping
  <2>4. Stages'
    BY <1>4 DEF Quit, Stages
  <2>. QED BY <2>1, <2>2, <2>3, <2>4
<1>5. ASSUME NEW c \in Conn, ReceiveString(c) PROVE Inv'
  <2>1. ClientType'
    BY <1>5 DEF ReceiveString, ClientType
  <2>2. (SocketType /\ AcceptorType /\ ThreadType /\ RegistryType
          /\ ProcessType)'
    BY <1>5 DEF ReceiveString, SocketType, AcceptorType, ThreadType,
       RegistryType, ProcessType
  <2>3. Bookkeeping'
    BY <1>5 DEF ReceiveString, Bookkeeping
  <2>4. Stages'
    BY <1>5 DEF ReceiveString, Stages
  <2>. QED BY <2>1, <2>2, <2>3, <2>4
<1>. QED
  BY <1>1, <1>2, <1>3, <1>4, <1>5 DEF Environment

\* The accepting thread starts threads, which are not clients yet.
LEMMA AcceptorInv == Inv /\ AcceptorStep => Inv'
<1>. SUFFICES ASSUME Inv, AcceptorStep PROVE Inv'
  OBVIOUS
<1>. USE ConstantsAssumption DEF Inv, TypeOK, client, trav, thr, acc, reg, proc
<1>1. ASSUME Accept PROVE Inv'
  <2>1. SocketType'
    BY <1>1 DEF Accept, SocketType, FreeFds
  <2>2. AcceptorType'
    BY <1>1 DEF Accept, AcceptorType, FreeFds
  <2>3. (ClientType /\ ThreadType /\ RegistryType /\ ProcessType)'
    BY <1>1 DEF Accept, ClientType, ThreadType, RegistryType, ProcessType
  <2>4. Bookkeeping'
    BY <1>1 DEF Accept, Bookkeeping
  <2>5. Stages'
    BY <1>1 DEF Accept, Stages
  <2>. QED BY <2>1, <2>2, <2>3, <2>4, <2>5
<1>2. ASSUME AcceptFails PROVE Inv'
  <2>1. ProcessType'
    BY <1>2 DEF AcceptFails, ProcessType, Dies
  <2>2. (ClientType /\ SocketType /\ AcceptorType /\ ThreadType
          /\ RegistryType)'
    BY <1>2 DEF AcceptFails, ClientType, SocketType, AcceptorType, ThreadType,
       RegistryType, Dies
  <2>3. Bookkeeping'
    BY <1>2 DEF AcceptFails, Bookkeeping, Dies
  <2>4. Stages'
    BY <1>2 DEF AcceptFails, Stages, Dies
  <2>. QED BY <2>1, <2>2, <2>3, <2>4
<1>3. ASSUME CreateThread PROVE Inv'
  <2>1. AcceptorType'
    BY <1>3 DEF CreateThread, AcceptorType, CanCreate
  <2>2. ThreadType'
    BY <1>3 DEF CreateThread, ThreadType, CanCreate, Thread, Stage
  <2>3. ProcessType'
    <3>1. num_connections + 1 \in Slot
      BY ConnectionsBound
    <3>. QED BY <1>3, <3>1 DEF CreateThread, ProcessType, CanCreate, Thread,
                AcceptorType
  <2>4. (ClientType /\ SocketType /\ RegistryType)'
    BY <1>3 DEF CreateThread, ClientType, SocketType, RegistryType
  <2>5. Bookkeeping'
    BY <1>3 DEF CreateThread, Bookkeeping
  <2>6. Stages'
    BY <1>3 DEF CreateThread, Stages, CanCreate, Thread, ThreadType, Stage,
       AcceptorType
  <2>. QED BY <2>1, <2>2, <2>3, <2>4, <2>5, <2>6
<1>4. ASSUME CreateThreadFails PROVE Inv'
  <2>1. SocketType'
    BY <1>4 DEF CreateThreadFails, SocketType
  <2>2. AcceptorType'
    BY <1>4 DEF CreateThreadFails, AcceptorType
  <2>3. (ClientType /\ ThreadType /\ RegistryType /\ ProcessType)'
    BY <1>4 DEF CreateThreadFails, ClientType, ThreadType, RegistryType,
       ProcessType
  <2>4. Bookkeeping'
    BY <1>4 DEF CreateThreadFails, Bookkeeping
  <2>5. Stages'
    BY <1>4 DEF CreateThreadFails, Stages
  <2>. QED BY <2>1, <2>2, <2>3, <2>4, <2>5
<1>5. ASSUME AcceptorCancelled PROVE Inv'
  <2>1. AcceptorType'
    BY <1>5 DEF AcceptorCancelled, AcceptorType
  <2>2. (ClientType /\ SocketType /\ ThreadType /\ RegistryType
          /\ ProcessType)'
    BY <1>5 DEF AcceptorCancelled, ClientType, SocketType, ThreadType,
       RegistryType, ProcessType
  <2>3. Bookkeeping'
    BY <1>5 DEF AcceptorCancelled, Bookkeeping
  <2>4. Stages'
    BY <1>5 DEF AcceptorCancelled, Stages
  <2>. QED BY <2>1, <2>2, <2>3, <2>4
<1>. QED
  BY <1>1, <1>2, <1>3, <1>4, <1>5 DEF AcceptorStep

\* So does the main thread.
LEMMA MainInv == Inv /\ MainStep => Inv'
<1>. SUFFICES ASSUME Inv, MainStep PROVE Inv'
  OBVIOUS
<1>. USE ConstantsAssumption DEF Inv, TypeOK, client, trav, thr, acc, reg, proc
<1>1. ASSUME StartAcceptor PROVE Inv'
  <2>1. AcceptorType'
    BY <1>1 DEF StartAcceptor, AcceptorType
  <2>2. ProcessType'
    BY <1>1 DEF StartAcceptor, ProcessType, Slot
  <2>3. (ClientType /\ SocketType /\ ThreadType /\ RegistryType)'
    BY <1>1 DEF StartAcceptor, ClientType, SocketType, ThreadType,
       RegistryType
  <2>4. Bookkeeping'
    BY <1>1 DEF StartAcceptor, Bookkeeping
  <2>5. Stages'
    BY <1>1 DEF StartAcceptor, Stages
  <2>. QED BY <2>1, <2>2, <2>3, <2>4, <2>5
<1>2. ASSUME StartAcceptorFails PROVE Inv'
  <2>1. ProcessType'
    BY <1>2 DEF StartAcceptorFails, ProcessType
  <2>2. (ClientType /\ SocketType /\ AcceptorType /\ ThreadType
          /\ RegistryType)'
    BY <1>2 DEF StartAcceptorFails, ClientType, SocketType, AcceptorType,
       ThreadType, RegistryType
  <2>3. Bookkeeping'
    BY <1>2 DEF StartAcceptorFails, Bookkeeping
  <2>4. Stages'
    BY <1>2 DEF StartAcceptorFails, Stages
  <2>. QED BY <2>1, <2>2, <2>3, <2>4
<1>3. ASSUME Shutdown PROVE Inv'
  <2>1. SocketType'
    BY <1>3 DEF Shutdown, SocketType
  <2>2. ProcessType'
    <3>0. 0..num_connections \subseteq Slot
      BY ConnectionsBound DEF Inv, Slot, RegistryType
    <3>1. ShutdownIds \subseteq Thread \cup {NoThread, Acceptor}
      BY <3>0 DEF ShutdownIds, ProcessType
    <3>. QED BY <1>3, <3>1 DEF Shutdown, ProcessType
  <2>3. (ClientType /\ AcceptorType /\ ThreadType /\ RegistryType)'
    BY <1>3 DEF Shutdown, ClientType, AcceptorType, ThreadType, RegistryType
  <2>4. Bookkeeping'
    BY <1>3 DEF Shutdown, Bookkeeping
  <2>5. Stages'
    BY <1>3 DEF Shutdown, Stages
  <2>. QED BY <2>1, <2>2, <2>3, <2>4, <2>5
<1>4. ASSUME ShutdownFails PROVE Inv'
  <2>1. ProcessType'
    BY <1>4 DEF ShutdownFails, ProcessType, Dies
  <2>2. (ClientType /\ SocketType /\ AcceptorType /\ ThreadType
          /\ RegistryType)'
    BY <1>4 DEF ShutdownFails, ClientType, SocketType, AcceptorType,
       ThreadType, RegistryType, Dies
  <2>3. Bookkeeping'
    BY <1>4 DEF ShutdownFails, Bookkeeping, Dies
  <2>4. Stages'
    BY <1>4 DEF ShutdownFails, Stages, Dies
  <2>. QED BY <2>1, <2>2, <2>3, <2>4
<1>5. ASSUME Exit PROVE Inv'
  <2>1. ProcessType'
    BY <1>5 DEF Exit, ProcessType, Dies
  <2>2. (ClientType /\ SocketType /\ AcceptorType /\ ThreadType
          /\ RegistryType)'
    BY <1>5 DEF Exit, ClientType, SocketType, AcceptorType, ThreadType,
       RegistryType, Dies
  <2>3. Bookkeeping'
    BY <1>5 DEF Exit, Bookkeeping, Dies
  <2>4. Stages'
    BY <1>5 DEF Exit, Stages, Dies
  <2>. QED BY <2>1, <2>2, <2>3, <2>4
<1>. QED
  BY <1>1, <1>2, <1>3, <1>4, <1>5 DEF MainStep
\* A client thread: the registry changes when it joins and when it leaves.
LEMMA ThreadInv == ASSUME NEW t \in Thread, Inv, ThreadStep(t) PROVE Inv'
<1>. USE ConstantsAssumption DEF Inv, TypeOK, client, trav, thr, acc, reg, proc
<1>1. CASE StartThread(t)
  <2>1. ThreadType'
    BY <1>1 DEF StartThread, ThreadType, Stage, AcceptorType
  <2>2. (ClientType /\ SocketType /\ AcceptorType /\ RegistryType
          /\ ProcessType)'
    BY <1>1 DEF StartThread, ClientType, SocketType, AcceptorType,
       RegistryType, ProcessType
  <2>3. Bookkeeping'
    BY <1>1 DEF StartThread, Bookkeeping
  <2>4. Stages'
    BY <1>1 DEF StartThread, Stages
  <2>. QED BY <2>1, <2>2, <2>3, <2>4
<1>2. CASE ReadSize(t)
  <2>1. ClientType'
    BY <1>2 DEF ReadSize, ClientType, Readable
  <2>2. ThreadType'
    <3>1. PICK c \in Conn : /\ Readable(t, c)
                            /\ msg' = [msg EXCEPT ![t] =
                                        [from |-> c, n |-> Head(inbox[c]).n]]
      BY <1>2 DEF ReadSize
    <3>2. Head(inbox[c]) \in Piece
      BY <3>1 DEF Readable, ClientType
    <3>3. msg' \in [Thread -> Message \cup {NoMsg}]
      BY <3>1, <3>2 DEF ThreadType, Message, Piece
    <3>. QED BY <1>2, <3>3 DEF ReadSize, ThreadType, Stage
  <2>3. (SocketType /\ AcceptorType /\ RegistryType /\ ProcessType)'
    BY <1>2 DEF ReadSize, SocketType, AcceptorType, RegistryType, ProcessType
  <2>4. Bookkeeping'
    BY <1>2 DEF ReadSize, Bookkeeping
  <2>5. Stages'
    <3>1. PICK c \in Conn : /\ Readable(t, c)
                            /\ msg' = [msg EXCEPT ![t] =
                                        [from |-> c, n |-> Head(inbox[c]).n]]
      BY <1>2 DEF ReadSize
    <3>2. Head(inbox[c]) \in Piece
      BY <3>1 DEF Readable, ClientType
    <3>3. msg'[t] \in Message
      BY <3>1, <3>2 DEF ThreadType, Message, Piece
    <3>. QED BY <1>2, <3>1, <3>3 DEF ReadSize, Stages, ThreadType
  <2>. QED BY <2>1, <2>2, <2>3, <2>4, <2>5
<1>3. CASE ReadTooBig(t)
  <2>1. ClientType'
    BY <1>3 DEF ReadTooBig, ClientType, Readable
  <2>2. ThreadType'
    BY <1>3 DEF ReadTooBig, ThreadType, Stage
  <2>3. (SocketType /\ AcceptorType /\ RegistryType /\ ProcessType)'
    BY <1>3 DEF ReadTooBig, SocketType, AcceptorType, RegistryType,
       ProcessType
  <2>4. Bookkeeping'
    BY <1>3 DEF ReadTooBig, Bookkeeping
  <2>5. Stages'
    BY <1>3 DEF ReadTooBig, Stages, ThreadType
  <2>. QED BY <2>1, <2>2, <2>3, <2>4, <2>5
<1>4. CASE ReadText(t)
  <2>1. ClientType'
    BY <1>4 DEF ReadText, ClientType, Readable
  <2>2. ThreadType'
    BY <1>4 DEF ReadText, ThreadType, AfterText, Stage
  <2>3. (SocketType /\ AcceptorType /\ RegistryType /\ ProcessType)'
    BY <1>4 DEF ReadText, SocketType, AcceptorType, RegistryType, ProcessType
  <2>4. Bookkeeping'
    BY <1>4 DEF ReadText, Bookkeeping
  <2>5. Stages'
    BY <1>4 DEF ReadText, Stages, AfterText, Joined, ThreadType
  <2>. QED BY <2>1, <2>2, <2>3, <2>4, <2>5
<1>5. CASE ReadEof(t)
  <2>1. ThreadType'
    BY <1>5 DEF ReadEof, ThreadType, Stage
  <2>2. (ClientType /\ SocketType /\ AcceptorType /\ RegistryType
          /\ ProcessType)'
    BY <1>5 DEF ReadEof, ClientType, SocketType, AcceptorType, RegistryType,
       ProcessType
  <2>3. Bookkeeping'
    BY <1>5 DEF ReadEof, Bookkeeping
  <2>4. Stages'
    BY <1>5 DEF ReadEof, Stages, ThreadType
  <2>. QED BY <2>1, <2>2, <2>3, <2>4
<1>6. CASE ReadError(t)
  <2>1. SocketType'
    BY <1>6 DEF ReadError, SocketType, CloseFd
  <2>2. ThreadType'
    BY <1>6 DEF ReadError, ThreadType, Stage
  <2>3. (ClientType /\ AcceptorType /\ RegistryType /\ ProcessType)'
    BY <1>6 DEF ReadError, ClientType, AcceptorType, RegistryType, ProcessType
  <2>4. Bookkeeping'
    BY <1>6 DEF ReadError, Bookkeeping
  <2>5. Stages'
    BY <1>6 DEF ReadError, Stages, ThreadType
  <2>. QED BY <2>1, <2>2, <2>3, <2>4, <2>5
<1>7. CASE ReadTextFails(t)
  <2>1. ProcessType'
    BY <1>7 DEF ReadTextFails, ProcessType, Dies
  <2>2. (ClientType /\ SocketType /\ AcceptorType /\ ThreadType
          /\ RegistryType)'
    BY <1>7 DEF ReadTextFails, ClientType, SocketType, AcceptorType,
       ThreadType, RegistryType, Dies
  <2>3. Bookkeeping'
    BY <1>7 DEF ReadTextFails, Bookkeeping, Dies
  <2>4. Stages'
    BY <1>7 DEF ReadTextFails, Stages, Dies
  <2>. QED BY <2>1, <2>2, <2>3, <2>4
<1>8. CASE NewClient(t)
  <2>1. ThreadType'
    BY <1>8 DEF NewClient, ThreadType, Stage
  <2>2. RegistryType'
    <3>1. msg[t].from \in Conn
      BY <1>8 DEF NewClient, Stages, Message
    <3>. QED BY <1>8, <3>1 DEF NewClient, NextId, RegistryType
  <2>3. (ClientType /\ SocketType /\ AcceptorType /\ ProcessType)'
    BY <1>8 DEF NewClient, ClientType, SocketType, AcceptorType, ProcessType
  <2>4. Bookkeeping'
    BY <1>8 DEF NewClient, Bookkeeping, Stages, RegistryType
  <2>5. Stages'
    <3>1. msg[t].from \in Conn
      BY <1>8 DEF NewClient, Stages, Message
    <3>. QED BY <1>8, <3>1 DEF NewClient, Stages, ThreadType, RegistryType
  <2>. QED BY <2>1, <2>2, <2>3, <2>4, <2>5
<1>9. CASE AddClient(t)
  <2>1. ThreadType'
    BY <1>9 DEF AddClient, ThreadType, Stage
  <2>2. RegistryType'
    BY <1>9 DEF AddClient, RegistryType, SocketType
  <2>3. (ClientType /\ SocketType /\ AcceptorType /\ ProcessType)'
    BY <1>9 DEF AddClient, ClientType, SocketType, AcceptorType, ProcessType
  <2>4. Bookkeeping'
    <3>1. t \notin all_clients /\ stat[t] = "LIVE"
      BY <1>9 DEF AddClient, Stages
    <3>2. IsFiniteSet(all_clients) /\ IsFiniteSet(current_clients)
      BY ClientsFinite
    <3>3. /\ Cardinality(all_clients \cup {t}) = Cardinality(all_clients) + 1
          /\ Cardinality(current_clients \cup {t})
             = Cardinality(current_clients) + 1
      BY <3>1, <3>2, FS_AddElement DEF Bookkeeping
    <3>. QED BY <1>9, <3>1, <3>3 DEF AddClient, Bookkeeping
  <2>5. Stages'
    BY <1>9 DEF AddClient, Stages, ThreadType
  <2>. QED BY <2>1, <2>2, <2>3, <2>4, <2>5
<1>10. CASE Talk(t)
  <2>1. ThreadType'
    BY <1>10 DEF Talk, ThreadType, Stage
  <2>2. (ClientType /\ SocketType /\ AcceptorType /\ RegistryType
          /\ ProcessType)'
    BY <1>10 DEF Talk, ClientType, SocketType, AcceptorType, RegistryType,
       ProcessType
  <2>3. Bookkeeping'
    BY <1>10 DEF Talk, Bookkeeping
  <2>4. Stages'
    BY <1>10 DEF Talk, Stages, ThreadType
  <2>. QED BY <2>1, <2>2, <2>3, <2>4
<1>11. CASE RemoveClient(t)
  <2>1. SocketType'
    BY <1>11 DEF RemoveClient, SocketType, CloseFd
  <2>2. ThreadType'
    <3>1. PICK u \in current_clients :
             msg' = [msg EXCEPT ![t] = [from |-> username[u], n |-> 0]]
      BY <1>11 DEF RemoveClient, FindInt
    <3>2. username[u] \in Conn
      BY <3>1 DEF Bookkeeping, Stages
    <3>. QED BY <1>11, <3>1, <3>2 DEF RemoveClient, ThreadType, Stage, Message
  <2>3. RegistryType'
    <3>1. num_connections \in Nat \ {0}
      BY <1>11, ClientsFinite, FS_EmptySet
         DEF RemoveClient, FindInt, Bookkeeping, RegistryType
    <3>. QED BY <1>11, <3>1 DEF RemoveClient, RegistryType, DeleteNode, FindInt
  <2>4. ProcessType'
    <3>1. threads' \in [Slot -> Thread \cup {NoThread, Acceptor}]
      BY <1>11, ConnectionsBound, ThreadsWithoutType DEF RemoveClient
    <3>. QED BY <1>11, <3>1 DEF RemoveClient, ProcessType
  <2>5. (ClientType /\ AcceptorType)'
    BY <1>11 DEF RemoveClient, ClientType, AcceptorType
  <2>6. Bookkeeping'
    <3>1. PICK u \in current_clients :
             /\ current_clients' = current_clients \ {u}
             /\ stat' = [stat EXCEPT ![u] = "DEAD"]
      BY <1>11 DEF RemoveClient, FindInt, DeleteNode
    <3>2. Cardinality(current_clients \ {u}) = Cardinality(current_clients) - 1
      BY <3>1, ClientsFinite, FS_RemoveElement
    <3>. QED BY <1>11, <3>1, <3>2 DEF RemoveClient, Bookkeeping, RegistryType
  <2>7. Stages'
    <3>1. PICK u \in current_clients :
             /\ msg' = [msg EXCEPT ![t] = [from |-> username[u], n |-> 0]]
             /\ stat' = [stat EXCEPT ![u] = "DEAD"]
      BY <1>11 DEF RemoveClient, FindInt
    <3>2. u \in all_clients /\ username[u] \in Conn
      BY <3>1 DEF Bookkeeping, Stages
    <3>3. msg'[t] \in Message
      BY <3>1, <3>2 DEF ThreadType, Message
    <3>. QED BY <1>11, <3>1, <3>2, <3>3 DEF RemoveClient, Stages, ThreadType,
                RegistryType
  <2>. QED BY <2>1, <2>2, <2>3, <2>4, <2>5, <2>6, <2>7
<1>12. CASE LookupFails(t)
  <2>1. ProcessType'
    BY <1>12 DEF LookupFails, ProcessType, Dies
  <2>2. (ClientType /\ SocketType /\ AcceptorType /\ ThreadType
          /\ RegistryType)'
    BY <1>12 DEF LookupFails, ClientType, SocketType, AcceptorType, ThreadType,
       RegistryType, Dies
  <2>3. Bookkeeping'
    BY <1>12 DEF LookupFails, Bookkeeping, Dies
  <2>4. Stages'
    BY <1>12 DEF LookupFails, Stages, Dies
  <2>. QED BY <2>1, <2>2, <2>3, <2>4
<1>13. CASE BeginBroadcast(t)
  <2>1. SocketType'
    BY <1>13 DEF BeginBroadcast, SocketType, Stages
  <2>2. ThreadType'
    BY <1>13 DEF BeginBroadcast, ThreadType, Stage, Audience, RegistryType,
       SocketType
  <2>3. ProcessType'
    BY <1>13 DEF BeginBroadcast, ProcessType, Lock
  <2>4. (ClientType /\ AcceptorType /\ RegistryType)'
    BY <1>13 DEF BeginBroadcast, ClientType, AcceptorType, RegistryType
  <2>5. Bookkeeping'
    BY <1>13 DEF BeginBroadcast, Bookkeeping
  <2>6. Stages'
    BY <1>13 DEF BeginBroadcast, Stages, ThreadType
  <2>. QED BY <2>1, <2>2, <2>3, <2>4, <2>5, <2>6
<1>14. CASE SendOne(t)
  <2>1. ClientType'
    BY <1>14 DEF SendOne, ClientType
  <2>2. SocketType'
    <3>1. CASE UNCHANGED log
      BY <1>14, <3>1 DEF SendOne, SocketType
    <3>2. CASE \E c : log' = [log EXCEPT ![c] = Append(@, turn[t])]
      <4>1. PICK c : log' = [log EXCEPT ![c] = Append(@, turn[t])]
        BY <3>2
      <4>2. log' \in [Conn -> Seq(Nat)]
        <5>1. \A x \in Conn : Append(log[x], turn[t]) \in Seq(Nat)
          BY DEF SocketType, ThreadType
        <5>. QED BY <4>1, <5>1 DEF SocketType
      <4>. QED BY <1>14, <4>2 DEF SendOne, SocketType
    <3>. QED BY <1>14, <3>1, <3>2 DEF SendOne
  <2>3. ThreadType'
    BY <1>14 DEF SendOne, ThreadType
  <2>4. (AcceptorType /\ RegistryType /\ ProcessType)'
    BY <1>14 DEF SendOne, AcceptorType, RegistryType, ProcessType
  <2>5. Bookkeeping'
    BY <1>14 DEF SendOne, Bookkeeping
  <2>6. Stages'
    BY <1>14 DEF SendOne, Stages
  <2>. QED BY <2>1, <2>2, <2>3, <2>4, <2>5, <2>6
<1>15. CASE SendFails(t)
  <2>1. ProcessType'
    BY <1>15 DEF SendFails, ProcessType, Dies
  <2>2. (ClientType /\ SocketType /\ AcceptorType /\ ThreadType
          /\ RegistryType)'
    BY <1>15, ZenonT(30) DEF SendFails, ClientType, SocketType, AcceptorType, ThreadType,
       RegistryType, Dies
  <2>3. Bookkeeping'
    BY <1>15 DEF SendFails, Bookkeeping, Dies
  <2>4. Stages'
    BY <1>15 DEF SendFails, Stages, Dies
  <2>. QED BY <2>1, <2>2, <2>3, <2>4
<1>16. CASE EndBroadcast(t)
  <2>1. ThreadType'
    BY <1>16 DEF EndBroadcast, ThreadType, AfterBroadcast, Stage
  <2>2. ProcessType'
    BY <1>16 DEF EndBroadcast, ProcessType, Unlock
  <2>3. (ClientType /\ SocketType /\ AcceptorType /\ RegistryType)'
    BY <1>16 DEF EndBroadcast, ClientType, SocketType, AcceptorType,
       RegistryType
  <2>4. Bookkeeping'
    BY <1>16 DEF EndBroadcast, Bookkeeping
  <2>5. Stages'
    BY <1>16 DEF EndBroadcast, Stages, AfterBroadcast, ThreadType
  <2>. QED BY <2>1, <2>2, <2>3, <2>4, <2>5
<1>17. CASE ThreadCancelled(t)
  <2>1. ThreadType'
    BY <1>17 DEF ThreadCancelled, ThreadType, Stage
  <2>2. (ClientType /\ SocketType /\ AcceptorType /\ RegistryType
          /\ ProcessType)'
    BY <1>17 DEF ThreadCancelled, ClientType, SocketType, AcceptorType,
       RegistryType, ProcessType
  <2>3. Bookkeeping'
    BY <1>17 DEF ThreadCancelled, Bookkeeping
  <2>4. Stages'
    BY <1>17 DEF ThreadCancelled, Stages, ThreadType
  <2>. QED BY <2>1, <2>2, <2>3, <2>4
<1>18. CASE TouchFreed(t)
  <2>1. ProcessType'
    BY <1>18 DEF TouchFreed, ProcessType, Dies
  <2>2. (ClientType /\ SocketType /\ AcceptorType /\ ThreadType
          /\ RegistryType)'
    BY <1>18 DEF TouchFreed, ClientType, SocketType, AcceptorType, ThreadType,
       RegistryType, Dies
  <2>3. Bookkeeping'
    BY <1>18 DEF TouchFreed, Bookkeeping, Dies
  <2>4. Stages'
    BY <1>18 DEF TouchFreed, Stages, Dies
  <2>. QED BY <2>1, <2>2, <2>3, <2>4
<1>. QED
  BY <1>1, <1>2, <1>3, <1>4, <1>5, <1>6, <1>7, <1>8, <1>9, <1>10, <1>11, <1>12,
     <1>13, <1>14, <1>15, <1>16, <1>17, <1>18 DEF ThreadStep

\* Every step, and a stutter, preserves the invariant.
LEMMA NextInv == Inv /\ [Next]_vars => Inv'
<1>. SUFFICES ASSUME Inv, [Next]_vars PROVE Inv'
  OBVIOUS
<1>1. CASE Next
  BY <1>1, EnvironmentInv, AcceptorInv, MainInv, ThreadInv DEF Next
<1>2. CASE UNCHANGED vars
  BY <1>2, ZenonT(60) DEF vars, client, acc, thr, trav, reg, proc, Inv, TypeOK, ClientType,
     SocketType, AcceptorType, ThreadType, RegistryType, ProcessType,
     Bookkeeping, Stages
<1>. QED BY <1>1, <1>2

LEMMA Invariance == Spec => []Inv
<1>. QED BY InitInv, NextInv, PTL DEF Spec

\* The variables keep their types: no counter of the server goes below zero,
\* since a departing client is found before num_connections is decremented.
THEOREM TypeCorrect == Spec => []TypeOK
<1>1. Inv => TypeOK
  BY DEF Inv
<1>. QED BY <1>1, Invariance, PTL

\* num_connections and num_clients are the sizes of the two trees and the LIVE
\* clients are those of current_clients, for any number of clients and threads
\* and whatever goes wrong outside (add_client and communicate_with_client).
THEOREM BookkeepingHolds == Spec => []Bookkeeping
<1>1. Inv => Bookkeeping
  BY DEF Inv
<1>. QED BY <1>1, Invariance, PTL

------------------------------------------------------------------------------
(* The order of broadcasts. *)

OrderInv == OneOrder /\ SendersHoldMutex /\ LogsBounded /\ NotStarted

LEMMA OrderInit == Init => OrderInv
BY DEF Init, OrderInv, OneOrder, SendersHoldMutex, LogsBounded, NotStarted

\* Steps that leave the logs, the history and the senders alone.
LEMMA OrderFrame ==
    ASSUME OrderInv, NotStarted', UNCHANGED <<log, history, turn>>,
           \A t \in Thread : pc'[t] = "send" => pc[t] = "send",
           \A t \in Thread : pc[t] = "send" => mut' = mut
    PROVE  OrderInv'
BY DEF OrderInv, OneOrder, SendersHoldMutex, LogsBounded

LEMMA OrderNext == Inv /\ OrderInv /\ Next => OrderInv'
<1>. SUFFICES ASSUME Inv, OrderInv, Next PROVE OrderInv'
  OBVIOUS
<1>. USE ConstantsAssumption DEF client, trav, thr, acc, reg, proc
<1>1. CASE Environment
  <2>1. NotStarted' /\ UNCHANGED <<log, history, turn, pc, mut>>
    BY <1>1 DEF Environment, ConsoleEof, Connect, SendString, Quit,
       ReceiveString, OrderInv, NotStarted
  <2>. QED BY <2>1, OrderFrame
<1>2. CASE AcceptorStep
  <2>1. NotStarted'
    BY <1>2 DEF AcceptorStep, Accept, AcceptFails, CreateThread,
       CreateThreadFails, AcceptorCancelled, Dies,
       OrderInv, NotStarted
  <2>2. UNCHANGED <<log, history, turn, mut>>
    BY <1>2 DEF AcceptorStep, Accept, AcceptFails, CreateThread,
       CreateThreadFails, AcceptorCancelled, Dies
  <2>3. \A t \in Thread : pc'[t] = "send" => pc[t] = "send"
    BY <1>2 DEF AcceptorStep, Accept, AcceptFails, CreateThread,
       CreateThreadFails, AcceptorCancelled, Dies,
       Inv, TypeOK, ThreadType
  <2>. QED BY <2>1, <2>2, <2>3, OrderFrame
<1>3. CASE MainStep
  <2>1. NotStarted' /\ UNCHANGED <<log, history, turn, pc>>
    BY <1>3 DEF MainStep, StartAcceptor, StartAcceptorFails, Shutdown,
       ShutdownFails, Exit, Dies, OrderInv, NotStarted
  <2>2. CASE StartAcceptorFails
    <3>1. \A t \in Thread : pc[t] = "none"
      BY <2>2 DEF StartAcceptorFails, OrderInv, NotStarted, Inv, Stages, Thread
    <3>. QED BY <2>1, <3>1, OrderFrame
  <2>3. CASE ~StartAcceptorFails
    <3>1. UNCHANGED mut
      BY <1>3, <2>3 DEF MainStep, StartAcceptor, Shutdown, ShutdownFails,
         Exit, Dies
    <3>. QED BY <2>1, <3>1, OrderFrame
  <2>. QED BY <2>2, <2>3
<1>4. ASSUME NEW t \in Thread, BeginBroadcast(t) PROVE OrderInv'
  <2>1. /\ mut = NoThread /\ mut' = t
        /\ turn' = [turn EXCEPT ![t] = Len(history) + 1]
        /\ history' = Append(history, msg[t])
        /\ pc' = [pc EXCEPT ![t] = "send"]
        /\ UNCHANGED <<log, mainPc, accPc, created>>
    BY <1>4 DEF BeginBroadcast, Lock
  <2>2. Len(history') = Len(history) + 1 /\ Len(history) \in Nat
    BY <2>1 DEF Inv, TypeOK, SocketType
  <2>3. \A s \in Thread : pc[s] # "send"
    BY <2>1 DEF OrderInv, SendersHoldMutex, Thread, NoThread
  <2>4. SendersHoldMutex'
    BY <2>1, <2>2, <2>3 DEF SendersHoldMutex, Inv, TypeOK, ThreadType
  <2>5. LogsBounded'
    <3>1. \A c \in Conn : log[c] \in Seq(Nat)
      BY DEF Inv, TypeOK, SocketType
    <3>2. \A c \in Conn : \A i \in DOMAIN log[c] : log[c][i] \in Nat
      BY <3>1
    <3>. QED BY <2>1, <2>2, <3>2 DEF OrderInv, LogsBounded
  <2>. QED BY <2>1, <2>4, <2>5 DEF OrderInv, OneOrder, NotStarted
<1>5. ASSUME NEW t \in Thread, SendOne(t) PROVE OrderInv'
  <2>1. /\ pc[t] = "send"
        /\ UNCHANGED <<pc, mut, turn, history, mainPc, accPc, created>>
    BY <1>5 DEF SendOne
  <2>2. SendersHoldMutex' /\ NotStarted'
    BY <2>1 DEF OrderInv, SendersHoldMutex, NotStarted
  <2>3. CASE UNCHANGED log
    BY <2>1, <2>2, <2>3 DEF OrderInv, OneOrder, LogsBounded
  <2>4. CASE \E d : log' = [log EXCEPT ![d] = Append(@, turn[t])]
    <3>1. PICK d : log' = [log EXCEPT ![d] = Append(@, turn[t])]
      BY <2>4
    <3>2. turn[t] = Len(history) /\ Len(history) \in Nat
      BY <2>1 DEF OrderInv, SendersHoldMutex, Inv, TypeOK, SocketType
    <3>3. ASSUME NEW c \in Conn
          PROVE  /\ \A i \in DOMAIN log'[c] : log'[c][i] <= Len(history)
                 /\ \A i, j \in DOMAIN log'[c] :
                       i <= j => log'[c][i] <= log'[c][j]
      <4>1. log[c] \in Seq(Nat)
        BY DEF Inv, TypeOK, SocketType
      <4>2. /\ \A i \in DOMAIN log[c] : log[c][i] <= Len(history)
            /\ \A i, j \in DOMAIN log[c] : i <= j => log[c][i] <= log[c][j]
        BY DEF OrderInv, OneOrder, LogsBounded
      <4>3. CASE c # d
        BY <3>1, <4>2, <4>3 DEF Inv, TypeOK, SocketType
      <4>4. CASE c = d
        <5>1. log'[c] = Append(log[c], Len(history))
          BY <3>1, <3>2, <4>4 DEF Inv, TypeOK, SocketType
        <5>2. /\ DOMAIN log'[c] = 1..Len(log[c]) + 1
              /\ log'[c][Len(log[c]) + 1] = Len(history)
              /\ \A i \in 1..Len(log[c]) : log'[c][i] = log[c][i]
          <6>. DEFINE s == Append(log[c], Len(history))
          <6>1. /\ s \in Seq(Nat) /\ Len(s) = Len(log[c]) + 1
                /\ s[Len(log[c]) + 1] = Len(history)
                /\ \A i \in 1..Len(log[c]) : s[i] = log[c][i]
            BY <4>1, <3>2, AppendProperties
          <6>2. DOMAIN s = 1..Len(log[c]) + 1
            BY <6>1
          <6>. HIDE DEF s
          <6>3. log'[c] = s
            BY <5>1 DEF s
          <6>. QED BY <6>1, <6>2, <6>3
        <5>3. DOMAIN log[c] = 1..Len(log[c]) /\ Len(log[c]) \in Nat
          BY <4>1
        <5>4. \A i \in 1..Len(log[c]) : log[c][i] \in Nat
          BY <4>1
        <5>5. \A i \in DOMAIN log'[c] : log'[c][i] <= Len(history)
          BY <5>2, <5>3, <4>2, <3>2
        <5>6. ASSUME NEW i \in DOMAIN log'[c], NEW j \in DOMAIN log'[c], i <= j
              PROVE  log'[c][i] <= log'[c][j]
          <6>1. CASE j = Len(log[c]) + 1
            BY <5>2, <5>5, <6>1
          <6>2. CASE j # Len(log[c]) + 1
            BY <5>2, <5>3, <5>6, <6>2, <4>2, SMTT(60)
          <6>. QED BY <6>1, <6>2
        <5>. QED BY <5>5, <5>6
      <4>. QED BY <4>3, <4>4
    <3>. QED BY <2>1, <2>2, <3>3 DEF OrderInv, OneOrder, LogsBounded
  <2>. QED BY <1>5, <2>3, <2>4 DEF SendOne
<1>6. ASSUME NEW t \in Thread, EndBroadcast(t) PROVE OrderInv'
  <2>1. /\ pc[t] = "send" /\ mut' = NoThread
        /\ pc' = [pc EXCEPT ![t] = AfterBroadcast(t)]
        /\ UNCHANGED <<log, history, mainPc, accPc, created>>
    BY <1>6 DEF EndBroadcast, Unlock
  <2>2. \A s \in Thread : pc'[s] # "send"
    BY <2>1 DEF OrderInv, SendersHoldMutex, Inv, TypeOK, ThreadType,
       AfterBroadcast
  <2>. QED BY <2>1, <2>2
       DEF OrderInv, OneOrder, SendersHoldMutex, LogsBounded, NotStarted
<1>7. ASSUME NEW t \in Thread, ThreadStep(t),
             ~BeginBroadcast(t), ~SendOne(t), ~EndBroadcast(t)
      PROVE  OrderInv'
  <2>1. /\ UNCHANGED <<log, history, turn, mut, accPc, created>>
        /\ mainPc' = mainPc
    BY <1>7 DEF ThreadStep, StartThread, ReadSize, ReadTooBig, ReadText,
       ReadEof, ReadError, ReadTextFails, NewClient, AddClient, Talk,
       RemoveClient, LookupFails, SendFails, ThreadCancelled,
       TouchFreed, Dies
  <2>2. \/ UNCHANGED pc
        \/ \E stage \in Stage \ {"send"} : pc' = [pc EXCEPT ![t] = stage]
    BY <1>7 DEF ThreadStep, StartThread, ReadSize, ReadTooBig, ReadText,
       ReadEof, ReadError, ReadTextFails, NewClient, AddClient, Talk,
       RemoveClient, LookupFails, SendFails, ThreadCancelled,
       TouchFreed, Dies, AfterText, Stage
  <2>3. \A s \in Thread : pc'[s] = "send" => pc[s] = "send"
    BY <2>2 DEF Inv, TypeOK, ThreadType
  <2>. QED BY <2>1, <2>3, OrderFrame DEF OrderInv, NotStarted
<1>. QED
  BY <1>1, <1>2, <1>3, <1>4, <1>5, <1>6, <1>7 DEF Next

LEMMA OrderInvariance == Spec => []OrderInv
<1>1. Inv /\ OrderInv /\ UNCHANGED vars => OrderInv'
  BY DEF vars, client, acc, thr, trav, reg, proc, OrderInv, OneOrder,
     SendersHoldMutex, LogsBounded, NotStarted
<1>. QED BY <1>1, OrderInit, OrderNext, Invariance, PTL DEF Spec

\* All clients see the broadcasts in one order, that of the mutex, for any
\* number of clients and threads (send_message_to_clients holds it throughout).
THEOREM OneOrderHolds == Spec => []OneOrder
<1>1. OrderInv => OneOrder
  BY DEF OrderInv
<1>. QED BY <1>1, OrderInvariance, PTL

------------------------------------------------------------------------------
(* What brings the server down. *)

\* A process that has ended takes no step.
LEMMA EndedNext ==
    ASSUME status \notin {"run", "freed"}
    PROVE  ~Next
<1>1. ~Environment
  BY DEF Environment, ConsoleEof, Connect, SendString, Quit, ReceiveString, Alive
<1>2. ~AcceptorStep
  BY DEF AcceptorStep, Accept, AcceptFails, CreateThread, CreateThreadFails,
     AcceptorCancelled, Alive
<1>3. ~MainStep
  BY DEF MainStep, StartAcceptor, StartAcceptorFails, Shutdown, ShutdownFails,
     Exit, Alive
<1>4. ASSUME NEW t \in Thread PROVE ~ThreadStep(t)
  BY DEF ThreadStep, StartThread, ReadSize, ReadTooBig, ReadText, ReadEof,
     ReadError, ReadTextFails, NewClient, AddClient, Talk, RemoveClient,
     LookupFails, BeginBroadcast, SendOne, SendFails, EndBroadcast,
     ThreadCancelled, TouchFreed, Readable, AtEof, AtError, Alive
<1>. QED BY <1>1, <1>2, <1>3, <1>4 DEF Next

IsOpen(f) == f \in 1..MaxFd /\ fdTable[f] # NoConn

\* The connections that have come wait once in the backlog or have one descriptor.
Placed ==
    /\ \A f, g \in 1..MaxFd : fdTable[f] # NoConn /\ fdTable[f] = fdTable[g] => f = g
    /\ \A i, j \in DOMAIN backlog : backlog[i] = backlog[j] => i = j
    /\ \A i \in DOMAIN backlog : \A f \in 1..MaxFd : fdTable[f] # backlog[i]
    /\ \A i \in DOMAIN backlog : peer[backlog[i]] = "open"
    /\ \A f \in 1..MaxFd : fdTable[f] # NoConn => peer[fdTable[f]] = "open"

\* Every thread's descriptor is open, and the one it is about to pick up.
Attended ==
    /\ accPc = "create" => IsOpen(acceptFd)
    /\ \A t \in Thread : pc[t] = "start" => IsOpen(acceptFd)
    /\ \A t \in Thread : pc[t] \notin {"none", "start"} => IsOpen(fd[t])

\* No thread has been told to leave, and every client that joined is there.
Members ==
    /\ cancelled = {} /\ current_clients = all_clients
    /\ \A t \in Thread : /\ pc[t] # "quit" /\ todo[t] \subseteq all_clients
                         /\ pc[t] = "talk" => Joined(t)

Staying == AllStay /\ mainPc \in {"start", "console"}
StayFacts == status = "run" /\ Placed /\ Attended /\ Members
StayInv == Staying => OutOfDescriptors \/ StayFacts

LEMMA StayInit == Init => StayInv
<1>. SUFFICES ASSUME Init PROVE StayFacts
  BY DEF StayInv
<1>1. DOMAIN backlog = {}
  BY DEF Init
<1>. QED
  BY <1>1 DEF Init, StayFacts, Placed, Attended, Members, IsOpen

\* Where a connection that has come is.
LEMMA WhereItIs ==
    ASSUME NEW c \in Conn, AllStay, peer[c] # "none"
    PROVE  /\ peer[c] = "open"
           /\ (\E i \in DOMAIN backlog : backlog[i] = c) \/ \E f \in 1..MaxFd : fdTable[f] = c
BY DEF AllStay, CutOff

\* The first of the backlog and the rest.
LEMMA TakeFirst ==
    ASSUME Inv, backlog # <<>>
    PROVE  /\ Head(backlog) = backlog[1] /\ Head(backlog) \in Conn /\ 1 \in DOMAIN backlog
           /\ \A i \in DOMAIN Tail(backlog) : /\ i + 1 \in DOMAIN backlog /\ i + 1 # 1
                                              /\ Tail(backlog)[i] = backlog[i + 1]
           /\ \A i \in DOMAIN backlog : i = 1 \/ \E j \in DOMAIN Tail(backlog) :
                                                    i = j + 1 /\ Tail(backlog)[j] = backlog[i]
<1>1. backlog \in Seq(Conn)
  BY DEF Inv, TypeOK, SocketType
<1>2. /\ Tail(backlog) \in Seq(Conn) /\ Len(Tail(backlog)) = Len(backlog) - 1
      /\ Len(backlog) \in Nat \ {0}
      /\ \A i \in 1..Len(Tail(backlog)) : Tail(backlog)[i] = backlog[i + 1]
      /\ Head(backlog) = backlog[1] /\ Head(backlog) \in Conn
  BY <1>1, HeadTailProperties, EmptySeq, LenProperties
<1>3. DOMAIN backlog = 1..Len(backlog) /\ DOMAIN Tail(backlog) = 1..Len(Tail(backlog))
  BY <1>1, <1>2, LenProperties
<1>4. ASSUME NEW i \in DOMAIN backlog, i # 1
      PROVE  \E j \in DOMAIN Tail(backlog) : i = j + 1 /\ Tail(backlog)[j] = backlog[i]
  <2>1. i - 1 \in DOMAIN Tail(backlog) /\ i = (i - 1) + 1
    BY <1>2, <1>3, <1>4
  <2>2. Tail(backlog)[i - 1] = backlog[i]
    BY <1>2, <1>3, <2>1
  <2>. QED BY <2>1, <2>2
<1>. QED BY <1>2, <1>3, <1>4

\* The last of the backlog and the others.
LEMMA AddLast ==
    ASSUME Inv, NEW c \in Conn
    PROVE  \E n \in Nat :
              /\ n \notin DOMAIN backlog /\ DOMAIN Append(backlog, c) = DOMAIN backlog \cup {n}
              /\ Append(backlog, c)[n] = c
              /\ \A i \in DOMAIN backlog : Append(backlog, c)[i] = backlog[i]
<1>1. backlog \in Seq(Conn)
  BY DEF Inv, TypeOK, SocketType
<1>2. PICK n \in Nat : n = Len(backlog) + 1
  BY <1>1, LenProperties
<1>3. DOMAIN backlog = 1..(n - 1) /\ DOMAIN Append(backlog, c) = 1..n
  BY <1>1, <1>2, LenProperties, AppendProperties
<1>. QED BY <1>1, <1>2, <1>3, AppendProperties

\* Clients that are all there now were all there before.
LEMMA StayedBefore ==
    ASSUME Inv, Next, Staying' PROVE Staying
<1>. USE DEF client, acc, trav, thr, reg, proc
<1>1. mainPc \in {"start", "console"}
  <2>1. CASE Environment
    BY <2>1 DEF Environment, ConsoleEof, Connect, SendString, Quit, ReceiveString, Staying
  <2>2. CASE AcceptorStep
    BY <2>2 DEF AcceptorStep, Accept, AcceptFails, CreateThread, CreateThreadFails,
       AcceptorCancelled, Dies, Staying
  <2>3. CASE MainStep
    BY <2>3 DEF MainStep, StartAcceptor, StartAcceptorFails, Shutdown, ShutdownFails,
       Exit, Dies, Staying
  <2>4. ASSUME NEW t \in Thread, ThreadStep(t) PROVE mainPc' = mainPc
    BY <2>4 DEF ThreadStep, StartThread, ReadSize, ReadTooBig, ReadText, ReadEof,
       ReadError, ReadTextFails, NewClient, AddClient, Talk, RemoveClient,
       LookupFails, BeginBroadcast, SendOne, SendFails, EndBroadcast,
       ThreadCancelled, TouchFreed, Dies
  <2>. QED BY <2>1, <2>2, <2>3, <2>4 DEF Next, Staying
<1>2. \/ UNCHANGED <<peer, backlog, fdTable>>
      \/ \E c \in Conn : Connect(c) \/ Quit(c)
      \/ Accept
      \/ UNCHANGED <<peer, backlog>>
         /\ \A f \in 1..MaxFd : fdTable'[f] \in {fdTable[f], NoConn}
      \/ UNCHANGED <<backlog, fdTable>> /\ \E c \in Conn : peer' = [peer EXCEPT ![c] = "finrst"]
  <2>1. CASE Environment
    BY <2>1 DEF Environment, ConsoleEof, SendString, ReceiveString
  <2>2. CASE AcceptorStep
    BY <2>2 DEF AcceptorStep, AcceptFails, CreateThread, CreateThreadFails,
       AcceptorCancelled, Dies, Inv, TypeOK, SocketType
  <2>3. CASE MainStep
    BY <2>3 DEF MainStep, StartAcceptor, StartAcceptorFails, Shutdown, ShutdownFails,
       Exit, Dies, Inv, TypeOK, SocketType
  <2>4. ASSUME NEW t \in Thread, ThreadStep(t)
        PROVE  \/ UNCHANGED <<peer, backlog, fdTable>>
               \/ UNCHANGED <<peer, backlog>>
                  /\ \A f \in 1..MaxFd : fdTable'[f] \in {fdTable[f], NoConn}
               \/ UNCHANGED <<backlog, fdTable>>
                  /\ \E c \in Conn : peer' = [peer EXCEPT ![c] = "finrst"]
    <3>1. CASE ReadError(t) \/ RemoveClient(t)
      BY <3>1 DEF ReadError, RemoveClient, CloseFd
    <3>2. CASE SendOne(t)
      <4>1. PICK u \in todo[t] : ConnOf(u) # NoConn
                 /\ \/ UNCHANGED peer
                    \/ peer' = [peer EXCEPT ![ConnOf(u)] = "finrst"]
        BY <3>2 DEF SendOne
      <4>2. ConnOf(u) \in Conn
        BY <4>1 DEF ConnOf, Inv, TypeOK, SocketType
      <4>. QED BY <3>2, <4>1, <4>2 DEF SendOne
    <3>3. CASE ~(ReadError(t) \/ RemoveClient(t) \/ SendOne(t))
      BY <2>4, <3>3 DEF ThreadStep, StartThread, ReadSize, ReadTooBig, ReadText, ReadEof,
         ReadTextFails, NewClient, AddClient, Talk, LookupFails, BeginBroadcast,
         SendFails, EndBroadcast, ThreadCancelled, TouchFreed, Dies
    <3>. QED BY <3>1, <3>2, <3>3
  <2>. QED BY <2>1, <2>2, <2>3, <2>4 DEF Next
<1>3. /\ peer \in [Conn -> {"none", "open", "fin", "finrst", "rst"}]
      /\ \A c \in Conn : c # NoConn
  BY ConstantsAssumption DEF Inv, TypeOK, ClientType
<1>4. CASE UNCHANGED <<peer, backlog, fdTable>>
  BY <1>1, <1>4 DEF Staying, AllStay, CutOff
<1>5. ASSUME NEW c \in Conn, Connect(c) PROVE AllStay
  <2>1. /\ peer[c] = "none" /\ peer' = [peer EXCEPT ![c] = "open"]
        /\ backlog' = Append(backlog, c) /\ fdTable' = fdTable
    BY <1>5 DEF Connect
  <2>2. PICK n \in Nat :
           /\ DOMAIN backlog' = DOMAIN backlog \cup {n} /\ backlog'[n] = c
           /\ \A i \in DOMAIN backlog : backlog'[i] = backlog[i]
    BY <2>1, AddLast
  <2>3. ASSUME NEW d \in Conn, peer[d] # "none"
        PROVE  peer[d] = "open" /\ ~CutOff(d)
    <3>1. d # c /\ peer'[d] = peer[d]
      BY <1>3, <2>1, <2>3
    <3>2. /\ peer'[d] = "open"
          /\ (\E i \in DOMAIN backlog' : backlog'[i] = d) \/ \E f \in 1..MaxFd : fdTable'[f] = d
      BY <2>3, <3>1 DEF Staying, AllStay, CutOff
    <3>3. (\E i \in DOMAIN backlog : backlog[i] = d) \/ \E f \in 1..MaxFd : fdTable[f] = d
      BY <2>1, <2>2, <3>1, <3>2
    <3>. QED BY <3>1, <3>2, <3>3 DEF CutOff
  <2>. QED BY <2>3 DEF AllStay, CutOff
<1>6. ASSUME NEW c \in Conn, Quit(c) PROVE FALSE
  <2>1. peer'[c] \in {"fin", "rst"}
    BY <1>3, <1>6 DEF Quit
  <2>. QED BY <2>1 DEF Staying, AllStay
<1>7. CASE Accept
  <2>1. PICK f \in 1..MaxFd : fdTable' = [fdTable EXCEPT ![f] = Head(backlog)]
    BY <1>7 DEF Accept, FreeFds
  <2>2. backlog # <<>> /\ backlog' = Tail(backlog) /\ peer' = peer
    BY <1>7 DEF Accept
  <2>3. /\ Head(backlog) = backlog[1] /\ 1 \in DOMAIN backlog
        /\ \A i \in DOMAIN backlog' : i + 1 \in DOMAIN backlog /\ backlog'[i] = backlog[i + 1]
    BY <2>2, TakeFirst
  <2>4. \A g \in 1..MaxFd : fdTable'[g] \in {fdTable[g], backlog[1]}
    BY <2>1, <2>3 DEF Inv, TypeOK, SocketType
  <2>5. ASSUME NEW d \in Conn, peer[d] # "none"
        PROVE  peer[d] = "open" /\ ~CutOff(d)
    <3>1. /\ peer[d] = "open"
          /\ (\E i \in DOMAIN backlog' : backlog'[i] = d) \/ \E g \in 1..MaxFd : fdTable'[g] = d
      BY <2>2, <2>5 DEF Staying, AllStay, CutOff
    <3>2. (\E i \in DOMAIN backlog : backlog[i] = d) \/ \E g \in 1..MaxFd : fdTable[g] = d
      BY <2>3, <2>4, <3>1
    <3>. QED BY <3>1, <3>2 DEF CutOff
  <2>. QED BY <1>1, <2>5 DEF Staying, AllStay, CutOff
<1>8. CASE /\ UNCHANGED <<peer, backlog>>
           /\ \A f \in 1..MaxFd : fdTable'[f] \in {fdTable[f], NoConn}
  <2>1. ASSUME NEW d \in Conn, CutOff(d) PROVE CutOff(d)'
    BY <1>3, <1>8, <2>1 DEF CutOff
  <2>. QED BY <1>1, <1>8, <2>1 DEF Staying, AllStay
<1>9. ASSUME NEW c \in Conn, peer' = [peer EXCEPT ![c] = "finrst"] PROVE FALSE
  <2>1. peer'[c] = "finrst"
    BY <1>3, <1>9
  <2>. QED BY <2>1 DEF Staying, AllStay
<1>. QED BY <1>1, <1>2, <1>4, <1>5, <1>6, <1>7, <1>8, <1>9 DEF Staying

\* Nothing that matters here changes.
LEMMA StaySame ==
    ASSUME StayFacts, UNCHANGED <<peer, backlog, fdTable, pc, fd, todo, acceptFd,
                                  current_clients, all_clients, cancelled, status>>,
           accPc' = accPc \/ accPc' # "create"
    PROVE  StayFacts'
<1>1. Placed'
  BY DEF StayFacts, Placed
<1>2. Attended'
  BY DEF StayFacts, Attended, IsOpen
<1>3. Members'
  BY DEF StayFacts, Members, Joined
<1>. QED BY <1>1, <1>2, <1>3 DEF StayFacts

LEMMA ConnectStays ==
    ASSUME Inv, StayFacts, NEW c \in Conn, Connect(c) PROVE StayFacts'
<1>. USE DEF client, acc, trav, thr, reg, proc
<1>1. /\ peer[c] = "none" /\ peer' = [peer EXCEPT ![c] = "open"]
      /\ backlog' = Append(backlog, c) /\ fdTable' = fdTable
  BY DEF Connect
<1>2. PICK n \in Nat :
         /\ DOMAIN backlog' = DOMAIN backlog \cup {n} /\ backlog'[n] = c
         /\ \A i \in DOMAIN backlog : backlog'[i] = backlog[i]
  BY <1>1, AddLast
<1>3. /\ \A i \in DOMAIN backlog : backlog[i] \in Conn /\ backlog[i] # c
      /\ \A f \in 1..MaxFd : fdTable[f] # c
  <2>1. \A f \in 1..MaxFd : fdTable[f] # c
    BY <1>1, ConstantsAssumption DEF StayFacts, Placed
  <2>2. \A i \in DOMAIN backlog : backlog[i] # c
    BY <1>1 DEF StayFacts, Placed
  <2>3. \A i \in DOMAIN backlog : backlog[i] \in Conn
    BY ElementOfSeq, LenProperties DEF Inv, TypeOK, SocketType
  <2>. QED BY <2>1, <2>2, <2>3
<1>4. peer'[c] = "open" /\ \A d \in Conn : d # c => peer'[d] = peer[d]
  BY <1>1 DEF Inv, TypeOK, ClientType
<1>5. \A f \in 1..MaxFd : fdTable[f] # NoConn => fdTable[f] \in Conn
  BY DEF Inv, TypeOK, SocketType
<1>6. Placed'
  <2>1. \A i, j \in DOMAIN backlog' : backlog'[i] = backlog'[j] => i = j
    BY <1>2, <1>3 DEF StayFacts, Placed
  <2>2. \A i \in DOMAIN backlog' : \A f \in 1..MaxFd : fdTable'[f] # backlog'[i]
    BY <1>1, <1>2, <1>3 DEF StayFacts, Placed
  <2>3. \A i \in DOMAIN backlog' : peer'[backlog'[i]] = "open"
    BY <1>2, <1>3, <1>4 DEF StayFacts, Placed
  <2>4. \A f \in 1..MaxFd : fdTable'[f] # NoConn => peer'[fdTable'[f]] = "open"
    BY <1>1, <1>3, <1>4, <1>5 DEF StayFacts, Placed
  <2>. QED BY <1>1, <2>1, <2>2, <2>3, <2>4 DEF StayFacts, Placed
<1>7. Attended' /\ Members' /\ status' = "run"
  BY DEF Connect, StayFacts, Attended, Members, IsOpen, Joined
<1>. QED BY <1>6, <1>7 DEF StayFacts

LEMMA AcceptStays ==
    ASSUME Inv, StayFacts, Accept PROVE StayFacts'
<1>. USE DEF client, acc, trav, thr, reg, proc
<1>1. PICK f \in 1..MaxFd : /\ fdTable[f] = NoConn /\ acceptFd' = f
                            /\ fdTable' = [fdTable EXCEPT ![f] = Head(backlog)]
  BY DEF Accept, FreeFds
<1>2. backlog # <<>> /\ backlog' = Tail(backlog) /\ peer' = peer
  BY DEF Accept
<1>3. /\ Head(backlog) = backlog[1] /\ Head(backlog) \in Conn /\ 1 \in DOMAIN backlog
      /\ \A i \in DOMAIN backlog' :
            i + 1 \in DOMAIN backlog /\ i + 1 # 1 /\ backlog'[i] = backlog[i + 1]
  BY <1>2, TakeFirst
<1>4. fdTable'[f] = backlog[1] /\ backlog[1] # NoConn
      /\ \A g \in 1..MaxFd : g # f => fdTable'[g] = fdTable[g]
  BY <1>1, <1>3, ConstantsAssumption DEF Inv, TypeOK, SocketType
<1>5. Placed'
  <2>1. \A g, h \in 1..MaxFd : fdTable'[g] # NoConn /\ fdTable'[g] = fdTable'[h] => g = h
    BY <1>3, <1>4 DEF StayFacts, Placed
  <2>2. \A i, j \in DOMAIN backlog' : backlog'[i] = backlog'[j] => i = j
    <3>1. ASSUME NEW i \in DOMAIN backlog', NEW j \in DOMAIN backlog',
                 backlog'[i] = backlog'[j]
          PROVE  i = j
      <4>1. i + 1 = j + 1
        BY <1>3, <3>1 DEF StayFacts, Placed
      <4>2. i \in Nat /\ j \in Nat
        BY <1>2, LenProperties, HeadTailProperties DEF Inv, TypeOK, SocketType
      <4>. QED BY <4>1, <4>2
    <3>. QED BY <3>1
  <2>3. \A i \in DOMAIN backlog' : \A g \in 1..MaxFd : fdTable'[g] # backlog'[i]
    BY <1>3, <1>4 DEF StayFacts, Placed
  <2>4. \A i \in DOMAIN backlog' : peer'[backlog'[i]] = "open"
    BY <1>2, <1>3 DEF StayFacts, Placed
  <2>5. \A g \in 1..MaxFd : fdTable'[g] # NoConn => peer'[fdTable'[g]] = "open"
    BY <1>2, <1>3, <1>4 DEF StayFacts, Placed
  <2>. QED BY <2>1, <2>2, <2>3, <2>4, <2>5 DEF Placed
<1>6. Attended'
  <2>1. \A g : IsOpen(g) => IsOpen(g)'
    BY <1>1, <1>4 DEF IsOpen
  <2>2. IsOpen(acceptFd)'
    BY <1>1, <1>4 DEF IsOpen
  <2>3. fd' = fd /\ pc' = pc
    BY DEF Accept
  <2>. QED BY <2>1, <2>2, <2>3 DEF StayFacts, Attended, IsOpen
<1>7. Members' /\ status' = "run"
  BY DEF Accept, StayFacts, Members, Joined
<1>. QED BY <1>5, <1>6, <1>7 DEF StayFacts

LEMMA CreateThreadStays ==
    ASSUME Inv, StayFacts, CreateThread PROVE StayFacts'
<1>. USE DEF client, acc, trav, thr, reg, proc
<1>1. /\ accPc = "create" /\ accPc' = "accept"
      /\ UNCHANGED <<peer, backlog, fdTable, fd, todo, acceptFd, current_clients,
                     all_clients, cancelled, status>>
  BY DEF CreateThread
<1>2. \A t \in Thread : pc'[t] = pc[t] \/ pc'[t] = "start"
  BY DEF CreateThread, Inv, TypeOK, ThreadType
<1>3. Placed' /\ Members'
  BY <1>1, <1>2 DEF StayFacts, Placed, Members, Joined
<1>4. Attended'
  BY <1>1, <1>2 DEF StayFacts, Attended, IsOpen
<1>. QED BY <1>1, <1>3, <1>4 DEF StayFacts

\* A client turned away has not stayed.
LEMMA TurnedAway ==
    ASSUME Inv, StayFacts, CreateThreadFails PROVE ~AllStay'
<1>. USE DEF client, acc, trav, thr, reg, proc
<1>1. /\ IsOpen(acceptFd) /\ UNCHANGED <<peer, backlog>>
      /\ fdTable' = [fdTable EXCEPT ![acceptFd] = NoConn]
  BY DEF CreateThreadFails, StayFacts, Attended
<1>2. PICK c \in Conn : c = fdTable[acceptFd]
  BY <1>1 DEF IsOpen, Inv, TypeOK, SocketType
<1>3. peer'[c] # "none" /\ \A i \in DOMAIN backlog : backlog[i] # c
  BY <1>1, <1>2, ConstantsAssumption DEF StayFacts, Placed, IsOpen
<1>4. ASSUME NEW f \in 1..MaxFd PROVE fdTable'[f] # c
  BY <1>1, <1>2, ConstantsAssumption DEF StayFacts, Placed, IsOpen, Inv, TypeOK, SocketType
<1>5. CutOff(c)'
  BY <1>1, <1>3, <1>4 DEF CutOff
<1>. QED BY <1>5 DEF AllStay

\* A thread that is being served goes to a stage other than its farewell.
LEMMA ThreadStays ==
    ASSUME Inv, StayFacts, NEW t \in Thread, NEW stage \in Stage,
           pc[t] \notin {"none", "start"}, stage \notin {"none", "start", "quit"},
           pc' = [pc EXCEPT ![t] = stage], stage = "talk" => Joined(t)',
           UNCHANGED <<peer, backlog, fdTable, accPc, acceptFd, fd, cancelled, status>>,
           all_clients \subseteq all_clients', current_clients' = all_clients',
           \A s \in Thread : todo'[s] \subseteq all_clients \/ todo'[s] \subseteq todo[s]
    PROVE  StayFacts'
<1>1. pc'[t] = stage /\ \A s \in Thread : s # t => pc'[s] = pc[s]
  BY DEF Inv, TypeOK, ThreadType
<1>2. Placed'
  BY DEF StayFacts, Placed
<1>3. Attended'
  BY <1>1 DEF StayFacts, Attended, IsOpen
<1>4. Members'
  BY <1>1 DEF StayFacts, Members, Joined
<1>. QED BY <1>2, <1>3, <1>4 DEF StayFacts

LEMMA StartThreadStays ==
    ASSUME Inv, StayFacts, NEW t \in Thread, StartThread(t) PROVE StayFacts'
<1>. USE DEF client, acc, trav, thr, reg, proc
<1>1. /\ pc[t] = "start" /\ pc' = [pc EXCEPT ![t] = "read"] /\ fd' = [fd EXCEPT ![t] = acceptFd]
      /\ UNCHANGED <<peer, backlog, fdTable, todo, accPc, acceptFd, current_clients,
                     all_clients, cancelled, status>>
  BY DEF StartThread
<1>2. /\ pc'[t] = "read" /\ fd'[t] = acceptFd
      /\ \A s \in Thread : s # t => pc'[s] = pc[s] /\ fd'[s] = fd[s]
  BY <1>1 DEF Inv, TypeOK, ThreadType
<1>3. Placed' /\ Members'
  BY <1>1, <1>2 DEF StayFacts, Placed, Members, Joined
<1>4. Attended'
  BY <1>1, <1>2 DEF StayFacts, Attended, IsOpen
<1>. QED BY <1>1, <1>3, <1>4 DEF StayFacts

\* The socket of a thread that is being served.
LEMMA OpenSocket ==
    ASSUME StayFacts, NEW t \in Thread, pc[t] \notin {"none", "start"}
    PROVE  ConnOf(t) # NoConn /\ peer[ConnOf(t)] = "open"
BY DEF StayFacts, Attended, Placed, IsOpen, ConnOf

\* What needs a client that has gone, or a server that shuts down.
LEMMA ThreadEndsNot ==
    ASSUME Inv, StayFacts, NEW t \in Thread,
           \/ ReadEof(t) \/ ReadError(t) \/ ReadTextFails(t) \/ RemoveClient(t)
           \/ LookupFails(t) \/ SendFails(t) \/ ThreadCancelled(t) \/ TouchFreed(t)
    PROVE  FALSE
<1>1. CASE ReadEof(t) \/ ReadError(t) \/ ReadTextFails(t)
  <2>1. pc[t] \in {"read", "text"} /\ (AtEof(t) \/ AtError(t))
    BY <1>1 DEF ReadEof, ReadError, ReadTextFails
  <2>2. ConnOf(t) # NoConn /\ peer[ConnOf(t)] = "open"
    BY <2>1, OpenSocket
  <2>. QED BY <2>1, <2>2 DEF AtEof, AtError
<1>2. CASE RemoveClient(t) \/ ThreadCancelled(t) \/ TouchFreed(t)
  BY <1>2 DEF RemoveClient, ThreadCancelled, TouchFreed, StayFacts, Members
<1>3. CASE LookupFails(t)
  <2>1. pc[t] = "talk" /\ Joined(t)
    BY <1>3 DEF LookupFails, StayFacts, Members
  <2>2. FindInt(connection_id[t]) = {}
    BY <1>3, <2>1 DEF LookupFails, Cid
  <2>3. t \in FindInt(connection_id[t])
    BY <2>1 DEF FindInt, Joined, StayFacts, Members
  <2>. QED BY <2>2, <2>3
<1>4. CASE SendFails(t)
  <2>1. PICK u \in todo[t] :
           ConnOf(u) = NoConn \/ peer[ConnOf(u)] \in {"fin", "finrst", "rst"}
    BY <1>4 DEF SendFails
  <2>2. u \in Thread /\ u \in all_clients
    BY <2>1 DEF StayFacts, Members, Inv, TypeOK, RegistryType
  <2>3. pc[u] \notin {"none", "start"}
    BY <2>2 DEF Inv, Stages
  <2>. QED BY <2>1, <2>2, <2>3, OpenSocket
<1>. QED BY <1>1, <1>2, <1>3, <1>4

LEMMA ServedStays ==
    ASSUME Inv, StayFacts, AllStay', NEW t \in Thread,
           \/ ReadSize(t) \/ ReadTooBig(t) \/ ReadText(t) \/ NewClient(t) \/ AddClient(t)
           \/ Talk(t) \/ BeginBroadcast(t) \/ SendOne(t) \/ EndBroadcast(t)
    PROVE  StayFacts'
<1>. USE DEF client, acc, trav, thr, reg, proc
<1>0. current_clients = all_clients /\ \A s \in Thread : todo[s] \subseteq all_clients
  BY DEF StayFacts, Members
<1>1. CASE ReadSize(t) \/ ReadTooBig(t) \/ NewClient(t) \/ Talk(t)
  <2>1. PICK stage \in {"text", "exited", "addclient", "broadcast"} :
           pc' = [pc EXCEPT ![t] = stage]
    BY <1>1 DEF ReadSize, ReadTooBig, NewClient, Talk
  <2>2. /\ pc[t] \in {"read", "newclient", "talk"}
        /\ UNCHANGED <<peer, backlog, fdTable, accPc, acceptFd, fd, todo, cancelled,
                       status, all_clients, current_clients>>
    BY <1>1 DEF ReadSize, ReadTooBig, NewClient, Talk
  <2>3. stage \in Stage
    BY DEF Stage
  <2>. QED BY <1>0, <2>1, <2>2, <2>3, ThreadStays
<1>2. CASE ReadText(t)
  <2>1. AfterText(t) \in Stage /\ AfterText(t) \notin {"none", "start", "quit"}
    BY DEF AfterText, Stage
  <2>2. /\ pc[t] = "text" /\ pc' = [pc EXCEPT ![t] = AfterText(t)]
        /\ UNCHANGED <<peer, backlog, fdTable, accPc, acceptFd, fd, todo, cancelled,
                       status, all_clients, current_clients>>
    BY <1>2 DEF ReadText
  <2>3. AfterText(t) = "talk" => Joined(t)'
    BY <2>2 DEF AfterText, Joined
  <2>. QED BY <1>0, <2>1, <2>2, <2>3, ThreadStays
<1>3. CASE AddClient(t)
  <2>1. /\ pc[t] = "addclient" /\ pc' = [pc EXCEPT ![t] = "broadcast"]
        /\ all_clients' = all_clients \cup {t} /\ current_clients' = current_clients \cup {t}
        /\ UNCHANGED <<peer, backlog, fdTable, accPc, acceptFd, fd, todo, cancelled, status>>
    BY <1>3 DEF AddClient
  <2>2. "broadcast" \in Stage
    BY DEF Stage
  <2>. QED BY <1>0, <2>1, <2>2, ThreadStays
<1>4. CASE BeginBroadcast(t)
  <2>1. /\ pc[t] = "broadcast" /\ pc' = [pc EXCEPT ![t] = "send"]
        /\ todo' = [todo EXCEPT ![t] = current_clients]
        /\ UNCHANGED <<peer, backlog, fdTable, accPc, acceptFd, fd, cancelled, status,
                       all_clients, current_clients>>
    BY <1>4 DEF BeginBroadcast, Audience
  <2>2. \A s \in Thread : todo'[s] \subseteq all_clients
    BY <1>0, <2>1 DEF Inv, TypeOK, ThreadType
  <2>3. "send" \in Stage
    BY DEF Stage
  <2>. QED BY <1>0, <2>1, <2>2, <2>3, ThreadStays
<1>5. CASE SendOne(t)
  <2>1. PICK u \in todo[t] : /\ todo' = [todo EXCEPT ![t] = @ \ {u}]
                             /\ \/ UNCHANGED peer
                                \/ peer[ConnOf(u)] = "fin"
    BY <1>5 DEF SendOne
  <2>2. u \in Thread /\ pc[u] \notin {"none", "start"}
    BY <1>0 DEF Inv, TypeOK, RegistryType, Stages
  <2>3. UNCHANGED peer
    BY <2>1, <2>2, OpenSocket
  <2>4. /\ pc[t] = "send" /\ UNCHANGED <<pc, backlog, fdTable, accPc, acceptFd, fd, cancelled,
                                         status, all_clients, current_clients>>
    BY <1>5 DEF SendOne
  <2>5. pc' = [pc EXCEPT ![t] = "send"] /\ "send" \in Stage
    BY <2>4 DEF Inv, TypeOK, ThreadType, Stage
  <2>6. \A s \in Thread : todo'[s] \subseteq todo[s]
    BY <2>1 DEF Inv, TypeOK, ThreadType
  <2>. QED BY <1>0, <2>3, <2>4, <2>5, <2>6, ThreadStays
<1>6. CASE EndBroadcast(t)
  <2>1. /\ pc[t] = "send" /\ pc' = [pc EXCEPT ![t] = AfterBroadcast(t)]
        /\ UNCHANGED <<peer, backlog, fdTable, accPc, acceptFd, fd, todo, cancelled, status,
                       all_clients, current_clients>>
    BY <1>6 DEF EndBroadcast
  <2>2. AfterBroadcast(t) \in {"exited", "read"}
    BY DEF AfterBroadcast
  <2>3. AfterBroadcast(t) \in Stage
    BY <2>2 DEF Stage
  <2>. QED BY <1>0, <2>1, <2>2, <2>3, ThreadStays
<1>. QED BY <1>1, <1>2, <1>3, <1>4, <1>5, <1>6

LEMMA StayNext == ASSUME Inv, StayInv, [Next]_vars PROVE StayInv'
<1>. USE DEF client, acc, trav, thr, reg, proc
<1>1. CASE UNCHANGED vars
  <2>1. Staying' => Staying
    BY <1>1 DEF vars, Staying, AllStay, CutOff
  <2>2. OutOfDescriptors => OutOfDescriptors'
    BY <1>1 DEF vars, OutOfDescriptors, FreeFds
  <2>3. StayFacts => StayFacts'
    BY <1>1, StaySame DEF vars
  <2>. QED BY <2>1, <2>2, <2>3 DEF StayInv
<1>2. ASSUME Next, Staying' PROVE OutOfDescriptors' \/ StayFacts'
  <2>1. Staying /\ status \in {"run", "freed"}
    BY <1>2, StayedBefore, EndedNext
  <2>2. StayFacts /\ mainPc \in {"start", "console"} /\ AllStay'
    BY <1>2, <2>1 DEF StayInv, OutOfDescriptors, Staying
  <2>3. ASSUME NEW c \in Conn, Connect(c) \/ SendString(c) \/ Quit(c) \/ ReceiveString(c)
        PROVE  StayFacts'
    <3>1. CASE SendString(c) \/ ReceiveString(c)
      BY <2>2, <3>1, StaySame DEF SendString, ReceiveString
    <3>2. CASE Quit(c)
      <4>1. peer'[c] \in {"fin", "rst"}
        BY <3>2 DEF Quit, Inv, TypeOK, ClientType
      <4>. QED BY <2>2, <4>1 DEF AllStay
    <3>. QED BY <2>2, <2>3, <3>1, <3>2, ConnectStays
  <2>4. ~ConsoleEof
    BY <1>2 DEF ConsoleEof, Staying
  <2>5. ASSUME AcceptorStep PROVE OutOfDescriptors' \/ StayFacts'
    <3>1. CASE AcceptFails
      BY <3>1 DEF AcceptFails, Dies, OutOfDescriptors, FreeFds
    <3>2. CASE AcceptorCancelled
      BY <2>2, <3>2 DEF AcceptorCancelled, StayFacts, Members
    <3>. QED BY <2>2, <2>5, <3>1, <3>2, AcceptStays, CreateThreadStays, TurnedAway
         DEF AcceptorStep
  <2>6. ASSUME MainStep PROVE StayFacts'
    <3>1. StartAcceptor
      BY <1>2, <2>2, <2>6 DEF MainStep, StartAcceptorFails, Shutdown, ShutdownFails, Exit,
         Staying
    <3>. QED BY <2>2, <3>1, StaySame DEF StartAcceptor
  <2>7. ASSUME NEW t \in Thread, ThreadStep(t) PROVE StayFacts'
    BY <2>2, <2>7, StartThreadStays, ThreadEndsNot, ServedStays DEF ThreadStep
  <2>. QED BY <1>2, <2>3, <2>4, <2>5, <2>6, <2>7 DEF Next, Environment
<1>. QED BY <1>1, <1>2 DEF StayInv

\* Clients that come and talk, and none of whom leaves or is turned away, cannot
\* bring the server down, for any number of clients and threads, in whatever
\* order their joins, first messages and messages overlap and whatever an
\* uninitialised cid holds; only the want of a descriptor can
\* (communicate_with_client, send_message_to_clients, accept_connection).
THEOREM StaysUpHolds == Spec => []StaysUpWhileAllStay
<1>1. StayInv => StaysUpWhileAllStay
  BY DEF StayInv, StaysUpWhileAllStay, Staying, StayFacts
<1>2. Inv /\ StayInv /\ [Next]_vars => StayInv'
  BY StayNext
<1>. QED BY <1>1, <1>2, StayInit, Invariance, PTL DEF Spec

------------------------------------------------------------------------------
(* The lookups of clients that have joined. *)

KeyInv == KeyBalance /\ KeysPositive /\ MessagesNumbered

LEMMA KeyInit == Init => KeyInv
<1>. SUFFICES ASSUME Init PROVE KeyInv
  OBVIOUS
<1>1. \A k \in Nat : Owners(k) = {} /\ FindInt(k) = {}
  BY DEF Init, Owners, FindInt
<1>2. KeyBalance
  BY <1>1 DEF KeyBalance
<1>3. KeysPositive /\ MessagesNumbered
  BY DEF Init, KeysPositive, MessagesNumbered
<1>. QED BY <1>2, <1>3 DEF KeyInv

\* Steps that change neither the clients, nor their ids, nor who is gone.
LEMMA BalanceFrame ==
    ASSUME KeyBalance,
           UNCHANGED <<current_clients, all_clients, Gone>>,
           \A t \in all_clients \cup current_clients :
              connection_id'[t] = connection_id[t]
    PROVE  KeyBalance'
<1>1. \A k \in Nat : Owners(k)' = Owners(k) /\ FindInt(k)' = FindInt(k)
  BY DEF Owners, FindInt
<1>. QED BY <1>1 DEF KeyBalance

LEMMA KeysFinite ==
    ASSUME Inv, NEW k
    PROVE  IsFiniteSet(Owners(k)) /\ IsFiniteSet(FindInt(k))
BY ClientsFinite, FS_Subset DEF Inv, TypeOK, Owners, FindInt

\* What holds whenever a thread has joined and looks its client up.
LEMMA OwnerFound ==
    ASSUME Inv, KeyInv, NEW t \in all_clients \ Gone
    PROVE  FindInt(connection_id[t]) # {}
<1>. DEFINE k == connection_id[t]
<1>1. k \in Nat /\ t \in Owners(k)
  BY DEF Inv, TypeOK, RegistryType, Owners
<1>2. Cardinality(Owners(k)) # 0
  BY <1>1, KeysFinite, FS_EmptySet
<1>3. Cardinality(FindInt(k)) # 0
  BY <1>1, <1>2 DEF KeyInv, KeyBalance
<1>. QED BY <1>3, FS_EmptySet

\* Taking the first piece leaves the others' numbers as they were.
LEMMA InboxTail ==
    ASSUME Inv, KeyInv, NEW c \in Conn, inbox[c] # <<>>,
           inbox' = [inbox EXCEPT ![c] = Tail(@)]
    PROVE  \A d \in Conn : \A i \in DOMAIN inbox'[d] : inbox'[d][i].n > 0
<1>. SUFFICES ASSUME NEW d \in Conn, NEW i \in DOMAIN inbox'[d]
              PROVE  inbox'[d][i].n > 0
  OBVIOUS
<1>1. /\ inbox[d] \in Seq(Piece)
      /\ \A j \in DOMAIN inbox[d] : inbox[d][j].n > 0
  BY DEF Inv, TypeOK, ClientType, KeyInv, MessagesNumbered
<1>2. CASE d # c
  BY <1>1, <1>2 DEF Inv, TypeOK, ClientType
<1>3. CASE d = c
  <2>1. inbox'[d] = Tail(inbox[d]) /\ inbox[d] # <<>>
    BY <1>3 DEF Inv, TypeOK, ClientType
  <2>. QED BY <1>1, <2>1
<1>. QED BY <1>2, <1>3

LEMMA KeyThread ==
    ASSUME UninitCid \subseteq {0}, Inv, KeyInv, NEW t \in Thread, ThreadStep(t)
    PROVE  KeyInv'
<1>. USE ConstantsAssumption DEF client, trav, thr, acc, reg, proc
<1>. DEFINE Nodes == <<current_clients, all_clients, connection_id>>
<1>1. CASE ReadSize(t)
  <2>1. PICK c \in Conn :
           /\ inbox[c] # <<>>
           /\ inbox' = [inbox EXCEPT ![c] = Tail(@)]
           /\ msg' = [msg EXCEPT ![t] = [from |-> c, n |-> Head(inbox[c]).n]]
    BY <1>1 DEF ReadSize, Readable
  <2>2. Head(inbox[c]).n > 0
    BY <2>1 DEF KeyInv, MessagesNumbered, Inv, TypeOK, ClientType
  <2>3. pc[t] = "read" /\ pc' = [pc EXCEPT ![t] = "text"] /\ UNCHANGED Nodes
    BY <1>1 DEF ReadSize
  <2>4. msg'[t].n > 0
    BY <2>1, <2>2 DEF Inv, TypeOK, ThreadType
  <2>5. UNCHANGED Gone
    BY <2>1, <2>3, <2>4 DEF Gone, KeyInv, MessagesNumbered, Inv, TypeOK,
       ThreadType, RegistryType
  <2>6. MessagesNumbered'
    BY <2>1, <2>3, <2>4, InboxTail
       DEF KeyInv, MessagesNumbered, Inv, TypeOK, ThreadType
  <2>. QED BY <2>3, <2>5, <2>6, BalanceFrame
       DEF KeyInv, KeysPositive, Inv, TypeOK, ThreadType
<1>2. CASE ReadTooBig(t) \/ ReadText(t)
  <2>1. PICK c \in Conn :
           /\ inbox[c] # <<>>
           /\ inbox' = [inbox EXCEPT ![c] = Tail(@)]
    BY <1>2 DEF ReadTooBig, ReadText, Readable
  <2>2. /\ UNCHANGED <<msg, Nodes>>
        /\ \/ pc' = [pc EXCEPT ![t] = "exited"]
           \/ pc[t] = "text" /\ pc' = [pc EXCEPT ![t] = AfterText(t)]
    BY <1>2 DEF ReadTooBig, ReadText
  <2>3. UNCHANGED Gone
    BY <2>2 DEF Gone
  <2>4. MessagesNumbered'
    BY <2>1, <2>2, InboxTail
       DEF KeyInv, MessagesNumbered, Inv, TypeOK, ThreadType, AfterText
  <2>. QED BY <2>2, <2>3, <2>4, BalanceFrame
       DEF KeyInv, KeysPositive, Inv, TypeOK, ThreadType, AfterText
<1>3. CASE NewClient(t)
  <2>1. t \notin all_clients /\ t \notin current_clients
    BY <1>3 DEF NewClient, Inv, Stages, Bookkeeping
  <2>2. /\ connection_id' = [connection_id EXCEPT ![t] = num_clients + 1]
        /\ pc[t] = "newclient" /\ pc' = [pc EXCEPT ![t] = "addclient"]
        /\ UNCHANGED <<current_clients, all_clients, msg, inbox>>
    BY <1>3 DEF NewClient, NextId
  <2>3. UNCHANGED Gone
    BY <2>2 DEF Gone
  <2>4. KeyBalance'
    BY <2>1, <2>2, <2>3, BalanceFrame DEF KeyInv, Inv, TypeOK, RegistryType
  <2>. QED BY <2>2, <2>4 DEF KeyInv, KeysPositive, MessagesNumbered, Inv,
       TypeOK, ThreadType, RegistryType
<1>4. CASE AddClient(t)
  <2>1. t \notin all_clients /\ t \notin current_clients
    BY <1>4 DEF AddClient, Inv, Stages, Bookkeeping
  <2>2. /\ current_clients' = current_clients \cup {t}
        /\ all_clients' = all_clients \cup {t}
        /\ pc[t] = "addclient" /\ pc' = [pc EXCEPT ![t] = "broadcast"]
        /\ UNCHANGED <<msg, inbox, connection_id>>
    BY <1>4 DEF AddClient
  <2>3. msg[t].n > 0
    BY <2>2 DEF KeyInv, MessagesNumbered
  <2>4. KeyBalance'
    <3>1. ASSUME NEW k \in Nat
          PROVE  Cardinality(Owners(k)') = Cardinality(FindInt(k)')
      <4>1. CASE connection_id[t] = k
        <5>1. /\ Owners(k)' = Owners(k) \cup {t} /\ t \notin Owners(k)
              /\ FindInt(k)' = FindInt(k) \cup {t} /\ t \notin FindInt(k)
          BY <2>1, <2>2, <2>3, <4>1 DEF Owners, FindInt, Gone
        <5>2. /\ Cardinality(Owners(k) \cup {t}) = Cardinality(Owners(k)) + 1
              /\ Cardinality(FindInt(k) \cup {t}) = Cardinality(FindInt(k)) + 1
          BY <5>1, KeysFinite, FS_AddElement
        <5>. QED BY <5>1, <5>2 DEF KeyInv, KeyBalance
      <4>2. CASE connection_id[t] # k
        <5>1. Owners(k)' = Owners(k) /\ FindInt(k)' = FindInt(k)
          BY <2>1, <2>2, <2>3, <4>2 DEF Owners, FindInt, Gone
        <5>. QED BY <5>1 DEF KeyInv, KeyBalance
      <4>. QED BY <4>1, <4>2
    <3>. QED BY <3>1 DEF KeyBalance
  <2>. QED BY <2>2, <2>4 DEF KeyInv, KeysPositive, MessagesNumbered, Inv,
       TypeOK, ThreadType
<1>5. CASE RemoveClient(t)
  <2>1. PICK id \in Cid(t) : \E u \in FindInt(id) :
           /\ current_clients' = current_clients \ {u}
           /\ msg' = [msg EXCEPT ![t] = [from |-> username[u], n |-> 0]]
    BY <1>5 DEF RemoveClient, DeleteNode
  <2>2. PICK u \in FindInt(id) :
           /\ current_clients' = current_clients \ {u}
           /\ msg' = [msg EXCEPT ![t] = [from |-> username[u], n |-> 0]]
    BY <2>1
  <2>3. /\ pc[t] = "quit" /\ pc' = [pc EXCEPT ![t] = "broadcast"]
        /\ UNCHANGED <<inbox, connection_id, all_clients>>
    BY <1>5 DEF RemoveClient
  <2>4. u \in all_clients /\ connection_id[u] = id /\ id \in Nat \ {0}
    BY <2>2 DEF FindInt, Inv, Bookkeeping, KeyInv, KeysPositive, TypeOK,
       RegistryType
  <2>5. t \in all_clients /\ connection_id[t] = id
    <3>1. id \notin UninitCid
      BY <2>4
    <3>2. CASE ~Joined(t)
      BY <3>1, <3>2 DEF Cid
    <3>. QED BY <3>2 DEF Cid, Joined
  <2>6. msg[t].n > 0 /\ msg'[t].n = 0
    BY <2>2, <2>3, <2>5 DEF KeyInv, MessagesNumbered, Inv, TypeOK, ThreadType
  <2>7. Gone' = Gone \cup {t} /\ t \notin Gone
    BY <2>2, <2>3, <2>5, <2>6 DEF Gone, Inv, TypeOK, ThreadType, RegistryType
  <2>8. KeyBalance'
    <3>1. ASSUME NEW k \in Nat
          PROVE  Cardinality(Owners(k)') = Cardinality(FindInt(k)')
      <4>1. CASE id = k
        <5>1. /\ Owners(k)' = Owners(k) \ {t} /\ t \in Owners(k)
              /\ FindInt(k)' = FindInt(k) \ {u} /\ u \in FindInt(k)
          BY <2>2, <2>3, <2>5, <2>7, <4>1 DEF Owners, FindInt
        <5>2. /\ Cardinality(Owners(k) \ {t}) = Cardinality(Owners(k)) - 1
              /\ Cardinality(FindInt(k) \ {u}) = Cardinality(FindInt(k)) - 1
          BY <5>1, KeysFinite, FS_RemoveElement
        <5>. QED BY <5>1, <5>2 DEF KeyInv, KeyBalance
      <4>2. CASE id # k
        <5>1. Owners(k)' = Owners(k) /\ FindInt(k)' = FindInt(k)
          BY <2>2, <2>3, <2>4, <2>5, <2>7, <4>2 DEF Owners, FindInt
        <5>. QED BY <5>1 DEF KeyInv, KeyBalance
      <4>. QED BY <4>1, <4>2
    <3>. QED BY <3>1 DEF KeyBalance
  <2>9. KeysPositive'
    BY <2>3 DEF KeyInv, KeysPositive, Inv, TypeOK, ThreadType
  <2>10. MessagesNumbered'
    BY <2>2, <2>3 DEF KeyInv, MessagesNumbered, Inv, TypeOK, ThreadType
  <2>. QED BY <2>8, <2>9, <2>10 DEF KeyInv
<1>6. CASE EndBroadcast(t)
  <2>1. /\ pc[t] = "send" /\ pc' = [pc EXCEPT ![t] = AfterBroadcast(t)]
        /\ UNCHANGED <<inbox, msg, Nodes>>
    BY <1>6 DEF EndBroadcast
  <2>2. UNCHANGED Gone
    BY <2>1 DEF Gone
  <2>3. MessagesNumbered'
    <3>1. msg[t].n \in Nat
      BY DEF Inv, TypeOK, ThreadType, Message, NoMsg
    <3>. QED BY <2>1, <3>1 DEF AfterBroadcast, KeyInv, MessagesNumbered, Inv,
         TypeOK, ThreadType
  <2>. QED BY <2>1, <2>2, <2>3, BalanceFrame
       DEF KeyInv, KeysPositive, Inv, TypeOK, ThreadType, AfterBroadcast
<1>7. CASE StartThread(t) \/ ReadEof(t)
  <2>1. /\ \/ pc[t] = "start" /\ pc' = [pc EXCEPT ![t] = "read"]
           \/ pc[t] = "read" /\ pc' = [pc EXCEPT ![t] = "quit"]
        /\ UNCHANGED <<inbox, msg, Nodes>>
    BY <1>7 DEF StartThread, ReadEof
  <2>2. UNCHANGED Gone
    BY <2>1 DEF Gone
  <2>3. MessagesNumbered'
    BY <2>1 DEF KeyInv, MessagesNumbered, Inv, Stages, TypeOK, ThreadType
  <2>. QED BY <2>1, <2>2, <2>3, BalanceFrame
       DEF KeyInv, KeysPositive, Inv, TypeOK, ThreadType
<1>8. CASE \/ ReadError(t) \/ ReadTextFails(t) \/ Talk(t)
           \/ LookupFails(t) \/ BeginBroadcast(t) \/ SendOne(t) \/ SendFails(t)
           \/ ThreadCancelled(t) \/ TouchFreed(t)
  <2>1. /\ \/ UNCHANGED pc
           \/ \E stage \in {"exited", "broadcast", "send"} :
                 pc' = [pc EXCEPT ![t] = stage]
        /\ UNCHANGED <<inbox, msg, Nodes>>
    BY <1>8 DEF ReadError, ReadTextFails, Talk, LookupFails,
       BeginBroadcast, SendOne, SendFails, ThreadCancelled, TouchFreed, Dies
  <2>2. UNCHANGED Gone
    BY <2>1 DEF Gone
  <2>3. MessagesNumbered'
    BY <2>1 DEF KeyInv, MessagesNumbered, Inv, TypeOK, ThreadType
  <2>. QED BY <2>1, <2>2, <2>3, BalanceFrame
       DEF KeyInv, KeysPositive, Inv, TypeOK, ThreadType
<1>. QED
  BY <1>1, <1>2, <1>3, <1>4, <1>5, <1>6, <1>7, <1>8 DEF ThreadStep

LEMMA KeyNext ==
    ASSUME UninitCid \subseteq {0}, Inv, KeyInv, Next
    PROVE  KeyInv'
<1>. USE ConstantsAssumption DEF client, trav, thr, acc, reg, proc
<1>. DEFINE Nodes == <<current_clients, all_clients, connection_id>>
<1>1. CASE Environment
  <2>1. UNCHANGED <<pc, msg, Nodes>>
    BY <1>1 DEF Environment, ConsoleEof, Connect, SendString, Quit,
       ReceiveString
  <2>2. UNCHANGED Gone
    BY <2>1 DEF Gone
  <2>3. ASSUME NEW c \in Conn PROVE \A i \in DOMAIN inbox'[c] : inbox'[c][i].n > 0
    <3>. DEFINE Of(kind) == [kind |-> kind, n |-> sent[c] + 1]
    <3>1. /\ inbox[c] \in Seq(Piece) /\ sent[c] \in Nat
          /\ \A j \in DOMAIN inbox[c] : inbox[c][j].n > 0
      BY DEF Inv, TypeOK, ClientType, KeyInv, MessagesNumbered
    <3>2. \/ inbox'[c] = inbox[c]
          \/ inbox'[c] = Append(inbox[c], Of("size"))
          \/ \E size \in {"size", "big"} :
                inbox'[c] = inbox[c] \o <<Of(size), Of("text")>>
      <4>1. CASE ConsoleEof
        BY <4>1 DEF ConsoleEof
      <4>2. ASSUME NEW d \in Conn, Connect(d) \/ ReceiveString(d)
            PROVE  inbox' = inbox
        BY <4>2 DEF Connect, ReceiveString
      <4>3. ASSUME NEW d \in Conn, Quit(d)
            PROVE  inbox'[c] = inbox[c] \/ inbox'[c] = Append(inbox[c], Of("size"))
        BY <4>3 DEF Quit, Inv, TypeOK, ClientType
      <4>4. ASSUME NEW d \in Conn, SendString(d)
            PROVE  \/ inbox'[c] = inbox[c]
                   \/ \E size \in {"size", "big"} :
                         inbox'[c] = inbox[c] \o <<Of(size), Of("text")>>
        <5>1. PICK size \in {"size", "big"} :
                 inbox' = [inbox EXCEPT ![d] = @ \o
                             <<[kind |-> size, n |-> sent[d] + 1],
                               [kind |-> "text", n |-> sent[d] + 1]>>]
          BY <4>4 DEF SendString
        <5>. QED BY <5>1 DEF Inv, TypeOK, ClientType
      <4>. QED BY <1>1, <4>1, <4>2, <4>3, <4>4 DEF Environment
    <3>3. CASE inbox'[c] = inbox[c]
      BY <3>1, <3>3
    <3>4. CASE inbox'[c] = Append(inbox[c], Of("size"))
      <4>. DEFINE s == Append(inbox[c], Of("size"))
      <4>1. Of("size") \in Piece /\ Of("size").n > 0
        BY <3>1 DEF Piece
      <4>2. /\ s \in Seq(Piece) /\ Len(s) = Len(inbox[c]) + 1
            /\ \A i \in 1..Len(inbox[c]) : s[i] = inbox[c][i]
            /\ s[Len(inbox[c]) + 1] = Of("size")
        BY <3>1, <4>1, AppendProperties
      <4>3. \A i \in DOMAIN s : s[i].n > 0
        <5>. HIDE DEF s, Of
        <5>. QED BY <3>1, <4>1, <4>2
      <4>. QED BY <3>4, <4>3
    <3>5. ASSUME NEW size \in {"size", "big"},
                 inbox'[c] = inbox[c] \o <<Of(size), Of("text")>>
          PROVE  \A i \in DOMAIN inbox'[c] : inbox'[c][i].n > 0
      <4>. DEFINE two == <<Of(size), Of("text")>>
                  s == inbox[c] \o two
      <4>1. /\ two \in Seq(Piece) /\ Len(two) = 2
            /\ two[1].n > 0 /\ two[2].n > 0
        BY <3>1 DEF Piece
      <4>2. /\ s \in Seq(Piece) /\ Len(s) = Len(inbox[c]) + 2
            /\ \A i \in 1..Len(inbox[c]) + 2 :
                  s[i] = IF i <= Len(inbox[c]) THEN inbox[c][i]
                         ELSE two[i - Len(inbox[c])]
        BY <3>1, <4>1, ConcatProperties
      <4>3. \A i \in DOMAIN s : s[i].n > 0
        <5>. HIDE DEF s, two
        <5>. SUFFICES ASSUME NEW i \in 1..Len(inbox[c]) + 2 PROVE s[i].n > 0
          BY <4>2
        <5>1. CASE i <= Len(inbox[c])
          BY <3>1, <4>2, <5>1, SMTT(30)
        <5>2. CASE i > Len(inbox[c])
          <6>1. i - Len(inbox[c]) \in {1, 2}
            BY <3>1, <5>2
          <6>. QED BY <3>1, <4>1, <4>2, <5>2, <6>1
        <5>. QED BY <3>1, <5>1, <5>2
      <4>. QED BY <3>5, <4>3
    <3>. QED BY <3>2, <3>3, <3>4, <3>5
  <2>. QED BY <2>1, <2>2, <2>3, BalanceFrame
       DEF KeyInv, KeysPositive, MessagesNumbered
<1>2. CASE AcceptorStep
  <2>1. /\ UNCHANGED <<inbox, msg, Nodes>>
        /\ \/ UNCHANGED pc
           \/ \E s \in Thread :
                 pc[s] = "none" /\ pc' = [pc EXCEPT ![s] = "start"]
    BY <1>2 DEF AcceptorStep, Accept, AcceptFails, CreateThread, CanCreate,
       CreateThreadFails, AcceptorCancelled, Dies,
       Thread, Inv, Stages, TypeOK, AcceptorType
  <2>2. UNCHANGED Gone
    BY <2>1 DEF Gone
  <2>. QED BY <2>1, <2>2, BalanceFrame
       DEF KeyInv, KeysPositive, MessagesNumbered, Inv, TypeOK, ThreadType
<1>3. CASE MainStep
  <2>1. UNCHANGED <<inbox, msg, Nodes, pc>>
    BY <1>3 DEF MainStep, StartAcceptor, StartAcceptorFails, Shutdown,
       ShutdownFails, Exit, Dies
  <2>2. UNCHANGED Gone
    BY <2>1 DEF Gone
  <2>. QED BY <2>1, <2>2, BalanceFrame
       DEF KeyInv, KeysPositive, MessagesNumbered
<1>. QED BY <1>1, <1>2, <1>3, KeyThread DEF Next

\* A client that has joined is found by its thread's every lookup, even with
\* duplicate ids, provided an uninitialised cid is not some client's id (ids
\* start at 1): the null dereference is reached only by never joining.
THEOREM LookupNeverFailsHolds ==
    ASSUME UninitCid \subseteq {0} PROVE Spec => []LookupNeverFails
<1>1. Inv /\ KeyInv /\ [Next]_vars => KeyInv'
  <2>1. Inv /\ KeyInv /\ UNCHANGED vars => KeyInv'
    <3>. SUFFICES ASSUME Inv, KeyInv, UNCHANGED vars PROVE KeyInv'
      OBVIOUS
    <3>. USE DEF vars, client, acc, thr, trav, reg, proc
    <3>1. UNCHANGED Gone
      BY DEF Gone
    <3>. QED BY <3>1, BalanceFrame DEF KeyInv, KeysPositive, MessagesNumbered
  <2>. QED BY <2>1, KeyNext
<1>2. Inv /\ KeyInv => LookupNeverFails
  <2>. SUFFICES ASSUME Inv, KeyInv, NEW t \in Thread,
                       pc[t] \in {"talk", "quit"}, Joined(t)
                PROVE  FindInt(connection_id[t]) # {}
    BY DEF LookupNeverFails
  <2>1. t \in all_clients \ Gone
    BY DEF Joined, Gone, KeyInv, MessagesNumbered
  <2>. QED BY <2>1, OwnerFound
<1>. QED BY <1>1, <1>2, KeyInit, Invariance, PTL DEF Spec

(***************************************************************************)
(* What the server promises clients who come and go only when nothing else *)
(* is under way, and are silent while one leaves, with nothing going wrong *)
(* outside: theorems for any number of clients, threads, descriptors and   *)
(* messages, with the invariant they rest on and the proof that the server *)
(* implements a ChatRoom.                                                  *)
(***************************************************************************)

\* The hypothesis of the theorems: the environment of the run jtalk_orderly.
Peaceful == Orderly /\ Faults = {}

(***************************************************************************)
(* The invariant. It speaks of a server that runs; what is left of it when *)
(* shutdown() has been called is at its end.                               *)
(***************************************************************************)

\* A thread serves its client from its creation until it removes the client;
\* its descriptor is then the one it has read, or is about to read.
Serving(t) == Live(t) /\ (Joined(t) => t \in current_clients)
FdOf(t) == IF pc[t] = "start" THEN acceptFd ELSE fd[t]
Line(t) == fdTable[FdOf(t)]

\* Nobody is coming or going, but for what the main thread is at.
Resting ==
    /\ accPc = "accept" /\ backlog = <<>>
    /\ \A t \in Thread : Live(t) =>
          /\ pc[t] = "read" /\ Joined(t) /\ ConnOf(t) # NoConn
          /\ peer[ConnOf(t)] = "open" /\ inbox[ConnOf(t)] = <<>>

\* How far the main and the accepting thread are.
Started ==
    /\ cancelled = {} /\ accPc # "exited" /\ mainPc # "exit"
    /\ mainPc = "start" =>
          accPc = "none" /\ backlog = <<>> /\ created = 0
    /\ mainPc # "start" => accPc # "none" /\ threads[0] = Acceptor
    /\ mainPc = "shutdown" => Resting

\* Which stages a thread can be at before its client joins, while it is there
\* and after it has been removed.
StagesFit ==
    \A t \in Thread :
        /\ pc[t] \in {"talk", "broadcast", "send", "quit", "exited"} => Joined(t)
        /\ t \in current_clients =>
              pc[t] \in {"read", "text", "talk", "broadcast", "send", "quit"}
        /\ Joined(t) /\ t \notin current_clients =>
              pc[t] \in {"broadcast", "send", "exited"}
        /\ pc[t] \in {"broadcast", "send"} =>
              (msg[t].n = 0 <=> t \notin current_clients)
        /\ pc[t] \in {"text", "newclient", "addclient", "talk"} => msg[t].n # 0

\* Every open descriptor is that of one connection and of one thread, or of the
\* thread that is about to be created.
Descriptors ==
    /\ \A f, g \in 1..MaxFd : fdTable[f] # NoConn /\ fdTable[f] = fdTable[g] => f = g
    /\ \A t \in Thread : Serving(t) => FdOf(t) \in 1..MaxFd /\ Line(t) # NoConn
    /\ \A t, u \in Thread :
          Serving(t) /\ Serving(u) /\ FdOf(t) = FdOf(u) => t = u
    /\ \A t \in Thread : Live(t) /\ ~Serving(t) => ConnOf(t) = NoConn
    /\ \A t \in Thread : pc[t] \in {"none", "start"} => fd[t] = 0
    /\ accPc = "create" =>
          /\ acceptFd \in 1..MaxFd /\ fdTable[acceptFd] # NoConn
          /\ \A t \in Thread : Serving(t) => FdOf(t) # acceptFd
    /\ \A f \in 1..MaxFd : fdTable[f] # NoConn =>
          \/ accPc = "create" /\ f = acceptFd
          \/ \E t \in Thread : Serving(t) /\ f = FdOf(t)

\* The clients' ends: nobody dies with messages unread.
Ends ==
    /\ \A c \in Conn : peer[c] \in {"none", "open", "fin"}
    /\ \A c \in Conn : peer[c] = "none" => sent[c] = 0
    /\ Len(backlog) <= 1
    /\ \A i \in DOMAIN backlog :
          peer[backlog[i]] = "open" /\ \A f \in 1..MaxFd : fdTable[f] # backlog[i]
    /\ \A f \in 1..MaxFd : fdTable[f] # NoConn => peer[fdTable[f]] # "none"
    /\ \A t \in all_clients : peer[username[t]] # "none"
    /\ \A t \in all_clients \ current_clients : peer[username[t]] # "open"

\* One client at a time comes or goes.
Steady(t) == t \in current_clients /\ peer[ConnOf(t)] = "open"
OneChange ==
    /\ \A t, u \in Thread :
          Live(t) /\ Live(u) /\ ~Steady(t) /\ ~Steady(u) => t = u
    /\ backlog # <<>> \/ accPc = "create" => \A t \in Thread : Live(t) => Steady(t)
    /\ backlog # <<>> => accPc = "accept"
    /\ accPc = "create" => peer[fdTable[acceptFd]] = "open"
    /\ \A t \in Thread : Live(t) /\ ~Joined(t) => peer[Line(t)] = "open"

\* While a client that has gone is not yet removed, the others are at rest.
GoingAlone ==
    /\ \A t \in current_clients : peer[ConnOf(t)] # "open" =>
          /\ pc[t] \in {"read", "quit"}
          /\ \A u \in Thread : Live(u) =>
                (u = t \/ pc[u] = "read") /\ inbox[ConnOf(u)] = <<>>
    /\ \A t \in Thread : pc[t] = "quit" => peer[ConnOf(t)] # "open"

\* Client structs, messages and descriptors speak of the same connection, and
\* no connection has two clients.
Names ==
    /\ \A t \in Thread :
          /\ t \in current_clients \/ pc[t] = "addclient" => username[t] = ConnOf(t)
          /\ pc[t] \in {"text", "newclient", "addclient", "talk"} =>
                msg[t].from = ConnOf(t)
          /\ pc[t] = "broadcast" => msg[t].from = username[t]
    /\ \A t, u \in all_clients : username[t] = username[u] => t = u

\* Ids are given in the order of joining.
Ids ==
    /\ UniqueIds
    /\ \A t \in all_clients : connection_id[t] <= num_clients
    /\ \A t \in Thread : pc[t] = "addclient" => connection_id[t] = num_clients + 1

\* The slots up to num_connections hold the threads of the clients that are
\* there, each once, and the next one that of the client which is coming.
Slots ==
    /\ \A i \in 1..num_connections : threads[i] \in current_clients
    /\ \A i, j \in 1..num_connections : threads[i] = threads[j] => i = j
    /\ \A t \in current_clients : \E i \in 1..num_connections : threads[i] = t
    /\ \A t \in Thread : Live(t) /\ ~Joined(t) => threads[num_connections + 1] = t

Halfway(c) == \E t \in Thread : pc[t] = "text" /\ ConnOf(t) = c

\* What is in flight from a client: sizes and texts in turn, with the numbers up
\* to that of the last message sent, the first size missing when a thread has it.
Inboxes ==
    \A c \in Conn :
        /\ Len(inbox[c]) <= 2 * sent[c]
        /\ \A i \in DOMAIN inbox[c] :
              /\ inbox[c][i].kind =
                    IF (Len(inbox[c]) - i) % 2 = 0 THEN "text" ELSE "size"
              /\ inbox[c][i].n = sent[c] - ((Len(inbox[c]) - i) \div 2)
        /\ Len(inbox[c]) % 2 = 1 <=> Halfway(c)

Audiences == \A t \in Thread : pc[t] = "send" => todo[t] \subseteq current_clients

Running ==
    /\ Started /\ StagesFit /\ Descriptors /\ Ends /\ OneChange /\ GoingAlone
    /\ Names /\ Ids /\ Slots /\ Inboxes /\ Audiences

\* After shutdown(): all connections are closed and every thread that is still
\* there stops at its read.
Closed ==
    /\ mainPc = "exit" /\ accPc # "create" /\ Acceptor \in cancelled
    /\ \A f \in 1..MaxFd : fdTable[f] = NoConn
    /\ \A t \in Thread : Live(t) => pc[t] = "read" /\ t \in cancelled

OrderlyInv ==
    /\ status = "run" => Running
    /\ status = "freed" => Closed
    /\ UniqueIds /\ OneThreadPerConn /\ ServerSurvives

(***************************************************************************)
(* The rest of the invariant, for the refinement of ChatRoom.              *)
(***************************************************************************)

SaidBy(c) == {i \in DOMAIN history : history[i].from = c}
Farewelled(c) == \E i \in SaidBy(c) : history[i].n = 0

\* The messages of c that the server has taken from the socket, and whether the
\* thread t has one in hand that it has not broadcast yet.
Taken(c) == sent[c] - (Len(inbox[c]) \div 2)
InHand(t) == pc[t] \in {"text", "newclient", "addclient", "talk", "broadcast"}

\* What the client of the thread t has said is what was taken from its socket,
\* but for the message in hand, which has the next number.
SaysRight(t) ==
    /\ ~Farewelled(Line(t))
    /\ Taken(Line(t)) = Cardinality(SaidBy(Line(t))) + IF InHand(t) THEN 1 ELSE 0
    /\ InHand(t) => msg[t].n = Taken(Line(t))

Served(c) == \E t \in Thread : pc[t] # "start" /\ Serving(t) /\ ConnOf(t) = c

Spoken ==
    /\ \A t \in Thread : Serving(t) => SaysRight(t)
    /\ \A t \in all_clients \ current_clients :
          pc[t] = "broadcast" => ~Farewelled(username[t])
    /\ \A c \in Conn : ~Served(c) /\ ClientOf(c) = {} => Taken(c) = 0
    /\ \A c \in Conn : ClientOf(c) = {} => SaidBy(c) = {} /\ log[c] = <<>>

\* A thread has yet to send the last broadcast to the client t.
Pending(t) == \E s \in Thread : pc[s] = "send" /\ t \in todo[s]

\* What each client has been sent: all that was said since it joined, but for
\* the last thing if a thread is about to send it.
Told ==
    \A t \in current_clients : peer[ConnOf(t)] = "open" =>
        joinedAt[t] + Len(log[ConnOf(t)]) + (IF Pending(t) THEN 1 ELSE 0)
          = Len(history)

RoomInv == status = "run" => Spoken /\ Told
------------------------------------------------------------------------------
(* What the invariant says of threads and connections. *)

LEMMA ServingFacts ==
    ASSUME Inv, Running
    PROVE  /\ \A t \in Thread :
                 Live(t) /\ pc[t] \notin {"broadcast", "send"} => Serving(t)
           /\ \A t \in Thread : Serving(t) =>
                 FdOf(t) \in 1..MaxFd /\ Line(t) \in Conn /\ Line(t) # NoConn
           /\ \A t \in Thread : Serving(t) /\ pc[t] # "start" =>
                 fd[t] \in 1..MaxFd /\ ConnOf(t) = Line(t)
           /\ \A t, u \in Thread :
                 Serving(t) /\ Serving(u) /\ Line(t) = Line(u) => t = u
           /\ \A t \in current_clients :
                 /\ t \in Thread /\ Live(t) /\ Joined(t) /\ Serving(t)
                 /\ pc[t] # "start"
<1>. USE ConstantsAssumption
<1>1. \A t \in Thread : Live(t) /\ pc[t] \notin {"broadcast", "send"} => Serving(t)
  BY DEF Running, StagesFit, Serving, Live, Joined
<1>2. \A t \in Thread : Serving(t) =>
         FdOf(t) \in 1..MaxFd /\ Line(t) \in Conn /\ Line(t) # NoConn
  BY DEF Running, Descriptors, Line, Inv, TypeOK, SocketType
<1>3. \A t \in Thread : Serving(t) /\ pc[t] # "start" =>
         fd[t] \in 1..MaxFd /\ ConnOf(t) = Line(t)
  BY <1>2 DEF FdOf, Line, ConnOf
<1>4. \A t, u \in Thread : Serving(t) /\ Serving(u) /\ Line(t) = Line(u) => t = u
  BY <1>2 DEF Running, Descriptors, Line
<1>5. \A t \in current_clients : t \in Thread /\ Joined(t)
  BY DEF Inv, TypeOK, RegistryType, Bookkeeping, Joined
<1>6. \A t \in current_clients : Live(t) /\ Serving(t) /\ pc[t] # "start"
  BY <1>5 DEF Running, StagesFit, Serving, Live
<1>. QED BY <1>1, <1>2, <1>3, <1>4, <1>5, <1>6

LEMMA OneThread == Inv /\ Running => OneThreadPerConn
<1>. SUFFICES ASSUME Inv, Running, NEW t \in Thread, NEW u \in Thread,
                     Live(t), Live(u), ConnOf(t) # NoConn, ConnOf(t) = ConnOf(u)
              PROVE  t = u
  BY DEF OneThreadPerConn
<1>1. pc[t] # "start" /\ pc[u] # "start"
  BY DEF Running, Descriptors, ConnOf
<1>2. Serving(t) /\ Serving(u)
  BY DEF Running, Descriptors
<1>. QED BY <1>1, <1>2, ServingFacts

LEMMA Halves ==
    \A n \in Nat :
        /\ n \div 2 \in Nat /\ n % 2 \in {0, 1}
        /\ n # 0 => ((n - 1) % 2 = 0 <=> n % 2 = 1)
        /\ (n + 2) % 2 = n % 2 /\ (n + 2) \div 2 = (n \div 2) + 1
        /\ n % 2 = 1 => (n - 1) \div 2 = n \div 2
        /\ n # 0 /\ n % 2 = 0 => (n - 1) \div 2 = (n \div 2) - 1
OBVIOUS

\* The piece of a thread's connection that is next, if there is one, is a size,
\* or a text if the thread has its size.
LEMMA NextPiece ==
    ASSUME Inv, Running, NEW t \in Thread, pc[t] \in {"read", "text"},
           NEW c \in Conn, c = ConnOf(t)
    PROVE  /\ pc[t] = "text" => inbox[c] # <<>>
           /\ inbox[c] # <<>> =>
                 Head(inbox[c]).kind = IF pc[t] = "text" THEN "text" ELSE "size"
<1>1. inbox[c] \in Seq(Piece)
  BY DEF Inv, TypeOK, ClientType
<1>2. Len(inbox[c]) % 2 = 1 <=> pc[t] = "text"
  <2>1. Serving(t)
    BY ServingFacts DEF Live
  <2>2. ASSUME NEW u \in Thread, pc[u] = "text", ConnOf(u) = c PROVE u = t
    BY <2>1, <2>2, ServingFacts DEF Live
  <2>. QED BY <2>2 DEF Running, Inboxes, Halfway
<1>3. pc[t] = "text" => inbox[c] # <<>>
  <2>1. Len(<<>>) = 0 /\ 0 % 2 # 1
    OBVIOUS
  <2>. QED BY <1>2, <2>1
<1>4. ASSUME inbox[c] # <<>>
      PROVE  Head(inbox[c]).kind = IF pc[t] = "text" THEN "text" ELSE "size"
  <2>1. /\ Len(inbox[c]) \in Nat \ {0} /\ 1 \in DOMAIN inbox[c]
        /\ Head(inbox[c]) = inbox[c][1]
    BY <1>1, <1>4
  <2>2. Head(inbox[c]).kind = IF (Len(inbox[c]) - 1) % 2 = 0 THEN "text" ELSE "size"
    <3>1. \A i \in DOMAIN inbox[c] : inbox[c][i].kind =
             IF (Len(inbox[c]) - i) % 2 = 0 THEN "text" ELSE "size"
      BY Zenon DEF Running, Inboxes
    <3>. QED BY <2>1, <3>1, Zenon
  <2>3. (Len(inbox[c]) - 1) % 2 = 0 <=> Len(inbox[c]) % 2 = 1
    BY <2>1, Halves
  <2>. QED BY <1>2, <2>2, <2>3
<1>. QED BY <1>3, <1>4

------------------------------------------------------------------------------
(* What cannot happen while clients are orderly and nothing fails outside. *)

\* No thread leaves its client behind, and none ends the process.
LEMMA ThreadFailsNot ==
    ASSUME Inv, Running, status = "run", NEW t \in Thread
    PROVE  /\ ~ReadTooBig(t) /\ ~ReadError(t) /\ ~ReadTextFails(t)
           /\ ~LookupFails(t) /\ ~SendFails(t)
           /\ ~ThreadCancelled(t) /\ ~TouchFreed(t)
<1>1. ASSUME pc[t] \in {"read", "text"}
      PROVE  Serving(t) /\ ConnOf(t) \in Conn /\ ConnOf(t) # NoConn /\ ~AtError(t)
  <2>1. Serving(t) /\ ConnOf(t) \in Conn /\ ConnOf(t) # NoConn
    BY <1>1, ServingFacts DEF Live
  <2>2. peer[ConnOf(t)] # "rst"
    BY <2>1 DEF Running, Ends
  <2>. QED BY <2>1, <2>2 DEF AtError
<1>2. ~ReadTooBig(t)
  <2>. SUFFICES ASSUME ReadTooBig(t) PROVE FALSE
    OBVIOUS
  <2>1. PICK c \in Conn : Readable(t, c) /\ Head(inbox[c]).kind \in {"big", "text"}
    BY DEF ReadTooBig
  <2>. QED BY <2>1, NextPiece DEF ReadTooBig, Readable
<1>3. ~ReadError(t)
  BY <1>1 DEF ReadError
<1>4. ~ReadTextFails(t)
  <2>. SUFFICES ASSUME pc[t] = "text", AtEof(t) PROVE FALSE
    BY <1>1 DEF ReadTextFails
  <2>. QED BY <1>1, NextPiece DEF AtEof
<1>5. ~LookupFails(t)
  <2>. SUFFICES ASSUME pc[t] \in {"talk", "quit"},
                       \E id \in Cid(t) : FindInt(id) = {}
                PROVE  FALSE
    BY DEF LookupFails
  <2>1. t \in current_clients /\ Joined(t)
    BY DEF Running, StagesFit
  <2>. QED BY <2>1 DEF Cid, FindInt
<1>6. ~SendFails(t)
  <2>. SUFFICES ASSUME pc[t] = "send", NEW u \in todo[t],
                       ConnOf(u) = NoConn \/ peer[ConnOf(u)] \in {"rst", "fin", "finrst"}
                PROVE  FALSE
    BY DEF SendFails
  <2>1. u \in current_clients
    BY DEF Running, Audiences
  <2>2. ConnOf(u) \in Conn /\ ConnOf(u) # NoConn
    BY <2>1, ServingFacts
  <2>3. peer[ConnOf(u)] # "open"
    BY <2>2
  <2>4. pc[u] \in {"read", "quit"} /\ (u = t \/ pc[t] = "read")
    BY <2>1, <2>3 DEF Running, GoingAlone, Live
  <2>. QED BY <2>2, <2>4
<1>7. ~ThreadCancelled(t) /\ ~TouchFreed(t)
  BY DEF ThreadCancelled, TouchFreed, Running, Started
<1>. QED BY <1>2, <1>3, <1>4, <1>5, <1>6, <1>7

\* Every slot that shutdown() looks at has a thread's id.
LEMMA SlotsFilled ==
    ASSUME Inv, Running, mainPc # "start"
    PROVE  /\ NoThread \notin ShutdownIds /\ Acceptor \in ShutdownIds
           /\ current_clients \subseteq ShutdownIds
<1>. USE ConstantsAssumption
<1>1. num_connections \in Nat /\ current_clients \subseteq Thread
  BY DEF Inv, TypeOK, RegistryType
<1>2. threads[0] = Acceptor
  BY DEF Running, Started
<1>3. \A i \in 1..num_connections : threads[i] \in current_clients
  BY DEF Running, Slots
<1>4. \A i \in 0..num_connections : threads[i] # NoThread
  BY <1>1, <1>2, <1>3 DEF Thread, Acceptor, NoThread
<1>5. \A t \in current_clients : \E i \in 1..num_connections : threads[i] = t
  BY DEF Running, Slots
<1>. QED BY <1>1, <1>2, <1>4, <1>5 DEF ShutdownIds

LEMMA MainFailsNot ==
    ASSUME Peaceful, Inv, Running, status = "run"
    PROVE  ~StartAcceptorFails /\ ~ShutdownFails /\ ~AcceptorCancelled /\ ~Exit
<1>1. ~StartAcceptorFails
  BY DEF StartAcceptorFails, Peaceful
<1>2. ~ShutdownFails
  BY SlotsFilled DEF ShutdownFails
<1>3. ~AcceptorCancelled /\ ~Exit
  BY DEF AcceptorCancelled, Exit, Running, Started
<1>. QED BY <1>1, <1>2, <1>3

------------------------------------------------------------------------------
(* Every step of the running server keeps the invariant. *)

\* Steps that touch no socket and no thread between a size and its text.
LEMMA InboxesFrame ==
    ASSUME Inboxes, UNCHANGED <<inbox, sent>>,
           \A c \in Conn : Halfway(c)' <=> Halfway(c)
    PROVE  Inboxes'
BY DEF Inboxes

LEMMA NamesFrame ==
    ASSUME Names,
           UNCHANGED <<pc, fd, fdTable, msg, username, all_clients, current_clients>>
    PROVE  Names'
BY DEF Names, ConnOf

\* The console ends.
LEMMA ConsoleEofRunning ==
    ASSUME Peaceful, Running, ConsoleEof
    PROVE  Running'
<1>. USE DEF client, acc, trav, thr, reg, proc
<1>1. Settled /\ mainPc' = "shutdown"
  BY DEF ConsoleEof, Peaceful
<1>2. UNCHANGED <<client, log, backlog, fdTable, acc, thr, reg, mut, threads,
                  cancelled, status, history>>
  BY DEF ConsoleEof
<1>3. Started'
  BY <1>1, <1>2 DEF Running, Started, Resting, Settled, Live, Joined, ConnOf
<1>4. StagesFit'
  BY <1>2 DEF Running, StagesFit, Joined
<1>5. Descriptors'
  BY <1>2 DEF Running, Descriptors, Serving, FdOf, Line, Live, Joined, ConnOf
<1>6. OneChange'
  BY <1>2 DEF Running, OneChange, Steady, Live, Joined, Line, FdOf, ConnOf
<1>7. GoingAlone'
  BY <1>2 DEF Running, GoingAlone, Live, ConnOf
<1>8. (Names /\ Slots /\ Inboxes)'
  <2>1. Names'
    BY <1>2, NamesFrame DEF Running
  <2>2. Slots'
    BY <1>2 DEF Running, Slots, Live, Joined
  <2>3. Inboxes'
    BY <1>2, InboxesFrame DEF Running, Halfway, ConnOf
  <2>. QED BY <2>1, <2>2, <2>3
<1>9. (Ends /\ Ids /\ Audiences)'
  BY <1>2 DEF Running, Ends, Ids, UniqueIds, Audiences
<1>. QED BY <1>3, <1>4, <1>5, <1>6, <1>7, <1>8, <1>9 DEF Running

\* A client connects: nobody else is coming or going.
LEMMA ConnectRunning ==
    ASSUME Peaceful, Inv, Running, NEW c \in Conn, Connect(c)
    PROVE  Running'
<1>. USE DEF client, acc, trav, thr, reg, proc
<1>1. /\ Settled /\ peer[c] = "none" /\ backlog' = Append(backlog, c)
      /\ \A d \in Conn : peer'[d] = IF d = c THEN "open" ELSE peer[d]
  BY DEF Connect, Peaceful, Inv, TypeOK, ClientType
<1>2. UNCHANGED <<inbox, sent, got, log, fdTable, acc, thr, reg, mut, threads,
                  proc, history>>
  BY DEF Connect
<1>3. backlog = <<>> /\ backlog' = <<c>>
  BY <1>1 DEF Settled
<1>4. /\ \A t \in Thread : Live(t) => Steady(t) /\ ConnOf(t) \in Conn /\ ConnOf(t) # c
      /\ \A t \in Thread : pc[t] # "start"
  <2>1. \A t \in Thread : Live(t) => /\ pc[t] = "read" /\ Joined(t)
                                     /\ ConnOf(t) # NoConn /\ peer[ConnOf(t)] = "open"
    BY <1>1 DEF Settled
  <2>2. \A t \in Thread : Live(t) => Serving(t) /\ ConnOf(t) \in Conn
    BY <2>1, ServingFacts
  <2>. QED BY <1>1, <2>1, <2>2 DEF Serving, Steady, Live
<1>5. Started'
  BY <1>1, <1>2 DEF Running, Started, Settled
<1>6. StagesFit'
  BY <1>2 DEF Running, StagesFit, Joined
<1>7. Descriptors'
  BY <1>2 DEF Running, Descriptors, Serving, FdOf, Line, Live, Joined, ConnOf
<1>8. Ends'
  <2>1. \A f \in 1..MaxFd : fdTable[f] # c
    BY <1>1, ConstantsAssumption DEF Running, Ends
  <2>2. \A t \in all_clients : username[t] \in Conn /\ username[t] # c
    BY <1>1 DEF Running, Ends, Inv, Stages
  <2>3. \A f \in 1..MaxFd : fdTable[f] \in Conn \cup {NoConn}
    BY DEF Inv, TypeOK, SocketType
  <2>4. /\ \A d \in Conn : peer[d] \in {"none", "open", "fin"}
        /\ \A d \in Conn : peer[d] = "none" => sent[d] = 0
        /\ \A f \in 1..MaxFd : fdTable[f] # NoConn => peer[fdTable[f]] # "none"
        /\ \A t \in all_clients : peer[username[t]] # "none"
        /\ \A t \in all_clients \ current_clients : peer[username[t]] # "open"
    BY DEF Running, Ends
  <2>5. /\ \A d \in Conn : peer'[d] \in {"none", "open", "fin"}
        /\ \A d \in Conn : peer'[d] = "none" => sent[d] = 0
        /\ \A f \in 1..MaxFd : fdTable[f] # NoConn => peer'[fdTable[f]] # "none"
        /\ \A t \in all_clients : peer'[username[t]] # "none"
        /\ \A t \in all_clients \ current_clients : peer'[username[t]] # "open"
    BY <1>1, <2>1, <2>2, <2>3, <2>4
  <2>6. /\ Len(backlog') <= 1
        /\ \A i \in DOMAIN backlog' :
              peer'[backlog'[i]] = "open" /\ \A f \in 1..MaxFd : fdTable[f] # backlog'[i]
    BY <1>1, <1>3, <2>1
  <2>. QED BY <1>2, <2>5, <2>6 DEF Ends
<1>9. OneChange'
  <2>1. \A t \in Thread : Live(t) => Steady(t)'
    BY <1>1, <1>2, <1>4 DEF Steady, ConnOf
  <2>2. accPc = "accept"
    BY <1>1 DEF Settled
  <2>3. \A t \in Thread : Live(t)' = Live(t) /\ (Live(t) => Joined(t)')
    BY <1>1, <1>2 DEF Live, Joined, Settled
  <2>. QED BY <1>2, <2>1, <2>2, <2>3 DEF OneChange
<1>10. GoingAlone'
  BY <1>1, <1>2, <1>4, ServingFacts DEF Running, GoingAlone, Live, ConnOf, Settled
<1>11. (Names /\ Slots /\ Inboxes)'
  <2>1. Names'
    BY <1>2, NamesFrame DEF Running
  <2>2. Slots'
    BY <1>2 DEF Running, Slots, Live, Joined
  <2>3. Inboxes'
    BY <1>2, InboxesFrame DEF Running, Halfway, ConnOf
  <2>. QED BY <2>1, <2>2, <2>3
<1>12. (Ids /\ Audiences)'
  BY <1>2 DEF Running, Ids, UniqueIds, Audiences
<1>. QED BY <1>5, <1>6, <1>7, <1>8, <1>9, <1>10, <1>11, <1>12 DEF Running

\* A client prints a message.
LEMMA ReceiveStringRunning ==
    ASSUME Running, NEW c \in Conn, ReceiveString(c)
    PROVE  Running'
<1>. USE DEF client, acc, trav, thr, reg, proc
<1>1. UNCHANGED <<peer, inbox, sent, log, backlog, fdTable, acc, thr, reg, mut,
                  threads, proc, history>>
  BY DEF ReceiveString
<1>2. (Started /\ StagesFit /\ Ends /\ GoingAlone)'
  BY <1>1 DEF Running, Started, Resting, StagesFit, Ends, GoingAlone, Live,
     Joined, ConnOf
<1>3. Descriptors'
  BY <1>1 DEF Running, Descriptors, Serving, FdOf, Line, Live, Joined, ConnOf
<1>4. OneChange'
  BY <1>1 DEF Running, OneChange, Steady, Live, Joined, Line, FdOf, ConnOf
<1>5. (Names /\ Slots /\ Inboxes)'
  <2>1. Names'
    BY <1>1, NamesFrame DEF Running
  <2>2. Slots'
    BY <1>1 DEF Running, Slots, Live, Joined
  <2>3. Inboxes'
    BY <1>1, InboxesFrame DEF Running, Halfway, ConnOf
  <2>. QED BY <2>1, <2>2, <2>3
<1>6. (Ids /\ Audiences)'
  BY <1>1 DEF Running, Ids, UniqueIds, Audiences
<1>. QED BY <1>2, <1>3, <1>4, <1>5, <1>6 DEF Running

\* A client ends: all others are there and have nothing in flight.
LEMMA QuitRunning ==
    ASSUME Peaceful, Inv, Running, NEW c \in Conn, Quit(c)
    PROVE  Running'
<1>. USE DEF client, acc, trav, thr, reg, proc
<1>1. Settled /\ peer[c] = "open"
  BY DEF Quit, Peaceful
<1>2. \A d \in Conn : peer'[d] = IF d = c THEN "fin" ELSE peer[d]
  <2>1. ~(Unread(c) > 0)
    BY DEF Quit, Peaceful
  <2>. QED BY <2>1 DEF Quit, Inv, TypeOK, ClientType
<1>3. UNCHANGED <<inbox, sent, got, log, backlog, fdTable, acc, thr, reg, mut,
                  threads, proc, history>>
  BY DEF Quit, Peaceful
<1>4. \A t \in Thread : Live(t) =>
         /\ pc[t] = "read" /\ Joined(t) /\ Serving(t) /\ t \in current_clients
         /\ ConnOf(t) \in Conn /\ Line(t) = ConnOf(t)
         /\ peer[ConnOf(t)] = "open" /\ inbox[ConnOf(t)] = <<>>
  <2>1. \A t \in Thread : Live(t) => /\ pc[t] = "read" /\ Joined(t)
             /\ peer[ConnOf(t)] = "open" /\ inbox[ConnOf(t)] = <<>>
    BY <1>1 DEF Settled
  <2>2. \A t \in Thread : Live(t) =>
           Serving(t) /\ Line(t) \in Conn /\ ConnOf(t) = Line(t)
    BY <2>1, ServingFacts
  <2>. QED BY <2>1, <2>2 DEF Serving
<1>5. accPc = "accept" /\ backlog = <<>> /\ mainPc = "console"
  BY <1>1 DEF Settled
<1>6. Started'
  BY <1>3, <1>5 DEF Running, Started
<1>7. (StagesFit /\ Ids /\ Audiences)'
  BY <1>3 DEF Running, StagesFit, Joined, Ids, UniqueIds, Audiences
<1>8. Descriptors'
  BY <1>3 DEF Running, Descriptors, Serving, FdOf, Line, Live, Joined, ConnOf
<1>9. Ends'
  <2>1. \A t \in all_clients : username[t] \in Conn
    BY DEF Inv, Stages
  <2>2. \A f \in 1..MaxFd : fdTable[f] \in Conn \cup {NoConn}
    BY DEF Inv, TypeOK, SocketType
  <2>. QED BY <1>1, <1>2, <1>3, <1>5, <2>1, <2>2 DEF Running, Ends
<1>10. OneChange'
  <2>1. \A t \in Thread : Live(t)' = Live(t) /\ (Live(t) => Joined(t)')
    BY <1>3, <1>4 DEF Live, Joined
  <2>2. \A t \in Thread : Live(t) /\ ~Steady(t)' => ConnOf(t) = c
    BY <1>2, <1>3, <1>4 DEF Steady, ConnOf
  <2>3. \A t, u \in Thread : Live(t) /\ Live(u) /\ ConnOf(t) = c /\ ConnOf(u) = c => t = u
    BY <1>4, ServingFacts
  <2>. QED BY <1>3, <1>5, <2>1, <2>2, <2>3 DEF OneChange
<1>11. GoingAlone'
  <2>1. \A t \in current_clients : t \in Thread /\ Live(t)
    BY ServingFacts
  <2>2. \A t \in Thread : Live(t)' = Live(t) /\ ConnOf(t)' = ConnOf(t)
    BY <1>3 DEF Live, ConnOf
  <2>3. \A t \in Thread : pc[t] # "quit"
    BY <1>4 DEF Live
  <2>. QED BY <1>3, <1>4, <2>1, <2>2, <2>3 DEF GoingAlone
<1>12. (Names /\ Slots /\ Inboxes)'
  <2>1. Names'
    BY <1>3, NamesFrame DEF Running
  <2>2. Slots'
    BY <1>3 DEF Running, Slots, Live, Joined
  <2>3. Inboxes'
    BY <1>3, InboxesFrame DEF Running, Halfway, ConnOf
  <2>. QED BY <2>1, <2>2, <2>3
<1>. QED BY <1>6, <1>7, <1>8, <1>9, <1>10, <1>11, <1>12 DEF Running

\* A client sends a message: no client that is there has gone.
LEMMA SendStringRunning ==
    ASSUME Peaceful, Inv, Running, NEW c \in Conn, SendString(c)
    PROVE  Running'
<1>. USE DEF client, acc, trav, thr, reg, proc
<1>. DEFINE two == <<[kind |-> "size", n |-> sent[c] + 1],
                     [kind |-> "text", n |-> sent[c] + 1]>>
            bytes == inbox[c] \o two
<1>1. /\ peer[c] = "open" /\ mainPc = "console" /\ ~Leaving
      /\ \A d \in Conn : inbox'[d] = IF d = c THEN bytes ELSE inbox[d]
      /\ \A d \in Conn : sent'[d] = IF d = c THEN sent[c] + 1 ELSE sent[d]
  BY DEF SendString, Peaceful, Inv, TypeOK, ClientType
<1>2. UNCHANGED <<peer, got, log, backlog, fdTable, acc, thr, reg, mut,
                  threads, proc, history>>
  BY DEF SendString
<1>3. (StagesFit /\ Ids /\ Audiences)'
  BY <1>2 DEF Running, StagesFit, Joined, Ids, UniqueIds, Audiences
<1>4. Descriptors'
  BY <1>2 DEF Running, Descriptors, Serving, FdOf, Line, Live, Joined, ConnOf
<1>5. OneChange'
  BY <1>2 DEF Running, OneChange, Steady, Live, Joined, Line, FdOf, ConnOf
<1>6. Started' /\ Ends'
  BY <1>1, <1>2 DEF Running, Started, Ends
<1>7. GoingAlone'
  <2>1. \A t \in current_clients : peer[ConnOf(t)] = "open"
    BY <1>1, ServingFacts DEF Leaving, Line, ConnOf
  <2>2. \A t \in Thread : pc[t] # "quit"
    BY <2>1 DEF Running, GoingAlone, StagesFit, Joined
  <2>. QED BY <1>2, <2>1, <2>2 DEF GoingAlone, ConnOf
<1>8. Names'
  BY <1>2, NamesFrame DEF Running
<1>9. Slots'
  BY <1>2 DEF Running, Slots, Live, Joined
<1>10. Inboxes'
  <2>. SUFFICES ASSUME NEW d \in Conn
                PROVE  /\ Len(inbox'[d]) <= 2 * sent'[d]
                       /\ \A i \in DOMAIN inbox'[d] :
                             /\ inbox'[d][i].kind =
                                   IF (Len(inbox'[d]) - i) % 2 = 0 THEN "text" ELSE "size"
                             /\ inbox'[d][i].n = sent'[d] - ((Len(inbox'[d]) - i) \div 2)
                       /\ Len(inbox'[d]) % 2 = 1 <=> Halfway(d)'
    BY DEF Inboxes
  <2>1. Halfway(d)' <=> Halfway(d)
    BY <1>2 DEF Halfway, ConnOf
  <2>0. /\ Len(inbox[d]) <= 2 * sent[d]
        /\ \A i \in DOMAIN inbox[d] :
              /\ inbox[d][i].kind = IF (Len(inbox[d]) - i) % 2 = 0 THEN "text" ELSE "size"
              /\ inbox[d][i].n = sent[d] - ((Len(inbox[d]) - i) \div 2)
        /\ Len(inbox[d]) % 2 = 1 <=> Halfway(d)
    BY DEF Running, Inboxes
  <2>2. CASE d # c
    <3>1. inbox'[d] = inbox[d] /\ sent'[d] = sent[d]
      BY <1>1, <2>2
    <3>. QED BY <2>0, <2>1, <3>1
  <2>3. CASE d = c
    <3>. DEFINE l == Len(inbox[c])
    <3>1. inbox[c] \in Seq(Piece) /\ sent[c] \in Nat /\ l \in Nat
      BY DEF Inv, TypeOK, ClientType
    <3>2. /\ two \in Seq(Piece) /\ Len(two) = 2
          /\ two[1].kind = "size" /\ two[2].kind = "text"
          /\ two[1].n = sent[c] + 1 /\ two[2].n = sent[c] + 1
      BY <3>1 DEF Piece
    <3>3. /\ bytes \in Seq(Piece) /\ Len(bytes) = l + 2
          /\ \A i \in 1..l + 2 :
                bytes[i] = IF i <= l THEN inbox[c][i] ELSE two[i - l]
      <4>1. Len(two) = 2 /\ two \in Seq(Piece) /\ inbox[c] \in Seq(Piece)
        BY <3>1, <3>2
      <4>. QED BY <3>1, <4>1, ConcatProperties
    <3>4. /\ l <= 2 * sent[c]
          /\ \A i \in DOMAIN inbox[c] :
                /\ inbox[c][i].kind = IF (l - i) % 2 = 0 THEN "text" ELSE "size"
                /\ inbox[c][i].n = sent[c] - ((l - i) \div 2)
          /\ l % 2 = 1 <=> Halfway(c)
      BY <2>0, <2>3
    <3>5. DOMAIN inbox[c] = 1..l /\ DOMAIN bytes = 1..l + 2
      BY <3>1, <3>3
    <3>. HIDE DEF two, bytes, l
    <3>6. ASSUME NEW i \in 1..l + 2
          PROVE  /\ bytes[i].kind = IF (l + 2 - i) % 2 = 0 THEN "text" ELSE "size"
                 /\ bytes[i].n = sent[c] + 1 - ((l + 2 - i) \div 2)
      <4>1. CASE i <= l
        <5>1. /\ bytes[i] = inbox[c][i] /\ i \in DOMAIN inbox[c]
              /\ l - i \in Nat /\ l + 2 - i = (l - i) + 2
          BY <3>1, <3>3, <3>5, <4>1
        <5>2. /\ (l + 2 - i) % 2 = (l - i) % 2
              /\ (l + 2 - i) \div 2 = ((l - i) \div 2) + 1
              /\ (l - i) \div 2 \in Nat
          BY <5>1, Halves
        <5>3. /\ inbox[c][i].kind = IF (l - i) % 2 = 0 THEN "text" ELSE "size"
              /\ inbox[c][i].n = sent[c] - ((l - i) \div 2)
          BY <3>4, <5>1
        <5>4. \A m, h \in Nat : m - h = m + 1 - (h + 1)
          OBVIOUS
        <5>5. sent[c] - ((l - i) \div 2) = sent[c] + 1 - (((l - i) \div 2) + 1)
          BY <3>1, <5>2, <5>4
        <5>6. bytes[i].kind = IF (l + 2 - i) % 2 = 0 THEN "text" ELSE "size"
          BY <5>1, <5>2, <5>3, Zenon
        <5>7. bytes[i].n = sent[c] + 1 - ((l + 2 - i) \div 2)
          BY <5>1, <5>2, <5>3, <5>5, Zenon
        <5>. QED BY <5>6, <5>7
      <4>2. CASE i = l + 1
        <5>1. bytes[i] = two[1] /\ l + 2 - i = 1
          BY <3>1, <3>3, <4>2
        <5>2. 1 % 2 = 1 /\ 1 \div 2 = 0
          OBVIOUS
        <5>3. (l + 2 - i) % 2 = 1 /\ (l + 2 - i) \div 2 = 0
          BY <5>1, <5>2, Zenon
        <5>4. bytes[i].kind = "size" /\ bytes[i].n = sent[c] + 1
          BY <3>2, <5>1
        <5>5. sent[c] + 1 = sent[c] + 1 - 0
          BY <3>1
        <5>. QED BY <5>3, <5>4, <5>5
      <4>3. CASE i = l + 2
        <5>1. bytes[i] = two[2] /\ l + 2 - i = 0
          BY <3>1, <3>3, <4>3
        <5>2. 0 % 2 = 0 /\ 0 \div 2 = 0
          OBVIOUS
        <5>3. (l + 2 - i) % 2 = 0 /\ (l + 2 - i) \div 2 = 0
          BY <5>1, <5>2, Zenon
        <5>4. bytes[i].kind = "text" /\ bytes[i].n = sent[c] + 1
          BY <3>2, <5>1
        <5>5. sent[c] + 1 = sent[c] + 1 - 0
          BY <3>1
        <5>. QED BY <5>3, <5>4, <5>5
      <4>. QED BY <3>1, <4>1, <4>2, <4>3
    <3>7. l + 2 <= 2 * (sent[c] + 1) /\ ((l + 2) % 2 = 1 <=> Halfway(c))
      BY <3>1, <3>4, Halves
    <3>8. inbox'[d] = bytes /\ sent'[d] = sent[c] + 1 /\ Len(inbox'[d]) = l + 2
      BY <1>1, <2>3, <3>3
    <3>9. DOMAIN inbox'[d] = 1..l + 2
      BY <3>5, <3>8
    <3>10. ASSUME NEW i \in DOMAIN inbox'[d]
           PROVE  /\ inbox'[d][i].kind =
                        IF (Len(inbox'[d]) - i) % 2 = 0 THEN "text" ELSE "size"
                  /\ inbox'[d][i].n = sent'[d] - ((Len(inbox'[d]) - i) \div 2)
      <4>1. i \in 1..l + 2
        BY <3>9
      <4>2. Len(inbox'[d]) - i = l + 2 - i
        BY <3>1, <3>8, <4>1
      <4>3. /\ bytes[i].kind = IF (l + 2 - i) % 2 = 0 THEN "text" ELSE "size"
            /\ bytes[i].n = sent[c] + 1 - ((l + 2 - i) \div 2)
        BY <3>6, <4>1
      <4>. QED BY <3>1, <3>8, <4>2, <4>3
    <3>. QED BY <2>1, <2>3, <3>7, <3>8, <3>10
  <2>. QED BY <2>2, <2>3
<1>. QED BY <1>3, <1>4, <1>5, <1>6, <1>7, <1>8, <1>9, <1>10 DEF Running

\* The main thread creates the accepting thread.
LEMMA StartAcceptorRunning ==
    ASSUME Inv, Running, StartAcceptor
    PROVE  Running'
<1>. USE DEF client, acc, trav, thr, reg, proc
<1>1. /\ mainPc = "start" /\ mainPc' = "console" /\ accPc' = "accept"
      /\ threads'[0] = Acceptor
      /\ \A i \in Slot : i # 0 => threads'[i] = threads[i]
  BY ConstantsAssumption DEF StartAcceptor, Inv, TypeOK, ProcessType, Slot
<1>2. UNCHANGED <<client, log, backlog, fdTable, acceptFd, created, thr, reg,
                  mut, cancelled, status, history>>
  BY DEF StartAcceptor
<1>3. accPc = "none" /\ backlog = <<>> /\ \A t \in Thread : pc[t] = "none"
  BY <1>1 DEF Running, Started, Inv, Stages, Thread
<1>4. current_clients = {} /\ all_clients = {} /\ num_connections = 0
  BY <1>3, FS_EmptySet DEF Inv, Bookkeeping, Stages, TypeOK, RegistryType
<1>5. Started'
  BY <1>1, <1>2 DEF Running, Started
<1>6. (StagesFit /\ Ends /\ Ids /\ Audiences)'
  BY <1>2 DEF Running, StagesFit, Joined, Ends, Ids, UniqueIds, Audiences
<1>7. Descriptors'
  BY <1>1, <1>2, <1>3 DEF Running, Descriptors, Serving, FdOf, Line, Live,
     Joined, ConnOf
<1>8. OneChange'
  BY <1>1, <1>2, <1>3 DEF Running, OneChange, Steady, Live
<1>9. GoingAlone'
  BY <1>2, <1>3, <1>4 DEF GoingAlone
<1>10. Names'
  BY <1>2, NamesFrame DEF Running
<1>11. Slots'
  BY <1>2, <1>3, <1>4 DEF Slots, Live
<1>12. Inboxes'
  BY <1>2, InboxesFrame DEF Running, Halfway, ConnOf
<1>. QED BY <1>5, <1>6, <1>7, <1>8, <1>9, <1>10, <1>11, <1>12 DEF Running

\* While a connection waits for its thread, all threads serve steady clients.
LEMMA AllSteady ==
    ASSUME Inv, Running, backlog # <<>> \/ accPc = "create"
    PROVE  /\ \A t \in Thread : Live(t) =>
                 /\ Steady(t) /\ Joined(t) /\ Serving(t) /\ t \in current_clients
                 /\ FdOf(t) = fd[t] /\ fd[t] \in 1..MaxFd
                 /\ fdTable[fd[t]] = ConnOf(t) /\ ConnOf(t) \in Conn
                 /\ ConnOf(t) # NoConn
           /\ \A t \in Thread : pc[t] # "start"
           /\ mainPc = "console"
<1>1. \A t \in Thread : Live(t) => Steady(t) /\ t \in current_clients
  BY DEF Running, OneChange, Steady
<1>2. \A t \in Thread : pc[t] # "start"
  BY <1>1, ServingFacts DEF Live
<1>3. \A t \in Thread : Live(t) =>
         Joined(t) /\ Serving(t) /\ Line(t) \in Conn /\ Line(t) # NoConn
           /\ fd[t] \in 1..MaxFd /\ ConnOf(t) = Line(t)
  BY <1>1, <1>2, ServingFacts
<1>4. mainPc = "console"
  BY DEF Running, Started, Resting, Inv, TypeOK, ProcessType
<1>. QED BY <1>1, <1>2, <1>3, <1>4 DEF FdOf, Line

\* A connection gets a free descriptor.
LEMMA AcceptRunning ==
    ASSUME Inv, Running, Accept
    PROVE  Running'
<1>. USE DEF client, acc, trav, thr, reg, proc
<1>. USE ConstantsAssumption
<1>0. backlog # <<>> /\ accPc = "accept" /\ accPc' = "create"
  BY DEF Accept
<1>1. PICK f \in 1..MaxFd :
         /\ fdTable[f] = NoConn /\ acceptFd' = f
         /\ fdTable' = [fdTable EXCEPT ![f] = Head(backlog)]
  BY DEF Accept, FreeFds
<1>. DEFINE c == Head(backlog)
<1>2. backlog' = <<>> /\ c \in Conn /\ c # NoConn /\ c = backlog[1] /\ 1 \in DOMAIN backlog
  <2>1. backlog \in Seq(Conn) /\ Len(backlog) <= 1 /\ backlog' = Tail(backlog)
    BY DEF Accept, Inv, TypeOK, SocketType, Running, Ends
  <2>. QED BY <1>0, <2>1
<1>3. \A g \in 1..MaxFd : fdTable'[g] = IF g = f THEN c ELSE fdTable[g]
  BY <1>1 DEF Inv, TypeOK, SocketType
<1>4. UNCHANGED <<client, log, created, thr, reg, mut, threads, proc, history>>
  BY DEF Accept
<1>5. peer[c] = "open" /\ \A g \in 1..MaxFd : fdTable[g] # c
  BY <1>2 DEF Running, Ends
<1>. HIDE DEF c
<1>6. /\ \A t \in Thread : Live(t)' = Live(t)
      /\ \A t \in Thread : Serving(t)' = Serving(t)
      /\ \A t \in Thread : Live(t) => Steady(t)
      /\ \A t \in Thread : pc[t] # "start"
      /\ \A t \in current_clients : t \in Thread /\ Live(t)
  BY <1>0, <1>4, AllSteady, ServingFacts DEF Live, Serving, Joined
<1>7. \A t \in Thread : Live(t) =>
         /\ fd[t] # f /\ FdOf(t) = fd[t] /\ FdOf(t)' = FdOf(t)
         /\ Line(t)' = Line(t) /\ ConnOf(t)' = ConnOf(t) /\ Line(t) = ConnOf(t)
         /\ fd[t] \in 1..MaxFd /\ ConnOf(t) \in Conn /\ ConnOf(t) # NoConn
         /\ Serving(t) /\ Joined(t)
  BY <1>0, <1>1, <1>3, <1>4, AllSteady DEF FdOf, Line, ConnOf
<1>8. Started'
  BY <1>0, <1>4, AllSteady DEF Running, Started
<1>9. (StagesFit /\ Ids /\ Audiences)'
  BY <1>4 DEF Running, StagesFit, Joined, Ids, UniqueIds, Audiences
<1>10. Descriptors'
  <2>1. \A g, h \in 1..MaxFd :
           fdTable'[g] # NoConn /\ fdTable'[g] = fdTable'[h] => g = h
    BY <1>3, <1>5 DEF Running, Descriptors
  <2>2. \A t, u \in Thread :
           Serving(t) /\ Serving(u) /\ FdOf(t)' = FdOf(u)' => t = u
    BY <1>7 DEF Serving, Running, Descriptors
  <2>3. \A g \in 1..MaxFd : fdTable[g] # NoConn =>
           \E t \in Thread : Serving(t) /\ g = FdOf(t)
    BY <1>0 DEF Running, Descriptors
  <2>4. \A g \in 1..MaxFd : fdTable'[g] # NoConn =>
           g = f \/ \E t \in Thread : Serving(t) /\ g = FdOf(t)'
    BY <2>3, <1>3, <1>7 DEF Serving
  <2>5. \A t \in Thread : pc[t] \in {"none", "start"} => fd[t] = 0
    BY DEF Running, Descriptors
  <2>6. \A t \in Thread : Serving(t) => FdOf(t)' \in 1..MaxFd /\ Line(t)' # NoConn
                                          /\ FdOf(t)' # f
    BY <1>7 DEF Serving
  <2>. QED BY <1>0, <1>1, <1>2, <1>3, <1>4, <1>6, <1>7, <2>1, <2>2, <2>4, <2>5, <2>6
       DEF Descriptors
<1>11. Ends'
  BY <1>1, <1>2, <1>3, <1>4, <1>5 DEF Running, Ends
<1>12. OneChange'
  <2>1. \A t \in Thread : Live(t) => Steady(t)'
    BY <1>4, <1>6, <1>7 DEF Steady
  <2>2. \A t \in Thread : Live(t) => Joined(t)'
    BY <1>4, <1>7 DEF Joined
  <2>. QED BY <1>0, <1>1, <1>2, <1>3, <1>4, <1>5, <1>6, <2>1, <2>2 DEF OneChange
<1>13. GoingAlone'
  <2>1. \A t \in current_clients : peer[ConnOf(t)'] = "open"
    BY <1>6, <1>7 DEF Steady
  <2>2. \A t \in Thread : pc[t] # "quit"
    BY <1>6 DEF Running, GoingAlone, Steady, Live
  <2>. QED BY <1>4, <2>1, <2>2 DEF GoingAlone
<1>14. Names'
  <2>1. \A t \in Thread : t \in current_clients \/ pc[t] \in
           {"text", "newclient", "addclient", "talk"} => ConnOf(t)' = ConnOf(t)
    BY <1>6, <1>7 DEF Live
  <2>. QED BY <1>4, <2>1 DEF Running, Names
<1>15. Slots'
  BY <1>4 DEF Running, Slots, Live, Joined
<1>16. Inboxes'
  <2>1. \A d \in Conn : Halfway(d)' <=> Halfway(d)
    BY <1>4, <1>7 DEF Halfway, Live
  <2>. QED BY <1>4, <2>1, InboxesFrame DEF Running
<1>. QED BY <1>8, <1>9, <1>10, <1>11, <1>12, <1>13, <1>14, <1>15, <1>16 DEF Running

\* A thread is created for the connection, the one in the next slot.
LEMMA CreateThreadRunning ==
    ASSUME Inv, Running, CreateThread
    PROVE  Running'
<1>. USE DEF client, acc, trav, thr, reg, proc
<1>. USE ConstantsAssumption
<1>1. PICK new \in Thread :
         /\ accPc = "create" /\ accPc' = "accept"
         /\ created' = new /\ pc[new] = "none"
         /\ threads' = [threads EXCEPT ![num_connections + 1] = new]
         /\ \A t \in Thread : pc'[t] = IF t = new THEN "start" ELSE pc[t]
  <2>1. created + 1 \in Thread /\ created' = created + 1 /\ created \in Nat
    BY DEF CreateThread, CanCreate, Inv, TypeOK, AcceptorType, Thread
  <2>2. pc[created + 1] = "none"
    BY <2>1 DEF Inv, Stages
  <2>. QED BY <2>1, <2>2 DEF CreateThread, Inv, TypeOK, ThreadType
<1>2. /\ threads'[num_connections + 1] = new /\ num_connections \in Nat
      /\ \A i \in 0..num_connections : threads'[i] = threads[i]
  <2>2. num_connections + 1 \in Slot /\ num_connections \in Nat
    BY ConnectionsBound DEF Inv, TypeOK, RegistryType
  <2>3. threads \in [Slot -> Thread \cup {NoThread, Acceptor}]
    BY DEF Inv, TypeOK, ProcessType
  <2>4. 0..num_connections \subseteq Slot
    BY <2>2 DEF Slot
  <2>. QED BY <1>1, <2>2, <2>3, <2>4
<1>3. UNCHANGED <<client, log, backlog, fdTable, acceptFd, fd, msg, trav, reg,
                  mut, proc, history>>
  BY DEF CreateThread
<1>4. new \notin all_clients /\ new \notin current_clients
  BY <1>1 DEF Inv, Stages, Bookkeeping
<1>5. \A t \in Thread : Live(t) =>
         /\ Steady(t) /\ Joined(t) /\ Serving(t) /\ t \in current_clients
         /\ FdOf(t) = fd[t] /\ fd[t] \in 1..MaxFd
         /\ fdTable[fd[t]] = ConnOf(t) /\ ConnOf(t) \in Conn /\ ConnOf(t) # NoConn
  BY <1>1, AllSteady
<1>6. \A t \in Thread : pc[t] # "start"
  BY <1>1, AllSteady
<1>7. \A t \in Thread : Live(t)' <=> t = new \/ Live(t)
  BY <1>1 DEF Live
<1>8. \A t \in Thread : Serving(t)' <=> t = new \/ Serving(t)
  BY <1>3, <1>4, <1>7 DEF Serving, Joined
<1>9. /\ FdOf(new)' = acceptFd /\ Line(new)' = fdTable[acceptFd]
      /\ \A t \in Thread : t # new => FdOf(t)' = FdOf(t) /\ Line(t)' = Line(t)
  BY <1>1, <1>3 DEF FdOf, Line
<1>10. acceptFd \in 1..MaxFd /\ fdTable[acceptFd] # NoConn
       /\ \A t \in Thread : Serving(t) => FdOf(t) # acceptFd
  BY <1>1 DEF Running, Descriptors
<1>11. /\ \A t : ConnOf(t)' = ConnOf(t)
       /\ \A t : Steady(t)' = Steady(t)
  BY <1>3 DEF ConnOf, Steady
<1>12. backlog = <<>> /\ ~Live(new) /\ ~Serving(new)
  BY <1>1 DEF Running, OneChange, Live, Serving
<1>13. Started'
  BY <1>1, <1>2, <1>3, AllSteady DEF Running, Started
<1>14. StagesFit'
  BY <1>1, <1>3, <1>4 DEF Running, StagesFit, Joined
<1>15. Descriptors'
  <2>1. \A t \in Thread : Serving(t) => FdOf(t) \in 1..MaxFd /\ Line(t) # NoConn
    BY DEF Running, Descriptors
  <2>2. \A t, u \in Thread : Serving(t) /\ Serving(u) /\ FdOf(t) = FdOf(u) => t = u
    BY DEF Running, Descriptors
  <2>3. \A f \in 1..MaxFd : fdTable[f] # NoConn =>
           f = acceptFd \/ \E t \in Thread : Serving(t) /\ f = FdOf(t)
    BY DEF Running, Descriptors
  <2>4. \A t \in Thread : Serving(t)' => FdOf(t)' \in 1..MaxFd /\ Line(t)' # NoConn
    BY <1>8, <1>9, <1>10, <2>1
  <2>5. \A t, u \in Thread : Serving(t)' /\ Serving(u)' /\ FdOf(t)' = FdOf(u)' => t = u
    BY <1>8, <1>9, <1>10, <2>2
  <2>6. \A f \in 1..MaxFd : fdTable[f] # NoConn =>
           \E t \in Thread : Serving(t)' /\ f = FdOf(t)'
    BY <1>1, <1>8, <1>9, <1>12, <2>3
  <2>7. \A t \in Thread : pc'[t] \in {"none", "start"} => fd[t] = 0
    BY <1>1 DEF Running, Descriptors
  <2>8. \A t \in Thread : Live(t)' => Serving(t)'
    BY <1>5, <1>7, <1>8
  <2>9. \A f, g \in 1..MaxFd : fdTable[f] # NoConn /\ fdTable[f] = fdTable[g] => f = g
    BY DEF Running, Descriptors
  <2>. QED BY <1>1, <1>3, <2>4, <2>5, <2>6, <2>7, <2>8, <2>9 DEF Descriptors
<1>16. (Ends /\ Ids /\ Audiences)'
  BY <1>1, <1>3 DEF Running, Ends, Ids, UniqueIds, Audiences
<1>17. OneChange'
  <2>1. peer[fdTable[acceptFd]] = "open"
    BY <1>1 DEF Running, OneChange
  <2>. QED BY <1>1, <1>3, <1>5, <1>7, <1>9, <1>11, <1>12, <2>1 DEF OneChange, Joined
<1>18. GoingAlone'
  <2>1. \A t \in current_clients : peer[ConnOf(t)] = "open"
    BY <1>5, ServingFacts DEF Steady
  <2>2. \A t \in Thread : pc'[t] # "quit"
    BY <1>1, <1>5 DEF Running, GoingAlone, Steady, Live
  <2>. QED BY <1>3, <1>11, <2>1, <2>2 DEF GoingAlone
<1>19. Names'
  BY <1>1, <1>3, <1>11 DEF Running, Names
<1>20. Slots'
  BY <1>2, <1>3, <1>5, <1>7 DEF Running, Slots, Joined
<1>21. Inboxes'
  <2>1. \A c \in Conn : Halfway(c)' <=> Halfway(c)
    BY <1>1, <1>11 DEF Halfway
  <2>. QED BY <1>3, <2>1, InboxesFrame DEF Running
<1>. QED BY <1>13, <1>14, <1>15, <1>16, <1>17, <1>18, <1>19, <1>20, <1>21 DEF Running

\* There is no thread for the connection, and its descriptor is closed.
LEMMA CreateThreadFailsRunning ==
    ASSUME Inv, Running, CreateThreadFails
    PROVE  Running'
<1>. USE DEF client, acc, trav, thr, reg, proc
<1>. USE ConstantsAssumption
<1>1. /\ accPc = "create" /\ accPc' = "accept"
      /\ \A f \in 1..MaxFd :
            fdTable'[f] = IF f = acceptFd THEN NoConn ELSE fdTable[f]
  BY DEF CreateThreadFails, Inv, TypeOK, SocketType
<1>2. UNCHANGED <<client, log, backlog, acceptFd, created, thr, reg, mut,
                  threads, proc, history>>
  BY DEF CreateThreadFails
<1>3. \A t \in Thread : Live(t) =>
         /\ Steady(t) /\ Joined(t) /\ Serving(t) /\ t \in current_clients
         /\ FdOf(t) = fd[t] /\ fd[t] \in 1..MaxFd
         /\ fdTable[fd[t]] = ConnOf(t) /\ ConnOf(t) \in Conn /\ ConnOf(t) # NoConn
  BY <1>1, AllSteady
<1>4. \A t \in Thread : pc[t] # "start"
  BY <1>1, AllSteady
<1>5. \A t \in Thread : Live(t) => fd[t] # acceptFd
  BY <1>1, <1>3 DEF Running, Descriptors
<1>6. /\ \A t \in Thread : Live(t)' = Live(t) /\ Serving(t)' = Serving(t)
      /\ \A t \in Thread : FdOf(t)' = FdOf(t)
  BY <1>2 DEF Live, Serving, Joined, FdOf
<1>7. \A t \in Thread : Live(t) =>
         ConnOf(t)' = ConnOf(t) /\ Line(t)' = Line(t) /\ Steady(t)'
  BY <1>1, <1>2, <1>3, <1>5, <1>6 DEF ConnOf, Line, Steady
<1>8. \A t \in current_clients : t \in Thread /\ Live(t)
  BY ServingFacts
<1>9. Started'
  BY <1>1, <1>2, AllSteady DEF Running, Started
<1>10. (StagesFit /\ Ids /\ Audiences)'
  BY <1>2 DEF Running, StagesFit, Joined, Ids, UniqueIds, Audiences
<1>11. Descriptors'
  <2>1. \A f \in 1..MaxFd : fdTable[f] # NoConn =>
           f = acceptFd \/ \E t \in Thread : Serving(t) /\ f = FdOf(t)
    BY DEF Running, Descriptors
  <2>2. \A f \in 1..MaxFd : fdTable'[f] # NoConn =>
           \E t \in Thread : Serving(t)' /\ f = FdOf(t)'
    BY <1>1, <1>6, <2>1
  <2>3. \A f, g \in 1..MaxFd : fdTable'[f] # NoConn /\ fdTable'[f] = fdTable'[g] => f = g
    BY <1>1 DEF Running, Descriptors
  <2>4. \A t \in Thread : Serving(t)' => FdOf(t)' \in 1..MaxFd /\ Line(t)' # NoConn
    BY <1>3, <1>6, <1>7 DEF Serving, Line
  <2>5. \A t, u \in Thread : Serving(t)' /\ Serving(u)' /\ FdOf(t)' = FdOf(u)' => t = u
    BY <1>6 DEF Running, Descriptors
  <2>6. \A t \in Thread : pc[t] \in {"none", "start"} => fd[t] = 0
    BY DEF Running, Descriptors
  <2>. QED BY <1>1, <1>2, <1>3, <1>6, <2>2, <2>3, <2>4, <2>5, <2>6 DEF Descriptors
<1>12. Ends'
  <2>1. NoConn \notin Conn
    OBVIOUS
  <2>2. \A f \in 1..MaxFd : fdTable'[f] # NoConn => fdTable'[f] = fdTable[f]
    BY <1>1
  <2>3. \A i \in DOMAIN backlog : backlog[i] \in Conn
    BY DEF Inv, TypeOK, SocketType
  <2>4. \A f \in 1..MaxFd : \A i \in DOMAIN backlog : fdTable'[f] # backlog[i]
    BY <1>1, <2>1, <2>3 DEF Running, Ends
  <2>. QED BY <1>2, <2>2, <2>4 DEF Running, Ends
<1>13. OneChange'
  <2>1. backlog = <<>>
    BY <1>1 DEF Running, OneChange
  <2>. QED BY <1>1, <1>2, <1>3, <1>6, <1>7, <2>1 DEF OneChange, Joined
<1>14. GoingAlone'
  <2>1. \A t \in current_clients : peer[ConnOf(t)'] = "open"
    BY <1>3, <1>7, <1>8 DEF Steady
  <2>2. \A t \in Thread : pc[t] # "quit"
    BY <1>3 DEF Running, GoingAlone, Steady, Live
  <2>. QED BY <1>2, <2>1, <2>2 DEF GoingAlone
<1>15. Names'
  <2>1. \A t \in Thread : t \in current_clients \/ pc[t] \in
           {"text", "newclient", "addclient", "talk"} => ConnOf(t)' = ConnOf(t)
    BY <1>7, <1>8 DEF Live
  <2>. QED BY <1>2, <2>1 DEF Running, Names
<1>16. Slots'
  BY <1>2 DEF Running, Slots, Live, Joined
<1>17. Inboxes'
  <2>1. \A c \in Conn : Halfway(c)' <=> Halfway(c)
    BY <1>2, <1>7 DEF Halfway, Live
  <2>. QED BY <1>2, <2>1, InboxesFrame DEF Running
<1>. QED BY <1>9, <1>10, <1>11, <1>12, <1>13, <1>14, <1>15, <1>16, <1>17 DEF Running

\* Unless a thread is at the end of its client, all clients are there.
LEMMA AllHere ==
    ASSUME Inv, Running, NEW t \in Thread, Live(t), pc[t] # "quit",
           pc[t] = "read" => inbox[ConnOf(t)] # <<>>
    PROVE  /\ \A u \in current_clients : peer[ConnOf(u)] = "open"
           /\ \A u \in Thread : pc[u] # "quit"
           /\ mainPc # "shutdown"
<1>1. \A u \in current_clients : peer[ConnOf(u)] = "open"
  BY DEF Running, GoingAlone
<1>2. \A u \in Thread : pc[u] # "quit"
  BY <1>1 DEF Running, GoingAlone, StagesFit, Joined
<1>3. mainPc # "shutdown"
  BY DEF Running, Started, Resting
<1>. QED BY <1>1, <1>2, <1>3

\* A step of one thread from a stage that is not the end of its client to
\* another, by which no client comes or goes and no descriptor changes.
LEMMA ThreadFrame ==
    ASSUME Inv, Running, NEW t \in Thread, NEW s \in Stage,
           Live(t), pc[t] \notin {"start", "quit"},
           pc[t] = "read" => inbox[ConnOf(t)] # <<>>,
           s \notin {"none", "start", "quit"}, s = "exited" => ~Serving(t),
           \A u \in Thread : pc'[u] = IF u = t THEN s ELSE pc[u],
           \A u \in all_clients : username'[u] = username[u],
           UNCHANGED <<peer, sent, backlog, fdTable, acc, fd, current_clients,
                       all_clients, num_connections, threads, mainPc, cancelled>>
    PROVE  /\ Started' /\ Descriptors' /\ Ends' /\ OneChange' /\ GoingAlone'
           /\ Slots'
           /\ \A u \in Thread : /\ Live(u)' => Live(u)
                                /\ Serving(u)' <=> Serving(u)
                                /\ Joined(u)' <=> Joined(u)
                                /\ FdOf(u)' = FdOf(u) /\ Line(u)' = Line(u)
                                /\ ConnOf(u)' = ConnOf(u)
<1>. USE DEF acc
<1>1. \A u \in Thread : /\ Live(u)' => Live(u)
                        /\ Joined(u)' <=> Joined(u)
                        /\ FdOf(u)' = FdOf(u) /\ Line(u)' = Line(u)
                        /\ ConnOf(u)' = ConnOf(u)
  BY DEF Live, Joined, FdOf, Line, ConnOf
<1>2. \A u \in Thread : Serving(u)' <=> Serving(u)
  BY DEF Serving, Live, Joined
<1>3. /\ \A u \in current_clients : u \in Thread /\ peer[ConnOf(u)] = "open"
      /\ \A u \in Thread : pc[u] # "quit"
      /\ mainPc # "shutdown"
  BY AllHere, ServingFacts
<1>4. Started'
  BY <1>3 DEF Running, Started
<1>5. Descriptors'
  <2>1. /\ \A f, g \in 1..MaxFd : fdTable[f] # NoConn /\ fdTable[f] = fdTable[g] => f = g
        /\ \A u \in Thread : Serving(u) => FdOf(u) \in 1..MaxFd /\ Line(u) # NoConn
        /\ \A u, v \in Thread :
              Serving(u) /\ Serving(v) /\ FdOf(u) = FdOf(v) => u = v
        /\ \A u \in Thread : Live(u) /\ ~Serving(u) => ConnOf(u) = NoConn
        /\ \A u \in Thread : pc'[u] \in {"none", "start"} => fd[u] = 0
        /\ accPc = "create" =>
              /\ acceptFd \in 1..MaxFd /\ fdTable[acceptFd] # NoConn
              /\ \A u \in Thread : Serving(u) => FdOf(u) # acceptFd
        /\ \A f \in 1..MaxFd : fdTable[f] # NoConn =>
              \/ accPc = "create" /\ f = acceptFd
              \/ \E u \in Thread : Serving(u) /\ f = FdOf(u)
    BY DEF Running, Descriptors
  <2>. QED BY <1>1, <1>2, <2>1 DEF Descriptors
<1>6. Ends'
  BY DEF Running, Ends
<1>7. OneChange'
  <2>1. \A u \in Thread : Steady(u)' <=> Steady(u)
    BY <1>1 DEF Steady
  <2>. QED BY <1>1, <2>1 DEF Running, OneChange
<1>8. GoingAlone'
  BY <1>1, <1>3 DEF GoingAlone
<1>9. Slots'
  BY <1>1 DEF Running, Slots
<1>. QED BY <1>1, <1>2, <1>4, <1>5, <1>6, <1>7, <1>8, <1>9

\* What is taken from a connection is its first piece, by the thread it has.
LEMMA InboxesTake ==
    ASSUME Inv, Inboxes, NEW c \in Conn, inbox[c] # <<>>,
           \A d \in Conn : inbox'[d] = IF d = c THEN Tail(inbox[c]) ELSE inbox[d],
           UNCHANGED sent,
           \A d \in Conn : d # c => (Halfway(d)' <=> Halfway(d)),
           Halfway(c)' <=> ~Halfway(c)
    PROVE  Inboxes'
<1>. DEFINE l == Len(inbox[c])
            rest == Tail(inbox[c])
<1>1. inbox[c] \in Seq(Piece) /\ sent[c] \in Nat /\ l \in Nat \ {0}
  BY DEF Inv, TypeOK, ClientType
<1>2. /\ rest \in Seq(Piece) /\ Len(rest) = l - 1 /\ DOMAIN rest = 1..l - 1
      /\ \A i \in 1..l - 1 : rest[i] = inbox[c][i + 1] /\ i + 1 \in DOMAIN inbox[c]
  BY <1>1
<1>3. /\ l <= 2 * sent[c]
      /\ \A i \in DOMAIN inbox[c] :
            /\ inbox[c][i].kind = IF (l - i) % 2 = 0 THEN "text" ELSE "size"
            /\ inbox[c][i].n = sent[c] - ((l - i) \div 2)
      /\ l % 2 = 1 <=> Halfway(c)
  BY DEF Inboxes
<1>. HIDE DEF l, rest
<1>4. ASSUME NEW i \in 1..l - 1
      PROVE  /\ rest[i].kind = IF (l - 1 - i) % 2 = 0 THEN "text" ELSE "size"
             /\ rest[i].n = sent[c] - ((l - 1 - i) \div 2)
  <2>1. l - (i + 1) = l - 1 - i /\ i + 1 \in DOMAIN inbox[c] /\ rest[i] = inbox[c][i + 1]
    BY <1>1, <1>2
  <2>2. /\ inbox[c][i + 1].kind = IF (l - (i + 1)) % 2 = 0 THEN "text" ELSE "size"
        /\ inbox[c][i + 1].n = sent[c] - ((l - (i + 1)) \div 2)
    BY <1>3, <2>1, Zenon
  <2>. QED BY <2>1, <2>2
<1>5. (l - 1) % 2 = 1 <=> Halfway(c)'
  <2>1. l % 2 \in {0, 1} /\ l - 1 \in Nat /\ (l - 1) % 2 \in {0, 1}
    BY <1>1, Halves
  <2>2. (l - 1) % 2 = 0 <=> l % 2 = 1
    BY <1>1, Halves
  <2>. QED BY <1>3, <2>1, <2>2
<1>. SUFFICES ASSUME NEW d \in Conn
              PROVE  /\ Len(inbox'[d]) <= 2 * sent[d]
                     /\ \A i \in DOMAIN inbox'[d] :
                           /\ inbox'[d][i].kind =
                                 IF (Len(inbox'[d]) - i) % 2 = 0 THEN "text" ELSE "size"
                           /\ inbox'[d][i].n = sent[d] - ((Len(inbox'[d]) - i) \div 2)
                     /\ Len(inbox'[d]) % 2 = 1 <=> Halfway(d)'
  BY DEF Inboxes
<1>6. CASE d # c
  <2>1. inbox'[d] = inbox[d]
    BY <1>6
  <2>2. /\ Len(inbox[d]) <= 2 * sent[d]
        /\ \A i \in DOMAIN inbox[d] :
              /\ inbox[d][i].kind = IF (Len(inbox[d]) - i) % 2 = 0 THEN "text" ELSE "size"
              /\ inbox[d][i].n = sent[d] - ((Len(inbox[d]) - i) \div 2)
        /\ Len(inbox[d]) % 2 = 1 <=> Halfway(d)
    BY DEF Inboxes
  <2>. QED BY <1>6, <2>1, <2>2
<1>7. CASE d = c
  <2>1. inbox'[d] = rest
    BY <1>7 DEF rest
  <2>2. DOMAIN inbox'[d] = 1..l - 1 /\ Len(inbox'[d]) = l - 1 /\ l - 1 <= 2 * sent[d]
    BY <1>1, <1>2, <1>3, <1>7, <2>1
  <2>3. ASSUME NEW i \in DOMAIN inbox'[d]
        PROVE  /\ inbox'[d][i].kind =
                     IF (Len(inbox'[d]) - i) % 2 = 0 THEN "text" ELSE "size"
               /\ inbox'[d][i].n = sent[d] - ((Len(inbox'[d]) - i) \div 2)
    BY <1>4, <1>7, <2>1, <2>2
  <2>. QED BY <1>5, <1>7, <2>2, <2>3
<1>. QED BY <1>6, <1>7

\* A thread reads the size of a message: the number is that of the next one.
LEMMA ReadSizeRunning ==
    ASSUME Inv, Running, NEW t \in Thread, ReadSize(t)
    PROVE  Running'
<1>. USE DEF client, acc, trav, thr, reg, proc
<1>1. PICK c \in Conn :
         /\ pc[t] = "read" /\ ConnOf(t) = c /\ c # NoConn /\ inbox[c] # <<>>
         /\ \A d \in Conn : inbox'[d] = IF d = c THEN Tail(inbox[c]) ELSE inbox[d]
         /\ \A u \in Thread : pc'[u] = IF u = t THEN "text" ELSE pc[u]
         /\ \A u \in Thread : msg'[u] = IF u = t THEN [from |-> c, n |-> Head(inbox[c]).n]
                                        ELSE msg[u]
  BY DEF ReadSize, Readable, Inv, TypeOK, ClientType, ThreadType
<1>2. UNCHANGED <<peer, sent, got, log, backlog, fdTable, acc, fd, trav, reg,
                  mut, threads, proc, history>>
  BY DEF ReadSize
<1>3. /\ Started' /\ Descriptors' /\ Ends' /\ OneChange' /\ GoingAlone'
      /\ Slots'
      /\ \A u \in Thread : ConnOf(u)' = ConnOf(u) /\ (Joined(u)' <=> Joined(u))
  BY <1>1, <1>2, ThreadFrame DEF Live, Stage
<1>4. Head(inbox[c]).n # 0
  <2>1. inbox[c] \in Seq(Piece)
    BY DEF Inv, TypeOK, ClientType
  <2>2. 1 \in DOMAIN inbox[c] /\ Head(inbox[c]) = inbox[c][1]
    BY <1>1, <2>1
  <2>3. inbox[c][1].n = sent[c] - ((Len(inbox[c]) - 1) \div 2)
    BY <2>2, Zenon DEF Running, Inboxes
  <2>4. Len(inbox[c]) <= 2 * sent[c] /\ sent[c] \in Nat /\ Len(inbox[c]) \in Nat \ {0}
    BY <1>1, <2>1 DEF Running, Inboxes, Inv, TypeOK, ClientType
  <2>5. \A l \in Nat \ {0}, m \in Nat : l <= 2 * m => m - ((l - 1) \div 2) # 0
    OBVIOUS
  <2>. QED BY <2>2, <2>3, <2>4, <2>5, Zenon
<1>5. StagesFit'
  <2>1. t \in current_clients \/ ~Joined(t)
    BY <1>1 DEF Running, StagesFit
  <2>2. msg'[t].n # 0
    BY <1>1, <1>4
  <2>3. \A u \in Thread : u # t => pc'[u] = pc[u] /\ msg'[u] = msg[u]
    BY <1>1
  <2>4. pc'[t] = "text" /\ UNCHANGED <<current_clients, all_clients>>
    BY <1>1, <1>2
  <2>. QED BY <2>1, <2>2, <2>3, <2>4 DEF Running, StagesFit, Joined
<1>6. Names'
  BY <1>1, <1>2, <1>3 DEF Running, Names
<1>7. (Ids /\ Audiences)'
  BY <1>1, <1>2 DEF Running, Ids, UniqueIds, Audiences
<1>8. Inboxes'
  <2>1. Serving(t)
    BY <1>1, ServingFacts DEF Live
  <2>2. ASSUME NEW u \in Thread, pc[u] \in {"text"}, ConnOf(u) = c PROVE u = t
    BY <1>1, <2>1, <2>2, ServingFacts DEF Live
  <2>3. ~Halfway(c) /\ Halfway(c)'
    BY <1>1, <1>3, <2>2 DEF Halfway
  <2>4. \A d \in Conn : d # c => (Halfway(d)' <=> Halfway(d))
    BY <1>1, <1>3 DEF Halfway
  <2>. QED BY <1>1, <1>2, <2>3, <2>4, InboxesTake DEF Running
<1>. QED BY <1>3, <1>5, <1>6, <1>7, <1>8 DEF Running

\* A thread reads the text, and the message is complete.
LEMMA ReadTextRunning ==
    ASSUME Inv, Running, NEW t \in Thread, ReadText(t)
    PROVE  Running'
<1>. USE DEF client, acc, trav, thr, reg, proc
<1>1. PICK c \in Conn :
         /\ pc[t] = "text" /\ ConnOf(t) = c /\ c # NoConn /\ inbox[c] # <<>>
         /\ \A d \in Conn : inbox'[d] = IF d = c THEN Tail(inbox[c]) ELSE inbox[d]
         /\ \A u \in Thread : pc'[u] = IF u = t THEN AfterText(t) ELSE pc[u]
  BY DEF ReadText, Readable, Inv, TypeOK, ClientType, ThreadType
<1>2. UNCHANGED <<peer, sent, got, log, backlog, fdTable, acc, fd, msg, trav,
                  reg, mut, threads, proc, history>>
  BY DEF ReadText
<1>3. AfterText(t) \in {"talk", "newclient"} /\ AfterText(t) \in Stage
      /\ (AfterText(t) = "talk" <=> Joined(t))
  BY DEF AfterText, Stage
<1>4. /\ Started' /\ Descriptors' /\ Ends' /\ OneChange' /\ GoingAlone'
      /\ Slots'
      /\ \A u \in Thread : ConnOf(u)' = ConnOf(u)
  BY <1>1, <1>2, <1>3, ThreadFrame DEF Live
<1>5. /\ pc'[t] \in {"talk", "newclient"} /\ (pc'[t] = "talk" <=> Joined(t))
      /\ \A u \in Thread : u # t => pc'[u] = pc[u]
      /\ UNCHANGED <<msg, current_clients, all_clients, username>>
  BY <1>1, <1>2, <1>3
<1>6. StagesFit'
  BY <1>1, <1>5 DEF Running, StagesFit, Joined, Inv, Bookkeeping
<1>7. Names'
  BY <1>1, <1>4, <1>5 DEF Running, Names
<1>8. (Ids /\ Audiences)'
  BY <1>2, <1>5 DEF Running, Ids, UniqueIds, Audiences
<1>9. Inboxes'
  <2>1. Serving(t)
    BY <1>1, ServingFacts DEF Live
  <2>2. ASSUME NEW u \in Thread, pc[u] = "text", ConnOf(u) = c PROVE u = t
    BY <1>1, <2>1, <2>2, ServingFacts DEF Live
  <2>3. Halfway(c) /\ ~Halfway(c)'
    BY <1>1, <1>4, <1>5, <2>2 DEF Halfway
  <2>4. \A d \in Conn : d # c => (Halfway(d)' <=> Halfway(d))
    BY <1>1, <1>4, <1>5 DEF Halfway
  <2>. QED BY <1>1, <1>2, <2>3, <2>4, InboxesTake DEF Running
<1>. QED BY <1>4, <1>6, <1>7, <1>8, <1>9 DEF Running

\* A thread reads the end of its client: the one that has gone.
LEMMA ReadEofRunning ==
    ASSUME Inv, Running, NEW t \in Thread, ReadEof(t)
    PROVE  Running'
<1>. USE DEF client, acc, trav, thr, reg, proc
<1>1. /\ pc[t] = "read" /\ ConnOf(t) # NoConn /\ peer[ConnOf(t)] # "open"
      /\ inbox[ConnOf(t)] = <<>>
      /\ \A u \in Thread : pc'[u] = IF u = t THEN "quit" ELSE pc[u]
  BY DEF ReadEof, AtEof, Inv, TypeOK, ThreadType
<1>2. UNCHANGED <<client, log, backlog, fdTable, acc, fd, msg, trav, reg, mut,
                  threads, proc, history>>
  BY DEF ReadEof
<1>3. Serving(t) /\ Joined(t) /\ t \in current_clients
  <2>1. Serving(t) /\ Line(t) = ConnOf(t)
    BY <1>1, ServingFacts DEF Live
  <2>2. Joined(t)
    BY <1>1, <2>1 DEF Running, OneChange, Live
  <2>. QED BY <2>1, <2>2 DEF Serving
<1>4. \A u \in Thread : /\ Live(u)' = Live(u) /\ Joined(u)' = Joined(u)
                        /\ Serving(u)' = Serving(u)
                        /\ FdOf(u)' = FdOf(u) /\ Line(u)' = Line(u)
                        /\ ConnOf(u)' = ConnOf(u) /\ Steady(u)' = Steady(u)
  BY <1>1, <1>2 DEF Live, Joined, Serving, FdOf, Line, ConnOf, Steady
<1>5. Started'
  BY <1>1, <1>2 DEF Running, Started, Resting, Live
<1>6. StagesFit'
  BY <1>1, <1>2, <1>3 DEF Running, StagesFit, Joined
<1>7. Descriptors'
  <2>1. \A u \in Thread : pc'[u] \in {"none", "start"} => fd[u] = 0
    BY <1>1 DEF Running, Descriptors
  <2>. QED BY <1>2, <1>4, <2>1 DEF Running, Descriptors
<1>8. (Ends /\ Ids /\ Audiences)'
  BY <1>1, <1>2 DEF Running, Ends, Ids, UniqueIds, Audiences
<1>9. OneChange'
  BY <1>2, <1>4 DEF Running, OneChange
<1>10. GoingAlone'
  <2>1. \A u \in Thread : Live(u) => (u = t \/ pc[u] = "read")
                                       /\ inbox[ConnOf(u)] = <<>>
    BY <1>1, <1>3 DEF Running, GoingAlone
  <2>2. \A u \in current_clients : u \in Thread /\ Live(u)
    BY ServingFacts
  <2>3. \A u \in current_clients : peer[ConnOf(u)] # "open" => u = t
    BY <1>1, <1>3, <2>2 DEF Running, OneChange, Steady, Serving
  <2>. QED BY <1>1, <1>2, <1>4, <2>1, <2>2, <2>3 DEF Running, GoingAlone
<1>11. Names'
  BY <1>1, <1>2, <1>4 DEF Running, Names
<1>12. Slots'
  BY <1>2, <1>4 DEF Running, Slots
<1>13. Inboxes'
  <2>1. \A c \in Conn : Halfway(c)' <=> Halfway(c)
    BY <1>1, <1>4 DEF Halfway
  <2>. QED BY <1>2, <2>1, InboxesFrame DEF Running
<1>. QED BY <1>5, <1>6, <1>7, <1>8, <1>9, <1>10, <1>11, <1>12, <1>13 DEF Running

\* A thread makes the client struct, with the next id.
LEMMA NewClientRunning ==
    ASSUME Inv, Running, NEW t \in Thread, NewClient(t)
    PROVE  Running'
<1>. USE DEF client, acc, trav, thr, reg, proc
<1>1. /\ pc[t] = "newclient"
      /\ \A u \in Thread : pc'[u] = IF u = t THEN "addclient" ELSE pc[u]
      /\ \A u \in Thread : username'[u] = IF u = t THEN msg[t].from ELSE username[u]
      /\ \A u \in Thread :
            connection_id'[u] = IF u = t THEN num_clients + 1 ELSE connection_id[u]
  BY DEF NewClient, NextId, Inv, TypeOK, ThreadType, RegistryType
<1>2. UNCHANGED <<client, log, backlog, fdTable, acc, fd, msg, trav,
                  num_connections, num_clients, current_clients, all_clients,
                  joinedAt, mut, threads, proc, history>>
  BY DEF NewClient
<1>3. t \notin all_clients /\ t \notin current_clients /\ all_clients \subseteq Thread
  BY <1>1 DEF Inv, Stages, Bookkeeping, TypeOK, RegistryType
<1>4. /\ Started' /\ Descriptors' /\ Ends' /\ OneChange' /\ GoingAlone'
      /\ Slots'
      /\ \A u \in Thread : ConnOf(u)' = ConnOf(u)
  BY <1>1, <1>2, <1>3, ThreadFrame DEF Live, Stage
<1>5. /\ pc'[t] = "addclient"
      /\ \A u \in Thread : u # t => pc'[u] = pc[u]
      /\ UNCHANGED <<msg, current_clients, all_clients>>
  BY <1>1, <1>2
<1>6. StagesFit'
  BY <1>1, <1>3, <1>5 DEF Running, StagesFit, Joined
<1>7. Names'
  BY <1>1, <1>3, <1>4, <1>5 DEF Running, Names
<1>8. Ids' /\ Audiences'
  BY <1>1, <1>2, <1>3 DEF Running, Ids, UniqueIds, Audiences
<1>9. Inboxes'
  <2>1. \A c \in Conn : Halfway(c)' <=> Halfway(c)
    BY <1>1, <1>4 DEF Halfway
  <2>. QED BY <1>2, <2>1, InboxesFrame DEF Running
<1>. QED BY <1>4, <1>6, <1>7, <1>8, <1>9 DEF Running

\* A thread finds its client for a later message.
LEMMA TalkRunning ==
    ASSUME Inv, Running, NEW t \in Thread, Talk(t)
    PROVE  Running'
<1>. USE DEF client, acc, trav, thr, reg, proc
<1>1. /\ pc[t] = "talk"
      /\ \A u \in Thread : pc'[u] = IF u = t THEN "broadcast" ELSE pc[u]
  BY DEF Talk, Inv, TypeOK, ThreadType
<1>2. UNCHANGED <<client, log, backlog, fdTable, acc, fd, msg, trav, reg, mut,
                  threads, proc, history>>
  BY DEF Talk
<1>3. /\ Started' /\ Descriptors' /\ Ends' /\ OneChange' /\ GoingAlone'
      /\ Slots'
      /\ \A u \in Thread : ConnOf(u)' = ConnOf(u)
  BY <1>1, <1>2, ThreadFrame DEF Live, Stage
<1>4. t \in current_clients /\ msg[t].n # 0
  BY <1>1 DEF Running, StagesFit
<1>5. /\ pc'[t] = "broadcast"
      /\ \A u \in Thread : u # t => pc'[u] = pc[u]
      /\ UNCHANGED <<msg, current_clients, all_clients, username>>
  BY <1>1, <1>2
<1>6. StagesFit'
  BY <1>1, <1>4, <1>5 DEF Running, StagesFit, Joined
<1>7. Names'
  BY <1>1, <1>3, <1>4, <1>5 DEF Running, Names
<1>8. (Ids /\ Audiences)'
  BY <1>2, <1>5 DEF Running, Ids, UniqueIds, Audiences
<1>9. Inboxes'
  <2>1. \A c \in Conn : Halfway(c)' <=> Halfway(c)
    BY <1>1, <1>3 DEF Halfway
  <2>. QED BY <1>2, <2>1, InboxesFrame DEF Running
<1>. QED BY <1>3, <1>6, <1>7, <1>8, <1>9 DEF Running

\* A thread takes the mutex, and sets out to send to all that are there.
LEMMA BeginBroadcastRunning ==
    ASSUME Inv, Running, NEW t \in Thread, BeginBroadcast(t)
    PROVE  Running'
<1>. USE DEF client, acc, trav, thr, reg, proc
<1>1. /\ pc[t] = "broadcast"
      /\ \A u \in Thread : pc'[u] = IF u = t THEN "send" ELSE pc[u]
      /\ \A u \in Thread : todo'[u] = IF u = t THEN current_clients ELSE todo[u]
  BY DEF BeginBroadcast, Audience, Inv, TypeOK, ThreadType
<1>2. UNCHANGED <<client, log, backlog, fdTable, acc, fd, msg, reg, threads,
                  proc>>
  BY DEF BeginBroadcast
<1>3. /\ Started' /\ Descriptors' /\ Ends' /\ OneChange' /\ GoingAlone'
      /\ Slots'
      /\ \A u \in Thread : ConnOf(u)' = ConnOf(u)
  BY <1>1, <1>2, ThreadFrame DEF Live, Stage
<1>4. /\ pc'[t] = "send"
      /\ \A u \in Thread : u # t => pc'[u] = pc[u]
      /\ UNCHANGED <<msg, current_clients, all_clients, username>>
  BY <1>1, <1>2
<1>5. StagesFit'
  BY <1>1, <1>4 DEF Running, StagesFit, Joined
<1>6. Names'
  BY <1>1, <1>3, <1>4 DEF Running, Names
<1>7. (Ids /\ Audiences)'
  BY <1>1, <1>2, <1>4 DEF Running, Ids, UniqueIds, Audiences
<1>8. Inboxes'
  <2>1. \A c \in Conn : Halfway(c)' <=> Halfway(c)
    BY <1>1, <1>3 DEF Halfway
  <2>. QED BY <1>2, <2>1, InboxesFrame DEF Running
<1>. QED BY <1>3, <1>5, <1>6, <1>7, <1>8 DEF Running

\* A thread sends to one client: to one that is there.
LEMMA SendOneEffect ==
    ASSUME Inv, Running, NEW t \in Thread, SendOne(t)
    PROVE  /\ pc[t] = "send"
           /\ UNCHANGED <<peer, inbox, sent, got, backlog, fdTable, acc, pc, fd,
                          msg, turn, reg, mut, threads, proc, history>>
           /\ \E u \in todo[t] :
                /\ u \in current_clients /\ peer[ConnOf(u)] = "open"
                /\ todo' = [todo EXCEPT ![t] = @ \ {u}]
                /\ log' = [log EXCEPT ![ConnOf(u)] = Append(@, turn[t])]
<1>1. pc[t] = "send" /\ todo[t] \subseteq current_clients
  BY DEF SendOne, Running, Audiences
<1>2. \A u \in current_clients : peer[ConnOf(u)] = "open"
  BY <1>1, AllHere DEF Live
<1>3. PICK u \in todo[t] :
         /\ todo' = [todo EXCEPT ![t] = @ \ {u}]
         /\ \/ /\ log' = [log EXCEPT ![ConnOf(u)] = Append(@, turn[t])]
               /\ UNCHANGED peer
            \/ peer[ConnOf(u)] = "fin"
  BY DEF SendOne
<1>4. /\ u \in current_clients /\ peer[ConnOf(u)] = "open"
      /\ log' = [log EXCEPT ![ConnOf(u)] = Append(@, turn[t])] /\ UNCHANGED peer
  BY <1>1, <1>2, <1>3
<1>. QED BY <1>1, <1>3, <1>4 DEF SendOne

LEMMA SendOneRunning ==
    ASSUME Inv, Running, NEW t \in Thread, SendOne(t)
    PROVE  Running'
<1>. USE DEF client, acc, trav, thr, reg, proc
<1>1. /\ pc[t] = "send"
      /\ UNCHANGED <<peer, inbox, sent, got, backlog, fdTable, acc, pc, fd, msg,
                     turn, reg, mut, threads, proc, history>>
      /\ \A u \in Thread : todo'[u] \subseteq todo[u]
  <2>1. todo \in [Thread -> SUBSET Thread]
    BY DEF Inv, TypeOK, ThreadType
  <2>. QED BY <2>1, SendOneEffect
<1>2. /\ Started' /\ Descriptors' /\ Ends' /\ OneChange' /\ GoingAlone'
      /\ Slots'
      /\ \A u \in Thread : ConnOf(u)' = ConnOf(u)
  BY <1>1, ThreadFrame DEF Live, Stage
<1>3. StagesFit'
  BY <1>1 DEF Running, StagesFit, Joined
<1>4. Names'
  BY <1>1, NamesFrame DEF Running
<1>5. (Ids /\ Audiences)'
  BY <1>1 DEF Running, Ids, UniqueIds, Audiences
<1>6. Inboxes'
  BY <1>1, InboxesFrame DEF Running, Halfway, ConnOf
<1>. QED BY <1>2, <1>3, <1>4, <1>5, <1>6 DEF Running

\* A thread gives the mutex back, and reads on or is at its end.
LEMMA EndBroadcastRunning ==
    ASSUME Inv, Running, NEW t \in Thread, EndBroadcast(t)
    PROVE  Running'
<1>. USE DEF client, acc, trav, thr, reg, proc
<1>1. /\ pc[t] = "send"
      /\ \A u \in Thread : pc'[u] = IF u = t THEN AfterBroadcast(t) ELSE pc[u]
  BY DEF EndBroadcast, Inv, TypeOK, ThreadType
<1>2. UNCHANGED <<client, log, backlog, fdTable, acc, fd, msg, todo, reg,
                  threads, proc, history>>
  BY DEF EndBroadcast
<1>3. /\ AfterBroadcast(t) \in {"read", "exited"} /\ AfterBroadcast(t) \in Stage
      /\ AfterBroadcast(t) = "read" <=> t \in current_clients
      /\ Joined(t)
      /\ AfterBroadcast(t) = "exited" => ~Serving(t)
  BY <1>1 DEF AfterBroadcast, Stage, Running, StagesFit, Serving
<1>4. /\ Started' /\ Descriptors' /\ Ends' /\ OneChange' /\ GoingAlone'
      /\ Slots'
      /\ \A u \in Thread : ConnOf(u)' = ConnOf(u)
  BY <1>1, <1>2, <1>3, ThreadFrame DEF Live
<1>5. /\ pc'[t] \in {"read", "exited"} /\ (pc'[t] = "read" <=> t \in current_clients)
      /\ \A u \in Thread : u # t => pc'[u] = pc[u]
      /\ UNCHANGED <<msg, current_clients, all_clients, username>>
  BY <1>1, <1>2, <1>3
<1>6. StagesFit'
  BY <1>1, <1>3, <1>5 DEF Running, StagesFit, Joined
<1>7. Names'
  BY <1>1, <1>4, <1>5 DEF Running, Names
<1>8. (Ids /\ Audiences)'
  BY <1>2, <1>5 DEF Running, Ids, UniqueIds, Audiences
<1>9. Inboxes'
  <2>1. \A c \in Conn : Halfway(c)' <=> Halfway(c)
    BY <1>1, <1>4, <1>5 DEF Halfway
  <2>. QED BY <1>2, <2>1, InboxesFrame DEF Running
<1>. QED BY <1>4, <1>6, <1>7, <1>8, <1>9 DEF Running

\* A thread starts, and reads its descriptor before another is accepted.
LEMMA StartThreadRunning ==
    ASSUME Inv, Running, NEW t \in Thread, StartThread(t)
    PROVE  Running'
<1>. USE DEF client, acc, trav, thr, reg, proc
<1>1. /\ pc[t] = "start"
      /\ \A u \in Thread : pc'[u] = IF u = t THEN "read" ELSE pc[u]
      /\ \A u \in Thread : fd'[u] = IF u = t THEN acceptFd ELSE fd[u]
  BY DEF StartThread, Inv, TypeOK, ThreadType
<1>2. UNCHANGED <<client, log, backlog, fdTable, acc, msg, trav, reg, mut,
                  threads, proc, history>>
  BY DEF StartThread
<1>3. Live(t) /\ Serving(t) /\ t \notin all_clients /\ t \notin current_clients
  BY <1>1, ServingFacts DEF Live, Inv, Stages, Bookkeeping
<1>4. \A u \in Thread : /\ Live(u)' = Live(u) /\ Joined(u)' = Joined(u)
                        /\ Serving(u)' = Serving(u)
                        /\ FdOf(u)' = FdOf(u) /\ Line(u)' = Line(u)
                        /\ u # t => ConnOf(u)' = ConnOf(u)
                        /\ Steady(u)' = Steady(u)
  BY <1>1, <1>2, <1>3 DEF Live, Joined, Serving, FdOf, Line, ConnOf, Steady
<1>5. accPc # "create" /\ \A u \in Thread : Live(u) /\ u # t => pc[u] # "start"
  BY <1>1, <1>3, ServingFacts DEF Running, OneChange, Steady, Live
<1>6. /\ \A u \in current_clients : u \in Thread /\ peer[ConnOf(u)] = "open"
      /\ \A u \in Thread : pc[u] # "quit"
      /\ mainPc # "shutdown"
  BY <1>1, <1>3, AllHere, ServingFacts
<1>7. Started'
  BY <1>2, <1>6 DEF Running, Started
<1>8. StagesFit'
  BY <1>1, <1>2, <1>3 DEF Running, StagesFit, Joined
<1>9. Descriptors'
  <2>1. \A u \in Thread : pc'[u] \in {"none", "start"} => fd'[u] = 0
    BY <1>1 DEF Running, Descriptors
  <2>2. \A u \in Thread : Live(u) /\ ~Serving(u) => ConnOf(u)' = NoConn
    BY <1>3, <1>4 DEF Running, Descriptors
  <2>. QED BY <1>2, <1>4, <2>1, <2>2 DEF Running, Descriptors
<1>10. (Ends /\ Ids /\ Audiences)'
  BY <1>1, <1>2 DEF Running, Ends, Ids, UniqueIds, Audiences
<1>11. OneChange'
  BY <1>2, <1>4 DEF Running, OneChange
<1>12. GoingAlone'
  BY <1>1, <1>2, <1>3, <1>4, <1>6 DEF GoingAlone
<1>13. Names'
  BY <1>1, <1>2, <1>3, <1>4 DEF Running, Names
<1>14. Slots'
  BY <1>2, <1>4 DEF Running, Slots
<1>15. Inboxes'
  <2>1. \A c \in Conn : Halfway(c)' <=> Halfway(c)
    BY <1>1, <1>4 DEF Halfway
  <2>. QED BY <1>2, <2>1, InboxesFrame DEF Running
<1>. QED BY <1>7, <1>8, <1>9, <1>10, <1>11, <1>12, <1>13, <1>14, <1>15 DEF Running

\* A client that is about to join has its own connection and the next id.
LEMMA Coming ==
    ASSUME Inv, Running, NEW t \in Thread, pc[t] = "addclient"
    PROVE  /\ Live(t) /\ Serving(t) /\ Line(t) = ConnOf(t) /\ ConnOf(t) \in Conn
           /\ ConnOf(t) # NoConn /\ peer[ConnOf(t)] = "open" /\ username[t] = ConnOf(t)
           /\ connection_id[t] = num_clients + 1 /\ msg[t].n # 0
           /\ msg[t].from = ConnOf(t)
           /\ threads[num_connections + 1] = t
           /\ t \notin all_clients
           /\ \A u \in all_clients : username[u] # username[t]
<1>1. t \notin all_clients /\ t \notin current_clients /\ num_connections \in Nat
  BY DEF Inv, Stages, Bookkeeping, TypeOK, RegistryType
<1>2. /\ Live(t) /\ Serving(t) /\ Line(t) = ConnOf(t) /\ ConnOf(t) \in Conn
      /\ ConnOf(t) # NoConn /\ peer[ConnOf(t)] = "open" /\ username[t] = ConnOf(t)
      /\ connection_id[t] = num_clients + 1 /\ msg[t].n # 0
      /\ msg[t].from = ConnOf(t)
      /\ threads[num_connections + 1] = t
  <2>1. Live(t) /\ Serving(t) /\ Line(t) = ConnOf(t) /\ ConnOf(t) \in Conn
        /\ ConnOf(t) # NoConn
    BY ServingFacts DEF Live
  <2>2. peer[Line(t)] = "open"
    BY <1>1, <2>1 DEF Running, OneChange, Joined
  <2>3. username[t] = ConnOf(t) /\ msg[t].from = ConnOf(t)
    BY DEF Running, Names
  <2>4. connection_id[t] = num_clients + 1
    BY DEF Running, Ids
  <2>5. msg[t].n # 0
    BY DEF Running, StagesFit
  <2>6. threads[num_connections + 1] = t
    BY <1>1, <2>1 DEF Running, Slots, Joined
  <2>. QED BY <2>1, <2>2, <2>3, <2>4, <2>5, <2>6
<1>3. ASSUME NEW u \in all_clients, username[u] = username[t] PROVE FALSE
  <2>1. u \in current_clients
    BY <1>2, <1>3 DEF Running, Ends
  <2>2. username[u] = ConnOf(u) /\ Serving(u) /\ Line(u) = ConnOf(u)
    BY <2>1, ServingFacts DEF Running, Names
  <2>3. u \in Thread /\ Line(u) = Line(t)
    BY <1>2, <1>3, <2>1, <2>2, ServingFacts
  <2>4. u = t
    BY <1>2, <2>2, <2>3, ServingFacts
  <2>. QED BY <1>1, <2>4
<1>. QED BY <1>1, <1>2, <1>3

\* A client joins: nobody that is there has its connection or its id.
LEMMA AddClientRunning ==
    ASSUME Inv, Running, NEW t \in Thread, AddClient(t)
    PROVE  Running'
<1>. USE DEF client, acc, trav, thr, reg, proc
<1>1. /\ pc[t] = "addclient"
      /\ \A u \in Thread : pc'[u] = IF u = t THEN "broadcast" ELSE pc[u]
      /\ num_connections' = num_connections + 1
      /\ num_clients' = num_clients + 1
      /\ current_clients' = current_clients \cup {t}
      /\ all_clients' = all_clients \cup {t}
  BY DEF AddClient, Inv, TypeOK, ThreadType
<1>2. UNCHANGED <<client, log, backlog, fdTable, acc, fd, msg, trav,
                  connection_id, username, stat, mut, threads, proc, history>>
  BY DEF AddClient
<1>3. /\ t \notin all_clients /\ t \notin current_clients
      /\ all_clients \subseteq Thread /\ current_clients \subseteq Thread
      /\ num_connections \in Nat /\ num_clients \in Nat
  BY <1>1 DEF Inv, Stages, Bookkeeping, TypeOK, RegistryType
<1>4. /\ Live(t) /\ Serving(t) /\ Line(t) = ConnOf(t) /\ ConnOf(t) \in Conn
      /\ ConnOf(t) # NoConn /\ peer[ConnOf(t)] = "open" /\ username[t] = ConnOf(t)
      /\ connection_id[t] = num_clients + 1 /\ msg[t].n # 0
      /\ msg[t].from = ConnOf(t)
      /\ threads[num_connections + 1] = t
  BY <1>1, Coming
<1>5. /\ \A u \in Thread : u # t => Joined(u)' = Joined(u)
      /\ \A u \in Thread : /\ Live(u)' = Live(u) /\ Serving(u)' = Serving(u)
                           /\ FdOf(u)' = FdOf(u) /\ Line(u)' = Line(u)
                           /\ ConnOf(u)' = ConnOf(u)
      /\ Joined(t)' /\ Steady(t)'
      /\ \A u \in Thread : u # t => Steady(u)' = Steady(u)
  <2>1. \A u \in Thread : /\ Live(u)' = Live(u)
                          /\ FdOf(u)' = FdOf(u) /\ Line(u)' = Line(u)
                          /\ ConnOf(u)' = ConnOf(u)
    BY <1>1, <1>2 DEF Live, FdOf, Line, ConnOf
  <2>2. /\ \A u \in Thread : u # t => Joined(u)' = Joined(u) /\ Steady(u)' = Steady(u)
        /\ Joined(t)' /\ t \in current_clients'
        /\ \A u \in Thread : u # t => (u \in current_clients' <=> u \in current_clients)
    BY <1>1, <1>2, <2>1 DEF Joined, Steady
  <2>3. Steady(t)'
    BY <1>2, <1>4, <2>1, <2>2 DEF Steady
  <2>4. \A u \in Thread : Serving(u)' = Serving(u)
    BY <1>4, <2>1, <2>2 DEF Serving
  <2>. QED BY <2>1, <2>2, <2>3, <2>4
<1>6. \A u \in Thread : u # t /\ Live(u) => Steady(u) /\ Joined(u)
  <2>1. ~Steady(t)
    BY <1>3 DEF Steady
  <2>. QED BY <1>4, <2>1 DEF Running, OneChange, Steady, Joined, Inv, Bookkeeping
<1>7. /\ \A u \in current_clients : u \in Thread /\ peer[ConnOf(u)] = "open"
      /\ \A u \in Thread : pc[u] # "quit"
      /\ mainPc # "shutdown"
  BY <1>1, <1>4, AllHere, ServingFacts
<1>8. Started'
  BY <1>2, <1>7 DEF Running, Started
<1>9. StagesFit'
  BY <1>1, <1>2, <1>3, <1>4 DEF Running, StagesFit, Joined
<1>10. Descriptors'
  <2>1. \A u \in Thread : pc'[u] \in {"none", "start"} => fd[u] = 0
    BY <1>1 DEF Running, Descriptors
  <2>. QED BY <1>2, <1>5, <2>1 DEF Running, Descriptors
<1>11. Ends'
  <2>1. /\ \A u \in all_clients' : peer[username[u]] # "none"
        /\ \A u \in all_clients' \ current_clients' : peer[username[u]] # "open"
    BY <1>1, <1>4 DEF Running, Ends
  <2>. QED BY <1>2, <2>1 DEF Running, Ends
<1>12. OneChange'
  <2>1. \A u \in Thread : Live(u) => Steady(u)' /\ Joined(u)'
    BY <1>5, <1>6
  <2>. QED BY <1>2, <1>5, <2>1 DEF Running, OneChange
<1>13. GoingAlone'
  BY <1>1, <1>2, <1>3, <1>4, <1>5, <1>7 DEF GoingAlone
<1>14. Names'
  <2>1. \A u \in all_clients : username[u] # username[t]
    BY <1>1, Coming
  <2>2. \A u, v \in all_clients' : username[u] = username[v] => u = v
    BY <1>1, <2>1 DEF Running, Names
  <2>3. \A u \in Thread :
           /\ u \in current_clients' \/ pc'[u] = "addclient" => username[u] = ConnOf(u)
           /\ pc'[u] \in {"text", "newclient", "addclient", "talk"} =>
                 msg[u].from = ConnOf(u)
           /\ pc'[u] = "broadcast" => msg[u].from = username[u]
    BY <1>1, <1>4 DEF Running, Names
  <2>. QED BY <1>2, <1>5, <2>2, <2>3 DEF Names
<1>15. Ids'
  <2>1. \A u \in all_clients : connection_id[u] \in Nat /\ connection_id[u] <= num_clients
    BY <1>3 DEF Running, Ids, Inv, TypeOK, RegistryType
  <2>2. \A u, v \in all_clients : connection_id[u] = connection_id[v] => u = v
    BY DEF Running, Ids, UniqueIds
  <2>3. \A u, v \in all_clients' : connection_id[u] = connection_id[v] => u = v
    BY <1>1, <1>3, <1>4, <2>1, <2>2
  <2>4. \A u \in all_clients' : connection_id[u] <= num_clients + 1
    BY <1>1, <1>3, <1>4, <2>1
  <2>5. \A u \in Thread : pc'[u] # "addclient"
    BY <1>1, <1>6 DEF Live, Joined, Inv, Stages
  <2>. QED BY <1>1, <1>2, <2>3, <2>4, <2>5 DEF Ids, UniqueIds
<1>16. Slots'
  <2>1. /\ \A i \in 1..num_connections : threads[i] \in current_clients
        /\ \A i, j \in 1..num_connections : threads[i] = threads[j] => i = j
        /\ \A u \in current_clients : \E i \in 1..num_connections : threads[i] = u
    BY DEF Running, Slots
  <2>2. \A i : i \in 1..num_connections + 1 <=>
                 i \in 1..num_connections \/ i = num_connections + 1
    BY <1>3
  <2>3. \A u \in Thread : Live(u)' => Joined(u)'
    BY <1>5, <1>6
  <2>. QED BY <1>1, <1>2, <1>3, <1>4, <2>1, <2>2, <2>3 DEF Slots
<1>17. Inboxes'
  <2>1. \A c \in Conn : Halfway(c)' <=> Halfway(c)
    BY <1>1, <1>5 DEF Halfway
  <2>. QED BY <1>2, <2>1, InboxesFrame DEF Running
<1>18. Audiences'
  BY <1>1, <1>2 DEF Running, Audiences
<1>. QED BY <1>8, <1>9, <1>10, <1>11, <1>12, <1>13, <1>14, <1>15, <1>16, <1>17, <1>18
     DEF Running

\* The removal of a slot: the others keep their order and fill the gap.
LEMMA ThreadsWithoutSlots ==
    ASSUME Inv, Slots, NEW t \in current_clients
    PROVE  /\ num_connections \in Nat \ {0}
           /\ ThreadsWithout(t)[0] = threads[0]
           /\ \E k \in 1..num_connections :
                 /\ threads[k] = t
                 /\ \A i \in 1..num_connections - 1 :
                       ThreadsWithout(t)[i] = IF i < k THEN threads[i]
                                              ELSE threads[i + 1]
<1>. USE ConstantsAssumption
<1>1. PICK k \in 1..num_connections : threads[k] = t
  BY DEF Slots
<1>2. num_connections \in Nat \ {0} /\ num_connections + 1 \in Slot
  BY <1>1, ConnectionsBound DEF Inv, TypeOK, RegistryType
<1>3. \A i \in 1..num_connections - 1 : (\E j \in 1..i : threads[j] = t) <=> k <= i
  BY <1>1, <1>2 DEF Slots
<1>4. 0 \in Slot /\ \A i \in 1..num_connections - 1 : i \in Slot /\ i <= num_connections
                                                     /\ i # num_connections
  BY <1>2 DEF Slot
<1>5. ThreadsWithout(t)[0] = threads[0]
  BY <1>4 DEF ThreadsWithout
<1>6. \A i \in 1..num_connections - 1 :
         ThreadsWithout(t)[i] = IF k <= i THEN threads[i + 1] ELSE threads[i]
  BY <1>3, <1>4 DEF ThreadsWithout
<1>. QED BY <1>1, <1>2, <1>5, <1>6

\* What the removal of a client does: it is the thread's own.
LEMMA RemoveClientEffect ==
    ASSUME Inv, Running, NEW t \in Thread, RemoveClient(t)
    PROVE  /\ pc[t] = "quit" /\ t \in current_clients
           /\ current_clients' = current_clients \ {t}
           /\ msg' = [msg EXCEPT ![t] = [from |-> username[t], n |-> 0]]
           /\ fdTable' = [f \in 1..MaxFd |-> IF f = fd[t] THEN NoConn ELSE fdTable[f]]
           /\ pc' = [pc EXCEPT ![t] = "broadcast"]
           /\ UNCHANGED <<client, log, backlog, acc, fd, trav, connection_id,
                          username, num_clients, all_clients, joinedAt, mut, proc,
                          history>>
<1>1. pc[t] = "quit"
  BY DEF RemoveClient
<1>2. Joined(t) /\ t \in current_clients
  BY <1>1 DEF Running, StagesFit
<1>3. PICK u \in FindInt(connection_id[t]) :
         /\ current_clients' = DeleteNode(u)
         /\ msg' = [msg EXCEPT ![t] = [from |-> username[u], n |-> 0]]
  BY <1>2 DEF RemoveClient, Cid
<1>4. u = t
  BY <1>2, <1>3 DEF FindInt, Running, Ids, UniqueIds, Inv, Bookkeeping, Joined
<1>. QED BY <1>1, <1>2, <1>3, <1>4 DEF RemoveClient, DeleteNode, CloseFd

\* What becomes of the threads when t removes its client: the others are at rest
\* and keep their connections.
LEMMA Removing ==
    ASSUME Inv, Running, NEW t \in Thread, RemoveClient(t)
    PROVE  /\ /\ pc[t] = "quit" /\ t \in current_clients
              /\ current_clients' = current_clients \ {t}
              /\ \A u \in Thread : pc'[u] = IF u = t THEN "broadcast" ELSE pc[u]
              /\ \A u \in Thread : u # t => msg'[u] = msg[u]
              /\ msg'[t].from = username[t] /\ msg'[t].n = 0
              /\ \A f \in 1..MaxFd : fdTable'[f] = IF f = fd[t] THEN NoConn ELSE fdTable[f]
           /\ /\ Serving(t) /\ Live(t) /\ Joined(t) /\ fd[t] \in 1..MaxFd /\ ConnOf(t) = Line(t)
              /\ ConnOf(t) \in Conn /\ peer[ConnOf(t)] # "open" /\ username[t] = ConnOf(t)
              /\ FdOf(t) = fd[t]
           /\ \A u \in Thread : Live(u) /\ u # t =>
                 /\ pc[u] = "read" /\ Serving(u) /\ Steady(u) /\ Joined(u)
                 /\ FdOf(u) = fd[u] /\ fd[u] \in 1..MaxFd /\ fd[u] # fd[t]
                 /\ ConnOf(u) = Line(u) /\ u \in current_clients /\ peer[ConnOf(u)] = "open"
           /\ /\ \A u \in Thread : Live(u)' = Live(u) /\ Joined(u)' = Joined(u)
              /\ \A u \in Thread : u # t => (Serving(u)' <=> Serving(u))
              /\ ~Serving(t)' /\ ConnOf(t)' = NoConn
           /\ \A u \in Thread : Live(u) /\ u # t =>
                 /\ ConnOf(u)' = ConnOf(u) /\ FdOf(u)' = FdOf(u) /\ Line(u)' = Line(u)
                 /\ Steady(u)'
<1>. USE DEF client, acc, trav, thr, reg, proc
<1>1. /\ pc[t] = "quit" /\ t \in current_clients
      /\ current_clients' = current_clients \ {t}
      /\ \A u \in Thread : pc'[u] = IF u = t THEN "broadcast" ELSE pc[u]
      /\ \A u \in Thread : u # t => msg'[u] = msg[u]
      /\ msg'[t].from = username[t] /\ msg'[t].n = 0
      /\ \A f \in 1..MaxFd : fdTable'[f] = IF f = fd[t] THEN NoConn ELSE fdTable[f]
  <2>1. DOMAIN msg = Thread /\ DOMAIN pc = Thread
        /\ msg = [u \in Thread |-> msg[u]] /\ pc = [u \in Thread |-> pc[u]]
    BY DEF Inv, TypeOK, ThreadType
  <2>2. \A u \in Thread : msg'[u] = IF u = t THEN [from |-> username[t], n |-> 0]
                                     ELSE msg[u]
    BY <2>1, RemoveClientEffect
  <2>3. \A u \in Thread : pc'[u] = IF u = t THEN "broadcast" ELSE pc[u]
    BY <2>1, RemoveClientEffect
  <2>4. \A f \in 1..MaxFd : fdTable'[f] = IF f = fd[t] THEN NoConn ELSE fdTable[f]
    BY RemoveClientEffect, ZenonT(30)
  <2>. QED BY <2>2, <2>3, <2>4, RemoveClientEffect
<1>2. UNCHANGED <<client, log, backlog, acc, fd, trav, connection_id, username,
                  num_clients, all_clients, joinedAt, mut, proc, history>>
  BY RemoveClientEffect
<1>3. /\ Serving(t) /\ Live(t) /\ Joined(t) /\ fd[t] \in 1..MaxFd /\ ConnOf(t) = Line(t)
      /\ ConnOf(t) \in Conn /\ peer[ConnOf(t)] # "open" /\ username[t] = ConnOf(t)
      /\ FdOf(t) = fd[t]
  <2>1. Serving(t) /\ Live(t) /\ Joined(t) /\ fd[t] \in 1..MaxFd /\ ConnOf(t) = Line(t)
        /\ ConnOf(t) \in Conn
    BY <1>1, ServingFacts
  <2>2. peer[ConnOf(t)] # "open" /\ username[t] = ConnOf(t)
    BY <1>1 DEF Running, GoingAlone, Names
  <2>. QED BY <1>1, <2>1, <2>2 DEF FdOf
<1>4. \A u \in Thread : Live(u) /\ u # t =>
         /\ pc[u] = "read" /\ Serving(u) /\ Steady(u) /\ Joined(u)
         /\ FdOf(u) = fd[u] /\ fd[u] \in 1..MaxFd /\ fd[u] # fd[t]
         /\ ConnOf(u) = Line(u) /\ u \in current_clients /\ peer[ConnOf(u)] = "open"
  <2>. SUFFICES ASSUME NEW u \in Thread, Live(u), u # t
                PROVE  /\ pc[u] = "read" /\ Serving(u) /\ Steady(u) /\ Joined(u)
                       /\ FdOf(u) = fd[u] /\ fd[u] \in 1..MaxFd /\ fd[u] # fd[t]
                       /\ ConnOf(u) = Line(u) /\ u \in current_clients
                       /\ peer[ConnOf(u)] = "open"
    OBVIOUS
  <2>1. pc[u] = "read"
    BY <1>1, <1>3 DEF Running, GoingAlone
  <2>2. Serving(u) /\ fd[u] \in 1..MaxFd /\ ConnOf(u) = Line(u) /\ FdOf(u) = fd[u]
    BY <2>1, ServingFacts DEF FdOf
  <2>3. fd[u] # fd[t]
    BY <1>3, <2>2 DEF Running, Descriptors
  <2>4. Steady(u)
    BY <1>3 DEF Running, OneChange, Steady
  <2>. QED BY <2>1, <2>2, <2>3, <2>4, ServingFacts DEF Steady
<1>6. /\ \A u \in Thread : Live(u)' = Live(u) /\ Joined(u)' = Joined(u)
      /\ \A u \in Thread : u # t => (Serving(u)' <=> Serving(u))
      /\ ~Serving(t)' /\ ConnOf(t)' = NoConn
  <2>1. \A u \in Thread : Live(u)' = Live(u) /\ Joined(u)' = Joined(u)
    BY <1>1, <1>2 DEF Live, Joined
  <2>2. \A u \in Thread : u # t => (u \in current_clients' <=> u \in current_clients)
    BY <1>1
  <2>3. t \notin current_clients'
    BY <1>1
  <2>4. ConnOf(t)' = NoConn
    BY <1>1, <1>2, <1>3 DEF ConnOf
  <2>. QED BY <1>3, <2>1, <2>2, <2>3, <2>4 DEF Serving
<1>7. \A u \in Thread : Live(u) /\ u # t =>
         /\ ConnOf(u)' = ConnOf(u) /\ FdOf(u)' = FdOf(u) /\ Line(u)' = Line(u)
         /\ Steady(u)'
  <2>1. \A u \in Thread : Live(u) /\ u # t =>
           ConnOf(u)' = ConnOf(u) /\ FdOf(u)' = FdOf(u) /\ Line(u)' = Line(u)
    BY <1>1, <1>2, <1>4 DEF ConnOf, FdOf, Line
  <2>. QED BY <1>1, <1>2, <1>4, <2>1 DEF Steady
<1>. QED BY <1>1, <1>3, <1>4, <1>6, <1>7

\* A client is removed, and its descriptor closed: the others are at rest.
LEMMA RemoveClientRunning ==
    ASSUME Inv, Running, NEW t \in Thread, RemoveClient(t)
    PROVE  Running'
<1>. USE DEF client, acc, trav, thr, reg, proc
<1>1. /\ pc[t] = "quit" /\ t \in current_clients
      /\ current_clients' = current_clients \ {t}
      /\ \A u \in Thread : pc'[u] = IF u = t THEN "broadcast" ELSE pc[u]
      /\ \A u \in Thread : u # t => msg'[u] = msg[u]
      /\ msg'[t].from = username[t] /\ msg'[t].n = 0
      /\ \A f \in 1..MaxFd : fdTable'[f] = IF f = fd[t] THEN NoConn ELSE fdTable[f]
  BY Removing
<1>2. UNCHANGED <<client, log, backlog, acc, fd, trav, connection_id, username,
                  num_clients, all_clients, joinedAt, mut, proc, history>>
  BY RemoveClientEffect
<1>3. /\ Serving(t) /\ Live(t) /\ Joined(t) /\ fd[t] \in 1..MaxFd /\ ConnOf(t) = Line(t)
      /\ ConnOf(t) \in Conn /\ peer[ConnOf(t)] # "open" /\ username[t] = ConnOf(t)
      /\ FdOf(t) = fd[t]
  BY Removing
<1>4. \A u \in Thread : Live(u) /\ u # t =>
         /\ pc[u] = "read" /\ Serving(u) /\ Steady(u) /\ Joined(u)
         /\ FdOf(u) = fd[u] /\ fd[u] \in 1..MaxFd /\ fd[u] # fd[t]
         /\ ConnOf(u) = Line(u) /\ u \in current_clients /\ peer[ConnOf(u)] = "open"
  BY Removing
<1>5. accPc # "create" /\ backlog = <<>> /\ mainPc # "shutdown"
  BY <1>1, <1>3 DEF Running, OneChange, Steady, Started, Resting
<1>6. /\ \A u \in Thread : Live(u)' = Live(u) /\ Joined(u)' = Joined(u)
      /\ \A u \in Thread : u # t => (Serving(u)' <=> Serving(u))
      /\ ~Serving(t)' /\ ConnOf(t)' = NoConn
  BY Removing
<1>7. \A u \in Thread : Live(u) /\ u # t =>
         /\ ConnOf(u)' = ConnOf(u) /\ FdOf(u)' = FdOf(u) /\ Line(u)' = Line(u)
         /\ Steady(u)'
  BY Removing
<1>8. \A u \in current_clients' : u \in Thread /\ Live(u) /\ u # t
  BY <1>1, ServingFacts
<1>9. PICK k \in 1..num_connections :
         /\ threads[k] = t /\ num_connections \in Nat \ {0}
         /\ num_connections' = num_connections - 1
         /\ threads'[0] = threads[0]
         /\ \A i \in 1..num_connections' :
               threads'[i] = IF i < k THEN threads[i] ELSE threads[i + 1]
  <2>1. /\ threads' = ThreadsWithout(t)
        /\ num_connections' = num_connections - 1
    BY DEF RemoveClient
  <2>. QED BY <1>1, <2>1, ThreadsWithoutSlots DEF Running
<1>10. Started'
  BY <1>2, <1>5, <1>9 DEF Running, Started
<1>11. StagesFit'
  BY <1>1, <1>2, <1>3 DEF Running, StagesFit, Joined
<1>12. Descriptors'
  <2>1. \A f, g \in 1..MaxFd : fdTable'[f] # NoConn /\ fdTable'[f] = fdTable'[g] => f = g
    BY <1>1 DEF Running, Descriptors
  <2>2. \A u \in Thread : Serving(u)' => Live(u) /\ u # t
    BY <1>6 DEF Serving
  <2>3. \A u \in Thread : Serving(u)' => FdOf(u)' \in 1..MaxFd /\ Line(u)' # NoConn
    BY <1>4, <1>7, <2>2 DEF Running, Descriptors
  <2>4. \A u, v \in Thread : Serving(u)' /\ Serving(v)' /\ FdOf(u)' = FdOf(v)' => u = v
    BY <1>4, <1>7, <2>2 DEF Running, Descriptors
  <2>5. \A u \in Thread : Live(u)' /\ ~Serving(u)' => ConnOf(u)' = NoConn
    BY <1>4, <1>6
  <2>6. \A u \in Thread : pc'[u] \in {"none", "start"} => fd[u] = 0
    BY <1>1 DEF Running, Descriptors
  <2>7. \A f \in 1..MaxFd : fdTable[f] # NoConn =>
           \E u \in Thread : Serving(u) /\ f = FdOf(u)
    BY <1>5 DEF Running, Descriptors
  <2>8. ASSUME NEW f \in 1..MaxFd, fdTable'[f] # NoConn
        PROVE  \E u \in Thread : Serving(u)' /\ f = FdOf(u)'
    <3>1. f # fd[t] /\ fdTable[f] # NoConn
      BY <1>1, <2>8
    <3>2. PICK u \in Thread : Serving(u) /\ f = FdOf(u)
      BY <2>7, <3>1
    <3>3. u # t /\ Live(u)
      BY <1>3, <3>1, <3>2 DEF Serving
    <3>. QED BY <1>6, <1>7, <3>2, <3>3
  <2>. QED BY <1>2, <1>5, <2>1, <2>3, <2>4, <2>5, <2>6, <2>8 DEF Descriptors
<1>13. Ends'
  <2>1. \A u \in all_clients \ current_clients' : peer[username[u]] # "open"
    BY <1>1, <1>3 DEF Running, Ends
  <2>2. \A f \in 1..MaxFd : fdTable'[f] # NoConn => peer[fdTable'[f]] # "none"
    BY <1>1 DEF Running, Ends
  <2>. QED BY <1>2, <1>5, <2>1, <2>2 DEF Running, Ends
<1>14. OneChange'
  BY <1>2, <1>3, <1>4, <1>5, <1>6, <1>7 DEF OneChange
<1>15. GoingAlone'
  BY <1>1, <1>2, <1>4, <1>7, <1>8 DEF GoingAlone, Live
<1>16. Names'
  <2>1. ASSUME NEW u \in Thread
        PROVE  /\ u \in current_clients' \/ pc'[u] = "addclient" =>
                     username[u] = ConnOf(u)'
               /\ pc'[u] \in {"text", "newclient", "addclient", "talk"} =>
                     msg'[u].from = ConnOf(u)'
               /\ pc'[u] = "broadcast" => msg'[u].from = username[u]
    <3>1. CASE u = t
      BY <1>1, <3>1
    <3>2. CASE u # t /\ Live(u)
      BY <1>1, <1>4, <1>7, <3>2 DEF Running, Names
    <3>3. CASE u # t /\ ~Live(u)
      BY <1>1, <1>8, <3>3 DEF Live
    <3>. QED BY <3>1, <3>2, <3>3
  <2>. QED BY <1>2, <2>1 DEF Running, Names
<1>17. (Ids /\ Audiences)'
  <2>1. \A u \in Thread : pc'[u] # "send"
    BY <1>1, <1>4 DEF Live
  <2>2. Ids'
    BY <1>1, <1>2 DEF Running, Ids, UniqueIds
  <2>. QED BY <2>1, <2>2 DEF Audiences
<1>18. Slots'
  <2>1. /\ \A i \in 1..num_connections : threads[i] \in current_clients
        /\ \A i, j \in 1..num_connections : threads[i] = threads[j] => i = j
        /\ \A u \in current_clients : \E i \in 1..num_connections : threads[i] = u
    BY DEF Running, Slots
  <2>2. \A i \in 1..num_connections' :
           \E j \in 1..num_connections :
              /\ j = IF i < k THEN i ELSE i + 1
              /\ j # k /\ threads'[i] = threads[j]
    BY <1>9
  <2>3. \A i \in 1..num_connections' : threads'[i] \in current_clients'
    BY <1>1, <1>9, <2>1, <2>2
  <2>4. \A i, j \in 1..num_connections' : threads'[i] = threads'[j] => i = j
    <3>. SUFFICES ASSUME NEW i \in 1..num_connections', NEW j \in 1..num_connections',
                         threads'[i] = threads'[j]
                  PROVE  i = j
      OBVIOUS
    <3>1. PICK a \in 1..num_connections :
             a = (IF i < k THEN i ELSE i + 1) /\ threads'[i] = threads[a]
      BY <2>2
    <3>2. PICK b \in 1..num_connections :
             b = (IF j < k THEN j ELSE j + 1) /\ threads'[j] = threads[b]
      BY <2>2
    <3>3. a = b
      BY <2>1, <3>1, <3>2
    <3>. QED BY <1>9, <3>1, <3>2, <3>3
  <2>5. ASSUME NEW u \in current_clients'
        PROVE  \E i \in 1..num_connections' : threads'[i] = u
    <3>1. PICK j \in 1..num_connections : threads[j] = u
      BY <1>1, <2>1
    <3>2. j # k
      BY <1>1, <1>9, <3>1
    <3>3. CASE j < k
      <4>1. j \in 1..num_connections' /\ threads'[j] = threads[j]
        BY <1>9, <3>3
      <4>. QED BY <3>1, <4>1
    <3>4. CASE j > k
      <4>1. j - 1 \in 1..num_connections' /\ ~(j - 1 < k) /\ (j - 1) + 1 = j
        BY <1>9, <3>4
      <4>2. threads'[j - 1] = threads[j]
        BY <1>9, <4>1
      <4>. QED BY <3>1, <4>1, <4>2
    <3>. QED BY <3>2, <3>3, <3>4
  <2>6. \A u \in Thread : Live(u)' => Joined(u)'
    BY <1>3, <1>4, <1>6
  <2>. QED BY <2>3, <2>4, <2>5, <2>6 DEF Slots
<1>19. Inboxes'
  <2>1. \A u \in Thread : pc[u] # "text" /\ pc'[u] # "text"
    BY <1>1, <1>4 DEF Live
  <2>2. \A c \in Conn : Halfway(c)' <=> Halfway(c)
    BY <2>1 DEF Halfway
  <2>. QED BY <1>2, <2>2, InboxesFrame DEF Running
<1>. QED BY <1>10, <1>11, <1>12, <1>13, <1>14, <1>15, <1>16, <1>17, <1>18, <1>19
     DEF Running------------------------------------------------------------------------------
(* The invariant holds of the specification. *)

\* What a thread of the running server does.
LEMMA ThreadRunning ==
    ASSUME Inv, Running, status = "run", NEW t \in Thread, ThreadStep(t)
    PROVE  Running' /\ status' = "run"
<1>1. \/ StartThread(t) \/ ReadSize(t) \/ ReadText(t) \/ ReadEof(t)
      \/ NewClient(t) \/ AddClient(t) \/ Talk(t) \/ RemoveClient(t)
      \/ BeginBroadcast(t) \/ SendOne(t) \/ EndBroadcast(t)
  BY ThreadFailsNot DEF ThreadStep
<1>2. Running'
  BY <1>1, StartThreadRunning, ReadSizeRunning, ReadTextRunning, ReadEofRunning,
     NewClientRunning, AddClientRunning, TalkRunning, RemoveClientRunning,
     BeginBroadcastRunning, SendOneRunning, EndBroadcastRunning
<1>3. UNCHANGED status
  BY <1>1 DEF StartThread, ReadSize, ReadText, ReadEof, NewClient, AddClient, Talk,
     RemoveClient, BeginBroadcast, SendOne, EndBroadcast, proc
<1>. QED BY <1>2, <1>3

\* The server runs on, or its main thread ends it, or it has no descriptor left.
LEMMA RunningNext ==
    ASSUME Peaceful, Inv, Running, status = "run", Next
    PROVE  (Running' /\ status' = "run") \/ Shutdown \/ AcceptFails
<1>. USE DEF proc
<1>1. CASE Environment
  <2>1. Running'
    BY <1>1, ConsoleEofRunning, ConnectRunning, SendStringRunning, QuitRunning,
       ReceiveStringRunning DEF Environment
  <2>2. UNCHANGED status
    BY <1>1 DEF Environment, ConsoleEof, Connect, SendString, Quit, ReceiveString
  <2>. QED BY <2>1, <2>2
<1>2. CASE AcceptorStep
  <2>1. Accept \/ AcceptFails \/ CreateThread \/ CreateThreadFails
    BY <1>2, MainFailsNot DEF AcceptorStep
  <2>2. CASE Accept
    BY <2>2, AcceptRunning DEF Accept
  <2>3. CASE CreateThread
    BY <2>3, CreateThreadRunning DEF CreateThread
  <2>4. CASE CreateThreadFails
    BY <2>4, CreateThreadFailsRunning DEF CreateThreadFails
  <2>. QED BY <2>1, <2>2, <2>3, <2>4
<1>3. CASE MainStep
  <2>1. StartAcceptor \/ Shutdown
    BY <1>3, MainFailsNot DEF MainStep
  <2>2. CASE StartAcceptor
    BY <2>2, StartAcceptorRunning DEF StartAcceptor
  <2>. QED BY <2>1, <2>2
<1>4. ASSUME NEW t \in Thread, ThreadStep(t) PROVE Running' /\ status' = "run"
  BY <1>4, ThreadRunning
<1>. QED BY <1>1, <1>2, <1>3, <1>4 DEF Next

\* shutdown() closes every connection and cancels every thread.
LEMMA ShutdownCloses ==
    ASSUME Inv, Running, Shutdown
    PROVE  Closed' /\ status' = "freed"
<1>. USE DEF client, acc, trav, thr, reg
<1>1. /\ mainPc = "shutdown" /\ mainPc' = "exit" /\ status' = "freed"
      /\ cancelled' = ShutdownIds
      /\ \A f \in 1..MaxFd : fdTable'[f] =
            IF \E u \in all_clients : fd[u] = f THEN NoConn ELSE fdTable[f]
  BY DEF Shutdown
<1>2. UNCHANGED <<client, log, backlog, acc, thr, reg, mut, threads, history>>
  BY DEF Shutdown
<1>3. Resting
  BY <1>1 DEF Running, Started
<1>4. Acceptor \in ShutdownIds /\ current_clients \subseteq ShutdownIds
  BY <1>1, SlotsFilled
<1>5. \A t \in Thread : Live(t) =>
         pc[t] = "read" /\ Joined(t) /\ Serving(t) /\ t \in current_clients
           /\ FdOf(t) = fd[t]
  BY <1>3, ServingFacts DEF Resting, Serving, FdOf
<1>6. ASSUME NEW f \in 1..MaxFd PROVE fdTable'[f] = NoConn
  <2>1. CASE fdTable[f] = NoConn
    BY <1>1, <2>1
  <2>2. CASE fdTable[f] # NoConn
    <3>1. PICK t \in Thread : Serving(t) /\ f = FdOf(t)
      BY <1>3, <2>2 DEF Running, Descriptors, Resting
    <3>2. t \in all_clients /\ fd[t] = f
      BY <1>5, <3>1 DEF Serving, Joined
    <3>. QED BY <1>1, <3>2
  <2>. QED BY <2>1, <2>2
<1>. QED BY <1>1, <1>2, <1>3, <1>4, <1>5, <1>6 DEF Closed, Live, Resting

\* After shutdown(), threads and process only end.
LEMMA ClosedNext ==
    ASSUME Inv, Closed, status = "freed", Next
    PROVE  /\ Closed' /\ status' \in {"freed", "down"}
           /\ UNCHANGED <<peer, log, reg, history>>
<1>. USE DEF client, acc, trav, thr, reg, proc
<1>1. ~Environment
  BY DEF Environment, ConsoleEof, Connect, SendString, Quit, ReceiveString, Closed
<1>2. CASE AcceptorStep
  <2>1. AcceptorCancelled
    BY <1>2 DEF AcceptorStep, Accept, AcceptFails, CreateThread, CreateThreadFails,
       Closed
  <2>. QED BY <2>1 DEF AcceptorCancelled, Closed, Live
<1>3. CASE MainStep
  <2>1. Exit
    BY <1>3 DEF MainStep, StartAcceptor, StartAcceptorFails, Shutdown, ShutdownFails,
       Closed
  <2>. QED BY <2>1 DEF Exit, Dies, Closed, Live
<1>4. ASSUME NEW t \in Thread, ThreadStep(t)
      PROVE  /\ Closed' /\ status' = "freed"
             /\ UNCHANGED <<peer, log, reg, history>>
  <2>1. pc[t] \notin {"none", "exited"} => pc[t] = "read" /\ t \in cancelled
    BY DEF Closed, Live
  <2>2. ~ReadSize(t) /\ ~ReadTooBig(t) /\ ~ReadText(t)
    BY <2>1 DEF ReadSize, ReadTooBig, ReadText, Readable
  <2>3. ~ReadEof(t) /\ ~ReadError(t) /\ ~ReadTextFails(t)
    BY <2>1 DEF ReadEof, ReadError, ReadTextFails, AtEof, AtError
  <2>4. /\ ~StartThread(t) /\ ~NewClient(t) /\ ~AddClient(t) /\ ~Talk(t)
        /\ ~RemoveClient(t) /\ ~LookupFails(t) /\ ~BeginBroadcast(t)
        /\ ~SendOne(t) /\ ~SendFails(t) /\ ~EndBroadcast(t) /\ ~TouchFreed(t)
    BY <2>1 DEF StartThread, NewClient, AddClient, Talk, RemoveClient, LookupFails,
       BeginBroadcast, SendOne, SendFails, EndBroadcast, TouchFreed
  <2>5. ThreadCancelled(t)
    BY <1>4, <2>2, <2>3, <2>4 DEF ThreadStep
  <2>. QED BY <2>1, <2>5 DEF ThreadCancelled, Closed, Live
<1>. QED BY <1>1, <1>2, <1>3, <1>4 DEF Next

LEMMA OrderlyInit == Init => OrderlyInv
<1>. SUFFICES ASSUME Init PROVE OrderlyInv
  OBVIOUS
<1>. USE DEF Init
<1>1. \A t \in Thread : ~Live(t) /\ ~Serving(t) /\ pc[t] = "none"
  BY DEF Live, Serving
<1>2. Started /\ StagesFit
  BY DEF Started, StagesFit, Joined
<1>3. Descriptors
  BY <1>1 DEF Descriptors
<1>4. Ends
  BY DEF Ends
<1>5. OneChange /\ GoingAlone /\ Audiences
  BY <1>1 DEF OneChange, GoingAlone, Audiences
<1>6. Names /\ Ids /\ UniqueIds
  BY <1>1 DEF Names, Ids, UniqueIds
<1>7. Slots
  BY <1>1 DEF Slots
<1>8. Inboxes
  BY <1>1 DEF Inboxes, Halfway
<1>9. OneThreadPerConn /\ ServerSurvives
  BY <1>1 DEF OneThreadPerConn, ServerSurvives
<1>. QED BY <1>2, <1>3, <1>4, <1>5, <1>6, <1>7, <1>8, <1>9 DEF OrderlyInv, Running

\* A stutter, or a step that only ends the process.
LEMMA OrderlyFrame ==
    ASSUME OrderlyInv,
           UNCHANGED <<client, log, backlog, fdTable, acc, thr, reg, mut, threads,
                       mainPc, cancelled, history>>,
           status' = status \/ status' \notin {"run", "freed"}, ServerSurvives'
    PROVE  OrderlyInv'
<1>. USE DEF client, acc, trav, thr, reg
<1>1. \A t \in Thread :
         /\ Live(t)' = Live(t) /\ Joined(t)' = Joined(t) /\ Serving(t)' = Serving(t)
         /\ FdOf(t)' = FdOf(t) /\ Line(t)' = Line(t) /\ ConnOf(t)' = ConnOf(t)
         /\ Steady(t)' = Steady(t)
  BY DEF Live, Joined, Serving, FdOf, Line, ConnOf, Steady
<1>2. UniqueIds' /\ OneThreadPerConn'
  BY <1>1 DEF OrderlyInv, UniqueIds, OneThreadPerConn
<1>3. ASSUME Closed PROVE Closed'
  BY <1>1, <1>3 DEF Closed
<1>4. ASSUME Running PROVE Running'
  <2>1. (Started /\ StagesFit /\ Ends /\ GoingAlone)'
    BY <1>4 DEF Running, Started, Resting, StagesFit, Ends, GoingAlone, Live,
       Joined, ConnOf
  <2>2. Descriptors' /\ OneChange'
    BY <1>1, <1>4 DEF Running, Descriptors, OneChange
  <2>3. Names'
    BY <1>4, NamesFrame DEF Running
  <2>4. Slots'
    BY <1>1, <1>4 DEF Running, Slots
  <2>5. Inboxes'
    BY <1>4, InboxesFrame DEF Running, Halfway, ConnOf
  <2>6. (Ids /\ Audiences)'
    BY <1>4 DEF Running, Ids, UniqueIds, Audiences
  <2>. QED BY <2>1, <2>2, <2>3, <2>4, <2>5, <2>6 DEF Running
<1>. QED BY <1>2, <1>3, <1>4 DEF OrderlyInv

LEMMA OrderlyNext ==
    ASSUME Peaceful, Inv, OrderlyInv, [Next]_vars
    PROVE  OrderlyInv'
<1>1. CASE UNCHANGED vars
  <2>1. ServerSurvives'
    BY <1>1 DEF OrderlyInv, ServerSurvives, OutOfDescriptors, FreeFds, vars, acc, proc
  <2>. QED BY <1>1, <2>1, OrderlyFrame DEF vars, proc
<1>2. CASE Next /\ status = "run"
  <2>1. Running
    BY <1>2 DEF OrderlyInv
  <2>2. CASE Running' /\ status' = "run"
    <3>1. Inv'
      BY <1>2, NextInv
    <3>2. OneThreadPerConn'
      BY <2>2, <3>1, OneThread, PTL
    <3>3. UniqueIds' /\ ServerSurvives'
      BY <2>2 DEF Running, Ids, ServerSurvives
    <3>. QED BY <2>2, <3>2, <3>3 DEF OrderlyInv
  <2>3. CASE Shutdown
    <3>1. Closed' /\ status' = "freed"
      BY <2>1, <2>3, ShutdownCloses
    <3>2. UniqueIds'
      BY <2>3 DEF Shutdown, reg, OrderlyInv, UniqueIds
    <3>3. OneThreadPerConn'
      BY <3>1 DEF Closed, OneThreadPerConn, ConnOf
    <3>. QED BY <3>1, <3>2, <3>3 DEF OrderlyInv, ServerSurvives
  <2>4. CASE AcceptFails
    <3>1. ServerSurvives'
      BY <2>4 DEF AcceptFails, Dies, ServerSurvives, OutOfDescriptors, FreeFds, acc
    <3>. QED BY <2>4, <3>1, OrderlyFrame DEF AcceptFails, Dies
  <2>. QED BY <1>2, <2>1, <2>2, <2>3, <2>4, RunningNext
<1>3. CASE Next /\ status = "freed"
  <2>1. Closed
    BY <1>3 DEF OrderlyInv
  <2>2. /\ Closed' /\ status' \in {"freed", "down"}
        /\ UNCHANGED <<peer, log, reg, history>>
    BY <1>3, <2>1, ClosedNext
  <2>3. OneThreadPerConn'
    BY <2>2 DEF Closed, OneThreadPerConn, ConnOf
  <2>4. UniqueIds'
    BY <2>2 DEF OrderlyInv, UniqueIds, reg
  <2>5. ServerSurvives'
    BY <2>2 DEF ServerSurvives
  <2>. QED BY <2>2, <2>3, <2>4, <2>5 DEF OrderlyInv
<1>4. status \notin {"run", "freed"} => ~Next
  BY EndedNext
<1>. QED BY <1>1, <1>2, <1>3, <1>4

LEMMA OrderlyInvariance == ASSUME Peaceful PROVE Spec => [](Inv /\ OrderlyInv)
<1>1. Inv /\ OrderlyInv /\ [Next]_vars => OrderlyInv'
  BY OrderlyNext
<1>. QED BY <1>1, OrderlyInit, Invariance, PTL DEF Spec

\* No two clients, past or present, have the same connection id: new_client takes
\* it without the mutex, and it is the order of their coming that keeps two
\* threads from taking the same one.
THEOREM UniqueIdsHold == ASSUME Peaceful PROVE Spec => []UniqueIds
<1>1. OrderlyInv => UniqueIds
  BY DEF OrderlyInv
<1>. QED BY <1>1, OrderlyInvariance, PTL

\* shutdown() cancels every thread that is still there: the slots up to
\* num_connections hold the threads of all clients.
THEOREM ShutdownReachesAllHolds == ASSUME Peaceful PROVE Spec => []ShutdownReachesAll
<1>1. OrderlyInv => ShutdownReachesAll
  BY DEF OrderlyInv, Closed, ShutdownReachesAll
<1>. QED BY <1>1, OrderlyInvariance, PTL

\* A thread reads the accepting thread's variable fd before the next accept()
\* overwrites it, so no connection has two threads.
THEOREM OneThreadPerConnHolds == ASSUME Peaceful PROVE Spec => []OneThreadPerConn
<1>1. OrderlyInv => OneThreadPerConn
  BY DEF OrderlyInv
<1>. QED BY <1>1, OrderlyInvariance, PTL

\* A descriptor is open only while a thread serves it or is about to: it is
\* closed when its client has gone, and when there is no thread for it.
THEOREM NoLeakedFdHolds == ASSUME Peaceful PROVE Spec => []NoLeakedFd
<1>1. OrderlyInv => NoLeakedFd
  <2>. SUFFICES ASSUME OrderlyInv, status = "run", NEW f \in 1..MaxFd,
                       fdTable[f] # NoConn
                PROVE  \/ acceptFd = f /\ accPc = "create"
                       \/ \E t \in Thread :
                             Live(t) /\ f = IF pc[t] = "start" THEN acceptFd ELSE fd[t]
    BY DEF NoLeakedFd
  <2>. QED BY DEF OrderlyInv, Running, Descriptors, Serving, FdOf
<1>. QED BY <1>1, OrderlyInvariance, PTL

------------------------------------------------------------------------------
(* The server is a ChatRoom: what its clients are to the room. *)

LEMMA TheClient ==
    ASSUME Inv, Running, NEW t \in all_clients
    PROVE  /\ username[t] \in Conn /\ ClientOf(username[t]) = {t}
           /\ Since(username[t]) = joinedAt[t]
           /\ PlaceOf(username[t]) =
                 IF t \notin current_clients THEN "left"
                 ELSE IF peer[username[t]] = "open" THEN "in" ELSE "leaving"
           /\ t \in current_clients => username[t] = ConnOf(t)
<1>1. username[t] \in Conn
  BY DEF Inv, Stages
<1>2. ClientOf(username[t]) = {t}
  BY DEF ClientOf, Running, Names
<1>3. t \in current_clients => username[t] = ConnOf(t)
  BY ServingFacts DEF Running, Names
<1>. QED BY <1>1, <1>2, <1>3 DEF Since, PlaceOf

\* While no thread sends, everybody who is there has been sent everything.
LEMMA QuietRoom ==
    ASSUME Inv, Running, Told, \A s \in Thread : pc[s] # "send"
    PROVE  Room!Quiet
<1>. SUFFICES ASSUME NEW c \in Conn, PlaceOf(c) = "in",
                     Since(c) + Len(log[c]) + 1 <= Len(history)
              PROVE  FALSE
  BY DEF Room!Quiet, Room!Waiting, Room!Upcoming
<1>1. PICK t \in ClientOf(c) : TRUE
  BY DEF PlaceOf
<1>2. t \in all_clients /\ username[t] = c
  BY <1>1 DEF ClientOf
<1>3. t \in current_clients /\ peer[c] = "open" /\ ConnOf(t) = c /\ Since(c) = joinedAt[t]
  BY <1>2, TheClient
<1>4. joinedAt[t] + Len(log[c]) + 0 = Len(history)
  BY <1>3 DEF Told, Pending
<1>5. joinedAt[t] \in Nat /\ Len(log[c]) \in Nat /\ Len(history) \in Nat
  BY <1>3, ServingFacts DEF Inv, TypeOK, RegistryType, SocketType
<1>. QED BY <1>3, <1>4, <1>5

\* The mutex is free: no thread sends.
LEMMA NobodySends ==
    ASSUME OrderInv, mut = NoThread
    PROVE  \A s \in Thread : pc[s] # "send"
BY DEF OrderInv, SendersHoldMutex, NoThread, Thread

LEMMA SinceFrame ==
    ASSUME NEW c, ClientOf(c)' = ClientOf(c), UNCHANGED joinedAt
    PROVE  Since(c)' = Since(c)
<1>1. (CHOOSE t \in ClientOf(c) : TRUE)' = CHOOSE t \in ClientOf(c) : TRUE
  OBVIOUS
<1>. QED BY <1>1 DEF Since

\* A step that is none of the room.
LEMMA RoomStutter ==
    ASSUME UNCHANGED <<history, log, all_clients, current_clients, joinedAt>>,
           (status = "run") = (status' = "run"),
           \A t \in all_clients : username'[t] = username[t]
                                    /\ peer'[username[t]] = peer[username[t]]
    PROVE  UNCHANGED Room!vars
<1>1. \A c : ClientOf(c)' = ClientOf(c)
  BY DEF ClientOf
<1>2. \A c : ClientOf(c) # {} => peer'[c] = peer[c]
  BY DEF ClientOf
<1>3. \A c : PlaceOf(c)' = PlaceOf(c)
  BY <1>1, <1>2 DEF PlaceOf
<1>4. ASSUME NEW c PROVE Since(c)' = Since(c)
  BY <1>1, SinceFrame
<1>5. [c \in Conn |-> PlaceOf(c)]' = [c \in Conn |-> PlaceOf(c)]
  BY <1>3
<1>6. [c \in Conn |-> Since(c)]' = [c \in Conn |-> Since(c)]
  BY <1>4
<1>. QED BY <1>5, <1>6 DEF Room!vars

LEMMA SaysRightFrame ==
    ASSUME NEW t \in Thread, SaysRight(t), UNCHANGED history,
           Line(t)' = Line(t), InHand(t)' <=> InHand(t),
           InHand(t) => msg'[t].n = msg[t].n,
           Taken(Line(t))' = Taken(Line(t))
    PROVE  SaysRight(t)'
<1>1. SaidBy(Line(t))' = SaidBy(Line(t)) /\ ~Farewelled(Line(t))'
  BY DEF SaysRight, Farewelled, SaidBy
<1>. QED BY <1>1 DEF SaysRight

LEMMA GoneFrame ==
    ASSUME Spoken, UNCHANGED <<history, username, all_clients, current_clients>>,
           \A t \in all_clients \ current_clients :
              pc'[t] = "broadcast" => pc[t] = "broadcast"
    PROVE  \A t \in all_clients \ current_clients :
              pc'[t] = "broadcast" => ~Farewelled(username[t])'
BY DEF Spoken, Farewelled, SaidBy

\* What is kept by a step that neither broadcasts nor lets a client come or go,
\* and takes nothing from a connection but the text that belongs to a size.
LEMMA QuietStep ==
    ASSUME Spoken, Told,
           UNCHANGED <<history, log, all_clients, current_clients, joinedAt>>,
           \A t \in Thread : Serving(t) => Line(t) \in Conn,
           \A c \in Conn : Taken(c)' = Taken(c),
           \A t \in all_clients : username'[t] = username[t],
           \A t \in Thread :
              /\ Serving(t)' <=> Serving(t)
              /\ Serving(t) => /\ Line(t)' = Line(t)
                               /\ pc[t] # "start" =>
                                     pc'[t] # "start" /\ ConnOf(t)' = ConnOf(t)
                               /\ InHand(t)' <=> InHand(t)
                               /\ InHand(t) => msg'[t].n = msg[t].n,
           \A t \in all_clients \ current_clients :
              pc'[t] = "broadcast" => pc[t] = "broadcast",
           \A t \in current_clients :
              /\ ConnOf(t)' = ConnOf(t)
              /\ peer'[ConnOf(t)] = "open" => peer[ConnOf(t)] = "open"
              /\ Pending(t)' <=> Pending(t)
    PROVE  Spoken' /\ Told'
<1>1. \A c : ClientOf(c)' = ClientOf(c) /\ SaidBy(c)' = SaidBy(c)
               /\ Farewelled(c)' = Farewelled(c)
  BY DEF ClientOf, SaidBy, Farewelled
<1>2. Told'
  BY DEF Told, Pending
<1>3. ASSUME NEW t \in Thread, Serving(t)' PROVE SaysRight(t)'
  <2>1. SaysRight(t)
    BY <1>3 DEF Spoken
  <2>2. Line(t)' = Line(t) /\ (InHand(t)' <=> InHand(t))
        /\ (InHand(t) => msg'[t].n = msg[t].n) /\ Line(t) \in Conn
    BY <1>3
  <2>3. Taken(Line(t))' = Taken(Line(t))
    BY <2>2 DEF Taken
  <2>. QED BY <2>1, <2>2, <2>3, SaysRightFrame
<1>4. \A t \in all_clients \ current_clients :
         pc'[t] = "broadcast" => ~Farewelled(username[t])'
  BY DEF Spoken, Farewelled, SaidBy
<1>5. ASSUME NEW c \in Conn, ~Served(c)', ClientOf(c)' = {} PROVE Taken(c)' = 0
  <2>1. ~Served(c)
    BY <1>5 DEF Served
  <2>. QED BY <1>1, <1>5, <2>1 DEF Spoken
<1>6. \A c \in Conn : ClientOf(c)' = {} => SaidBy(c)' = {} /\ log'[c] = <<>>
  BY <1>1 DEF Spoken
<1>. QED BY <1>2, <1>3, <1>4, <1>5, <1>6 DEF Spoken

\* A step that touches neither a thread nor a descriptor.
LEMMA StillStep ==
    ASSUME Inv, Running, Spoken, Told,
           UNCHANGED <<history, log, pc, fd, msg, todo, fdTable, acceptFd, username,
                       all_clients, current_clients, joinedAt>>,
           \A c \in Conn : Taken(c)' = Taken(c),
           \A t \in current_clients :
              peer'[ConnOf(t)] = "open" => peer[ConnOf(t)] = "open"
    PROVE  Spoken' /\ Told'
<1>1. \A t \in Thread : /\ Serving(t)' <=> Serving(t)
                        /\ Line(t)' = Line(t) /\ ConnOf(t)' = ConnOf(t)
                        /\ InHand(t)' <=> InHand(t)
                        /\ Pending(t)' <=> Pending(t)
  BY DEF Serving, Live, Joined, Line, FdOf, ConnOf, InHand, Pending
<1>2. /\ \A t \in current_clients : t \in Thread
      /\ \A t \in Thread : Serving(t) => Line(t) \in Conn
  BY ServingFacts
<1>. QED BY <1>1, <1>2, QuietStep

LEMMA ConsoleEofRoom ==
    ASSUME Inv, Running, Spoken, Told, ConsoleEof
    PROVE  Spoken' /\ Told' /\ UNCHANGED Room!vars
<1>. USE DEF client, acc, trav, thr, reg, proc
<1>1. UNCHANGED <<client, log, fdTable, acc, thr, reg, status, history>>
  BY DEF ConsoleEof
<1>2. \A c \in Conn : Taken(c)' = Taken(c)
  BY <1>1 DEF Taken
<1>3. Spoken' /\ Told'
  BY <1>1, <1>2, StillStep
<1>. QED BY <1>1, <1>3, RoomStutter

LEMMA ConnectRoom ==
    ASSUME Inv, Running, Spoken, Told, NEW c \in Conn, Connect(c)
    PROVE  Spoken' /\ Told' /\ UNCHANGED Room!vars
<1>. USE DEF client, acc, trav, thr, reg, proc
<1>1. /\ peer[c] = "none"
      /\ \A d \in Conn : d # c => peer'[d] = peer[d]
      /\ UNCHANGED <<inbox, sent, log, fdTable, acc, thr, reg, proc, history>>
  BY DEF Connect, Inv, TypeOK, ClientType
<1>2. \A d \in Conn : Taken(d)' = Taken(d)
  BY <1>1 DEF Taken
<1>3. \A t \in all_clients : username[t] \in Conn /\ username[t] # c
  BY <1>1 DEF Running, Ends, Inv, Stages
<1>4. \A t \in current_clients : username[t] = ConnOf(t) /\ t \in all_clients
  BY DEF Running, Names, Inv, Bookkeeping, TypeOK, RegistryType
<1>5. Spoken' /\ Told'
  BY <1>1, <1>2, <1>3, <1>4, StillStep
<1>. QED BY <1>1, <1>3, <1>5, RoomStutter

LEMMA SendStringRoom ==
    ASSUME Peaceful, Inv, Running, Spoken, Told, NEW c \in Conn, SendString(c)
    PROVE  Spoken' /\ Told' /\ UNCHANGED Room!vars
<1>. USE DEF client, acc, trav, thr, reg, proc
<1>. DEFINE two == <<[kind |-> "size", n |-> sent[c] + 1],
                     [kind |-> "text", n |-> sent[c] + 1]>>
<1>1. /\ \A d \in Conn : inbox'[d] = IF d = c THEN inbox[c] \o two ELSE inbox[d]
      /\ \A d \in Conn : sent'[d] = IF d = c THEN sent[c] + 1 ELSE sent[d]
  BY DEF SendString, Peaceful, Inv, TypeOK, ClientType
<1>2. UNCHANGED <<peer, log, fdTable, acc, thr, reg, proc, history>>
  BY DEF SendString
<1>3. ASSUME NEW d \in Conn PROVE Taken(d)' = Taken(d)
  <2>1. CASE d # c
    BY <1>1, <2>1 DEF Taken
  <2>2. CASE d = c
    <3>1. inbox[c] \in Seq(Piece) /\ sent[c] \in Nat /\ Len(inbox[c]) \in Nat
      BY DEF Inv, TypeOK, ClientType
    <3>2. two \in Seq(Piece) /\ Len(two) = 2
      BY <3>1 DEF Piece
    <3>. HIDE DEF two
    <3>3. Len(inbox[c] \o two) = Len(inbox[c]) + 2
      <4>1. Len(inbox[c] \o two) = Len(inbox[c]) + Len(two)
        BY <3>1, <3>2, ConcatProperties
      <4>. QED BY <3>2, <4>1
    <3>4. (Len(inbox[c]) + 2) \div 2 = (Len(inbox[c]) \div 2) + 1
          /\ Len(inbox[c]) \div 2 \in Nat
      BY <3>1, Halves
    <3>5. Len(inbox'[d]) = Len(inbox[c]) + 2 /\ sent'[d] = sent[c] + 1
      BY <1>1, <2>2, <3>3
    <3>6. \A m, n \in Nat : (m + 1) - (n + 1) = m - n
      OBVIOUS
    <3>7. sent'[d] - (Len(inbox'[d]) \div 2) = (sent[c] + 1) - ((Len(inbox[c]) \div 2) + 1)
      BY <3>4, <3>5
    <3>8. @ = Taken(c)
      BY <3>1, <3>4, <3>6 DEF Taken
    <3>. QED BY <2>2, <3>7, <3>8 DEF Taken
  <2>. QED BY <2>1, <2>2
<1>4. Spoken' /\ Told'
  BY <1>2, <1>3, StillStep
<1>. QED BY <1>2, <1>4, RoomStutter

LEMMA ReceiveStringRoom ==
    ASSUME Inv, Running, Spoken, Told, NEW c \in Conn, ReceiveString(c)
    PROVE  Spoken' /\ Told' /\ UNCHANGED Room!vars
<1>. USE DEF client, acc, trav, thr, reg, proc
<1>1. UNCHANGED <<peer, inbox, sent, log, fdTable, acc, thr, reg, proc, history>>
  BY DEF ReceiveString
<1>2. \A d \in Conn : Taken(d)' = Taken(d)
  BY <1>1 DEF Taken
<1>3. Spoken' /\ Told'
  BY <1>1, <1>2, StillStep
<1>. QED BY <1>1, <1>3, RoomStutter

LEMMA StartAcceptorRoom ==
    ASSUME Inv, Running, Spoken, Told, StartAcceptor
    PROVE  Spoken' /\ Told' /\ UNCHANGED Room!vars
<1>. USE DEF client, acc, trav, thr, reg, proc
<1>1. UNCHANGED <<client, log, fdTable, acceptFd, thr, reg, status, history>>
  BY DEF StartAcceptor
<1>2. \A c \in Conn : Taken(c)' = Taken(c)
  BY <1>1 DEF Taken
<1>3. Spoken' /\ Told'
  BY <1>1, <1>2, StillStep
<1>. QED BY <1>1, <1>3, RoomStutter

\* A client that is there goes; one whose connection was refused is not there.
LEMMA QuitRoom ==
    ASSUME Peaceful, Inv, Running, Spoken, Told, status = "run",
           NEW c \in Conn, Quit(c)
    PROVE  Spoken' /\ Told' /\ [Room!Next]_(Room!vars)
<1>. USE DEF client, acc, trav, thr, reg, proc
<1>1. /\ peer[c] = "open" /\ peer'[c] # "open"
      /\ \A d \in Conn : d # c => peer'[d] = peer[d]
      /\ UNCHANGED <<inbox, sent, log, fdTable, acc, thr, reg, proc, history>>
  BY DEF Quit, Peaceful, Inv, TypeOK, ClientType
<1>2. \A d \in Conn : Taken(d)' = Taken(d)
  BY <1>1 DEF Taken
<1>3. \A t \in current_clients : ConnOf(t) \in Conn
  BY ServingFacts
<1>4. Spoken' /\ Told'
  BY <1>1, <1>2, <1>3, StillStep
<1>5. CASE ClientOf(c) = {}
  <2>1. \A t \in all_clients : username[t] \in Conn /\ username[t] # c
    BY <1>5 DEF ClientOf, Inv, Stages
  <2>. QED BY <1>1, <1>4, <2>1, RoomStutter
<1>6. CASE ClientOf(c) # {}
  <2>1. PICK t \in all_clients : username[t] = c
    BY <1>6 DEF ClientOf
  <2>2. t \in current_clients
    BY <1>1, <2>1 DEF Running, Ends
  <2>3. ClientOf(c) = {t} /\ PlaceOf(c) = "in"
    BY <1>1, <2>1, <2>2, TheClient
  <2>4. \A d : ClientOf(d)' = ClientOf(d)
    BY <1>1 DEF ClientOf
  <2>5. PlaceOf(c)' = "leaving"
    BY <1>1, <2>2, <2>3, <2>4 DEF PlaceOf
  <2>6. \A d \in Conn : d # c => PlaceOf(d)' = PlaceOf(d)
    BY <1>1, <2>4 DEF PlaceOf
  <2>7. ASSUME NEW d \in Conn PROVE Since(d)' = Since(d)
    BY <1>1, <2>4, SinceFrame
  <2>8. [d \in Conn |-> PlaceOf(d)]' = [[d \in Conn |-> PlaceOf(d)] EXCEPT ![c] = "leaving"]
    BY <2>5, <2>6
  <2>9. [d \in Conn |-> Since(d)]' = [d \in Conn |-> Since(d)]
    BY <2>7
  <2>10. Room!Go(c)
    BY <1>1, <2>3, <2>8, <2>9 DEF Room!Go
  <2>. QED BY <1>4, <2>10 DEF Room!Next
<1>. QED BY <1>5, <1>6

LEMMA TailLength ==
    \A s \in Seq(Piece) : s # <<>> => Len(Tail(s)) = Len(s) - 1 /\ Len(s) > 0
OBVIOUS

\* A thread goes from one stage to another that says nothing and takes nothing
\* but the text of the size it has.
LEMMA StageStep ==
    ASSUME Inv, Running, Spoken, Told,
           NEW t \in Thread, NEW s \in Stage, Live(t), pc[t] # "start",
           s \notin {"none", "start"}, s = "exited" => ~Serving(t),
           \A u \in Thread : pc'[u] = IF u = t THEN s ELSE pc[u],
           s \in {"text", "newclient", "addclient", "talk", "broadcast"} <=> InHand(t),
           s = "broadcast" => t \in current_clients,
           pc[t] = "send" => todo[t] = {}, s # "send",
           \A u \in all_clients : username'[u] = username[u],
           \A c \in Conn : Taken(c)' = Taken(c),
           UNCHANGED <<history, log, peer, fdTable, acceptFd, fd, msg, todo,
                       current_clients, all_clients, joinedAt, status>>
    PROVE  Spoken' /\ Told' /\ UNCHANGED Room!vars
<1>1. \A u \in Thread : /\ Serving(u)' <=> Serving(u)
                        /\ Line(u)' = Line(u) /\ ConnOf(u)' = ConnOf(u)
                        /\ InHand(u)' <=> InHand(u)
                        /\ pc[u] # "start" => pc'[u] # "start"
  BY DEF Serving, Live, Joined, Line, FdOf, ConnOf, InHand
<1>2. \A u \in Thread : Pending(u)' <=> Pending(u)
  BY DEF Pending
<1>3. /\ \A u \in current_clients : u \in Thread
      /\ \A u \in all_clients : u \in Thread
      /\ \A u \in Thread : Serving(u) => Line(u) \in Conn
  BY ServingFacts DEF Inv, TypeOK, RegistryType
<1>4. Spoken' /\ Told'
  BY <1>1, <1>2, <1>3, QuietStep
<1>. QED BY <1>4, RoomStutter

LEMMA ReadTextRoom ==
    ASSUME Inv, Running, Spoken, Told, NEW t \in Thread, ReadText(t)
    PROVE  Spoken' /\ Told' /\ UNCHANGED Room!vars
<1>. USE DEF client, acc, trav, thr, reg, proc
<1>1. PICK c \in Conn :
         /\ pc[t] = "text" /\ ConnOf(t) = c /\ inbox[c] # <<>>
         /\ \A d \in Conn : inbox'[d] = IF d = c THEN Tail(inbox[c]) ELSE inbox[d]
         /\ \A u \in Thread : pc'[u] = IF u = t THEN AfterText(t) ELSE pc[u]
  BY DEF ReadText, Readable, Inv, TypeOK, ClientType, ThreadType
<1>2. UNCHANGED <<peer, sent, log, fdTable, acc, fd, msg, trav, reg, proc, history>>
  BY DEF ReadText
<1>3. ASSUME NEW d \in Conn PROVE Taken(d)' = Taken(d)
  <2>1. CASE d # c
    BY <1>1, <1>2, <2>1 DEF Taken
  <2>2. CASE d = c
    <3>1. inbox[c] \in Seq(Piece) /\ Len(inbox[c]) \in Nat
      BY DEF Inv, TypeOK, ClientType
    <3>2. Len(inbox'[c]) = Len(inbox[c]) - 1
      BY <1>1, <3>1, TailLength
    <3>3. Len(inbox[c]) % 2 = 1
      BY <1>1 DEF Running, Inboxes, Halfway
    <3>4. (Len(inbox[c]) - 1) \div 2 = Len(inbox[c]) \div 2
      BY <3>1, <3>3, Halves, Zenon
    <3>. QED BY <1>2, <2>2, <3>2, <3>4 DEF Taken
  <2>. QED BY <2>1, <2>2
<1>4. /\ AfterText(t) \in {"talk", "newclient"} /\ AfterText(t) \in Stage
      /\ Live(t) /\ InHand(t)
  BY <1>1 DEF AfterText, Stage, Live, InHand
<1>. QED BY <1>1, <1>2, <1>3, <1>4, StageStep

LEMMA ReadEofRoom ==
    ASSUME Inv, Running, Spoken, Told, NEW t \in Thread, ReadEof(t)
    PROVE  Spoken' /\ Told' /\ UNCHANGED Room!vars
<1>. USE DEF client, acc, trav, thr, reg, proc
<1>1. /\ pc[t] = "read"
      /\ \A u \in Thread : pc'[u] = IF u = t THEN "quit" ELSE pc[u]
  BY DEF ReadEof, Inv, TypeOK, ThreadType
<1>2. UNCHANGED <<client, log, fdTable, acc, fd, msg, trav, reg, proc, history>>
  BY DEF ReadEof
<1>3. \A c \in Conn : Taken(c)' = Taken(c)
  BY <1>2 DEF Taken
<1>4. Live(t) /\ ~InHand(t) /\ "quit" \in Stage
  BY <1>1 DEF Stage, Live, InHand
<1>. QED BY <1>1, <1>2, <1>3, <1>4, StageStep

LEMMA NewClientRoom ==
    ASSUME Inv, Running, Spoken, Told, NEW t \in Thread, NewClient(t)
    PROVE  Spoken' /\ Told' /\ UNCHANGED Room!vars
<1>. USE DEF client, acc, trav, thr, reg, proc
<1>1. /\ pc[t] = "newclient"
      /\ \A u \in Thread : pc'[u] = IF u = t THEN "addclient" ELSE pc[u]
      /\ \A u \in Thread : u # t => username'[u] = username[u]
  BY DEF NewClient, Inv, TypeOK, ThreadType, RegistryType
<1>2. UNCHANGED <<client, log, fdTable, acc, fd, msg, trav, current_clients,
                  all_clients, joinedAt, proc, history>>
  BY DEF NewClient
<1>3. \A u \in all_clients : u \in Thread /\ u # t
  BY <1>1 DEF Inv, Stages, TypeOK, RegistryType
<1>4. \A c \in Conn : Taken(c)' = Taken(c)
  BY <1>2 DEF Taken
<1>5. Live(t) /\ InHand(t) /\ "addclient" \in Stage
  BY <1>1 DEF Stage, Live, InHand
<1>. QED BY <1>1, <1>2, <1>3, <1>4, <1>5, StageStep

LEMMA TalkRoom ==
    ASSUME Inv, Running, Spoken, Told, NEW t \in Thread, Talk(t)
    PROVE  Spoken' /\ Told' /\ UNCHANGED Room!vars
<1>. USE DEF client, acc, trav, thr, reg, proc
<1>1. /\ pc[t] = "talk"
      /\ \A u \in Thread : pc'[u] = IF u = t THEN "broadcast" ELSE pc[u]
  BY DEF Talk, Inv, TypeOK, ThreadType
<1>2. UNCHANGED <<client, log, fdTable, acc, fd, msg, trav, reg, proc, history>>
  BY DEF Talk
<1>3. t \in current_clients
  BY <1>1 DEF Running, StagesFit
<1>4. \A c \in Conn : Taken(c)' = Taken(c)
  BY <1>2 DEF Taken
<1>5. Live(t) /\ InHand(t) /\ "broadcast" \in Stage
  BY <1>1 DEF Stage, Live, InHand
<1>. QED BY <1>1, <1>2, <1>3, <1>4, <1>5, StageStep

LEMMA EndBroadcastRoom ==
    ASSUME Inv, Running, Spoken, Told, NEW t \in Thread, EndBroadcast(t)
    PROVE  Spoken' /\ Told' /\ UNCHANGED Room!vars
<1>. USE DEF client, acc, trav, thr, reg, proc
<1>1. /\ pc[t] = "send" /\ todo[t] = {}
      /\ \A u \in Thread : pc'[u] = IF u = t THEN AfterBroadcast(t) ELSE pc[u]
  BY DEF EndBroadcast, Inv, TypeOK, ThreadType
<1>2. UNCHANGED <<client, log, fdTable, acc, fd, msg, todo, reg, proc, history>>
  BY DEF EndBroadcast
<1>3. /\ AfterBroadcast(t) \in {"read", "exited"} /\ AfterBroadcast(t) \in Stage
      /\ AfterBroadcast(t) = "exited" => ~Serving(t)
  BY <1>1 DEF AfterBroadcast, Stage, Running, StagesFit, Serving
<1>4. \A c \in Conn : Taken(c)' = Taken(c)
  BY <1>2 DEF Taken
<1>5. Live(t) /\ ~InHand(t)
  BY <1>1 DEF Live, InHand
<1>. QED BY <1>1, <1>2, <1>3, <1>4, <1>5, StageStep

\* A thread has its descriptor: the connection is served from here on.
LEMMA StartThreadRoom ==
    ASSUME Inv, Running, Spoken, Told, NEW t \in Thread, StartThread(t)
    PROVE  Spoken' /\ Told' /\ UNCHANGED Room!vars
<1>. USE DEF client, acc, trav, thr, reg, proc
<1>1. /\ pc[t] = "start"
      /\ \A u \in Thread : pc'[u] = IF u = t THEN "read" ELSE pc[u]
      /\ \A u \in Thread : fd'[u] = IF u = t THEN acceptFd ELSE fd[u]
  BY DEF StartThread, Inv, TypeOK, ThreadType
<1>2. UNCHANGED <<client, log, fdTable, acc, msg, trav, reg, proc, history>>
  BY DEF StartThread
<1>3. t \notin all_clients /\ t \notin current_clients
  BY <1>1 DEF Inv, Stages, Bookkeeping
<1>4. \A u \in Thread : /\ Serving(u)' <=> Serving(u)
                        /\ Line(u)' = Line(u)
                        /\ u # t => ConnOf(u)' = ConnOf(u)
                        /\ InHand(u)' <=> InHand(u)
                        /\ Pending(u)' <=> Pending(u)
  BY <1>1, <1>2, <1>3 DEF Live, Joined, Serving, FdOf, Line, ConnOf, InHand, Pending
<1>5. \A c \in Conn : Taken(c)' = Taken(c)
  BY <1>2 DEF Taken
<1>6. /\ \A u \in current_clients : u \in Thread /\ u # t
      /\ \A u \in Thread : Serving(u) => Line(u) \in Conn
  BY <1>3, ServingFacts
<1>7. \A u \in all_clients : u \in Thread /\ u # t
  BY <1>3 DEF Inv, TypeOK, RegistryType
<1>8. Spoken' /\ Told'
  BY <1>1, <1>2, <1>4, <1>5, <1>6, <1>7, QuietStep
<1>. QED BY <1>2, <1>8, RoomStutter

LEMMA SaidFinite ==
    ASSUME Inv, NEW c
    PROVE  /\ IsFiniteSet(SaidBy(c)) /\ Cardinality(SaidBy(c)) \in Nat
           /\ Len(history) + 1 \notin SaidBy(c)
<1>1. Len(history) \in Nat /\ SaidBy(c) \subseteq 1..Len(history)
  BY DEF SaidBy, Inv, TypeOK, SocketType
<1>2. IsFiniteSet(1..Len(history))
  BY <1>1, FS_Interval
<1>. QED BY <1>1, <1>2, FS_Subset, FS_CardinalityType

\* A thread takes the size of the next message.
LEMMA ReadSizeRoom ==
    ASSUME Inv, Running, Spoken, Told, NEW t \in Thread, ReadSize(t)
    PROVE  Spoken' /\ Told' /\ UNCHANGED Room!vars
<1>. USE DEF client, acc, trav, thr, reg, proc
<1>1. PICK c \in Conn :
         /\ pc[t] = "read" /\ ConnOf(t) = c /\ inbox[c] # <<>>
         /\ \A d \in Conn : inbox'[d] = IF d = c THEN Tail(inbox[c]) ELSE inbox[d]
         /\ \A u \in Thread : pc'[u] = IF u = t THEN "text" ELSE pc[u]
         /\ \A u \in Thread : u # t => msg'[u] = msg[u]
         /\ msg'[t].n = Head(inbox[c]).n
  <2>1. DOMAIN msg = Thread
    BY DEF Inv, TypeOK, ThreadType
  <2>. QED BY <2>1 DEF ReadSize, Readable, Inv, TypeOK, ClientType, ThreadType
<1>2. UNCHANGED <<peer, sent, log, fdTable, acc, fd, trav, reg, proc, history>>
  BY DEF ReadSize
<1>3. \A u \in Thread : /\ Serving(u)' <=> Serving(u)
                        /\ Line(u)' = Line(u) /\ ConnOf(u)' = ConnOf(u)
                        /\ u # t => (InHand(u)' <=> InHand(u))
                        /\ pc[u] # "start" => pc'[u] # "start"
                        /\ Pending(u)' <=> Pending(u)
  BY <1>1, <1>2 DEF Serving, Live, Joined, Line, FdOf, ConnOf, InHand, Pending
<1>4. /\ Serving(t) /\ Line(t) = c
      /\ \A u \in Thread : Serving(u) => Line(u) \in Conn
      /\ \A u \in Thread : Serving(u) /\ u # t => Line(u) # c
  <2>1. Serving(t) /\ Line(t) = c
    BY <1>1, ServingFacts DEF Live
  <2>. QED BY <2>1, ServingFacts
<1>5. \A d \in Conn : d # c => Taken(d)' = Taken(d)
  BY <1>1, <1>2 DEF Taken
<1>6. Taken(c)' = Taken(c) + 1 /\ msg'[t].n = Taken(c)'
  <2>1. inbox[c] \in Seq(Piece) /\ Len(inbox[c]) \in Nat /\ sent[c] \in Nat
    BY DEF Inv, TypeOK, ClientType
  <2>2. Len(inbox'[c]) = Len(inbox[c]) - 1 /\ Len(inbox[c]) # 0
    <3>1. inbox'[c] = Tail(inbox[c]) /\ inbox[c] # <<>>
      BY <1>1
    <3>. QED BY <2>1, <3>1, TailLength
  <2>3. Len(inbox[c]) % 2 = 0
    <3>1. ~Halfway(c)
      BY <1>1, <1>4, ServingFacts DEF Halfway, Live
    <3>2. Len(inbox[c]) % 2 # 1
      BY <3>1 DEF Running, Inboxes
    <3>3. Len(inbox[c]) % 2 \in {0, 1}
      BY <2>1, Halves
    <3>. QED BY <3>2, <3>3
  <2>4. (Len(inbox[c]) - 1) \div 2 = (Len(inbox[c]) \div 2) - 1
        /\ Len(inbox[c]) \div 2 \in Nat
    BY <2>1, <2>2, <2>3, Halves, Zenon
  <2>5. Taken(c)' = sent[c] - ((Len(inbox[c]) - 1) \div 2)
    BY <1>2, <2>2 DEF Taken
  <2>6. 1 \in DOMAIN inbox[c] /\ Head(inbox[c]) = inbox[c][1]
    BY <1>1, <2>1
  <2>7. inbox[c][1].n = sent[c] - ((Len(inbox[c]) - 1) \div 2)
    BY <2>6, Zenon DEF Running, Inboxes
  <2>8. \A m, n \in Nat : m - (n - 1) = (m - n) + 1
    OBVIOUS
  <2>9. Taken(c)' = Taken(c) + 1
    BY <2>1, <2>4, <2>5, <2>8 DEF Taken
  <2>. QED BY <1>1, <2>5, <2>6, <2>7, <2>9
<1>7. ASSUME NEW u \in Thread, Serving(u)' PROVE SaysRight(u)'
  <2>1. SaysRight(u)
    BY <1>3, <1>7 DEF Spoken
  <2>2. CASE u # t
    <3>1. Line(u)' = Line(u) /\ Line(u) \in Conn /\ Line(u) # c
      BY <1>3, <1>4, <1>7, <2>2
    <3>2. Taken(Line(u))' = Taken(Line(u))
      BY <1>5, <3>1 DEF Taken
    <3>. QED BY <1>1, <1>2, <1>3, <2>1, <2>2, <3>1, <3>2, SaysRightFrame
  <2>3. CASE u = t
    <3>1. Line(u)' = c /\ Line(u) = c /\ ~InHand(u) /\ InHand(u)'
      BY <1>1, <1>3, <1>4, <2>3 DEF InHand
    <3>2. /\ SaidBy(Line(u))' = SaidBy(c) /\ ~Farewelled(Line(u))'
          /\ Taken(c) = Cardinality(SaidBy(c)) + 0
      BY <1>2, <2>1, <3>1 DEF SaysRight, Farewelled, SaidBy
    <3>3. Taken(Line(u))' = Taken(c)'
      BY <3>1 DEF Taken
    <3>4. Cardinality(SaidBy(c)) \in Nat
      BY SaidFinite
    <3>. QED BY <1>6, <2>3, <3>1, <3>2, <3>3, <3>4 DEF SaysRight
  <2>. QED BY <2>2, <2>3
<1>8. ASSUME NEW d \in Conn, ~Served(d)', ClientOf(d)' = {} PROVE Taken(d)' = 0
  <2>1. ~Served(d)
    BY <1>3, <1>8 DEF Served
  <2>2. d # c
    BY <1>1, <1>4, <2>1 DEF Served
  <2>3. ClientOf(d) = {}
    BY <1>2, <1>8 DEF ClientOf
  <2>. QED BY <1>5, <2>1, <2>2, <2>3 DEF Spoken
<1>9. Spoken'
  <2>1. \A d \in Conn : ClientOf(d)' = {} => SaidBy(d)' = {} /\ log'[d] = <<>>
    BY <1>2 DEF Spoken, ClientOf, SaidBy
  <2>2. \A u \in all_clients : u \in Thread
    BY DEF Inv, TypeOK, RegistryType
  <2>3. \A u \in all_clients \ current_clients :
           pc'[u] = "broadcast" => ~Farewelled(username[u])'
    BY <1>1, <1>2, <2>2, GoneFrame
  <2>. QED BY <1>2, <1>7, <1>8, <2>1, <2>3 DEF Spoken
<1>10. Told'
  <2>1. \A u \in current_clients : u \in Thread
    BY ServingFacts
  <2>. QED BY <1>2, <1>3, <2>1 DEF Told
<1>. QED BY <1>2, <1>9, <1>10, RoomStutter

\* A connection gets a descriptor; no thread serves it yet.
LEMMA AcceptRoom ==
    ASSUME Inv, Running, Spoken, Told, Accept
    PROVE  Spoken' /\ Told' /\ UNCHANGED Room!vars
<1>. USE DEF client, acc, trav, thr, reg, proc
<1>1. PICK f \in 1..MaxFd :
         /\ fdTable[f] = NoConn /\ backlog # <<>>
         /\ \A g \in 1..MaxFd : g # f => fdTable'[g] = fdTable[g]
  BY DEF Accept, FreeFds, Inv, TypeOK, SocketType
<1>2. UNCHANGED <<client, log, created, thr, reg, mut, threads, proc, history>>
  BY DEF Accept
<1>3. \A t \in Thread : Live(t) =>
         /\ fd[t] # f /\ fd[t] \in 1..MaxFd /\ pc[t] # "start" /\ pc'[t] # "start"
         /\ Line(t)' = Line(t) /\ ConnOf(t)' = ConnOf(t) /\ Line(t) \in Conn
  BY <1>1, <1>2, AllSteady, ServingFacts DEF FdOf, Line, ConnOf
<1>4. \A t \in Thread : /\ Serving(t)' <=> Serving(t)
                        /\ InHand(t)' <=> InHand(t)
                        /\ Pending(t)' <=> Pending(t)
                        /\ Serving(t) => Live(t)
  BY <1>2 DEF Serving, Live, Joined, InHand, Pending
<1>5. \A t \in current_clients : t \in Thread /\ Live(t)
  BY ServingFacts
<1>6. \A c \in Conn : Taken(c)' = Taken(c)
  BY <1>2 DEF Taken
<1>7. Spoken' /\ Told'
  BY <1>2, <1>3, <1>4, <1>5, <1>6, QuietStep
<1>. QED BY <1>2, <1>7, RoomStutter

LEMMA CreateThreadFailsRoom ==
    ASSUME Inv, Running, Spoken, Told, CreateThreadFails
    PROVE  Spoken' /\ Told' /\ UNCHANGED Room!vars
<1>. USE DEF client, acc, trav, thr, reg, proc
<1>1. /\ accPc = "create"
      /\ \A g \in 1..MaxFd : g # acceptFd => fdTable'[g] = fdTable[g]
  BY DEF CreateThreadFails, Inv, TypeOK, SocketType
<1>2. UNCHANGED <<client, log, acceptFd, thr, reg, proc, history>>
  BY DEF CreateThreadFails
<1>3. \A t \in Thread : Live(t) =>
         /\ fd[t] # acceptFd /\ fd[t] \in 1..MaxFd /\ pc[t] # "start" /\ pc'[t] # "start"
         /\ FdOf(t) = fd[t] /\ Serving(t)
  BY <1>1, <1>2, AllSteady DEF Running, Descriptors
<1>4. \A t \in Thread : Live(t) =>
         Line(t)' = Line(t) /\ ConnOf(t)' = ConnOf(t) /\ Line(t) \in Conn
  BY <1>1, <1>2, <1>3, ServingFacts DEF FdOf, Line, ConnOf
<1>5. \A t \in Thread : /\ Serving(t)' <=> Serving(t)
                        /\ InHand(t)' <=> InHand(t)
                        /\ Pending(t)' <=> Pending(t)
                        /\ Serving(t) => Live(t)
  BY <1>2 DEF Serving, Live, Joined, InHand, Pending
<1>6. \A t \in current_clients : t \in Thread /\ Live(t)
  BY ServingFacts
<1>7. \A c \in Conn : Taken(c)' = Taken(c)
  BY <1>2 DEF Taken
<1>8. Spoken' /\ Told'
  BY <1>2, <1>3, <1>4, <1>5, <1>6, <1>7, QuietStep
<1>. QED BY <1>2, <1>8, RoomStutter

\* A connection gets its thread: nothing was taken from it, and nobody else
\* speaks for it.
LEMMA CreateThreadRoom ==
    ASSUME Inv, Running, Spoken, Told, CreateThread
    PROVE  Spoken' /\ Told' /\ UNCHANGED Room!vars
<1>. USE DEF client, acc, trav, thr, reg, proc
<1>1. PICK new \in Thread :
         /\ accPc = "create" /\ pc[new] = "none"
         /\ \A t \in Thread : pc'[t] = IF t = new THEN "start" ELSE pc[t]
  <2>1. created + 1 \in Thread /\ created \in Nat
    BY ConstantsAssumption DEF CreateThread, CanCreate, Inv, TypeOK, AcceptorType, Thread
  <2>2. pc[created + 1] = "none"
    BY <2>1 DEF Inv, Stages
  <2>. QED BY <2>1, <2>2 DEF CreateThread, Inv, TypeOK, ThreadType
<1>2. UNCHANGED <<client, log, backlog, fdTable, acceptFd, fd, msg, trav, reg,
                  proc, history>>
  BY DEF CreateThread
<1>3. new \notin all_clients /\ new \notin current_clients
  BY <1>1 DEF Inv, Stages, Bookkeeping
<1>. DEFINE c == fdTable[acceptFd]
<1>4. /\ c \in Conn /\ acceptFd \in 1..MaxFd /\ peer[c] = "open"
      /\ \A t \in Thread : Serving(t) => Line(t) # c /\ Line(t) \in Conn
  <2>1. acceptFd \in 1..MaxFd /\ c # NoConn /\ peer[c] = "open"
        /\ \A t \in Thread : Serving(t) => FdOf(t) # acceptFd
    BY <1>1 DEF Running, Descriptors, OneChange
  <2>2. \A t \in Thread : Serving(t) => FdOf(t) \in 1..MaxFd /\ Line(t) \in Conn
    BY ServingFacts
  <2>. QED BY <2>1, <2>2 DEF Running, Descriptors, Line, Inv, TypeOK, SocketType
<1>5. ~Served(c) /\ ClientOf(c) = {}
  <2>1. ~Served(c)
    BY <1>4, ServingFacts DEF Served
  <2>2. ASSUME NEW t \in all_clients, username[t] = c PROVE FALSE
    <3>1. t \in current_clients
      BY <1>4, <2>2 DEF Running, Ends
    <3>. QED BY <1>4, <2>2, <3>1, ServingFacts, TheClient
  <2>. QED BY <2>1, <2>2 DEF ClientOf
<1>6. Taken(c) = 0 /\ SaidBy(c) = {}
  BY <1>4, <1>5 DEF Spoken
<1>7. /\ \A t \in Thread : t # new => /\ Serving(t)' <=> Serving(t)
                                      /\ Line(t)' = Line(t)
                                      /\ InHand(t)' <=> InHand(t)
      /\ Line(new)' = c /\ ~InHand(new)' /\ ~Serving(new)
      /\ \A t \in Thread : ConnOf(t)' = ConnOf(t)
      /\ \A t \in Thread : Pending(t)' <=> Pending(t)
  BY <1>1, <1>2 DEF Serving, Live, Joined, Line, FdOf, ConnOf, InHand, Pending
<1>8. \A d \in Conn : Taken(d)' = Taken(d)
  BY <1>2 DEF Taken
<1>. HIDE DEF c
<1>9. ASSUME NEW t \in Thread, Serving(t)' PROVE SaysRight(t)'
  <2>1. CASE t # new
    <3>1. SaysRight(t) /\ Line(t)' = Line(t) /\ Line(t) \in Conn
      BY <1>4, <1>7, <1>9, <2>1 DEF Spoken
    <3>2. Taken(Line(t))' = Taken(Line(t))
      BY <1>8, <3>1 DEF Taken
    <3>. QED BY <1>2, <1>7, <2>1, <3>1, <3>2, SaysRightFrame
  <2>2. CASE t = new
    <3>1. Line(t)' = c /\ ~InHand(t)'
      BY <1>7, <2>2
    <3>2. SaidBy(Line(t))' = {} /\ ~Farewelled(Line(t))'
      BY <1>2, <1>6, <3>1 DEF SaidBy, Farewelled
    <3>3. Taken(Line(t))' = 0
      BY <1>2, <1>6, <3>1 DEF Taken
    <3>. QED BY <3>1, <3>2, <3>3, FS_EmptySet DEF SaysRight
  <2>. QED BY <2>1, <2>2
<1>10. ASSUME NEW d \in Conn, ~Served(d)', ClientOf(d)' = {} PROVE Taken(d)' = 0
  <2>1. ~Served(d)
    BY <1>1, <1>7, <1>10 DEF Served
  <2>2. ClientOf(d) = {}
    BY <1>2, <1>10 DEF ClientOf
  <2>. QED BY <1>8, <2>1, <2>2 DEF Spoken
<1>11. Spoken'
  <2>1. \A d \in Conn : ClientOf(d)' = {} => SaidBy(d)' = {} /\ log'[d] = <<>>
    BY <1>2 DEF Spoken, ClientOf, SaidBy
  <2>2. \A u \in all_clients : u \in Thread
    BY DEF Inv, TypeOK, RegistryType
  <2>3. \A u \in all_clients \ current_clients :
           pc'[u] = "broadcast" => ~Farewelled(username[u])'
    BY <1>1, <1>2, <2>2, GoneFrame
  <2>. QED BY <1>2, <1>9, <1>10, <2>1, <2>3 DEF Spoken
<1>12. Told'
  <2>1. \A u \in current_clients : u \in Thread
    BY ServingFacts
  <2>. QED BY <1>2, <1>7, <2>1 DEF Told
<1>. QED BY <1>2, <1>11, <1>12, RoomStutter
\* A client joins the room: nobody sends, and nothing was said or heard for its
\* connection before.
LEMMA AddClientRoom ==
    ASSUME Inv, OrderInv, Running, Spoken, Told, status = "run",
           NEW t \in Thread, AddClient(t)
    PROVE  Spoken' /\ Told' /\ [Room!Next]_(Room!vars)
<1>. USE DEF client, acc, trav, thr, reg, proc
<1>1. /\ pc[t] = "addclient" /\ mut = NoThread
      /\ \A u \in Thread : pc'[u] = IF u = t THEN "broadcast" ELSE pc[u]
      /\ \A u \in Thread : joinedAt'[u] = IF u = t THEN Len(history) ELSE joinedAt[u]
      /\ current_clients' = current_clients \cup {t}
      /\ all_clients' = all_clients \cup {t}
  BY DEF AddClient, Inv, TypeOK, ThreadType, RegistryType
<1>2. UNCHANGED <<client, log, backlog, fdTable, acc, fd, msg, trav,
                  connection_id, username, stat, mut, threads, proc, history>>
  BY DEF AddClient
<1>3. PICK c \in Conn :
         /\ c = ConnOf(t) /\ Live(t) /\ Serving(t) /\ Line(t) = c /\ peer[c] = "open"
         /\ username[t] = c /\ t \notin all_clients
         /\ \A u \in all_clients : username[u] # c
  BY <1>1, Coming
<1>4. /\ \A u \in all_clients : u \in Thread /\ u # t
      /\ \A u \in current_clients : u \in Thread /\ u # t
      /\ current_clients \subseteq all_clients
  BY <1>3 DEF Inv, TypeOK, RegistryType, Bookkeeping
<1>5. /\ ClientOf(c) = {} /\ ClientOf(c)' = {t}
      /\ \A d : d # c => ClientOf(d)' = ClientOf(d)
  BY <1>1, <1>2, <1>3 DEF ClientOf
<1>6. \A u \in Thread : /\ Serving(u)' <=> Serving(u)
                        /\ Line(u)' = Line(u) /\ ConnOf(u)' = ConnOf(u)
                        /\ InHand(u)' <=> InHand(u)
  BY <1>1, <1>2, <1>3 DEF Serving, Live, Joined, Line, FdOf, ConnOf, InHand
<1>7. \A s \in Thread : pc[s] # "send"
  BY <1>1, NobodySends
<1>8. \A u \in Thread : ~Pending(u) /\ ~Pending(u)'
  BY <1>1, <1>7 DEF Pending
<1>9. \A d \in Conn : /\ Taken(d)' = Taken(d) /\ SaidBy(d)' = SaidBy(d)
                      /\ Farewelled(d)' <=> Farewelled(d)
  BY <1>2 DEF Taken, SaidBy, Farewelled
<1>10. log[c] = <<>>
  BY <1>5 DEF Spoken
<1>11. ASSUME NEW u \in Thread, Serving(u)' PROVE SaysRight(u)'
  <2>1. SaysRight(u) /\ Line(u) \in Conn
    BY <1>6, <1>11, ServingFacts DEF Spoken
  <2>2. Taken(Line(u))' = Taken(Line(u))
    BY <1>6, <1>9, <2>1 DEF Taken
  <2>. QED BY <1>2, <1>6, <2>1, <2>2, SaysRightFrame
<1>12. \A u \in (all_clients \ current_clients)' :
          pc'[u] = "broadcast" => ~Farewelled(username[u])'
  BY <1>1, <1>2, <1>4 DEF Spoken, Farewelled, SaidBy
<1>13. \A d \in Conn : Served(d)' <=> Served(d)
  BY <1>1, <1>6 DEF Served
<1>14. \A d \in Conn : ClientOf(d)' = {} => d # c /\ ClientOf(d) = {}
  BY <1>5
<1>15. Spoken'
  <2>1. \A d \in Conn : ~Served(d)' /\ ClientOf(d)' = {} => Taken(d)' = 0
    BY <1>9, <1>13, <1>14 DEF Spoken
  <2>2. \A d \in Conn : ClientOf(d)' = {} => SaidBy(d)' = {} /\ log'[d] = <<>>
    BY <1>2, <1>9, <1>14 DEF Spoken
  <2>. QED BY <1>2, <1>11, <1>12, <2>1, <2>2 DEF Spoken
<1>16. Told'
  <2>. SUFFICES ASSUME NEW u \in current_clients', (peer[ConnOf(u)] = "open")'
                PROVE  joinedAt'[u] + Len(log[ConnOf(u)])' + 0 = Len(history)'
    BY <1>1, <1>4, <1>8 DEF Told
  <2>1. CASE u = t
    <3>1. joinedAt'[u] = Len(history) /\ Len(log[ConnOf(u)])' = 0
      BY <1>1, <1>2, <1>3, <1>6, <1>10, <2>1
    <3>2. Len(history) \in Nat
      BY DEF Inv, TypeOK, SocketType
    <3>. QED BY <1>2, <3>1, <3>2
  <2>2. CASE u # t
    BY <1>1, <1>2, <1>4, <1>6, <1>8, <2>2 DEF Told
  <2>. QED BY <2>1, <2>2
<1>17. Room!Quiet
  BY <1>7, QuietRoom
<1>18. PlaceOf(c) = "out" /\ PlaceOf(c)' = "in"
  BY <1>1, <1>2, <1>3, <1>5 DEF PlaceOf
<1>19. \A d \in Conn : d # c => PlaceOf(d)' = PlaceOf(d)
  <2>1. \A d \in Conn : ClientOf(d) \cap current_clients' = ClientOf(d) \cap current_clients
    BY <1>1, <1>3 DEF ClientOf
  <2>. QED BY <1>2, <1>5, <2>1 DEF PlaceOf
<1>20. Since(c)' = Len(history)
  BY <1>1, <1>5 DEF Since
<1>21. ASSUME NEW d \in Conn, d # c PROVE Since(d)' = Since(d)
  <2>1. CASE ClientOf(d) = {}
    BY <1>5, <1>21, <2>1 DEF Since
  <2>2. CASE ClientOf(d) # {}
    <3>1. PICK u \in all_clients : username[u] = d
      BY <2>2 DEF ClientOf
    <3>2. ClientOf(d) = {u} /\ ClientOf(d)' = {u}
      BY <1>5, <1>21, <3>1, TheClient
    <3>. QED BY <1>1, <1>4, <3>2 DEF Since
  <2>. QED BY <2>1, <2>2
<1>22. [d \in Conn |-> PlaceOf(d)]' = [[d \in Conn |-> PlaceOf(d)] EXCEPT ![c] = "in"]
  BY <1>18, <1>19
<1>23. [d \in Conn |-> Since(d)]' = [[d \in Conn |-> Since(d)] EXCEPT ![c] = Len(history)]
  BY <1>20, <1>21
<1>24. Room!Join(c)
  BY <1>2, <1>17, <1>18, <1>22, <1>23 DEF Room!Join
<1>. QED BY <1>15, <1>16, <1>24 DEF Room!Next
\* The room takes note that a client has gone, before its farewell.
LEMMA RemoveClientRoom ==
    ASSUME Inv, OrderInv, Running, Spoken, Told, status = "run",
           NEW t \in Thread, RemoveClient(t)
    PROVE  Spoken' /\ Told' /\ [Room!Next]_(Room!vars)
<1>. USE DEF client, acc, trav, thr, reg, proc
<1>1. /\ pc[t] = "quit" /\ t \in current_clients /\ t \in all_clients /\ mut = NoThread
      /\ current_clients' = current_clients \ {t}
      /\ \A u \in Thread : pc'[u] = IF u = t THEN "broadcast" ELSE pc[u]
      /\ \A u \in Thread : u # t => msg'[u] = msg[u]
  BY Removing DEF RemoveClient, Inv, Bookkeeping
<1>2. UNCHANGED <<client, log, backlog, acc, fd, trav, connection_id, username,
                  num_clients, all_clients, joinedAt, mut, proc, history>>
  BY RemoveClientEffect
<1>3. PICK c \in Conn :
         /\ c = ConnOf(t) /\ Serving(t) /\ Line(t) = c /\ peer[c] # "open"
         /\ username[t] = c
  BY Removing
<1>4. /\ ~Serving(t)'
      /\ \A u \in Thread : u # t => (Serving(u)' <=> Serving(u))
      /\ \A u \in Thread : Serving(u) /\ u # t =>
            ConnOf(u)' = ConnOf(u) /\ Line(u)' = Line(u)
      /\ \A u \in current_clients : u \in Thread /\ Serving(u)
  BY Removing, ServingFacts DEF Serving
<1>5. /\ \A u \in all_clients : u \in Thread
      /\ current_clients \subseteq all_clients
  BY DEF Inv, TypeOK, RegistryType, Bookkeeping
<1>6. \A s \in Thread : pc[s] # "send"
  BY <1>1, NobodySends
<1>7. \A u \in Thread : ~Pending(u) /\ ~Pending(u)'
  BY <1>1, <1>6 DEF Pending
<1>8. \A d \in Conn : /\ Taken(d)' = Taken(d) /\ SaidBy(d)' = SaidBy(d)
                      /\ Farewelled(d)' <=> Farewelled(d)
                      /\ ClientOf(d)' = ClientOf(d)
  BY <1>2 DEF Taken, SaidBy, Farewelled, ClientOf
<1>9. ASSUME NEW u \in Thread, Serving(u)' PROVE SaysRight(u)'
  <2>1. u # t /\ SaysRight(u) /\ Line(u) \in Conn /\ Line(u)' = Line(u)
    BY <1>4, <1>9, ServingFacts DEF Spoken
  <2>2. Taken(Line(u))' = Taken(Line(u))
    BY <1>8, <2>1 DEF Taken
  <2>3. (InHand(u)' <=> InHand(u)) /\ msg'[u] = msg[u]
    BY <1>1, <2>1 DEF InHand
  <2>. QED BY <1>2, <2>1, <2>2, <2>3, SaysRightFrame
<1>10. ASSUME NEW u \in (all_clients \ current_clients)', pc'[u] = "broadcast"
       PROVE  ~Farewelled(username[u])'
  <2>1. Farewelled(username[u])' <=> Farewelled(username[u])
    BY <1>2 DEF Farewelled, SaidBy
  <2>2. CASE u = t
    <3>1. SaysRight(t)
      BY <1>3 DEF Spoken
    <3>. QED BY <1>3, <2>1, <2>2, <3>1 DEF SaysRight
  <2>3. CASE u # t
    BY <1>1, <1>2, <1>5, <1>10, <2>1, <2>3 DEF Spoken
  <2>. QED BY <2>2, <2>3
<1>11. ASSUME NEW d \in Conn, ~Served(d)', ClientOf(d)' = {} PROVE Taken(d)' = 0
  <2>1. d # c /\ ClientOf(d) = {}
    BY <1>1, <1>3, <1>8, <1>11 DEF ClientOf
  <2>2. ~Served(d)
    BY <1>1, <1>3, <1>4, <1>11, <2>1 DEF Served
  <2>. QED BY <1>8, <2>1, <2>2 DEF Spoken
<1>12. Spoken'
  <2>1. \A d \in Conn : ClientOf(d)' = {} => SaidBy(d)' = {} /\ log'[d] = <<>>
    BY <1>2, <1>8 DEF Spoken
  <2>. QED BY <1>9, <1>10, <1>11, <2>1 DEF Spoken
<1>13. Told'
  <2>. SUFFICES ASSUME NEW u \in current_clients', (peer[ConnOf(u)] = "open")'
                PROVE  joinedAt'[u] + Len(log[ConnOf(u)])' + 0 = Len(history)'
    BY <1>1, <1>4, <1>7 DEF Told
  <2>. QED BY <1>1, <1>2, <1>4, <1>7 DEF Told
<1>14. Room!Quiet
  BY <1>6, QuietRoom
<1>15. PlaceOf(c) = "leaving"
  BY <1>1, <1>3, TheClient
<1>16. ClientOf(c) = {t}
  BY <1>1, <1>3, TheClient
<1>17. PlaceOf(c)' = "left"
  BY <1>1, <1>8, <1>16 DEF PlaceOf
<1>18. ASSUME NEW d \in Conn, d # c PROVE PlaceOf(d)' = PlaceOf(d)
  <2>1. t \notin ClientOf(d)
    BY <1>3, <1>18 DEF ClientOf
  <2>2. ClientOf(d) \cap current_clients' = ClientOf(d) \cap current_clients
    BY <1>1, <2>1
  <2>. QED BY <1>2, <1>8, <2>2 DEF PlaceOf
<1>19. ASSUME NEW d \in Conn PROVE Since(d)' = Since(d)
  BY <1>2, <1>8, SinceFrame
<1>20. [d \in Conn |-> PlaceOf(d)]' = [[d \in Conn |-> PlaceOf(d)] EXCEPT ![c] = "left"]
  BY <1>17, <1>18
<1>21. [d \in Conn |-> Since(d)]' = [d \in Conn |-> Since(d)]
  BY <1>19
<1>22. Room!TakeNote(c)
  BY <1>2, <1>14, <1>15, <1>20, <1>21 DEF Room!TakeNote
<1>. QED BY <1>12, <1>13, <1>22 DEF Room!Next
\* A client is sent what was said last: it had everything before it.
LEMMA SendOneRoom ==
    ASSUME Inv, OrderInv, Running, Spoken, Told, status = "run",
           NEW t \in Thread, SendOne(t)
    PROVE  Spoken' /\ Told' /\ [Room!Next]_(Room!vars)
<1>. USE DEF client, acc, trav, thr, reg, proc
<1>1. /\ pc[t] = "send"
      /\ UNCHANGED <<peer, inbox, sent, got, backlog, fdTable, acc, pc, fd, msg,
                     turn, reg, mut, threads, proc, history>>
  BY SendOneEffect
<1>2. PICK u \in todo[t] :
         /\ u \in current_clients /\ peer[ConnOf(u)] = "open"
         /\ todo' = [todo EXCEPT ![t] = @ \ {u}]
         /\ log' = [log EXCEPT ![ConnOf(u)] = Append(@, turn[t])]
  BY SendOneEffect
<1>3. PICK c \in Conn : c = ConnOf(u)
  BY <1>2, ServingFacts
<1>4. \A s \in Thread : todo'[s] = IF s = t THEN todo[t] \ {u} ELSE todo[s]
  BY <1>2 DEF Inv, TypeOK, ThreadType
<1>5. \A d \in Conn : log'[d] = IF d = c THEN Append(log[c], turn[t]) ELSE log[d]
  BY <1>2, <1>3 DEF Inv, TypeOK, SocketType
<1>6. /\ turn[t] = Len(history)
      /\ \A s \in Thread : pc[s] = "send" => s = t
  BY <1>1 DEF OrderInv, SendersHoldMutex
<1>7. /\ Pending(u) /\ ~Pending(u)'
      /\ \A v \in Thread : v # u => (Pending(v)' <=> Pending(v))
  BY <1>1, <1>2, <1>4, <1>6 DEF Pending
<1>8. /\ u \in Thread /\ u \in all_clients /\ username[u] = c /\ PlaceOf(c) = "in"
      /\ Since(c) = joinedAt[u] /\ ClientOf(c) = {u}
  <2>1. u \in all_clients /\ u \in Thread
    BY <1>2, ServingFacts DEF Joined
  <2>. QED BY <1>2, <1>3, <2>1, TheClient
<1>9. \A v \in current_clients : v \in Thread /\ (v # u => ConnOf(v) # c /\ ConnOf(v) \in Conn)
  BY <1>2, <1>3, ServingFacts
<1>10. /\ log[c] \in Seq(Nat) /\ Len(log[c]) \in Nat /\ Len(history) \in Nat
       /\ joinedAt[u] \in Nat
  BY <1>8 DEF Inv, TypeOK, SocketType, RegistryType
<1>11. joinedAt[u] + Len(log[c]) + 1 = Len(history)
  BY <1>2, <1>3, <1>7 DEF Told
<1>12. Len(log'[c]) = Len(log[c]) + 1
  <2>1. log'[c] = Append(log[c], Len(history))
    BY <1>5, <1>6
  <2>2. \A s \in Seq(Nat), n \in Nat : Len(Append(s, n)) = Len(s) + 1
    OBVIOUS
  <2>. QED BY <1>10, <2>1, <2>2
<1>13. \A v \in Thread : /\ Serving(v)' <=> Serving(v)
                         /\ Line(v)' = Line(v) /\ ConnOf(v)' = ConnOf(v)
                         /\ InHand(v)' <=> InHand(v)
  BY <1>1 DEF Serving, Live, Joined, Line, FdOf, ConnOf, InHand
<1>14. \A d \in Conn : /\ Taken(d)' = Taken(d) /\ SaidBy(d)' = SaidBy(d)
                       /\ Farewelled(d)' <=> Farewelled(d)
                       /\ ClientOf(d)' = ClientOf(d)
                       /\ Served(d)' <=> Served(d)
  BY <1>1, <1>13 DEF Taken, SaidBy, Farewelled, ClientOf, Served
<1>15. Told'
  <2>. SUFFICES ASSUME NEW v \in current_clients, (peer[ConnOf(v)] = "open")'
                PROVE  (joinedAt[v] + Len(log[ConnOf(v)]) + (IF Pending(v) THEN 1 ELSE 0)
                          = Len(history))'
    BY <1>1 DEF Told
  <2>1. CASE v = u
    <3>1. (ConnOf(v))' = c /\ ~Pending(v)'
      BY <1>3, <1>7, <1>8, <1>13, <2>1
    <3>. QED BY <1>1, <1>10, <1>11, <1>12, <2>1, <3>1
  <2>2. CASE v # u
    <3>1. Len(log[ConnOf(v)])' = Len(log[ConnOf(v)])
      BY <1>5, <1>9, <1>13, <2>2
    <3>. QED BY <1>1, <1>7, <1>9, <1>13, <2>2, <3>1 DEF Told
  <2>. QED BY <2>1, <2>2
<1>16. ASSUME NEW v \in Thread, Serving(v)' PROVE SaysRight(v)'
  <2>1. SaysRight(v) /\ Line(v) \in Conn /\ Line(v)' = Line(v) /\ (InHand(v)' <=> InHand(v))
    BY <1>13, <1>16, ServingFacts DEF Spoken
  <2>2. Taken(Line(v))' = Taken(Line(v))
    BY <1>14, <2>1 DEF Taken
  <2>. QED BY <1>1, <2>1, <2>2, SaysRightFrame
<1>17. Spoken'
  <2>1. \A v \in all_clients \ current_clients :
           pc'[v] = "broadcast" => ~Farewelled(username[v])'
    BY <1>1, GoneFrame
  <2>2. \A d \in Conn : ~Served(d)' /\ ClientOf(d)' = {} => Taken(d)' = 0
    BY <1>14 DEF Spoken
  <2>3. \A d \in Conn : ClientOf(d)' = {} => SaidBy(d)' = {} /\ log'[d] = <<>>
    BY <1>5, <1>8, <1>14 DEF Spoken
  <2>. QED BY <1>1, <1>16, <2>1, <2>2, <2>3 DEF Spoken
<1>18. Since(c) + Len(log[c]) + 1 = turn[t] /\ turn[t] <= Len(history)
  BY <1>6, <1>8, <1>10, <1>11
<1>19. log' = [log EXCEPT ![c] = Append(@, Since(c) + Len(log[c]) + 1)]
  BY <1>2, <1>3, <1>18
<1>20. \A d \in Conn : PlaceOf(d)' = PlaceOf(d)
  BY <1>1, <1>14 DEF PlaceOf
<1>21. ASSUME NEW d \in Conn PROVE Since(d)' = Since(d)
  BY <1>1, <1>14, SinceFrame
<1>22. /\ [d \in Conn |-> PlaceOf(d)]' = [d \in Conn |-> PlaceOf(d)]
       /\ [d \in Conn |-> Since(d)]' = [d \in Conn |-> Since(d)]
  BY <1>20, <1>21
<1>23. Room!Hear(c)
  BY <1>1, <1>8, <1>18, <1>19, <1>22 DEF Room!Hear, Room!Waiting, Room!Upcoming
<1>. QED BY <1>15, <1>17, <1>23 DEF Room!Next
\* The room counts what somebody has said as the server's proofs do.
LEMMA SameCount == \A S : Room!Cardinality(S) = Cardinality(S)
BY DEF Room!Cardinality, Cardinality

\* What a broadcast adds to what its sender has said.
LEMMA SaidGrows ==
    ASSUME Inv, NEW m \in Message, history' = Append(history, m)
    PROVE  /\ Len(history') = Len(history) + 1 /\ Len(history) \in Nat
           /\ \A d : d # m.from =>
                 SaidBy(d)' = SaidBy(d) /\ (Farewelled(d)' <=> Farewelled(d))
           /\ Cardinality(SaidBy(m.from)) \in Nat
           /\ Cardinality(SaidBy(m.from)') = Cardinality(SaidBy(m.from)) + 1
           /\ Farewelled(m.from)' <=> Farewelled(m.from) \/ m.n = 0
<1>1. /\ history \in Seq(Message) /\ Len(history) \in Nat
      /\ DOMAIN history = 1..Len(history)
  BY DEF Inv, TypeOK, SocketType
<1>2. /\ Len(history') = Len(history) + 1
      /\ DOMAIN history' = DOMAIN history \cup {Len(history) + 1}
      /\ history'[Len(history) + 1] = m
      /\ \A i \in DOMAIN history : history'[i] = history[i]
  BY <1>1
<1>3. \A d : d # m.from => SaidBy(d)' = SaidBy(d)
  BY <1>2 DEF SaidBy
<1>4. SaidBy(m.from)' = SaidBy(m.from) \cup {Len(history) + 1}
  BY <1>2 DEF SaidBy
<1>5. \A d : \A i \in SaidBy(d) : i \in DOMAIN history
  BY DEF SaidBy
<1>6. \A d : d # m.from => (Farewelled(d)' <=> Farewelled(d))
  BY <1>2, <1>3, <1>5 DEF Farewelled
<1>7. Farewelled(m.from)' <=> Farewelled(m.from) \/ m.n = 0
  BY <1>2, <1>4, <1>5 DEF Farewelled
<1>8. /\ IsFiniteSet(SaidBy(m.from)) /\ Cardinality(SaidBy(m.from)) \in Nat
      /\ Len(history) + 1 \notin SaidBy(m.from)
  BY SaidFinite
<1>9. Cardinality(SaidBy(m.from)') = Cardinality(SaidBy(m.from)) + 1
  BY <1>4, <1>8, FS_AddElement
<1>. QED BY <1>1, <1>2, <1>3, <1>6, <1>7, <1>8, <1>9

\* A broadcast begins: the sender says what has its next number, or is bidden
\* farewell, and everybody has heard what was said before.
LEMMA BeginBroadcastRoom ==
    ASSUME Inv, OrderInv, Running, Spoken, Told, status = "run",
           NEW t \in Thread, BeginBroadcast(t)
    PROVE  Spoken' /\ Told' /\ [Room!Next]_(Room!vars)
<1>. USE DEF client, acc, trav, thr, reg, proc
<1>1. /\ pc[t] = "broadcast" /\ mut = NoThread
      /\ \A u \in Thread : pc'[u] = IF u = t THEN "send" ELSE pc[u]
      /\ \A u \in Thread : todo'[u] = IF u = t THEN current_clients ELSE todo[u]
      /\ history' = Append(history, msg[t])
  BY DEF BeginBroadcast, Lock, Audience, Inv, TypeOK, ThreadType
<1>2. UNCHANGED <<client, log, backlog, fdTable, acc, fd, msg, reg, threads, proc>>
  BY DEF BeginBroadcast
<1>3. PICK m \in Message : m = msg[t]
  BY <1>1 DEF Inv, Stages
<1>4. PICK c \in Conn : c = m.from
  BY <1>3 DEF Message
<1>5. /\ t \in all_clients /\ username[t] = c /\ Live(t) /\ InHand(t)
      /\ m.n = 0 <=> t \notin current_clients
  BY <1>1, <1>3, <1>4 DEF Running, StagesFit, Names, Joined, Live, InHand
<1>6. /\ Len(history') = Len(history) + 1 /\ Len(history) \in Nat
      /\ \A d : d # c => SaidBy(d)' = SaidBy(d) /\ (Farewelled(d)' <=> Farewelled(d))
      /\ Cardinality(SaidBy(c)) \in Nat
      /\ Cardinality(SaidBy(c)') = Cardinality(SaidBy(c)) + 1
      /\ Farewelled(c)' <=> Farewelled(c) \/ m.n = 0
  BY <1>1, <1>3, <1>4, SaidGrows
<1>7. \A u \in Thread : /\ Serving(u)' <=> Serving(u)
                        /\ Line(u)' = Line(u) /\ ConnOf(u)' = ConnOf(u)
                        /\ u # t => (InHand(u)' <=> InHand(u))
                        /\ pc'[u] = "start" <=> pc[u] = "start"
  BY <1>1, <1>2 DEF Serving, Live, Joined, Line, FdOf, ConnOf, InHand
<1>8. ~InHand(t)'
  BY <1>1 DEF InHand
<1>9. t \in current_clients => Serving(t) /\ Line(t) = c
  BY <1>5, TheClient, ServingFacts
<1>10. ASSUME NEW u \in Thread, Serving(u), u # t PROVE Line(u) # c
  <2>1. CASE t \in current_clients
    BY <1>9, <1>10, <2>1, ServingFacts
  <2>2. CASE t \notin current_clients
    <3>1. peer[c] # "open" /\ ~Steady(t)
      BY <1>5, <2>2 DEF Running, Ends, Steady
    <3>2. Steady(u)
      BY <1>5, <1>10, <3>1 DEF Running, OneChange, Serving
    <3>. QED BY <3>1, <3>2, ServingFacts DEF Steady
  <2>. QED BY <2>1, <2>2
<1>11. \A s \in Thread : pc[s] # "send"
  BY <1>1, NobodySends
<1>12. \A u \in Thread : ~Pending(u)
  BY <1>11 DEF Pending
<1>13. \A u \in current_clients : Pending(u)' /\ u \in Thread
  BY <1>1, ServingFacts DEF Pending
<1>14. \A d \in Conn : /\ Taken(d)' = Taken(d)
                       /\ ClientOf(d)' = ClientOf(d)
                       /\ Served(d)' <=> Served(d)
  BY <1>2, <1>7 DEF Taken, ClientOf, Served
<1>15. ASSUME NEW u \in Thread, Serving(u)' PROVE SaysRight(u)'
  <2>1. SaysRight(u) /\ Line(u) \in Conn /\ Line(u)' = Line(u) /\ Serving(u)
    BY <1>7, <1>15, ServingFacts DEF Spoken
  <2>2. Taken(Line(u))' = Taken(Line(u))
    BY <1>14, <2>1 DEF Taken
  <2>3. CASE u # t
    <3>1. PICK d \in Conn : d = Line(u) /\ d # c
      BY <1>10, <2>1, <2>3
    <3>2. /\ SaidBy(Line(u)) = SaidBy(d) /\ (Farewelled(Line(u)) <=> Farewelled(d))
          /\ SaidBy(Line(u))' = SaidBy(d)' /\ (Farewelled(Line(u))' <=> Farewelled(d)')
      BY <2>1, <3>1 DEF SaidBy, Farewelled
    <3>3. SaidBy(Line(u))' = SaidBy(Line(u)) /\ (Farewelled(Line(u))' <=> Farewelled(Line(u)))
      BY <1>6, <3>1, <3>2
    <3>. QED BY <1>2, <1>7, <2>1, <2>2, <2>3, <3>3 DEF SaysRight
  <2>4. CASE u = t
    <3>1. t \in current_clients /\ m.n # 0 /\ Line(t) = c
      BY <1>5, <1>9, <2>1, <2>4 DEF Serving, Joined
    <3>2. ~Farewelled(c) /\ Taken(c) = Cardinality(SaidBy(c)) + 1
      BY <1>5, <2>1, <2>4, <3>1 DEF SaysRight
    <3>3. SaidBy(Line(u))' = SaidBy(c)' /\ (Farewelled(Line(u))' <=> Farewelled(c)')
      BY <2>1, <2>4, <3>1 DEF SaidBy, Farewelled
    <3>4. Taken(Line(u))' = Cardinality(SaidBy(Line(u))') + 0
      BY <1>6, <2>2, <2>4, <3>1, <3>2, <3>3
    <3>. QED BY <1>6, <1>8, <2>4, <3>1, <3>2, <3>3, <3>4 DEF SaysRight
  <2>. QED BY <2>3, <2>4
<1>16. ASSUME NEW u \in all_clients \ current_clients, pc'[u] = "broadcast"
       PROVE  ~Farewelled(username[u])'
  <2>1. u \in Thread
    BY DEF Inv, TypeOK, RegistryType
  <2>2. u # t /\ pc[u] = "broadcast"
    BY <1>1, <1>16, <2>1
  <2>3. username[u] # c
    BY <1>5, <2>2 DEF Running, Names
  <2>4. Farewelled(username[u])' <=> Farewelled(username[u])
    BY <1>2, <1>6, <2>3, ZenonT(30) DEF Farewelled, SaidBy
  <2>. QED BY <2>2, <2>4 DEF Spoken
<1>17. Spoken'
  <2>1. \A d \in Conn : ~Served(d)' /\ ClientOf(d)' = {} => Taken(d)' = 0
    BY <1>14 DEF Spoken
  <2>2. \A d \in Conn : ClientOf(d) = {} => d # c
    BY <1>5 DEF ClientOf
  <2>3. \A d \in Conn : ClientOf(d)' = {} => SaidBy(d)' = {} /\ log'[d] = <<>>
    BY <1>2, <1>6, <1>14, <2>2 DEF Spoken
  <2>. QED BY <1>2, <1>15, <1>16, <2>1, <2>3 DEF Spoken
<1>18. Told'
  <2>. SUFFICES ASSUME NEW u \in current_clients, (peer[ConnOf(u)] = "open")'
                PROVE  joinedAt'[u] + Len(log[ConnOf(u)])' + 1 = Len(history')
    BY <1>2, <1>13 DEF Told
  <2>1. joinedAt[u] + Len(log[ConnOf(u)]) + 0 = Len(history)
    BY <1>2, <1>7, <1>12, <1>13 DEF Told
  <2>2. joinedAt[u] \in Nat /\ Len(log[ConnOf(u)]) \in Nat
    BY <1>13, ServingFacts DEF Inv, TypeOK, RegistryType, SocketType
  <2>. QED BY <1>2, <1>6, <1>7, <1>13, <2>1, <2>2
<1>19. Room!Quiet
  BY <1>11, QuietRoom
<1>20. \A d \in Conn : PlaceOf(d)' = PlaceOf(d)
  BY <1>2, <1>14 DEF PlaceOf
<1>21. ASSUME NEW d \in Conn PROVE Since(d)' = Since(d)
  BY <1>2, <1>14, SinceFrame
<1>22. /\ [d \in Conn |-> PlaceOf(d)]' = [d \in Conn |-> PlaceOf(d)]
       /\ [d \in Conn |-> Since(d)]' = [d \in Conn |-> Since(d)]
  BY <1>20, <1>21
<1>23. m = [from |-> c, n |-> m.n]
  BY <1>4 DEF Message
<1>24. Room!SaidBy(c) = SaidBy(c) /\ (0 \in Room!Numbers(c) <=> Farewelled(c))
  BY DEF Room!SaidBy, Room!Numbers, SaidBy, Farewelled
<1>25. CASE t \notin current_clients
  <2>1. PlaceOf(c) = "left" /\ ~Farewelled(c)
    BY <1>1, <1>5, <1>25, TheClient DEF Spoken
  <2>2. Room!Farewell(c)
    BY <1>1, <1>2, <1>3, <1>5, <1>19, <1>22, <1>23, <1>24, <1>25, <2>1
    DEF Room!Farewell
  <2>. QED BY <1>17, <1>18, <2>2 DEF Room!Next
<1>26. CASE t \in current_clients
  <2>1. SaysRight(t) /\ Line(t) = c
    BY <1>9, <1>26 DEF Spoken
  <2>2. ~Farewelled(c) /\ m.n = Cardinality(SaidBy(c)) + 1
    BY <1>3, <1>5, <2>1 DEF SaysRight
  <2>3. PlaceOf(c) \in {"in", "leaving"}
    BY <1>5, <1>26, TheClient
  <2>4. history' = Append(history, [from |-> c, n |-> Cardinality(Room!SaidBy(c)) + 1])
    BY <1>1, <1>3, <1>23, <1>24, <2>2
  <2>5. [d \in Conn |-> PlaceOf(d)][c] \in {"in", "leaving"} /\ log' = log /\ status' = status
    BY <1>2, <2>3
  <2>6. Room!Say(c)
    <3>1. 0 \notin Room!Numbers(c)
      BY <1>24, <2>2
    <3>2. history' = Append(history,
                        [from |-> c, n |-> Room!Cardinality(Room!SaidBy(c)) + 1])
      BY <2>4, SameCount
    <3>. QED BY <1>19, <1>22, <2>5, <3>1, <3>2 DEF Room!Say
  <2>. QED BY <1>17, <1>18, <2>6 DEF Room!Next
<1>. QED BY <1>25, <1>26
\* A step of a client's thread.
LEMMA ThreadRoom ==
    ASSUME Inv, OrderInv, Running, Spoken, Told, status = "run",
           NEW t \in Thread, ThreadStep(t)
    PROVE  Spoken' /\ Told' /\ [Room!Next]_(Room!vars)
<1>1. CASE \/ StartThread(t) \/ ReadSize(t) \/ ReadText(t) \/ ReadEof(t)
           \/ NewClient(t) \/ Talk(t) \/ EndBroadcast(t)
  BY <1>1, StartThreadRoom, ReadSizeRoom, ReadTextRoom, ReadEofRoom, NewClientRoom,
     TalkRoom, EndBroadcastRoom
<1>2. CASE AddClient(t) \/ RemoveClient(t) \/ BeginBroadcast(t) \/ SendOne(t)
  BY <1>2, AddClientRoom, RemoveClientRoom, BeginBroadcastRoom, SendOneRoom
<1>. QED BY <1>1, <1>2, ThreadFailsNot DEF ThreadStep

\* The room is closed when the server ends.
LEMMA CloseRoom ==
    ASSUME status = "run", status' # "run", UNCHANGED <<peer, log, reg, history>>
    PROVE  Room!Close
<1>. USE DEF reg
<1>1. \A d : ClientOf(d)' = ClientOf(d)
  BY DEF ClientOf
<1>2. \A d \in Conn : PlaceOf(d)' = PlaceOf(d)
  BY <1>1 DEF PlaceOf
<1>3. ASSUME NEW d \in Conn PROVE Since(d)' = Since(d)
  BY <1>1, SinceFrame
<1>4. /\ [d \in Conn |-> PlaceOf(d)]' = [d \in Conn |-> PlaceOf(d)]
      /\ [d \in Conn |-> Since(d)]' = [d \in Conn |-> Since(d)]
  BY <1>2, <1>3
<1>. QED BY <1>4 DEF Room!Close

LEMMA RunningRoom ==
    ASSUME Peaceful, Inv, OrderInv, Running, Spoken, Told, status = "run", Next
    PROVE  /\ [Room!Next]_(Room!vars)
           /\ (Spoken' /\ Told') \/ status' # "run"
<1>1. CASE Environment
  BY <1>1, ConsoleEofRoom, ConnectRoom, SendStringRoom, QuitRoom, ReceiveStringRoom
  DEF Environment
<1>2. CASE Accept \/ CreateThread \/ CreateThreadFails \/ StartAcceptor
  BY <1>2, AcceptRoom, CreateThreadRoom, CreateThreadFailsRoom, StartAcceptorRoom
<1>3. CASE AcceptFails \/ Shutdown
  <2>1. status' # "run" /\ UNCHANGED <<peer, log, reg, history>>
    BY <1>3 DEF AcceptFails, Dies, Shutdown, client
  <2>. QED BY <2>1, CloseRoom DEF Room!Next
<1>4. ASSUME NEW t \in Thread, ThreadStep(t)
      PROVE  Spoken' /\ Told' /\ [Room!Next]_(Room!vars)
  BY <1>4, ThreadRoom
<1>. QED BY <1>1, <1>2, <1>3, <1>4, MainFailsNot DEF Next, AcceptorStep, MainStep

LEMMA RoomNext ==
    ASSUME Peaceful, Inv, OrderInv, OrderlyInv, RoomInv, [Next]_vars
    PROVE  RoomInv' /\ [Room!Next]_(Room!vars)
<1>. USE DEF client, acc, trav, thr, reg, proc
<1>1. CASE UNCHANGED vars
  <2>1. UNCHANGED Room!vars
    BY <1>1, RoomStutter DEF vars
  <2>2. ASSUME status = "run" PROVE Spoken' /\ Told'
    <3>1. Running /\ Spoken /\ Told
      BY <2>2 DEF OrderlyInv, RoomInv
    <3>2. \A c \in Conn : Taken(c)' = Taken(c)
      BY <1>1 DEF Taken, vars
    <3>. QED BY <1>1, <3>1, <3>2, StillStep DEF vars
  <2>. QED BY <1>1, <2>1, <2>2 DEF RoomInv, vars
<1>2. CASE Next /\ status = "run"
  BY <1>2, RunningRoom DEF OrderlyInv, RoomInv
<1>3. CASE Next /\ status = "freed"
  <2>1. status' \in {"freed", "down"} /\ UNCHANGED <<peer, log, reg, history>>
    BY <1>3, ClosedNext DEF OrderlyInv
  <2>2. UNCHANGED Room!vars
    BY <1>3, <2>1, RoomStutter
  <2>. QED BY <2>1, <2>2 DEF RoomInv
<1>. QED BY <1>1, <1>2, <1>3, EndedNext

LEMMA RoomInit == Init => RoomInv /\ Room!Init
<1>. SUFFICES ASSUME Init PROVE RoomInv /\ Room!Init
  OBVIOUS
<1>. USE DEF Init
<1>1. /\ \A t \in Thread : ~Serving(t)
      /\ \A c : SaidBy(c) = {} /\ ClientOf(c) = {}
  BY DEF Serving, Live, SaidBy, ClientOf
<1>2. \A c \in Conn : Taken(c) = 0
  <2>1. \A c \in Conn : Taken(c) = 0 - (0 \div 2)
    BY DEF Taken
  <2>2. 0 - (0 \div 2) = 0
    OBVIOUS
  <2>. QED BY <2>1, <2>2
<1>3. RoomInv
  BY <1>1, <1>2 DEF RoomInv, Spoken, Told
<1>4. \A c \in Conn : PlaceOf(c) = "out" /\ Since(c) = 0
  BY <1>1 DEF PlaceOf, Since
<1>. QED BY <1>3, <1>4 DEF Room!Init

\* The server is a chat room: every step of main, of the accepting thread, of the
\* clients' threads and of the clients is a step of ChatRoom or none. So each
\* client is sent exactly what is said from its joining on, once each and in the
\* order of the mutex, nothing is said while the last thing is still being sent,
\* and what a client says is broadcast in order, none lost or doubled, with one
\* farewell after it (add_client, communicate_with_client and
\* send_message_to_clients).
THEOREM ImplementsChatRoom == ASSUME Peaceful PROVE Spec => Room!Spec
<1>1. Inv /\ OrderInv /\ OrderlyInv /\ RoomInv /\ [Next]_vars
        => RoomInv' /\ [Room!Next]_(Room!vars)
  BY RoomNext
<1>. QED BY <1>1, RoomInit, Invariance, OrderInvariance, OrderlyInvariance, PTL
     DEF Spec, Room!Spec
=============================================================================
