------------------------------ MODULE MtServer ------------------------------
(***************************************************************************)
(* lab_01/client-server-af-inet/multithread: the whole server of server.c  *)
(* (its main thread, its workers, the SIGINT handler, exits and restarts)  *)
(* with the clients of client.c.                                           *)
(*                                                                         *)
(* Connections are numbered in the order of connect(), which is the order  *)
(* in which the listening socket hands them out.  The server never closes  *)
(* one, so an accepted connection has a descriptor of its own for as long  *)
(* as the process lives, and its number stands for the descriptor; NoFd    *)
(* stands for -1.  Each connection carries one request and causes at most  *)
(* one thread: the thread for connection k is Worker k of MtBuffer.        *)
(***************************************************************************)
EXTENDS MtBuffer, Sequences, FiniteSets

CONSTANTS
  Client,      \* the client processes
  Iter,        \* requests per client (400 in client.c)
  FdLimit,     \* connections one server process can hold (RLIMIT_NOFILE)
  MaxSignals,  \* bound: SIGINTs sent to the server
  MaxKills,    \* bound: clients killed
  MaxCrashes   \* bound: exits of the server for reasons outside the model

ASSUME ServerAssumption ==
  /\ Worker \subseteq Nat \ {0} /\ \A k \in Worker : 1..k \subseteq Worker
  /\ Iter \in Nat /\ FdLimit \in Nat
  /\ MaxSignals \in Nat /\ MaxKills \in Nat /\ MaxCrashes \in Nat

VARIABLES
  mpc,       \* where main() is
  flag,      \* cleared by sig_handler
  connfd,    \* main's variable, whose ADDRESS every worker is given
  request,   \* buffer[0] of main
  fd,        \* connfd as each worker has read it
  accepted,  \* connections accepted so far, by every life of the server
  base,      \* connections opened before this life of the server
  late,      \* history: accepts of this life after flag was cleared
  opened,    \* connections opened so far
  sock,      \* the connections
  cpc, iter, cur,          \* the clients: where, requests begun, connection
  signals, kills, crashes  \* faults used up so far

mainVars   == <<mpc, flag, connfd, request, accepted, base, late>>
netVars    == <<opened, sock>>
clientVars == <<cpc, iter, cur>>
faultVars  == <<signals, kills, crashes>>
vars == <<bufferVars, mainVars, fd, netVars, clientVars, faultVars>>

NoFd == 0

\* A connection: the client that opened it, the request it is for, whether the
\* request has been sent, the workers whose replies have arrived, whether the
\* client has read one, whether it was reset after the client had gone.
Connection == [owner : Client \cup {"nobody"}, want : Kind, sent : BOOLEAN,
               inbox : Seq(Worker), read : BOOLEAN, reset : BOOLEAN]
NewConnection(c, k) == [owner |-> c, want |-> k, sent |-> FALSE,
                        inbox |-> <<>>, read |-> FALSE, reset |-> FALSE]

\* The uninitialised buffer[0] of a fresh process: it may happen to be either
\* letter, or anything else.
Garbage == Kind \cup {"other"}

ServerInit ==
  /\ BufferInit
  /\ mpc = "loop" /\ flag = TRUE /\ connfd = NoFd /\ request \in Garbage
  /\ fd = [w \in Worker |-> NoFd]
  /\ accepted = 0 /\ base = 0 /\ late = 0
  /\ opened = 0 /\ sock = [k \in Worker |-> NewConnection("nobody", "p")]
  /\ cpc = [c \in Client |-> "idle"]
  /\ iter = [c \in Client |-> 0] /\ cur = [c \in Client |-> NoFd]
  /\ signals = 0 /\ kills = 0 /\ crashes = 0

-----------------------------------------------------------------------------
(* Connections.                                                            *)

\* The connection's server is gone.
Cut(k) == ~running \/ k <= base

\* The connection's client has exited, which closed its end.
Gone(k) == cpc[sock[k].owner] = "gone"

\* The client reads two bytes; the four of a producer's status, or a second
\* reply, stay behind.  Closing a socket with unread bytes resets it.
Unread(k) == LET box == sock[k].inbox IN
  \E i \in DOMAIN box : kind[box[i]] = "p" \/ i > 1 \/ ~sock[k].read

WasReset(k) == sock[k].reset \/ (Gone(k) /\ Unread(k))

\* The process ends: its main thread, its workers, and their variables.
EndProcess == /\ Exit
              /\ mpc' = "down"
              /\ fd' = [w \in Worker |-> NoFd]
              /\ UNCHANGED <<flag, connfd, request, accepted, base, late,
                             netVars, clientVars>>

-----------------------------------------------------------------------------
(* main()                                                                  *)

MainGoto(from, to) == running /\ mpc = from /\ mpc' = to

\* A variant: while (1) for while (flag).
TestNothing ==
  /\ MainGoto("loop", "accept")
  /\ UNCHANGED <<bufferVars, flag, connfd, request, accepted, base, late, fd,
                 netVars, clientVars, faultVars>>

TestFlag ==
  /\ MainGoto("loop", IF flag THEN "accept" ELSE "rmid")
  /\ UNCHANGED <<bufferVars, flag, connfd, request, accepted, base, late, fd,
                 netVars, clientVars, faultVars>>

Accept ==
  /\ MainGoto("accept", "recv")
  /\ accepted < opened /\ accepted - base < FdLimit
  /\ accepted' = accepted + 1
  /\ connfd' = accepted + 1
  /\ late' = IF flag THEN late ELSE late + 1
  /\ UNCHANGED <<bufferVars, flag, request, base, fd, netVars, clientVars, faultVars>>

\* EMFILE, found before accept() waits for a connection: exit(1).
AcceptFails ==
  /\ mpc = "accept" /\ accepted - base = FdLimit
  /\ EndProcess
  /\ UNCHANGED faultVars

\* A variant whose recv() does not wait.
ReceiveAtOnce ==
  /\ MainGoto("recv", "create")
  /\ request' = IF sock[connfd].sent THEN sock[connfd].want ELSE request
  /\ UNCHANGED <<bufferVars, flag, connfd, accepted, base, late, fd,
                 netVars, clientVars, faultVars>>

\* recv() leaves the old buffer when the client closed without sending, and
\* ends the loop when the connection was reset.
Receive ==
  /\ running /\ mpc = "recv"
  /\ \/ /\ sock[connfd].sent
        /\ request' = sock[connfd].want /\ mpc' = "create"
     \/ /\ ~sock[connfd].sent /\ Gone(connfd)
        /\ mpc' = IF WasReset(connfd) THEN "rmid" ELSE "create"
        /\ UNCHANGED request
  /\ UNCHANGED <<bufferVars, flag, connfd, accepted, base, late, fd,
                 netVars, clientVars, faultVars>>

\* A variant that starts the wrong function.
CreateOtherThread ==
  /\ MainGoto("create", "detach")
  /\ IF request \in Kind THEN Spawn(connfd, IF request = "p" THEN "c" ELSE "p")
                         ELSE UNCHANGED bufferVars
  /\ UNCHANGED <<flag, connfd, request, accepted, base, late, fd,
                 netVars, clientVars, faultVars>>

CreateThread ==
  /\ MainGoto("create", "detach")
  /\ IF request \in Kind THEN Spawn(connfd, request) ELSE UNCHANGED bufferVars
  /\ UNCHANGED <<flag, connfd, request, accepted, base, late, fd,
                 netVars, clientVars, faultVars>>

\* When no thread was ever created th is uninitialised and pthread_detach may
\* fail, or crash, or do nothing.
Detach ==
  \/ /\ MainGoto("detach", "loop")
     /\ UNCHANGED <<bufferVars, flag, connfd, request, accepted, base, late, fd,
                    netVars, clientVars, faultVars>>
  \/ /\ mpc = "detach" /\ request = "other"
     /\ EndProcess
     /\ UNCHANGED faultVars

RemoveSemaphores ==
  /\ MainGoto("rmid", "return")
  /\ Remove
  /\ UNCHANGED <<flag, connfd, request, accepted, base, late, fd,
                 netVars, clientVars, faultVars>>

Return == mpc = "return" /\ EndProcess /\ UNCHANGED faultVars

Main == TestFlag \/ Accept \/ AcceptFails \/ Receive \/ CreateThread
          \/ Detach \/ RemoveSemaphores \/ Return

-----------------------------------------------------------------------------
(* produce() and consume()                                                 *)

\* A variant in which main stores the descriptor only after pthread_create().
WorkerReadsOldConnfd(w) ==
  /\ ReadArg(w)
  /\ fd' = [fd EXCEPT ![w] = IF connfd > 1 THEN connfd - 1 ELSE connfd]
  /\ UNCHANGED <<mainVars, netVars, clientVars, faultVars>>

WorkerReadsConnfd(w) ==
  /\ ReadArg(w)
  /\ fd' = [fd EXCEPT ![w] = connfd]
  /\ UNCHANGED <<mainVars, netVars, clientVars, faultVars>>

WorkerWorks(w) ==
  /\ Enter(w) \/ WriteCell(w) \/ ReadCell(w) \/ Advance(w) \/ Leave(w)
  /\ UNCHANGED <<mainVars, fd, netVars, clientVars, faultVars>>

\* The reply goes to whatever connection the thread read from connfd.  To a
\* client that has exited it goes unread, and provokes a reset.
WorkerReplies(w) ==
  /\ Send(w)
  /\ LET k == fd[w] IN
       /\ k # NoFd /\ ~WasReset(k)
       /\ sock' = IF Gone(k) THEN [sock EXCEPT ![k].reset = TRUE]
                  ELSE [sock EXCEPT ![k].inbox = Append(@, w)]
  /\ UNCHANGED <<mainVars, fd, opened, clientVars, faultVars>>

\* exit(1), or SIGPIPE: send() on -1 or on a connection that was reset, or a
\* semop() after the semaphores have been removed.
WorkerFails(w) ==
  /\ \/ pc[w] = "send" /\ (fd[w] # NoFd => WasReset(fd[w]))
     \/ pc[w] \in {"enter", "leave"} /\ ~semset
  /\ EndProcess
  /\ UNCHANGED faultVars

Work(w) == WorkerReadsConnfd(w) \/ WorkerWorks(w) \/ WorkerReplies(w) \/ WorkerFails(w)

-----------------------------------------------------------------------------
(* Signals, crashes and restarts.                                          *)

\* SIGINT is delivered to any one thread.  sa_flags is 0, so that it makes a
\* blocked accept() or recv() of main, or a blocked semop() of a worker,
\* return EINTR; otherwise the handler just runs, and when main has already
\* tested flag but not yet blocked, main does not notice.
Interrupt ==
  /\ running /\ signals < MaxSignals
  /\ signals' = signals + 1
  /\ \/ /\ flag' = FALSE
        /\ \/ UNCHANGED <<mpc, connfd>>
           \/ mpc = "accept" /\ accepted = opened /\ mpc' = "loop" /\ connfd' = NoFd
           \/ /\ mpc = "recv" /\ ~sock[connfd].sent /\ ~Gone(connfd)
              /\ mpc' = "rmid" /\ UNCHANGED connfd
        /\ UNCHANGED <<bufferVars, request, accepted, base, late, fd,
                       netVars, clientVars>>
     \/ /\ \E w \in Worker : pc[w] = "enter" /\ semset /\ ~MayEnter(w)
        /\ EndProcess
  /\ UNCHANGED <<kills, crashes>>

\* SIGKILL, or a failing call that ends in exit(1) (pthread_create at the
\* thread limit, for one).
Crash ==
  /\ crashes < MaxCrashes
  /\ EndProcess
  /\ crashes' = crashes + 1
  /\ UNCHANGED <<signals, kills>>

\* The operator starts the server again: main() up to its loop.
Restart ==
  /\ Start
  /\ mpc' = "loop" /\ flag' = TRUE /\ connfd' = NoFd /\ request' \in Garbage
  /\ accepted' = opened /\ base' = opened /\ late' = 0
  /\ UNCHANGED <<fd, netVars, clientVars, faultVars>>

-----------------------------------------------------------------------------
(* The clients.  Even iterations produce, odd ones consume.                *)

Want(i) == IF i % 2 = 0 THEN "p" ELSE "c"

Connect(c) ==
  /\ running
  /\ cpc[c] = "idle" /\ iter[c] < Iter /\ opened + 1 \in Worker
  /\ opened' = opened + 1
  /\ sock' = [sock EXCEPT ![opened + 1] = NewConnection(c, Want(iter[c]))]
  /\ cur' = [cur EXCEPT ![c] = opened + 1]
  /\ iter' = [iter EXCEPT ![c] = @ + 1]
  /\ cpc' = [cpc EXCEPT ![c] = "send"]
  /\ UNCHANGED <<bufferVars, mainVars, fd, faultVars>>

\* Connection refused, or all iterations done: exit().
Quit(c) ==
  /\ cpc[c] = "idle" /\ (iter[c] = Iter \/ ~running)
  /\ cpc' = [cpc EXCEPT ![c] = "gone"]
  /\ UNCHANGED <<bufferVars, mainVars, fd, netVars, iter, cur, faultVars>>

SendRequest(c) ==
  /\ cpc[c] = "send" /\ ~Cut(cur[c])
  /\ sock' = [sock EXCEPT ![cur[c]].sent = TRUE]
  /\ cpc' = [cpc EXCEPT ![c] = "wait"]
  /\ UNCHANGED <<bufferVars, mainVars, fd, opened, iter, cur, faultVars>>

\* A variant that may give up waiting.
ReceiveReplyOrGiveUp(c) ==
  /\ cpc[c] = "wait"
  /\ sock' = [sock EXCEPT ![cur[c]].read = (sock[cur[c]].inbox # <<>>)]
  /\ cpc' = [cpc EXCEPT ![c] = "idle"]
  /\ UNCHANGED <<bufferVars, mainVars, fd, opened, iter, cur, faultVars>>

ReceiveReply(c) ==
  /\ cpc[c] = "wait" /\ sock[cur[c]].inbox # <<>>
  /\ sock' = [sock EXCEPT ![cur[c]].read = TRUE]
  /\ cpc' = [cpc EXCEPT ![c] = "idle"]
  /\ UNCHANGED <<bufferVars, mainVars, fd, opened, iter, cur, faultVars>>

\* The server died: end of file, which the client takes for a reply, or an
\* error, at which it exits.
LoseServer(c) ==
  /\ cpc[c] \in {"send", "wait"} /\ Cut(cur[c])
  /\ \E next \in {"idle", "gone"} : cpc' = [cpc EXCEPT ![c] = next]
  /\ UNCHANGED <<bufferVars, mainVars, fd, netVars, iter, cur, faultVars>>

Kill(c) ==
  /\ cpc[c] # "gone" /\ kills < MaxKills
  /\ kills' = kills + 1
  /\ cpc' = [cpc EXCEPT ![c] = "gone"]
  /\ UNCHANGED <<bufferVars, mainVars, fd, netVars, iter, cur, signals, crashes>>

ClientStep(c) == Connect(c) \/ Quit(c) \/ SendRequest(c) \/ ReceiveReply(c)
                   \/ LoseServer(c)

-----------------------------------------------------------------------------
Next ==
  \/ Main
  \/ \E w \in Worker : Work(w)
  \/ \E c \in Client : ClientStep(c) \/ Kill(c)
  \/ Interrupt \/ Crash \/ Restart

Spec == ServerInit /\ [][Next]_vars

\* The scheduler runs every thread and client that can run; the kernel serves
\* the waiters of a semaphore in turn.  Nothing forces signals, kills, crashes
\* or restarts to happen.
Fairness == /\ WF_vars(Main)
            /\ \A w \in Worker : WF_vars(Work(w))
            /\ \A c \in Client : WF_vars(ClientStep(c))

FairSpec == Spec /\ Fairness

-----------------------------------------------------------------------------
(* Properties.                                                             *)

\* Every variable of the main thread, the network and the clients stays in
\* its range.
ServerTypeOK ==
  /\ mpc \in {"loop", "accept", "recv", "create", "detach", "rmid", "return", "down"}
  /\ flag \in BOOLEAN /\ request \in Garbage
  /\ connfd \in Worker \cup {NoFd}
  /\ fd \in [Worker -> Worker \cup {NoFd}]
  /\ base \in Nat /\ accepted \in base..opened /\ opened \in {0} \cup Worker
  /\ sock \in [Worker -> Connection]
  /\ cpc \in [Client -> {"idle", "send", "wait", "gone"}]
  /\ iter \in [Client -> 0..Iter] /\ cur \in [Client -> {NoFd} \cup Worker]
  /\ late \in Nat
  /\ signals \in 0..MaxSignals /\ kills \in 0..MaxKills /\ crashes \in 0..MaxCrashes

\* Workers read connfd through a pointer while main keeps accepting, so a
\* reply can go to the wrong connection; but never to one accepted earlier
\* than the request's own.
RepliesNeverGoBack == \A k \in Worker :
  \A i \in DOMAIN sock[k].inbox : sock[k].inbox[i] <= k

\* As long as no other client has connected, a client always reads the answer
\* to the request it sent, although its worker reads connfd only after main may
\* have moved on, and whatever signals arrive.
OwnReply == \A k \in Worker :
  sock[k].read /\ (\A j \in 1..opened : sock[j].owner = sock[k].owner)
    => Head(sock[k].inbox) = k

\* The handler's flag is tested before every accept(), so after SIGINT at most
\* one more connection is served.
AtMostOneLateAccept == late <= 1

\* What makes these inductive: main's connfd is the newest connection, every
\* worker belongs to that connection or an older one, and flag is tested
\* between two accepts.
MainInv ==
  /\ ServerTypeOK
  /\ connfd \in {NoFd, accepted}
  /\ mpc \in {"recv", "create"} => connfd \in Worker
  /\ \A w \in Worker : pc[w] # "none" => w <= accepted
  /\ \A w \in Worker : fd[w] # NoFd => w <= fd[w]
  /\ RepliesNeverGoBack
  /\ flag \/ mpc = "accept" => late = 0
  /\ AtMostOneLateAccept

\* Workers and descriptors belong to the running process's own connections.
OfThisLife ==
  /\ \A w \in Worker : fd[w] <= accepted /\ (pc[w] # "none" => base < w)
  /\ mpc \in {"recv", "create"} => base < connfd

\* A client has one connection at a time, the newest of its own, and leaves it
\* when a reply has come or the server is gone.
OneAtATime ==
  /\ \A c \in Client : /\ cur[c] <= opened
                       /\ cpc[c] \in {"send", "wait"} => cur[c] # NoFd
                       /\ cpc[c] = "idle" /\ cur[c] # NoFd => Cut(cur[c]) \/ sock[cur[c]].read
  /\ \A k \in 1..opened : sock[k].owner \in Client /\ k <= cur[sock[k].owner]
  /\ \A k \in Worker : /\ sock[k].read => sock[k].inbox # <<>>
                       /\ k > opened => sock[k].inbox = <<>>

\* Hence the only client connects again after its reply has come, so that its
\* workers still find their own connection in connfd.
Answering == {"none", "start", "enter", "cell", "index", "send"}
OneClient == \A i, j \in 1..opened : sock[i].owner = sock[j].owner
InTurn == OneClient =>
  /\ \A k \in Worker : fd[k] \in {NoFd, k} /\ sock[k].inbox \in {<<>>, <<k>>}
  /\ running => \A k \in {w \in Worker : base < w} :
       /\ k < opened => sock[k].inbox # <<>>
       /\ pc[k] \in Answering => sock[k].inbox = <<>>

\* As long as no client is killed and the server is in its first life, there is
\* a letter, in the ring or on its way, for every consumer that still has to
\* take one: consumers are not left waiting for a production nobody asked for.
FirstLife == running /\ base = 0 /\ kills = 0
Threads(k, where) == {w \in Worker : kind[w] = k /\ pc[w] \in where}
LetterComing == FirstLife =>
  Cardinality(Threads("c", {"start", "enter"})) <=
    SF + Cardinality({w \in Worker : kind[w] = "p" /\ pc[w] \notin {"none", "done"}})

\* A client killed before its request makes main start the thread of the request
\* before, which nobody asked for.  Each kill costs the others one letter at most:
\* while the server is in its first life, no more consumers wait than there are
\* letters, in the ring or on their way, and kills.
OneLetterPerKill == running /\ base = 0 =>
  Cardinality(Threads("c", {"start", "enter"})) <=
    SF + Cardinality({w \in Worker : kind[w] = "p" /\ pc[w] \notin {"none", "done"}}) + kills

\* Why they hold: SF counts the productions that are over less the consumptions
\* begun; each request for a letter follows one of the same client that made one;
\* and main starts the thread asked for at each connection, in their order, but
\* where a client was killed before it asked, which it does once.
SFCounts == running =>
  SF + Cardinality(Threads("c", {"cell", "index", "send", "leave", "done"})) =
    Cardinality(Threads("p", {"done"}))
ClientsAlternate ==
  /\ \A c \in Client : iter[c] % 2 = 1 =>
       cur[c] \in 1..opened /\ sock[cur[c]].owner = c /\ sock[cur[c]].want = "p"
  /\ \A k \in 1..opened : sock[k].want = "c" => \E j \in 1..(k - 1) :
       /\ sock[j].want = "p" /\ sock[j].owner = sock[k].owner
       /\ \A i \in (j + 1)..(k - 1) : sock[i].owner # sock[k].owner
Silent == {k \in 1..opened : ~sock[k].sent /\ Gone(k)}
ThreadsAsAsked == running /\ base = 0 =>
  /\ Cardinality(Silent) <= kills
  /\ \A k \in 1..opened : ~sock[k].sent =>
       cpc[sock[k].owner] \in {"send", "gone"} /\ cur[sock[k].owner] = k
  /\ \A c \in Client : cpc[c] = "send" => cur[c] \in 1..opened /\ sock[cur[c]].owner = c
  /\ mpc = "create" => connfd \in Silent \/ request = sock[connfd].want
  /\ \A w \in Worker : pc[w] # "none" => w \in Silent \/ kind[w] = sock[w].want
  /\ \A k \in 1..accepted : pc[k] = "none" =>
       k \in Silent \/ (k = accepted /\ mpc \in {"recv", "create", "rmid", "return"})

\* The invariant of the whole server.
ServerInv == MainInv /\ OfThisLife /\ OneAtATime /\ InTurn
               /\ SFCounts /\ ClientsAlternate /\ ThreadsAsAsked

\* Every request that reaches the server's first life is carried through to
\* the end, unless the process dies first.  (A later life has lost the letters
\* of the earlier one, and a client that then goes on with a consumption waits
\* for a letter that is not there.)
RequestsFinish == \A k \in Worker :
  (opened >= k /\ base = 0) ~> (pc[k] = "done" \/ ~running)

\* A SIGINT that main notices (that finds it anywhere but in accept() or
\* recv(), or interrupts these calls) does end the process.
NoticedInterruptStops ==
  (running /\ ~flag /\ mpc \notin {"accept", "recv"}) ~> ~running
=============================================================================
