------------------------------ MODULE MpServer ------------------------------
(***************************************************************************)
(* lab_01/client-server-af-inet/multiplex: the single-threaded epoll       *)
(* server of server.c with the clients of client.c.                        *)
(*                                                                         *)
(* Connections are numbered in the order of connect().  A letter is its    *)
(* position in the alphabet; R letters, N ring cells (both 26 in the       *)
(* source).  Semaphore waits time out after half a millisecond, during     *)
(* which nobody else can run the server's code.                            *)
(***************************************************************************)
EXTENDS Integers, FiniteSets

CONSTANTS
  Conn,        \* the connections that may be opened, 1..n
  Client,      \* the client processes
  Iter,        \* requests per client (ITER, 10000)
  Burst,       \* requests of one type in a row (5 in client.c)
  N,           \* ring cells, and initial SEM_EMPTY
  R,           \* letters of the alphabet
  MaxEvents,   \* MAX_EVENTS
  MaxSignals,  \* bound: SIGINTs sent to the server
  MaxKills,    \* bound: clients killed or interrupted
  MaxCrashes   \* bound: exits of the server for reasons outside the model

ASSUME MpAssumption ==
  /\ Conn \subseteq Nat \ {0}
  /\ N \in Nat \ {0} /\ R \in Nat \ {0} /\ MaxEvents \in Nat \ {0}
  /\ Iter \in Nat /\ Burst \in Nat \ {0}
  /\ MaxSignals \in Nat /\ MaxKills \in Nat /\ MaxCrashes \in Nat

VARIABLES
  running, mpc, fl,
  SEM_EMPTY, SEM_FULL, semset,
  buf, producer_index, consumer_index, letter,
  events,              \* what epoll_wait returned and is still to be handled
  conn_fd,             \* the connection the worker serves
  interest,            \* accepted connections epoll has yet to report
  msg_buf,             \* what each request has been found to deserve
  produced, consumed,  \* history: letters written and read by this process
  opened, accepted, base,
  sock,                \* the connections
  cpc, iter, cur,      \* the clients
  signals, kills, crashes

semVars    == <<SEM_EMPTY, SEM_FULL, semset>>
ringVars   == <<buf, producer_index, consumer_index, letter, msg_buf, produced, consumed>>
loopVars   == <<fl, events, conn_fd, interest, accepted, base>>
clientVars == <<cpc, iter, cur>>
faultVars  == <<signals, kills, crashes>>
vars == <<running, mpc, semVars, ringVars, loopVars, opened, sock, clientVars, faultVars>>

NoFd   == 0
Listen == 0     \* the listening socket among the events

\* The replies that are not letters: none yet, "OK" and "ER".
NoReply == -1
OK      == -2
ER      == -3

NewConnection(c, k) == [owner |-> c, want |-> k, sent |-> FALSE,
                        reply |-> NoReply, closed |-> FALSE]

\* The buffer is a local array of main: its first contents are garbage.
Junk == R

MpInit ==
  /\ running = TRUE /\ mpc = "loop" /\ fl = TRUE
  /\ SEM_EMPTY = N /\ SEM_FULL = 0 /\ semset = TRUE
  /\ buf = [i \in 0..(N - 1) |-> Junk]
  /\ producer_index = 0 /\ consumer_index = 0 /\ letter = 0
  /\ events = {} /\ conn_fd = NoFd /\ interest = {}
  /\ msg_buf = [k \in Conn |-> NoReply]
  /\ produced = 0 /\ consumed = 0
  /\ opened = 0 /\ accepted = 0 /\ base = 0
  /\ sock = [k \in Conn |-> NewConnection("nobody", "p")]
  /\ cpc = [c \in Client |-> "idle"]
  /\ iter = [c \in Client |-> 0] /\ cur = [c \in Client |-> NoFd]
  /\ signals = 0 /\ kills = 0 /\ crashes = 0

Cut(k)  == ~running \/ k <= base
Gone(k) == cpc[sock[k].owner] = "gone"
Want    == sock[conn_fd].want
Advanced(i, n) == IF i + 1 >= n THEN 0 ELSE i + 1

-----------------------------------------------------------------------------
(* main()                                                                  *)

Goto(from, to) == running /\ mpc = from /\ mpc' = to /\ UNCHANGED running

EndProcess == /\ running /\ running' = FALSE /\ mpc' = "down"
              /\ events' = {} /\ interest' = {}
              /\ UNCHANGED <<semVars, ringVars, fl, conn_fd, accepted, base,
                             opened, sock, clientVars>>

\* A variant, that is, a faulty form used by nothing: while (1) for while (fl).
TestNothing ==
  /\ Goto("loop", "wait")
  /\ UNCHANGED <<semVars, ringVars, loopVars, opened, sock, clientVars, faultVars>>

TestFlag ==
  /\ Goto("loop", IF fl THEN "wait" ELSE "rmid")
  /\ UNCHANGED <<semVars, ringVars, loopVars, opened, sock, clientVars, faultVars>>

\* The listening socket is level-triggered.  A connection is registered with
\* EPOLLOUT, so it is reported at once, whether or not a request has arrived.
Ready == interest \cup (IF opened > accepted THEN {Listen} ELSE {})

EpollWait ==
  /\ Goto("wait", "batch")
  /\ \E S \in SUBSET Ready :
       /\ S # {} /\ Cardinality(S) <= MaxEvents
       /\ S = Ready \/ Cardinality(S) = MaxEvents
       /\ events' = S /\ interest' = interest \ S
  /\ UNCHANGED <<semVars, ringVars, fl, conn_fd, accepted, base,
                 opened, sock, clientVars, faultVars>>

BatchDone ==
  /\ events = {} /\ Goto("batch", "loop")
  /\ UNCHANGED <<semVars, ringVars, loopVars, opened, sock, clientVars, faultVars>>

Accept ==
  /\ Listen \in events /\ Goto("batch", "batch")
  /\ events' = events \ {Listen}
  /\ accepted' = accepted + 1
  /\ interest' = interest \cup {accepted + 1}
  /\ UNCHANGED <<semVars, ringVars, fl, conn_fd, base, opened, sock, clientVars, faultVars>>

StartWorker ==
  /\ Goto("batch", "read")
  /\ \E k \in events \ {Listen} : conn_fd' = k /\ events' = events \ {k}
  /\ UNCHANGED <<semVars, ringVars, fl, interest, accepted, base, opened, sock,
                 clientVars, faultVars>>

-----------------------------------------------------------------------------
(* worker(), producer() and consumer()                                     *)

\* A variant that does not close a connection without a request.
ReadRequestLeavingOpen ==
  /\ mpc = "read" /\ (sock[conn_fd].sent \/ Gone(conn_fd))
  /\ Goto("read", IF sock[conn_fd].sent THEN "begin" ELSE "batch")
  /\ UNCHANGED <<semVars, ringVars, loopVars, opened, sock, clientVars, faultVars>>

\* read() blocks, and with it the server, until the client writes or exits.
ReadRequest ==
  /\ mpc = "read" /\ (sock[conn_fd].sent \/ Gone(conn_fd))
  /\ Goto("read", IF sock[conn_fd].sent THEN "begin" ELSE "close")
  /\ UNCHANGED <<semVars, ringVars, loopVars, opened, sock, clientVars,
                 faultVars>>

Found(a) == msg_buf' = [msg_buf EXCEPT ![conn_fd] = a]

ProduceBegin ==
  /\ Goto("begin", "end") /\ Want = "p" /\ SEM_EMPTY >= 1 /\ semset
  /\ SEM_EMPTY' = SEM_EMPTY - 1
  /\ buf' = [buf EXCEPT ![producer_index] = letter]
  /\ letter' = Advanced(letter, R)
  /\ producer_index' = Advanced(producer_index, N)
  /\ produced' = produced + 1 /\ Found(OK)
  /\ UNCHANGED <<SEM_FULL, semset, consumer_index, consumed>>

\* A variant that reads the cell after the oldest letter's.
ConsumeNextCell ==
  /\ Goto("begin", "end") /\ Want = "c" /\ SEM_FULL >= 1 /\ semset
  /\ SEM_FULL' = SEM_FULL - 1
  /\ Found(buf[Advanced(consumer_index, N)])
  /\ consumer_index' = Advanced(consumer_index, N)
  /\ consumed' = consumed + 1
  /\ UNCHANGED <<SEM_EMPTY, semset, buf, producer_index, letter, produced>>

ConsumeBegin ==
  /\ Goto("begin", "end") /\ Want = "c" /\ SEM_FULL >= 1 /\ semset
  /\ SEM_FULL' = SEM_FULL - 1
  /\ Found(buf[consumer_index])
  /\ consumer_index' = Advanced(consumer_index, N)
  /\ consumed' = consumed + 1
  /\ UNCHANGED <<SEM_EMPTY, semset, buf, producer_index, letter, produced>>

\* semtimedop() gives up with EAGAIN.
TimeOut ==
  /\ Goto("begin", "write") /\ semset
  /\ IF Want = "p" THEN SEM_EMPTY = 0 ELSE SEM_FULL = 0
  /\ Found(ER)
  /\ UNCHANGED <<semVars, buf, producer_index, consumer_index, letter, produced, consumed>>

\* A variant with the two semaphores exchanged.
SemEndSwapped ==
  /\ Goto("end", "write") /\ semset
  /\ IF Want = "c" THEN SEM_FULL' = SEM_FULL + 1 /\ UNCHANGED SEM_EMPTY
                   ELSE SEM_EMPTY' = SEM_EMPTY + 1 /\ UNCHANGED SEM_FULL
  /\ UNCHANGED <<semset, ringVars>>

SemEnd ==
  /\ Goto("end", "write") /\ semset
  /\ IF Want = "p" THEN SEM_FULL' = SEM_FULL + 1 /\ UNCHANGED SEM_EMPTY
                   ELSE SEM_EMPTY' = SEM_EMPTY + 1 /\ UNCHANGED SEM_FULL
  /\ UNCHANGED <<semset, ringVars>>

UseBuffer == (ProduceBegin \/ ConsumeBegin \/ TimeOut \/ SemEnd)
  /\ UNCHANGED <<loopVars, opened, sock, clientVars, faultVars>>

\* To a client that has exited, the write succeeds and the reply is lost.
WriteReply ==
  /\ Goto("write", "close")
  /\ sock' = [sock EXCEPT ![conn_fd].reply = msg_buf[conn_fd]]
  /\ UNCHANGED <<semVars, ringVars, loopVars, opened, clientVars, faultVars>>

CloseConnection ==
  /\ Goto("close", "batch")
  /\ sock' = [sock EXCEPT ![conn_fd].closed = TRUE]
  /\ UNCHANGED <<semVars, ringVars, loopVars, opened, clientVars, faultVars>>

RemoveSemaphores ==
  /\ Goto("rmid", "return")
  /\ semset' = FALSE
  /\ UNCHANGED <<SEM_EMPTY, SEM_FULL, ringVars, loopVars, opened, sock,
                 clientVars, faultVars>>

Return == mpc = "return" /\ EndProcess /\ UNCHANGED faultVars

Server == TestFlag \/ EpollWait \/ BatchDone \/ Accept \/ StartWorker \/ ReadRequest
            \/ UseBuffer \/ WriteReply \/ CloseConnection \/ RemoveSemaphores \/ Return

-----------------------------------------------------------------------------
(* Signals, crashes and restarts.                                          *)

\* signal() restarts accept() and read(), but epoll_wait() and semtimedop()
\* fail with EINTR when they have to wait, and that ends in exit(1) without
\* removing the semaphores.  A signal between the test of fl and epoll_wait()
\* is not noticed before the next event.
Interrupt ==
  /\ running /\ signals < MaxSignals
  /\ signals' = signals + 1
  /\ \/ /\ fl' = FALSE
        /\ UNCHANGED <<running, mpc, semVars, ringVars, events, conn_fd, interest,
                       accepted, base, opened, sock, clientVars>>
     \/ /\ \/ mpc = "wait" /\ Ready = {}
           \/ /\ mpc = "begin"
              /\ IF Want = "p" THEN SEM_EMPTY = 0 ELSE SEM_FULL = 0
        /\ EndProcess
  /\ UNCHANGED <<kills, crashes>>

\* SIGKILL, or a failing call that ends in exit(1).
Crash ==
  /\ crashes < MaxCrashes
  /\ EndProcess
  /\ crashes' = crashes + 1
  /\ UNCHANGED <<signals, kills>>

Restart ==
  /\ ~running
  /\ running' = TRUE /\ mpc' = "loop" /\ fl' = TRUE
  /\ SEM_EMPTY' = N /\ SEM_FULL' = 0 /\ semset' = TRUE
  /\ buf' = [i \in 0..(N - 1) |-> Junk]
  /\ producer_index' = 0 /\ consumer_index' = 0 /\ letter' = 0
  /\ conn_fd' = NoFd /\ produced' = 0 /\ consumed' = 0
  /\ accepted' = opened /\ base' = opened
  /\ UNCHANGED <<events, interest, msg_buf, opened, sock, clientVars, faultVars>>

-----------------------------------------------------------------------------
(* The clients: Burst consumptions, Burst productions, and so on.          *)

ClientType(i) == IF (i \div Burst) % 2 = 0 THEN "c" ELSE "p"

Connect(c) ==
  /\ running /\ cpc[c] = "idle" /\ iter[c] < Iter /\ opened + 1 \in Conn
  /\ opened' = opened + 1
  /\ sock' = [sock EXCEPT ![opened + 1] = NewConnection(c, ClientType(iter[c]))]
  /\ cur' = [cur EXCEPT ![c] = opened + 1]
  /\ iter' = [iter EXCEPT ![c] = @ + 1]
  /\ cpc' = [cpc EXCEPT ![c] = "write"]
  /\ UNCHANGED <<running, mpc, semVars, ringVars, loopVars, faultVars>>

WriteRequest(c) ==
  /\ cpc[c] = "write" /\ ~Cut(cur[c])
  /\ sock' = [sock EXCEPT ![cur[c]].sent = TRUE]
  /\ cpc' = [cpc EXCEPT ![c] = "read"]
  /\ UNCHANGED <<running, mpc, semVars, ringVars, loopVars, opened, iter, cur, faultVars>>

ClientGoto(c, to) ==
  /\ cpc' = [cpc EXCEPT ![c] = to]
  /\ UNCHANGED <<running, mpc, semVars, ringVars, loopVars, opened, sock, iter, cur>>

ReadReply(c) == /\ cpc[c] = "read" /\ sock[cur[c]].reply # NoReply
                /\ ClientGoto(c, "idle") /\ UNCHANGED faultVars

\* exit(): after the last iteration, when connect() is refused, or when the
\* connection ends without a reply.
Quit(c) ==
  /\ \/ cpc[c] = "idle" /\ (iter[c] = Iter \/ ~running)
     \/ cpc[c] = "write" /\ Cut(cur[c])
     \/ /\ cpc[c] = "read" /\ sock[cur[c]].reply = NoReply
        /\ Cut(cur[c]) \/ sock[cur[c]].closed
  /\ ClientGoto(c, "gone") /\ UNCHANGED faultVars

\* A client is killed, or stopped by SIGINT (then between two iterations).
Kill(c) == /\ cpc[c] # "gone" /\ kills < MaxKills
           /\ kills' = kills + 1
           /\ ClientGoto(c, "gone") /\ UNCHANGED <<signals, crashes>>

ClientStep(c) == Connect(c) \/ WriteRequest(c) \/ ReadReply(c) \/ Quit(c)

-----------------------------------------------------------------------------
Next == \/ Server
        \/ \E c \in Client : ClientStep(c) \/ Kill(c)
        \/ Interrupt \/ Crash \/ Restart

Spec == MpInit /\ [][Next]_vars

\* The server and every client keep running; nothing forces signals, kills,
\* crashes or restarts.
FairSpec == /\ Spec /\ WF_vars(Server)
            /\ \A c \in Client : WF_vars(ClientStep(c))

-----------------------------------------------------------------------------
(* Properties.                                                             *)

\* Every variable stays in its range.
MpTypeOK ==
  /\ running \in BOOLEAN /\ fl \in BOOLEAN /\ semset \in BOOLEAN
  /\ mpc \in {"loop", "wait", "batch", "read", "begin", "end", "write", "close",
              "rmid", "return", "down"}
  /\ SEM_EMPTY \in 0..N /\ SEM_FULL \in 0..N
  /\ buf \in [0..(N - 1) -> 0..R] /\ letter \in 0..(R - 1)
  /\ producer_index \in 0..(N - 1) /\ consumer_index \in 0..(N - 1)
  /\ events \subseteq Conn \cup {Listen} /\ interest \subseteq Conn
  /\ conn_fd \in Conn \cup {NoFd}
  /\ msg_buf \in [Conn -> {NoReply, OK, ER} \cup (0..(R - 1))]
  /\ produced \in Nat /\ consumed \in Nat
  /\ opened \in {0} \cup Conn /\ accepted \in base..opened /\ base \in Nat
  /\ sock \in [Conn -> [owner : Client \cup {"nobody"}, want : {"p", "c"},
                        sent : BOOLEAN, closed : BOOLEAN,
                        reply : {NoReply, OK, ER} \cup (0..(R - 1))]]
  /\ cpc \in [Client -> {"idle", "write", "read", "gone"}]
  /\ iter \in [Client -> 0..Iter] /\ cur \in [Client -> Conn \cup {NoFd}]
  /\ signals \in 0..MaxSignals /\ kills \in 0..MaxKills /\ crashes \in 0..MaxCrashes

\* A semaphore operation of the request of kind k is half done.
HalfDone(k) == IF mpc = "end" /\ Want = k THEN 1 ELSE 0

\* The semaphores count the ring exactly but for the half-done operation, and
\* every outstanding letter is still intact in its cell: the ring never
\* overwrites a letter nobody has consumed.
WindowIntact == running =>
  /\ SEM_FULL = produced - consumed - HalfDone("p")
  /\ SEM_EMPTY = N - (produced - consumed) - HalfDone("c")
  /\ \A j \in consumed..(produced - 1) : buf[j % N] = j % R

\* The indices and the next letter, reset by wrapping at the end of the array,
\* stay the remainders of the counts they stand for.
IndicesInStep == running =>
  /\ producer_index = produced % N /\ consumer_index = consumed % N
  /\ letter = produced % R

Serving == mpc \in {"read", "begin", "end", "write", "close"}
Waiting == interest \cup (events \ {Listen})
Answered(k) == sock[k].reply # NoReply \/ (Gone(k) /\ ~sock[k].sent)

\* A connection is handed to the worker once: from accept() to the report of
\* epoll, then to the worker, and never back.
HandledOnce ==
  /\ 1..opened \subseteq Conn /\ interest \cap events = {}
  /\ Waiting \subseteq 1..accepted /\ (Listen \in events => accepted < opened)
  /\ ~running => mpc = "down" /\ Waiting = {} /\ Listen \notin events
  /\ Serving => conn_fd \in (1..accepted) \ Waiting
  /\ \A k \in Conn : k \in Waiting \/ k > accepted =>
       msg_buf[k] = NoReply /\ ~sock[k].closed
  /\ mpc \in {"read", "begin"} => msg_buf[conn_fd] = NoReply
  /\ mpc \in {"end", "write"} => msg_buf[conn_fd] # NoReply
  /\ mpc = "close" => Answered(conn_fd)

\* A client in a request is the owner of the connection it uses.
OwnersKnown ==
  /\ \A k \in 1..opened : sock[k].owner \in Client
  /\ \A c \in Client : cpc[c] \in {"write", "read"} =>
       cur[c] \in 1..opened /\ sock[cur[c]].owner = c

\* A client whose connection is closed by a running server has its reply, or
\* was gone before it sent its request.
ClosedMeansAnswered == \A k \in Conn : sock[k].closed => Answered(k)

\* Nobody is forgotten: a connection to this life of the server that is not
\* closed is in the backlog, at epoll, in the batch or with the worker, and
\* batches are handled to the end; a connection without a request belongs to a
\* client about to write it, or gone; a client reads only after it has written.
NobodyForgotten ==
  /\ running =>
       /\ Waiting \subseteq (base + 1)..accepted /\ (Serving => conn_fd > base)
       /\ mpc \in {"loop", "wait"} => events = {}
       /\ \A k \in (base + 1)..accepted :
            sock[k].closed \/ k \in Waiting \/ (Serving /\ k = conn_fd)
  /\ \A k \in 1..opened : sock[k].sent \/ Gone(k)
       \/ (cpc[sock[k].owner] = "write" /\ cur[sock[k].owner] = k)
  /\ \A c \in Client : cpc[c] = "read" => sock[cur[c]].sent

\* Together they are inductive: what the server and its clients keep, whatever
\* clients die and whenever the server ends and starts again.
MpServerInv == MpTypeOK /\ WindowIntact /\ IndicesInStep /\ HandledOnce
                 /\ OwnersKnown /\ ClosedMeansAnswered
MpInv == MpServerInv /\ NobodyForgotten

\* What LetterService calls the answer: a refusal tells its reason.
Verdict == [k \in Conn |->
  IF msg_buf[k] # ER THEN msg_buf[k]
  ELSE IF sock[k].want = "p" THEN -3 ELSE -4]

Service == INSTANCE LetterService WITH
  Request <- Conn, Capacity <- N, made <- produced, taken <- consumed, answer <- Verdict

\* Each request takes effect atomically on a bounded queue of N letters, with
\* the right answer, "ER" included: never a refusal while the queue could serve.
ImplementsService == Service!ServiceSpec

\* Whatever clients die, time and again every connection opened so far is closed
\* or belongs to a life of the server that has ended: the server does not stop at
\* a dead client, and no connection waits for ever.
EveryConnectionClosed ==
  []<>(\A k \in 1..opened : sock[k].closed \/ Cut(k))

\* A SIGINT that does not fall between the test of fl and epoll_wait() ends the
\* process.
NoticedInterruptStops ==
  (running /\ ~fl /\ mpc # "wait") ~> ~running
=============================================================================
