------------------------------ MODULE Datagram ------------------------------
(***************************************************************************)
(* lab_01/client-server-af-unix: a datagram server on the socket file      *)
(* ./server.s and its clients, each of which sends its pid once.  In       *)
(* with-ans/ the clients bind a file of their own, c-<pid>.s, and wait for *)
(* an answer there; in no-ans/ they do not.  One variable tells the two    *)
(* pairs of programs apart.                                                *)
(* A datagram is named by the client that sent it, and so is its answer.   *)
(***************************************************************************)
EXTENDS Integers, Sequences, Functions

CONSTANTS Client,      \* client processes; each runs its program once
          NameLen,     \* the length of each client's address: pids differ in it
          QueueLen,    \* datagrams a socket holds (net.unix.max_dgram_qlen)
          MaxSignals,  \* bound: SIGINTs sent to the server
          MaxKills,    \* bound: clients killed
          MaxLives     \* bound: starts of the server

ASSUME DatagramAssumption ==
  /\ "nobody" \notin Client
  /\ NameLen \in [Client -> Nat \ {0}] /\ QueueLen \in Nat \ {0}
  /\ MaxSignals \in Nat /\ MaxKills \in Nat /\ MaxLives \in Nat

VARIABLES
  answers,           \* with-ans/ (TRUE) or no-ans/
  file,              \* ./server.s exists
  spc, fl,           \* the server: where, and the flag SIGINT clears
  buff,              \* the datagram received last
  client_addr, addrlen,
  queue,             \* datagrams waiting at the server's socket
  cpc, inbox, got,   \* each client: where, answers at its socket, answer read
  handled,           \* history: datagrams received by servers
  astray,            \* history: an answer has been addressed to another client
  received, late,    \* history, of the running server: the datagrams received,
                     \* and how many of them after SIGINT
  signals, kills, lives

vars == <<answers, file, spc, fl, buff, client_addr, addrlen, queue, cpc, inbox, got,
          handled, astray, received, late, signals, kills, lives>>

Nobody == "nobody"   \* no client, and no valid address
Unset  == -1         \* addrlen as main() declares it: uninitialised

DgramInit ==
  /\ answers \in BOOLEAN /\ file = FALSE
  /\ spc = "out" /\ fl = TRUE /\ buff = Nobody /\ client_addr = Nobody /\ addrlen = Unset
  /\ queue = <<>>
  /\ cpc = [c \in Client |-> "new"] /\ inbox = [c \in Client |-> <<>>]
  /\ got = [c \in Client |-> Nobody]
  /\ handled = {} /\ astray = FALSE /\ received = {} /\ late = 0
  /\ signals = 0 /\ kills = 0 /\ lives = 0

clientVars  == <<answers, cpc, inbox, got, kills>>
historyVars == <<handled, astray, received, late>>
addrVars    == <<buff, client_addr, addrlen>>

-----------------------------------------------------------------------------
(* The server.                                                             *)

\* bind() fails, and changes nothing, while the file is there.
Start ==
  /\ spc = "out" /\ ~file /\ lives < MaxLives /\ lives' = lives + 1
  /\ spc' = "test" /\ file' = TRUE /\ fl' = TRUE
  /\ buff' = Nobody /\ client_addr' = Nobody /\ addrlen' = Unset
  /\ received' = {} /\ late' = 0
  /\ UNCHANGED <<queue, clientVars, handled, astray, signals>>

\* A variant, that is, a faulty form used by nothing, with if (fl).
TestOnce ==
  /\ spc = "test"
  /\ spc' = IF fl /\ received = {} THEN "recv" ELSE IF answers THEN "close" ELSE "unlink"
  /\ UNCHANGED <<file, fl, addrVars, queue, clientVars, historyVars, signals, lives>>

Test ==
  /\ spc = "test"
  /\ spc' = IF fl THEN "recv" ELSE IF answers THEN "close" ELSE "unlink"
  /\ UNCHANGED <<file, fl, addrVars, queue, clientVars, historyVars, signals, lives>>

\* A variant that takes an address only once.
SendersOnce(c) == IF client_addr = Nobody THEN {c} ELSE {client_addr}

\* Whose address a name cut short can turn into, if three bytes or more (".s", its
\* zero and digits) are missing: that of a client d, if the end of the address of
\* an earlier datagram, as long as d's, still lies there.
Spelled(c) == {d \in Client : /\ answers /\ NameLen[c] - addrlen >= 3
                              /\ \E e \in received : /\ NameLen[e] = NameLen[d]
                                                     /\ NameLen[e] - addrlen >= 3}

\* Where recvfrom() can find the sender to be: it copies addrlen bytes of the
\* address at most.  Behind a name cut short lies what lay there before, which
\* may be the rest of the name, or make no name, or the name of another client.
Senders(c) == IF addrlen >= NameLen[c] THEN {c} ELSE {c, Nobody} \cup Spelled(c)

\* A variant that declares addrlen inside the loop.
LengthUnset(c) == Unset

\* The length of this address, which limits the next call.  (The clients of
\* no-ans/ have none.)
Length(c) == IF answers THEN NameLen[c] ELSE 0

Rest == Tail(queue)

Receive ==
  /\ spc = "recv" /\ queue # <<>> /\ queue' = Rest
  /\ LET c == Head(queue) IN
       /\ buff' = c /\ handled' = handled \cup {c} /\ received' = received \cup {c}
       /\ client_addr' \in Senders(c) /\ addrlen' = Length(c)
       /\ astray' = (astray \/ client_addr' \notin {c, Nobody})
  /\ late' = IF fl THEN late ELSE late + 1
  /\ spc' = IF answers THEN "reply" ELSE "test"
  /\ UNCHANGED <<file, fl, clientVars, signals, lives>>

\* A negative addrlen is EINVAL, once the datagram has been taken: exit(1).
\* Every exit(1) leaves the file behind.
ReceiveFails ==
  /\ spc = "recv" /\ queue # <<>> /\ addrlen = Unset
  /\ spc' = "out" /\ queue' = <<>> /\ handled' = handled \cup {Head(queue)}
  /\ received' = received \cup {Head(queue)}
  /\ buff' = Head(queue)
  /\ UNCHANGED <<file, fl, client_addr, addrlen, clientVars, astray, late, signals, lives>>

\* Clients whose own socket is open, with its address, as far as answers go.
Waiting == {c \in Client : cpc[c] \in {"send", "recv"}}

Reply ==
  /\ spc = "reply" /\ client_addr \in Waiting /\ spc' = "test"
  /\ Len(inbox[client_addr]) < QueueLen
  /\ inbox' = [inbox EXCEPT ![client_addr] = Append(@, buff)]
  /\ UNCHANGED <<answers, file, fl, addrVars, queue, cpc, got, kills, historyVars,
                 signals, lives>>

\* No socket has that address any more: exit(1).
ReplyFails ==
  /\ spc = "reply" /\ client_addr \notin Waiting
  /\ spc' = "out" /\ queue' = <<>>
  /\ UNCHANGED <<file, fl, addrVars, clientVars, historyVars, signals, lives>>

\* close() in with-ans/, with whatever has not been received.
Close ==
  /\ spc = "close" /\ spc' = "unlink" /\ queue' = <<>>
  /\ UNCHANGED <<file, fl, addrVars, clientVars, historyVars, signals, lives>>

Unlink ==
  /\ spc = "unlink" /\ spc' = "out" /\ file' = FALSE /\ queue' = <<>>
  /\ UNCHANGED <<fl, addrVars, clientVars, historyVars, signals, lives>>

Server == Test \/ Receive \/ ReceiveFails \/ Reply \/ ReplyFails \/ Close \/ Unlink

\* signal() restarts recvfrom(): the handler only clears the flag.
Interrupt ==
  /\ spc # "out" /\ signals < MaxSignals /\ signals' = signals + 1 /\ fl' = FALSE
  /\ UNCHANGED <<file, spc, addrVars, queue, clientVars, historyVars, lives>>

-----------------------------------------------------------------------------
(* The clients.                                                            *)

serverVars == <<answers, file, spc, fl, addrVars, historyVars, signals, lives>>

SocketOpen == spc \in {"test", "recv", "reply", "close"} \/ (spc = "unlink" /\ ~answers)

Bind(c) ==
  /\ cpc[c] = "new" /\ cpc' = [cpc EXCEPT ![c] = "send"]
  /\ UNCHANGED <<serverVars, queue, inbox, got, kills>>

\* sendto() waits while the server's socket is full.
Send(c) ==
  /\ cpc[c] = "send" /\ SocketOpen /\ Len(queue) < QueueLen /\ queue' = Append(queue, c)
  /\ cpc' = [cpc EXCEPT ![c] = IF answers THEN "recv" ELSE "exited"]
  /\ UNCHANGED <<serverVars, inbox, got, kills>>

SendFails(c) ==
  /\ cpc[c] = "send" /\ ~SocketOpen /\ cpc' = [cpc EXCEPT ![c] = "failed"]
  /\ UNCHANGED <<serverVars, queue, inbox, got, kills>>

ReceiveAnswer(c) ==
  /\ cpc[c] = "recv" /\ inbox[c] # <<>> /\ cpc' = [cpc EXCEPT ![c] = "exited"]
  /\ got' = [got EXCEPT ![c] = Head(inbox[c])]
  /\ inbox' = [inbox EXCEPT ![c] = Tail(@)]
  /\ UNCHANGED <<serverVars, queue, kills>>

\* The client's addrlen is not set either: if it is negative, the answer is taken
\* from the socket and recvfrom() returns EINVAL, and the client exits without it.
ReceiveAnswerFails(c) ==
  /\ cpc[c] = "recv" /\ inbox[c] # <<>> /\ cpc' = [cpc EXCEPT ![c] = "dropped"]
  /\ inbox' = [inbox EXCEPT ![c] = Tail(@)]
  /\ UNCHANGED <<serverVars, queue, got, kills>>

ClientStep(c) == Bind(c) \/ Send(c) \/ SendFails(c) \/ ReceiveAnswer(c)
                   \/ ReceiveAnswerFails(c)

Kill(c) ==
  /\ cpc[c] \in {"send", "recv"} /\ kills < MaxKills /\ kills' = kills + 1
  /\ cpc' = [cpc EXCEPT ![c] = "killed"]
  /\ UNCHANGED <<serverVars, queue, inbox, got>>

Next == \/ Start \/ Server \/ Interrupt
        \/ \E c \in Client : ClientStep(c) \/ Kill(c)

Spec == DgramInit /\ [][Next]_vars

\* Server and clients are processes of their own, and each keeps running.
FairSpec == Spec /\ WF_vars(Server) /\ \A c \in Client : WF_vars(ClientStep(c))

-----------------------------------------------------------------------------
(* Properties.                                                             *)

\* Every variable stays in its range.
DgramTypeOK ==
  /\ answers \in BOOLEAN /\ file \in BOOLEAN /\ fl \in BOOLEAN
  /\ spc \in {"out", "test", "recv", "reply", "close", "unlink"}
  /\ buff \in Client \cup {Nobody} /\ client_addr \in Client \cup {Nobody}
  /\ addrlen \in {Unset, 0} \cup {NameLen[c] : c \in Client}
  /\ queue \in Seq(Client) /\ Len(queue) <= QueueLen
  /\ cpc \in [Client -> {"new", "send", "recv", "exited", "dropped", "failed", "killed"}]
  /\ inbox \in [Client -> Seq(Client)] /\ got \in [Client -> Client \cup {Nobody}]
  /\ handled \in SUBSET Client /\ received \in SUBSET handled /\ astray \in BOOLEAN /\ late \in Nat
  /\ signals \in 0..MaxSignals /\ kills \in 0..MaxKills /\ lives \in 0..MaxLives

\* A datagram is in one place at a time, and its answer reaches its sender
\* only: a client that waits is in the queue, or being served, or has exactly
\* its own answer, unless a server has ended since; and one that ends well has
\* read its own.  It ends where an answer has gone astray.
Queued(c) == \E k \in DOMAIN queue : queue[k] = c
Serving(c) == spc = "reply" /\ buff = c
OneAnswerEach ==
  /\ IsInjective(queue) /\ \A c \in handled : ~Queued(c)
  /\ ~astray => \A c \in Client :
       /\ got[c] \in {Nobody, c} /\ inbox[c] \in {<<>>, <<c>>}
       /\ inbox[c] # <<>> => ~Queued(c) /\ ~Serving(c)
       /\ answers /\ cpc[c] = "exited" => got[c] = c
       /\ cpc[c] = "recv" /\ lives = 1 /\ spc \notin {"out", "unlink"} =>
            Queued(c) \/ Serving(c) \/ inbox[c] # <<>>

\* An answer goes astray only where one server has met two addresses at least
\* three bytes longer than a third.
AstrayHasCause == astray => \E b, c, e \in handled :
  c # e /\ NameLen[c] - NameLen[b] >= 3 /\ NameLen[e] - NameLen[b] >= 3

\* The server fails, and leaves the file that stops every later server, only
\* over the first datagram of its life, over one of a client killed since, over
\* one whose address is longer than that of an earlier one of this life, or after
\* an answer has gone astray.
Stale == file /\ spc = "out"
FailureHasCause == Stale =>
  \/ received = {buff}
  \/ cpc[buff] = "killed"
  \/ \E c \in received : NameLen[c] < NameLen[buff]
  \/ astray

\* After SIGINT the server receives at most one more datagram.
OneMoreAfterInterrupt == late <= 1

\* Why it is: a client sends once, a server serves what it has received, and knows
\* no address but the sender's until an answer goes astray.
SentOnce == \A c \in Client :
  /\ Queued(c) \/ c \in handled => cpc[c] \notin {"new", "send"}
  /\ ~astray /\ inbox[c] # <<>> => c \in handled
  /\ cpc[c] = "recv" => answers /\ lives > 0
ServesReceived ==
  /\ spc = "reply" => answers /\ buff \in handled
  /\ spc = "reply" /\ ~astray => client_addr \in {buff, Nobody}
  /\ lives = 0 => spc = "out"
  /\ fl \/ spc = "recv" => late = 0

\* Answers and datagrams stay apart, whichever client is killed and however often
\* the server ends.
AnswerInv == DgramTypeOK /\ OneAnswerEach /\ SentOnce /\ ServesReceived
               /\ OneMoreAfterInterrupt

\* Why a failure has a cause: the running server's addrlen is the length of an
\* address it has met, unset before the first; it misses the sender's address
\* only over its first datagram or after a shorter one; and whoever is queued or
\* served waits at its own socket, unless killed.
ShorterBefore == \E c \in received : NameLen[c] < NameLen[buff]
LengthMet == spc # "out" =>
  /\ addrlen = Unset => received = {}
  /\ answers /\ addrlen # Unset => \E c \in received : addrlen = NameLen[c]
CutShort == spc = "reply" /\ client_addr = Nobody =>
  received = {buff} \/ ShorterBefore
AwaitsReply == answers /\ ~astray => \A c \in Client :
  Queued(c) \/ Serving(c) => cpc[c] \in {"recv", "killed"}
StaleAfterDatagram == Stale => buff \in handled

\* Only SIGINT ends a server that has not failed: until then there is one life,
\* and its socket file.
EndsOnInterrupt ==
  /\ spc # "out" => file
  /\ signals = 0 => /\ fl /\ spc \notin {"close", "unlink"} /\ lives <= 1
                    /\ spc = "out" => lives = 0 \/ file

\* Answers reach their senders, and a failure or an end has its cause.
DgramInv == AnswerInv /\ LengthMet /\ CutShort /\ AwaitsReply /\ StaleAfterDatagram
              /\ FailureHasCause /\ AstrayHasCause /\ EndsOnInterrupt

\* A client that waits ends, and by itself only when an answer has come, which
\* it reads or drops; unless a server was interrupted or failed, or an answer
\* has gone astray.
WaitingEnds == \A c \in Client : cpc[c] = "recv" ~>
  (cpc[c] \in {"exited", "dropped", "killed"} \/ signals > 0 \/ Stale \/ astray)
=============================================================================
