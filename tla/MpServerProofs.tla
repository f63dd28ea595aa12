--------------------------- MODULE MpServerProofs ---------------------------
(***************************************************************************)
(* Theorems about MpServer for every set of clients and connections, every *)
(* ring size, alphabet and number of faults: MpInv is an invariant, nobody *)
(* waits for what nobody will do, and the server implements LetterService. *)
(***************************************************************************)
EXTENDS MpServer, TLAPS

-----------------------------------------------------------------------------
(* Arithmetic of an index that wraps at n.                                 *)

LEMMA Division == ASSUME NEW n \in Nat \ {0}, NEW k \in Nat
                  PROVE  /\ k = n * (k \div n) + (k % n)
                         /\ k % n \in 0..(n - 1) /\ k \div n \in Nat
  BY SMTT(20)

LEMMA QuotientGap == ASSUME NEW n \in Nat \ {0}, NEW q \in Nat, NEW p \in Nat, q < p
                     PROVE  n * p >= n * q + n
<1>1. PICK d \in Nat : p = q + 1 + d
  <2>1. p - q - 1 \in Nat /\ p = q + 1 + (p - q - 1)
    OBVIOUS
  <2> QED BY <2>1
<1>2. n * (q + 1 + d) = n * q + n + n * d
  BY SMT
<1>3. n * d >= 0 /\ n * d \in Int /\ n * q \in Int
  BY SMT
<1> QED BY <1>1, <1>2, <1>3

LEMMA RemainderUnique == ASSUME NEW n \in Nat \ {0}, NEW q \in Nat, NEW p \in Nat,
                                NEW a \in 0..(n - 1), NEW b \in 0..(n - 1),
                                n * q + a = n * p + b
                         PROVE  a = b /\ q = p
<1>0. n * q \in Int /\ n * p \in Int
  OBVIOUS
<1>1. ~(q < p)
  <2> SUFFICES ASSUME q < p PROVE FALSE
    OBVIOUS
  <2>1. n * p >= n * q + n
    BY QuotientGap
  <2> QED BY <2>1, <1>0
<1>2. ~(p < q)
  <2> SUFFICES ASSUME p < q PROVE FALSE
    OBVIOUS
  <2>1. n * q >= n * p + n
    BY QuotientGap
  <2> QED BY <2>1, <1>0
<1>3. p = q
  BY <1>1, <1>2
<1> QED BY <1>0, <1>3

LEMMA SmallRemainder == ASSUME NEW n \in Nat \ {0}, NEW k \in Nat, k < n
                        PROVE  k % n = k
  BY SMTT(20)

LEMMA NextRemainder == ASSUME NEW n \in Nat \ {0}, NEW q \in Nat, NEW p \in Nat,
                              NEW r \in 0..(n - 1), NEW s \in 0..(n - 1),
                              n * q + r + 1 = n * p + s
                       PROVE  s = Advanced(r, n)
<1>0. n * q \in Int /\ n * p \in Int
  OBVIOUS
<1>1. CASE r + 1 < n
  <2> DEFINE a == r + 1
  <2>1. a \in 0..(n - 1) /\ n * q + a = n * p + s
    BY <1>0, <1>1
  <2> HIDE DEF a
  <2>2. a = s
    BY <2>1, RemainderUnique
  <2> QED BY <2>2, <1>1 DEF a, Advanced
<1>2. CASE r + 1 >= n
  <2> DEFINE m == q + 1
             z == 0
  <2>1. n * m = n * q + n
    BY SMT
  <2>2. m \in Nat /\ z \in 0..(n - 1) /\ n * m + z = n * p + s
    BY <1>0, <1>2, <2>1
  <2> HIDE DEF m, z
  <2>3. z = s
    BY <2>2, RemainderUnique
  <2> QED BY <2>3, <1>2 DEF z, Advanced
<1> QED BY <1>1, <1>2

\* Incrementing an index with the wrap of the code is incrementing the count
\* it stands for.
LEMMA AdvanceIsNext == ASSUME NEW n \in Nat \ {0}, NEW k \in Nat
                       PROVE  Advanced(k % n, n) = (k + 1) % n
<1> DEFINE q == k \div n
           p == (k + 1) \div n
           r == k % n
           s == (k + 1) % n
<1>1. k = n * q + r /\ r \in 0..(n - 1) /\ q \in Nat
  BY Division
<1>2. k + 1 = n * p + s /\ s \in 0..(n - 1) /\ p \in Nat
  BY k + 1 \in Nat, Division
<1> HIDE DEF q, p, r, s
<1>3. n * q \in Int /\ n * p \in Int
  BY <1>1, <1>2
<1>4. n * q + r + 1 = n * p + s
  BY <1>1, <1>2, <1>3
<1>5. s = Advanced(r, n)
  <2>1. q \in Nat /\ p \in Nat /\ r \in 0..(n - 1) /\ s \in 0..(n - 1)
    BY <1>1, <1>2
  <2> QED BY <1>4, <2>1, NextRemainder, ZenonT(30)
<1> QED BY <1>5 DEF r, s

\* Numbers less than n apart have different remainders.
LEMMA NearRemainders ==
  ASSUME NEW n \in Nat \ {0}, NEW i \in Nat, NEW j \in Nat, i < j, j < i + n
  PROVE  i % n # j % n
<1> DEFINE q == i \div n
           p == j \div n
           r == i % n
           s == j % n
<1>1. i = n * q + r /\ r \in 0..(n - 1) /\ q \in Nat
  BY Division
<1>2. j = n * p + s /\ s \in 0..(n - 1) /\ p \in Nat
  BY Division
<1> SUFFICES ASSUME r = s PROVE FALSE
  OBVIOUS
<1> HIDE DEF q, p, r, s
<1>3. n * q \in Int /\ n * p \in Int
  BY <1>1, <1>2
<1>4. q < p
  <2> SUFFICES ASSUME ~(q < p) PROVE FALSE
    OBVIOUS
  <2>1. CASE p < q
    <3>1. n * q >= n * p + n
      BY <2>1, <1>1, <1>2, QuotientGap
    <3> QED BY <3>1, <1>1, <1>2, <1>3
  <2>2. CASE p = q
    BY <2>2, <1>1, <1>2, <1>3
  <2> QED BY <2>1, <2>2, <1>1, <1>2
<1>5. n * p >= n * q + n
  BY <1>4, <1>1, <1>2, QuotientGap
<1> QED BY <1>1, <1>2, <1>3, <1>5

-----------------------------------------------------------------------------
(* The invariant holds initially.                                          *)

LEMMA InitEstablishes == MpInit => MpServerInv
<1> SUFFICES ASSUME MpInit PROVE MpServerInv
  OBVIOUS
<1> USE MpAssumption
<1>1. MpTypeOK
  BY DEF MpInit, MpTypeOK, Junk, NoReply, OK, ER, NoFd, NewConnection
<1>2. WindowIntact
  BY DEF MpInit, WindowIntact, HalfDone
<1>3. IndicesInStep
  BY SmallRemainder DEF MpInit, IndicesInStep
<1>4. HandledOnce
  BY DEF MpInit, HandledOnce, Waiting, Serving, NewConnection
<1>5. OwnersKnown /\ ClosedMeansAnswered
  BY DEF MpInit, OwnersKnown, ClosedMeansAnswered, NewConnection
<1> QED BY <1>1, <1>2, <1>3, <1>4, <1>5 DEF MpServerInv

-----------------------------------------------------------------------------
(* Every action of the server preserves it.                                *)

\* A step that leaves the ring, the semaphores and the connections alone.
LEMMA LoopPreserves ==
  ASSUME MpServerInv, TestFlag \/ EpollWait \/ BatchDone \/ Accept \/ StartWorker
  PROVE  MpServerInv'
<1> USE MpAssumption DEF Goto, semVars, ringVars, loopVars, clientVars, faultVars
<1>1. /\ MpTypeOK /\ HandledOnce /\ mpc \in {"loop", "wait", "batch"}
      /\ mpc' \in {"loop", "wait", "batch", "rmid", "read"} /\ running /\ running'
      /\ UNCHANGED <<semVars, ringVars, fl, base, opened, sock, clientVars, faultVars>>
  BY DEF TestFlag, EpollWait, BatchDone, Accept, StartWorker, MpServerInv, MpTypeOK
<1>2. WindowIntact' /\ IndicesInStep'
  BY <1>1 DEF MpServerInv, WindowIntact, IndicesInStep, HalfDone
<1>3. OwnersKnown' /\ ClosedMeansAnswered'
  BY <1>1 DEF MpServerInv, OwnersKnown, ClosedMeansAnswered, Answered, Gone
<1>4. CASE TestFlag \/ BatchDone
  <2>1. MpTypeOK'
    BY <1>1, <1>4 DEF TestFlag, BatchDone, MpTypeOK
  <2>2. HandledOnce'
    BY <1>1, <1>4 DEF TestFlag, BatchDone, HandledOnce, Waiting, Serving, MpTypeOK
  <2> QED BY <1>2, <1>3, <2>1, <2>2 DEF MpServerInv
<1>5. CASE EpollWait
  <2>1. PICK S \in SUBSET Ready : events' = S /\ interest' = interest \ S
    BY <1>5 DEF EpollWait
  <2>2. mpc' = "batch" /\ UNCHANGED <<conn_fd, accepted>>
    BY <1>5 DEF EpollWait
  <2>3. MpTypeOK'
    BY <1>1, <2>1, <2>2 DEF MpTypeOK, Ready
  <2>4. HandledOnce'
    BY <1>1, <2>1, <2>2 DEF HandledOnce, Waiting, Serving, Ready, Listen, MpTypeOK
  <2> QED BY <1>2, <1>3, <2>3, <2>4 DEF MpServerInv
<1>6. CASE Accept
  <2>1. accepted + 1 \in Conn /\ accepted + 1 <= opened
    BY <1>1, <1>6 DEF Accept, HandledOnce, MpTypeOK
  <2>2. MpTypeOK'
    <3>1. accepted' \in base'..opened' /\ mpc' = "batch"
      BY <1>1, <1>6, <2>1 DEF Accept, MpTypeOK
    <3>2. events' \subseteq Conn \cup {Listen} /\ interest' \subseteq Conn
      BY <1>1, <1>6, <2>1 DEF Accept, MpTypeOK
    <3>3. UNCHANGED conn_fd
      BY <1>6 DEF Accept
    <3> QED BY <1>1, <3>1, <3>2, <3>3 DEF MpTypeOK
  <2>3. HandledOnce'
    <3>1. /\ Waiting' = Waiting \cup {accepted + 1} /\ Listen \notin events' /\ mpc' = "batch"
          /\ interest' = interest \cup {accepted + 1} /\ events' = events \ {Listen}
          /\ accepted' = accepted + 1 /\ accepted \in Nat
      BY <1>6, <1>1, <2>1 DEF Accept, Waiting, Goto, MpTypeOK
    <3>2. /\ accepted + 1 \notin events /\ accepted + 1 # Listen
          /\ msg_buf[accepted + 1] = NoReply /\ ~sock[accepted + 1].closed
      BY <1>1, <2>1, <3>1 DEF HandledOnce, Waiting, Listen, MpTypeOK
    <3>3. Waiting' \subseteq 1..accepted' /\ interest' \cap events' = {}
      <4>1. Waiting \subseteq 1..accepted /\ interest \cap events = {}
        BY <1>1 DEF HandledOnce
      <4>2. 1..accepted \cup {accepted + 1} \subseteq 1..(accepted + 1)
        BY <3>1
      <4>3. Waiting' \subseteq 1..accepted'
        BY <3>1, <4>1, <4>2
      <4> QED BY <3>1, <3>2, <4>1, <4>3, Zenon
    <3>4. \A k \in Conn : k > accepted' => k > accepted
      BY <2>1, <3>1
    <3> QED BY <1>1, <1>6, <3>1, <3>2, <3>3, <3>4 DEF HandledOnce, Serving, Accept
  <2> QED BY <1>2, <1>3, <2>2, <2>3 DEF MpServerInv
<1>7. CASE StartWorker
  <2>1. PICK k \in events \ {Listen} : conn_fd' = k /\ events' = events \ {k}
    BY <1>7 DEF StartWorker
  <2>2. mpc' = "read" /\ UNCHANGED <<interest, accepted>>
    BY <1>7 DEF StartWorker
  <2>3. MpTypeOK'
    BY <1>1, <2>1, <2>2 DEF MpTypeOK
  <2>4. HandledOnce'
    BY <1>1, <2>1, <2>2 DEF HandledOnce, Waiting, Serving, Listen, MpTypeOK
  <2> QED BY <1>2, <1>3, <2>3, <2>4 DEF MpServerInv
<1> QED BY <1>4, <1>5, <1>6, <1>7

LEMMA WorkerPreserves ==
  ASSUME MpServerInv, ReadRequest \/ WriteReply \/ CloseConnection \/ RemoveSemaphores
  PROVE  MpServerInv'
<1> USE MpAssumption DEF Goto, semVars, ringVars, loopVars, clientVars, faultVars
<1>1. /\ MpTypeOK /\ HandledOnce /\ running /\ running' /\ mpc # "end" /\ mpc' # "end"
      /\ UNCHANGED <<SEM_EMPTY, SEM_FULL, ringVars, loopVars, opened, clientVars, faultVars>>
  BY DEF ReadRequest, WriteReply, CloseConnection, RemoveSemaphores, MpServerInv
<1>2. WindowIntact' /\ IndicesInStep'
  BY <1>1 DEF MpServerInv, WindowIntact, IndicesInStep, HalfDone
<1>3. CASE ReadRequest \/ RemoveSemaphores
  <2>1. MpTypeOK'
    BY <1>1, <1>3 DEF ReadRequest, RemoveSemaphores, MpTypeOK
  <2>2. HandledOnce'
    BY <1>1, <1>3 DEF ReadRequest, RemoveSemaphores, HandledOnce, Waiting, Serving,
       Answered, Gone, MpTypeOK
  <2>3. OwnersKnown' /\ ClosedMeansAnswered'
    BY <1>1, <1>3 DEF ReadRequest, RemoveSemaphores, MpServerInv, OwnersKnown,
       ClosedMeansAnswered, Answered, Gone
  <2> QED BY <1>2, <2>1, <2>2, <2>3 DEF MpServerInv
<1>4. CASE WriteReply \/ CloseConnection
  <2>0. /\ mpc \in {"write", "close"}
        /\ mpc' = IF mpc = "write" THEN "close" ELSE "batch"
        /\ semset' = semset
        /\ mpc = "write" => sock' = [sock EXCEPT ![conn_fd].reply = msg_buf[conn_fd]]
        /\ mpc = "close" => sock' = [sock EXCEPT ![conn_fd].closed = TRUE]
    <3>1. CASE WriteReply
      BY <3>1 DEF WriteReply
    <3>2. CASE CloseConnection
      BY <3>2 DEF CloseConnection
    <3> QED BY <1>4, <3>1, <3>2
  <2>1. /\ conn_fd \in Conn /\ conn_fd \notin Waiting /\ conn_fd <= accepted
        /\ \A k \in Conn : k \in Waiting \/ k > accepted => k # conn_fd
    <3>1. accepted \in Nat /\ opened \in Nat /\ accepted <= opened
      BY <1>1 DEF MpTypeOK
    <3>2. conn_fd \in 1..accepted /\ conn_fd \notin Waiting /\ 1..opened \subseteq Conn
      BY <1>1, <2>0 DEF HandledOnce, Serving
    <3> QED BY <3>1, <3>2
  <2>2. MpTypeOK'
    <3> DEFINE Reply == {NoReply, OK, ER} \cup (0..(R - 1))
               Socket == [owner : Client \cup {"nobody"}, want : {"p", "c"},
                          sent : BOOLEAN, closed : BOOLEAN, reply : Reply]
    <3>1. sock \in [Conn -> Socket] /\ msg_buf \in [Conn -> Reply]
      BY <1>1 DEF MpTypeOK
    <3> HIDE DEF Reply
    <3>2. sock' \in [Conn -> Socket]
      <4>1. CASE mpc = "write"
        BY <2>0, <2>1, <3>1, <4>1
      <4>2. CASE mpc = "close"
        <5>1. [sock[conn_fd] EXCEPT !.closed = TRUE] \in Socket
          BY <2>1, <3>1
        <5>2. sock' = [sock EXCEPT ![conn_fd] = [sock[conn_fd] EXCEPT !.closed = TRUE]]
          BY <2>0, <4>2
        <5> HIDE DEF Socket
        <5> QED BY <2>1, <3>1, <5>1, <5>2
      <4> QED BY <2>0, <4>1, <4>2
    <3>3. mpc' \in {"close", "batch"}
      BY <2>0
    <3> QED BY <1>1, <2>0, <3>2, <3>3 DEF MpTypeOK, Reply
  <2>3. /\ \A k \in Conn : k # conn_fd => sock'[k] = sock[k]
        /\ \A k \in Conn : /\ sock'[k].owner = sock[k].owner
                            /\ sock'[k].sent = sock[k].sent
        /\ mpc = "write" => \A k \in Conn : sock'[k].closed = sock[k].closed
        /\ mpc = "write" => sock'[conn_fd].reply # NoReply
        /\ mpc = "close" => \A k \in Conn : sock'[k].reply = sock[k].reply
    <3>1. sock \in [Conn -> [owner : Client \cup {"nobody"}, want : {"p", "c"},
                             sent : BOOLEAN, closed : BOOLEAN,
                             reply : {NoReply, OK, ER} \cup (0..(R - 1))]]
      BY <1>1 DEF MpTypeOK
    <3>2. CASE mpc = "write"
      <4>1. msg_buf[conn_fd] # NoReply
        BY <1>1, <3>2 DEF HandledOnce
      <4> QED BY <2>0, <2>1, <3>1, <3>2, <4>1
    <3>3. CASE mpc = "close"
      BY <2>0, <2>1, <3>1, <3>3
    <3> QED BY <2>0, <3>2, <3>3
  <2>4. \A k \in Conn : Answered(k) => Answered(k)'
    BY <1>1, <2>0, <2>1, <2>3 DEF Answered, Gone
  <2>5. HandledOnce'
    <3>1. Waiting' = Waiting /\ (Serving' => Serving)
      BY <1>1, <2>0 DEF Waiting, Serving
    <3>2. \A k \in Conn : k \in Waiting \/ k > accepted =>
            msg_buf[k] = NoReply /\ ~sock'[k].closed
      BY <1>1, <2>1, <2>3 DEF HandledOnce
    <3>3. mpc' = "close" => Answered(conn_fd)'
      BY <1>1, <2>0, <2>1, <2>3 DEF Answered
    <3> QED BY <1>1, <2>0, <3>1, <3>2, <3>3 DEF HandledOnce
  <2>6. OwnersKnown'
    BY <1>1, <2>3 DEF MpServerInv, OwnersKnown, HandledOnce, MpTypeOK
  <2>7. ClosedMeansAnswered'
    BY <1>1, <2>0, <2>1, <2>3, <2>4 DEF MpServerInv, ClosedMeansAnswered, HandledOnce
  <2> QED BY <1>2, <2>2, <2>5, <2>6, <2>7 DEF MpServerInv
<1> QED BY <1>3, <1>4

\* What a request finds in the ring before its operation.
LEMMA RingBefore ==
  ASSUME MpServerInv, running, mpc = "begin"
  PROVE  /\ MpTypeOK /\ produced \in Nat /\ consumed \in Nat
         /\ SEM_FULL = produced - consumed /\ SEM_EMPTY = N - SEM_FULL
         /\ consumed <= produced /\ produced <= consumed + N
         /\ producer_index = produced % N /\ consumer_index = consumed % N
         /\ letter = produced % R
         /\ conn_fd \in Conn /\ conn_fd <= accepted /\ conn_fd \notin Waiting
         /\ msg_buf[conn_fd] = NoReply
         /\ SEM_FULL >= 1 => /\ buf[consumer_index] = consumed % R
                            /\ consumed % R \in 0..(R - 1)
<1>1. MpTypeOK /\ WindowIntact /\ IndicesInStep /\ HandledOnce
  BY DEF MpServerInv
<1>2. /\ SEM_FULL = produced - consumed /\ SEM_EMPTY = N - SEM_FULL
      /\ consumed <= produced /\ produced <= consumed + N
  BY <1>1, MpAssumption DEF WindowIntact, HalfDone, MpTypeOK
<1>3. SEM_FULL >= 1 => buf[consumed % N] = consumed % R
  <2>1. SEM_FULL >= 1 => consumed \in consumed..(produced - 1)
    BY <1>1, <1>2 DEF MpTypeOK
  <2> QED BY <2>1, <1>1 DEF WindowIntact
<1>4. consumed % R \in 0..(R - 1)
  BY <1>1, Division, MpAssumption DEF MpTypeOK
<1>5. produced \in Nat /\ consumed \in Nat /\ opened \in Nat /\ accepted \in 0..opened
  BY <1>1, MpAssumption DEF MpTypeOK
<1>6. producer_index = produced % N /\ consumer_index = consumed % N /\ letter = produced % R
  BY <1>1 DEF IndicesInStep
<1>7. conn_fd \in (1..accepted) \ Waiting /\ msg_buf[conn_fd] = NoReply /\ 1..opened \subseteq Conn
  BY <1>1 DEF HandledOnce, Serving
<1>8. conn_fd \in Conn /\ conn_fd <= accepted /\ conn_fd \notin Waiting
  BY <1>5, <1>7
<1> QED BY <1>1, <1>2, <1>3, <1>4, <1>5, <1>6, <1>7, <1>8

\* The part of the invariant that does not depend on what the request does
\* to the ring.
LEMMA AnswerFound ==
  ASSUME MpServerInv, running, running', mpc = "begin", mpc' \in {"end", "write"},
         NEW a, a # NoReply, Found(a),
         UNCHANGED <<semset, loopVars, opened, sock, clientVars, faultVars>>
  PROVE  HandledOnce' /\ OwnersKnown' /\ ClosedMeansAnswered'
<1> USE DEF loopVars, clientVars, faultVars
<1>1. MpTypeOK /\ HandledOnce
  BY DEF MpServerInv
<1>2. conn_fd \in Conn /\ conn_fd <= accepted /\ conn_fd \notin Waiting
  BY RingBefore
<1>3. msg_buf'[conn_fd] = a /\ \A k \in Conn : k # conn_fd => msg_buf'[k] = msg_buf[k]
  BY <1>1, <1>2 DEF Found, MpTypeOK
<1>4. HandledOnce'
  BY <1>1, <1>2, <1>3, MpAssumption DEF HandledOnce, Waiting, Serving, MpTypeOK
<1>5. OwnersKnown' /\ ClosedMeansAnswered'
  BY <1>1 DEF MpServerInv, OwnersKnown, ClosedMeansAnswered, Answered, Gone
<1> QED BY <1>4, <1>5

LEMMA ProducePreserves ==
  ASSUME MpServerInv, ProduceBegin,
         UNCHANGED <<loopVars, opened, sock, clientVars, faultVars>>
  PROVE  MpServerInv'
<1> USE MpAssumption
<1>0. /\ Found(OK) /\ OK # NoReply /\ running /\ running'
      /\ mpc = "begin" /\ mpc' = "end" /\ Want = "p" /\ SEM_EMPTY >= 1
      /\ SEM_EMPTY' = SEM_EMPTY - 1 /\ produced' = produced + 1
      /\ buf' = [buf EXCEPT ![producer_index] = letter]
      /\ letter' = Advanced(letter, R) /\ producer_index' = Advanced(producer_index, N)
      /\ UNCHANGED <<SEM_FULL, semset, consumer_index, consumed>>
      /\ UNCHANGED <<fl, events, conn_fd, interest, accepted, base, opened, sock>>
      /\ UNCHANGED <<cpc, iter, cur, signals, kills, crashes>>
  BY DEF ProduceBegin, Goto, loopVars, clientVars, faultVars, OK, NoReply
<1>1. HandledOnce' /\ OwnersKnown' /\ ClosedMeansAnswered'
  BY <1>0, AnswerFound
<1>2. /\ MpTypeOK /\ SEM_FULL = produced - consumed /\ SEM_EMPTY = N - SEM_FULL
      /\ consumed <= produced /\ produced < consumed + N
      /\ producer_index = produced % N /\ letter = produced % R
      /\ consumer_index = consumed % N /\ conn_fd \in Conn
      /\ produced \in Nat /\ consumed \in Nat
      /\ buf \in [0..(N - 1) -> 0..R] /\ letter \in 0..(R - 1)
      /\ producer_index \in 0..(N - 1)
  <2>1. /\ MpTypeOK /\ SEM_FULL = produced - consumed /\ SEM_EMPTY = N - SEM_FULL
        /\ consumed <= produced /\ produced <= consumed + N
        /\ producer_index = produced % N /\ letter = produced % R
        /\ consumer_index = consumed % N /\ conn_fd \in Conn
        /\ produced \in Nat /\ consumed \in Nat
    BY <1>0, RingBefore
  <2>2. /\ buf \in [0..(N - 1) -> 0..R] /\ letter \in 0..(R - 1)
        /\ producer_index \in 0..(N - 1)
    BY <2>1 DEF MpTypeOK
  <2> QED BY <1>0, <2>1, <2>2
<1>3. Advanced(letter, R) = (produced + 1) % R
  BY <1>2, AdvanceIsNext
<1>4. Advanced(producer_index, N) = (produced + 1) % N
  BY <1>2, AdvanceIsNext
<1>5. MpTypeOK'
  <2>1. Advanced(letter, R) \in 0..(R - 1) /\ Advanced(producer_index, N) \in 0..(N - 1)
    BY <1>2 DEF Advanced
  <2>2. msg_buf' \in [Conn -> {NoReply, OK, ER} \cup (0..(R - 1))]
    BY <1>0, <1>2 DEF MpTypeOK, Found
  <2>3. buf' \in [0..(N - 1) -> 0..R]
    BY <1>0, <1>2
  <2>4. SEM_EMPTY' \in 0..N
    BY <1>0, <1>2
  <2>5. letter' \in 0..(R - 1) /\ producer_index' \in 0..(N - 1) /\ produced' \in Nat
    BY <1>0, <1>2, <2>1
  <2>6. MpTypeOK
    BY <1>2
  <2> HIDE MpAssumption
  <2> QED BY <1>0, <2>2, <2>3, <2>4, <2>5, <2>6 DEF MpTypeOK
<1>6. IndicesInStep'
  BY <1>0, <1>2, <1>3, <1>4 DEF IndicesInStep
<1>7. WindowIntact'
  <2>1. HalfDone("p")' = 1 /\ HalfDone("c")' = 0
    BY <1>0 DEF HalfDone, Want
  <2>2. /\ SEM_FULL' = produced' - consumed' - HalfDone("p")'
        /\ SEM_EMPTY' = N - (produced' - consumed') - HalfDone("c")'
    BY <2>1, <1>0, <1>2
  <2>3. ASSUME NEW j \in consumed..produced PROVE buf'[j % N] = j % R
    <3>1. j \in Nat /\ j % N \in 0..(N - 1)
      <4>1. j \in Nat
        BY <1>2
      <4> QED BY <4>1, Division
    <3>2. CASE j = produced
      BY <3>1, <3>2, <1>0, <1>2
    <3>3. CASE j # produced
      <4>1. j \in consumed..(produced - 1) /\ j < produced /\ produced < j + N
        BY <3>3, <1>2
      <4>2. j % N # produced % N
        BY <3>1, <4>1, <1>2, NearRemainders
      <4>3. buf[j % N] = j % R
        BY <4>1, <1>0 DEF MpServerInv, WindowIntact
      <4> QED BY <3>1, <4>2, <4>3, <1>0, <1>2
    <3> QED BY <3>2, <3>3
  <2>4. consumed'..(produced' - 1) = consumed..produced
    BY <1>0, <1>2
  <2> QED BY <2>2, <2>3, <2>4 DEF WindowIntact
<1> QED BY <1>1, <1>5, <1>6, <1>7 DEF MpServerInv

LEMMA ConsumePreserves ==
  ASSUME MpServerInv, ConsumeBegin,
         UNCHANGED <<loopVars, opened, sock, clientVars, faultVars>>
  PROVE  MpServerInv'
<1> USE MpAssumption
<1>0. /\ Found(buf[consumer_index]) /\ running /\ running'
      /\ mpc = "begin" /\ mpc' = "end" /\ Want = "c" /\ SEM_FULL >= 1
      /\ SEM_FULL' = SEM_FULL - 1 /\ consumed' = consumed + 1
      /\ consumer_index' = Advanced(consumer_index, N)
      /\ UNCHANGED <<SEM_EMPTY, semset, buf, producer_index, letter, produced>>
      /\ UNCHANGED <<fl, events, conn_fd, interest, accepted, base, opened, sock>>
      /\ UNCHANGED <<cpc, iter, cur, signals, kills, crashes>>
  BY DEF ConsumeBegin, Goto, loopVars, clientVars, faultVars
<1>1. /\ MpTypeOK /\ SEM_FULL = produced - consumed /\ SEM_EMPTY = N - SEM_FULL
      /\ consumed <= produced /\ produced <= consumed + N
      /\ producer_index = produced % N /\ letter = produced % R
      /\ consumer_index = consumed % N /\ conn_fd \in Conn
      /\ produced \in Nat /\ consumed \in Nat
      /\ buf[consumer_index] = consumed % R /\ consumed % R \in 0..(R - 1)
  BY <1>0, RingBefore
<1>2. HandledOnce' /\ OwnersKnown' /\ ClosedMeansAnswered'
  <2>1. buf[consumer_index] # NoReply
    BY <1>1 DEF NoReply
  <2> QED BY <2>1, <1>0, AnswerFound DEF loopVars, clientVars, faultVars
<1>3. Advanced(consumer_index, N) = (consumed + 1) % N
  BY <1>1, AdvanceIsNext
<1>4. MpTypeOK'
  <2>1. Advanced(consumer_index, N) \in 0..(N - 1) /\ SEM_FULL' \in 0..N
    BY <1>0, <1>1 DEF Advanced, MpTypeOK
  <2>2. msg_buf' \in [Conn -> {NoReply, OK, ER} \cup (0..(R - 1))]
    BY <1>0, <1>1 DEF MpTypeOK, Found
  <2>3. consumer_index' \in 0..(N - 1) /\ consumed' \in Nat
    BY <1>0, <1>1, <2>1
  <2>4. MpTypeOK
    BY <1>1
  <2> HIDE MpAssumption
  <2> QED BY <1>0, <2>1, <2>2, <2>3, <2>4 DEF MpTypeOK
<1>5. IndicesInStep'
  BY <1>0, <1>1, <1>3 DEF IndicesInStep
<1>6. WindowIntact'
  <2>1. HalfDone("p")' = 0 /\ HalfDone("c")' = 1
    BY <1>0 DEF HalfDone, Want
  <2>2. /\ SEM_FULL' = produced' - consumed' - HalfDone("p")'
        /\ SEM_EMPTY' = N - (produced' - consumed') - HalfDone("c")'
    BY <2>1, <1>0, <1>1
  <2>3. \A j \in consumed'..(produced' - 1) : buf'[j % N] = j % R
    <3>1. consumed'..(produced' - 1) \subseteq consumed..(produced - 1)
      BY <1>0, <1>1
    <3> QED BY <3>1, <1>0 DEF MpServerInv, WindowIntact
  <2> QED BY <2>2, <2>3 DEF WindowIntact
<1> QED BY <1>2, <1>4, <1>5, <1>6 DEF MpServerInv

LEMMA BufferPreserves == ASSUME MpServerInv, UseBuffer
                         PROVE  MpServerInv'
<1> USE MpAssumption DEF Goto, loopVars, clientVars, faultVars
<1>1. CASE ProduceBegin \/ ConsumeBegin
  BY <1>1, ProducePreserves, ConsumePreserves DEF UseBuffer
<1>2. CASE TimeOut
  <2>1. /\ running /\ running' /\ mpc = "begin" /\ mpc' = "write"
        /\ Found(ER) /\ ER # NoReply
        /\ UNCHANGED <<semset, loopVars, opened, sock, clientVars, faultVars>>
    BY <1>2 DEF TimeOut, UseBuffer, semVars, ER, NoReply
  <2>2. HandledOnce' /\ OwnersKnown' /\ ClosedMeansAnswered'
    BY <2>1, AnswerFound
  <2>3. UNCHANGED <<semVars, buf, producer_index, consumer_index, letter, produced, consumed>>
    BY <1>2 DEF TimeOut, UseBuffer, semVars, Found
  <2>4. MpTypeOK'
    <3>1. MpTypeOK /\ msg_buf' = [msg_buf EXCEPT ![conn_fd] = ER]
      BY <1>2 DEF MpServerInv, MpTypeOK, TimeOut, UseBuffer, Found
    <3>2. msg_buf' \in [Conn -> {NoReply, OK, ER} \cup (0..(R - 1))]
      BY <3>1 DEF MpTypeOK
    <3> QED BY <2>1, <2>3, <3>1, <3>2 DEF semVars, MpTypeOK
  <2>5. WindowIntact'
    BY <2>1, <2>3 DEF MpServerInv, WindowIntact, HalfDone, semVars
  <2>6. IndicesInStep'
    BY <2>1, <2>3 DEF MpServerInv, IndicesInStep
  <2> QED BY <2>2, <2>4, <2>5, <2>6 DEF MpServerInv
<1>3. CASE SemEnd
  <2>1. /\ running /\ running' /\ mpc = "end" /\ mpc' = "write"
        /\ UNCHANGED <<semset, ringVars, loopVars, opened, sock, clientVars, faultVars>>
        /\ IF Want = "p" THEN SEM_FULL' = SEM_FULL + 1 /\ UNCHANGED SEM_EMPTY
                         ELSE SEM_EMPTY' = SEM_EMPTY + 1 /\ UNCHANGED SEM_FULL
    BY <1>3 DEF SemEnd, UseBuffer
  <2>2. MpTypeOK /\ HandledOnce /\ WindowIntact /\ conn_fd \in Conn
    <3>1. MpTypeOK /\ HandledOnce /\ WindowIntact
      BY DEF MpServerInv
    <3>2. Serving
      BY <2>1 DEF Serving
    <3> QED BY <3>1, <3>2 DEF HandledOnce, MpTypeOK
  <2>3. Want \in {"p", "c"} /\ Want' = Want
    BY <2>1, <2>2 DEF Want, MpTypeOK
  <2>4. WindowIntact' /\ SEM_FULL' \in 0..N /\ SEM_EMPTY' \in 0..N
    <3>1. /\ HalfDone("p") = IF Want = "p" THEN 1 ELSE 0
          /\ HalfDone("c") = IF Want = "p" THEN 0 ELSE 1
          /\ HalfDone("p")' = 0 /\ HalfDone("c")' = 0
      BY <2>1, <2>3 DEF HalfDone
    <3>2. /\ SEM_FULL = produced - consumed - HalfDone("p")
          /\ SEM_EMPTY = N - (produced - consumed) - HalfDone("c")
          /\ \A j \in consumed..(produced - 1) : buf[j % N] = j % R
      BY <2>1, <2>2 DEF WindowIntact
    <3>3. produced \in Nat /\ consumed \in Nat /\ SEM_FULL \in 0..N /\ SEM_EMPTY \in 0..N
      BY <2>2 DEF MpTypeOK
    <3>4. SEM_FULL' = produced - consumed /\ SEM_EMPTY' = N - (produced - consumed)
      BY <2>1, <2>3, <3>1, <3>2, <3>3
    <3>5. SEM_FULL' \in 0..N /\ SEM_EMPTY' \in 0..N
      BY <3>1, <3>2, <3>3, <3>4
    <3> QED BY <2>1, <3>1, <3>2, <3>3, <3>4, <3>5 DEF WindowIntact, ringVars
  <2>5. MpTypeOK'
    BY <2>1, <2>2, <2>4 DEF MpTypeOK, ringVars
  <2>6. IndicesInStep' /\ OwnersKnown' /\ ClosedMeansAnswered'
    BY <2>1 DEF MpServerInv, IndicesInStep, OwnersKnown, ClosedMeansAnswered, Answered,
       Gone, ringVars
  <2>7. HandledOnce'
    BY <2>1, <2>2 DEF HandledOnce, Serving, Waiting, ringVars
  <2> QED BY <2>4, <2>5, <2>6, <2>7 DEF MpServerInv
<1> QED BY <1>1, <1>2, <1>3 DEF UseBuffer

\* The end of the process, at whatever moment, and the flag of a SIGINT.
LEMMA EndPreserves == ASSUME MpServerInv, Return \/ Interrupt \/ Crash
                      PROVE  MpServerInv'
<1>1. /\ MpTypeOK /\ WindowIntact /\ IndicesInStep /\ HandledOnce
      /\ OwnersKnown /\ ClosedMeansAnswered
  BY DEF MpServerInv
<1>2. /\ signals' \in 0..MaxSignals /\ kills' \in 0..MaxKills
      /\ crashes' \in 0..MaxCrashes
  <2>1. /\ signals \in 0..MaxSignals /\ kills \in 0..MaxKills /\ crashes \in 0..MaxCrashes
        /\ MaxSignals \in Nat /\ MaxCrashes \in Nat
    BY <1>1, MpAssumption DEF MpTypeOK
  <2>2. CASE Return
    BY <2>1, <2>2 DEF Return, faultVars
  <2>3. CASE Interrupt
    BY <2>1, <2>3 DEF Interrupt
  <2>4. CASE Crash
    BY <2>1, <2>4 DEF Crash
  <2> QED BY <2>2, <2>3, <2>4
<1>3. UNCHANGED <<semVars, ringVars, conn_fd, accepted, base, opened, sock, clientVars>>
  BY DEF Return, Interrupt, Crash, EndProcess
<1>4. OwnersKnown' /\ ClosedMeansAnswered'
  BY <1>1, <1>3 DEF OwnersKnown, ClosedMeansAnswered, Answered, Gone, clientVars
<1>5. CASE EndProcess
  <2>1. running' = FALSE /\ mpc' = "down" /\ events' = {} /\ interest' = {} /\ fl' = fl
    BY <1>5 DEF EndProcess
  <2>2. MpTypeOK'
    <3>1. /\ UNCHANGED <<SEM_EMPTY, SEM_FULL, semset, buf, producer_index, consumer_index>>
          /\ UNCHANGED <<letter, msg_buf, produced, consumed, conn_fd, accepted, base>>
          /\ UNCHANGED <<opened, sock, cpc, iter, cur, fl>>
      BY <1>3, <2>1 DEF semVars, ringVars, clientVars
    <3>2. /\ running' \in BOOLEAN /\ events' \subseteq Conn \cup {Listen}
          /\ interest' \subseteq Conn /\ mpc' = "down"
      BY <2>1
    <3> QED BY <1>1, <1>2, <3>1, <3>2 DEF MpTypeOK
  <2>3. HandledOnce'
    BY <1>1, <1>3, <2>1 DEF HandledOnce, Serving, Waiting, ringVars
  <2> QED BY <1>4, <2>1, <2>2, <2>3 DEF MpServerInv, WindowIntact, IndicesInStep
<1>6. CASE fl' = FALSE /\ UNCHANGED <<running, mpc, events, interest>>
  <2>1. MpTypeOK'
    BY <1>1, <1>2, <1>3, <1>6 DEF MpTypeOK, semVars, ringVars, clientVars
  <2>2. WindowIntact' /\ IndicesInStep'
    BY <1>1, <1>3, <1>6 DEF WindowIntact, HalfDone, Want, IndicesInStep, semVars, ringVars
  <2>3. HandledOnce'
    BY <1>1, <1>3, <1>4, <1>6 DEF HandledOnce, Serving, Waiting, Answered, Gone,
       ringVars, clientVars
  <2> QED BY <1>4, <2>1, <2>2, <2>3 DEF MpServerInv
<1> QED BY <1>5, <1>6 DEF Return, Interrupt, Crash

LEMMA RestartPreserves == ASSUME MpServerInv, Restart
                          PROVE  MpServerInv'
<1>1. /\ MpTypeOK /\ HandledOnce /\ OwnersKnown /\ ClosedMeansAnswered
  BY DEF MpServerInv
<1>2. MpTypeOK'
  BY <1>1, MpAssumption DEF Restart, MpTypeOK, clientVars, faultVars, Junk
<1>3. WindowIntact'
  BY <1>1, MpAssumption DEF Restart, WindowIntact, HalfDone
<1>4. IndicesInStep'
  BY SmallRemainder, MpAssumption DEF Restart, IndicesInStep
<1>5. HandledOnce'
  <2>1. Waiting = {} /\ Listen \notin events /\ accepted <= opened /\ opened \in Nat
        /\ accepted \in Nat
    BY <1>1, MpAssumption DEF Restart, HandledOnce, MpTypeOK
  <2>2. /\ mpc' = "loop" /\ running' /\ accepted' = opened /\ opened' = opened
        /\ UNCHANGED <<events, interest, msg_buf, sock>>
    BY DEF Restart
  <2>3. Waiting' = {} /\ \A k \in Conn : k > opened => k > accepted
    BY <2>1, <2>2, MpAssumption DEF Waiting
  <2> QED BY <1>1, <2>1, <2>2, <2>3 DEF HandledOnce, Serving
<1>6. OwnersKnown' /\ ClosedMeansAnswered'
  BY <1>1 DEF Restart, OwnersKnown, ClosedMeansAnswered, Answered, Gone, clientVars
<1> QED BY <1>2, <1>3, <1>4, <1>5, <1>6 DEF MpServerInv

-----------------------------------------------------------------------------
(* Every action of a client preserves it.                                  *)

\* What only the server changes.
LEMMA RingAsideFromClients ==
  ASSUME MpServerInv, UNCHANGED <<running, mpc, semVars, ringVars, loopVars>>,
         Serving => sock'[conn_fd].want = sock[conn_fd].want
  PROVE  WindowIntact' /\ IndicesInStep'
<1>1. HalfDone("p")' = HalfDone("p") /\ HalfDone("c")' = HalfDone("c")
  BY DEF HalfDone, Want, Serving, loopVars
<1> QED BY <1>1 DEF MpServerInv, WindowIntact, IndicesInStep, semVars, ringVars

LEMMA ConnectPreserves == ASSUME MpServerInv, NEW c \in Client, Connect(c)
                          PROVE  MpServerInv'
<1> DEFINE new == opened + 1
<1>1. /\ MpTypeOK /\ HandledOnce /\ OwnersKnown /\ ClosedMeansAnswered
  BY DEF MpServerInv
<1>2. /\ cpc[c] = "idle" /\ iter[c] < Iter /\ new \in Conn /\ opened' = new /\ running
      /\ sock' = [sock EXCEPT ![new] = NewConnection(c, ClientType(iter[c]))]
      /\ cur' = [cur EXCEPT ![c] = new] /\ cpc' = [cpc EXCEPT ![c] = "write"]
      /\ iter' = [iter EXCEPT ![c] = @ + 1]
      /\ UNCHANGED <<running, mpc, semVars, ringVars, loopVars, faultVars>>
  BY DEF Connect
<1>3. opened \in Nat /\ accepted \in Nat /\ accepted <= opened /\ base \in Nat
  BY <1>1, MpAssumption DEF MpTypeOK
<1>4. /\ \A k \in Conn : k # new => sock'[k] = sock[k]
      /\ sock'[new].owner = c /\ ~sock'[new].closed
  BY <1>1, <1>2 DEF MpTypeOK, NewConnection
<1>5. MpTypeOK'
  <2>1. NewConnection(c, ClientType(iter[c])) \in
          [owner : Client \cup {"nobody"}, want : {"p", "c"}, sent : BOOLEAN,
           closed : BOOLEAN, reply : {NoReply, OK, ER} \cup (0..(R - 1))]
    BY DEF NewConnection, ClientType
  <2>2. iter' \in [Client -> 0..Iter] /\ opened' \in {0} \cup Conn
        /\ accepted' \in base'..opened'
    BY <1>1, <1>2, <1>3, MpAssumption DEF MpTypeOK, loopVars
  <2> QED BY <1>1, <1>2, <2>1, <2>2 DEF MpTypeOK, semVars, ringVars, loopVars, faultVars
<1>6. WindowIntact' /\ IndicesInStep'
  <2>1. Serving => conn_fd \in Conn /\ conn_fd # new
    BY <1>1, <1>3 DEF HandledOnce
  <2> QED BY <1>2, <1>4, <2>1, RingAsideFromClients
<1>7. \A k \in 1..opened : Answered(k) => Answered(k)'
  <2>1. \A k \in 1..opened : k \in Conn /\ k # new /\ sock[k].owner \in Client
    BY <1>1, <1>3 DEF HandledOnce, OwnersKnown
  <2>2. \A k \in 1..opened : Gone(k) => Gone(k)'
    BY <1>1, <1>2, <1>4, <2>1 DEF Gone, MpTypeOK
  <2> QED BY <1>4, <2>1, <2>2 DEF Answered
<1>8. HandledOnce'
  <2>1. Waiting' = Waiting /\ Serving' = Serving /\ 1..new = (1..opened) \cup {new}
    BY <1>2, <1>3 DEF Waiting, Serving, loopVars
  <2>2. \A k \in Conn : ~sock[k].closed => ~sock'[k].closed
    BY <1>4
  <2>3. mpc = "close" => Answered(conn_fd)'
    <3>1. mpc = "close" => conn_fd \in 1..opened /\ Answered(conn_fd)
      BY <1>1, <1>3 DEF HandledOnce, Serving
    <3>2. conn_fd' = conn_fd
      BY <1>2 DEF loopVars
    <3> QED BY <1>7, <3>1, <3>2 DEF Answered, Gone
  <2> QED BY <1>1, <1>2, <1>3, <2>1, <2>2, <2>3 DEF HandledOnce, loopVars, ringVars
<1>9. OwnersKnown'
  <2>1. \A k \in 1..opened : k \in Conn /\ k # new
    BY <1>1, <1>3 DEF HandledOnce
  <2>2. \A k \in 1..new : sock'[k].owner \in Client
    BY <1>1, <1>3, <1>4, <2>1 DEF OwnersKnown
  <2>3. ASSUME NEW d \in Client, cpc'[d] \in {"write", "read"}
        PROVE  cur'[d] \in 1..new /\ sock'[cur'[d]].owner = d
    <3>1. CASE d = c
      BY <1>1, <1>2, <1>3, <1>4, <3>1 DEF MpTypeOK
    <3>2. CASE d # c
      BY <1>1, <1>2, <1>3, <1>4, <2>1, <2>3, <3>2, SMTT(30) DEF MpTypeOK, OwnersKnown
    <3> QED BY <3>1, <3>2
  <2> QED BY <1>2, <2>2, <2>3 DEF OwnersKnown
<1>10. ClosedMeansAnswered'
  <2> SUFFICES ASSUME NEW k \in Conn, sock'[k].closed PROVE Answered(k)'
    BY DEF ClosedMeansAnswered
  <2>1. k # new /\ sock[k].closed
    BY <1>4
  <2>2. k \in 1..opened
    BY <1>1, <1>3, <2>1, MpAssumption DEF HandledOnce
  <2> QED BY <1>1, <1>7, <2>1, <2>2 DEF ClosedMeansAnswered
<1> QED BY <1>5, <1>6, <1>8, <1>9, <1>10 DEF MpServerInv

LEMMA WriteRequestPreserves == ASSUME MpServerInv, NEW c \in Client, WriteRequest(c)
                               PROVE  MpServerInv'
<1> DEFINE k == cur[c]
<1>1. /\ MpTypeOK /\ HandledOnce /\ OwnersKnown /\ ClosedMeansAnswered
  BY DEF MpServerInv
<1>2. /\ cpc[c] = "write" /\ sock' = [sock EXCEPT ![k].sent = TRUE]
      /\ cpc' = [cpc EXCEPT ![c] = "read"]
      /\ UNCHANGED <<running, mpc, semVars, ringVars, loopVars, opened, iter, cur, faultVars>>
  BY DEF WriteRequest
<1>3. k \in 1..opened /\ k \in Conn /\ sock[k].owner = c
  BY <1>1, <1>2 DEF OwnersKnown, HandledOnce
<1>4. /\ \A i \in Conn : i # k => sock'[i] = sock[i]
      /\ \A i \in Conn : /\ sock'[i].owner = sock[i].owner /\ sock'[i].want = sock[i].want
                          /\ sock'[i].reply = sock[i].reply
                          /\ sock'[i].closed = sock[i].closed
  BY <1>1, <1>2, <1>3, SMTT(30) DEF MpTypeOK
<1>5. MpTypeOK'
  <2> DEFINE Reply == {NoReply, OK, ER} \cup (0..(R - 1))
             Socket == [owner : Client \cup {"nobody"}, want : {"p", "c"},
                        sent : BOOLEAN, closed : BOOLEAN, reply : Reply]
  <2>1. sock \in [Conn -> Socket]
    BY <1>1 DEF MpTypeOK
  <2> HIDE DEF Reply
  <2>2. [sock[k] EXCEPT !.sent = TRUE] \in Socket
    <3>1. sock[k] \in Socket
      BY <1>3, <2>1
    <3> HIDE DEF k
    <3> QED BY <3>1
  <2>3. sock' = [sock EXCEPT ![k] = [sock[k] EXCEPT !.sent = TRUE]]
    BY <1>2
  <2> HIDE DEF Socket
  <2>4. sock' \in [Conn -> Socket]
    BY <1>3, <2>1, <2>2, <2>3
  <2> QED BY <1>1, <1>2, <2>4 DEF MpTypeOK, Socket, Reply, semVars, ringVars, loopVars, faultVars
<1>6. WindowIntact' /\ IndicesInStep'
  <2>1. Serving => conn_fd \in Conn
    BY <1>1, MpAssumption DEF HandledOnce, MpTypeOK
  <2> QED BY <1>2, <1>4, <2>1, RingAsideFromClients
<1>7. \A i \in 1..opened : Answered(i) => Answered(i)'
  <2>1. \A i \in 1..opened : i \in Conn /\ sock[i].owner \in Client
    BY <1>1 DEF HandledOnce, OwnersKnown
  <2>2. \A i \in 1..opened : Gone(i) => Gone(i)' /\ i # k
    BY <1>1, <1>2, <1>3, <1>4, <2>1 DEF Gone, MpTypeOK
  <2> QED BY <1>4, <2>1, <2>2 DEF Answered
<1>8. HandledOnce'
  <2>1. Waiting' = Waiting /\ Serving' = Serving
    BY <1>2 DEF Waiting, Serving, loopVars
  <2>2. mpc = "close" => Answered(conn_fd)'
    <3>1. mpc = "close" => conn_fd \in 1..opened /\ Answered(conn_fd)
      BY <1>1, MpAssumption DEF HandledOnce, Serving, MpTypeOK
    <3>2. conn_fd' = conn_fd
      BY <1>2 DEF loopVars
    <3> QED BY <1>7, <3>1, <3>2 DEF Answered, Gone
  <2> QED BY <1>1, <1>2, <1>4, <2>1, <2>2 DEF HandledOnce, loopVars, ringVars
<1>9. OwnersKnown'
  <2>1. \A i \in 1..opened : i \in Conn
    BY <1>1 DEF HandledOnce
  <2>2. ASSUME NEW d \in Client, cpc'[d] \in {"write", "read"}
        PROVE  cpc[d] \in {"write", "read"}
    BY <1>1, <1>2, <2>2 DEF MpTypeOK
  <2> QED BY <1>1, <1>2, <1>4, <2>1, <2>2 DEF OwnersKnown
<1>10. ClosedMeansAnswered'
  <2> SUFFICES ASSUME NEW i \in Conn, sock'[i].closed PROVE Answered(i)'
    BY DEF ClosedMeansAnswered
  <2>1. sock[i].closed
    BY <1>4
  <2>2. i \in 1..opened
    BY <1>1, <2>1, MpAssumption DEF HandledOnce, MpTypeOK
  <2> QED BY <1>1, <1>7, <2>1, <2>2 DEF ClosedMeansAnswered
<1> QED BY <1>5, <1>6, <1>8, <1>9, <1>10 DEF MpServerInv

LEMMA ClientMovePreserves ==
  ASSUME MpServerInv, NEW c \in Client, ReadReply(c) \/ Quit(c) \/ Kill(c)
  PROVE  MpServerInv'
<1>1. /\ MpTypeOK /\ HandledOnce /\ OwnersKnown /\ ClosedMeansAnswered
  BY DEF MpServerInv
<1>2. /\ UNCHANGED <<running, mpc, semVars, ringVars, loopVars, opened, sock, iter, cur>>
      /\ \E to \in {"idle", "gone"} : cpc' = [cpc EXCEPT ![c] = to]
      /\ cpc[c] = "gone" => cpc'[c] = "gone"
      /\ signals' \in 0..MaxSignals /\ kills' \in 0..MaxKills /\ crashes' \in 0..MaxCrashes
  BY <1>1, MpAssumption, SMTT(30) DEF ReadReply, Quit, Kill, ClientGoto, faultVars, MpTypeOK
<1>3. /\ cpc' \in [Client -> {"idle", "write", "read", "gone"}]
      /\ \A d \in Client : /\ cpc[d] = "gone" => cpc'[d] = "gone"
                           /\ cpc'[d] \in {"write", "read"} => cpc'[d] = cpc[d]
  BY <1>1, <1>2 DEF MpTypeOK
<1>4. MpTypeOK'
  BY <1>1, <1>2, <1>3 DEF MpTypeOK, semVars, ringVars, loopVars
<1>5. WindowIntact' /\ IndicesInStep'
  BY <1>2, RingAsideFromClients
<1>6. \A i \in 1..opened : Answered(i) => Answered(i)'
  BY <1>1, <1>2, <1>3 DEF Answered, Gone, OwnersKnown
<1>7. HandledOnce'
  <2>1. Waiting' = Waiting /\ Serving' = Serving
    BY <1>2 DEF Waiting, Serving, loopVars
  <2>2. mpc = "close" => Answered(conn_fd)'
    <3>1. mpc = "close" => conn_fd \in 1..opened /\ Answered(conn_fd)
      BY <1>1, MpAssumption DEF HandledOnce, Serving, MpTypeOK
    <3>2. conn_fd' = conn_fd
      BY <1>2 DEF loopVars
    <3> QED BY <1>6, <3>1, <3>2 DEF Answered, Gone
  <2> QED BY <1>1, <1>2, <2>1, <2>2 DEF HandledOnce, loopVars, ringVars
<1>8. OwnersKnown'
  BY <1>1, <1>2, <1>3 DEF OwnersKnown
<1>9. ClosedMeansAnswered'
  <2> SUFFICES ASSUME NEW i \in Conn, sock'[i].closed PROVE Answered(i)'
    BY DEF ClosedMeansAnswered
  <2>1. sock[i].closed
    BY <1>2
  <2>2. i \in 1..opened
    BY <1>1, <2>1, MpAssumption DEF HandledOnce, MpTypeOK
  <2> QED BY <1>1, <1>6, <2>1, <2>2 DEF ClosedMeansAnswered
<1> QED BY <1>4, <1>5, <1>7, <1>8, <1>9 DEF MpServerInv

-----------------------------------------------------------------------------

LEMMA MpServerInvStep == ASSUME MpServerInv, [Next]_vars
                   PROVE  MpServerInv'
<1>1. CASE Server
  BY <1>1, LoopPreserves, WorkerPreserves, BufferPreserves, EndPreserves DEF Server
<1>2. CASE Interrupt \/ Crash \/ Restart
  BY <1>2, EndPreserves, RestartPreserves
<1>3. ASSUME NEW c \in Client, ClientStep(c) \/ Kill(c) PROVE MpServerInv'
  BY <1>3, ConnectPreserves, WriteRequestPreserves, ClientMovePreserves DEF ClientStep
<1>4. CASE UNCHANGED vars
  <2>1. UNCHANGED <<semVars, ringVars, loopVars, clientVars, faultVars, running, mpc,
                    opened, sock>>
    BY <1>4 DEF vars
  <2>2. MpTypeOK'
    BY <2>1 DEF MpServerInv, MpTypeOK, semVars, ringVars, loopVars, clientVars, faultVars
  <2>3. WindowIntact' /\ IndicesInStep'
    BY <2>1, RingAsideFromClients
  <2>4. HandledOnce' /\ OwnersKnown' /\ ClosedMeansAnswered'
    BY <2>1 DEF MpServerInv, HandledOnce, Waiting, Serving, OwnersKnown, ClosedMeansAnswered,
       Answered, Gone, ringVars, loopVars, clientVars
  <2> QED BY <2>2, <2>3, <2>4 DEF MpServerInv
<1> QED BY <1>1, <1>2, <1>3, <1>4 DEF Next

-----------------------------------------------------------------------------
(* Nobody is forgotten.                                                    *)

\* A step that leaves the connections and the clients alone and keeps every
\* accepted connection where the server will find it.
LEMMA ServerForgetsNone ==
  ASSUME NobodyForgotten, UNCHANGED <<sock, clientVars, opened>>,
         running' =>
           /\ Waiting' \subseteq (base' + 1)..accepted' /\ (Serving' => conn_fd' > base')
           /\ mpc' \in {"loop", "wait"} => events' = {}
           /\ \A k \in (base' + 1)..accepted' :
                sock[k].closed \/ k \in Waiting' \/ (Serving' /\ k = conn_fd')
  PROVE  NobodyForgotten'
BY DEF NobodyForgotten, Gone, clientVars

LEMMA LoopForgetsNone ==
  ASSUME MpServerInv, NobodyForgotten,
         TestFlag \/ EpollWait \/ BatchDone \/ Accept \/ StartWorker
  PROVE  NobodyForgotten'
<1> USE DEF Goto
<1>1. /\ MpTypeOK /\ HandledOnce /\ running /\ running' = running /\ ~Serving
      /\ UNCHANGED <<sock, clientVars, opened, base>>
      /\ accepted \in Nat /\ base \in Nat /\ base <= accepted
  <2>1. MpTypeOK /\ HandledOnce
    BY DEF MpServerInv
  <2>2. mpc \in {"loop", "wait", "batch"} /\ running /\ running' = running
    BY DEF TestFlag, EpollWait, BatchDone, Accept, StartWorker
  <2>3. UNCHANGED <<sock, clientVars, opened, base>>
    BY DEF TestFlag, EpollWait, BatchDone, Accept, StartWorker, loopVars
  <2>4. accepted \in Nat /\ base \in Nat /\ base <= accepted
    BY <2>1, MpAssumption DEF MpTypeOK
  <2> QED BY <2>1, <2>2, <2>3, <2>4 DEF Serving
<1>2. /\ Waiting \subseteq (base + 1)..accepted
      /\ mpc \in {"loop", "wait"} => events = {}
      /\ \A k \in (base + 1)..accepted : sock[k].closed \/ k \in Waiting
  BY <1>1 DEF NobodyForgotten
<1>3. CASE TestFlag \/ BatchDone
  <2>1. UNCHANGED <<events, interest, accepted, base, conn_fd>> /\ ~Serving'
    BY <1>3 DEF TestFlag, BatchDone, loopVars, Serving
  <2>2. mpc' \in {"loop", "wait"} => events = {}
    BY <1>2, <1>3 DEF TestFlag, BatchDone
  <2>3. Waiting' = Waiting
    BY <2>1 DEF Waiting
  <2> QED BY <1>1, <1>2, <2>1, <2>2, <2>3, ServerForgetsNone
<1>4. CASE EpollWait
  <2>1. PICK S \in SUBSET Ready : events' = S /\ interest' = interest \ S
    BY <1>4 DEF EpollWait
  <2>2. /\ mpc = "wait" /\ mpc' = "batch" /\ ~Serving'
        /\ UNCHANGED <<accepted, base, conn_fd>>
    BY <1>4 DEF EpollWait, Serving
  <2>3. Waiting = interest
    BY <1>2, <2>2 DEF Waiting
  <2>4. Waiting' = Waiting
    <3>1. Listen \notin interest
      BY <1>1, <2>3 DEF HandledOnce, Listen
    <3> QED BY <2>1, <2>3, <3>1 DEF Waiting, Ready
  <2> QED BY <1>1, <1>2, <2>2, <2>4, ServerForgetsNone
<1>5. CASE Accept
  <2>1. /\ mpc' = "batch" /\ ~Serving' /\ UNCHANGED <<base, conn_fd>>
        /\ accepted' = accepted + 1
        /\ Waiting' = Waiting \cup {accepted + 1}
    BY <1>5, <1>1 DEF Accept, Waiting, Serving
  <2>2. (base + 1)..(accepted + 1) = ((base + 1)..accepted) \cup {accepted + 1}
    BY <1>1
  <2> QED BY <1>1, <1>2, <2>1, <2>2, ServerForgetsNone
<1>6. CASE StartWorker
  <2>1. PICK k \in events \ {Listen} : conn_fd' = k /\ events' = events \ {k}
    BY <1>6 DEF StartWorker
  <2>2. mpc' = "read" /\ Serving' /\ UNCHANGED <<interest, accepted, base>>
    BY <1>6 DEF StartWorker, Serving
  <2>3. Waiting' = Waiting \ {k} /\ k \in Waiting
    BY <1>1, <2>1, <2>2 DEF Waiting, HandledOnce
  <2>4. conn_fd' > base
    BY <1>1, <1>2, <2>1, <2>3
  <2> QED BY <1>1, <1>2, <2>1, <2>2, <2>3, <2>4, ServerForgetsNone
<1> QED BY <1>3, <1>4, <1>5, <1>6

\* A step that serves, up to the close.
LEMMA WorkerForgetsNone ==
  ASSUME MpServerInv, NobodyForgotten,
         ReadRequest \/ UseBuffer \/ RemoveSemaphores \/ WriteReply \/ CloseConnection
  PROVE  NobodyForgotten'
<1> USE DEF Goto
<1>1. /\ MpTypeOK /\ HandledOnce /\ running /\ running' = running
      /\ UNCHANGED <<clientVars, opened, base, accepted, events, interest, conn_fd>>
      /\ Waiting' = Waiting /\ mpc' \notin {"loop", "wait"}
  BY DEF ReadRequest, UseBuffer, ProduceBegin, ConsumeBegin, TimeOut, SemEnd, WriteReply,
     CloseConnection, RemoveSemaphores, MpServerInv, loopVars, Waiting
<1>2. CASE ReadRequest \/ UseBuffer \/ RemoveSemaphores
  <2>1. Serving' = Serving /\ UNCHANGED sock
    BY <1>2 DEF ReadRequest, UseBuffer, ProduceBegin, ConsumeBegin, TimeOut, SemEnd,
       RemoveSemaphores, Serving
  <2> QED BY <1>1, <2>1, ServerForgetsNone DEF NobodyForgotten
<1>3. CASE WriteReply \/ CloseConnection
  <2>1. /\ Serving
        /\ WriteReply => Serving' /\ sock' = [sock EXCEPT ![conn_fd].reply = msg_buf[conn_fd]]
        /\ CloseConnection =>
             ~Serving' /\ sock' = [sock EXCEPT ![conn_fd].closed = TRUE]
    BY <1>3 DEF WriteReply, CloseConnection, Serving
  <2>2. conn_fd \in Conn /\ 1..opened \subseteq Conn
    <3>1. conn_fd \in 1..accepted /\ 1..opened \subseteq Conn
      BY <1>1, <2>1 DEF HandledOnce
    <3>2. accepted <= opened /\ accepted \in Nat /\ opened \in Nat
      BY <1>1, MpAssumption DEF MpTypeOK
    <3> QED BY <3>1, <3>2
  <2>3. \A k \in Conn : /\ sock'[k].owner = sock[k].owner /\ sock'[k].sent = sock[k].sent
                        /\ sock[k].closed => sock'[k].closed
    <3>0. sock \in [Conn -> [owner : Client \cup {"nobody"}, want : {"p", "c"},
                             sent : BOOLEAN, closed : BOOLEAN,
                             reply : {NoReply, OK, ER} \cup (0..(R - 1))]]
      BY <1>1 DEF MpTypeOK
    <3>1. CASE WriteReply
      BY <2>1, <2>2, <3>0, <3>1
    <3>2. CASE CloseConnection
      BY <2>1, <2>2, <3>0, <3>2
    <3> QED BY <1>3, <3>1, <3>2
  <2>4. CloseConnection => sock'[conn_fd].closed
    BY <1>1, <2>1, <2>2 DEF MpTypeOK
  <2>5. /\ Waiting \subseteq (base + 1)..accepted /\ conn_fd > base
        /\ \A k \in (base + 1)..accepted : sock[k].closed \/ k \in Waiting \/ k = conn_fd
    BY <1>1, <2>1 DEF NobodyForgotten
  <2>6. (base + 1)..accepted \subseteq Conn /\ Waiting' \subseteq (base' + 1)..accepted'
    <3>1. (base + 1)..accepted \subseteq 1..opened
      BY <1>1, MpAssumption DEF MpTypeOK
    <3> QED BY <1>1, <2>2, <2>5, <3>1
  <2>7. \A k \in (base' + 1)..accepted' :
          sock'[k].closed \/ k \in Waiting' \/ (Serving' /\ k = conn_fd')
    <3> SUFFICES ASSUME NEW k \in (base + 1)..accepted
                 PROVE  sock'[k].closed \/ k \in Waiting \/ (Serving' /\ k = conn_fd)
      BY <1>1
    <3> QED BY <1>3, <2>1, <2>3, <2>4, <2>5, <2>6
  <2>8. \A k \in 1..opened : sock'[k].sent \/ Gone(k)'
           \/ (cpc[sock'[k].owner] = "write" /\ cur[sock'[k].owner] = k)
    BY <1>1, <2>2, <2>3 DEF NobodyForgotten, Gone, clientVars
  <2>9. \A c \in Client : cpc[c] = "read" => sock'[cur[c]].sent
    BY <1>1, <2>2, <2>3 DEF NobodyForgotten, MpServerInv, OwnersKnown
  <2> QED BY <1>1, <2>5, <2>6, <2>7, <2>8, <2>9 DEF NobodyForgotten, clientVars
<1> QED BY <1>2, <1>3

LEMMA EndForgetsNone ==
  ASSUME MpServerInv, NobodyForgotten, Return \/ Interrupt \/ Crash \/ Restart
  PROVE  NobodyForgotten'
<1>1. MpTypeOK /\ HandledOnce
  BY DEF MpServerInv
<1>2. CASE Interrupt /\ fl' = FALSE /\ UNCHANGED <<running, mpc>>
  <2>1. \/ UNCHANGED <<events, interest, conn_fd, accepted, base, opened, sock, clientVars>>
        \/ EndProcess
    BY <1>2 DEF Interrupt
  <2>2. ~EndProcess
    BY <1>2 DEF EndProcess
  <2>3. Waiting' = Waiting /\ Serving' = Serving
    BY <1>2, <2>1, <2>2 DEF Waiting, Serving
  <2> QED BY <1>2, <2>1, <2>2, <2>3, ServerForgetsNone DEF NobodyForgotten
<1>3. CASE EndProcess
  BY <1>3, ServerForgetsNone DEF EndProcess
<1>4. CASE Restart
  <2>1. /\ ~running /\ mpc' = "loop" /\ accepted' = opened /\ base' = opened
        /\ UNCHANGED <<events, interest, opened, sock, clientVars>>
    BY <1>4 DEF Restart
  <2>2. Waiting = {} /\ events = {} /\ Waiting' = Waiting
    BY <1>1, <2>1 DEF HandledOnce, Waiting
  <2>3. ~Serving' /\ (base' + 1)..accepted' = {}
    <3>1. opened \in Nat
      BY <1>1, MpAssumption DEF MpTypeOK
    <3> QED BY <2>1, <3>1 DEF Serving
  <2> QED BY <2>1, <2>2, <2>3, ServerForgetsNone
<1> QED BY <1>2, <1>3, <1>4 DEF Return, Interrupt, Crash

\* A step of a client that keeps the connections to this life where they are.
LEMMA ClientForgetsNone ==
  ASSUME MpServerInv, NobodyForgotten, UNCHANGED <<running, mpc, loopVars>>,
         \A k \in 1..accepted : sock'[k].closed = sock[k].closed,
         \A k \in 1..opened' : sock'[k].sent \/ Gone(k)'
           \/ (cpc'[sock'[k].owner] = "write" /\ cur'[sock'[k].owner] = k),
         \A c \in Client : cpc'[c] = "read" => sock'[cur'[c]].sent
  PROVE  NobodyForgotten'
<1>1. Waiting' = Waiting /\ Serving' = Serving
  BY DEF Waiting, Serving, loopVars
<1>2. (base + 1)..accepted \subseteq 1..accepted
  BY DEF MpServerInv, MpTypeOK
<1> QED BY <1>1, <1>2 DEF NobodyForgotten, loopVars

LEMMA ConnectForgetsNone ==
  ASSUME MpServerInv, NobodyForgotten, NEW c \in Client, Connect(c)
  PROVE  NobodyForgotten'
<1> DEFINE new == opened + 1
<1>1. /\ MpTypeOK /\ HandledOnce /\ OwnersKnown
      /\ opened \in Nat /\ accepted \in Nat /\ accepted <= opened
  BY MpAssumption DEF MpServerInv, MpTypeOK
<1>2. /\ cpc[c] = "idle" /\ new \in Conn /\ opened' = new
      /\ sock' = [sock EXCEPT ![new] = NewConnection(c, ClientType(iter[c]))]
      /\ cur' = [cur EXCEPT ![c] = new] /\ cpc' = [cpc EXCEPT ![c] = "write"]
      /\ UNCHANGED <<running, mpc, loopVars>>
  BY DEF Connect
<1>3. /\ \A k \in 1..opened : k \in Conn /\ k # new /\ sock'[k] = sock[k]
      /\ sock'[new].owner = c
  BY <1>1, <1>2 DEF HandledOnce, MpTypeOK, NewConnection
<1>4. /\ cpc'[c] = "write" /\ cur'[c] = new
      /\ \A d \in Client : d # c => cpc'[d] = cpc[d] /\ cur'[d] = cur[d]
  BY <1>1, <1>2 DEF MpTypeOK
<1>5. \A k \in 1..opened' : sock'[k].sent \/ Gone(k)'
        \/ (cpc'[sock'[k].owner] = "write" /\ cur'[sock'[k].owner] = k)
  <2> SUFFICES ASSUME NEW k \in 1..opened
               PROVE  sock'[k].sent \/ Gone(k)'
                        \/ (cpc'[sock'[k].owner] = "write" /\ cur'[sock'[k].owner] = k)
    <3>1. 1..opened' = 1..opened \cup {new}
      BY <1>1, <1>2
    <3> QED BY <1>3, <1>4, <3>1
  <2>1. sock[k].sent \/ Gone(k) \/ (cpc[sock[k].owner] = "write" /\ cur[sock[k].owner] = k)
    BY DEF NobodyForgotten
  <2>2. sock[k].owner \in Client /\ sock'[k] = sock[k]
    BY <1>1, <1>3 DEF OwnersKnown
  <2>3. CASE sock[k].owner = c
    BY <1>2, <2>1, <2>2, <2>3 DEF Gone
  <2>4. CASE sock[k].owner # c
    BY <1>4, <2>1, <2>2, <2>4 DEF Gone
  <2> QED BY <2>3, <2>4
<1>6. \A d \in Client : cpc'[d] = "read" => sock'[cur'[d]].sent
  BY <1>1, <1>3, <1>4 DEF NobodyForgotten, OwnersKnown
<1>7. \A k \in 1..accepted : sock'[k].closed = sock[k].closed
  BY <1>1, <1>3
<1> QED BY <1>2, <1>5, <1>6, <1>7, ClientForgetsNone

LEMMA WriteForgetsNone ==
  ASSUME MpServerInv, NobodyForgotten, NEW c \in Client, WriteRequest(c)
  PROVE  NobodyForgotten'
<1>1. /\ MpTypeOK /\ HandledOnce /\ OwnersKnown
      /\ opened \in Nat /\ accepted \in Nat /\ accepted <= opened
  BY MpAssumption DEF MpServerInv, MpTypeOK
<1>2. /\ cpc[c] = "write" /\ sock' = [sock EXCEPT ![cur[c]].sent = TRUE]
      /\ cpc' = [cpc EXCEPT ![c] = "read"]
      /\ UNCHANGED <<running, mpc, loopVars, opened, cur>>
  BY DEF WriteRequest
<1>3. cur[c] \in Conn
  BY <1>1, <1>2 DEF OwnersKnown, HandledOnce
<1>4. /\ \A k \in Conn : /\ sock'[k].owner = sock[k].owner
                         /\ sock'[k].closed = sock[k].closed
                         /\ sock'[k].sent = (sock[k].sent \/ k = cur[c])
  BY <1>1, <1>2, <1>3 DEF MpTypeOK
<1>5. \A d \in Client : cpc'[d] = IF d = c THEN "read" ELSE cpc[d]
  BY <1>1, <1>2 DEF MpTypeOK
<1>6. \A k \in 1..opened : k \in Conn /\ sock[k].owner \in Client
  BY <1>1 DEF HandledOnce, OwnersKnown
<1>7. ASSUME NEW k \in 1..opened'
      PROVE  sock'[k].sent \/ Gone(k)'
               \/ (cpc'[sock'[k].owner] = "write" /\ cur'[sock'[k].owner] = k)
  <2>1. sock[k].sent \/ Gone(k) \/ (cpc[sock[k].owner] = "write" /\ cur[sock[k].owner] = k)
    BY <1>2 DEF NobodyForgotten
  <2>2. CASE sock[k].owner = c
    BY <1>2, <1>4, <1>6, <2>1, <2>2 DEF Gone
  <2>3. CASE sock[k].owner # c
    BY <1>2, <1>4, <1>5, <1>6, <2>1, <2>3 DEF Gone
  <2> QED BY <2>2, <2>3
<1>8. \A d \in Client : cpc'[d] = "read" => sock'[cur'[d]].sent
  <2> SUFFICES ASSUME NEW d \in Client, cpc'[d] = "read" PROVE sock'[cur[d]].sent
    BY <1>2
  <2>1. CASE d = c
    BY <1>3, <1>4, <2>1
  <2>2. CASE d # c
    <3>1. cpc[d] = "read" /\ cur[d] \in Conn /\ sock[cur[d]].sent
      BY <1>1, <1>5, <1>6, <2>2 DEF NobodyForgotten, OwnersKnown
    <3> QED BY <1>4, <3>1
  <2> QED BY <2>1, <2>2
<1>9. \A k \in 1..accepted : sock'[k].closed = sock[k].closed
  BY <1>1, <1>4, <1>6
<1> QED BY <1>2, <1>7, <1>8, <1>9, ClientForgetsNone

LEMMA MoveForgetsNone ==
  ASSUME MpServerInv, NobodyForgotten, NEW c \in Client,
         ReadReply(c) \/ Quit(c) \/ Kill(c)
  PROVE  NobodyForgotten'
<1>1. MpTypeOK /\ OwnersKnown
  BY DEF MpServerInv
<1>2. /\ UNCHANGED <<running, mpc, loopVars, opened, sock, cur>>
      /\ \/ cpc' = [cpc EXCEPT ![c] = "idle"] /\ cpc[c] = "read"
         \/ cpc' = [cpc EXCEPT ![c] = "gone"]
  BY DEF ReadReply, Quit, Kill, ClientGoto
<1>3. /\ \A d \in Client : d # c => cpc'[d] = cpc[d]
      /\ cpc'[c] = "gone" \/ (cpc'[c] = "idle" /\ cpc[c] = "read")
  BY <1>1, <1>2 DEF MpTypeOK
<1>4. ASSUME NEW k \in 1..opened'
      PROVE  sock'[k].sent \/ Gone(k)'
               \/ (cpc'[sock'[k].owner] = "write" /\ cur'[sock'[k].owner] = k)
  <2>1. /\ sock[k].sent \/ Gone(k) \/ (cpc[sock[k].owner] = "write" /\ cur[sock[k].owner] = k)
        /\ sock[k].owner \in Client
    BY <1>1, <1>2 DEF NobodyForgotten, OwnersKnown
  <2> QED BY <1>2, <1>3, <2>1 DEF Gone
<1>5. \A d \in Client : cpc'[d] = "read" => sock'[cur'[d]].sent
  BY <1>2, <1>3 DEF NobodyForgotten
<1> QED BY <1>2, <1>4, <1>5, ClientForgetsNone

LEMMA InitForgetsNone == MpInit => NobodyForgotten
BY DEF MpInit, NobodyForgotten, Waiting, Serving

LEMMA MpInvStep == ASSUME MpInv, [Next]_vars
                   PROVE  MpInv'
<1>1. MpServerInv /\ NobodyForgotten /\ MpServerInv'
  BY MpServerInvStep DEF MpInv
<1>2. CASE Server
  BY <1>1, <1>2, LoopForgetsNone, WorkerForgetsNone, EndForgetsNone DEF Server, MpInv
<1>3. CASE Interrupt \/ Crash \/ Restart
  BY <1>1, <1>3, EndForgetsNone DEF MpInv
<1>4. ASSUME NEW c \in Client, ClientStep(c) \/ Kill(c) PROVE MpInv'
  BY <1>1, <1>4, ConnectForgetsNone, WriteForgetsNone, MoveForgetsNone DEF ClientStep, MpInv
<1>5. CASE UNCHANGED vars
  <2>1. UNCHANGED <<running, mpc, loopVars, clientVars, opened, sock>>
    BY <1>5 DEF vars
  <2>2. NobodyForgotten'
    BY <1>1, <2>1 DEF NobodyForgotten, Waiting, Serving, Gone, loopVars, clientVars
  <2> QED BY <1>1, <2>2 DEF MpInv
<1> QED BY <1>2, <1>3, <1>4, <1>5 DEF Next


\* MpInv is inductive, for every number of clients, connections, cells and
\* letters and every pattern of signals, kills, crashes and restarts.
THEOREM MpInductive == Spec => []MpInv
<1>1. MpInv /\ [Next]_vars => MpInv'
  BY MpInvStep
<1> QED BY <1>1, InitForgetsNone, InitEstablishes, PTL DEF Spec, MpInv

\* A client whose connection a running server closed has its reply, unless it
\* was gone before its request.
THEOREM MpAnswersBeforeClosing == Spec => []ClosedMeansAnswered
BY MpInductive, PTL DEF MpInv, MpServerInv

\* The ring never overwrites a letter nobody has consumed, and the semaphores
\* count it.
THEOREM MpKeepsLetters == Spec => []WindowIntact
BY MpInductive, PTL DEF MpInv, MpServerInv

\* The server stands still in epoll_wait(), or in read() for a request, only
\* when no client waits for its reply on a connection to this life, save behind
\* a client that has connected to it and can still write its request: what
\* EveryConnectionClosed means for a state.
THEOREM MpNobodyWaitsInVain == Spec => [](running =>
  /\ mpc = "wait" /\ Ready = {} =>
       /\ \A k \in (base + 1)..opened : sock[k].closed
       /\ \A c \in Client : cpc[c] = "read" =>
            Cut(cur[c]) \/ sock[cur[c]].reply # NoReply
  /\ mpc = "read" /\ ~(sock[conn_fd].sent \/ Gone(conn_fd)) =>
       \E c \in Client : cpc[c] = "write" /\ cur[c] = conn_fd /\ ~Cut(cur[c]))
<1> DEFINE Idle == mpc = "wait" /\ Ready = {}
           Blocked == mpc = "read" /\ ~(sock[conn_fd].sent \/ Gone(conn_fd))
           AllClosed == \A k \in (base + 1)..opened : sock[k].closed
           NoReader == \A c \in Client : cpc[c] = "read" =>
                         Cut(cur[c]) \/ sock[cur[c]].reply # NoReply
           Writer == \E c \in Client : cpc[c] = "write" /\ cur[c] = conn_fd /\ ~Cut(cur[c])
<1>1. ASSUME MpInv, running
      PROVE  (Idle => AllClosed /\ NoReader) /\ (Blocked => Writer)
  <2>1. /\ MpTypeOK /\ HandledOnce /\ OwnersKnown /\ ClosedMeansAnswered /\ NobodyForgotten
        /\ base \in Nat /\ opened \in Nat /\ accepted \in base..opened /\ 1..opened \subseteq Conn
    BY <1>1, MpAssumption DEF MpInv, MpServerInv, MpTypeOK, HandledOnce
  <2>2. ASSUME Idle PROVE AllClosed
    <3>1. ~(opened > accepted) /\ interest = {} /\ events = {} /\ ~Serving
      BY <1>1, <2>1, <2>2 DEF Ready, NobodyForgotten, Serving
    <3>2. opened = accepted
      BY <2>1, <3>1
    <3> QED BY <1>1, <2>1, <3>1, <3>2 DEF NobodyForgotten, Waiting
  <2>3. ASSUME Idle, NEW c \in Client, cpc[c] = "read", ~Cut(cur[c])
        PROVE  sock[cur[c]].reply # NoReply
    <3>1. cur[c] \in 1..opened /\ sock[cur[c]].owner = c /\ sock[cur[c]].sent
      BY <2>1, <2>3 DEF OwnersKnown, NobodyForgotten
    <3>2. cur[c] \in (base + 1)..opened
      BY <1>1, <2>1, <2>3, <3>1 DEF Cut
    <3>3. sock[cur[c]].closed /\ cur[c] \in Conn
      BY <2>1, <2>2, <2>3, <3>1, <3>2
    <3> QED BY <2>1, <2>3, <3>1, <3>3 DEF ClosedMeansAnswered, Answered
  <2>4. ASSUME Blocked PROVE Writer
    <3>1. conn_fd \in 1..accepted /\ conn_fd > base
      BY <1>1, <2>1, <2>4 DEF HandledOnce, NobodyForgotten, Serving
    <3>2. conn_fd \in 1..opened /\ sock[conn_fd].owner \in Client
      BY <2>1, <3>1 DEF OwnersKnown
    <3>3. cpc[sock[conn_fd].owner] = "write" /\ cur[sock[conn_fd].owner] = conn_fd
      BY <2>1, <2>4, <3>2 DEF NobodyForgotten
    <3>4. ~Cut(conn_fd)
      BY <1>1, <2>1, <3>1 DEF Cut
    <3> QED BY <3>2, <3>3, <3>4
  <2> QED BY <2>2, <2>3, <2>4
<1>2. MpInv => (running => (Idle => AllClosed /\ NoReader) /\ (Blocked => Writer))
  BY <1>1
<1> QED BY <1>2, MpInductive, PTL

-----------------------------------------------------------------------------
(* The server implements LetterService.                                    *)

\* A step that finds no answer and leaves the counts alone is none of the
\* service.
LEMMA NoAnswer ==
  ASSUME MpServerInv, UNCHANGED <<msg_buf, produced, consumed>>,
         \A k \in Conn : msg_buf[k] # NoReply => sock'[k].want = sock[k].want
  PROVE  UNCHANGED Service!serviceVars
<1>1. ASSUME NEW k \in Conn PROVE Verdict'[k] = Verdict[k]
  BY DEF Verdict, ER, NoReply
<1>2. Verdict' = Verdict
  <2>1. Verdict' = [k \in Conn |-> Verdict'[k]] /\ Verdict = [k \in Conn |-> Verdict[k]]
    BY DEF Verdict
  <2> QED BY <1>1, <2>1
<1> QED BY <1>2 DEF Service!serviceVars

\* The answer found for a request is the answer of the service.
LEMMA AnswerIsVerdict ==
  ASSUME MpServerInv, running, mpc = "begin", NEW a, Found(a), UNCHANGED <<conn_fd, sock>>,
         NEW b, b = IF a # ER THEN a ELSE IF Want = "p" THEN -3 ELSE -4
  PROVE  conn_fd \in Conn /\ Service!Answer(conn_fd, b)
<1>1. conn_fd \in Conn /\ msg_buf[conn_fd] = NoReply /\ MpTypeOK
  BY RingBefore
<1>2. msg_buf' = [msg_buf EXCEPT ![conn_fd] = a]
  BY DEF Found
<1>3. Verdict[conn_fd] = -1
  BY <1>1 DEF Verdict, NoReply, ER
<1>4. \A k \in Conn : Verdict'[k] = IF k = conn_fd THEN b ELSE Verdict[k]
  BY <1>1, <1>2 DEF Verdict, Want, MpTypeOK
<1>5. Verdict' = [Verdict EXCEPT ![conn_fd] = b]
  <2>1. Verdict' = [k \in Conn |-> Verdict'[k]]
    BY DEF Verdict
  <2>2. [Verdict EXCEPT ![conn_fd] = b] = [k \in Conn |-> IF k = conn_fd THEN b ELSE Verdict[k]]
    BY DEF Verdict
  <2> QED BY <1>4, <2>1, <2>2
<1> QED BY <1>1, <1>3, <1>5 DEF Service!Answer, Service!None

\* Every step of the server's system is a step of the service, or none.
LEMMA ServiceStep == ASSUME MpServerInv, [Next]_vars
                     PROVE  [Service!ServiceNext]_Service!serviceVars
<1>0. MpTypeOK /\ HandledOnce
  BY DEF MpServerInv
<1>1. ASSUME ProduceBegin, UseBuffer PROVE Service!ServiceNext
  <2>1. /\ running /\ mpc = "begin" /\ Found(OK) /\ SEM_EMPTY >= 1
        /\ produced' = produced + 1 /\ UNCHANGED <<consumed, conn_fd, sock>>
    BY <1>1 DEF ProduceBegin, UseBuffer, Goto, loopVars
  <2>2. produced - consumed < N
    BY <2>1, RingBefore, MpAssumption
  <2>3. conn_fd \in Conn /\ Service!Answer(conn_fd, -2)
    BY <2>1, AnswerIsVerdict DEF OK, ER
  <2> QED BY <2>1, <2>2, <2>3 DEF Service!ServiceNext, Service!Produce, Service!Ok
<1>2. ASSUME ConsumeBegin, UseBuffer PROVE Service!ServiceNext
  <2>1. /\ running /\ mpc = "begin" /\ Found(buf[consumer_index]) /\ SEM_FULL >= 1
        /\ consumed' = consumed + 1 /\ UNCHANGED <<produced, conn_fd, sock>>
    BY <1>2 DEF ConsumeBegin, UseBuffer, Goto, loopVars
  <2>2. consumed < produced /\ buf[consumer_index] = consumed % R /\ consumed % R >= 0
    BY <2>1, RingBefore, MpAssumption
  <2>3. conn_fd \in Conn /\ Service!Answer(conn_fd, consumed % R)
    <3>1. buf[consumer_index] # ER
      BY <2>1, RingBefore, MpAssumption DEF ER
    <3> QED BY <2>1, <2>2, <3>1, AnswerIsVerdict
  <2> QED BY <2>1, <2>2, <2>3 DEF Service!ServiceNext, Service!Consume
<1>3. ASSUME TimeOut, UseBuffer PROVE Service!ServiceNext
  <2>1. /\ running /\ mpc = "begin" /\ Found(ER)
        /\ IF Want = "p" THEN SEM_EMPTY = 0 ELSE SEM_FULL = 0
        /\ UNCHANGED <<produced, consumed, conn_fd, sock>>
    BY <1>3 DEF TimeOut, UseBuffer, Goto, loopVars
  <2>2. CASE Want = "p"
    <3>1. produced - consumed = N
      BY <2>1, <2>2, RingBefore, MpAssumption
    <3>2. conn_fd \in Conn /\ Service!Answer(conn_fd, -3)
      BY <2>1, <2>2, AnswerIsVerdict
    <3> QED BY <2>1, <3>1, <3>2 DEF Service!ServiceNext, Service!Refuse, Service!NoRoom
  <2>3. CASE Want # "p"
    <3>1. produced = consumed
      BY <2>1, <2>3, RingBefore
    <3>2. conn_fd \in Conn /\ Service!Answer(conn_fd, -4)
      BY <2>1, <2>3, AnswerIsVerdict
    <3> QED BY <2>1, <3>1, <3>2 DEF Service!ServiceNext, Service!Refuse, Service!NoLetter
  <2> QED BY <2>2, <2>3
<1>4. ASSUME SemEnd, UseBuffer PROVE UNCHANGED Service!serviceVars
  BY <1>4, NoAnswer DEF SemEnd, UseBuffer, ringVars
<1>5. CASE TestFlag \/ EpollWait \/ BatchDone \/ Accept \/ StartWorker
             \/ ReadRequest \/ RemoveSemaphores \/ Return \/ Interrupt \/ Crash
  <2>1. UNCHANGED <<msg_buf, produced, consumed, sock>>
    BY <1>5 DEF TestFlag, EpollWait, BatchDone, Accept, StartWorker, ReadRequest,
       RemoveSemaphores, Return, Interrupt, Crash, EndProcess, ringVars
  <2> QED BY <2>1, NoAnswer
<1>6. CASE WriteReply \/ CloseConnection
  <2>1. UNCHANGED <<msg_buf, produced, consumed>>
    BY <1>6 DEF WriteReply, CloseConnection, ringVars
  <2>2. \A k \in Conn : sock'[k].want = sock[k].want
    <3>1. CASE WriteReply
      BY <1>0, <3>1 DEF WriteReply, MpTypeOK
    <3>2. CASE CloseConnection
      BY <1>0, <3>2 DEF CloseConnection, MpTypeOK
    <3> QED BY <1>6, <3>1, <3>2
  <2> QED BY <2>1, <2>2, NoAnswer
<1>7. CASE Restart
  <2>1. UNCHANGED <<msg_buf, sock>> /\ produced' = 0 /\ consumed' = 0
    BY <1>7 DEF Restart
  <2>2. Verdict' = Verdict
    BY <2>1 DEF Verdict
  <2> QED BY <2>1, <2>2 DEF Service!ServiceNext, Service!Renew
<1>8. ASSUME NEW c \in Client, Connect(c) PROVE UNCHANGED Service!serviceVars
  <2>1. UNCHANGED <<msg_buf, produced, consumed>>
    BY <1>8 DEF Connect, ringVars
  <2>2. ASSUME NEW k \in Conn, msg_buf[k] # NoReply PROVE sock'[k] = sock[k]
    <3>1. k # opened + 1
      BY <1>0, <2>2, MpAssumption DEF HandledOnce, MpTypeOK
    <3> QED BY <1>8, <3>1, <1>0 DEF Connect, MpTypeOK
  <2> QED BY <2>1, <2>2, NoAnswer
<1>9. ASSUME NEW c \in Client, WriteRequest(c) PROVE UNCHANGED Service!serviceVars
  <2>1. UNCHANGED <<msg_buf, produced, consumed>>
    BY <1>9 DEF WriteRequest, ringVars
  <2>2. \A k \in Conn : sock'[k].want = sock[k].want
    BY <1>9, <1>0 DEF WriteRequest, MpTypeOK
  <2> QED BY <2>1, <2>2, NoAnswer
<1>10. ASSUME NEW c \in Client, ReadReply(c) \/ Quit(c) \/ Kill(c)
       PROVE  UNCHANGED Service!serviceVars
  <2>1. UNCHANGED <<msg_buf, produced, consumed, sock>>
    BY <1>10 DEF ReadReply, Quit, Kill, ClientGoto, ringVars
  <2> QED BY <2>1, NoAnswer
<1>11. CASE UNCHANGED vars
  <2>1. UNCHANGED <<msg_buf, produced, consumed, sock>>
    BY <1>11 DEF vars, ringVars
  <2> QED BY <2>1, NoAnswer
<1> QED BY <1>1, <1>2, <1>3, <1>4, <1>5, <1>6, <1>7, <1>8, <1>9, <1>10, <1>11
        DEF Next, Server, UseBuffer, ClientStep

\* One thread, an edge of epoll for each connection, two semaphores with a time
\* limit and a ring implement a bounded queue of letters served one request at
\* a time: a request is refused only when the queue could not serve it.
THEOREM MpImplementsService == Spec => ImplementsService
<1>1. MpInit => Service!ServiceInit
  <2> SUFFICES ASSUME MpInit PROVE Service!ServiceInit
    OBVIOUS
  <2>1. Verdict = [k \in Conn |-> -1]
    BY DEF MpInit, Verdict, NoReply, ER
  <2> QED BY <2>1 DEF MpInit, Service!ServiceInit, Service!None
<1>2. MpInv /\ [Next]_vars => [Service!ServiceNext]_Service!serviceVars
  BY ServiceStep DEF MpInv
<1> QED BY <1>1, <1>2, MpInductive, PTL
        DEF Spec, ImplementsService, Service!ServiceSpec
=============================================================================
