--------------------------- MODULE DatagramProofs ---------------------------
(***************************************************************************)
(* Theorems about Datagram, for any number of clients, any lengths of      *)
(* their addresses and any signals, kills and starts: DgramInv is an       *)
(* invariant, so that an answer reaches the sender of its datagram only    *)
(* until one goes astray, and that takes three addresses of certain        *)
(* lengths; one datagram at most is received after SIGINT; and a server    *)
(* fails for one of four reasons only.                                     *)
(***************************************************************************)
EXTENDS Datagram, TLAPS

LEMMA InitEstablishes == DgramInit => AnswerInv
<1> SUFFICES ASSUME DgramInit PROVE AnswerInv
  OBVIOUS
<1>1. DgramTypeOK
  <2>1. /\ signals = 0 /\ kills = 0 /\ lives = 0
        /\ MaxSignals \in Nat /\ MaxKills \in Nat /\ MaxLives \in Nat
    BY DatagramAssumption DEF DgramInit
  <2>2. /\ signals \in 0..MaxSignals /\ kills \in 0..MaxKills /\ lives \in 0..MaxLives
    BY <2>1
  <2>3. queue \in Seq(Client) /\ Len(queue) <= QueueLen
    BY DatagramAssumption DEF DgramInit
  <2>4. /\ cpc \in [Client -> {"new", "send", "recv", "exited", "dropped", "failed", "killed"}]
        /\ inbox \in [Client -> Seq(Client)] /\ got \in [Client -> Client \cup {Nobody}]
    BY DEF DgramInit
  <2>5. /\ answers \in BOOLEAN /\ file \in BOOLEAN /\ fl \in BOOLEAN /\ spc = "out"
        /\ buff = Nobody /\ client_addr = Nobody /\ addrlen = Unset /\ handled = {} /\ late = 0
        /\ received = {} /\ astray = FALSE
    BY DEF DgramInit
  <2> QED BY <2>2, <2>3, <2>4, <2>5 DEF DgramTypeOK
<1>2. queue = <<>> /\ \A c \in Client : ~Queued(c)
  BY DEF DgramInit, Queued
<1>3. OneAnswerEach
  BY <1>2 DEF DgramInit, OneAnswerEach, IsInjective, Serving
<1>4. SentOnce
  BY <1>2 DEF DgramInit, SentOnce
<1>5. ServesReceived /\ OneMoreAfterInterrupt
  BY DEF DgramInit, ServesReceived, OneMoreAfterInterrupt
<1> QED BY <1>1, <1>3, <1>4, <1>5 DEF AnswerInv

-----------------------------------------------------------------------------
(* The queue.                                                              *)

\* The first datagram is taken from the queue.
LEMMA Taken ==
  ASSUME queue \in Seq(Client), queue # <<>>, IsInjective(queue), queue' = Tail(queue)
  PROVE  /\ queue' \in Seq(Client) /\ Len(queue') <= Len(queue) /\ IsInjective(queue')
         /\ Head(queue) \in Client /\ Queued(Head(queue))
         /\ \A c \in Client : Queued(c)' <=> (Queued(c) /\ c # Head(queue))
<1>1. /\ queue' \in Seq(Client) /\ Len(queue') = Len(queue) - 1 /\ Len(queue) \in Nat \ {0}
      /\ Head(queue) = queue[1] /\ Head(queue) \in Client
  OBVIOUS
<1>2. DOMAIN queue = 1..Len(queue) /\ DOMAIN queue' = 1..(Len(queue) - 1)
  BY <1>1
<1>3. \A k \in 1..(Len(queue) - 1) : queue'[k] = queue[k + 1]
  OBVIOUS
<1>4. IsInjective(queue')
  <2>1. ASSUME NEW a \in DOMAIN queue', NEW b \in DOMAIN queue', queue'[a] = queue'[b]
        PROVE  a = b
    <3>1. a \in Int /\ b \in Int /\ a + 1 \in DOMAIN queue /\ b + 1 \in DOMAIN queue
      BY <1>1, <1>2
    <3>2. queue[a + 1] = queue[b + 1]
      BY <1>2, <1>3, <2>1
    <3>3. a + 1 = b + 1
      BY <3>1, <3>2 DEF IsInjective
    <3> QED BY <3>1, <3>3
  <2> QED BY <2>1 DEF IsInjective
<1>5. 1 \in DOMAIN queue
  BY <1>1, <1>2
<1>6. ASSUME NEW c \in Client PROVE Queued(c)' <=> (Queued(c) /\ c # Head(queue))
  <2>1. ASSUME NEW k \in DOMAIN queue', queue'[k] = c
        PROVE  Queued(c) /\ c # Head(queue)
    <3>1. k \in Int /\ k >= 1 /\ k + 1 \in DOMAIN queue
      BY <1>1, <1>2
    <3>2. queue[k + 1] = c
      BY <1>2, <1>3, <2>1
    <3>3. k + 1 # 1
      BY <3>1
    <3>4. c # queue[1]
      BY <1>5, <3>1, <3>2, <3>3 DEF IsInjective
    <3> QED BY <1>1, <3>1, <3>2, <3>4 DEF Queued
  <2>2. ASSUME NEW k \in DOMAIN queue, queue[k] = c, c # Head(queue)
        PROVE  Queued(c)'
    <3>1. k # 1
      BY <1>1, <2>2
    <3>2. k - 1 \in 1..(Len(queue) - 1) /\ (k - 1) + 1 = k
      BY <1>1, <1>2, <3>1
    <3>3. queue'[k - 1] = c
      BY <1>3, <2>2, <3>2
    <3> QED BY <1>2, <3>2, <3>3 DEF Queued
  <2> QED BY <2>1, <2>2 DEF Queued
<1> QED BY <1>1, <1>4, <1>5, <1>6 DEF Queued

\* A datagram is put at its end.
LEMMA Added ==
  ASSUME queue \in Seq(Client), IsInjective(queue), NEW d \in Client, ~Queued(d),
         queue' = Append(queue, d)
  PROVE  /\ queue' \in Seq(Client) /\ Len(queue') = Len(queue) + 1 /\ IsInjective(queue')
         /\ \A c \in Client : Queued(c)' <=> (Queued(c) \/ c = d)
<1>1. queue' \in Seq(Client) /\ Len(queue') = Len(queue) + 1 /\ Len(queue) \in Nat
  OBVIOUS
<1>2. DOMAIN queue = 1..Len(queue) /\ DOMAIN queue' = 1..(Len(queue) + 1)
  BY <1>1
<1>3. (\A k \in DOMAIN queue : queue'[k] = queue[k]) /\ queue'[Len(queue) + 1] = d
  OBVIOUS
<1>4. \A k \in DOMAIN queue' : k \in DOMAIN queue \/ k = Len(queue) + 1
  BY <1>1, <1>2
<1>5. DOMAIN queue \subseteq DOMAIN queue' /\ Len(queue) + 1 \in DOMAIN queue'
  BY <1>1, <1>2
<1>6. IsInjective(queue')
  <2>1. ASSUME NEW a \in DOMAIN queue', NEW b \in DOMAIN queue', queue'[a] = queue'[b]
        PROVE  a = b
    <3>1. \A k \in DOMAIN queue : queue[k] # d
      BY DEF Queued
    <3> QED BY <1>3, <1>4, <2>1, <3>1 DEF IsInjective
  <2> QED BY <2>1 DEF IsInjective
<1>7. \A c \in Client : Queued(c)' <=> (Queued(c) \/ c = d)
  BY <1>3, <1>4, <1>5 DEF Queued
<1> QED BY <1>1, <1>6, <1>7

-----------------------------------------------------------------------------
(* The server.                                                             *)

LEMMA StartPreserves == ASSUME AnswerInv, Start
                        PROVE  AnswerInv'
<1>1. DgramTypeOK /\ OneAnswerEach /\ SentOnce /\ ServesReceived
  BY DEF AnswerInv
<1>2. /\ lives < MaxLives /\ lives' = lives + 1
      /\ spc' = "test" /\ file' = TRUE /\ fl' = TRUE /\ buff' = Nobody
      /\ client_addr' = Nobody /\ addrlen' = Unset /\ received' = {} /\ late' = 0
      /\ UNCHANGED <<queue, answers, cpc, inbox, got, kills, handled, astray, signals>>
  BY DEF Start, clientVars
<1>3. lives \in Nat /\ MaxLives \in Nat
  BY <1>1, DatagramAssumption DEF DgramTypeOK
<1>4. lives' \in 0..MaxLives /\ lives' # 0 /\ (lives' = 1 => lives = 0)
  BY <1>2, <1>3
<1>5. \A c \in Client : Queued(c)' <=> Queued(c)
  BY <1>2 DEF Queued
<1>6. DgramTypeOK'
  BY <1>1, <1>2, <1>4 DEF DgramTypeOK
<1>7. OneAnswerEach'
  <2>1. lives' = 1 => \A c \in Client : cpc[c] # "recv"
    BY <1>1, <1>4 DEF SentOnce
  <2>2. IsInjective(queue)' /\ \A c \in handled' : ~Queued(c)'
    BY <1>1, <1>2, <1>5 DEF OneAnswerEach, DgramTypeOK
  <2>3. \A c \in Client : ~Serving(c)'
    BY <1>2 DEF Serving
  <2>4. ASSUME ~astray, NEW c \in Client
        PROVE  /\ got'[c] \in {Nobody, c} /\ inbox'[c] \in {<<>>, <<c>>}
               /\ inbox'[c] # <<>> => ~Queued(c)' /\ ~Serving(c)'
               /\ answers /\ cpc[c] = "exited" => got[c] = c
               /\ ~(cpc'[c] = "recv" /\ lives' = 1)
    BY <1>1, <1>2, <1>5, <2>1, <2>3, <2>4 DEF OneAnswerEach
  <2> QED BY <1>2, <2>2, <2>4 DEF OneAnswerEach
<1>8. SentOnce'
  <2>1. lives' > 0
    BY <1>2, <1>3
  <2> QED BY <1>1, <1>2, <1>5, <2>1 DEF SentOnce
<1>9. ServesReceived' /\ OneMoreAfterInterrupt'
  BY <1>2, <1>4 DEF ServesReceived, OneMoreAfterInterrupt
<1> QED BY <1>6, <1>7, <1>8, <1>9 DEF AnswerInv

\* A step of the server that empties or leaves the queue and sends nothing.
LEMMA QuietPreserves ==
  ASSUME AnswerInv, Test \/ ReplyFails \/ Close \/ Unlink \/ Interrupt
  PROVE  AnswerInv'
<1>1. DgramTypeOK /\ OneAnswerEach /\ SentOnce /\ ServesReceived /\ OneMoreAfterInterrupt
  BY DEF AnswerInv
<1>2. /\ UNCHANGED <<answers, cpc, inbox, got, kills, buff, client_addr, addrlen,
                     handled, astray, received, late, lives>>
      /\ queue' = queue \/ (queue' = <<>> /\ spc' \in {"out", "unlink"})
      /\ fl' = fl \/ fl' = FALSE
      /\ file' = file \/ file' = FALSE
      /\ spc # "out"
      /\ spc' = spc \/ spc' \in {"recv", "close", "unlink", "out"}
      /\ spc' = "recv" => spc = "recv" \/ (fl /\ spc = "test")
      /\ spc' # spc /\ spc' \notin {"out", "unlink"} => spc = "test"
      /\ spc' = "close" /\ spc # "close" => answers
      /\ spc' = "unlink" /\ spc = "test" => ~answers
  BY DEF Test, ReplyFails, Close, Unlink, Interrupt, clientVars, historyVars, addrVars
<1>3. signals' \in 0..MaxSignals
  <2>1. signals \in 0..MaxSignals /\ MaxSignals \in Nat
    BY <1>1, DatagramAssumption DEF DgramTypeOK
  <2>2. signals' = signals \/ (signals < MaxSignals /\ signals' = signals + 1)
    BY DEF Test, ReplyFails, Close, Unlink, Interrupt
  <2> QED BY <2>1, <2>2
<1>4. /\ queue' \in Seq(Client) /\ Len(queue') <= QueueLen /\ IsInjective(queue')
      /\ \A c \in Client : Queued(c)' => Queued(c)
      /\ spc' \notin {"out", "unlink"} => \A c \in Client : Queued(c) => Queued(c)'
  <2>1. CASE queue' = queue
    BY <1>1, <2>1 DEF DgramTypeOK, OneAnswerEach, Queued
  <2>2. CASE queue' = <<>> /\ spc' \in {"out", "unlink"}
    <3>1. queue' \in Seq(Client) /\ Len(queue') = 0 /\ DOMAIN queue' = {}
      BY <2>2
    <3>2. Len(queue') <= QueueLen
      BY <3>1, DatagramAssumption
    <3> QED BY <2>2, <3>1, <3>2 DEF IsInjective, Queued
  <2> QED BY <1>2, <2>1, <2>2
<1>5. DgramTypeOK'
  <2>1. /\ file' \in BOOLEAN /\ fl' \in BOOLEAN
        /\ spc' \in {"out", "test", "recv", "reply", "close", "unlink"}
    BY <1>1, <1>2 DEF DgramTypeOK
  <2>2. /\ answers' \in BOOLEAN
        /\ buff' \in Client \cup {Nobody} /\ client_addr' \in Client \cup {Nobody}
        /\ addrlen' \in {Unset, 0} \cup {NameLen[c] : c \in Client}
        /\ cpc' \in [Client -> {"new", "send", "recv", "exited", "dropped", "failed", "killed"}]
        /\ inbox' \in [Client -> Seq(Client)] /\ got' \in [Client -> Client \cup {Nobody}]
        /\ handled' \in SUBSET Client /\ received' \in SUBSET handled'
        /\ astray' \in BOOLEAN /\ late' \in Nat
        /\ kills' \in 0..MaxKills /\ lives' \in 0..MaxLives
    BY <1>1, <1>2, Zenon DEF DgramTypeOK
  <2> QED BY <2>1, <2>2, <1>3, <1>4, Zenon DEF DgramTypeOK
<1>6. OneAnswerEach'
  <2>1. \A c \in Client : Serving(c)' => Serving(c)
    BY <1>2 DEF Serving
  <2>2. spc' \notin {"out", "unlink"} => \A c \in Client : Serving(c) => Serving(c)'
    BY <1>2 DEF Serving
  <2>3. spc' \notin {"out", "unlink"} => spc \notin {"out", "unlink"}
    BY <1>2
  <2> QED BY <1>1, <1>2, <1>4, <2>1, <2>2, <2>3 DEF OneAnswerEach, DgramTypeOK
<1>7. SentOnce'
  BY <1>1, <1>2, <1>4 DEF SentOnce
<1>8. ServesReceived' /\ OneMoreAfterInterrupt'
  BY <1>1, <1>2 DEF ServesReceived, OneMoreAfterInterrupt
<1> QED BY <1>5, <1>6, <1>7, <1>8 DEF AnswerInv

\* A datagram is taken from the queue: its client has no answer yet.
LEMMA ReceivePreserves == ASSUME AnswerInv, Receive \/ ReceiveFails
                          PROVE  AnswerInv'
<1> DEFINE d == Head(queue)
<1>1. DgramTypeOK /\ OneAnswerEach /\ SentOnce /\ ServesReceived /\ OneMoreAfterInterrupt
  BY DEF AnswerInv
<1>2. /\ spc = "recv" /\ queue # <<>> /\ buff' = d /\ handled' = handled \cup {d}
      /\ received' = received \cup {d}
      /\ \/ /\ queue' = Tail(queue) /\ client_addr' \in Client \cup {Nobody}
            /\ astray' = (astray \/ client_addr' \notin {d, Nobody})
            /\ addrlen' = (IF answers THEN NameLen[d] ELSE 0)
            /\ late' = (IF fl THEN late ELSE late + 1)
            /\ spc' = (IF answers THEN "reply" ELSE "test")
         \/ /\ queue' = <<>> /\ spc' = "out" /\ UNCHANGED <<client_addr, addrlen, astray, late>>
      /\ UNCHANGED <<file, fl, answers, cpc, inbox, got, kills, signals, lives>>
  <2>1. d \in Client => Senders(d) \subseteq Client \cup {Nobody}
    BY DEF Senders, Spelled
  <2>2. queue # <<>> => d \in Client
    BY <1>1 DEF DgramTypeOK
  <2> HIDE DEF d
  <2>3. CASE Receive
    <3>1. queue # <<>> /\ client_addr' \in Senders(d)
      BY <2>3 DEF Receive, d
    <3>2. client_addr' \in Client \cup {Nobody}
      BY <2>1, <2>2, <3>1
    <3> QED BY <2>3, <3>2 DEF Receive, Rest, Length, clientVars, d
  <2>4. CASE ReceiveFails
    BY <2>4 DEF ReceiveFails, clientVars, d
  <2> QED BY <2>3, <2>4
<1>3. queue \in Seq(Client) /\ IsInjective(queue) /\ d \in Client /\ Queued(d)
      /\ Len(queue) <= QueueLen
  <2>1. queue \in Seq(Client) /\ IsInjective(queue) /\ Len(queue) <= QueueLen
    BY <1>1 DEF DgramTypeOK, OneAnswerEach
  <2>2. d \in Client /\ 1 \in DOMAIN queue /\ queue[1] = d
    BY <1>2, <2>1
  <2> QED BY <2>1, <2>2 DEF Queued
<1>4. d \notin handled /\ cpc[d] \notin {"new", "send"} /\ (~astray => inbox[d] = <<>>)
  BY <1>1, <1>3 DEF OneAnswerEach, SentOnce
<1> HIDE DEF d
<1>5. /\ queue' \in Seq(Client) /\ Len(queue') <= QueueLen /\ IsInjective(queue')
      /\ \A c \in Client : Queued(c)' => Queued(c) /\ c # d
      /\ spc' # "out" => \A c \in Client : Queued(c) /\ c # d => Queued(c)'
  <2>1. CASE queue' = Tail(queue)
    <3>1. /\ queue' \in Seq(Client) /\ Len(queue') <= Len(queue) /\ IsInjective(queue')
          /\ \A c \in Client : Queued(c)' <=> (Queued(c) /\ c # d)
      BY <1>2, <1>3, <2>1, Taken DEF d
    <3>2. Len(queue') <= QueueLen
      <4>1. Len(queue) \in Nat /\ Len(queue') \in Nat /\ QueueLen \in Nat
        BY <1>3, <3>1, DatagramAssumption
      <4> QED BY <1>3, <3>1, <4>1
    <3> QED BY <3>1, <3>2
  <2>2. CASE queue' = <<>> /\ spc' = "out"
    <3>1. queue' \in Seq(Client) /\ Len(queue') = 0 /\ DOMAIN queue' = {}
      BY <2>2
    <3>2. Len(queue') <= QueueLen
      BY <3>1, DatagramAssumption
    <3> QED BY <2>2, <3>1, <3>2 DEF IsInjective, Queued
  <2> QED BY <1>2, <2>1, <2>2
<1>6. /\ handled' \in SUBSET Client /\ received' \in SUBSET handled' /\ astray' \in BOOLEAN
      /\ ~astray' => ~astray /\ (spc' = "reply" => client_addr' \in {d, Nobody})
  <2>1. /\ handled \in SUBSET Client /\ received \in SUBSET handled /\ astray \in BOOLEAN
    BY <1>1 DEF DgramTypeOK
  <2>2. handled' \in SUBSET Client /\ received' \in SUBSET handled'
    BY <1>2, <1>3, <2>1
  <2>3. CASE spc' = "out" /\ astray' = astray
    BY <2>1, <2>2, <2>3
  <2>4. CASE astray' = (astray \/ client_addr' \notin {d, Nobody})
    BY <2>1, <2>2, <2>4
  <2> QED BY <1>2, <2>3, <2>4
<1>7. late = 0 /\ late' \in Nat /\ late' <= 1 /\ (fl => late' = 0)
  <2>1. late = 0
    BY <1>1, <1>2 DEF ServesReceived
  <2>2. late' = late \/ (~fl /\ late' = late + 1)
    BY <1>2
  <2> QED BY <2>1, <2>2
<1>8. DgramTypeOK'
  <2>1. addrlen' \in {Unset, 0} \cup {NameLen[c] : c \in Client}
    BY <1>1, <1>2, <1>3 DEF DgramTypeOK
  <2>2. client_addr' \in Client \cup {Nobody}
    BY <1>1, <1>2, <1>3 DEF DgramTypeOK
  <2>3. spc' \in {"out", "test", "reply"}
    BY <1>2
  <2> QED BY <1>1, <1>2, <1>3, <1>5, <1>6, <1>7, <2>1, <2>2, <2>3 DEF DgramTypeOK
<1>9. OneAnswerEach'
  <2>1. \A c \in Client : Serving(c)' => c = d
    BY <1>2 DEF Serving
  <2>2. \A c \in handled' : ~Queued(c)'
    BY <1>1, <1>2, <1>3, <1>5 DEF OneAnswerEach, DgramTypeOK
  <2>3. ASSUME ~astray', NEW c \in Client, cpc[c] = "recv", lives = 1, spc' \notin {"out", "unlink"}
        PROVE  Queued(c)' \/ Serving(c)' \/ inbox[c] # <<>>
    <3>1. Queued(c) \/ inbox[c] # <<>>
      BY <1>1, <1>2, <1>6, <2>3 DEF OneAnswerEach, Serving
    <3>2. answers
      BY <1>1, <2>3 DEF SentOnce
    <3>3. spc' = "reply" /\ buff' = d
      BY <1>2, <2>3, <3>2
    <3> QED BY <1>5, <2>3, <3>1, <3>3 DEF Serving
  <2>4. ASSUME ~astray', NEW c \in Client
        PROVE  /\ got[c] \in {Nobody, c} /\ inbox[c] \in {<<>>, <<c>>}
               /\ inbox[c] # <<>> => ~Queued(c)' /\ ~Serving(c)'
               /\ answers /\ cpc[c] = "exited" => got[c] = c
    BY <1>1, <1>4, <1>5, <1>6, <2>1, <2>4 DEF OneAnswerEach
  <2> QED BY <1>2, <1>5, <2>2, <2>3, <2>4 DEF OneAnswerEach
<1>10. SentOnce'
  BY <1>1, <1>2, <1>4, <1>5, <1>6 DEF SentOnce
<1>11. ServesReceived' /\ OneMoreAfterInterrupt'
  <2>1. /\ spc' = "reply" => answers' /\ buff' \in handled'
        /\ spc' = "reply" /\ ~astray' => client_addr' \in {buff', Nobody}
    BY <1>2, <1>6
  <2>2. lives' # 0
    BY <1>1, <1>2 DEF ServesReceived
  <2>3. spc' # "recv"
    BY <1>2
  <2> QED BY <1>2, <1>6, <1>7, <2>1, <2>2, <2>3 DEF ServesReceived, OneMoreAfterInterrupt
<1> QED BY <1>8, <1>9, <1>10, <1>11 DEF AnswerInv

\* The answer goes to whom the datagram came from, and meets no other there.
LEMMA ReplyPreserves == ASSUME AnswerInv, Reply
                        PROVE  AnswerInv'
<1>1. DgramTypeOK /\ OneAnswerEach /\ SentOnce /\ ServesReceived /\ OneMoreAfterInterrupt
  BY DEF AnswerInv
<1>2. /\ spc = "reply" /\ client_addr \in Waiting /\ spc' = "test"
      /\ inbox' = [inbox EXCEPT ![client_addr] = Append(@, buff)]
      /\ UNCHANGED <<answers, file, fl, buff, client_addr, addrlen, queue, cpc, got, kills,
                     handled, astray, received, late, signals, lives>>
  BY DEF Reply, addrVars, historyVars
<1>3. /\ buff \in Client /\ client_addr \in Client /\ buff \in handled
      /\ ~astray => client_addr = buff
  <2>1. client_addr \in Client /\ Nobody \notin Client
    BY <1>2, DatagramAssumption DEF Waiting, Nobody
  <2> QED BY <1>1, <1>2, <2>1 DEF ServesReceived, DgramTypeOK
<1>4. ~astray => inbox[buff] = <<>> /\ ~Queued(buff)
  BY <1>1, <1>2, <1>3 DEF OneAnswerEach, Serving
<1>5. /\ inbox' \in [Client -> Seq(Client)]
      /\ ~astray => /\ inbox'[buff] = <<buff>>
                    /\ \A c \in Client : c # buff => inbox'[c] = inbox[c]
  <2>1. inbox \in [Client -> Seq(Client)]
    BY <1>1 DEF DgramTypeOK
  <2>2. Append(inbox[client_addr], buff) \in Seq(Client)
    BY <1>3, <2>1
  <2>3. ASSUME ~astray PROVE Append(inbox[buff], buff) = <<buff>>
    <3>1. inbox[buff] = <<>>
      BY <1>4, <2>3
    <3> QED BY <3>1
  <2> QED BY <1>2, <1>3, <2>1, <2>2, <2>3
<1>6. \A c \in Client : (Queued(c)' <=> Queued(c)) /\ ~Serving(c)'
  BY <1>2 DEF Queued, Serving
<1>7. DgramTypeOK'
  BY <1>1, <1>2, <1>5 DEF DgramTypeOK
<1>8. OneAnswerEach'
  <2>1. \A c \in Client : Serving(c) => c = buff
    BY DEF Serving
  <2>2. <<buff>> # <<>>
    OBVIOUS
  <2>3. \A c \in handled : ~Queued(c)'
    BY <1>1, <1>6 DEF OneAnswerEach, DgramTypeOK
  <2>4. ASSUME ~astray, NEW c \in Client
        PROVE  /\ got[c] \in {Nobody, c} /\ inbox'[c] \in {<<>>, <<c>>}
               /\ inbox'[c] # <<>> => ~Queued(c)' /\ ~Serving(c)'
               /\ answers /\ cpc[c] = "exited" => got[c] = c
               /\ cpc[c] = "recv" /\ lives = 1 => Queued(c)' \/ inbox'[c] # <<>>
    <3>1. CASE c = buff
      BY <1>1, <1>4, <1>5, <1>6, <2>2, <2>4, <3>1 DEF OneAnswerEach
    <3>2. CASE c # buff
      BY <1>1, <1>2, <1>5, <1>6, <2>1, <2>4, <3>2 DEF OneAnswerEach
    <3> QED BY <3>1, <3>2
  <2> QED BY <1>1, <1>2, <2>3, <2>4 DEF OneAnswerEach
<1>9. SentOnce'
  BY <1>1, <1>2, <1>3, <1>5, <1>6 DEF SentOnce
<1>10. ServesReceived' /\ OneMoreAfterInterrupt'
  BY <1>1, <1>2 DEF ServesReceived, OneMoreAfterInterrupt
<1> QED BY <1>7, <1>8, <1>9, <1>10 DEF AnswerInv

-----------------------------------------------------------------------------
(* The clients.                                                            *)

\* A client that neither sends nor receives, but moves on.
LEMMA MovePreserves ==
  ASSUME AnswerInv, NEW d \in Client, Bind(d) \/ SendFails(d) \/ Kill(d)
  PROVE  AnswerInv'
<1>1. DgramTypeOK /\ OneAnswerEach /\ SentOnce /\ ServesReceived /\ OneMoreAfterInterrupt
  BY DEF AnswerInv
<1>2. /\ UNCHANGED <<answers, file, spc, fl, buff, client_addr, addrlen, handled, astray,
                     received, late, signals, lives, queue, inbox, got>>
      /\ \E to \in {"send", "failed", "killed"} :
           /\ cpc' = [cpc EXCEPT ![d] = to]
           /\ to = "send" => cpc[d] = "new"
  BY DEF Bind, SendFails, Kill, serverVars, addrVars, historyVars
<1>3. kills' \in 0..MaxKills
  <2>1. kills \in 0..MaxKills /\ MaxKills \in Nat
    BY <1>1, DatagramAssumption DEF DgramTypeOK
  <2>2. kills' = kills \/ (kills < MaxKills /\ kills' = kills + 1)
    BY DEF Bind, SendFails, Kill
  <2> QED BY <2>1, <2>2
<1>4. /\ cpc' \in [Client -> {"new", "send", "recv", "exited", "dropped", "failed", "killed"}]
      /\ \A c \in Client : /\ cpc'[c] = "recv" => cpc[c] = "recv"
                           /\ cpc'[c] = "exited" => cpc[c] = "exited"
                           /\ cpc'[c] \in {"new", "send"} => cpc[c] \in {"new", "send"}
  BY <1>1, <1>2 DEF DgramTypeOK
<1>5. \A c \in Client : (Queued(c)' <=> Queued(c)) /\ (Serving(c)' <=> Serving(c))
  BY <1>2 DEF Queued, Serving
<1>6. DgramTypeOK'
  BY <1>1, <1>2, <1>3, <1>4 DEF DgramTypeOK
<1>7. OneAnswerEach'
  BY <1>1, <1>2, <1>4, <1>5 DEF OneAnswerEach, DgramTypeOK
<1>8. SentOnce'
  BY <1>1, <1>2, <1>4, <1>5 DEF SentOnce
<1>9. ServesReceived' /\ OneMoreAfterInterrupt'
  BY <1>1, <1>2 DEF ServesReceived, OneMoreAfterInterrupt
<1> QED BY <1>6, <1>7, <1>8, <1>9 DEF AnswerInv

LEMMA SendPreserves == ASSUME AnswerInv, NEW d \in Client, Send(d)
                       PROVE  AnswerInv'
<1>1. DgramTypeOK /\ OneAnswerEach /\ SentOnce /\ ServesReceived /\ OneMoreAfterInterrupt
  BY DEF AnswerInv
<1>2. /\ cpc[d] = "send" /\ spc # "out" /\ Len(queue) < QueueLen /\ queue' = Append(queue, d)
      /\ cpc' = [cpc EXCEPT ![d] = IF answers THEN "recv" ELSE "exited"]
      /\ UNCHANGED <<answers, file, spc, fl, buff, client_addr, addrlen, handled, astray,
                     received, late, signals, lives, inbox, got, kills>>
  BY DEF Send, SocketOpen, serverVars, addrVars, historyVars
<1>3. /\ queue \in Seq(Client) /\ IsInjective(queue) /\ ~Queued(d) /\ d \notin handled
      /\ ~astray => inbox[d] = <<>>
      /\ cpc \in [Client -> {"new", "send", "recv", "exited", "dropped", "failed", "killed"}]
  BY <1>1, <1>2 DEF DgramTypeOK, OneAnswerEach, SentOnce
<1>4. /\ queue' \in Seq(Client) /\ Len(queue') = Len(queue) + 1 /\ IsInjective(queue')
      /\ \A c \in Client : Queued(c)' <=> (Queued(c) \/ c = d)
  BY <1>2, <1>3, Added
<1>5. Len(queue') <= QueueLen
  <2>1. Len(queue) \in Nat /\ QueueLen \in Nat
    BY <1>3, DatagramAssumption
  <2> QED BY <1>2, <1>4, <2>1
<1>6. /\ cpc' \in [Client -> {"new", "send", "recv", "exited", "dropped", "failed", "killed"}]
      /\ cpc'[d] \notin {"new", "send"} /\ (cpc'[d] = "recv" <=> answers)
      /\ \A c \in Client : c # d => cpc'[c] = cpc[c]
  BY <1>2, <1>3
<1>7. lives \in Nat /\ lives # 0
  BY <1>1, <1>2 DEF DgramTypeOK, ServesReceived
<1>8. \A c \in Client : Serving(c)' <=> Serving(c)
  BY <1>2 DEF Serving
<1>9. DgramTypeOK'
  BY <1>1, <1>2, <1>4, <1>5, <1>6 DEF DgramTypeOK
<1>10. OneAnswerEach'
  <2>1. \A c \in handled : ~Queued(c)'
    BY <1>1, <1>3, <1>4 DEF OneAnswerEach, DgramTypeOK
  <2>2. ASSUME ~astray, NEW c \in Client
        PROVE  /\ got[c] \in {Nobody, c} /\ inbox[c] \in {<<>>, <<c>>}
               /\ inbox[c] # <<>> => ~Queued(c)' /\ ~Serving(c)'
               /\ answers /\ cpc'[c] = "exited" => got[c] = c
               /\ cpc'[c] = "recv" /\ lives = 1 /\ spc \notin {"out", "unlink"} =>
                    Queued(c)' \/ Serving(c)' \/ inbox[c] # <<>>
    <3>1. CASE c = d
      BY <1>1, <1>3, <1>4, <1>6, <2>2, <3>1 DEF OneAnswerEach
    <3>2. CASE c # d
      BY <1>1, <1>4, <1>6, <1>8, <2>2, <3>2 DEF OneAnswerEach
    <3> QED BY <3>1, <3>2
  <2> QED BY <1>2, <1>4, <2>1, <2>2 DEF OneAnswerEach
<1>11. SentOnce'
  <2>1. lives > 0
    BY <1>7
  <2> QED BY <1>1, <1>2, <1>4, <1>6, <2>1 DEF SentOnce
<1>12. ServesReceived' /\ OneMoreAfterInterrupt'
  BY <1>1, <1>2 DEF ServesReceived, OneMoreAfterInterrupt
<1> QED BY <1>9, <1>10, <1>11, <1>12 DEF AnswerInv

LEMMA AnswerPreserves ==
  ASSUME AnswerInv, NEW d \in Client, ReceiveAnswer(d) \/ ReceiveAnswerFails(d)
  PROVE  AnswerInv'
<1>1. DgramTypeOK /\ OneAnswerEach /\ SentOnce /\ ServesReceived /\ OneMoreAfterInterrupt
  BY DEF AnswerInv
<1>2. /\ cpc[d] = "recv" /\ inbox[d] # <<>> /\ inbox' = [inbox EXCEPT ![d] = Tail(@)]
      /\ \/ /\ cpc' = [cpc EXCEPT ![d] = "exited"]
            /\ got' = [got EXCEPT ![d] = Head(inbox[d])]
         \/ cpc' = [cpc EXCEPT ![d] = "dropped"] /\ got' = got
      /\ UNCHANGED <<answers, file, spc, fl, buff, client_addr, addrlen, handled, astray,
                     received, late, signals, lives, queue, kills>>
  BY DEF ReceiveAnswer, ReceiveAnswerFails, serverVars, addrVars, historyVars
<1>3. ~astray => inbox[d] = <<d>>
  BY <1>1, <1>2 DEF OneAnswerEach
<1>4. /\ ~astray => Head(inbox[d]) = d /\ Tail(inbox[d]) = <<>>
      /\ Head(inbox[d]) \in Client /\ Tail(inbox[d]) \in Seq(Client)
  <2>1. inbox[d] \in Seq(Client) /\ inbox[d] # <<>>
    BY <1>1, <1>2 DEF DgramTypeOK
  <2>2. Head(inbox[d]) \in Client /\ Tail(inbox[d]) \in Seq(Client)
    BY <2>1
  <2>3. ASSUME ~astray PROVE Head(inbox[d]) = d /\ Tail(inbox[d]) = <<>>
    <3>1. inbox[d] = <<d>>
      BY <1>3, <2>3
    <3> QED BY <3>1
  <2> QED BY <2>2, <2>3
<1>5. /\ inbox' \in [Client -> Seq(Client)] /\ got' \in [Client -> Client \cup {Nobody}]
      /\ cpc' \in [Client -> {"new", "send", "recv", "exited", "dropped", "failed", "killed"}]
      /\ cpc'[d] \in {"exited", "dropped"}
      /\ ~astray => /\ inbox'[d] = <<>> /\ got'[d] \in {Nobody, d}
                    /\ cpc'[d] = "exited" => got'[d] = d
      /\ \A c \in Client : c # d => inbox'[c] = inbox[c] /\ got'[c] = got[c] /\ cpc'[c] = cpc[c]
  <2>1. /\ inbox \in [Client -> Seq(Client)] /\ got \in [Client -> Client \cup {Nobody}]
        /\ cpc \in [Client -> {"new", "send", "recv", "exited", "dropped", "failed", "killed"}]
        /\ ~astray => got[d] \in {Nobody, d}
    BY <1>1 DEF DgramTypeOK, OneAnswerEach
  <2>2. /\ inbox' \in [Client -> Seq(Client)] /\ inbox'[d] = Tail(inbox[d])
        /\ \A c \in Client : c # d => inbox'[c] = inbox[c]
    BY <1>2, <1>4, <2>1
  <2>3. CASE cpc' = [cpc EXCEPT ![d] = "exited"] /\ got' = [got EXCEPT ![d] = Head(inbox[d])]
    BY <1>4, <2>1, <2>2, <2>3
  <2>4. CASE cpc' = [cpc EXCEPT ![d] = "dropped"] /\ got' = got
    BY <1>4, <2>1, <2>2, <2>4
  <2> QED BY <1>2, <2>3, <2>4
<1>6. \A c \in Client : (Queued(c)' <=> Queued(c)) /\ (Serving(c)' <=> Serving(c))
  BY <1>2 DEF Queued, Serving
<1>7. DgramTypeOK'
  BY <1>1, <1>2, <1>5 DEF DgramTypeOK
<1>8. OneAnswerEach'
  <2>1. \A c \in handled : ~Queued(c)'
    BY <1>1, <1>6 DEF OneAnswerEach, DgramTypeOK
  <2>2. ASSUME ~astray, NEW c \in Client
        PROVE  /\ got'[c] \in {Nobody, c} /\ inbox'[c] \in {<<>>, <<c>>}
               /\ inbox'[c] # <<>> => ~Queued(c)' /\ ~Serving(c)'
               /\ answers /\ cpc'[c] = "exited" => got'[c] = c
               /\ cpc'[c] = "recv" /\ lives = 1 /\ spc \notin {"out", "unlink"} =>
                    Queued(c)' \/ Serving(c)' \/ inbox'[c] # <<>>
    <3>1. CASE c = d
      BY <1>5, <2>2, <3>1
    <3>2. CASE c # d
      BY <1>1, <1>5, <1>6, <2>2, <3>2 DEF OneAnswerEach
    <3> QED BY <3>1, <3>2
  <2> QED BY <1>1, <1>2, <2>1, <2>2 DEF OneAnswerEach
<1>9. SentOnce'
  BY <1>1, <1>2, <1>5, <1>6 DEF SentOnce
<1>10. ServesReceived' /\ OneMoreAfterInterrupt'
  BY <1>1, <1>2 DEF ServesReceived, OneMoreAfterInterrupt
<1> QED BY <1>7, <1>8, <1>9, <1>10 DEF AnswerInv

-----------------------------------------------------------------------------
LEMMA StutterPreserves == ASSUME AnswerInv, UNCHANGED vars
                          PROVE  AnswerInv'
<1>1. UNCHANGED <<answers, file, spc, fl, buff, client_addr, addrlen, queue, cpc, inbox, got,
                  handled, astray, received, late, signals, kills, lives>>
  BY DEF vars
<1>2. DgramTypeOK' /\ ServesReceived' /\ OneMoreAfterInterrupt'
  BY <1>1 DEF AnswerInv, DgramTypeOK, ServesReceived, OneMoreAfterInterrupt
<1>3. OneAnswerEach' /\ SentOnce'
  BY <1>1 DEF AnswerInv, OneAnswerEach, SentOnce, Queued, Serving
<1> QED BY <1>2, <1>3 DEF AnswerInv

-----------------------------------------------------------------------------
\* However many clients send to the one socket, whichever of them are killed and
\* however often the server ends: an answer is the receiver's own, a client gets
\* one at most, and one datagram at most is received after SIGINT.
LEMMA AnswerStep == AnswerInv /\ [Next]_vars => AnswerInv'
BY StartPreserves, QuietPreserves, ReceivePreserves, ReplyPreserves, MovePreserves,
   SendPreserves, AnswerPreserves, StutterPreserves DEF Next, Server, ClientStep

-----------------------------------------------------------------------------
(* Why the server fails.                                                   *)

CauseInv == LengthMet /\ CutShort /\ AwaitsReply /\ StaleAfterDatagram /\ FailureHasCause
              /\ AstrayHasCause

LEMMA CauseInitial == DgramInit => CauseInv
<1> SUFFICES ASSUME DgramInit PROVE CauseInv
  OBVIOUS
<1>1. spc = "out" /\ ~file /\ queue = <<>> /\ ~astray
  BY DEF DgramInit
<1>2. \A c \in Client : ~Queued(c) /\ ~Serving(c)
  BY <1>1 DEF Queued, Serving
<1> QED BY <1>1, <1>2 DEF CauseInv, LengthMet, CutShort, AwaitsReply, StaleAfterDatagram,
                          FailureHasCause, Stale, AstrayHasCause

\* A server starts only where no stale file is.
LEMMA StartKeepsCause == ASSUME AnswerInv, CauseInv, Start
                         PROVE  CauseInv'
<1>1. /\ spc = "out" /\ spc' = "test" /\ received' = {} /\ addrlen' = Unset
      /\ UNCHANGED <<queue, answers, cpc, handled, astray>>
  BY DEF Start, clientVars
<1>2. \A c \in Client : (Queued(c)' <=> Queued(c)) /\ ~Serving(c)'
  BY <1>1 DEF Queued, Serving
<1>3. AwaitsReply'
  BY <1>1, <1>2 DEF CauseInv, AwaitsReply
<1> QED BY <1>1, <1>3 DEF CauseInv, LengthMet, CutShort, StaleAfterDatagram, FailureHasCause,
                          Stale, AstrayHasCause

\* Steps of a server that serves nobody, and SIGINT.
LEMMA QuietKeepsCause == ASSUME AnswerInv, CauseInv, Test \/ Close \/ Unlink \/ Interrupt
                         PROVE  CauseInv'
<1>1. /\ spc # "out" /\ (spc' = "out" => ~file')
      /\ spc' = spc \/ spc' # "reply"
      /\ queue' = queue \/ queue' = <<>>
      /\ UNCHANGED <<answers, cpc, buff, client_addr, addrlen, handled, astray, received>>
  BY DEF Test, Close, Unlink, Interrupt, clientVars, historyVars, addrVars
<1>2. \A c \in Client : (Queued(c)' => Queued(c)) /\ (Serving(c)' => Serving(c))
  BY <1>1 DEF Queued, Serving
<1>3. AwaitsReply'
  BY <1>1, <1>2 DEF CauseInv, AwaitsReply
<1>4. LengthMet' /\ CutShort'
  BY <1>1 DEF CauseInv, LengthMet, CutShort, ShorterBefore
<1> QED BY <1>1, <1>3, <1>4 DEF CauseInv, StaleAfterDatagram, FailureHasCause, Stale,
                                AstrayHasCause

\* The sender's address is cut short only if addrlen is unset, or met before.
LEMMA ReceiveKeepsCause == ASSUME AnswerInv, CauseInv, Receive
                           PROVE  CauseInv'
<1> DEFINE d == Head(queue)
<1>1. /\ spc = "recv" /\ queue # <<>> /\ queue' = Tail(queue)
      /\ buff' = d /\ handled' = handled \cup {d} /\ received' = received \cup {d}
      /\ client_addr' \in Senders(d) /\ addrlen' = Length(d)
      /\ astray' = (astray \/ client_addr' \notin {d, Nobody})
      /\ spc' = (IF answers THEN "reply" ELSE "test")
      /\ UNCHANGED <<answers, cpc>>
  BY DEF Receive, Rest, clientVars
<1>2. queue \in Seq(Client) /\ IsInjective(queue) /\ received \subseteq handled
  BY DEF AnswerInv, DgramTypeOK, OneAnswerEach
<1>3. /\ d \in Client /\ Queued(d) /\ d \notin handled
      /\ \A c \in Client : Queued(c)' <=> (Queued(c) /\ c # d)
  BY <1>1, <1>2, Taken DEF AnswerInv, OneAnswerEach
<1> HIDE DEF d
<1>4. \A c \in Client : Serving(c)' => c = d
  BY <1>1 DEF Serving
<1>5. AwaitsReply'
  BY <1>1, <1>3, <1>4 DEF CauseInv, AwaitsReply
<1>6. NameLen[d] \in Nat \ {0} /\ NameLen[d] # Unset /\ 0 # Unset
  BY <1>3, DatagramAssumption DEF Unset
<1>7. LengthMet'
  <2>1. addrlen' # Unset
    BY <1>1, <1>6 DEF Length
  <2>2. answers => addrlen' = NameLen[d] /\ d \in received'
    BY <1>1 DEF Length
  <2> QED BY <1>1, <2>1, <2>2 DEF LengthMet
<1>8. CutShort'
  <2> SUFFICES ASSUME spc' = "reply", client_addr' = Nobody
               PROVE  received' = {buff'} \/ ShorterBefore'
    BY DEF CutShort
  <2>1. answers
    BY <1>1
  <2>2. ~(addrlen >= NameLen[d])
    <3>1. d # Nobody
      BY <1>3, DatagramAssumption DEF Nobody
    <3> QED BY <1>1, <3>1 DEF Senders
  <2>3. CASE addrlen = Unset
    <3>1. received = {}
      BY <1>1, <2>3 DEF CauseInv, LengthMet
    <3> QED BY <1>1, <3>1
  <2>4. CASE addrlen # Unset
    <3>1. PICK c \in received : addrlen = NameLen[c]
      BY <1>1, <2>1, <2>4 DEF CauseInv, LengthMet
    <3>2. c \in Client
      BY <1>2, <3>1 DEF AnswerInv, DgramTypeOK
    <3>3. NameLen[c] \in Nat
      BY <3>2, DatagramAssumption
    <3>4. NameLen[c] < NameLen[d]
      BY <1>6, <2>2, <3>1, <3>3
    <3>5. c \in received' /\ NameLen[c] < NameLen[buff']
      BY <1>1, <3>1, <3>4
    <3> QED BY <3>5 DEF ShorterBefore
  <2> QED BY <2>3, <2>4
<1>9. spc' # "out"
  BY <1>1
<1>10. AstrayHasCause'
  <2>1. CASE astray
    BY <1>1, <2>1 DEF CauseInv, AstrayHasCause
  <2>2. CASE ~astray /\ client_addr' \notin {d, Nobody}
    <3>1. client_addr' \in Spelled(d)
      BY <1>1, <2>2 DEF Senders
    <3>2. PICK e \in received : NameLen[e] - addrlen >= 3
      BY <3>1 DEF Spelled
    <3>3. answers /\ NameLen[d] - addrlen >= 3
      BY <3>1 DEF Spelled
    <3>4. addrlen # Unset
      BY <1>1, <3>2 DEF CauseInv, LengthMet
    <3>5. PICK b \in received : addrlen = NameLen[b]
      BY <1>1, <3>3, <3>4 DEF CauseInv, LengthMet
    <3>6. b \in handled' /\ e \in handled' /\ d \in handled' /\ d # e
      BY <1>1, <1>2, <1>3, <3>2, <3>5
    <3> QED BY <3>2, <3>3, <3>5, <3>6 DEF AstrayHasCause
  <2>3. CASE ~astray'
    BY <2>3 DEF AstrayHasCause
  <2> QED BY <1>1, <2>1, <2>2, <2>3
<1> QED BY <1>5, <1>7, <1>8, <1>9, <1>10 DEF CauseInv, StaleAfterDatagram, FailureHasCause, Stale

\* recvfrom() refuses an addrlen that is unset: the datagram is the first.
LEMMA ReceiveFailsHasCause == ASSUME AnswerInv, CauseInv, ReceiveFails
                              PROVE  CauseInv'
<1>1. /\ spc = "recv" /\ addrlen = Unset /\ spc' = "out" /\ queue' = <<>>
      /\ handled' = handled \cup {Head(queue)} /\ buff' = Head(queue)
      /\ received' = received \cup {Head(queue)} /\ astray' = astray
  BY DEF ReceiveFails
<1>2. received = {}
  BY <1>1 DEF CauseInv, LengthMet
<1>3. received' = {buff'}
  BY <1>1, <1>2
<1>4. \A c \in Client : ~Queued(c)' /\ ~Serving(c)'
  BY <1>1 DEF Queued, Serving
<1> QED BY <1>1, <1>3, <1>4 DEF CauseInv, LengthMet, CutShort, AwaitsReply,
                                StaleAfterDatagram, FailureHasCause, AstrayHasCause

LEMMA ReplyKeepsCause == ASSUME AnswerInv, CauseInv, Reply
                         PROVE  CauseInv'
<1>1. /\ spc = "reply" /\ spc' = "test"
      /\ UNCHANGED <<answers, cpc, queue, buff, client_addr, addrlen, handled, astray, received>>
  BY DEF Reply, addrVars, historyVars
<1>2. \A c \in Client : (Queued(c)' => Queued(c)) /\ ~Serving(c)'
  BY <1>1 DEF Queued, Serving
<1>3. LengthMet' /\ AwaitsReply'
  BY <1>1, <1>2 DEF CauseInv, LengthMet, AwaitsReply
<1> QED BY <1>1, <1>3 DEF CauseInv, CutShort, StaleAfterDatagram, FailureHasCause, Stale,
                           AstrayHasCause

\* No socket has the address: it was cut short, or its owner has been killed.
LEMMA ReplyFailsHasCause == ASSUME AnswerInv, CauseInv, ReplyFails
                            PROVE  CauseInv'
<1>1. /\ spc = "reply" /\ client_addr \notin Waiting /\ spc' = "out" /\ queue' = <<>>
      /\ UNCHANGED <<answers, cpc, buff, handled, astray, received>>
  BY DEF ReplyFails, clientVars, historyVars, addrVars
<1>2. /\ answers /\ buff \in handled /\ buff \in Client
      /\ ~astray => client_addr \in {buff, Nobody}
  BY <1>1 DEF AnswerInv, ServesReceived, DgramTypeOK
<1>3. received = {buff} \/ cpc[buff] = "killed" \/ ShorterBefore \/ astray
  <2>1. CASE client_addr = Nobody
    BY <1>1, <2>1 DEF CauseInv, CutShort
  <2>2. CASE ~astray /\ client_addr = buff
    <3>1. cpc[buff] # "recv"
      BY <1>1, <1>2, <2>2 DEF Waiting
    <3>2. cpc[buff] \in {"recv", "killed"}
      BY <1>1, <1>2, <2>2 DEF CauseInv, AwaitsReply, Serving
    <3> QED BY <3>1, <3>2
  <2> QED BY <1>2, <2>1, <2>2
<1>4. \A c \in Client : ~Queued(c)' /\ ~Serving(c)'
  BY <1>1 DEF Queued, Serving
<1>5. FailureHasCause'
  BY <1>1, <1>3 DEF FailureHasCause, ShorterBefore
<1> QED BY <1>1, <1>2, <1>4, <1>5 DEF CauseInv, LengthMet, CutShort, AwaitsReply,
                                      StaleAfterDatagram, AstrayHasCause

\* A client leaves "killed" never, and "recv" only with an answer in its socket.
LEMMA ClientKeepsCause ==
  ASSUME AnswerInv, CauseInv, NEW d \in Client, ClientStep(d) \/ Kill(d)
  PROVE  CauseInv'
<1>1. /\ UNCHANGED <<answers, file, spc, buff, client_addr, addrlen, handled, astray, received>>
      /\ \/ queue' = queue
         \/ Send(d) /\ queue' = Append(queue, d)
  BY DEF ClientStep, Bind, Send, SendFails, ReceiveAnswer, ReceiveAnswerFails, Kill,
     serverVars, addrVars, historyVars
<1>2. \E to : /\ cpc' = [cpc EXCEPT ![d] = to]
              /\ \/ to = "send" /\ cpc[d] = "new"
                 \/ to = "failed" /\ cpc[d] = "send"
                 \/ Send(d) /\ cpc[d] = "send" /\ to = (IF answers THEN "recv" ELSE "exited")
                 \/ to \in {"exited", "dropped"} /\ cpc[d] = "recv" /\ inbox[d] # <<>>
                 \/ to = "killed" /\ cpc[d] \in {"send", "recv"}
  BY DEF ClientStep, Bind, Send, SendFails, ReceiveAnswer, ReceiveAnswerFails, Kill
<1>3. cpc \in [Client -> {"new", "send", "recv", "exited", "dropped", "failed", "killed"}]
      /\ queue \in Seq(Client) /\ handled \subseteq Client
  BY DEF AnswerInv, DgramTypeOK
<1>4. \A c \in Client : (c # d => cpc'[c] = cpc[c]) /\ (cpc[c] = "killed" => cpc'[c] = "killed")
  BY <1>2, <1>3
<1>5. \A c \in Client : (Queued(c)' => Queued(c) \/ (Send(d) /\ c = d))
                        /\ (Serving(c)' <=> Serving(c))
  <2>1. CASE queue' = queue
    BY <1>1, <2>1 DEF Queued, Serving
  <2>2. CASE Send(d) /\ queue' = Append(queue, d)
    <3>1. \A k \in DOMAIN queue' : 
       (k \in DOMAIN queue /\ queue'[k] = queue[k]) \/ queue'[k] = d
      BY <1>3, <2>2
    <3> QED BY <1>1, <2>2, <3>1 DEF Queued, Serving
  <2> QED BY <1>1, <2>1, <2>2
<1>6. AwaitsReply'
  <2> SUFFICES ASSUME answers, ~astray, NEW c \in Client, Queued(c)' \/ Serving(c)'
               PROVE  cpc'[c] \in {"recv", "killed"}
    BY <1>1 DEF AwaitsReply
  <2>1. CASE Send(d) /\ c = d
    <3>1. cpc[d] = "send" /\ cpc' = [cpc EXCEPT ![d] = IF answers THEN "recv" ELSE "exited"]
      BY <2>1 DEF Send
    <3>2. cpc'[d] = "recv"
      BY <1>3, <3>1
    <3> QED BY <2>1, <3>2
  <2>2. CASE Queued(c) \/ Serving(c)
    <3>1. cpc[c] \in {"recv", "killed"}
      BY <2>2 DEF CauseInv, AwaitsReply
    <3>2. inbox[c] = <<>>
      BY <2>2 DEF AnswerInv, OneAnswerEach
    <3> QED BY <1>2, <1>3, <1>4, <3>1, <3>2
  <2> QED BY <1>5, <2>1, <2>2
<1>7. LengthMet' /\ CutShort' /\ StaleAfterDatagram' /\ AstrayHasCause'
  BY <1>1 DEF CauseInv, LengthMet, CutShort, ShorterBefore, StaleAfterDatagram, Stale,
              AstrayHasCause
<1>8. FailureHasCause'
  <2>1. Stale' => Stale /\ buff \in Client
    BY <1>1, <1>3 DEF CauseInv, StaleAfterDatagram, Stale
  <2> QED BY <1>1, <1>4, <2>1 DEF CauseInv, FailureHasCause
<1> QED BY <1>6, <1>7, <1>8 DEF CauseInv

LEMMA StutterKeepsCause == ASSUME CauseInv, UNCHANGED vars
                           PROVE  CauseInv'
BY DEF vars, CauseInv, LengthMet, CutShort, ShorterBefore, AwaitsReply, StaleAfterDatagram,
       FailureHasCause, AstrayHasCause, Stale, Queued, Serving

LEMMA EndsStep == ASSUME AnswerInv, EndsOnInterrupt, [Next]_vars
                  PROVE  EndsOnInterrupt'
<1>1. signals \in Nat /\ lives \in Nat
  BY DatagramAssumption DEF AnswerInv, DgramTypeOK
<1>2. CASE Start
  BY <1>1, <1>2 DEF Start, EndsOnInterrupt
<1>3. CASE Server
  BY <1>3 DEF Server, Test, Receive, ReceiveFails, Reply, ReplyFails, Close, Unlink,
     EndsOnInterrupt
<1>4. CASE Interrupt
  BY <1>1, <1>4 DEF Interrupt, EndsOnInterrupt
<1>5. ASSUME NEW c \in Client, ClientStep(c) \/ Kill(c) PROVE EndsOnInterrupt'
  BY <1>5 DEF ClientStep, Bind, Send, SendFails, ReceiveAnswer, ReceiveAnswerFails, Kill,
     serverVars, EndsOnInterrupt
<1>6. CASE UNCHANGED vars
  BY <1>6 DEF vars, EndsOnInterrupt
<1> QED BY <1>2, <1>3, <1>4, <1>5, <1>6 DEF Next

\* Nothing goes astray among clients and servers, and a server that fails has a
\* reason the program knows of.
THEOREM DgramInductive == Spec => []DgramInv
<1>1. DgramInit => AnswerInv /\ CauseInv /\ EndsOnInterrupt
  BY InitEstablishes, CauseInitial DEF DgramInit, EndsOnInterrupt
<1>2. AnswerInv /\ CauseInv /\ [Next]_vars => CauseInv'
  BY StartKeepsCause, QuietKeepsCause, ReceiveKeepsCause, ReceiveFailsHasCause,
     ReplyKeepsCause, ReplyFailsHasCause, ClientKeepsCause, StutterKeepsCause
     DEF Next, Server
<1>3. AnswerInv /\ EndsOnInterrupt /\ [Next]_vars => EndsOnInterrupt'
  BY EndsStep
<1>4. AnswerInv /\ CauseInv /\ EndsOnInterrupt => DgramInv
  BY DEF CauseInv, DgramInv
<1> QED BY <1>1, <1>2, <1>3, <1>4, AnswerStep, PTL DEF Spec

\* For any lengths of the addresses and any kills: the server fails, and leaves
\* the file that stops every later server, only over the first datagram of its
\* life, over one of a client killed since, over one whose address is longer than
\* that of an earlier one of this life, or after an answer has gone astray.
THEOREM DgramFailureHasCause == Spec => []FailureHasCause
<1>1. DgramInv => FailureHasCause
  BY DEF DgramInv
<1> QED BY <1>1, DgramInductive, PTL

\* Until a server is interrupted or fails, or an answer goes astray, nobody waits
\* in vain: a client that waits has its datagram in the queue or with the server,
\* or its answer at its own socket.  It is what WaitingEnds means for a state.
THEOREM DgramNobodyWaitsInVain == Spec => [](signals = 0 /\ ~Stale /\ ~astray =>
  \A c \in Client : cpc[c] = "recv" => Queued(c) \/ Serving(c) \/ inbox[c] = <<c>>)
<1> DEFINE InLine(c) == Queued(c) \/ Serving(c) \/ inbox[c] = <<c>>
<1>1. ASSUME DgramInv, signals = 0, ~Stale, ~astray, NEW c \in Client, cpc[c] = "recv"
      PROVE  InLine(c)
  <2>1. /\ DgramTypeOK /\ OneAnswerEach /\ SentOnce /\ EndsOnInterrupt
        /\ lives \in Nat
    BY <1>1 DEF DgramInv, AnswerInv, DgramTypeOK
  <2>2. lives = 1
    BY <1>1, <2>1 DEF SentOnce, EndsOnInterrupt
  <2>3. spc \notin {"out", "unlink"}
    BY <1>1, <2>1, <2>2 DEF EndsOnInterrupt, Stale
  <2> QED BY <1>1, <2>1, <2>2, <2>3 DEF OneAnswerEach
<1>2. DgramInv => (signals = 0 /\ ~Stale /\ ~astray => \A c \in Client : cpc[c] = "recv" => InLine(c))
  BY <1>1
<1> QED BY <1>2, DgramInductive, PTL
=============================================================================
