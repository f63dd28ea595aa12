----------------------------- MODULE SocketPair -----------------------------
(***************************************************************************)
(* lab_01/socketpair/main.c: a parent and its children over ONE pair of    *)
(* connected stream sockets.  All children inherit sockfd[0]; the parent   *)
(* uses sockfd[1] and keeps sockfd[0] open until its loop is done.         *)
(* A message is named by the child that wrote it; the parent's answer to   *)
(* it ("...ok", always 64 bytes, so that a read takes exactly one answer)  *)
(* carries the same name.                                                  *)
(***************************************************************************)
EXTENDS Integers, Sequences, FiniteSets

CONSTANTS N,             \* children, forked in the order 1..N (N, 3)
          MaxKills,      \* bound: children killed
          MaxForkFails   \* bound: failing calls of fork()

ASSUME PairAssumption == N \in Nat \ {0} /\ MaxKills \in Nat /\ MaxForkFails \in Nat

VARIABLES
  ppc, i,      \* the parent: where, and its loop counter
  cpc,         \* the children
  got,         \* what each child's read() gave it
  up, down,    \* bytes under way to sockfd[1], and to sockfd[0]
  buf,         \* the message the parent has read
  kills, forkFails

vars == <<ppc, i, cpc, got, up, down, buf, kills, forkFails>>

Child == 1..N
Nothing == 0    \* no message; a child that reads end-of-file gets EndOfFile
EndOfFile == N + 1

Init ==
  /\ ppc = "fork" /\ i = 1
  /\ cpc = [c \in Child |-> "none"] /\ got = [c \in Child |-> Nothing]
  /\ up = <<>> /\ down = <<>> /\ buf = Nothing
  /\ kills = 0 /\ forkFails = 0

\* sockfd[1] is open in the parent until it closes it or exits, and in every
\* child that has not come to its own close.
PeerOpen == \/ ppc \in {"fork", "read", "write", "close0", "close1"}
            \/ \E c \in Child : cpc[c] = "close1"

-----------------------------------------------------------------------------
\* A variant that forks one child too few.  (Operators called variants are
\* faulty forms of the definition that follows; nothing uses them.)
ForkTooFew ==
  /\ ppc = "fork"
  /\ IF i < N THEN ppc' = "read" /\ cpc' = [cpc EXCEPT ![i] = "close1"]
              ELSE ppc' = "close0" /\ UNCHANGED cpc
  /\ UNCHANGED <<i, got, up, down, buf, kills, forkFails>>

Fork ==
  /\ ppc = "fork"
  /\ IF i <= N THEN ppc' = "read" /\ cpc' = [cpc EXCEPT ![i] = "close1"]
               ELSE ppc' = "close0" /\ UNCHANGED cpc
  /\ UNCHANGED <<i, got, up, down, buf, kills, forkFails>>

\* exit(1) without waiting for the children forked before.
ForkFails ==
  /\ ppc = "fork" /\ i <= N /\ forkFails < MaxForkFails
  /\ forkFails' = forkFails + 1 /\ ppc' = "exited"
  /\ UNCHANGED <<i, cpc, got, up, down, buf, kills>>

\* The parent itself keeps sockfd[0] open, so it never sees end-of-file here.
ParentRead ==
  /\ ppc = "read" /\ up # <<>>
  /\ buf' = Head(up) /\ up' = Tail(up) /\ ppc' = "write"
  /\ UNCHANGED <<i, cpc, got, down, kills, forkFails>>

\* The answer is sent, and the loop goes on at once.
ParentWrite ==
  /\ ppc = "write"
  /\ down' = Append(down, buf) /\ i' = i + 1 /\ ppc' = "fork"
  /\ UNCHANGED <<cpc, got, up, buf, kills, forkFails>>

ParentClose ==
  /\ \/ ppc = "close0" /\ ppc' = "close1"
     \/ ppc = "close1" /\ ppc' = "wait" /\ i' = 1
  /\ ppc = "close0" => UNCHANGED i
  /\ UNCHANGED <<cpc, got, up, down, buf, kills, forkFails>>

\* waitpid() for the children in the order of their birth.
ParentWait ==
  /\ ppc = "wait"
  /\ IF i <= N THEN cpc[i] \in {"exited", "killed"} /\ i' = i + 1 /\ UNCHANGED ppc
               ELSE ppc' = "exited" /\ UNCHANGED i
  /\ UNCHANGED <<cpc, got, up, down, buf, kills, forkFails>>

Parent == Fork \/ ParentRead \/ ParentWrite \/ ParentClose \/ ParentWait

-----------------------------------------------------------------------------
\* A variant whose child reads before it writes.
ChildSkipsWrite(c) ==
  /\ cpc[c] = "close1" /\ cpc' = [cpc EXCEPT ![c] = "read"]
  /\ UNCHANGED <<ppc, i, got, up, down, buf, kills, forkFails>>

ChildClosesPeer(c) ==
  /\ cpc[c] = "close1" /\ cpc' = [cpc EXCEPT ![c] = "write"]
  /\ UNCHANGED <<ppc, i, got, up, down, buf, kills, forkFails>>

\* With nobody left at the other end the write is a SIGPIPE.
ChildWrite(c) ==
  /\ cpc[c] = "write"
  /\ IF PeerOpen THEN up' = Append(up, c) /\ cpc' = [cpc EXCEPT ![c] = "read"]
                 ELSE cpc' = [cpc EXCEPT ![c] = "killed"] /\ UNCHANGED up
  /\ UNCHANGED <<ppc, i, got, down, buf, kills, forkFails>>

\* A variant that leaves the answer it has read in the socket.
ChildPeeks(c) ==
  /\ cpc[c] = "read" /\ down # <<>>
  /\ got' = [got EXCEPT ![c] = Head(down)] /\ cpc' = [cpc EXCEPT ![c] = "exited"]
  /\ UNCHANGED <<ppc, i, up, down, buf, kills, forkFails>>

\* Whoever reads first takes the oldest answer.
ChildRead(c) ==
  /\ cpc[c] = "read"
  /\ \/ down # <<>> /\ got' = [got EXCEPT ![c] = Head(down)] /\ down' = Tail(down)
     \/ /\ down = <<>> /\ ~PeerOpen
        /\ got' = [got EXCEPT ![c] = EndOfFile] /\ UNCHANGED down
  /\ cpc' = [cpc EXCEPT ![c] = "exited"]
  /\ UNCHANGED <<ppc, i, up, buf, kills, forkFails>>

Kill(c) ==
  /\ cpc[c] \in {"close1", "write", "read"} /\ kills < MaxKills
  /\ kills' = kills + 1 /\ cpc' = [cpc EXCEPT ![c] = "killed"]
  /\ UNCHANGED <<ppc, i, got, up, down, buf, forkFails>>

ChildStep(c) == ChildClosesPeer(c) \/ ChildWrite(c) \/ ChildRead(c)

Next == Parent \/ ForkFails \/ \E c \in Child : ChildStep(c) \/ Kill(c)

Spec == Init /\ [][Next]_vars

\* Parent and children are separate processes and each keeps running.
FairSpec == Spec /\ WF_vars(Parent) /\ \A c \in Child : WF_vars(ChildStep(c))

-----------------------------------------------------------------------------
(* Properties.                                                             *)

\* Every variable stays in its range.
TypeOK ==
  /\ ppc \in {"fork", "read", "write", "close0", "close1", "wait", "exited"}
  /\ i \in 1..(N + 1) /\ buf \in 0..N
  /\ cpc \in [Child -> {"none", "close1", "write", "read", "exited", "killed"}]
  /\ got \in [Child -> 0..(N + 1)]
  /\ up \in Seq(Child) /\ down \in Seq(Child)
  /\ kills \in 0..MaxKills /\ forkFails \in 0..MaxForkFails

\* No answer is lost or read twice: each answer sent so far is either still
\* under way or with exactly one child.
AnswersConserved == \A m \in Child :
  LET holders == {c \in Child : got[c] = m}
      sent == i > m \/ ppc \in {"close0", "close1", "wait"}
  IN  /\ \A c, d \in holders : c = d
      /\ holders # {} => \A k \in DOMAIN down : down[k] # m
      /\ ppc # "exited" /\ sent => holders # {} \/ \E k \in DOMAIN down : down[k] = m

\* Why it is: the parent takes one message after each fork(), so that no
\* message is under way but that of the youngest child, ...
OneMessageAtATime ==
  /\ ppc \in {"read", "write"} => i <= N
  /\ ppc \in {"close0", "close1"} => i = N + 1
  /\ \A c \in Child : c > i \/ (c = i /\ ppc = "fork") =>
       ppc \in {"wait", "exited"} \/ cpc[c] = "none"
  /\ \A c \in Child : cpc[c] \in {"close1", "write"} => c = i /\ ppc = "read" /\ up = <<>>
  /\ up # <<>> => ppc = "read" /\ up = <<i>>
  /\ ppc = "write" => buf = i

\* ... and the answers sent so far, 1..LastAnswer, are each in one place.
LastAnswer == IF ppc = "wait" THEN N ELSE i - 1
AnswersInOnePlace ==
  /\ \A k \in DOMAIN down : down[k] <= LastAnswer
  /\ \A j, k \in DOMAIN down : down[j] = down[k] => j = k
  /\ \A c \in Child : got[c] # Nothing => cpc[c] = "exited"
  /\ \A c \in Child : got[c] \in Child =>
       /\ got[c] <= LastAnswer /\ \A k \in DOMAIN down : down[k] # got[c]
       /\ \A d \in Child : got[d] = got[c] => d = c
  /\ \A m \in 1..LastAnswer :
       (\E c \in Child : got[c] = m) \/ \E k \in DOMAIN down : down[k] = m

PlaceInv == TypeOK /\ OneMessageAtATime /\ AnswersInOnePlace /\ AnswersConserved

\* Nobody is left out: there is an answer, sent or about to be, for every child
\* that waits for one, so that each child reads an answer (never end-of-file)
\* and none dies of a SIGPIPE; the parent reads in vain only while the child it
\* forked last has yet to write or was killed before it could, and, unless
\* fork() fails, it ends after all of them.
In(place) == {c \in Child : cpc[c] = place}
ToBeSent == IF up # <<>> \/ ppc = "write" THEN 1 ELSE 0
NobodyLeftOut ==
  /\ Cardinality(In("read")) <= Len(down) + ToBeSent
  /\ \A c \in In("exited") : got[c] \in Child
  /\ Cardinality(In("killed")) = kills
  /\ ppc = "read" /\ up = <<>> => cpc[i] \in {"close1", "write", "killed"}
  /\ \A c \in In("none") :
       \/ ppc = "exited" \/ (ppc = "fork" /\ c = i)
       \/ ppc \in {"fork", "read", "write"} /\ c > i
  /\ ppc = "wait" => \A c \in 1..(i - 1) : cpc[c] \in {"exited", "killed"}
  /\ ppc = "exited" /\ forkFails = 0 => Child = In("exited") \cup In("killed")

\* No answer is lost or read twice, and nobody is left without one.
PairInv == PlaceInv /\ NobodyLeftOut

\* If nobody is killed and fork() works, every child ends with an answer, and
\* everybody terminates.
AllAnswered ==
  <>(\/ kills + forkFails > 0
     \/ ppc = "exited" /\ \A c \in Child : cpc[c] = "exited" /\ got[c] \in Child)

\* Whatever happens, the parent waits forever only for the message of a child
\* that was killed.
ParentStuckOnlyOnKilled == ppc = "read" ~> (ppc # "read" \/ cpc[i] = "killed")
=============================================================================
