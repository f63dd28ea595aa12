-------------------------- MODULE SocketPairProofs --------------------------
(***************************************************************************)
(* Theorems about SocketPair for every number of children: PlaceInv is an   *)
(* invariant, and with it no answer is lost or read twice.                 *)
(***************************************************************************)
EXTENDS SocketPair, FiniteSetTheorems, TLAPS

LEMMA InitEstablishes == Init => PlaceInv
<1> SUFFICES ASSUME Init PROVE PlaceInv
  OBVIOUS
<1> USE PairAssumption
<1>1. TypeOK
  <2>1. up \in Seq(Child) /\ down \in Seq(Child)
    BY DEF Init
  <2> QED BY <2>1 DEF Init, TypeOK, Nothing, Child
<1>2. OneMessageAtATime
  BY DEF Init, OneMessageAtATime, Child
<1>3. AnswersInOnePlace
  BY DEF Init, AnswersInOnePlace, LastAnswer, Nothing, Child
<1>4. AnswersConserved
  BY DEF Init, AnswersConserved, Nothing, Child
<1> QED BY <1>1, <1>2, <1>3, <1>4 DEF PlaceInv

\* Conservation follows from the place of each answer.
LEMMA OnePlaceConserves == ASSUME TypeOK, OneMessageAtATime, AnswersInOnePlace
                           PROVE  AnswersConserved
<1> SUFFICES ASSUME NEW m \in Child
             PROVE  LET holders == {c \in Child : got[c] = m}
                        sent == i > m \/ ppc \in {"close0", "close1", "wait"}
                    IN  /\ \A c, d \in holders : c = d
                        /\ holders # {} => \A k \in DOMAIN down : down[k] # m
                        /\ ppc # "exited" /\ sent =>
                             holders # {} \/ \E k \in DOMAIN down : down[k] = m
  BY DEF AnswersConserved
<1> DEFINE holders == {c \in Child : got[c] = m}
<1>1. \A c, d \in holders : c = d
  BY DEF AnswersInOnePlace
<1>2. holders # {} => \A k \in DOMAIN down : down[k] # m
  BY DEF AnswersInOnePlace
<1>3. ppc # "exited" /\ (i > m \/ ppc \in {"close0", "close1", "wait"}) => m \in 1..LastAnswer
  BY PairAssumption DEF LastAnswer, OneMessageAtATime, TypeOK, Child
<1>4. m \in 1..LastAnswer => holders # {} \/ \E k \in DOMAIN down : down[k] = m
  BY DEF AnswersInOnePlace
<1> QED BY <1>1, <1>2, <1>3, <1>4

\* A step after which the same answers are in the same places.
LEMMA AnswersAside ==
  ASSUME AnswersInOnePlace, UNCHANGED <<got, down>>, LastAnswer' = LastAnswer,
         \A c \in Child : got[c] # Nothing => cpc'[c] = "exited"
  PROVE  AnswersInOnePlace'
BY DEF AnswersInOnePlace

-----------------------------------------------------------------------------
(* The parent.                                                             *)

LEMMA ForkPreserves == ASSUME PlaceInv, Fork \/ ForkFails
                       PROVE  PlaceInv'
<1> USE PairAssumption
<1>1. TypeOK /\ OneMessageAtATime /\ AnswersInOnePlace
  BY DEF PlaceInv
<1>2. /\ ppc = "fork" /\ ppc' \in {"read", "close0", "exited"}
      /\ UNCHANGED <<i, got, up, down, buf, kills>>
      /\ ppc' = "read" => i <= N /\ cpc' = [cpc EXCEPT ![i] = "close1"]
      /\ ppc' # "read" => UNCHANGED cpc
      /\ ppc' = "close0" => i = N + 1
      /\ forkFails' \in 0..MaxForkFails
  BY <1>1 DEF Fork, ForkFails, TypeOK
<1>3. TypeOK'
  BY <1>1, <1>2 DEF TypeOK, Child
<1>4. i \in 1..(N + 1) /\ up = <<>>
  BY <1>1, <1>2 DEF TypeOK, OneMessageAtATime
<1>5. OneMessageAtATime'
  <2>1. \A c \in Child : cpc'[c] \in {"close1", "write"} => c = i /\ ppc' = "read"
    BY <1>1, <1>2, <1>4 DEF OneMessageAtATime, TypeOK, Child
  <2>2. \A c \in Child : c > i => ppc' \in {"wait", "exited"} \/ cpc'[c] = "none"
    BY <1>1, <1>2, <1>4 DEF OneMessageAtATime, TypeOK, Child
  <2> QED BY <1>2, <1>4, <2>1, <2>2 DEF OneMessageAtATime
<1>6. AnswersInOnePlace'
  <2>1. \A c \in Child : got[c] # Nothing => cpc'[c] = "exited"
    BY <1>1, <1>2, <1>4 DEF OneMessageAtATime, AnswersInOnePlace, TypeOK, Child
  <2>2. LastAnswer' = LastAnswer
    BY <1>2 DEF LastAnswer
  <2> QED BY <1>1, <1>2, <2>1, <2>2, AnswersAside
<1> QED BY <1>3, <1>5, <1>6, OnePlaceConserves, PTL DEF PlaceInv

LEMMA ParentReadPreserves == ASSUME PlaceInv, ParentRead
                             PROVE  PlaceInv'
<1> USE PairAssumption
<1>1. TypeOK /\ OneMessageAtATime /\ AnswersInOnePlace
  BY DEF PlaceInv
<1>2. /\ ppc = "read" /\ ppc' = "write" /\ up = <<i>> /\ buf' = i /\ up' = <<>>
      /\ UNCHANGED <<i, cpc, got, down, kills, forkFails>>
  <2>1. up = <<i>>
    BY <1>1 DEF ParentRead, OneMessageAtATime
  <2>2. Head(<<i>>) = i /\ Tail(<<i>>) = <<>>
    OBVIOUS
  <2> QED BY <2>1, <2>2 DEF ParentRead
<1>3. i \in Child
  BY <1>1, <1>2 DEF OneMessageAtATime, TypeOK, Child
<1>4. TypeOK'
  BY <1>1, <1>2, <1>3 DEF TypeOK, Child
<1>5. OneMessageAtATime'
  BY <1>1, <1>2 DEF OneMessageAtATime
<1>6. AnswersInOnePlace'
  BY <1>1, <1>2, AnswersAside DEF AnswersInOnePlace, LastAnswer
<1> QED BY <1>4, <1>5, <1>6, OnePlaceConserves, PTL DEF PlaceInv

LEMMA ParentWritePreserves == ASSUME PlaceInv, ParentWrite
                              PROVE  PlaceInv'
<1> USE PairAssumption
<1>1. TypeOK /\ OneMessageAtATime /\ AnswersInOnePlace
  BY DEF PlaceInv
<1>2. /\ ppc = "write" /\ ppc' = "fork" /\ buf = i /\ i <= N /\ up = <<>>
      /\ down' = Append(down, i) /\ i' = i + 1
      /\ UNCHANGED <<cpc, got, up, buf, kills, forkFails>>
  BY <1>1 DEF ParentWrite, OneMessageAtATime
<1>3. i \in Child /\ i' \in 1..(N + 1) /\ down \in Seq(Child)
  BY <1>1, <1>2 DEF TypeOK, Child
<1>4. TypeOK'
  BY <1>1, <1>2, <1>3 DEF TypeOK, Child
<1>5. OneMessageAtATime'
  BY <1>1, <1>2, <1>3 DEF OneMessageAtATime, Child
<1>6. AnswersInOnePlace'
  <2>1. LastAnswer = i - 1 /\ LastAnswer' = i
    BY <1>2, <1>3 DEF LastAnswer, Child
  <2>2. /\ Len(down') = Len(down) + 1 /\ down'[Len(down) + 1] = i
        /\ \A k \in DOMAIN down : down'[k] = down[k]
        /\ DOMAIN down' = (DOMAIN down) \cup {Len(down) + 1}
        /\ DOMAIN down = 1..Len(down) /\ \A k \in DOMAIN down : down[k] \in Child
    BY <1>2, <1>3
  <2>3. \A k \in DOMAIN down : down[k] < i
    BY <1>1, <1>3, <2>1, <2>2 DEF AnswersInOnePlace, Child
  <2>4. \A k \in DOMAIN down' : down'[k] <= i
    BY <1>3, <2>2, <2>3 DEF Child
  <2>5. \A j, k \in DOMAIN down' : down'[j] = down'[k] => j = k
    BY <1>1, <1>3, <2>2, <2>3 DEF AnswersInOnePlace, Child
  <2>6. \A c \in Child : got[c] \in Child =>
          got[c] <= i /\ \A k \in DOMAIN down' : down'[k] # got[c]
    BY <1>1, <1>3, <2>1, <2>2 DEF AnswersInOnePlace, Child
  <2>7. \A m \in 1..i : (\E c \in Child : got[c] = m) \/ \E k \in DOMAIN down' : down'[k] = m
    <3> SUFFICES ASSUME NEW m \in 1..i
                 PROVE  (\E c \in Child : got[c] = m) \/ \E k \in DOMAIN down' : down'[k] = m
      OBVIOUS
    <3>1. CASE m = i
      BY <2>2, <3>1
    <3>2. CASE m # i
      <4>1. m \in 1..LastAnswer
        BY <1>3, <2>1, <3>2 DEF Child
      <4> QED BY <1>1, <2>2, <4>1 DEF AnswersInOnePlace
    <3> QED BY <3>1, <3>2
  <2> QED BY <1>1, <1>2, <2>1, <2>4, <2>5, <2>6, <2>7 DEF AnswersInOnePlace
<1> QED BY <1>4, <1>5, <1>6, OnePlaceConserves, PTL DEF PlaceInv

LEMMA ParentEndPreserves == ASSUME PlaceInv, ParentClose \/ ParentWait
                            PROVE  PlaceInv'
<1> USE PairAssumption
<1>1. TypeOK /\ OneMessageAtATime /\ AnswersInOnePlace
  BY DEF PlaceInv
<1>2. /\ ppc \in {"close0", "close1", "wait"} /\ ppc' \in {"close1", "wait", "exited"}
      /\ UNCHANGED <<cpc, got, up, down, buf, kills, forkFails>>
      /\ i' \in 1..(N + 1) /\ LastAnswer' = LastAnswer /\ (ppc' = "close1" => i' = N + 1)
  <2>1. ppc = "close0" \/ ppc = "close1" => i = N + 1
    BY <1>1 DEF OneMessageAtATime
  <2>2. CASE ParentClose
    <3>1. CASE ppc = "close0"
      BY <1>1, <2>1, <2>2, <3>1 DEF ParentClose, LastAnswer, TypeOK
    <3>2. CASE ppc = "close1"
      <4>1. i = N + 1 /\ ppc' = "wait" /\ i' = 1
        BY <2>1, <2>2, <3>2 DEF ParentClose
      <4>2. LastAnswer = N /\ LastAnswer' = N
        BY <3>2, <4>1 DEF LastAnswer
      <4> QED BY <2>2, <3>2, <4>1, <4>2 DEF ParentClose
    <3> QED BY <2>2, <3>1, <3>2 DEF ParentClose
  <2>3. CASE ParentWait
    BY <1>1, <2>3 DEF ParentWait, LastAnswer, TypeOK
  <2> QED BY <2>2, <2>3
<1>3. TypeOK'
  <2>1. ppc' \in {"fork", "read", "write", "close0", "close1", "wait", "exited"}
    BY <1>2
  <2> QED BY <1>1, <1>2, <2>1 DEF TypeOK
<1>4. OneMessageAtATime'
  <2>1. up' = <<>> /\ ppc' \notin {"fork", "read", "write"}
    BY <1>1, <1>2 DEF OneMessageAtATime
  <2>2. \A c \in Child : cpc[c] \notin {"close1", "write"}
    BY <1>1, <1>2 DEF OneMessageAtATime
  <2>3. \A c \in Child : ~(c > N + 1)
    BY DEF Child
  <2> QED BY <1>2, <2>1, <2>2, <2>3 DEF OneMessageAtATime
<1>5. AnswersInOnePlace'
  BY <1>1, <1>2, AnswersAside DEF AnswersInOnePlace
<1> QED BY <1>3, <1>4, <1>5, OnePlaceConserves, PTL DEF PlaceInv

-----------------------------------------------------------------------------
(* The children.                                                           *)

LEMMA ChildWritePreserves ==
  ASSUME PlaceInv, NEW c \in Child, ChildClosesPeer(c) \/ ChildWrite(c) \/ Kill(c)
  PROVE  PlaceInv'
<1> USE PairAssumption
<1>1. TypeOK /\ OneMessageAtATime /\ AnswersInOnePlace
  BY DEF PlaceInv
<1>2. /\ cpc[c] \in {"close1", "write", "read"} /\ kills' \in 0..MaxKills
      /\ \E to \in {"write", "read", "killed"} : cpc' = [cpc EXCEPT ![c] = to]
      /\ UNCHANGED <<ppc, i, got, down, buf, forkFails>>
      /\ up' # up => up' = Append(up, c) /\ cpc[c] = "write" /\ cpc'[c] = "read"
      /\ cpc'[c] = "write" => cpc[c] = "close1"
  BY <1>1 DEF ChildClosesPeer, ChildWrite, Kill, TypeOK
<1>3. up' = up \/ (up = <<>> /\ up' = <<i>> /\ c = i /\ ppc = "read" /\ cpc'[c] = "read")
  <2>1. CASE up' # up
    <3>1. c = i /\ ppc = "read" /\ up = <<>> /\ up' = Append(up, c)
      BY <1>1, <1>2, <2>1 DEF OneMessageAtATime
    <3>2. Append(<<>>, c) = <<c>>
      OBVIOUS
    <3> QED BY <1>2, <2>1, <3>1, <3>2
  <2> QED BY <2>1
<1>4. TypeOK'
  <2>1. up' \in Seq(Child)
    <3>1. <<c>> \in Seq(Child)
      OBVIOUS
    <3> QED BY <1>1, <1>3, <3>1 DEF TypeOK
  <2>2. cpc' \in [Child -> {"none", "close1", "write", "read", "exited", "killed"}]
    BY <1>1, <1>2 DEF TypeOK
  <2> QED BY <1>1, <1>2, <2>1, <2>2 DEF TypeOK
<1>5. OneMessageAtATime'
  <2>1. \A d \in Child : d # c => cpc'[d] = cpc[d]
    BY <1>1, <1>2 DEF TypeOK
  <2>2. \A d \in Child : cpc'[d] \in {"close1", "write"} => d = i /\ ppc = "read" /\ up' = <<>>
    BY <1>1, <1>2, <1>3, <2>1 DEF OneMessageAtATime, TypeOK
  <2>3. \A d \in Child : d > i \/ (d = i /\ ppc = "fork") =>
          ppc \in {"wait", "exited"} \/ cpc'[d] = "none"
    BY <1>1, <1>2, <2>1 DEF OneMessageAtATime
  <2>4. up' # <<>> => ppc = "read" /\ up' = <<i>>
    BY <1>1, <1>3 DEF OneMessageAtATime
  <2> QED BY <1>1, <1>2, <2>2, <2>3, <2>4 DEF OneMessageAtATime
<1>6. AnswersInOnePlace'
  <2>1. \A d \in Child : got[d] # Nothing => cpc'[d] = "exited"
    BY <1>1, <1>2 DEF AnswersInOnePlace, TypeOK
  <2> QED BY <1>1, <1>2, <2>1, AnswersAside DEF LastAnswer
<1> QED BY <1>4, <1>5, <1>6, OnePlaceConserves, PTL DEF PlaceInv

LEMMA ChildReadPreserves == ASSUME PlaceInv, NEW c \in Child, ChildRead(c)
                            PROVE  PlaceInv'
<1> USE PairAssumption
<1>1. TypeOK /\ OneMessageAtATime /\ AnswersInOnePlace
  BY DEF PlaceInv
<1>2. /\ cpc[c] = "read" /\ cpc' = [cpc EXCEPT ![c] = "exited"]
      /\ UNCHANGED <<ppc, i, up, buf, kills, forkFails>>
  BY DEF ChildRead
<1>3. cpc' \in [Child -> {"none", "close1", "write", "read", "exited", "killed"}]
  BY <1>1, <1>2 DEF TypeOK
<1>4. OneMessageAtATime'
  BY <1>1, <1>2 DEF OneMessageAtATime, TypeOK
<1>5. got[c] = Nothing
  BY <1>1, <1>2 DEF AnswersInOnePlace
<1>6. CASE down = <<>>
  <2>1. got' = [got EXCEPT ![c] = EndOfFile] /\ down' = down
    BY <1>6 DEF ChildRead
  <2>2. TypeOK'
    BY <1>1, <1>2, <1>3, <2>1 DEF TypeOK, EndOfFile
  <2>3. EndOfFile \notin Child
    BY DEF EndOfFile, Child
  <2>4. AnswersInOnePlace'
    <3>1. \A d \in Child : got'[d] \in Child => got'[d] = got[d] /\ d # c
      BY <1>1, <2>1, <2>3 DEF TypeOK
    <3>2. \A d \in Child : d # c => got'[d] = got[d] /\ cpc'[d] = cpc[d]
      BY <1>1, <1>2, <2>1 DEF TypeOK
    <3>3. cpc'[c] = "exited" /\ LastAnswer' = LastAnswer
      BY <1>1, <1>2 DEF TypeOK, LastAnswer
    <3>4. \A m \in 1..LastAnswer : m # Nothing
      BY DEF Nothing
    <3> QED BY <1>1, <1>5, <2>1, <3>1, <3>2, <3>3, <3>4 DEF AnswersInOnePlace
  <2> QED BY <1>4, <2>2, <2>4, OnePlaceConserves, PTL DEF PlaceInv
<1>7. CASE down # <<>>
  <2>1. got' = [got EXCEPT ![c] = Head(down)] /\ down' = Tail(down)
    BY <1>7 DEF ChildRead
  <2>2. down \in Seq(Child) /\ Len(down) >= 1 /\ Head(down) = down[1] /\ down[1] \in Child
    BY <1>1, <1>7 DEF TypeOK
  <2>3. /\ down' \in Seq(Child) /\ Len(down') = Len(down) - 1
        /\ DOMAIN down = 1..Len(down) /\ DOMAIN down' = 1..(Len(down) - 1)
        /\ \A k \in DOMAIN down' : down'[k] = down[k + 1] /\ k + 1 \in DOMAIN down /\ k + 1 # 1
        /\ 1 \in DOMAIN down
    BY <2>1, <2>2
  <2>4. TypeOK'
    <3>1. got' \in [Child -> 0..(N + 1)]
      <4>1. Head(down) \in 0..(N + 1)
        BY <2>2 DEF Child
      <4> QED BY <1>1, <2>1, <4>1 DEF TypeOK
    <3> QED BY <1>1, <1>2, <1>3, <2>3, <3>1 DEF TypeOK
  <2>5. AnswersInOnePlace'
    <3>0. LastAnswer' = LastAnswer
      BY <1>2 DEF LastAnswer
    <3>1. got'[c] = down[1] /\ \A d \in Child : d # c => got'[d] = got[d]
      BY <1>1, <2>1, <2>2 DEF TypeOK
    <3>2. \A k \in DOMAIN down' : down'[k] <= LastAnswer /\ down'[k] # down[1]
      BY <1>1, <2>3 DEF AnswersInOnePlace
    <3>3. \A j, k \in DOMAIN down' : down'[j] = down'[k] => j = k
      <4> SUFFICES ASSUME NEW j \in DOMAIN down', NEW k \in DOMAIN down', down'[j] = down'[k]
                   PROVE  j = k
        OBVIOUS
      <4>1. j + 1 = k + 1
        BY <1>1, <2>3 DEF AnswersInOnePlace
      <4> QED BY <2>3, <4>1
    <3>4. \A d \in Child : got'[d] # Nothing => cpc'[d] = "exited"
      BY <1>1, <1>2, <3>1 DEF AnswersInOnePlace, TypeOK
    <3>5. \A d \in Child : got'[d] \in Child =>
            got'[d] <= LastAnswer /\ \A k \in DOMAIN down' : down'[k] # got'[d]
      BY <1>1, <2>3, <3>1, <3>2 DEF AnswersInOnePlace
    <3>6. \A d, e \in Child : got'[d] \in Child /\ got'[e] = got'[d] => e = d
      BY <1>1, <2>2, <2>3, <3>1 DEF AnswersInOnePlace
    <3>7. ASSUME NEW m \in 1..LastAnswer
          PROVE  (\E d \in Child : got'[d] = m) \/ \E k \in DOMAIN down' : down'[k] = m
      <4>1. CASE m = down[1]
        BY <3>1, <4>1
      <4>2. ASSUME NEW d \in Child, got[d] = m
            PROVE  got'[d] = m
        BY <1>5, <3>1, <4>2 DEF Nothing
      <4>3. ASSUME NEW k \in DOMAIN down, down[k] = m, m # down[1]
            PROVE  k - 1 \in DOMAIN down' /\ down'[k - 1] = m
        BY <2>3, <2>2, <4>3
      <4> QED BY <1>1, <4>1, <4>2, <4>3 DEF AnswersInOnePlace
    <3> QED BY <3>0, <3>2, <3>3, <3>4, <3>5, <3>6, <3>7 DEF AnswersInOnePlace
  <2> QED BY <1>4, <2>4, <2>5, OnePlaceConserves, PTL DEF PlaceInv
<1> QED BY <1>6, <1>7

-----------------------------------------------------------------------------

LEMMA PlaceInvStep == ASSUME PlaceInv, [Next]_vars
                     PROVE  PlaceInv'
<1>1. CASE Parent \/ ForkFails
  BY <1>1, ForkPreserves, ParentReadPreserves, ParentWritePreserves, ParentEndPreserves
  DEF Parent
<1>2. ASSUME NEW c \in Child, ChildStep(c) \/ Kill(c) PROVE PlaceInv'
  BY <1>2, ChildWritePreserves, ChildReadPreserves DEF ChildStep
<1>3. CASE UNCHANGED vars
  <2>1. TypeOK' /\ OneMessageAtATime'
    BY <1>3 DEF vars, PlaceInv, TypeOK, OneMessageAtATime
  <2>2. AnswersInOnePlace'
    BY <1>3 DEF vars, PlaceInv, AnswersInOnePlace, LastAnswer
  <2> QED BY <2>1, <2>2, OnePlaceConserves, PTL DEF PlaceInv
<1> QED BY <1>1, <1>2, <1>3 DEF Next

-----------------------------------------------------------------------------
(* Nobody is left out.                                                     *)

Places == {"none", "close1", "write", "read", "exited", "killed"}
AreIn(where, place) == {c \in Child : where[c] = place}

LEMMA Counted == ASSUME NEW where, NEW place
                 PROVE  IsFiniteSet(AreIn(where, place)) /\ Cardinality(AreIn(where, place)) \in Nat
<1>1. IsFiniteSet(Child)
  BY FS_Interval, PairAssumption DEF Child
<1>2. AreIn(where, place) \in SUBSET Child
  BY DEF AreIn
<1>3. IsFiniteSet(AreIn(where, place))
  BY <1>1, <1>2, FS_Subset
<1> QED BY <1>3, FS_CardinalityType

LEMMA InAreIn == \A place : In(place) = AreIn(cpc, place) /\ In(place)' = AreIn(cpc', place)
BY DEF In, AreIn

\* A child that goes from one place to another.
LEMMA Moved ==
  ASSUME cpc \in [Child -> Places], NEW c \in Child, NEW to, cpc' = [cpc EXCEPT ![c] = to]
  PROVE  /\ cpc'[c] = to
         /\ \A place : place # cpc[c] /\ place # to => In(place)' = In(place)
         /\ cpc[c] # to => /\ In(to)' = In(to) \cup {c}
                           /\ Cardinality(In(to)') = Cardinality(In(to)) + 1
         /\ cpc[c] = "read" /\ to # "read" =>
              Cardinality(In("read")') = Cardinality(In("read")) - 1
<1>1. cpc'[c] = to /\ \A d \in Child : d # c => cpc'[d] = cpc[d]
  OBVIOUS
<1>2. \A place : cpc[c] # place /\ to # place => AreIn(cpc', place) = AreIn(cpc, place)
  BY <1>1 DEF AreIn
<1>3. ASSUME cpc[c] # to
      PROVE  /\ AreIn(cpc', to) = AreIn(cpc, to) \cup {c}
             /\ Cardinality(AreIn(cpc', to)) = Cardinality(AreIn(cpc, to)) + 1
  <2>1. AreIn(cpc', to) = AreIn(cpc, to) \cup {c} /\ c \notin AreIn(cpc, to)
    BY <1>1, <1>3 DEF AreIn
  <2> QED BY <2>1, Counted, FS_AddElement
<1>4. ASSUME cpc[c] = "read", to # "read"
      PROVE  Cardinality(AreIn(cpc', "read")) = Cardinality(AreIn(cpc, "read")) - 1
  <2>1. AreIn(cpc', "read") = AreIn(cpc, "read") \ {c} /\ c \in AreIn(cpc, "read")
    BY <1>1, <1>4 DEF AreIn
  <2> QED BY <2>1, Counted, FS_RemoveElement
<1> QED BY <1>1, <1>2, <1>3, <1>4, InAreIn

LEMMA InitLeavesNobodyOut == ASSUME Init
                             PROVE  NobodyLeftOut
<1> USE PairAssumption
<1>1. \A place : place # "none" => In(place) = {}
  BY DEF Init, In
<1>2. In("read") = {} /\ In("killed") = {} /\ In("exited") = {}
  BY <1>1
<1>3. Len(down) = 0 /\ ToBeSent = 0 /\ kills = 0 /\ ppc = "fork" /\ i = 1
  BY DEF Init, ToBeSent
<1>4. \A c \in In("none") : c = i \/ c > i
  BY <1>3 DEF In, Child
<1> QED BY <1>2, <1>3, <1>4, FS_EmptySet DEF NobodyLeftOut

LEMMA ParentLeavesNobodyOut == ASSUME PairInv, Parent \/ ForkFails
                               PROVE  NobodyLeftOut'
<1> USE PairAssumption
<1>1. TypeOK /\ OneMessageAtATime /\ NobodyLeftOut
  BY DEF PairInv, PlaceInv
<1>2. UNCHANGED <<got, kills>> /\ ppc # "exited" /\ down \in Seq(Child) /\ Len(down) \in Nat
      /\ i \in 1..(N + 1) /\ cpc \in [Child -> Places]
  <2>1. UNCHANGED <<got, kills>> /\ ppc # "exited"
    BY DEF Parent, Fork, ForkFails, ParentRead, ParentWrite, ParentClose, ParentWait
  <2> QED BY <1>1, <2>1 DEF TypeOK, Places
<1>3. CASE ppc = "fork" /\ ppc' = "read"
  <2>1. /\ i \in Child /\ cpc' = [cpc EXCEPT ![i] = "close1"] /\ i' = i /\ up' = up /\ down' = down
    BY <1>2, <1>3 DEF Parent, Fork, ForkFails, ParentRead, ParentWrite, ParentClose,
       ParentWait, Child
  <2>2. cpc[i] = "none" /\ up = <<>>
    BY <1>1, <1>3, <2>1 DEF OneMessageAtATime
  <2>3. \A place : place # "none" /\ place # "close1" => In(place)' = In(place)
    BY <1>2, <2>1, <2>2, Moved DEF Places
  <2>4. ToBeSent = 0 /\ ToBeSent' = 0
    BY <1>3, <2>1, <2>2 DEF ToBeSent
  <2>5. cpc'[i'] = "close1" /\ \A c \in In("none")' : c \in In("none") /\ c # i
    BY <1>2, <2>1 DEF In
  <2>6. \A c \in In("none")' : c > i
    BY <1>1, <1>3, <2>5 DEF NobodyLeftOut
  <2> QED BY <1>1, <1>2, <1>3, <2>1, <2>3, <2>4, <2>5, <2>6 DEF NobodyLeftOut
<1>4. CASE ~(ppc = "fork" /\ ppc' = "read")
  <2>1. UNCHANGED cpc /\ \A place : In(place)' = In(place)
    BY <1>4 DEF Parent, Fork, ForkFails, ParentRead, ParentWrite, ParentClose, ParentWait, In
  <2>2. CASE Fork \/ ForkFails
    <3>1. /\ ppc = "fork" /\ UNCHANGED <<i, up, down>>
          /\ \/ ppc' = "close0" /\ i > N
             \/ ppc' = "exited" /\ forkFails' = forkFails + 1
      BY <1>2, <1>4, <2>2 DEF Fork, ForkFails
    <3>2. ToBeSent = 0 /\ ToBeSent' = 0
      BY <1>1, <3>1 DEF ToBeSent, OneMessageAtATime
    <3>3. ppc' = "exited" => forkFails' # 0
      BY <1>1, <3>1 DEF TypeOK
    <3>4. ppc' = "close0" => In("none") = {}
      <4>1. \A c \in In("none") : c \in 1..N /\ (c = i \/ c > i)
        BY <1>1, <3>1 DEF NobodyLeftOut, In, Child
      <4> QED BY <1>2, <3>1, <4>1
    <3> QED BY <1>1, <1>2, <2>1, <3>1, <3>2, <3>3, <3>4 DEF NobodyLeftOut
  <2>3. CASE ParentRead
    <3>1. ppc = "read" /\ ppc' = "write" /\ up # <<>> /\ UNCHANGED <<i, down, forkFails>>
      BY <2>3 DEF ParentRead
    <3>2. ToBeSent = 1 /\ ToBeSent' = 1
      BY <3>1 DEF ToBeSent
    <3> QED BY <1>1, <1>2, <2>1, <3>1, <3>2 DEF NobodyLeftOut
  <2>4. CASE ParentWrite
    <3>1. /\ ppc = "write" /\ ppc' = "fork" /\ down' = Append(down, buf) /\ up' = up
          /\ i' = i + 1
      BY <2>4 DEF ParentWrite
    <3>2. up = <<>> /\ ToBeSent = 1 /\ ToBeSent' = 0
      BY <1>1, <3>1 DEF OneMessageAtATime, ToBeSent
    <3>3. Len(down') = Len(down) + 1
      BY <1>1, <3>1 DEF TypeOK
    <3>4. \A c \in In("none") : c = i' \/ c > i'
      BY <1>1, <1>2, <3>1 DEF NobodyLeftOut, In, Child
    <3> QED BY <1>1, <1>2, <2>1, <3>1, <3>2, <3>3, <3>4 DEF NobodyLeftOut
  <2>5. CASE ParentClose
    <3>1. /\ ppc \in {"close0", "close1"} /\ ppc' \in {"close1", "wait"}
          /\ UNCHANGED <<up, down>> /\ (ppc' = "wait" => i' = 1)
      BY <2>5 DEF ParentClose
    <3>2. ToBeSent = 0 /\ ToBeSent' = 0
      BY <1>1, <3>1 DEF OneMessageAtATime, ToBeSent
    <3>3. In("none") = {}
      BY <1>1, <3>1 DEF NobodyLeftOut
    <3> QED BY <1>1, <1>2, <2>1, <3>1, <3>2, <3>3 DEF NobodyLeftOut
  <2>6. CASE ParentWait
    <3>1. /\ ppc = "wait" /\ UNCHANGED <<up, down>>
          /\ \/ ppc' = "wait" /\ i' = i + 1 /\ cpc[i] \in {"exited", "killed"}
             \/ ppc' = "exited" /\ i > N
      BY <1>2, <2>6 DEF ParentWait
    <3>2. ToBeSent' = ToBeSent
      BY <3>1 DEF ToBeSent
    <3>3. \A c \in 1..(i - 1) : cpc[c] \in {"exited", "killed"}
      BY <1>1, <3>1 DEF NobodyLeftOut
    <3>4. ppc' = "wait" => \A c \in 1..(i' - 1) : cpc[c] \in {"exited", "killed"}
      BY <1>2, <3>1, <3>3
    <3>5. ppc' = "exited" => Child = In("exited") \cup In("killed")
      BY <1>2, <3>1, <3>3 DEF In, Child
    <3>6. In("none") = {}
      BY <1>1, <3>1 DEF NobodyLeftOut
    <3> QED BY <1>1, <1>2, <2>1, <3>1, <3>2, <3>4, <3>5, <3>6 DEF NobodyLeftOut
  <2> QED BY <2>2, <2>3, <2>4, <2>5, <2>6 DEF Parent
<1> QED BY <1>3, <1>4

\* A child that goes on changes nothing of what concerns the others.
LEMMA OthersStay ==
  ASSUME PairInv, NEW c \in Child, cpc[c] \in {"close1", "write", "read"},
         NEW to \in {"write", "read", "exited", "killed"},
         cpc' = [cpc EXCEPT ![c] = to], UNCHANGED <<ppc, i, forkFails>>
  PROVE  /\ (ppc = "wait" => \A d \in 1..(i - 1) : cpc[d] \in {"exited", "killed"})'
         /\ (ppc = "exited" /\ forkFails = 0 => Child = In("exited") \cup In("killed"))'
         /\ In("none")' = In("none")
<1> USE PairAssumption
<1>1. TypeOK /\ NobodyLeftOut /\ i \in 1..(N + 1)
  BY DEF PairInv, PlaceInv, TypeOK
<1>2. \A d \in Child : d # c => cpc'[d] = cpc[d]
  BY <1>1 DEF TypeOK
<1>3. ppc = "wait" => \A d \in 1..(i - 1) : d \in Child /\ d # c
  BY <1>1 DEF NobodyLeftOut, Child
<1>4. ~(ppc = "exited" /\ forkFails = 0)
  <2>1. c \notin In("exited") \cup In("killed")
    BY DEF In
  <2> QED BY <1>1, <2>1 DEF NobodyLeftOut
<1>5. In("none")' = In("none")
  BY <1>1 DEF In, TypeOK
<1> QED BY <1>1, <1>2, <1>3, <1>4, <1>5 DEF NobodyLeftOut

LEMMA ChildrenLeaveNobodyOut == ASSUME PairInv, NEW c \in Child, ChildStep(c) \/ Kill(c)
                                PROVE  NobodyLeftOut'
<1> USE PairAssumption
<1>1. TypeOK /\ OneMessageAtATime /\ NobodyLeftOut
  BY DEF PairInv, PlaceInv
<1>2. /\ cpc[c] \in {"close1", "write", "read"} /\ UNCHANGED <<ppc, i, forkFails>>
      /\ \E to \in {"write", "read", "exited", "killed"} : cpc' = [cpc EXCEPT ![c] = to]
  BY DEF ChildStep, ChildClosesPeer, ChildWrite, ChildRead, Kill
<1>3. /\ down \in Seq(Child) /\ Len(down) \in Nat /\ kills \in Nat /\ ToBeSent \in {0, 1}
      /\ cpc \in [Child -> Places]
  BY <1>1 DEF TypeOK, ToBeSent, Places
<1>4. \A place : Cardinality(In(place)) \in Nat
  BY Counted, InAreIn
<1>5. /\ (ppc = "wait" => \A d \in 1..(i - 1) : cpc[d] \in {"exited", "killed"})'
      /\ (ppc = "exited" /\ forkFails = 0 => Child = In("exited") \cup In("killed"))'
      /\ (\A d \in In("none") : \/ ppc = "exited" \/ (ppc = "fork" /\ d = i)
                                \/ ppc \in {"fork", "read", "write"} /\ d > i)'
  <2>1. PICK to \in {"write", "read", "exited", "killed"} : cpc' = [cpc EXCEPT ![c] = to]
    BY <1>2
  <2>2. /\ (ppc = "wait" => \A d \in 1..(i - 1) : cpc[d] \in {"exited", "killed"})'
        /\ (ppc = "exited" /\ forkFails = 0 => Child = In("exited") \cup In("killed"))'
        /\ In("none")' = In("none")
    BY <1>2, <2>1, OthersStay
  <2>3. \A d \in In("none") : \/ ppc = "exited" \/ (ppc = "fork" /\ d = i)
                              \/ ppc \in {"fork", "read", "write"} /\ d > i
    BY <1>1 DEF NobodyLeftOut
  <2>4. (\A d \in In("none") : \/ ppc = "exited" \/ (ppc = "fork" /\ d = i)
                               \/ ppc \in {"fork", "read", "write"} /\ d > i)'
    BY <1>2, <2>2, <2>3
  <2> QED BY <2>2, <2>4
<1>6. CASE ChildClosesPeer(c)
  <2>1. cpc[c] = "close1" /\ cpc' = [cpc EXCEPT ![c] = "write"]
        /\ UNCHANGED <<got, up, down, kills>>
    BY <1>6 DEF ChildClosesPeer
  <2>2. \A place \in {"read", "exited", "killed"} : In(place)' = In(place)
    BY <1>3, <2>1, Moved DEF Places
  <2>3. ToBeSent' = ToBeSent
    BY <1>2, <2>1 DEF ToBeSent
  <2>4. (ppc = "read" /\ up = <<>> => cpc[i] \in {"close1", "write", "killed"})'
    BY <1>1, <1>2, <1>3, <2>1 DEF OneMessageAtATime
  <2> QED BY <1>1, <1>5, <2>1, <2>2, <2>3, <2>4 DEF NobodyLeftOut
<1>7. CASE ChildWrite(c)
  <2>1. c = i /\ ppc = "read" /\ up = <<>> /\ cpc[c] = "write" /\ PeerOpen
    BY <1>1, <1>7 DEF ChildWrite, OneMessageAtATime, PeerOpen
  <2>2. /\ up' = Append(up, c) /\ cpc' = [cpc EXCEPT ![c] = "read"]
        /\ UNCHANGED <<got, down, kills>>
    BY <1>7, <2>1 DEF ChildWrite
  <2>3. /\ Cardinality(In("read")') = Cardinality(In("read")) + 1
        /\ \A place \in {"exited", "killed"} : In(place)' = In(place)
    BY <1>3, <2>1, <2>2, Moved DEF Places
  <2>4. up' # <<>> /\ ToBeSent = 0 /\ ToBeSent' = 1
    <3>1. Append(<<>>, c) # <<>>
      OBVIOUS
    <3> QED BY <1>2, <2>1, <2>2, <3>1 DEF ToBeSent
  <2>5. Cardinality(In("read")') <= Len(down') + ToBeSent'
    BY <1>1, <1>3, <1>4, <2>2, <2>3, <2>4 DEF NobodyLeftOut
  <2> QED BY <1>1, <1>5, <2>2, <2>3, <2>4, <2>5 DEF NobodyLeftOut
<1>8. CASE ChildRead(c)
  <2>1. cpc[c] = "read" /\ c \in In("read")
    BY <1>8 DEF ChildRead, In
  <2>2. Cardinality(In("read")) # 0
    <3>1. IsFiniteSet(In("read"))
      BY Counted, InAreIn
    <3> QED BY <2>1, <3>1, FS_EmptySet
  <2>3. down # <<>>
    <3> SUFFICES ASSUME down = <<>>, ~PeerOpen PROVE FALSE
      BY <1>8 DEF ChildRead
    <3>1. Len(down) = 0 /\ ToBeSent = 0
      BY <1>1 DEF ToBeSent, PeerOpen, OneMessageAtATime
    <3> QED BY <1>1, <1>4, <2>2, <3>1 DEF NobodyLeftOut
  <2>4. /\ cpc' = [cpc EXCEPT ![c] = "exited"] /\ got' = [got EXCEPT ![c] = Head(down)]
        /\ down' = Tail(down) /\ UNCHANGED <<up, kills>>
    BY <1>8, <2>3 DEF ChildRead
  <2>5. Head(down) \in Child /\ Len(down') = Len(down) - 1
    BY <1>3, <2>3, <2>4
  <2>6. /\ Cardinality(In("read")') = Cardinality(In("read")) - 1
        /\ In("killed")' = In("killed") /\ In("exited")' = In("exited") \cup {c}
    BY <1>3, <2>1, <2>4, Moved DEF Places
  <2>7. ToBeSent' = ToBeSent
    BY <1>2, <2>4 DEF ToBeSent
  <2>8. \A d \in In("exited")' : got'[d] \in Child
    BY <1>1, <2>4, <2>5, <2>6 DEF NobodyLeftOut, TypeOK, In
  <2>9. (ppc = "read" /\ up = <<>> => cpc[i] \in {"close1", "write", "killed"})'
    BY <1>1, <1>2, <1>3, <2>1, <2>4 DEF NobodyLeftOut
  <2>10. Cardinality(In("read")') <= Len(down') + ToBeSent'
    BY <1>1, <1>3, <1>4, <2>5, <2>6, <2>7 DEF NobodyLeftOut
  <2> QED BY <1>1, <1>5, <2>4, <2>6, <2>8, <2>9, <2>10 DEF NobodyLeftOut
<1>9. CASE Kill(c)
  <2>1. cpc' = [cpc EXCEPT ![c] = "killed"] /\ kills' = kills + 1 /\ UNCHANGED <<got, up, down>>
    BY <1>9 DEF Kill
  <2>2. /\ Cardinality(In("killed")') = Cardinality(In("killed")) + 1
        /\ In("exited")' = In("exited")
        /\ \/ Cardinality(In("read")') = Cardinality(In("read"))
           \/ Cardinality(In("read")') = Cardinality(In("read")) - 1
    <3>1. PICK from \in {"close1", "write", "read"} : cpc[c] = from
      BY <1>2
    <3>2. /\ Cardinality(In("killed")') = Cardinality(In("killed")) + 1
          /\ In("exited")' = In("exited")
          /\ from = "read" => Cardinality(In("read")') = Cardinality(In("read")) - 1
          /\ from # "read" => In("read")' = In("read")
      BY <1>3, <2>1, <3>1, Moved DEF Places
    <3> QED BY <3>1, <3>2
  <2>3. ToBeSent' = ToBeSent
    BY <1>2, <2>1 DEF ToBeSent
  <2>4. (ppc = "read" /\ up = <<>> => cpc[i] \in {"close1", "write", "killed"})'
    BY <1>1, <1>2, <1>3, <2>1 DEF NobodyLeftOut
  <2>5. Cardinality(In("read")') <= Len(down') + ToBeSent'
    BY <1>1, <1>3, <1>4, <2>1, <2>2, <2>3 DEF NobodyLeftOut
  <2> QED BY <1>1, <1>3, <1>5, <2>1, <2>2, <2>4, <2>5 DEF NobodyLeftOut
<1> QED BY <1>6, <1>7, <1>8, <1>9 DEF ChildStep

-----------------------------------------------------------------------------

\* However many children share the one pair of sockets, and whichever of them
\* are killed, each answer is read by one child at most and none disappears,
\* and there is one for every child that waits.
THEOREM PairInductive == Spec => []PairInv
<1>1. Init => PairInv
  BY InitEstablishes, InitLeavesNobodyOut DEF PairInv
<1>2. PairInv /\ [Next]_vars => PairInv'
  <2> SUFFICES ASSUME PairInv, [Next]_vars
               PROVE  PairInv'
    OBVIOUS
  <2>1. PlaceInv'
    BY PlaceInvStep DEF PairInv
  <2>2. CASE Parent \/ ForkFails
    BY <2>1, <2>2, ParentLeavesNobodyOut DEF PairInv
  <2>3. ASSUME NEW c \in Child, ChildStep(c) \/ Kill(c) PROVE PairInv'
    BY <2>1, <2>3, ChildrenLeaveNobodyOut DEF PairInv
  <2>4. CASE UNCHANGED vars
    <3>1. NobodyLeftOut'
      BY <2>4 DEF vars, PairInv, NobodyLeftOut, In, ToBeSent
    <3> QED BY <2>1, <3>1 DEF PairInv
  <2> QED BY <2>2, <2>3, <2>4 DEF Next
<1> QED BY <1>1, <1>2, PTL DEF Spec

\* What AllAnswered says of the end: once the parent has exited, and unless a
\* child was killed or fork() failed, every child has exited with an answer.
THEOREM AllAnsweredAtTheEnd ==
  Spec => [](ppc = "exited" /\ kills + forkFails = 0 =>
               \A c \in Child : cpc[c] = "exited" /\ got[c] \in Child)
<1>1. PairInv => (ppc = "exited" /\ kills + forkFails = 0 =>
                    \A c \in Child : cpc[c] = "exited" /\ got[c] \in Child)
  <2> SUFFICES ASSUME PairInv, ppc = "exited", kills + forkFails = 0
               PROVE  \A c \in Child : cpc[c] = "exited" /\ got[c] \in Child
    OBVIOUS
  <2>1. TypeOK /\ NobodyLeftOut
    BY DEF PairInv, PlaceInv
  <2>2. kills = 0 /\ forkFails = 0
    BY <2>1, PairAssumption DEF TypeOK
  <2>3. In("killed") = {}
    <3>1. IsFiniteSet(In("killed")) /\ Cardinality(In("killed")) = 0
      BY <2>1, <2>2, Counted, InAreIn DEF NobodyLeftOut
    <3> QED BY <3>1, FS_EmptySet
  <2>4. Child = In("exited") /\ \A c \in In("exited") : got[c] \in Child
    BY <2>1, <2>2, <2>3 DEF NobodyLeftOut
  <2> QED BY <2>4 DEF In
<1> QED BY <1>1, PairInductive, PTL

\* What makes ParentStuckOnlyOnKilled and AllAnswered possible: nobody waits for
\* somebody who waits.  For a child in read() an answer is there, or is with the
\* parent, which then waits for nothing; the child the parent reads or waits for
\* goes on by itself, has ended, or, in waitpid() only, has its answer there.
THEOREM NobodyWaitsInVain ==
  Spec => [](/\ \A c \in In("read") : down # <<>> \/ ppc = "write" \/ (ppc = "read" /\ up # <<>>)
             /\ ppc = "read" /\ up = <<>> => cpc[i] \in {"close1", "write", "killed"}
             /\ ppc = "wait" /\ i <= N =>
                  cpc[i] \in {"exited", "killed"} \/ (cpc[i] = "read" /\ down # <<>>))
<1> DEFINE Served(c) == down # <<>> \/ ppc = "write" \/ (ppc = "read" /\ up # <<>>)
           Good == /\ \A c \in In("read") : Served(c)
                   /\ ppc = "read" /\ up = <<>> => cpc[i] \in {"close1", "write", "killed"}
                   /\ ppc = "wait" /\ i <= N =>
                        cpc[i] \in {"exited", "killed"} \/ (cpc[i] = "read" /\ down # <<>>)
<1>1. PairInv => Good
  <2> SUFFICES ASSUME PairInv PROVE Good
    OBVIOUS
  <2>1. TypeOK /\ OneMessageAtATime /\ NobodyLeftOut
    BY DEF PairInv, PlaceInv
  <2>2. ASSUME NEW c \in In("read")
        PROVE  down # <<>> \/ ppc = "write" \/ (ppc = "read" /\ up # <<>>)
    <3>1. Cardinality(In("read")) \in Nat /\ Cardinality(In("read")) # 0
      <4>1. IsFiniteSet(In("read")) /\ Cardinality(In("read")) \in Nat
        BY Counted, InAreIn
      <4> QED BY <4>1, FS_EmptySet
    <3>2. Len(down) + ToBeSent # 0
      BY <2>1, <3>1 DEF NobodyLeftOut, ToBeSent, TypeOK
    <3>3. down # <<>> \/ ToBeSent # 0
      BY <3>2, <2>1 DEF TypeOK
    <3> QED BY <2>1, <3>3 DEF ToBeSent, OneMessageAtATime
  <2>3. ppc = "wait" /\ i <= N =>
          cpc[i] \in {"exited", "killed"} \/ (cpc[i] = "read" /\ down # <<>>)
    <3> SUFFICES ASSUME ppc = "wait", i <= N
                 PROVE  cpc[i] \in {"exited", "killed"} \/ (cpc[i] = "read" /\ down # <<>>)
      OBVIOUS
    <3>1. i \in Child /\ cpc[i] \in {"none", "close1", "write", "read", "exited", "killed"}
      <4>1. i \in 1..(N + 1)
        BY <2>1 DEF TypeOK
      <4>2. i \in Child
        BY <4>1, PairAssumption DEF Child
      <4> QED BY <2>1, <4>2 DEF TypeOK
    <3>2. cpc[i] \notin {"close1", "write"}
      BY <2>1, <3>1 DEF OneMessageAtATime
    <3>3. cpc[i] = "read" => down # <<>>
      BY <2>2, <3>1 DEF In
    <3>4. cpc[i] # "none"
      BY <2>1, <3>1 DEF NobodyLeftOut, In
    <3> QED BY <3>1, <3>2, <3>3, <3>4
  <2> QED BY <2>1, <2>2, <2>3 DEF NobodyLeftOut
<1> QED BY <1>1, PairInductive, PTL
=============================================================================
