--------------------------- MODULE MtServerProofs ---------------------------
(***************************************************************************)
(* Theorems about MtBuffer and MtServer.  Of the buffer, for every set     *)
(* of workers, initial value of SE and ring size: the inductive            *)
(* invariant BufferInv, and that it implements LetterStream.  Of the       *)
(* server, for any clients, connections and faults: it uses the buffer     *)
(* as MtBuffer describes, so the buffer's theorems carry over to the       *)
(* whole program; replies never go back to an older connection, and a      *)
(* client alone gets its own; SIGINT lets at most one more client in;      *)
(* and no consumer waits for a letter that nobody makes.                   *)
(***************************************************************************)
EXTENDS MtServer, FiniteSetTheorems, TLAPS

-----------------------------------------------------------------------------
(* Arithmetic of the cyclic index.                                         *)

LEMMA Division == ASSUME NEW k \in Nat
                  PROVE  /\ k = R * (k \div R) + (k % R)
                         /\ k % R \in 0..(R - 1) /\ k \div R \in Nat
  BY BufferAssumption, SMTT(20)

LEMMA QuotientGap == ASSUME NEW q \in Nat, NEW p \in Nat, q < p
                     PROVE  R * p >= R * q + R
<1>1. PICK d \in Nat : p = q + 1 + d
  <2>1. p - q - 1 \in Nat /\ p = q + 1 + (p - q - 1)
    OBVIOUS
  <2> QED BY <2>1
<1>2. R * (q + 1 + d) = R * q + R + R * d
  BY BufferAssumption, SMT
<1>3. R * d >= 0 /\ R * d \in Int /\ R * q \in Int
  BY BufferAssumption, SMT
<1> QED BY <1>1, <1>2, <1>3, BufferAssumption

LEMMA RemainderUnique == ASSUME NEW q \in Nat, NEW p \in Nat,
                                NEW a \in 0..(R - 1), NEW b \in 0..(R - 1),
                                R * q + a = R * p + b
                         PROVE  a = b
<1>0. R * q \in Int /\ R * p \in Int
  BY BufferAssumption
<1>1. CASE q < p
  <2>1. R * p >= R * q + R
    BY <1>1, QuotientGap
  <2> QED BY <2>1, <1>0, BufferAssumption
<1>2. CASE p < q
  <2>1. R * q >= R * p + R
    BY <1>2, QuotientGap
  <2> QED BY <2>1, <1>0, BufferAssumption
<1>3. CASE p = q
  BY <1>0, <1>3, BufferAssumption
<1> QED BY <1>1, <1>2, <1>3

LEMMA SmallRemainder == ASSUME NEW k \in Nat, k < R
                        PROVE  k % R = k
  BY BufferAssumption, SMTT(20)

LEMMA RemainderBound == ASSUME NEW k \in Nat
                        PROVE  k % R <= k
  BY BufferAssumption, SMTT(20)

LEMMA NextRemainder == ASSUME NEW q \in Nat, NEW p \in Nat,
                              NEW r \in 0..(R - 1), NEW s \in 0..(R - 1),
                              R * q + r + 1 = R * p + s
                       PROVE  s = Advanced(r)
<1>0. R * q \in Int /\ R * p \in Int
  BY BufferAssumption
<1>1. CASE r + 1 < R
  <2> DEFINE a == r + 1
  <2>1. a \in 0..(R - 1) /\ R * q + a = R * p + s
    BY <1>0, <1>1, BufferAssumption
  <2> HIDE DEF a
  <2>2. a = s
    BY <2>1, RemainderUnique
  <2> QED BY <2>2, <1>1, BufferAssumption DEF a, Advanced
<1>2. CASE r + 1 >= R
  <2> DEFINE n == q + 1
             z == 0
  <2>1. R * n = R * q + R
    BY BufferAssumption, SMT
  <2>2. n \in Nat /\ z \in 0..(R - 1) /\ R * n + z = R * p + s
    BY <1>0, <1>2, <2>1, BufferAssumption
  <2> HIDE DEF n, z
  <2>3. z = s
    BY <2>2, RemainderUnique
  <2> QED BY <2>3, <1>2, BufferAssumption DEF z, Advanced
<1> QED BY <1>1, <1>2, BufferAssumption

\* Incrementing an index with the wrap of the code is incrementing the number
\* of the letter it stands for.
LEMMA AdvanceIsNext == ASSUME NEW k \in Nat
                       PROVE  Advanced(k % R) = (k + 1) % R
<1> DEFINE q == k \div R
           p == (k + 1) \div R
           r == k % R
           s == (k + 1) % R
<1>1. k = R * q + r /\ r \in 0..(R - 1) /\ q \in Nat
  BY Division
<1>2. k + 1 = R * p + s /\ s \in 0..(R - 1) /\ p \in Nat
  BY k + 1 \in Nat, Division
<1> HIDE DEF q, p, r, s
<1>3. R * q \in Int /\ R * p \in Int
  BY <1>1, <1>2, BufferAssumption
<1>4. R * q + r + 1 = R * p + s
  BY <1>1, <1>2, <1>3, BufferAssumption
<1>5. s = Advanced(r)
  BY <1>1, <1>2, <1>4, NextRemainder
<1> QED BY <1>5 DEF r, s

-----------------------------------------------------------------------------
(* The invariant holds initially and every action preserves it.            *)

LEMMA InitEstablishes == BufferInit => BufferInv
<1> SUFFICES ASSUME Fresh PROVE BufferInv
  BY DEF BufferInit
<1>1. BufferTypeOK
  BY BufferAssumption DEF Fresh, BufferTypeOK, Cell, Nul, Kind, NoThreads
<1>2. IndexPositions
  BY BufferAssumption, SmallRemainder DEF Fresh, IndexPositions, ProducerAt,
     ConsumerAt, NoThreads
<1>3. UnitsConserved /\ FullCountsLetters
  BY BufferAssumption DEF Fresh, UnitsConserved, FullCountsLetters,
     LetterInHand, NoThreads
<1>4. MutualExclusion /\ BinaryValue
  BY DEF Fresh, MutualExclusion, BinaryValue, Inside, NoThreads
<1>5. RingContents /\ UnreadIsNul /\ Quiescent /\ ConsumerStarted
  BY DEF Fresh, RingContents, UnreadIsNul, Quiescent, ConsumerStarted, Cell, NoThreads
<1> QED BY <1>1, <1>2, <1>3, <1>4, <1>5 DEF BufferInv

\* What is known of the moment when worker w is in the critical section.
LEMMA InsideAlone == ASSUME BufferInv, NEW w \in Worker, Inside(w)
                     PROVE  /\ running /\ SB = 0
                            /\ \A v \in Worker : Inside(v) => v = w
  BY DEF BufferInv, BufferTypeOK, MutualExclusion, BinaryValue, Quiescent,
     NoThreads, Inside

LEMMA EnterPreserves == ASSUME BufferInv, NEW w \in Worker, Enter(w)
                        PROVE  BufferInv'
<1> USE BufferAssumption DEF Enter, Goto, semVars, ringVars, historyVars
<1>1. running /\ SB = 1 /\ SB' = 0
  BY DEF BufferInv, BufferTypeOK, Quiescent, NoThreads, MayEnter
<1>2. \A v \in Worker : ~Inside(v)
  BY <1>1 DEF BufferInv, BinaryValue, BufferTypeOK
<1>3. /\ pc \in [Worker -> {"none", "start", "enter", "cell", "index", "send",
                        "leave", "done"}]
      /\ kind \in [Worker -> Kind] /\ SE \in Nat /\ SF \in Nat
  BY DEF BufferInv, BufferTypeOK
<1>4. BufferTypeOK'
  BY <1>1 DEF BufferInv, BufferTypeOK, MayEnter
<1>5. MutualExclusion' /\ BinaryValue'
  BY <1>1, <1>2, <1>3 DEF MutualExclusion, BinaryValue, Inside
<1>6. UnitsConserved'
  BY <1>1, <1>3 DEF BufferInv, UnitsConserved
<1>7. FullCountsLetters'
  <2>1. produced - consumed = SF
    <3>1. ~LetterInHand
      BY <1>2 DEF LetterInHand, Inside
    <3> QED BY <3>1, <1>1, <1>3 DEF BufferInv, BufferTypeOK, FullCountsLetters
  <2>2. CASE kind[w] = "p"
    <3>1. ~LetterInHand'
      BY <2>2, <1>2, <1>3 DEF LetterInHand, Inside
    <3> QED BY <2>1, <2>2, <3>1, <1>3 DEF FullCountsLetters
  <2>3. CASE kind[w] = "c"
    <3>1. LetterInHand'
      BY <2>3, <1>3 DEF LetterInHand
    <3> QED BY <2>1, <2>3, <3>1, <1>3 DEF FullCountsLetters
  <2> QED BY <2>2, <2>3, <1>3 DEF Kind
<1>8. IndexPositions'
  <2>1. ProducerAt' = ProducerAt /\ ConsumerAt' = ConsumerAt
    BY <1>2, <1>3 DEF ProducerAt, ConsumerAt, Inside
  <2> QED BY <2>1, <1>1 DEF BufferInv, IndexPositions
<1>9. RingContents' /\ UnreadIsNul' /\ Quiescent' /\ ConsumerStarted'
  BY <1>1, <1>3 DEF BufferInv, RingContents, UnreadIsNul, Quiescent, ConsumerStarted
<1> QED BY <1>4, <1>5, <1>6, <1>7, <1>8, <1>9 DEF BufferInv

LEMMA WriteCellPreserves == ASSUME BufferInv, NEW w \in Worker, WriteCell(w)
                            PROVE  BufferInv'
<1> USE BufferAssumption DEF WriteCell, Goto, semVars
<1>1. /\ running /\ SB = 0 /\ \A v \in Worker : Inside(v) => v = w
      /\ pc[w] = "cell" /\ kind[w] = "p"
  BY InsideAlone DEF Inside
<1>2. BufferTypeOK
  BY DEF BufferInv
<1>3. BufferTypeOK'
  BY <1>2 DEF BufferTypeOK
<1>4. MutualExclusion' /\ BinaryValue'
  BY <1>1, <1>2 DEF MutualExclusion, BinaryValue, Inside, BufferTypeOK
<1>5. UnitsConserved'
  BY DEF BufferInv, UnitsConserved
<1>6. FullCountsLetters'
  <2>1. ~LetterInHand /\ LetterInHand'
    BY <1>1, <1>2 DEF LetterInHand, Inside, BufferTypeOK
  <2> QED BY <2>1, <1>1, <1>2 DEF BufferInv, FullCountsLetters, BufferTypeOK
<1>7. producer_index = produced % R /\ IndexPositions'
  <2>1. ProducerAt = produced /\ ProducerAt' = produced' - 1
    BY <1>1, <1>2 DEF ProducerAt, Inside, BufferTypeOK
  <2>2. ConsumerAt' = ConsumerAt
    BY <1>1, <1>2 DEF ConsumerAt, Inside, BufferTypeOK
  <2>3. produced' - 1 = produced
    BY <1>2 DEF BufferTypeOK
  <2> QED BY <2>1, <2>2, <2>3, <1>1 DEF BufferInv, IndexPositions
<1>8. RingContents'
  <2> SUFFICES ASSUME NEW i \in Cell, i < produced + 1
               PROVE  ring_buffer'[i] = i
    BY DEF RingContents
  <2>1. CASE i < produced
    BY <2>1, <1>2 DEF BufferInv, RingContents, BufferTypeOK
  <2>2. CASE i = produced
    <3>1. producer_index = i
      BY <1>7, <2>2, SmallRemainder DEF Cell
    <3> QED BY <3>1, <1>2 DEF BufferTypeOK
  <2> QED BY <2>1, <2>2, <1>2 DEF BufferTypeOK, Cell
<1>9. UnreadIsNul' /\ Quiescent' /\ ConsumerStarted'
  BY <1>1, <1>2 DEF BufferInv, UnreadIsNul, Quiescent, ConsumerStarted, BufferTypeOK
<1> QED BY <1>3, <1>4, <1>5, <1>6, <1>7, <1>8, <1>9 DEF BufferInv

LEMMA ReadCellPreserves == ASSUME BufferInv, NEW w \in Worker, ReadCell(w)
                           PROVE  /\ BufferInv'
                                  /\ consumed < produced
                                  /\ letter[w] = Nul
                                  /\ ring_buffer[consumer_index] = consumed % R
<1> USE BufferAssumption DEF ReadCell, Goto, semVars, ringVars
<1>1. /\ running /\ SB = 0 /\ \A v \in Worker : Inside(v) => v = w
      /\ pc[w] = "cell" /\ kind[w] = "c"
  BY InsideAlone DEF Inside
<1>2. BufferTypeOK
  BY DEF BufferInv
<1>3. BufferTypeOK'
  BY <1>2 DEF BufferTypeOK
<1>4. MutualExclusion' /\ BinaryValue'
  BY <1>1, <1>2 DEF MutualExclusion, BinaryValue, Inside, BufferTypeOK
<1>5. UnitsConserved'
  BY DEF BufferInv, UnitsConserved
<1>6. FullCountsLetters' /\ consumed < produced
  <2>1. LetterInHand /\ ~LetterInHand'
    BY <1>1, <1>2 DEF LetterInHand, Inside, BufferTypeOK
  <2> QED BY <2>1, <1>1, <1>2 DEF BufferInv, FullCountsLetters, BufferTypeOK
<1>7. consumer_index = consumed % R /\ IndexPositions'
  <2>1. ConsumerAt = consumed /\ ConsumerAt' = consumed' - 1
    BY <1>1, <1>2 DEF ConsumerAt, Inside, BufferTypeOK
  <2>2. ProducerAt' = ProducerAt
    BY <1>1, <1>2 DEF ProducerAt, Inside, BufferTypeOK
  <2>3. consumed' - 1 = consumed
    BY <1>2 DEF BufferTypeOK
  <2> QED BY <2>1, <2>2, <2>3, <1>1 DEF BufferInv, IndexPositions
<1>8. ring_buffer[consumer_index] = consumed % R
  <2>1. consumer_index \in Cell /\ consumer_index <= consumed
    BY <1>2, <1>7, RemainderBound DEF BufferTypeOK
  <2> QED BY <2>1, <1>2, <1>6, <1>7 DEF BufferInv, RingContents, BufferTypeOK, Cell
<1>9. RingContents' /\ UnreadIsNul' /\ Quiescent' /\ ConsumerStarted'
  BY <1>1, <1>2 DEF BufferInv, RingContents, UnreadIsNul, Quiescent, ConsumerStarted,
     BufferTypeOK
<1>10. letter[w] = Nul
  BY <1>1 DEF BufferInv, UnreadIsNul
<1> QED BY <1>3, <1>4, <1>5, <1>6, <1>7, <1>8, <1>9, <1>10 DEF BufferInv

LEMMA AdvancePreserves == ASSUME BufferInv, NEW w \in Worker, Advance(w)
                          PROVE  BufferInv'
<1> USE BufferAssumption DEF Advance, Goto, semVars, historyVars
<1>1. /\ running /\ SB = 0 /\ \A v \in Worker : Inside(v) => v = w
      /\ pc[w] = "index" /\ kind[w] \in Kind
  BY InsideAlone DEF Inside, BufferInv, BufferTypeOK
<1>2. BufferTypeOK
  BY DEF BufferInv
<1>3. BufferTypeOK'
  <2>1. \A i \in Cell : Advanced(i) \in Cell
    BY DEF Cell, Advanced
  <2> QED BY <2>1, <1>2 DEF BufferTypeOK
<1>4. MutualExclusion' /\ BinaryValue'
  BY <1>1, <1>2 DEF MutualExclusion, BinaryValue, Inside, BufferTypeOK
<1>5. UnitsConserved'
  BY DEF BufferInv, UnitsConserved
<1>6. FullCountsLetters'
  <2>1. LetterInHand' = LetterInHand
    BY <1>1, <1>2 DEF LetterInHand, Inside, BufferTypeOK
  <2> QED BY <2>1 DEF BufferInv, FullCountsLetters
<1>7. IndexPositions'
  <2>1. ProducerAt' = produced /\ ConsumerAt' = consumed
    BY <1>1, <1>2 DEF ProducerAt, ConsumerAt, Inside, BufferTypeOK
  <2>2. CASE kind[w] = "p"
    <3>1. ProducerAt = produced - 1 /\ ConsumerAt = consumed
      BY <1>1, <1>2, <2>2 DEF ProducerAt, ConsumerAt, Inside, BufferTypeOK
    <3>2. produced > 0
      <4>1. LetterInHand
        BY <1>1, <2>2 DEF LetterInHand
      <4> QED BY <4>1, <1>1, <1>2 DEF BufferInv, FullCountsLetters, BufferTypeOK
    <3>3. Advanced((produced - 1) % R) = produced % R
      BY <3>2, <1>2, produced - 1 \in Nat, (produced - 1) + 1 = produced,
         AdvanceIsNext DEF BufferTypeOK
    <3> QED BY <2>1, <2>2, <3>1, <3>3, <1>1 DEF BufferInv, IndexPositions
  <2>3. CASE kind[w] = "c"
    <3>1. ConsumerAt = consumed - 1 /\ ProducerAt = produced
      BY <1>1, <1>2, <2>3 DEF ProducerAt, ConsumerAt, Inside, BufferTypeOK
    <3>2. consumed > 0
      BY <1>1, <2>3 DEF BufferInv, ConsumerStarted
    <3>3. Advanced((consumed - 1) % R) = consumed % R
      BY <3>2, <1>2, consumed - 1 \in Nat, (consumed - 1) + 1 = consumed,
         AdvanceIsNext DEF BufferTypeOK
    <3> QED BY <2>1, <2>3, <3>1, <3>3, <1>1 DEF BufferInv, IndexPositions
  <2> QED BY <2>2, <2>3, <1>1 DEF Kind
<1>8. RingContents' /\ UnreadIsNul' /\ Quiescent' /\ ConsumerStarted'
  BY <1>1, <1>2 DEF BufferInv, RingContents, UnreadIsNul, Quiescent,
     ConsumerStarted, BufferTypeOK
<1> QED BY <1>3, <1>4, <1>5, <1>6, <1>7, <1>8 DEF BufferInv

LEMMA SendPreserves == ASSUME BufferInv, NEW w \in Worker, Send(w)
                       PROVE  BufferInv'
<1> USE DEF Send, Goto, semVars, ringVars, historyVars
<1>1. /\ running /\ SB = 0 /\ \A v \in Worker : Inside(v) => v = w
      /\ pc[w] = "send" /\ BufferTypeOK
  BY InsideAlone DEF Inside, BufferInv
<1>2. BufferTypeOK' /\ MutualExclusion' /\ BinaryValue' /\ UnitsConserved'
  BY <1>1 DEF BufferInv, BufferTypeOK, MutualExclusion, BinaryValue, Inside,
     UnitsConserved
<1>3. FullCountsLetters'
  <2>1. LetterInHand' = LetterInHand
    BY <1>1 DEF LetterInHand, Inside, BufferTypeOK
  <2> QED BY <2>1 DEF BufferInv, FullCountsLetters
<1>4. IndexPositions'
  <2>1. ProducerAt' = ProducerAt /\ ConsumerAt' = ConsumerAt
    BY <1>1 DEF ProducerAt, ConsumerAt, Inside, BufferTypeOK
  <2> QED BY <2>1 DEF BufferInv, IndexPositions
<1>5. RingContents' /\ UnreadIsNul' /\ Quiescent' /\ ConsumerStarted'
  BY <1>1 DEF BufferInv, RingContents, UnreadIsNul, Quiescent,
     ConsumerStarted, BufferTypeOK
<1> QED BY <1>2, <1>3, <1>4, <1>5 DEF BufferInv

LEMMA LeavePreserves == ASSUME BufferInv, NEW w \in Worker, Leave(w)
                        PROVE  BufferInv'
<1> USE DEF Leave, Goto, semVars, ringVars, historyVars
<1>1. /\ running /\ SB = 0 /\ \A v \in Worker : Inside(v) => v = w
      /\ pc[w] = "leave" /\ kind[w] \in Kind /\ BufferTypeOK
  BY InsideAlone DEF Inside, BufferInv, BufferTypeOK
<1>2. BufferTypeOK' /\ SB' = 1
  BY <1>1 DEF BufferTypeOK
<1>3. \A v \in Worker : ~Inside(v)'
  BY <1>1 DEF Inside, BufferTypeOK
<1>4. MutualExclusion' /\ BinaryValue'
  BY <1>2, <1>3 DEF MutualExclusion, BinaryValue
<1>5. UnitsConserved'
  <2>1. SE + SF + 1 = SeInit /\ SE \in Nat /\ SF \in Nat
    BY <1>1 DEF BufferInv, UnitsConserved, BufferTypeOK
  <2>2. CASE kind[w] = "p"
    BY <1>2, <2>1, <2>2 DEF UnitsConserved
  <2>3. CASE kind[w] # "p"
    BY <1>2, <2>1, <2>3 DEF UnitsConserved
  <2> QED BY <2>2, <2>3
<1>6. FullCountsLetters'
  <2>1. ~LetterInHand'
    BY <1>3 DEF LetterInHand, Inside
  <2>2. CASE kind[w] = "p"
    <3>1. LetterInHand
      BY <1>1, <2>2 DEF LetterInHand
    <3> QED BY <2>1, <2>2, <3>1, <1>1 DEF BufferInv, BufferTypeOK, FullCountsLetters
  <2>3. CASE kind[w] = "c"
    <3>1. ~LetterInHand
      BY <1>1, <2>3 DEF LetterInHand, Inside
    <3> QED BY <2>1, <2>3, <3>1, <1>1 DEF BufferInv, BufferTypeOK, FullCountsLetters
  <2> QED BY <2>2, <2>3, <1>1 DEF Kind
<1>7. IndexPositions'
  <2>1. ProducerAt' = ProducerAt /\ ConsumerAt' = ConsumerAt
    BY <1>1 DEF ProducerAt, ConsumerAt, Inside, BufferTypeOK
  <2> QED BY <2>1 DEF BufferInv, IndexPositions
<1>8. RingContents' /\ UnreadIsNul' /\ Quiescent' /\ ConsumerStarted'
  BY <1>1 DEF BufferInv, RingContents, UnreadIsNul, Quiescent,
     ConsumerStarted, BufferTypeOK
<1> QED BY <1>2, <1>4, <1>5, <1>6, <1>7, <1>8 DEF BufferInv

\* Steps of threads outside the critical section.
LEMMA OutsidePreserves ==
  ASSUME BufferInv, NEW w \in Worker, NEW k \in Kind, Spawn(w, k) \/ ReadArg(w)
  PROVE  BufferInv'
<1> USE DEF Spawn, ReadArg, Goto, semVars, ringVars, historyVars
<1>1. /\ BufferTypeOK /\ running /\ running' = running
      /\ pc[w] \in {"none", "start"} /\ pc'[w] \in {"start", "enter"}
      /\ \A v \in Worker : v # w => pc'[v] = pc[v] /\ kind'[v] = kind[v]
  BY DEF BufferInv, BufferTypeOK, Quiescent, NoThreads
<1>2. BufferTypeOK'
  BY <1>1 DEF BufferTypeOK
<1>3. \A v \in Worker : Inside(v)' <=> Inside(v)
  BY <1>1 DEF Inside
<1>4. MutualExclusion' /\ BinaryValue' /\ UnitsConserved'
  BY <1>1, <1>3 DEF BufferInv, MutualExclusion, BinaryValue, UnitsConserved
<1>5. FullCountsLetters'
  <2>1. LetterInHand' = LetterInHand
    BY <1>1 DEF LetterInHand
  <2> QED BY <2>1 DEF BufferInv, FullCountsLetters
<1>6. IndexPositions'
  <2>1. ProducerAt' = ProducerAt /\ ConsumerAt' = ConsumerAt
    BY <1>1 DEF ProducerAt, ConsumerAt
  <2> QED BY <2>1 DEF BufferInv, IndexPositions
<1>7. RingContents' /\ UnreadIsNul' /\ Quiescent' /\ ConsumerStarted'
  BY <1>1 DEF BufferInv, RingContents, UnreadIsNul, Quiescent, ConsumerStarted
<1> QED BY <1>2, <1>4, <1>5, <1>6, <1>7 DEF BufferInv

LEMMA StartPreserves == Start => BufferInv'
<1> SUFFICES ASSUME Start PROVE BufferInv'
  OBVIOUS
<1>1. BufferTypeOK'
  BY BufferAssumption DEF Start, BufferTypeOK, Cell, Nul, Kind, NoThreads
<1>2. IndexPositions'
  BY BufferAssumption, SmallRemainder DEF Start, IndexPositions, ProducerAt,
     ConsumerAt, NoThreads
<1>3. UnitsConserved' /\ FullCountsLetters'
  BY BufferAssumption DEF Start, UnitsConserved, FullCountsLetters,
     LetterInHand, NoThreads
<1>4. MutualExclusion' /\ BinaryValue'
  BY DEF Start, MutualExclusion, BinaryValue, Inside, NoThreads
<1>5. RingContents' /\ UnreadIsNul' /\ Quiescent' /\ ConsumerStarted'
  BY DEF Start, RingContents, UnreadIsNul, Quiescent, ConsumerStarted, Cell, NoThreads
<1> QED BY <1>1, <1>2, <1>3, <1>4, <1>5 DEF BufferInv

LEMMA EndPreserves == ASSUME BufferInv, Exit \/ Remove
                      PROVE  BufferInv'
<1> USE DEF semVars, ringVars, historyVars
<1>1. CASE Exit
  BY <1>1 DEF Exit, BufferInv, BufferTypeOK, MutualExclusion, BinaryValue,
     UnitsConserved, FullCountsLetters, IndexPositions, RingContents,
     UnreadIsNul, Quiescent, ConsumerStarted, NoThreads, Inside
<1>2. CASE Remove
  BY <1>2 DEF Remove, BufferInv, BufferTypeOK, MutualExclusion, BinaryValue,
     UnitsConserved, FullCountsLetters, LetterInHand, IndexPositions, ProducerAt,
     ConsumerAt, RingContents, UnreadIsNul, Quiescent, ConsumerStarted, Inside
<1> QED BY <1>1, <1>2

LEMMA BufferInvStep == ASSUME BufferInv, [BufferNext]_bufferVars
                       PROVE  BufferInv'
<1>1. CASE Start
  BY <1>1, StartPreserves
<1>2. CASE Exit \/ Remove
  BY <1>2, EndPreserves
<1>3. ASSUME NEW w \in Worker, WorkerMove(w) PROVE BufferInv'
  <2>1. "p" \in Kind
    BY DEF Kind
  <2> QED BY <1>3, <2>1, OutsidePreserves, EnterPreserves, WriteCellPreserves,
             ReadCellPreserves, AdvancePreserves, SendPreserves, LeavePreserves
          DEF WorkerMove
<1>4. ASSUME NEW w \in Worker, NEW k \in Kind, Spawn(w, k) PROVE BufferInv'
  BY <1>4, OutsidePreserves
<1>5. CASE UNCHANGED bufferVars
  BY <1>5 DEF bufferVars, semVars, ringVars, historyVars, BufferInv, BufferTypeOK,
     MutualExclusion, BinaryValue, UnitsConserved, FullCountsLetters,
     LetterInHand, IndexPositions, ProducerAt, ConsumerAt, RingContents,
     UnreadIsNul, Quiescent, ConsumerStarted, Inside
<1> QED BY <1>1, <1>2, <1>3, <1>4, <1>5 DEF BufferNext

\* BufferInv is inductive.
THEOREM BufferInductive == BufferSpec => []BufferInv
<1>1. BufferInv /\ [BufferNext]_bufferVars => BufferInv'
  BY BufferInvStep
<1> QED BY <1>1, InitEstablishes, PTL DEF BufferSpec

-----------------------------------------------------------------------------
(* What a reader should know of the buffer.                                *)

\* Every reachable state of the buffer is well typed.
THEOREM BufferTypes == BufferSpec => []BufferTypeOK
BY BufferInductive, PTL DEF BufferInv

\* Two workers are never between their semop calls at the same time, for any
\* number of threads, crashes and restarts.
THEOREM BufferExcludes == BufferSpec => []MutualExclusion
BY BufferInductive, PTL DEF BufferInv

\* SB is up whenever nobody is inside: the exit of a thread that held it is
\* repaired by the next start.
THEOREM BufferReleases == BufferSpec => []BinaryValue
BY BufferInductive, PTL DEF BufferInv

\* The three semaphores conserve the SeInit units.
THEOREM BufferConserves == BufferSpec => []UnitsConserved
BY BufferInductive, PTL DEF BufferInv

\* SF is the number of letters a consumer can still take.
THEOREM BufferCounts == BufferSpec => []FullCountsLetters
BY BufferInductive, PTL DEF BufferInv

\* A thread whose next call returns.
CanMove(w) == pc[w] \in {"start", "cell", "index", "send", "leave"}
                \/ (pc[w] = "enter" /\ MayEnter(w))
StandsStill == running /\ semset /\ \A w \in Worker : ~CanMove(w)

\* When no thread can move, nobody is inside and SB is up: a producer waits
\* only because all SeInit units are letters, a consumer only because none is.
LEMMA StillMeansFullOrEmpty ==
  ASSUME BufferInv, StandsStill, NEW w \in Worker, pc[w] = "enter"
  PROVE  IF kind[w] = "p" THEN SF = SeInit ELSE SE = SeInit
<1>1. /\ SE \in Nat /\ SF \in Nat /\ SB \in {0, 1} /\ kind[w] \in {"p", "c"}
      /\ SeInit \in Nat \ {0}
  BY BufferAssumption DEF BufferInv, BufferTypeOK, Kind
<1>2. SB = 1
  BY <1>1 DEF BufferInv, BinaryValue, Inside, StandsStill, CanMove
<1>3. SE + SF = SeInit
  BY <1>1, <1>2 DEF BufferInv, UnitsConserved, StandsStill
<1>4. IF kind[w] = "p" THEN SE = 0 ELSE SF = 0
  BY <1>1, <1>2 DEF StandsStill, CanMove, MayEnter
<1> QED BY <1>1, <1>3, <1>4

\* Hence the threads never all wait for one another: those that wait while none
\* can move are of one kind, and the other kind may enter at once.
THEOREM BufferWaitsForOneKind == BufferSpec => [](StandsStill =>
  \A w \in Worker : pc[w] = "enter" => IF kind[w] = "p" THEN SF = SeInit ELSE SE = SeInit)
<1>1. ASSUME BufferInv, StandsStill, NEW w \in Worker, pc[w] = "enter"
      PROVE  IF kind[w] = "p" THEN SF = SeInit ELSE SE = SeInit
  BY <1>1, StillMeansFullOrEmpty
<1>2. BufferInv => (StandsStill =>
        \A w \in Worker : pc[w] = "enter" => IF kind[w] = "p" THEN SF = SeInit ELSE SE = SeInit)
  BY <1>1
<1> QED BY <1>2, BufferInductive, PTL

\* Every step of the buffer is a step of the letter stream, or none.
LEMMA StreamStep == ASSUME BufferInv, [BufferNext]_bufferVars
                    PROVE  [Stream!StreamNext]_Stream!streamVars
<1> USE DEF Stream!streamVars, semVars, ringVars, historyVars
<1>1. BufferTypeOK
  BY DEF BufferInv
<1>2. CASE Start
  BY <1>2 DEF Start, Stream!StreamNext, Stream!Renew, Stream!Nothing, Nul
<1>3. CASE Exit \/ Remove
  BY <1>3 DEF Exit, Remove
<1>4. ASSUME NEW w \in Worker, NEW k \in Kind, Spawn(w, k)
      PROVE  UNCHANGED Stream!streamVars
  BY <1>4 DEF Spawn
<1>5. ASSUME NEW w \in Worker, WriteCell(w)
      PROVE  Stream!Make
  <2>1. pc[w] = "cell" /\ kind[w] = "p"
    BY <1>5 DEF WriteCell, Goto
  <2>2. running /\ SB = 0 /\ \A v \in Worker : Inside(v) => v = w
    BY <2>1, InsideAlone DEF Inside
  <2>3. ~LetterInHand
    BY <2>1, <2>2, <1>1 DEF LetterInHand, Inside
  <2>4. produced - consumed = SF /\ SE + SF + 1 = SeInit
    BY <2>2, <2>3, <1>1 DEF BufferInv, FullCountsLetters, UnitsConserved, BufferTypeOK
  <2>5. produced - consumed < SeInit
    BY <2>4, <1>1, BufferAssumption DEF BufferTypeOK
  <2> QED BY <2>5, <1>5 DEF WriteCell, Stream!Make
<1>6. ASSUME NEW w \in Worker, ReadCell(w)
      PROVE  Stream!Take(w)
  BY <1>1, <1>6, ReadCellPreserves
  DEF ReadCell, Stream!Take, Stream!Letter, Stream!Nothing, Nul
<1>7. ASSUME NEW w \in Worker, ReadArg(w) \/ Enter(w) \/ Advance(w) \/ Send(w) \/ Leave(w)
      PROVE  UNCHANGED Stream!streamVars
  BY <1>7 DEF ReadArg, Enter, Advance, Send, Leave
<1>8. CASE UNCHANGED bufferVars
  BY <1>8 DEF bufferVars
<1> QED BY <1>2, <1>3, <1>4, <1>5, <1>6, <1>7, <1>8
        DEF BufferNext, WorkerMove, Stream!StreamNext

\* The semaphores, the two indices and the ring together implement the cyclic
\* alphabet: the k-th consumption gets letter k mod R, after its production,
\* with at most SeInit letters outstanding, for every R and SeInit, whichever
\* of the two is larger.
THEOREM BufferImplementsStream == BufferSpec => ImplementsStream
<1>1. BufferInit => Stream!StreamInit
  BY DEF BufferInit, Fresh, Stream!StreamInit, Stream!Nothing, Nul
<1>2. BufferInv /\ [BufferNext]_bufferVars => [Stream!StreamNext]_Stream!streamVars
  BY StreamStep
<1> QED BY <1>1, <1>2, BufferInductive, PTL
        DEF BufferSpec, ImplementsStream, Stream!StreamSpec

-----------------------------------------------------------------------------
(* Every step of the program is a step of the buffer, or leaves it alone.  *)

LEMMA BufferStep == ASSUME MainInv, [Next]_vars
                    PROVE  [BufferNext]_bufferVars
<1>1. EndProcess => BufferNext
  BY DEF EndProcess, BufferNext
<1>2. CASE Main
  <2>1. CASE CreateThread
    <3>1. connfd \in Worker
      BY <2>1 DEF CreateThread, MainGoto, MainInv
    <3> QED BY <2>1, <3>1 DEF CreateThread, BufferNext
  <2>2. CASE RemoveSemaphores
    BY <2>2 DEF RemoveSemaphores, BufferNext
  <2>3. CASE AcceptFails \/ Return
    BY <2>3, <1>1 DEF AcceptFails, Return
  <2>4. CASE Detach
    BY <2>4, <1>1 DEF Detach
  <2>5. CASE TestFlag \/ Accept \/ Receive
    BY <2>5 DEF TestFlag, Accept, Receive
  <2> QED BY <1>2, <2>1, <2>2, <2>3, <2>4, <2>5 DEF Main
<1>3. ASSUME NEW w \in Worker, Work(w) PROVE [BufferNext]_bufferVars
  BY <1>3, <1>1 DEF Work, WorkerReadsConnfd, WorkerWorks, WorkerReplies,
     WorkerFails, WorkerMove, BufferNext
<1>4. ASSUME NEW c \in Client, ClientStep(c) \/ Kill(c) PROVE UNCHANGED bufferVars
  BY <1>4 DEF ClientStep, Connect, Quit, SendRequest, ReceiveReply, LoseServer, Kill
<1>5. CASE Interrupt \/ Crash \/ Restart
  BY <1>5, <1>1 DEF Interrupt, Crash, Restart, BufferNext
<1>6. CASE UNCHANGED vars
  BY <1>6 DEF vars
<1> QED BY <1>2, <1>3, <1>4, <1>5, <1>6 DEF Next

-----------------------------------------------------------------------------
(* The updates of a connection.                                            *)

LEMMA ConnectionUpdates ==
  ASSUME NEW s \in Connection, NEW w \in Worker
  PROVE  /\ [s EXCEPT !.sent = TRUE] \in Connection
         /\ [s EXCEPT !.read = TRUE] \in Connection
         /\ [s EXCEPT !.reset = TRUE] \in Connection
         /\ [s EXCEPT !.inbox = Append(s.inbox, w)] \in Connection
         /\ [s EXCEPT !.sent = TRUE].inbox = s.inbox
         /\ [s EXCEPT !.read = TRUE].inbox = s.inbox
         /\ [s EXCEPT !.reset = TRUE].inbox = s.inbox
         /\ [s EXCEPT !.inbox = Append(s.inbox, w)].inbox = Append(s.inbox, w)
<1>1. Append(s.inbox, w) \in Seq(Worker)
  BY DEF Connection
<1> QED BY <1>1 DEF Connection

-----------------------------------------------------------------------------
(* MainInv is inductive, given the invariant of the buffer.              *)

LEMMA ServerInitEstablishes == ServerInit => MainInv
  BY ServerAssumption DEF ServerInit, BufferInit, Fresh, NoThreads, MainInv,
     ServerTypeOK, Garbage, Kind, NoFd, NewConnection,
     Connection, RepliesNeverGoBack,
     AtMostOneLateAccept

LEMMA EndProcessPreserves ==
  ASSUME BufferInv, MainInv, EndProcess,
         signals' \in 0..MaxSignals, kills' \in 0..MaxKills, crashes' \in 0..MaxCrashes
  PROVE  MainInv'
  BY DEF EndProcess, Exit, NoThreads, MainInv, ServerTypeOK, netVars, clientVars,
     RepliesNeverGoBack, AtMostOneLateAccept, NoFd, historyVars

LEMMA MainPreserves == ASSUME BufferInv, MainInv, Main
                       PROVE  MainInv'
<1> USE DEF MainGoto, bufferVars, netVars, clientVars, faultVars
<1>1. ServerTypeOK /\ BufferTypeOK
  BY DEF MainInv, BufferInv
<1>2. CASE TestFlag
  BY <1>2 DEF TestFlag, MainInv, ServerTypeOK, RepliesNeverGoBack, AtMostOneLateAccept
<1>3. CASE Accept
  <2>1. accepted + 1 \in Worker /\ accepted \in Nat /\ accepted' \in Nat
    <3>1. opened \in Worker /\ accepted \in Nat /\ opened \in Nat /\ accepted < opened
      BY <1>1, <1>3, ServerAssumption DEF Accept, ServerTypeOK
    <3>2. accepted + 1 \in 1..opened
      BY <3>1
    <3> QED BY <3>1, <3>2, <1>3, ServerAssumption DEF Accept
  <2>2. ServerTypeOK'
    BY <1>1, <1>3, <2>1, ServerAssumption DEF Accept, ServerTypeOK
  <2>3. late = 0 /\ late' \in {0, 1}
    BY <1>1, <1>3 DEF Accept, MainInv, ServerTypeOK
  <2>4. \A w \in Worker : pc'[w] # "none" => w <= accepted'
    BY <1>3, <2>1, ServerAssumption DEF Accept, MainInv
  <2> QED BY <1>3, <2>1, <2>2, <2>3, <2>4
          DEF Accept, MainInv, RepliesNeverGoBack, AtMostOneLateAccept
<1>4. CASE AcceptFails
  BY <1>1, <1>4, EndProcessPreserves DEF AcceptFails, ServerTypeOK
<1>5. CASE Receive
  <2>1. connfd \in Worker /\ sock[connfd].want \in Kind
    BY <1>1, <1>5 DEF Receive, MainInv, ServerTypeOK, Connection
  <2> QED BY <1>1, <1>5, <2>1 DEF Receive, MainInv, ServerTypeOK, Garbage,
          RepliesNeverGoBack, AtMostOneLateAccept
<1>6. CASE CreateThread
  <2>1. connfd \in Worker /\ connfd = accepted /\ connfd <= accepted
    BY <1>1, <1>6, ServerAssumption DEF CreateThread, MainInv, NoFd
  <2>2. \A w \in Worker : pc'[w] = pc[w] \/ w = connfd
    BY <1>1, <1>6 DEF CreateThread, Spawn, Goto, BufferTypeOK
  <2> QED BY <1>1, <1>6, <2>1, <2>2 DEF CreateThread, MainInv, ServerTypeOK,
          RepliesNeverGoBack, AtMostOneLateAccept
<1>7. CASE Detach
  <2>1. CASE mpc = "detach" /\ mpc' = "loop" /\ UNCHANGED <<bufferVars, flag, connfd,
               request, accepted, base, late, fd, netVars, clientVars, faultVars>>
    BY <2>1 DEF MainInv, ServerTypeOK, RepliesNeverGoBack, AtMostOneLateAccept
  <2>2. CASE EndProcess /\ UNCHANGED faultVars
    BY <1>1, <2>2, EndProcessPreserves DEF ServerTypeOK
  <2> QED BY <1>7, <2>1, <2>2 DEF Detach
<1>8. CASE RemoveSemaphores
  BY <1>8 DEF RemoveSemaphores, Remove, MainInv, ServerTypeOK, RepliesNeverGoBack,
     AtMostOneLateAccept
<1>9. CASE Return
  BY <1>1, <1>9, EndProcessPreserves DEF Return, ServerTypeOK
<1> QED BY <1>2, <1>3, <1>4, <1>5, <1>6, <1>7, <1>8, <1>9 DEF Main

LEMMA WorkPreserves == ASSUME BufferInv, MainInv, NEW w \in Worker, Work(w)
                       PROVE  MainInv'
<1> USE DEF mainVars, netVars, clientVars, faultVars
<1>1. /\ ServerTypeOK /\ BufferTypeOK /\ w \in Nat /\ w # NoFd
      /\ \A v \in Worker : pc[v] # "none" => v <= accepted
  BY ServerAssumption DEF MainInv, BufferInv, NoFd
<1>2. CASE WorkerReadsConnfd(w)
  <2>1. pc[w] = "start" /\ \A v \in Worker : pc'[v] # "none" => pc[v] # "none"
    BY <1>1, <1>2 DEF WorkerReadsConnfd, ReadArg, Goto, BufferTypeOK
  <2>2. connfd # NoFd => w <= connfd
    BY <1>1, <2>1 DEF MainInv
  <2> QED BY <1>1, <1>2, <2>1, <2>2 DEF WorkerReadsConnfd, MainInv, ServerTypeOK,
          RepliesNeverGoBack, AtMostOneLateAccept
<1>3. CASE WorkerWorks(w)
  <2>1. \A v \in Worker : pc'[v] # "none" => pc[v] # "none"
    BY <1>1, <1>3 DEF WorkerWorks, Enter, WriteCell, ReadCell, Advance, Leave, Goto,
       BufferTypeOK
  <2> QED BY <1>3, <2>1 DEF WorkerWorks, MainInv, ServerTypeOK,
          RepliesNeverGoBack, AtMostOneLateAccept
<1>4. CASE WorkerReplies(w)
  <2> DEFINE k == fd[w]
  <2>1. k \in Worker /\ w <= k /\ sock[k] \in Connection
    BY <1>1, <1>4 DEF WorkerReplies, MainInv, ServerTypeOK
  <2>2. \A v \in Worker : pc'[v] # "none" => pc[v] # "none"
    BY <1>1, <1>4 DEF WorkerReplies, Send, Goto, BufferTypeOK
  <2>3. ServerTypeOK'
    <3>1. \/ sock' = [sock EXCEPT ![k] = [sock[k] EXCEPT !.reset = TRUE]]
          \/ sock' = [sock EXCEPT ![k] = [sock[k] EXCEPT !.inbox = Append(sock[k].inbox, w)]]
      BY <1>1, <1>4 DEF WorkerReplies
    <3>2. /\ [sock[k] EXCEPT !.reset = TRUE] \in Connection
          /\ [sock[k] EXCEPT !.inbox = Append(sock[k].inbox, w)] \in Connection
      BY <2>1, ConnectionUpdates
    <3>3. sock' \in [Worker -> Connection]
      BY <1>1, <2>1, <3>1, <3>2 DEF ServerTypeOK
    <3> QED BY <1>1, <1>4, <3>3 DEF WorkerReplies, ServerTypeOK
  <2>4. RepliesNeverGoBack'
    <3>1. CASE sock' = [sock EXCEPT ![k].reset = TRUE]
      BY <1>1, <2>1, <3>1, ConnectionUpdates DEF MainInv, ServerTypeOK, RepliesNeverGoBack
    <3>2. CASE sock' = [sock EXCEPT ![k].inbox = Append(@, w)]
      <4> DEFINE box == sock[k].inbox
      <4>1. box \in Seq(Worker) /\ Worker \subseteq Nat
        BY <2>1, ServerAssumption DEF Connection
      <4>2. sock'[k].inbox = Append(box, w) /\ \A j \in Worker \ {k} : sock'[j] = sock[j]
        BY <1>1, <2>1, <3>2 DEF ServerTypeOK, Connection
      <4>3. \A i \in DOMAIN box : box[i] <= k
        BY <1>1, <2>1 DEF MainInv, RepliesNeverGoBack
      <4> HIDE DEF box
      <4>4. \A i \in DOMAIN Append(box, w) : Append(box, w)[i] <= k
        BY <1>1, <2>1, <4>1, <4>3
      <4> QED BY <1>1, <2>1, <4>2, <4>4 DEF MainInv, RepliesNeverGoBack
    <3> QED BY <1>4, <3>1, <3>2 DEF WorkerReplies
  <2> QED BY <1>4, <2>2, <2>3, <2>4 DEF WorkerReplies, MainInv, AtMostOneLateAccept
<1>5. CASE WorkerFails(w)
  BY <1>1, <1>5, EndProcessPreserves DEF WorkerFails, ServerTypeOK
<1> QED BY <1>2, <1>3, <1>4, <1>5 DEF Work

LEMMA FaultPreserves == ASSUME BufferInv, MainInv, Interrupt \/ Crash \/ Restart
                        PROVE  MainInv'
<1> USE DEF netVars, clientVars, faultVars
<1>1. ServerTypeOK /\ BufferTypeOK
  BY DEF MainInv, BufferInv
<1>2. CASE Interrupt
  <2>1. signals' \in 0..MaxSignals /\ kills' \in 0..MaxKills /\ crashes' \in 0..MaxCrashes
    BY <1>1, <1>2, ServerAssumption DEF Interrupt, ServerTypeOK
  <2>2. CASE EndProcess
    BY <2>1, <2>2, EndProcessPreserves
  <2>3. CASE ~EndProcess
    <3>1. /\ flag' = FALSE
          /\ UNCHANGED <<bufferVars, request, accepted, base, late, fd, netVars, clientVars>>
          /\ mpc' \in {mpc, "loop", "rmid"} /\ connfd' \in {connfd, NoFd}
          /\ (mpc' = mpc => connfd' = connfd)
      BY <1>2, <2>3 DEF Interrupt
    <3> QED BY <1>1, <2>1, <3>1 DEF bufferVars, MainInv, ServerTypeOK,
            RepliesNeverGoBack, AtMostOneLateAccept
  <2> QED BY <2>2, <2>3
<1>3. CASE Crash
  <2>1. signals' \in 0..MaxSignals /\ kills' \in 0..MaxKills /\ crashes' \in 0..MaxCrashes
    BY <1>1, <1>3, ServerAssumption DEF Crash, ServerTypeOK
  <2> QED BY <1>3, <2>1, EndProcessPreserves DEF Crash
<1>4. CASE Restart
  <2>1. opened \in Nat
    BY <1>1, ServerAssumption DEF ServerTypeOK
  <2> QED BY <1>1, <1>4, <2>1 DEF Restart, Start, NoThreads, MainInv, ServerTypeOK,
          RepliesNeverGoBack, AtMostOneLateAccept
<1> QED BY <1>2, <1>3, <1>4

LEMMA ClientPreserves == ASSUME BufferInv, MainInv, NEW c \in Client,
                                ClientStep(c) \/ Kill(c)
                         PROVE  MainInv'
<1> USE DEF bufferVars, mainVars, netVars, clientVars, faultVars
<1>1. ServerTypeOK /\ BufferTypeOK
  BY DEF MainInv, BufferInv
<1>2. CASE Connect(c)
  <2> DEFINE new == NewConnection(c, Want(iter[c]))
  <2>1. /\ opened + 1 \in Worker /\ accepted \in base..(opened + 1)
        /\ iter[c] + 1 \in 0..Iter
    BY <1>1, <1>2, ServerAssumption DEF Connect, ServerTypeOK
  <2>2. new \in Connection /\ new.inbox = <<>>
    BY DEF NewConnection, Connection, Want, Kind
  <2> HIDE DEF new
  <2>3. sock' = [sock EXCEPT ![opened + 1] = new]
    BY <1>2 DEF Connect, new
  <2>4. ServerTypeOK'
    BY <1>1, <1>2, <2>1, <2>2, <2>3 DEF Connect, ServerTypeOK
  <2>5. RepliesNeverGoBack'
    BY <1>1, <2>2, <2>3 DEF MainInv, ServerTypeOK, RepliesNeverGoBack
  <2> QED BY <1>2, <2>4, <2>5 DEF Connect, MainInv, AtMostOneLateAccept
<1>3. CASE SendRequest(c) \/ ReceiveReply(c)
  <2> DEFINE k == cur[c]
  <2>1. \/ sock' = [sock EXCEPT ![k] = [sock[k] EXCEPT !.sent = TRUE]]
        \/ sock' = [sock EXCEPT ![k] = [sock[k] EXCEPT !.read = TRUE]]
    BY <1>3 DEF SendRequest, ReceiveReply
  <2>2. /\ sock' \in [Worker -> Connection]
        /\ \A j \in Worker : sock'[j].inbox = sock[j].inbox
    <3>1. CASE k \in Worker
      <4>1. /\ sock[k] \in Connection
            /\ [sock[k] EXCEPT !.sent = TRUE] \in Connection
            /\ [sock[k] EXCEPT !.read = TRUE] \in Connection
            /\ [sock[k] EXCEPT !.sent = TRUE].inbox = sock[k].inbox
            /\ [sock[k] EXCEPT !.read = TRUE].inbox = sock[k].inbox
        BY <1>1, <3>1, ConnectionUpdates DEF ServerTypeOK
      <4>2. PICK s \in Connection : sock' = [sock EXCEPT ![k] = s] /\ s.inbox = sock[k].inbox
        BY <2>1, <4>1
      <4>3. sock \in [Worker -> Connection]
        BY <1>1 DEF ServerTypeOK
      <4> HIDE DEF k
      <4> QED BY <3>1, <4>2, <4>3
    <3>2. CASE k \notin Worker
      <4>1. sock' = sock
        BY <1>1, <2>1, <3>2 DEF ServerTypeOK
      <4> QED BY <1>1, <4>1 DEF ServerTypeOK
    <3> QED BY <3>1, <3>2
  <2>3. ServerTypeOK'
    BY <1>1, <1>3, <2>2 DEF SendRequest, ReceiveReply, ServerTypeOK
  <2> QED BY <1>3, <2>2, <2>3 DEF SendRequest, ReceiveReply, MainInv,
          RepliesNeverGoBack, AtMostOneLateAccept
<1>4. CASE Quit(c) \/ LoseServer(c)
  BY <1>1, <1>4 DEF Quit, LoseServer, MainInv, ServerTypeOK, RepliesNeverGoBack,
     AtMostOneLateAccept
<1>5. CASE Kill(c)
  BY <1>1, <1>5, ServerAssumption DEF Kill, MainInv, ServerTypeOK,
     RepliesNeverGoBack, AtMostOneLateAccept
<1> QED BY <1>2, <1>3, <1>4, <1>5 DEF ClientStep

LEMMA StutterPreserves == ASSUME BufferInv, MainInv, UNCHANGED vars
                          PROVE  MainInv'
  BY DEF vars, bufferVars, mainVars, netVars, clientVars, faultVars, MainInv,
     ServerTypeOK, RepliesNeverGoBack, AtMostOneLateAccept

-----------------------------------------------------------------------------
(* Who gets which reply.                                                   *)

ReplyInv == OfThisLife /\ OneAtATime /\ InTurn

LEMMA ReplyInitial == ServerInit => ReplyInv
<1> SUFFICES ASSUME ServerInit PROVE ReplyInv
  OBVIOUS
<1>1. /\ mpc = "loop" /\ connfd = NoFd /\ accepted = 0 /\ base = 0 /\ opened = 0
      /\ fd = [w \in Worker |-> NoFd] /\ pc = [w \in Worker |-> "none"]
      /\ cpc = [c \in Client |-> "idle"] /\ cur = [c \in Client |-> NoFd]
      /\ \A k \in Worker : sock[k].inbox = <<>> /\ sock[k].read = FALSE
  BY DEF ServerInit, BufferInit, Fresh, NoThreads, NewConnection
<1>2. Worker \subseteq Nat /\ 1..opened = {}
  BY <1>1, ServerAssumption
<1>3. OfThisLife /\ OneAtATime
  BY <1>1, <1>2 DEF OfThisLife, OneAtATime, NoFd
<1>4. InTurn
  BY <1>1, <1>2 DEF InTurn
<1> QED BY <1>3, <1>4 DEF ReplyInv

LEMMA ServerFacts ==
  ASSUME BufferInv, MainInv
  PROVE  /\ Worker \subseteq Nat \ {0}
         /\ base \in Nat /\ accepted \in Nat /\ opened \in Nat
         /\ base <= accepted /\ accepted <= opened
         /\ 1..opened \subseteq Worker
         /\ running \in BOOLEAN
         /\ fd \in [Worker -> Worker \cup {NoFd}]
         /\ sock \in [Worker -> Connection]
         /\ cpc \in [Client -> {"idle", "send", "wait", "gone"}]
         /\ cur \in [Client -> {NoFd} \cup Worker]
         /\ pc \in [Worker -> {"none", "start", "enter", "cell", "index", "send",
                               "leave", "done"}]
<1>1. ServerTypeOK /\ BufferTypeOK
  BY DEF BufferInv, MainInv
<1>2. Worker \subseteq Nat \ {0} /\ opened \in Nat
  BY <1>1, ServerAssumption DEF ServerTypeOK
<1>3. 1..opened \subseteq Worker
  BY <1>1, <1>2, ServerAssumption DEF ServerTypeOK
<1> QED BY <1>1, <1>2, <1>3 DEF ServerTypeOK, BufferTypeOK

LEMMA EndKeepsReplies == ASSUME BufferInv, MainInv, ReplyInv, EndProcess
                         PROVE  ReplyInv'
<1>1. /\ ~running' /\ mpc' = "down"
      /\ \A w \in Worker : pc'[w] = "none" /\ fd'[w] = NoFd
      /\ UNCHANGED <<accepted, base, opened, sock, cpc, cur>>
  BY DEF EndProcess, Exit, NoThreads, netVars, clientVars
<1>2. OfThisLife'
  BY <1>1, ServerFacts DEF OfThisLife, NoFd
<1>3. OneAtATime'
  BY <1>1 DEF ReplyInv, OneAtATime, Cut
<1>4. InTurn'
  BY <1>1 DEF ReplyInv, InTurn, OneClient
<1> QED BY <1>2, <1>3, <1>4 DEF ReplyInv

\* Steps that touch neither connections nor clients, and move the worker w at most.
LEMMA QuietKeepsReplies ==
  ASSUME BufferInv, MainInv, ReplyInv, NEW w \in Worker,
         UNCHANGED <<running, fd, base, opened, sock, cpc, cur>>,
         accepted' \in Nat, accepted <= accepted',
         \A v \in Worker : v # w => pc'[v] = pc[v],
         pc'[w] # "none" => base < w,
         pc'[w] \in Answering => pc[w] \in Answering,
         mpc' \in {"recv", "create"} => base < connfd'
  PROVE  ReplyInv'
<1>1. OfThisLife'
  <2>1. \A v \in Worker : fd[v] \in Nat
    BY ServerFacts DEF NoFd
  <2> QED BY <2>1, ServerFacts DEF ReplyInv, OfThisLife
<1>2. OneAtATime'
  BY DEF ReplyInv, OneAtATime, Cut
<1>3. InTurn'
  BY DEF ReplyInv, InTurn, OneClient
<1> QED BY <1>1, <1>2, <1>3 DEF ReplyInv

LEMMA MainKeepsReplies == ASSUME BufferInv, MainInv, ReplyInv, Main
                          PROVE  ReplyInv'
<1> USE ServerFacts DEF MainGoto, bufferVars, netVars, clientVars
<1>1. CASE AcceptFails \/ Return
  BY <1>1, EndKeepsReplies DEF AcceptFails, Return
<1>2. CASE Detach
  <2>1. CASE EndProcess
    BY <2>1, EndKeepsReplies
  <2>2. CASE ~EndProcess
    <3>1. mpc' = "loop" /\ UNCHANGED <<running, fd, base, accepted, opened, sock, cpc, cur, pc>>
      BY <1>2, <2>2 DEF Detach
    <3>2. CASE Worker = {}
      BY <3>1, <3>2 DEF ReplyInv, OfThisLife, OneAtATime, InTurn, OneClient, Cut
    <3>3. ASSUME NEW w \in Worker PROVE ReplyInv'
      BY <3>1, QuietKeepsReplies DEF ReplyInv, OfThisLife
    <3> QED BY <3>2, <3>3
  <2> QED BY <2>1, <2>2
<1>3. CASE TestFlag \/ Receive \/ RemoveSemaphores
  <2>1. /\ UNCHANGED <<running, fd, base, accepted, opened, sock, cpc, cur, pc, connfd>>
        /\ mpc' \in {"recv", "create"} => mpc = "recv"
    BY <1>3 DEF TestFlag, Receive, RemoveSemaphores, Remove
  <2>2. CASE Worker = {}
    BY <2>1, <2>2 DEF ReplyInv, OfThisLife, OneAtATime, InTurn, OneClient, Cut
  <2>3. ASSUME NEW w \in Worker PROVE ReplyInv'
    BY <2>1, QuietKeepsReplies DEF ReplyInv, OfThisLife
  <2> QED BY <2>2, <2>3
<1>4. CASE Accept
  <2>1. /\ accepted < opened /\ accepted' = accepted + 1 /\ connfd' = accepted + 1
        /\ UNCHANGED <<running, fd, base, opened, sock, cpc, cur, pc>>
    BY <1>4 DEF Accept
  <2>2. accepted + 1 \in Worker /\ base < connfd' /\ accepted' \in Nat /\ accepted <= accepted'
    BY <2>1
  <2> QED BY <2>1, <2>2, QuietKeepsReplies DEF ReplyInv, OfThisLife
<1>5. CASE CreateThread
  <2>1. /\ connfd \in Worker /\ base < connfd /\ mpc' = "detach"
        /\ UNCHANGED <<running, fd, base, accepted, opened, sock, cpc, cur>>
    BY <1>5 DEF CreateThread, Spawn, MainInv, ReplyInv, OfThisLife
  <2>2. pc' = pc \/ (pc[connfd] = "none" /\ pc' = [pc EXCEPT ![connfd] = "start"])
    BY <1>5 DEF CreateThread, Spawn, Goto
  <2>3. /\ \A v \in Worker : v # connfd => pc'[v] = pc[v]
        /\ pc'[connfd] \in Answering => pc[connfd] \in Answering
    BY <2>1, <2>2 DEF Answering
  <2> QED BY <2>1, <2>3, QuietKeepsReplies
<1> QED BY <1>1, <1>2, <1>3, <1>4, <1>5 DEF Main

\* A client that is alone has not moved on, so that connfd is still its worker's
\* connection, or nothing.
LEMMA ReadsOwnConnection ==
  ASSUME BufferInv, MainInv, ReplyInv, OneClient, NEW w \in Worker, pc[w] = "start", running
  PROVE  connfd \in {NoFd, w}
<1>1. base < w /\ w <= accepted
  BY DEF MainInv, ReplyInv, OfThisLife
<1>2. sock[w].inbox = <<>>
  BY <1>1 DEF ReplyInv, InTurn, Answering
<1>3. ~(w < opened)
  BY <1>1, <1>2 DEF ReplyInv, InTurn
<1>4. w = accepted
  BY <1>1, <1>3, ServerFacts
<1> QED BY <1>4 DEF MainInv

LEMMA WorkKeepsReplies == ASSUME BufferInv, MainInv, ReplyInv, NEW w \in Worker, Work(w)
                          PROVE  ReplyInv'
<1> USE DEF mainVars, netVars, clientVars
<1>1. running /\ base < w
  <2>1. pc[w] # "none"
    BY DEF Work, WorkerReadsConnfd, WorkerWorks, WorkerReplies, WorkerFails, ReadArg, Enter,
           WriteCell, ReadCell, Advance, Leave, Send, Goto
  <2> QED BY <2>1 DEF ReplyInv, OfThisLife, BufferInv, Quiescent, NoThreads
<1>2. CASE WorkerFails(w)
  BY <1>2, EndKeepsReplies DEF WorkerFails
<1>3. CASE WorkerWorks(w)
  <2>1. UNCHANGED <<running, fd, base, accepted, opened, sock, cpc, cur, mpc, connfd>>
    BY <1>3 DEF WorkerWorks, Enter, WriteCell, ReadCell, Advance, Leave
  <2>2. \E from, to : /\ pc[w] = from /\ pc' = [pc EXCEPT ![w] = to]
                      /\ \/ from \in {"enter", "cell", "index"}
                         \/ from = "leave" /\ to = "done"
    BY <1>3 DEF WorkerWorks, Enter, WriteCell, ReadCell, Advance, Leave, Goto
  <2>3. /\ \A v \in Worker : v # w => pc'[v] = pc[v]
        /\ pc'[w] \in Answering => pc[w] \in Answering
    BY <2>2, ServerFacts DEF Answering
  <2> QED BY <1>1, <2>1, <2>3, ServerFacts, QuietKeepsReplies DEF ReplyInv, OfThisLife
<1>4. CASE WorkerReadsConnfd(w)
  <2>1. /\ pc[w] = "start" /\ pc' = [pc EXCEPT ![w] = "enter"] /\ fd' = [fd EXCEPT ![w] = connfd]
        /\ UNCHANGED <<running, base, accepted, opened, sock, cpc, cur, mpc, connfd>>
    BY <1>4 DEF WorkerReadsConnfd, ReadArg, Goto
  <2>2. connfd \in {NoFd, accepted}
    BY DEF MainInv
  <2>3. OfThisLife'
    <3>1. \A v \in Worker : fd'[v] <= accepted /\ (pc'[v] # "none" => base < v)
      BY <1>1, <2>1, <2>2, ServerFacts DEF ReplyInv, OfThisLife, NoFd
    <3> QED BY <2>1, <3>1 DEF ReplyInv, OfThisLife
  <2>4. OneAtATime'
    BY <2>1 DEF ReplyInv, OneAtATime, Cut
  <2>5. InTurn'
    <3> SUFFICES ASSUME OneClient PROVE InTurn'
      BY <2>1 DEF InTurn, OneClient
    <3>1. connfd \in {NoFd, w}
      BY <1>1, <2>1, ReadsOwnConnection
    <3>2. \A v \in Worker : fd'[v] \in {NoFd, v}
      BY <2>1, <3>1, ServerFacts DEF ReplyInv, InTurn
    <3>3. \A v \in Worker : pc'[v] \in Answering => pc[v] \in Answering
      BY <2>1, ServerFacts DEF Answering
    <3> QED BY <2>1, <3>2, <3>3 DEF ReplyInv, InTurn
  <2> QED BY <2>3, <2>4, <2>5 DEF ReplyInv
<1>5. CASE WorkerReplies(w)
  <2> DEFINE k == fd[w]
  <2>1. /\ pc[w] = "send" /\ pc' = [pc EXCEPT ![w] = "leave"] /\ k # NoFd
        /\ \/ sock' = [sock EXCEPT ![k].reset = TRUE]
           \/ sock' = [sock EXCEPT ![k].inbox = Append(@, w)]
        /\ UNCHANGED <<running, fd, base, accepted, opened, cpc, cur, mpc, connfd>>
    BY <1>5 DEF WorkerReplies, Send, Goto
  <2>2. k \in Worker /\ k <= opened
    <3>1. k <= accepted
      BY DEF ReplyInv, OfThisLife
    <3> QED BY <2>1, <3>1, ServerFacts
  <2> DEFINE box == sock[k].inbox
  <2>3. box \in Seq(Worker) /\ Append(box, w) # <<>>
    <3>1. box \in Seq(Worker)
      BY <2>2, ServerFacts DEF Connection
    <3> HIDE DEF box
    <3>2. Len(Append(box, w)) = Len(box) + 1 /\ Len(box) \in Nat
      BY <3>1
    <3>3. Len(<<>>) = 0
      OBVIOUS
    <3>4. Append(box, w) # <<>>
      BY <3>2, <3>3
    <3> QED BY <3>1, <3>4
  <2>4. /\ \A j \in Worker : /\ sock'[j].owner = sock[j].owner /\ sock'[j].read = sock[j].read
                             /\ j # k => sock'[j] = sock[j]
        /\ sock'[k].inbox \in {box, Append(box, w)}
    BY <2>1, <2>2, ServerFacts DEF Connection
  <2>5. \A v \in Worker : /\ v # w => pc'[v] = pc[v]
                          /\ pc'[v] # "none" => pc[v] # "none"
                          /\ pc'[v] \in Answering => pc[v] \in Answering /\ v # w
    BY <2>1, ServerFacts DEF Answering
  <2> HIDE DEF k, box
  <2>6. OfThisLife'
    BY <2>1, <2>5 DEF ReplyInv, OfThisLife
  <2>7. \A j \in Worker : sock[j].inbox # <<>> => sock'[j].inbox # <<>>
    BY <2>3, <2>4 DEF box
  <2>8. OneAtATime'
    <3>1. \A c \in Client : cur[c] # NoFd => cur[c] \in Worker
      BY ServerFacts
    <3>2. \A c \in Client : /\ cur'[c] <= opened'
                            /\ cpc'[c] \in {"send", "wait"} => cur'[c] # NoFd
                            /\ cpc'[c] = "idle" /\ cur'[c] # NoFd =>
                                 Cut(cur[c])' \/ sock'[cur'[c]].read
      BY <2>1, <2>4, <3>1 DEF ReplyInv, OneAtATime, Cut
    <3>3. \A j \in 1..opened' : sock'[j].owner \in Client /\ j <= cur'[sock'[j].owner]
      BY <2>1, <2>4, ServerFacts DEF ReplyInv, OneAtATime
    <3>4. ASSUME NEW j \in Worker
          PROVE  /\ sock'[j].read => sock'[j].inbox # <<>>
                 /\ j > opened' => sock'[j].inbox = <<>>
      <4>1. sock'[j].read => sock'[j].inbox # <<>>
        BY <2>4, <2>7 DEF ReplyInv, OneAtATime
      <4>2. j > opened => j # k
        BY <2>2, ServerFacts
      <4>3. j > opened => sock'[j].inbox = <<>>
        BY <2>4, <4>2 DEF ReplyInv, OneAtATime
      <4> QED BY <2>1, <4>1, <4>3
    <3> QED BY <3>2, <3>3, <3>4, <2>1 DEF OneAtATime
  <2>9. InTurn'
    <3> SUFFICES ASSUME OneClient PROVE InTurn'
      BY <2>1, <2>4, ServerFacts DEF InTurn, OneClient
    <3>1. k = w
      BY <2>1 DEF ReplyInv, InTurn, k
    <3>2. box = <<>>
      BY <1>1, <2>1, <3>1 DEF ReplyInv, InTurn, Answering, box
    <3>3. Append(box, w) = <<w>>
      BY <3>2
    <3>4. \A v \in Worker : fd'[v] \in {NoFd, v} /\ sock'[v].inbox \in {<<>>, <<v>>}
      BY <2>1, <2>4, <3>1, <3>2, <3>3 DEF ReplyInv, InTurn
    <3>5. ASSUME NEW v \in Worker, base < v
          PROVE  /\ v < opened => sock'[v].inbox # <<>>
                 /\ pc'[v] \in Answering => sock'[v].inbox = <<>>
      BY <1>1, <2>4, <2>5, <2>7, <3>1, <3>5 DEF ReplyInv, InTurn
    <3> QED BY <2>1, <3>4, <3>5 DEF InTurn
  <2> QED BY <2>6, <2>8, <2>9 DEF ReplyInv
<1> QED BY <1>2, <1>3, <1>4, <1>5 DEF Work

LEMMA FaultKeepsReplies == ASSUME BufferInv, MainInv, ReplyInv, Interrupt \/ Crash \/ Restart
                           PROVE  ReplyInv'
<1> USE DEF netVars, clientVars
<1>1. CASE EndProcess
  BY <1>1, EndKeepsReplies
<1>2. CASE Interrupt /\ ~EndProcess
  <2>1. /\ UNCHANGED <<running, pc, accepted, base, fd, opened, sock, cpc, cur>>
        /\ mpc' \in {"loop", "rmid"} \/ UNCHANGED <<mpc, connfd>>
    BY <1>2 DEF Interrupt, bufferVars
  <2>2. OfThisLife'
    BY <2>1 DEF ReplyInv, OfThisLife
  <2> QED BY <2>1, <2>2 DEF ReplyInv, OneAtATime, InTurn, OneClient, Cut
<1>3. CASE Restart
  <2>1. /\ running' /\ mpc' = "loop" /\ accepted' = opened /\ base' = opened
        /\ \A w \in Worker : pc'[w] = "none"
        /\ UNCHANGED <<fd, opened, sock, cpc, cur>>
    BY <1>3 DEF Restart, Start, NoThreads
  <2>2. OfThisLife'
    <3>1. /\ \A w \in Worker : fd[w] \in Nat
          /\ accepted \in Nat /\ opened \in Nat /\ accepted <= opened
      BY ServerFacts DEF NoFd
    <3>2. ASSUME NEW w \in Worker PROVE fd[w] <= opened
      <4>1. fd[w] <= accepted
        BY DEF ReplyInv, OfThisLife
      <4> QED BY <3>1, <4>1
    <3> QED BY <2>1, <3>2 DEF OfThisLife
  <2>3. OneAtATime'
    BY <2>1 DEF ReplyInv, OneAtATime, Cut
  <2>4. InTurn'
    <3>1. \A k \in Worker : opened < k => ~(k < opened) /\ sock[k].inbox = <<>>
      BY ServerFacts DEF ReplyInv, OneAtATime
    <3> QED BY <2>1, <3>1 DEF ReplyInv, InTurn, OneClient
  <2> QED BY <2>2, <2>3, <2>4 DEF ReplyInv
<1> QED BY <1>1, <1>2, <1>3 DEF Crash

LEMMA ConnectKeepsReplies == ASSUME BufferInv, MainInv, ReplyInv, NEW c \in Client, Connect(c)
                             PROVE  ReplyInv'
<1> DEFINE n == opened + 1
<1>1. /\ running /\ cpc[c] = "idle" /\ n \in Worker /\ opened' = n
      /\ sock' = [sock EXCEPT ![n] = NewConnection(c, Want(iter[c]))]
      /\ cur' = [cur EXCEPT ![c] = n] /\ cpc' = [cpc EXCEPT ![c] = "send"]
      /\ UNCHANGED <<running, pc, mpc, connfd, accepted, base, fd>>
  BY DEF Connect, bufferVars, mainVars
<1>2. /\ sock'[n].owner = c /\ sock'[n].inbox = <<>> /\ sock'[n].read = FALSE
      /\ \A k \in Worker \ {n} : sock'[k] = sock[k]
      /\ cur'[c] = n /\ cpc'[c] = "send"
      /\ \A d \in Client \ {c} : cur'[d] = cur[d] /\ cpc'[d] = cpc[d]
  BY <1>1, ServerFacts DEF NewConnection
<1>3. n \in Nat /\ n > opened /\ n # NoFd /\ opened # n /\ 1..n = (1..opened) \cup {n}
  BY ServerFacts DEF NoFd
<1>4. /\ \A k \in 1..opened : k \in Worker \ {n}
      /\ \A k \in Worker : k > n => k > opened /\ k # n
  BY <1>3, ServerFacts
<1>5. \A d \in Client : cur[d] \in Nat /\ cur[d] <= opened /\ cur[d] # n
  BY <1>3, ServerFacts DEF ReplyInv, OneAtATime, NoFd
<1> HIDE DEF n
<1>6. OfThisLife'
  BY <1>1 DEF ReplyInv, OfThisLife
<1>7. OneAtATime'
  <2>1. ASSUME NEW d \in Client
        PROVE  /\ cur'[d] <= n
               /\ cpc'[d] \in {"send", "wait"} => cur'[d] # NoFd
               /\ cpc'[d] = "idle" /\ cur'[d] # NoFd => Cut(cur[d])' \/ sock'[cur'[d]].read
    <3>1. CASE d = c
      BY <1>2, <1>3, <3>1
    <3>2. CASE d # c
      <4>1. cur'[d] = cur[d] /\ cpc'[d] = cpc[d] /\ cur[d] <= n
        BY <1>2, <1>3, <1>5, <3>2, ServerFacts
      <4>2. cur[d] # NoFd => sock'[cur[d]] = sock[cur[d]]
        BY <1>2, <1>5, ServerFacts
      <4> QED BY <1>1, <4>1, <4>2 DEF ReplyInv, OneAtATime, Cut
    <3> QED BY <3>1, <3>2
  <2>2. ASSUME NEW k \in 1..n
        PROVE  sock'[k].owner \in Client /\ k <= cur'[sock'[k].owner]
    <3>1. CASE k = n
      BY <1>2, <1>3, <3>1
    <3>2. CASE k # n
      <4>1. k \in 1..opened /\ sock'[k] = sock[k]
        BY <1>2, <1>3, <1>4, <3>2
      <4>2. sock[k].owner \in Client /\ k <= cur[sock[k].owner]
        BY <4>1 DEF ReplyInv, OneAtATime
      <4>3. k <= n
        OBVIOUS
      <4> QED BY <1>2, <4>1, <4>2, <4>3
    <3> QED BY <3>1, <3>2
  <2>3. \A k \in Worker : /\ sock'[k].read => sock'[k].inbox # <<>>
                          /\ k > n => sock'[k].inbox = <<>>
    BY <1>2, <1>4 DEF ReplyInv, OneAtATime
  <2> QED BY <1>1, <2>1, <2>2, <2>3 DEF OneAtATime
<1>8. InTurn'
  <2> SUFFICES ASSUME OneClient' PROVE InTurn'
    BY DEF InTurn
  <2>1. OneClient
    BY <1>1, <1>2, <1>3, <1>4 DEF OneClient
  <2>2. \A k \in Worker : fd'[k] \in {NoFd, k} /\ sock'[k].inbox \in {<<>>, <<k>>}
    BY <1>1, <1>2, <2>1 DEF ReplyInv, InTurn
  <2>3. \A k \in Worker : base < k /\ pc[k] \in Answering => sock'[k].inbox = <<>>
    BY <1>1, <1>2, <2>1 DEF ReplyInv, InTurn
  <2>4. ASSUME NEW k \in Worker, base < k, k < n
        PROVE  sock'[k].inbox # <<>>
    <3>1. k # n /\ (k < opened \/ k = opened)
      BY <1>3, <2>4, ServerFacts DEF n
    <3>2. CASE k < opened
      BY <1>1, <1>2, <2>1, <2>4, <3>1, <3>2 DEF ReplyInv, InTurn
    <3>3. CASE k = opened
      <4>1. k \in 1..n /\ n \in 1..n /\ k \in 1..opened
        BY <1>3, <3>3, ServerFacts
      <4>2. sock[k].owner = c
        BY <1>1, <1>2, <3>1, <4>1 DEF OneClient
      <4>3. cur[c] = k
        <5>1. k <= cur[c] /\ cur[c] <= opened
          BY <4>1, <4>2 DEF ReplyInv, OneAtATime
        <5> QED BY <1>5, <3>3, <5>1, ServerFacts
      <4>4. sock[k].read
        <5>1. k # NoFd /\ ~Cut(k)
          BY <1>1, <2>4, ServerFacts DEF Cut, NoFd
        <5> QED BY <1>1, <4>3, <5>1 DEF ReplyInv, OneAtATime
      <4> QED BY <1>2, <3>1, <4>4 DEF ReplyInv, OneAtATime
    <3> QED BY <3>1, <3>2, <3>3
  <2> QED BY <1>1, <2>2, <2>3, <2>4 DEF InTurn
<1> QED BY <1>6, <1>7, <1>8 DEF ReplyInv

LEMMA ClientKeepsReplies ==
  ASSUME BufferInv, MainInv, ReplyInv, NEW c \in Client, ClientStep(c) \/ Kill(c)
  PROVE  ReplyInv'
<1> USE DEF bufferVars, mainVars, netVars
<1>1. CASE Connect(c)
  BY <1>1, ConnectKeepsReplies
<1>2. CASE SendRequest(c) \/ ReceiveReply(c)
  <2> DEFINE k == cur[c]
  <2>1. /\ \/ cpc[c] = "send" /\ cpc' = [cpc EXCEPT ![c] = "wait"]
              /\ sock' = [sock EXCEPT ![k].sent = TRUE]
           \/ cpc[c] = "wait" /\ cpc' = [cpc EXCEPT ![c] = "idle"] /\ sock[k].inbox # <<>>
              /\ sock' = [sock EXCEPT ![k].read = TRUE]
        /\ UNCHANGED <<running, pc, mpc, connfd, accepted, base, fd, opened, cur>>
    BY <1>2 DEF SendRequest, ReceiveReply
  <2>2. k \in Worker
    BY <2>1, ServerFacts DEF ReplyInv, OneAtATime
  <2>3. /\ \A j \in Worker : /\ sock'[j].owner = sock[j].owner /\ sock'[j].inbox = sock[j].inbox
                             /\ sock[j].read => sock'[j].read
                             /\ sock'[j].read => sock[j].read \/ (j = k /\ sock[k].inbox # <<>>)
        /\ cpc'[c] = "idle" => sock'[k].read
    <3>1. sock \in [Worker -> Connection] /\ sock[k] \in Connection
      BY <2>2, ServerFacts
    <3>2. CASE cpc[c] = "send" /\ cpc' = [cpc EXCEPT ![c] = "wait"]
               /\ sock' = [sock EXCEPT ![k].sent = TRUE]
      <4>1. cpc'[c] = "wait"
        BY <3>2, ServerFacts
      <4>2. /\ sock'[k] = [sock[k] EXCEPT !.sent = TRUE]
            /\ \A j \in Worker : j # k => sock'[j] = sock[j]
        BY <2>2, <3>1, <3>2
      <4>3. sock'[k].owner = sock[k].owner /\ sock'[k].inbox = sock[k].inbox
            /\ sock'[k].read = sock[k].read
        BY <3>1, <4>2 DEF Connection
      <4> HIDE DEF k
      <4> QED BY <4>1, <4>2, <4>3
    <3>3. CASE cpc[c] = "wait" /\ cpc' = [cpc EXCEPT ![c] = "idle"] /\ sock[k].inbox # <<>>
               /\ sock' = [sock EXCEPT ![k].read = TRUE]
      <4>2. /\ sock'[k] = [sock[k] EXCEPT !.read = TRUE]
            /\ \A j \in Worker : j # k => sock'[j] = sock[j]
        BY <2>2, <3>1, <3>3
      <4>3. sock'[k].owner = sock[k].owner /\ sock'[k].inbox = sock[k].inbox
            /\ sock'[k].read = TRUE
        BY <3>1, <4>2 DEF Connection
      <4> HIDE DEF k
      <4> QED BY <3>3, <4>2, <4>3
    <3> QED BY <2>1, <3>2, <3>3
  <2>4. /\ cpc'[c] \in {"wait", "idle"} /\ k # NoFd
        /\ \A d \in Client \ {c} : cpc'[d] = cpc[d]
        /\ \A d \in Client : cur[d] # NoFd => cur[d] \in Worker
    BY <2>1, <2>2, ServerFacts DEF NoFd
  <2>5. \A j \in 1..opened : j \in Worker
    BY ServerFacts
  <2>6. OfThisLife'
    BY <2>1 DEF ReplyInv, OfThisLife
  <2>7. OneAtATime'
    <3>1. ASSUME NEW d \in Client
          PROVE  /\ cur[d] <= opened
                 /\ cpc'[d] \in {"send", "wait"} => cur[d] # NoFd
                 /\ cpc'[d] = "idle" /\ cur[d] # NoFd => Cut(cur[d])' \/ sock'[cur[d]].read
      <4>1. CASE d = c
        BY <2>3, <2>4, <4>1 DEF ReplyInv, OneAtATime
      <4>2. CASE d # c
        BY <2>1, <2>3, <2>4, <4>2 DEF ReplyInv, OneAtATime, Cut
      <4> QED BY <4>1, <4>2
    <3>2. \A j \in 1..opened : sock'[j].owner \in Client /\ j <= cur[sock'[j].owner]
      BY <2>3, <2>5 DEF ReplyInv, OneAtATime
    <3>3. \A j \in Worker : /\ sock'[j].read => sock'[j].inbox # <<>>
                            /\ j > opened => sock'[j].inbox = <<>>
      BY <2>3 DEF ReplyInv, OneAtATime
    <3> QED BY <2>1, <3>1, <3>2, <3>3 DEF OneAtATime
  <2>8. InTurn'
    BY <2>1, <2>3, <2>5 DEF ReplyInv, InTurn, OneClient
  <2> QED BY <2>6, <2>7, <2>8 DEF ReplyInv
<1>3. CASE Quit(c) \/ LoseServer(c) \/ Kill(c)
  <2>1. /\ \E to \in {"idle", "gone"} : /\ cpc' = [cpc EXCEPT ![c] = to]
                                        /\ to = "idle" => Cut(cur[c])
        /\ UNCHANGED <<running, pc, mpc, connfd, accepted, base, fd, opened, sock, cur>>
    BY <1>3 DEF Quit, LoseServer, Kill
  <2>2. \A d \in Client : /\ cpc'[d] \in {"send", "wait"} => cpc[d] \in {"send", "wait"}
                          /\ cpc'[d] = "idle" => cpc[d] = "idle" \/ Cut(cur[d])
    BY <2>1, ServerFacts
  <2>3. OneAtATime'
    BY <2>1, <2>2 DEF ReplyInv, OneAtATime, Cut
  <2> QED BY <2>1, <2>3 DEF ReplyInv, OfThisLife, InTurn, OneClient
<1> QED BY <1>1, <1>2, <1>3 DEF ClientStep

LEMMA StutterKeepsReplies == ASSUME ReplyInv, UNCHANGED vars
                             PROVE  ReplyInv'
BY DEF vars, bufferVars, mainVars, netVars, clientVars, ReplyInv, OfThisLife, OneAtATime,
       InTurn, OneClient, Cut

LEMMA ReplyStep == ASSUME BufferInv, MainInv, ReplyInv, [Next]_vars
                   PROVE  ReplyInv'
BY MainKeepsReplies, WorkKeepsReplies, FaultKeepsReplies, ClientKeepsReplies,
   StutterKeepsReplies DEF Next

-----------------------------------------------------------------------------
(* Whether a letter is coming.                                             *)

PastC == Threads("c", {"cell", "index", "send", "leave", "done"})
DoneP == Threads("p", {"done"})

LEMMA ThreadsFinite ==
  ASSUME BufferInv, MainInv, NEW S \in SUBSET {w \in Worker : pc[w] # "none"}
  PROVE  IsFiniteSet(S) /\ Cardinality(S) \in Nat
<1>1. S \in SUBSET (1..accepted)
  BY ServerFacts DEF MainInv
<1>2. IsFiniteSet(1..accepted)
  BY ServerFacts, FS_Interval
<1> QED BY <1>1, <1>2, FS_Subset, FS_CardinalityType

LEMMA SFInitial == ServerInit => SFCounts
<1> SUFFICES ASSUME ServerInit PROVE SFCounts
  OBVIOUS
<1>1. SF = 0 /\ PastC = {} /\ DoneP = {}
  BY DEF ServerInit, BufferInit, Fresh, NoThreads, PastC, DoneP, Threads
<1> QED BY <1>1, FS_EmptySet DEF SFCounts, PastC, DoneP

\* A consumer takes its unit on entering, a producer gives one on leaving.
LEMMA SFStep == ASSUME BufferInv, MainInv, SFCounts, [BufferNext]_bufferVars
                PROVE  SFCounts'
<1> USE DEF semVars, ringVars, historyVars
<1>1. /\ pc \in [Worker -> {"none", "start", "enter", "cell", "index", "send", "leave", "done"}]
      /\ kind \in [Worker -> {"p", "c"}] /\ SF \in Nat
  BY DEF BufferInv, BufferTypeOK, Kind
<1>2. /\ IsFiniteSet(PastC) /\ Cardinality(PastC) \in Nat
      /\ IsFiniteSet(DoneP) /\ Cardinality(DoneP) \in Nat
  <2>1. /\ PastC \in SUBSET {w \in Worker : pc[w] # "none"}
        /\ DoneP \in SUBSET {w \in Worker : pc[w] # "none"}
    BY DEF PastC, DoneP, Threads
  <2> QED BY <2>1, ThreadsFinite
<1>3. running => SF + Cardinality(PastC) = Cardinality(DoneP)
  BY DEF SFCounts, PastC, DoneP
<1>4. ASSUME SF' = SF, PastC' = PastC, DoneP' = DoneP, running' => running
      PROVE  SFCounts'
  BY <1>3, <1>4 DEF SFCounts, PastC, DoneP
<1>5. CASE Start
  <2>1. SF' = 0 /\ PastC' = {} /\ DoneP' = {}
    BY <1>5 DEF Start, NoThreads, PastC, DoneP, Threads
  <2> QED BY <2>1, FS_EmptySet DEF SFCounts, PastC, DoneP
<1>6. CASE Exit
  BY <1>6 DEF Exit, SFCounts
<1>7. CASE Remove \/ UNCHANGED bufferVars
  BY <1>4, <1>7 DEF Remove, bufferVars, PastC, DoneP, Threads
<1>8. ASSUME NEW w \in Worker, NEW k \in Kind, Spawn(w, k) PROVE SFCounts'
  <2>1. /\ pc[w] = "none" /\ pc'[w] = "start" /\ SF' = SF /\ running' = running
        /\ \A v \in Worker : v # w => pc'[v] = pc[v] /\ kind'[v] = kind[v]
    BY <1>1, <1>8 DEF Spawn, Goto
  <2>2. PastC' = PastC /\ DoneP' = DoneP
    BY <2>1 DEF PastC, DoneP, Threads
  <2> QED BY <1>4, <2>1, <2>2
<1>9. ASSUME NEW w \in Worker, WorkerMove(w), ~Enter(w), ~Leave(w) PROVE SFCounts'
  <2>1. /\ SF' = SF /\ kind' = kind /\ running' = running
        /\ \E from, to : /\ pc[w] = from /\ pc' = [pc EXCEPT ![w] = to]
                         /\ \/ from = "start" /\ to = "enter"
                            \/ from \in {"cell", "index", "send"} /\ to \in {"index", "send", "leave"}
    BY <1>9 DEF WorkerMove, ReadArg, WriteCell, ReadCell, Advance, Send, Goto
  <2>2. PastC' = PastC /\ DoneP' = DoneP
    BY <1>1, <2>1 DEF PastC, DoneP, Threads
  <2> QED BY <1>4, <2>1, <2>2
<1>10. ASSUME NEW w \in Worker, Enter(w) PROVE SFCounts'
  <2>1. /\ pc[w] = "enter" /\ pc' = [pc EXCEPT ![w] = "cell"] /\ kind' = kind
        /\ running' = running
        /\ IF kind[w] = "p" THEN SF' = SF ELSE SF >= 1 /\ SF' = SF - 1
    BY <1>10 DEF Enter, MayEnter, Goto
  <2>2. DoneP' = DoneP
    BY <1>1, <2>1 DEF DoneP, Threads
  <2>3. CASE kind[w] = "p"
    <3>1. PastC' = PastC
      BY <1>1, <2>1, <2>3 DEF PastC, Threads
    <3> QED BY <1>4, <2>1, <2>2, <2>3, <3>1
  <2>4. CASE kind[w] = "c"
    <3>1. PastC' = PastC \cup {w} /\ w \notin PastC
      BY <1>1, <2>1, <2>4 DEF PastC, Threads
    <3>2. Cardinality(PastC') = Cardinality(PastC) + 1
      BY <1>2, <3>1, FS_AddElement
    <3>3. running' => SF' + Cardinality(PastC') = Cardinality(DoneP')
      BY <1>1, <1>2, <1>3, <2>1, <2>2, <2>4, <3>2
    <3> QED BY <3>3 DEF SFCounts, PastC, DoneP
  <2> QED BY <1>1, <2>3, <2>4
<1>11. ASSUME NEW w \in Worker, Leave(w) PROVE SFCounts'
  <2>1. /\ pc[w] = "leave" /\ pc' = [pc EXCEPT ![w] = "done"] /\ kind' = kind
        /\ running' = running
        /\ IF kind[w] = "p" THEN SF' = SF + 1 ELSE SF' = SF
    BY <1>11 DEF Leave, Goto
  <2>2. PastC' = PastC
    BY <1>1, <2>1 DEF PastC, Threads
  <2>3. CASE kind[w] = "c"
    <3>1. DoneP' = DoneP
      BY <1>1, <2>1, <2>3 DEF DoneP, Threads
    <3> QED BY <1>4, <2>1, <2>2, <2>3, <3>1
  <2>4. CASE kind[w] = "p"
    <3>1. DoneP' = DoneP \cup {w} /\ w \notin DoneP
      BY <1>1, <2>1, <2>4 DEF DoneP, Threads
    <3>2. Cardinality(DoneP') = Cardinality(DoneP) + 1
      BY <1>2, <3>1, FS_AddElement
    <3>3. running' => SF' + Cardinality(PastC') = Cardinality(DoneP')
      BY <1>1, <1>2, <1>3, <2>1, <2>2, <2>4, <3>2
    <3> QED BY <3>3 DEF SFCounts, PastC, DoneP
  <2> QED BY <1>1, <2>3, <2>4
<1> QED BY <1>5, <1>6, <1>7, <1>8, <1>9, <1>10, <1>11 DEF BufferNext

\* Only connect() makes a request; what it is for, and whose, stays.
LEMMA RequestsKept ==
  ASSUME BufferInv, MainInv, [Next]_vars, \A c \in Client : ~Connect(c)
  PROVE  /\ UNCHANGED <<opened, iter, cur>>
         /\ \A k \in Worker : /\ sock'[k].owner = sock[k].owner /\ sock'[k].want = sock[k].want
                              /\ sock[k].sent => sock'[k].sent
         /\ \/ \A k \in Worker : sock'[k].sent = sock[k].sent
            \/ \E c \in Client : SendRequest(c)
<1> USE DEF netVars, clientVars
<1>1. sock \in [Worker -> Connection] /\ \A k \in Worker : sock[k] \in Connection
  BY ServerFacts
<1>2. ASSUME EndProcess PROVE UNCHANGED <<opened, iter, cur, sock>>
  BY <1>2 DEF EndProcess
<1>3. CASE Main
  BY <1>2, <1>3 DEF Main, TestFlag, Accept, AcceptFails, Receive, CreateThread, Detach,
     RemoveSemaphores, Return
<1>4. CASE Interrupt \/ Crash \/ Restart \/ UNCHANGED vars
  BY <1>2, <1>4 DEF Interrupt, Crash, Restart, vars
<1>5. ASSUME NEW w \in Worker, Work(w), ~WorkerReplies(w)
      PROVE  UNCHANGED <<opened, iter, cur, sock>>
  BY <1>2, <1>5 DEF Work, WorkerReadsConnfd, WorkerWorks, WorkerFails
<1>6. ASSUME NEW c \in Client, ClientStep(c) \/ Kill(c), ~SendRequest(c), ~ReceiveReply(c)
      PROVE  UNCHANGED <<opened, iter, cur, sock>>
  BY <1>6 DEF ClientStep, Quit, LoseServer, Kill
<1>7. ASSUME NEW k, NEW j \in Worker,
             \/ sock' = [sock EXCEPT ![k].reset = TRUE]
             \/ \E w \in Worker : sock' = [sock EXCEPT ![k].inbox = Append(@, w)]
             \/ sock' = [sock EXCEPT ![k].read = TRUE]
      PROVE  /\ sock'[j].owner = sock[j].owner /\ sock'[j].want = sock[j].want
             /\ sock'[j].sent = sock[j].sent
  <2>1. CASE j # k
    <3>1. sock'[j] = sock[j]
      BY <1>1, <1>7, <2>1
    <3> QED BY <3>1
  <2>2. CASE j = k
    <3>1. \/ sock'[j] = [sock[j] EXCEPT !.reset = TRUE]
          \/ \E w \in Worker : sock'[j] = [sock[j] EXCEPT !.inbox = Append(@, w)]
          \/ sock'[j] = [sock[j] EXCEPT !.read = TRUE]
      BY <1>1, <1>7, <2>2
    <3> QED BY <1>1, <3>1 DEF Connection
  <2> QED BY <2>1, <2>2
<1>8. ASSUME NEW w \in Worker, WorkerReplies(w)
      PROVE  /\ UNCHANGED <<opened, iter, cur>>
             /\ \E k : \/ sock' = [sock EXCEPT ![k].reset = TRUE]
                       \/ sock' = [sock EXCEPT ![k].inbox = Append(@, w)]
  BY <1>8 DEF WorkerReplies
<1>9. CASE \E c \in Client : ReceiveReply(c)
  <2>1. PICK c \in Client : ReceiveReply(c)
    BY <1>9
  <2>2. UNCHANGED <<opened, iter, cur>> /\ sock' = [sock EXCEPT ![cur[c]].read = TRUE]
    BY <2>1 DEF ReceiveReply
  <2>3. \A j \in Worker : /\ sock'[j].owner = sock[j].owner /\ sock'[j].want = sock[j].want
                          /\ sock'[j].sent = sock[j].sent
    BY <1>7, <2>2
  <2> QED BY <2>2, <2>3
<1>10. CASE \E c \in Client : SendRequest(c)
  <2>1. PICK c \in Client : SendRequest(c)
    BY <1>10
  <2>2. UNCHANGED <<opened, iter, cur>> /\ sock' = [sock EXCEPT ![cur[c]].sent = TRUE]
    BY <2>1 DEF SendRequest
  <2>3. ASSUME NEW j \in Worker
        PROVE  /\ sock'[j].owner = sock[j].owner /\ sock'[j].want = sock[j].want
               /\ sock[j].sent => sock'[j].sent
    <3>1. sock'[j] = sock[j] \/ sock'[j] = [sock[j] EXCEPT !.sent = TRUE]
      BY <1>1, <2>2
    <3> QED BY <1>1, <3>1 DEF Connection
  <2> QED BY <1>10, <2>2, <2>3
<1>11. CASE \E w \in Worker : WorkerReplies(w)
  <2>1. \A j \in Worker : /\ sock'[j].owner = sock[j].owner /\ sock'[j].want = sock[j].want
                          /\ sock'[j].sent = sock[j].sent
    <3>1. PICK w \in Worker : WorkerReplies(w)
      BY <1>11
    <3>2. PICK k : \/ sock' = [sock EXCEPT ![k].reset = TRUE]
                   \/ sock' = [sock EXCEPT ![k].inbox = Append(@, w)]
      BY <1>8, <3>1
    <3>3. \/ sock' = [sock EXCEPT ![k].reset = TRUE]
          \/ \E v \in Worker : sock' = [sock EXCEPT ![k].inbox = Append(@, v)]
      BY <3>2
    <3> TAKE j \in Worker
    <3> QED BY <1>7, <3>3
  <2> QED BY <1>8, <1>11, <2>1
<1> QED BY <1>3, <1>4, <1>5, <1>6, <1>9, <1>10, <1>11 DEF Next, ClientStep, Work

LEMMA AlternateInitial == ServerInit => ClientsAlternate
<1> SUFFICES ASSUME ServerInit PROVE ClientsAlternate
  OBVIOUS
<1>1. opened = 0 /\ \A c \in Client : iter[c] % 2 = 0
  BY DEF ServerInit
<1> QED BY <1>1 DEF ClientsAlternate

LEMMA Parity == ASSUME NEW i \in Nat
                PROVE  i % 2 \in {0, 1} /\ ((i + 1) % 2 = 1 <=> i % 2 = 0)
BY SMTT(20)

\* A client asks for a letter only after it has asked for one to be made.
LEMMA AlternateStep == ASSUME BufferInv, MainInv, ReplyInv, ClientsAlternate, [Next]_vars
                       PROVE  ClientsAlternate'
<1>1. CASE \A c \in Client : ~Connect(c)
  <2>1. /\ UNCHANGED <<opened, iter, cur>>
        /\ \A k \in Worker : sock'[k].owner = sock[k].owner /\ sock'[k].want = sock[k].want
    BY <1>1, RequestsKept
  <2>2. \A k \in 1..opened : k \in Worker /\ \A j \in 1..(k - 1) : j \in 1..opened
    BY ServerFacts
  <2>3. \A k \in 1..opened : \A j \in 1..(k - 1) : \A i \in (j + 1)..(k - 1) : i \in 1..opened
    BY ServerFacts
  <2>4. \A k \in 1..opened : sock'[k].owner = sock[k].owner /\ sock'[k].want = sock[k].want
    BY <2>1, <2>2
  <2>5. \A c \in Client : iter'[c] % 2 = 1 =>
          cur'[c] \in 1..opened' /\ sock'[cur'[c]].owner = c /\ sock'[cur'[c]].want = "p"
    BY <2>1, <2>4 DEF ClientsAlternate
  <2>6. ASSUME NEW k \in 1..opened', sock'[k].want = "c"
        PROVE  \E j \in 1..(k - 1) :
                 /\ sock'[j].want = "p" /\ sock'[j].owner = sock'[k].owner
                 /\ \A i \in (j + 1)..(k - 1) : sock'[i].owner # sock'[k].owner
    <3>1. k \in 1..opened /\ sock[k].want = "c" /\ sock'[k].owner = sock[k].owner
      BY <2>1, <2>4, <2>6
    <3>2. PICK j \in 1..(k - 1) : /\ sock[j].want = "p" /\ sock[j].owner = sock[k].owner
                                  /\ \A i \in (j + 1)..(k - 1) : sock[i].owner # sock[k].owner
      BY <3>1 DEF ClientsAlternate
    <3>3. \A i \in (j + 1)..(k - 1) : sock'[i].owner # sock'[k].owner
      BY <2>3, <2>4, <3>1, <3>2
    <3>4. sock'[j].want = "p" /\ sock'[j].owner = sock'[k].owner
      BY <2>2, <2>4, <3>1, <3>2
    <3> QED BY <3>3, <3>4
  <2> QED BY <2>5, <2>6 DEF ClientsAlternate
<1>2. ASSUME NEW c \in Client, Connect(c) PROVE ClientsAlternate'
  <2> DEFINE n == opened + 1
             new == NewConnection(c, Want(iter[c]))
  <2>1. /\ n \in Worker /\ opened' = n /\ sock' = [sock EXCEPT ![n] = new]
        /\ cur' = [cur EXCEPT ![c] = n] /\ iter' = [iter EXCEPT ![c] = @ + 1]
    BY <1>2 DEF Connect
  <2>2. iter \in [Client -> Nat] /\ iter[c] \in Nat
    BY ServerAssumption DEF MainInv, ServerTypeOK
  <2>3. /\ iter'[c] = iter[c] + 1 /\ cur'[c] = n
        /\ \A d \in Client \ {c} : iter'[d] = iter[d] /\ cur'[d] = cur[d]
    BY <2>1, <2>2, ServerFacts
  <2>4. new.owner = c /\ (new.want = IF iter[c] % 2 = 0 THEN "p" ELSE "c")
    BY DEF NewConnection, Want
  <2>5. sock'[n] = new /\ \A k \in Worker \ {n} : sock'[k] = sock[k]
    BY <2>1, ServerFacts
  <2>6. /\ n \in 1..n /\ 1..opened \subseteq 1..n /\ (1..n) \ {n} = 1..opened
        /\ \A k \in 1..opened : k \in Worker \ {n} /\ \A j \in 1..(k - 1) : j \in 1..opened
    BY ServerFacts
  <2>7. \A k \in 1..opened : \A j \in 1..(k - 1) : \A i \in (j + 1)..(k - 1) : i \in 1..opened
    BY ServerFacts
  <2>8. \A k \in 1..opened : sock'[k] = sock[k]
    BY <2>5, <2>6
  <2>9. n - 1 = opened /\ n \in Nat /\ opened \in Nat
    BY ServerFacts
  <2> HIDE DEF n, new
  <2>10. ASSUME NEW d \in Client, iter'[d] % 2 = 1
         PROVE  cur'[d] \in 1..n /\ sock'[cur'[d]].owner = d /\ sock'[cur'[d]].want = "p"
    <3>1. CASE d = c
      <4>1. iter[c] % 2 = 0
        BY <2>2, <2>3, <2>10, <3>1, Parity
      <4> QED BY <2>3, <2>4, <2>5, <2>6, <3>1, <4>1
    <3>2. CASE d # c
      <4>1. cur[d] \in 1..opened /\ sock[cur[d]].owner = d /\ sock[cur[d]].want = "p"
        BY <2>3, <2>10, <3>2 DEF ClientsAlternate
      <4> QED BY <2>3, <2>6, <2>8, <3>2, <4>1
    <3> QED BY <3>1, <3>2
  <2>11. ASSUME NEW k \in 1..n, sock'[k].want = "c"
         PROVE  \E j \in 1..(k - 1) :
                  /\ sock'[j].want = "p" /\ sock'[j].owner = sock'[k].owner
                  /\ \A i \in (j + 1)..(k - 1) : sock'[i].owner # sock'[k].owner
    <3>1. CASE k # n
      <4>1. k \in 1..opened /\ sock[k].want = "c" /\ sock'[k].owner = sock[k].owner
        BY <2>6, <2>8, <2>11, <3>1
      <4>2. PICK j \in 1..(k - 1) : /\ sock[j].want = "p" /\ sock[j].owner = sock[k].owner
                                    /\ \A i \in (j + 1)..(k - 1) : sock[i].owner # sock[k].owner
        BY <4>1 DEF ClientsAlternate
      <4>3. \A i \in (j + 1)..(k - 1) : sock'[i].owner # sock'[k].owner
        BY <2>7, <2>8, <4>1, <4>2
      <4>4. sock'[j].want = "p" /\ sock'[j].owner = sock'[k].owner
        BY <2>6, <2>8, <4>1, <4>2
      <4> QED BY <4>3, <4>4
    <3>2. CASE k = n
      <4> DEFINE j == cur[c]
      <4>1. iter[c] % 2 = 1 /\ sock'[k].owner = c
        <5>1. iter[c] % 2 # 0
          BY <2>4, <2>5, <2>11, <3>2
        <5> QED BY <2>2, <2>4, <2>5, <3>2, <5>1, Parity
      <4>2. j \in 1..opened /\ sock[j].owner = c /\ sock[j].want = "p"
        BY <4>1 DEF ClientsAlternate
      <4>3. sock'[j] = sock[j] /\ j \in 1..(k - 1)
        BY <2>8, <2>9, <3>2, <4>2
      <4>4. ASSUME NEW i \in (j + 1)..(k - 1) PROVE sock'[i].owner # c
        <5>1. i \in 1..opened /\ ~(i <= j)
          BY <2>9, <3>2, <4>2
        <5>2. sock[i].owner = c => i <= cur[c]
          BY <5>1 DEF ReplyInv, OneAtATime
        <5> QED BY <2>8, <5>1, <5>2
      <4> HIDE DEF j
      <4> QED BY <4>1, <4>2, <4>3, <4>4
    <3> QED BY <3>1, <3>2
  <2> QED BY <2>1, <2>10, <2>11 DEF ClientsAlternate
<1> QED BY <1>1, <1>2

LEMMA SilentFinite ==
  ASSUME BufferInv, MainInv, NEW S \in SUBSET Silent
  PROVE  IsFiniteSet(S) /\ Cardinality(S) \in Nat
<1>1. S \in SUBSET (1..opened)
  BY DEF Silent
<1>2. IsFiniteSet(1..opened)
  BY ServerFacts, FS_Interval
<1> QED BY <1>1, <1>2, FS_Subset, FS_CardinalityType

LEMMA AskedInitial == ServerInit => ThreadsAsAsked
<1> SUFFICES ASSUME ServerInit PROVE ThreadsAsAsked
  OBVIOUS
<1>1. /\ opened = 0 /\ accepted = 0 /\ mpc = "loop" /\ kills = 0
      /\ \A w \in Worker : pc[w] = "none"
      /\ \A c \in Client : cpc[c] = "idle"
  BY DEF ServerInit, BufferInit, Fresh, NoThreads
<1>2. Cardinality(Silent) = 0
  BY <1>1, FS_EmptySet DEF Silent
<1> QED BY <1>1, <1>2 DEF ThreadsAsAsked

\* Steps that keep the requests, and neither accept one nor start a thread.
LEMMA QuietKeepsAsked ==
  ASSUME BufferInv, MainInv, ThreadsAsAsked,
         UNCHANGED <<base, kills, accepted, opened, cur, cpc, kind>>, running' => running,
         \A k \in Worker : /\ sock'[k].owner = sock[k].owner /\ sock'[k].want = sock[k].want
                           /\ sock'[k].sent = sock[k].sent,
         \A w \in Worker : pc'[w] = "none" <=> pc[w] = "none",
         mpc' = "create" => mpc = "create" /\ UNCHANGED <<request, connfd>>,
         mpc \in {"recv", "create", "rmid", "return"} =>
           mpc' \in {"recv", "create", "rmid", "return"}
  PROVE  ThreadsAsAsked'
<1> SUFFICES ASSUME running', base' = 0 PROVE ThreadsAsAsked'
  BY DEF ThreadsAsAsked
<1>1. running /\ base = 0
  OBVIOUS
<1>2. 1..opened \subseteq Worker /\ 1..accepted \subseteq Worker
  BY ServerFacts
<1>3. mpc = "create" => connfd \in Worker
  BY DEF MainInv
<1>4. Silent' = Silent
  BY <1>2 DEF Silent, Gone
<1>5. \A k \in 1..opened : ~sock'[k].sent =>
        cpc[sock'[k].owner] \in {"send", "gone"} /\ cur[sock'[k].owner] = k
  BY <1>1, <1>2 DEF ThreadsAsAsked
<1>6. \A c \in Client : cpc[c] = "send" => cur[c] \in 1..opened /\ sock'[cur[c]].owner = c
  BY <1>1, <1>2 DEF ThreadsAsAsked
<1>7. mpc' = "create" => connfd' \in Silent \/ request' = sock'[connfd'].want
  BY <1>1, <1>3 DEF ThreadsAsAsked
<1>8. \A w \in Worker : pc'[w] # "none" => w \in Silent \/ kind[w] = sock'[w].want
  BY <1>1 DEF ThreadsAsAsked
<1>9. \A k \in 1..accepted : pc'[k] = "none" =>
        k \in Silent \/ (k = accepted /\ mpc' \in {"recv", "create", "rmid", "return"})
  BY <1>1, <1>2 DEF ThreadsAsAsked
<1> QED BY <1>1, <1>4, <1>5, <1>6, <1>7, <1>8, <1>9 DEF ThreadsAsAsked

LEMMA EndKeepsAsked == ASSUME EndProcess PROVE ThreadsAsAsked'
BY DEF EndProcess, Exit, ThreadsAsAsked

\* main takes the connections in turn, and the request it receives is the one
\* that was sent, unless the client has gone without sending it.
LEMMA MainKeepsAsked == ASSUME BufferInv, MainInv, ThreadsAsAsked, Main
                        PROVE  ThreadsAsAsked'
<1> USE DEF MainGoto, bufferVars, netVars, clientVars, faultVars
<1>1. CASE EndProcess
  BY <1>1, EndKeepsAsked
<1>2. CASE ~EndProcess /\ (TestFlag \/ Detach \/ RemoveSemaphores)
  <2>1. /\ UNCHANGED <<running, base, kills, accepted, opened, cur, cpc, kind, sock, pc>>
        /\ mpc \in {"loop", "detach", "rmid"} /\ mpc' \in {"loop", "accept", "rmid", "return"}
        /\ mpc = "rmid" => mpc' = "return"
    BY <1>2 DEF TestFlag, Detach, RemoveSemaphores, Remove
  <2> QED BY <2>1, QuietKeepsAsked
<1>3. CASE Accept
  <2> SUFFICES ASSUME running', base' = 0 PROVE ThreadsAsAsked'
    BY DEF ThreadsAsAsked
  <2>1. /\ mpc = "accept" /\ mpc' = "recv" /\ accepted' = accepted + 1
        /\ UNCHANGED <<running, base, kills, opened, cur, cpc, kind, sock, pc>>
    BY <1>3 DEF Accept
  <2>2. running /\ base = 0
    BY <2>1
  <2>3. \A k \in 1..accepted : pc[k] = "none" => k \in Silent
    BY <2>1, <2>2 DEF ThreadsAsAsked
  <2>4. \A k \in 1..accepted' : k \in 1..accepted \/ k = accepted'
    BY <2>1, ServerFacts
  <2>5. Silent' = Silent
    BY <2>1 DEF Silent, Gone
  <2> QED BY <2>1, <2>2, <2>3, <2>4, <2>5 DEF ThreadsAsAsked
<1>4. CASE Receive
  <2> SUFFICES ASSUME running', base' = 0 PROVE ThreadsAsAsked'
    BY DEF ThreadsAsAsked
  <2>1. /\ mpc = "recv" /\ mpc' \in {"create", "rmid"}
        /\ \/ sock[connfd].sent /\ request' = sock[connfd].want
           \/ ~sock[connfd].sent /\ Gone(connfd)
        /\ UNCHANGED <<running, base, kills, accepted, opened, cur, cpc, kind, sock, pc, connfd>>
    BY <1>4 DEF Receive
  <2>2. running /\ base = 0
    BY <2>1
  <2>3. connfd \in 1..opened
    <3>1. connfd \in Worker /\ connfd = accepted
      BY <2>1, ServerFacts DEF MainInv, NoFd
    <3> QED BY <3>1, ServerFacts
  <2>4. connfd \in Silent \/ request' = sock[connfd].want
    BY <2>1, <2>3 DEF Silent
  <2>5. Silent' = Silent
    BY <2>1 DEF Silent, Gone
  <2> QED BY <2>1, <2>2, <2>4, <2>5 DEF ThreadsAsAsked
<1>5. CASE CreateThread
  <2> SUFFICES ASSUME running', base' = 0 PROVE ThreadsAsAsked'
    BY DEF ThreadsAsAsked
  <2>1. /\ mpc = "create" /\ mpc' = "detach"
        /\ UNCHANGED <<running, base, kills, accepted, opened, cur, cpc, sock>>
    BY <1>5 DEF CreateThread, Spawn
  <2>2. running /\ base = 0
    BY <2>1
  <2>3. connfd \in Worker /\ connfd = accepted
    BY <2>1, ServerFacts DEF MainInv, NoFd
  <2>4. /\ Silent' = Silent
        /\ connfd \in Silent \/ (request = sock[connfd].want /\ request \in Kind)
    <3>1. Silent' = Silent
      BY <2>1 DEF Silent, Gone
    <3>2. sock[connfd].want \in Kind
      BY <2>3, ServerFacts DEF Connection
    <3> QED BY <2>1, <2>2, <3>1, <3>2 DEF ThreadsAsAsked
  <2>5. /\ request \in Kind =>
             pc' = [pc EXCEPT ![connfd] = "start"] /\ kind' = [kind EXCEPT ![connfd] = request]
        /\ request \notin Kind => UNCHANGED <<pc, kind>>
    BY <1>5 DEF CreateThread, Spawn, Goto
  <2>6. kind \in [Worker -> Kind]
    BY DEF BufferInv, BufferTypeOK
  <2>7. /\ request \in Kind => pc'[connfd] = "start" /\ kind'[connfd] = request
        /\ \A w \in Worker \ {connfd} : pc'[w] = pc[w] /\ kind'[w] = kind[w]
    BY <2>3, <2>5, <2>6, ServerFacts
  <2>8. \A w \in Worker : pc'[w] # "none" => w \in Silent \/ kind'[w] = sock[w].want
    BY <2>2, <2>4, <2>7 DEF ThreadsAsAsked
  <2>9. \A k \in 1..accepted : pc'[k] # "none" \/ k \in Silent
    <3>1. 1..accepted \subseteq Worker
      BY ServerFacts
    <3> QED BY <2>2, <2>3, <2>4, <2>7, <3>1 DEF ThreadsAsAsked
  <2> QED BY <2>1, <2>2, <2>4, <2>8, <2>9 DEF ThreadsAsAsked
<1> QED BY <1>1, <1>2, <1>3, <1>4, <1>5 DEF Main, AcceptFails, Return

LEMMA WorkKeepsAsked ==
  ASSUME BufferInv, MainInv, ThreadsAsAsked, [Next]_vars, NEW w \in Worker, Work(w)
  PROVE  ThreadsAsAsked'
<1> USE DEF mainVars, netVars, clientVars, faultVars
<1>1. CASE EndProcess
  BY <1>1, EndKeepsAsked
<1>2. CASE ~EndProcess
  <2>1. /\ UNCHANGED <<running, base, kills, accepted, opened, cur, cpc, kind, mpc, request,
                       connfd, iter>>
        /\ \E from, to : /\ pc[w] = from /\ pc' = [pc EXCEPT ![w] = to]
                         /\ from # "none" /\ to # "none"
    BY <1>2 DEF Work, WorkerReadsConnfd, WorkerWorks, WorkerReplies, WorkerFails, ReadArg, Enter,
       WriteCell, ReadCell, Advance, Leave, Send, Goto
  <2>2. \A v \in Worker : pc'[v] = "none" <=> pc[v] = "none"
    BY <2>1, ServerFacts
  <2>3. \A c \in Client : ~Connect(c) /\ ~SendRequest(c)
    <3>1. opened' = opened /\ opened \in Nat
      BY <2>1, ServerFacts
    <3>2. \A c \in Client : cpc[c] = "send" => cpc'[c] # "wait"
      BY <2>1
    <3>3. \A c \in Client : SendRequest(c) => cpc[c] = "send" /\ cpc'[c] = "wait"
      BY ServerFacts DEF SendRequest
    <3> QED BY <3>1, <3>2, <3>3 DEF Connect
  <2>4. \A k \in Worker : /\ sock'[k].owner = sock[k].owner /\ sock'[k].want = sock[k].want
                          /\ sock'[k].sent = sock[k].sent
    BY <2>3, RequestsKept
  <2> QED BY <2>1, <2>2, <2>4, QuietKeepsAsked
<1> QED BY <1>1, <1>2

LEMMA FaultKeepsAsked ==
  ASSUME BufferInv, MainInv, ReplyInv, ThreadsAsAsked, Interrupt \/ Crash \/ Restart
  PROVE  ThreadsAsAsked'
<1> USE DEF netVars, clientVars
<1>1. CASE EndProcess
  BY <1>1, EndKeepsAsked
<1>2. CASE Interrupt /\ ~EndProcess
  <2>1. /\ UNCHANGED <<running, base, kills, accepted, opened, cur, cpc, kind, sock, pc, request>>
        /\ \/ UNCHANGED <<mpc, connfd>>
           \/ mpc = "accept" /\ mpc' = "loop"
           \/ mpc = "recv" /\ mpc' = "rmid"
    BY <1>2 DEF Interrupt, bufferVars
  <2> QED BY <2>1, QuietKeepsAsked
<1>3. CASE Restart
  <2> SUFFICES ASSUME running', base' = 0 PROVE ThreadsAsAsked'
    BY DEF ThreadsAsAsked
  <2>1. /\ mpc' = "loop" /\ accepted' = 0 /\ opened' = 0
        /\ \A w \in Worker : pc'[w] = "none"
        /\ UNCHANGED <<cpc, cur, kills>>
    BY <1>3 DEF Restart, Start, NoThreads, faultVars
  <2>2. \A c \in Client : cpc[c] # "send"
    <3>1. \A c \in Client : cpc[c] = "send" => cur[c] # NoFd /\ cur[c] <= 0 /\ cur[c] \in Worker
      BY <2>1, <1>3, ServerFacts DEF ReplyInv, OneAtATime, Restart
    <3> QED BY <3>1, ServerFacts
  <2>3. Cardinality(Silent') = 0
    BY <2>1, FS_EmptySet DEF Silent
  <2>4. kills \in Nat
    BY ServerAssumption DEF MainInv, ServerTypeOK
  <2> QED BY <2>1, <2>2, <2>3, <2>4 DEF ThreadsAsAsked
<1> QED BY <1>1, <1>2, <1>3 DEF Crash

\* A client that has not sent its request yet stays to send it, or is killed.
LEMMA ClientKeepsAsked ==
  ASSUME BufferInv, MainInv, ReplyInv, ThreadsAsAsked, [Next]_vars,
         NEW c \in Client, ClientStep(c) \/ Kill(c)
  PROVE  ThreadsAsAsked'
<1> USE DEF bufferVars, mainVars, netVars, faultVars
<1> SUFFICES ASSUME running', base' = 0 PROVE ThreadsAsAsked'
  BY DEF ThreadsAsAsked
<1>1. UNCHANGED <<running, base, accepted, kind, pc, mpc, request, connfd>>
  BY DEF ClientStep, Connect, Quit, SendRequest, ReceiveReply, LoseServer, Kill
<1>2. running /\ base = 0 /\ Cardinality(Silent) <= kills
  BY <1>1 DEF ThreadsAsAsked
<1>3. /\ \A k \in 1..opened : /\ k \in Worker /\ sock[k].owner \in Client
                              /\ ~sock[k].sent => /\ cpc[sock[k].owner] \in {"send", "gone"}
                                                  /\ cur[sock[k].owner] = k
      /\ \A d \in Client : cpc[d] = "send" => cur[d] \in 1..opened /\ sock[cur[d]].owner = d
      /\ mpc = "create" =>
           connfd \in 1..opened /\ (connfd \in Silent \/ request = sock[connfd].want)
      /\ \A w \in Worker : pc[w] # "none" =>
           w \in 1..opened /\ (w \in Silent \/ kind[w] = sock[w].want)
      /\ \A k \in 1..accepted : pc[k] = "none" =>
           k \in Silent \/ (k = accepted /\ mpc \in {"recv", "create", "rmid", "return"})
  <2>1. \A k \in 1..opened : k \in Worker /\ sock[k].owner \in Client
    BY <1>2, ServerFacts DEF ReplyInv, OneAtATime
  <2>2. mpc = "create" => connfd \in 1..opened
    <3>1. mpc = "create" => connfd \in Worker /\ connfd = accepted
      BY ServerFacts DEF MainInv, NoFd
    <3> QED BY <3>1, ServerFacts
  <2>3. ASSUME NEW w \in Worker, pc[w] # "none" PROVE w \in 1..opened
    <3>1. w <= accepted
      BY <2>3 DEF MainInv
    <3> QED BY <3>1, ServerFacts
  <2> QED BY <1>2, <2>1, <2>2, <2>3 DEF ThreadsAsAsked
<1>4. CASE Connect(c)
  <2> DEFINE n == opened + 1
  <2>1. /\ n \in Worker /\ opened' = n /\ cpc[c] = "idle" /\ UNCHANGED kills
        /\ sock' = [sock EXCEPT ![n] = NewConnection(c, Want(iter[c]))]
        /\ cur' = [cur EXCEPT ![c] = n] /\ cpc' = [cpc EXCEPT ![c] = "send"]
    BY <1>4 DEF Connect
  <2>2. /\ sock'[n].owner = c /\ \A k \in Worker \ {n} : sock'[k] = sock[k]
        /\ cur'[c] = n /\ cpc'[c] = "send"
        /\ \A d \in Client \ {c} : cur'[d] = cur[d] /\ cpc'[d] = cpc[d]
    BY <2>1, ServerFacts DEF NewConnection
  <2>3. (1..n) \ {n} = 1..opened /\ n \in 1..n /\ n \notin 1..opened
    BY ServerFacts
  <2> HIDE DEF n
  <2>4. \A k \in 1..opened : sock'[k] = sock[k]
    BY <1>3, <2>2, <2>3
  <2>5. ASSUME NEW k \in 1..n, ~sock'[k].sent
        PROVE  cpc'[sock'[k].owner] \in {"send", "gone"} /\ cur'[sock'[k].owner] = k
    <3>1. CASE k = n
      BY <2>2, <3>1
    <3>2. CASE k # n
      <4>1. k \in 1..opened /\ sock'[k] = sock[k]
        BY <2>3, <2>4, <3>2
      <4>2. /\ sock[k].owner \in Client \ {c} /\ cur[sock[k].owner] = k
            /\ cpc[sock[k].owner] \in {"send", "gone"}
        BY <1>3, <2>1, <2>5, <4>1
      <4> QED BY <2>2, <4>1, <4>2
    <3> QED BY <3>1, <3>2
  <2>6. Silent' = Silent
    <3>1. \A k \in 1..opened : sock[k].owner # c => cpc'[sock[k].owner] = cpc[sock[k].owner]
      BY <1>3, <2>2
    <3>2. \A k \in 1..opened : (cpc'[sock[k].owner] = "gone") <=> (cpc[sock[k].owner] = "gone")
      BY <2>1, <2>2, <3>1
    <3> QED BY <2>1, <2>2, <2>3, <2>4, <3>2 DEF Silent, Gone
  <2>7. ASSUME NEW d \in Client, cpc'[d] = "send"
        PROVE  cur'[d] \in 1..n /\ sock'[cur'[d]].owner = d
    <3>1. CASE d = c
      BY <2>2, <2>3, <3>1
    <3>2. CASE d # c
      <4>1. cur[d] \in 1..opened /\ sock[cur[d]].owner = d /\ cur'[d] = cur[d]
        BY <1>3, <2>2, <2>7, <3>2
      <4> QED BY <2>3, <2>4, <4>1
    <3> QED BY <3>1, <3>2
  <2> QED BY <1>1, <1>2, <1>3, <2>1, <2>4, <2>5, <2>6, <2>7 DEF ThreadsAsAsked
<1>5. CASE ~Connect(c)
  <2>1. \A d \in Client : ~Connect(d)
    <3>1. opened' = opened /\ opened \in Nat
      BY <1>1, <1>5, ServerFacts DEF ClientStep, Quit, SendRequest, ReceiveReply, LoseServer, Kill
    <3>2. \A d \in Client : Connect(d) => opened' = opened + 1
      BY DEF Connect
    <3> QED BY <3>1, <3>2
  <2>2. /\ UNCHANGED <<opened, iter, cur>>
        /\ \A k \in Worker : /\ sock'[k].owner = sock[k].owner /\ sock'[k].want = sock[k].want
                             /\ sock[k].sent => sock'[k].sent
    BY <2>1, RequestsKept
  <2>3. ~LoseServer(c)
    <3>1. cpc[c] \in {"send", "wait"} => cur[c] # NoFd
      BY DEF ReplyInv, OneAtATime
    <3>2. cpc[c] \in {"send", "wait"} => cur[c] > base
      BY <1>2, <3>1, ServerFacts DEF NoFd
    <3>3. running /\ base \in Nat /\ cur[c] \in Nat
      BY <1>2, ServerFacts DEF NoFd
    <3>4. cpc[c] \in {"send", "wait"} => ~Cut(cur[c])
      BY <3>2, <3>3 DEF Cut
    <3> QED BY <3>4 DEF LoseServer
  <2>4. \A k \in 1..opened : sock'[k].owner = sock[k].owner /\ sock'[k].want = sock[k].want
    BY <1>3, <2>2
  <2>5. CASE Kill(c)
    <3>1. /\ kills' = kills + 1 /\ kills \in Nat /\ sock' = sock
          /\ cpc' = [cpc EXCEPT ![c] = "gone"]
      BY <2>5, ServerAssumption DEF Kill, MainInv, ServerTypeOK
    <3>2. cpc'[c] = "gone" /\ \A d \in Client \ {c} : cpc'[d] = cpc[d]
      BY <3>1, ServerFacts
    <3>3. Silent' \in SUBSET (Silent \cup {cur[c]}) /\ Silent \subseteq Silent'
      BY <1>3, <2>2, <3>1, <3>2 DEF Silent, Gone
    <3>4. Cardinality(Silent') <= kills + 1
      <4>1. IsFiniteSet(Silent) /\ Cardinality(Silent) \in Nat
        BY SilentFinite
      <4>2. IsFiniteSet(Silent \cup {cur[c]})
            /\ Cardinality(Silent \cup {cur[c]}) <= Cardinality(Silent) + 1
            /\ Cardinality(Silent \cup {cur[c]}) \in Nat
        <5>1. /\ IsFiniteSet(Silent \cup {cur[c]})
              /\ \/ Cardinality(Silent \cup {cur[c]}) = Cardinality(Silent)
                 \/ Cardinality(Silent \cup {cur[c]}) = Cardinality(Silent) + 1
          BY <4>1, FS_AddElement
        <5> QED BY <4>1, <5>1
      <4>3. Cardinality(Silent') <= Cardinality(Silent \cup {cur[c]}) /\ Cardinality(Silent') \in Nat
        BY <3>3, <4>2, FS_Subset, FS_CardinalityType
      <4> QED BY <1>2, <3>1, <4>1, <4>2, <4>3
    <3>5. \A k \in 1..opened : ~sock[k].sent =>
            cpc'[sock[k].owner] \in {"send", "gone"} /\ cur[sock[k].owner] = k
      BY <1>3, <3>2
    <3>6. \A d \in Client : cpc'[d] = "send" => cpc[d] = "send"
      BY <3>2
    <3> QED BY <1>1, <1>2, <1>3, <2>2, <3>1, <3>3, <3>4, <3>5, <3>6 DEF ThreadsAsAsked
  <2>6. CASE Quit(c) \/ ReceiveReply(c)
    <3>1. /\ UNCHANGED kills /\ cpc[c] \in {"idle", "wait"} /\ ~SendRequest(c)
          /\ \E to \in {"idle", "gone"} : cpc' = [cpc EXCEPT ![c] = to]
      BY <2>6, ServerFacts DEF Quit, ReceiveReply, SendRequest
    <3>2. /\ cpc'[c] # "send" /\ \A d \in Client \ {c} : cpc'[d] = cpc[d]
      BY <3>1, ServerFacts
    <3>3. \A k \in 1..opened : sock'[k].sent = sock[k].sent
      <4>1. \A d \in Client : ~SendRequest(d)
        <5>1. \A d \in Client : SendRequest(d) => cpc[d] = "send" /\ cpc'[d] = "wait"
          BY ServerFacts DEF SendRequest
        <5> QED BY <3>1, <3>2, <5>1
      <4> QED BY <1>3, <2>1, <4>1, RequestsKept
    <3>4. \A k \in 1..opened : ~sock[k].sent => sock[k].owner # c
      BY <1>3, <3>1
    <3>5. Silent' = Silent
      BY <1>3, <2>2, <2>4, <3>1, <3>2, <3>3, <3>4 DEF Silent, Gone
    <3>6. \A k \in 1..opened : ~sock'[k].sent =>
            cpc'[sock'[k].owner] \in {"send", "gone"} /\ cur'[sock'[k].owner] = k
      BY <1>3, <2>2, <2>4, <3>2, <3>3, <3>4
    <3>7. \A d \in Client : cpc'[d] = "send" => cur[d] \in 1..opened /\ sock'[cur[d]].owner = d
      BY <1>3, <2>4, <3>2
    <3> QED BY <1>1, <1>2, <1>3, <2>2, <2>4, <3>1, <3>5, <3>6, <3>7 DEF ThreadsAsAsked
  <2>7. CASE SendRequest(c)
    <3>1. /\ UNCHANGED kills /\ cpc[c] = "send" /\ cpc' = [cpc EXCEPT ![c] = "wait"]
          /\ sock' = [sock EXCEPT ![cur[c]].sent = TRUE]
      BY <2>7 DEF SendRequest
    <3>2. cpc'[c] = "wait" /\ \A d \in Client \ {c} : cpc'[d] = cpc[d]
      BY <3>1, ServerFacts
    <3>3. /\ cur[c] \in 1..opened /\ sock[cur[c]].owner = c
          /\ sock'[cur[c]].sent /\ \A k \in (1..opened) \ {cur[c]} : sock'[k] = sock[k]
      BY <1>3, <3>1, ServerFacts DEF Connection
    <3>4. Silent' = Silent
      <4>1. \A k \in 1..opened : (~sock'[k].sent /\ cpc'[sock[k].owner] = "gone")
                                   <=> (~sock[k].sent /\ cpc[sock[k].owner] = "gone")
        BY <1>3, <3>1, <3>2, <3>3
      <4> QED BY <2>2, <2>4, <4>1 DEF Silent, Gone
    <3>5. ASSUME NEW k \in 1..opened, ~sock'[k].sent
          PROVE  cpc'[sock'[k].owner] \in {"send", "gone"} /\ cur'[sock'[k].owner] = k
      <4>1. k # cur[c] /\ ~sock[k].sent /\ sock'[k].owner = sock[k].owner
        BY <2>4, <3>3, <3>5
      <4>2. /\ sock[k].owner \in Client /\ cur[sock[k].owner] = k
            /\ cpc[sock[k].owner] \in {"send", "gone"}
        BY <1>3, <4>1
      <4> QED BY <2>2, <3>2, <4>1, <4>2
    <3>6. \A d \in Client : cpc'[d] = "send" => cur[d] \in 1..opened /\ sock'[cur[d]].owner = d
      BY <1>3, <2>4, <3>2
    <3> QED BY <1>1, <1>2, <1>3, <2>2, <2>4, <3>1, <3>4, <3>5, <3>6 DEF ThreadsAsAsked
  <2> QED BY <1>5, <2>3, <2>5, <2>6, <2>7 DEF ClientStep
<1> QED BY <1>4, <1>5

LEMMA StutterKeepsAsked == ASSUME ThreadsAsAsked, UNCHANGED vars
                           PROVE  ThreadsAsAsked'
BY DEF vars, bufferVars, mainVars, netVars, clientVars, faultVars, ThreadsAsAsked, Silent, Gone

LEMMA AskedStep == ASSUME BufferInv, MainInv, ReplyInv, ThreadsAsAsked, [Next]_vars
                   PROVE  ThreadsAsAsked'
BY MainKeepsAsked, WorkKeepsAsked, FaultKeepsAsked, ClientKeepsAsked, StutterKeepsAsked
   DEF Next

\* Every thread that takes a letter because it was asked to follows one of the
\* same client that makes one, and no two follow the same: so there are as many
\* at least that make one.
LEMMA MakersCoverTakers ==
  ASSUME BufferInv, MainInv, ReplyInv, ClientsAlternate, ThreadsAsAsked, running, base = 0
  PROVE  Cardinality({w \in Worker : kind[w] = "c" /\ pc[w] # "none"} \ Silent) <=
           Cardinality({w \in Worker : kind[w] = "p" /\ pc[w] # "none"})
<1> DEFINE Takers == {w \in Worker : kind[w] = "c" /\ pc[w] # "none"} \ Silent
           Makers == {w \in Worker : kind[w] = "p" /\ pc[w] # "none"}
           Before(k, j) == /\ j \in 1..(k - 1)
                           /\ sock[j].want = "p" /\ sock[j].owner = sock[k].owner
                           /\ \A i \in (j + 1)..(k - 1) : sock[i].owner # sock[k].owner
           maker == [k \in Takers |-> CHOOSE j \in Nat : Before(k, j)]
<1>1. \A k \in Takers : /\ k \in Nat /\ k \in 1..accepted /\ k \in 1..opened
                        /\ sock[k].want = "c"
  <2> SUFFICES ASSUME NEW k \in Takers
               PROVE  /\ k \in Nat /\ k \in 1..accepted /\ k \in 1..opened
                      /\ sock[k].want = "c"
    OBVIOUS
  <2>1. k \in Worker /\ k <= accepted /\ sock[k].want = "c"
    BY DEF MainInv, ThreadsAsAsked
  <2>2. k \in Nat /\ k # 0 /\ accepted \in Nat /\ opened \in Nat /\ accepted <= opened
    BY <2>1, ServerFacts
  <2> QED BY <2>1, <2>2
<1>2. ASSUME NEW k \in Takers PROVE Before(k, maker[k])
  <2>1. \E j \in Nat : Before(k, j)
    <3>1. \E j \in 1..(k - 1) : Before(k, j)
      BY <1>1 DEF ClientsAlternate
    <3> QED BY <3>1
  <2> HIDE DEF Before
  <2> QED BY <2>1
<1> HIDE DEF maker, Before
<1>3. ASSUME NEW k \in Takers PROVE maker[k] \in Makers
  <2> DEFINE j == maker[k]
  <2>1. j \in 1..(k - 1) /\ sock[j].want = "p"
    BY <1>2 DEF Before
  <2> HIDE DEF j
  <2>2. j \in 1..accepted /\ j # accepted /\ j \in Worker
    BY <1>1, <2>1, ServerFacts
  <2>3. j \notin Silent
    <3>1. sock[j].owner = sock[k].owner
      BY <1>2 DEF Before, j
    <3>2. k <= cur[sock[k].owner]
      BY <1>1 DEF ReplyInv, OneAtATime
    <3>3. ~sock[j].sent => cur[sock[j].owner] = j
      BY <2>2, ServerFacts DEF ThreadsAsAsked
    <3>4. j \in Nat /\ j < k
      BY <1>1, <2>1
    <3> QED BY <1>1, <3>1, <3>2, <3>3, <3>4 DEF Silent
  <2>4. pc[j] # "none"
    BY <2>2, <2>3 DEF ThreadsAsAsked
  <2>5. kind[j] = "p"
    BY <2>1, <2>2, <2>3, <2>4 DEF ThreadsAsAsked
  <2>6. j \in Makers
    BY <2>2, <2>4, <2>5
  <2> QED BY <2>6 DEF j
<1>4. ASSUME NEW k \in Takers, NEW l \in Takers, k < l PROVE maker[k] # maker[l]
  <2> SUFFICES ASSUME maker[k] = maker[l] PROVE FALSE
    OBVIOUS
  <2> DEFINE j == maker[k]
  <2>1. Before(k, j) /\ Before(l, j)
    <3>1. Before(k, maker[k]) /\ Before(l, maker[l])
      BY <1>2
    <3> QED BY <3>1
  <2> HIDE DEF j
  <2>2. k \in (j + 1)..(l - 1)
    BY <1>1, <1>4, <2>1 DEF Before
  <2>3. sock[k].owner # sock[l].owner
    BY <2>1, <2>2 DEF Before
  <2> QED BY <2>1, <2>3 DEF Before
<1>5. \A k, l \in Takers : maker[k] = maker[l] => k = l
  <2>1. \A k, l \in Takers : k = l \/ k < l \/ l < k
    BY <1>1
  <2> HIDE DEF Takers
  <2> QED BY <1>4, <2>1
<1>6. IsFiniteSet(Takers) /\ IsFiniteSet(Makers)
      /\ Cardinality(Takers) \in Nat /\ Cardinality(Makers) \in Nat
  <2>1. /\ Takers \in SUBSET {w \in Worker : pc[w] # "none"}
        /\ Makers \in SUBSET {w \in Worker : pc[w] # "none"}
    OBVIOUS
  <2> QED BY <2>1, ThreadsFinite
<1>7. maker \in [Takers -> Makers]
  <2> HIDE DEF Takers, Makers
  <2> QED BY <1>3 DEF maker
<1> HIDE DEF Takers, Makers
<1>8. ~(Cardinality(Makers) < Cardinality(Takers))
  BY <1>5, <1>6, <1>7, FS_PigeonHole
<1>9. Cardinality(Takers) <= Cardinality(Makers)
  BY <1>6, <1>8
<1> QED BY <1>9 DEF Takers, Makers

LEMMA DisjointUnion ==
  ASSUME NEW S, NEW T, IsFiniteSet(S), IsFiniteSet(T), S \cap T = {}
  PROVE  Cardinality(S \cup T) = Cardinality(S) + Cardinality(T)
<1>1. Cardinality(S) \in Nat /\ Cardinality(T) \in Nat
  BY FS_CardinalityType
<1>2. Cardinality(S \cup T) = Cardinality(S) + Cardinality(T) - Cardinality(S \cap T)
  BY FS_Union
<1>3. Cardinality(S \cap T) = 0
  BY FS_EmptySet
<1> QED BY <1>1, <1>2, <1>3

\* The threads nobody asked for are at most one for each client killed.
LEMMA LettersAreComing ==
  ASSUME BufferInv, MainInv, ReplyInv, SFCounts, ClientsAlternate, ThreadsAsAsked
  PROVE  OneLetterPerKill
<1> SUFFICES ASSUME running, base = 0 PROVE OneLetterPerKill
  BY DEF OneLetterPerKill
<1> DEFINE Waiting == Threads("c", {"start", "enter"})
           Making  == {w \in Worker : kind[w] = "p" /\ pc[w] \notin {"none", "done"}}
           All     == {w \in Worker : kind[w] = "c" /\ pc[w] # "none"}
<1>1. /\ All = Waiting \cup PastC
      /\ {w \in Worker : kind[w] = "p" /\ pc[w] # "none"} = Making \cup DoneP
      /\ Waiting \cap PastC = {} /\ Making \cap DoneP = {}
  BY ServerFacts DEF Threads, PastC, DoneP
<1>2. \A S \in {Waiting, PastC, Making, DoneP, All \ Silent, All \cap Silent} :
        IsFiniteSet(S) /\ Cardinality(S) \in Nat
  <2>1. \A S \in {Waiting, PastC, Making, DoneP, All \ Silent, All \cap Silent} :
          S \in SUBSET {w \in Worker : pc[w] # "none"}
    BY DEF Threads, PastC, DoneP
  <2> HIDE DEF Waiting, Making, All
  <2> QED BY <2>1, ThreadsFinite
<1>3. SF + Cardinality(PastC) = Cardinality(DoneP)
  BY DEF SFCounts, PastC, DoneP
<1>4. SF \in Nat /\ kills \in Nat
  BY ServerAssumption DEF BufferInv, BufferTypeOK, MainInv, ServerTypeOK
<1>5. Cardinality(All \ Silent) <= Cardinality(Making \cup DoneP)
  BY <1>1, MakersCoverTakers
<1> HIDE DEF Waiting, Making, All
<1>6. /\ Cardinality(Waiting \cup PastC) = Cardinality(Waiting) + Cardinality(PastC)
      /\ Cardinality(Making \cup DoneP) = Cardinality(Making) + Cardinality(DoneP)
  BY <1>1, <1>2, DisjointUnion
<1>7. Cardinality(All) = Cardinality(All \ Silent) + Cardinality(All \cap Silent)
  <2>1. (All \ Silent) \cap (All \cap Silent) = {} /\ All = (All \ Silent) \cup (All \cap Silent)
    OBVIOUS
  <2> QED BY <1>2, <2>1, DisjointUnion
<1>8. Cardinality(All \cap Silent) <= kills
  <2>1. IsFiniteSet(Silent) /\ Cardinality(Silent) \in Nat
    BY SilentFinite
  <2>2. Cardinality(All \cap Silent) <= Cardinality(Silent)
    BY <2>1, FS_Subset
  <2>3. Cardinality(Silent) <= kills
    BY DEF ThreadsAsAsked
  <2> QED BY <1>2, <1>4, <2>1, <2>2, <2>3
<1>9. Cardinality(Waiting) <= SF + Cardinality(Making) + kills
  BY <1>1, <1>2, <1>3, <1>4, <1>5, <1>6, <1>7, <1>8
<1> QED BY <1>9 DEF OneLetterPerKill, Waiting, Making

LEMMA LetterIsComing ==
  ASSUME BufferInv, MainInv, ReplyInv, SFCounts, ClientsAlternate, ThreadsAsAsked
  PROVE  LetterComing
<1> SUFFICES ASSUME FirstLife PROVE LetterComing
  BY DEF LetterComing
<1>1. SF \in Nat /\ Cardinality({w \in Worker : kind[w] = "p" /\ pc[w] \notin {"none", "done"}}) \in Nat
  <2>1. {w \in Worker : kind[w] = "p" /\ pc[w] \notin {"none", "done"}}
          \in SUBSET {w \in Worker : pc[w] # "none"}
    OBVIOUS
  <2> QED BY <2>1, ThreadsFinite DEF BufferInv, BufferTypeOK
<1> QED BY <1>1, LettersAreComing DEF LetterComing, OneLetterPerKill, FirstLife

-----------------------------------------------------------------------------
\* The invariants of the program and of its buffer support each other: the
\* buffer needs that main starts a thread for a connection only once.
THEOREM ServerInductive == Spec => [](BufferInv /\ ServerInv)
<1> DEFINE I == BufferInv /\ MainInv /\ ReplyInv /\ SFCounts /\ ClientsAlternate
                 /\ ThreadsAsAsked
<1>1. ServerInit => I
  BY InitEstablishes, ServerInitEstablishes, ReplyInitial, SFInitial, AlternateInitial,
     AskedInitial DEF ServerInit
<1>2. I /\ [Next]_vars => I'
  <2> SUFFICES ASSUME I, [Next]_vars PROVE I'
    OBVIOUS
  <2>1. [BufferNext]_bufferVars
    BY BufferStep DEF ServerInv
  <2>2. BufferInv' /\ SFCounts'
    BY <2>1, BufferInvStep, SFStep
  <2>3. MainInv'
    BY MainPreserves, WorkPreserves, FaultPreserves, ClientPreserves,
       StutterPreserves DEF Next
  <2>4. ReplyInv' /\ ClientsAlternate' /\ ThreadsAsAsked'
    BY ReplyStep, AlternateStep, AskedStep
  <2> QED BY <2>2, <2>3, <2>4
<1>3. I => BufferInv /\ ServerInv
  BY DEF ServerInv, ReplyInv
<1> QED BY <1>1, <1>2, <1>3, PTL DEF Spec

-----------------------------------------------------------------------------
(* The results.                                                            *)

\* Main, workers, signals, crashes and clients together are types correct.
THEOREM ServerTypes == Spec => []ServerTypeOK
BY ServerInductive, PTL DEF ServerInv, MainInv

\* The server's steps are steps of MtBuffer, by the way it is composed of them.
LEMMA ServerUsesBuffer == Spec => BufferSpec
<1>1. ServerInit => BufferInit
  BY DEF ServerInit
<1>2. ServerInv /\ [Next]_vars => [BufferNext]_bufferVars
  BY BufferStep DEF ServerInv
<1> QED BY <1>1, <1>2, ServerInductive, PTL DEF Spec, BufferSpec

\* Hence the whole program hands out the cyclic alphabet, each letter once.
THEOREM ServerImplementsStream == Spec => ImplementsStream
BY ServerUsesBuffer, BufferImplementsStream, PTL

\* Hence also no two requests are ever served inside the semaphores at once.
THEOREM ServerExcludes == Spec => []MutualExclusion
BY ServerInductive, PTL DEF BufferInv

\* A reply may be misdirected by the shared connfd, but only to a connection
\* that was accepted later than the request's.
THEOREM ServerRepliesForward == Spec => []RepliesNeverGoBack
BY ServerInductive, PTL DEF ServerInv, MainInv

\* After SIGINT at most one more connection is accepted.
THEOREM ServerStopsAccepting == Spec => []AtMostOneLateAccept
BY ServerInductive, PTL DEF ServerInv, MainInv

\* A client that has no competitor always reads the answer to the request it
\* sent, although its worker reads connfd late, and whatever signals, crashes
\* and restarts come between.
THEOREM ServerOwnReply == Spec => []OwnReply
<1>1. MainInv /\ BufferInv /\ OneAtATime /\ InTurn => OwnReply
  <2> SUFFICES ASSUME MainInv, BufferInv, OneAtATime, InTurn, NEW k \in Worker, sock[k].read,
                      \A j \in 1..opened : sock[j].owner = sock[k].owner
               PROVE  Head(sock[k].inbox) = k
    BY DEF OwnReply
  <2>1. OneClient
    BY DEF OneClient
  <2>2. sock[k].inbox = <<k>>
    BY <2>1 DEF InTurn, OneAtATime
  <2> QED BY <2>2
<1> QED BY <1>1, ServerInductive, PTL DEF ServerInv

\* In the server's first life, while no client has been killed, the consumers
\* that wait are no more than the letters in the ring and on their way.
THEOREM ServerLetterComing == Spec => []LetterComing
<1>1. BufferInv /\ ServerInv => LetterComing
  BY LetterIsComing DEF ServerInv, ReplyInv
<1> QED BY <1>1, ServerInductive, PTL

\* A client killed before its request costs the others one letter at most: with
\* that many more, the consumers that wait in the first life have theirs.
THEOREM ServerOneLetterPerKill == Spec => []OneLetterPerKill
<1>1. BufferInv /\ ServerInv => OneLetterPerKill
  BY LettersAreComing DEF ServerInv, ReplyInv
<1> QED BY <1>1, ServerInductive, PTL

\* In that life no consumer waits in vain: while one waits, some thread can move,
\* since a letter is there or a producer is.  And main waits in recv() only for
\* a client that is about to send.  It is what RequestsFinish means for a state.
THEOREM ServerNobodyWaitsInVain == Spec => [](FirstLife =>
  /\ semset /\ (\E w \in Worker : kind[w] = "c" /\ pc[w] = "enter") =>
       \E w \in Worker : CanMove(w)
  /\ mpc = "recv" /\ ~sock[connfd].sent =>
       \E c \in Client : cpc[c] = "send" /\ cur[c] = connfd)
<1> DEFINE Taker(w) == kind[w] = "c" /\ pc[w] = "enter"
<1>1. ASSUME BufferInv, ServerInv, FirstLife, semset, NEW w \in Worker, Taker(w),
             \A v \in Worker : ~CanMove(v)
      PROVE  FALSE
  <2> DEFINE Takers == Threads("c", {"start", "enter"})
             Makers == {v \in Worker : kind[v] = "p" /\ pc[v] \notin {"none", "done"}}
  <2>1. StandsStill
    BY <1>1 DEF StandsStill, FirstLife
  <2>2. SE = SeInit /\ SE \in Nat /\ SF \in Nat /\ SE + SF = SeInit /\ SE >= 1 /\ SB = 1
    <3>1. SE = SeInit
      BY <1>1, <2>1, StillMeansFullOrEmpty
    <3>2. SE \in Nat /\ SF \in Nat /\ SB \in {0, 1} /\ SeInit \in Nat \ {0}
      BY <1>1, BufferAssumption DEF BufferInv, BufferTypeOK
    <3>3. SB = 1
      BY <1>1, <3>2 DEF BufferInv, BinaryValue, Inside, FirstLife, CanMove
    <3> QED BY <1>1, <3>1, <3>2, <3>3 DEF BufferInv, UnitsConserved, FirstLife
  <2>3. Cardinality(Takers) <= SF + Cardinality(Makers)
    BY <1>1, LetterIsComing DEF LetterComing, ServerInv, ReplyInv
  <2>4. Makers = {}
    <3> SUFFICES ASSUME NEW v \in Makers PROVE FALSE
      OBVIOUS
    <3>1. pc[v] \in {"start", "enter", "cell", "index", "send", "leave"}
      BY <1>1 DEF BufferInv, BufferTypeOK
    <3>2. CanMove(v)
      BY <1>1, <2>2, <3>1 DEF CanMove, MayEnter
    <3> QED BY <1>1, <3>2
  <2>5. w \in Takers /\ IsFiniteSet(Takers) /\ Cardinality(Takers) \in Nat
    <3>1. MainInv /\ Takers \in SUBSET {v \in Worker : pc[v] # "none"}
      BY <1>1 DEF ServerInv, Threads
    <3>2. w \in Takers
      BY <1>1 DEF Threads
    <3> HIDE DEF Takers
    <3> QED BY <1>1, <3>1, <3>2, ThreadsFinite
  <2>6. Cardinality(Makers) = 0
    BY <2>4, FS_EmptySet
  <2> HIDE DEF Takers, Makers
  <2>7. Takers = {}
    <3>1. Cardinality(Takers) = 0
      BY <2>2, <2>3, <2>5, <2>6
    <3> QED BY <2>5, <3>1, FS_EmptySet
  <2> QED BY <2>5, <2>7
<1>2. ASSUME ServerInv, BufferInv, FirstLife, mpc = "recv", ~sock[connfd].sent
      PROVE  \E c \in Client : cpc[c] = "send" /\ cur[c] = connfd
  <2>1. connfd \in 1..opened
    <3>1. MainInv /\ Worker \subseteq Nat \ {0} /\ accepted \in Nat /\ opened \in Nat
          /\ accepted <= opened
      BY <1>2, ServerFacts DEF ServerInv
    <3>2. connfd \in Worker /\ connfd = accepted
      BY <1>2, <3>1 DEF MainInv, NoFd
    <3> QED BY <3>1, <3>2
  <2>2. sock[connfd].owner \in Client
    BY <1>2, <2>1 DEF ServerInv, OneAtATime
  <2>3. cpc[sock[connfd].owner] = "send" /\ cur[sock[connfd].owner] = connfd
    <3>1. Silent = {}
      <4>1. IsFiniteSet(Silent) /\ Cardinality(Silent) \in Nat
        BY <1>2, SilentFinite DEF ServerInv
      <4>2. Cardinality(Silent) <= 0
        BY <1>2 DEF ServerInv, ThreadsAsAsked, FirstLife
      <4> QED BY <4>1, <4>2, FS_EmptySet
    <3>2. cpc[sock[connfd].owner] \in {"send", "gone"} /\ cur[sock[connfd].owner] = connfd
      BY <1>2, <2>1 DEF ServerInv, ThreadsAsAsked, FirstLife
    <3> QED BY <1>2, <2>1, <3>1, <3>2 DEF Silent, Gone
  <2> QED BY <2>2, <2>3
<1>3. BufferInv /\ ServerInv => (FirstLife =>
        /\ semset /\ (\E w \in Worker : Taker(w)) => \E w \in Worker : CanMove(w)
        /\ mpc = "recv" /\ ~sock[connfd].sent =>
             \E c \in Client : cpc[c] = "send" /\ cur[c] = connfd)
  BY <1>1, <1>2
<1> QED BY <1>3, ServerInductive, PTL
=============================================================================
