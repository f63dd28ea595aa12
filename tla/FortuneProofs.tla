---------------------------- MODULE FortuneProofs ----------------------------
(***************************************************************************)
(* Theorems about Fortune, for a pot of any size and cookies of any        *)
(* lengths: with one writer, and any readers, the pot stays a row of       *)
(* cookies; one reader beside it gets each of them whole, and in order.    *)
(***************************************************************************)
EXTENDS Fortune, WellFoundedInduction, FiniteSetTheorems, TLAPS

-----------------------------------------------------------------------------
(* strlen()                                                                *)

\* A set of naturals that is not empty has a least element.
LEMMA Least == ASSUME NEW T, T \subseteq Nat, T # {}
               PROVE  \E x \in T : \A y \in T : x <= y
<1> DEFINE LessRel == {ss \in Nat \X Nat : ss[1] < ss[2]}
<1>1. IsWellFoundedOn(LessRel, Nat)
  BY NatLessThanWellFounded, Zenon DEF OpToRel
<1>2. PICK x \in T : \A y \in T : ~ (<<y, x>> \in LessRel)
  BY <1>1, WFMin
<1>3. ASSUME NEW y \in T PROVE x <= y
  <2>1. x \in Nat /\ y \in Nat /\ <<y, x>> \in Nat \X Nat
    OBVIOUS
  <2>2. ~(y < x)
    BY <1>2, <2>1
  <2> QED BY <2>1, <2>2
<1> QED BY <1>3

\* StrLen counts the bytes before the first zero, or before the pot's end.
LEMMA StrLenCounts ==
  ASSUME NEW i \in 0..(POT_SIZE - 1)
  PROVE  /\ StrLen(i) \in 0..(POT_SIZE - i)
         /\ \A m \in i..(i + StrLen(i) - 1) : cookie_pot[m] # Nul
         /\ i + StrLen(i) < POT_SIZE => cookie_pot[i + StrLen(i)] = Nul
<1> DEFINE ends == {j \in i..(POT_SIZE - 1) : cookie_pot[j] = Nul} \cup {POT_SIZE}
           e == CHOOSE j \in ends : \A k \in ends : j <= k
<1>1. POT_SIZE \in Nat /\ ends \subseteq Nat /\ ends # {}
  BY FortuneAssumption
<1>2. e \in ends /\ \A k \in ends : e <= k
  <2>1. \E j \in ends : \A k \in ends : j <= k
    BY <1>1, Least
  <2> QED BY <2>1
<1>3. StrLen(i) = e - i
  BY DEF StrLen
<1>4. e \in i..POT_SIZE /\ (e < POT_SIZE => cookie_pot[e] = Nul)
  BY <1>1, <1>2
<1>5. ASSUME NEW m \in i..(e - 1) PROVE cookie_pot[m] # Nul
  BY <1>1, <1>2, <1>4
<1> HIDE DEF e
<1>6. e - i \in 0..(POT_SIZE - i) /\ i + (e - i) = e
  BY <1>1, <1>4
<1> QED BY <1>3, <1>4, <1>5, <1>6

-----------------------------------------------------------------------------
(* The pot and its writer.                                                 *)

Writing == {"copy_in", "advance", "terminate"}
Reading == {"strlen", "copy_out", "advance_read"}

LEMMA InitEstablishesPot == FortuneInit => PotInv
<1> SUFFICES ASSUME FortuneInit PROVE PotInv
  OBVIOUS
<1> USE FortuneAssumption DEF FortuneInit
<1>1. PotTypeOK
  BY DEF PotTypeOK, Empty, Nul
<1>2. PotLaidOut /\ WriterAtWork /\ CookiesInOrder
  BY DEF PotLaidOut, RowBelow, Terminating, WriterAtWork, AllIdle, CookiesInOrder, Empty, Nul
<1> QED BY <1>1, <1>2 DEF PotInv

\* The loader's steps find every process idle when they clear the pot.
LEMMA LoaderPreservesPot == ASSUME PotInv, Loader
                            PROVE  PotInv'
<1>1. PotTypeOK /\ PotLaidOut /\ WriterAtWork /\ CookiesInOrder
  BY DEF PotInv
<1>2. CASE Load
  <2>1. /\ lpc' = "mkdir" /\ cookie_pot' = Empty /\ write_index' = 0 /\ cookies' = 0
        /\ UNCHANGED <<pc, len, faults>> /\ \A p \in Proc : pc[p] = "idle"
        /\ loads' = loads + 1
    BY <1>1, <1>2 DEF Load, WriterAtWork, AllIdle
  <2>2. PotTypeOK'
    BY <1>1, <2>1, FortuneAssumption DEF PotTypeOK, Empty, Nul
  <2>3. PotLaidOut' /\ WriterAtWork' /\ CookiesInOrder'
    BY <2>1, FortuneAssumption DEF PotLaidOut, RowBelow, Terminating, WriterAtWork, AllIdle,
       CookiesInOrder, Empty, Nul
  <2> QED BY <2>2, <2>3 DEF PotInv
<1>3. CASE Initialise \/ InitFails \/ Unload
  <2>1. /\ lpc' \in {"out", "symlink", "loaded"} /\ (lpc' = "out" => AllIdle)
        /\ UNCHANGED <<cookie_pot, write_index, pc, len, cookies, loads>>
        /\ faults' = faults \/ faults' = faults + 1
    BY <1>3 DEF Initialise, InitFails, Unload, LoaderGoto
  <2>2. PotTypeOK' /\ (faults' = 0 => faults = 0)
    BY <1>1, <2>1 DEF PotTypeOK
  <2>3. PotLaidOut' /\ WriterAtWork' /\ CookiesInOrder'
    BY <1>1, <2>1, <2>2 DEF PotLaidOut, RowBelow, Terminating, WriterAtWork, AllIdle,
       CookiesInOrder, Coming
  <2> QED BY <2>2, <2>3 DEF PotInv
<1> QED BY <1>2, <1>3 DEF Loader

\* A process that does not write moves on.
LEMMA ReadersSparePot ==
  ASSUME PotInv, NEW p \in Proc, NEW to \in {"idle"} \cup Reading,
         pc[p] \notin Writing, pc' = [pc EXCEPT ![p] = to],
         UNCHANGED <<lpc, loads, cookie_pot, write_index, cookies>>,
         lpc # "out" \/ pc[p] # "idle",
         len' \in [Proc -> 0..MaxLen], \A q \in Proc : q # p => len'[q] = len[q],
         faults' \in Nat, faults' = 0 => faults = 0
  PROVE  PotInv'
<1>1. PotTypeOK /\ PotLaidOut /\ WriterAtWork /\ CookiesInOrder
  BY DEF PotInv
<1>2. pc \in [Proc -> {"idle", "copy_in", "advance", "terminate", "strlen", "copy_out",
                       "advance_read"}]
  BY <1>1 DEF PotTypeOK
<1>3. /\ \A q \in Proc : pc'[q] \in Writing <=> pc[q] \in Writing
      /\ \A q \in Proc : pc'[q] \in Writing => pc'[q] = pc[q] /\ len'[q] = len[q]
      /\ \A q \in Proc : pc[q] \in Writing => pc'[q] = pc[q] /\ len'[q] = len[q]
  BY <1>2 DEF Writing, Reading
<1>4. lpc # "out"
  BY <1>1 DEF WriterAtWork, AllIdle
<1>5. PotTypeOK'
  BY <1>1, <1>2 DEF PotTypeOK, Reading
<1>6. Terminating' <=> Terminating
  BY <1>3 DEF Terminating, Writing
<1>7. PotLaidOut'
  BY <1>1, <1>6 DEF PotLaidOut, RowBelow
<1>8. WriterAtWork'
  BY <1>1, <1>3, <1>4 DEF WriterAtWork, Writing
<1>9. CookiesInOrder'
  <2>1. \A i \in write_index..(POT_SIZE - 1) : Coming(i)' <=> Coming(i)
    BY <1>3 DEF Coming, Writing
  <2> QED BY <1>1, <2>1 DEF CookiesInOrder
<1> QED BY <1>5, <1>7, <1>8, <1>9 DEF PotInv


\* The readers' steps are of that kind.
LEMMA ReadersStep ==
  ASSUME PotInv,
         \/ \E p \in Reader : ReaderStep(p)
         \/ \E p \in Proc : Open(p)
  PROVE  /\ PotInv'
         /\ UNCHANGED <<lpc, loads, cookie_pot, write_index, cookies>>
<1>1. PotTypeOK
  BY DEF PotInv
<1>2. PICK p \in Proc : (p \in Reader /\ ReaderStep(p)) \/ Open(p)
  BY DEF Proc
<1>3. /\ pc[p] \notin Writing /\ (lpc # "out" \/ pc[p] # "idle")
      /\ UNCHANGED <<lpc, loads, cookie_pot, write_index, cookies>>
      /\ \E to \in {"idle"} \cup Reading : pc' = [pc EXCEPT ![p] = to]
      /\ len' = len \/ \E n \in 1..MaxLen : len' = [len EXCEPT ![p] = n]
      /\ faults' = faults \/ faults' = faults + 1
  BY <1>2 DEF ReaderStep, Read, Measure, CopyOut, CopyOutFails, ReadAdvance, Open, Goto,
     Writing, Reading
<1>4. /\ len' \in [Proc -> 0..MaxLen] /\ \A q \in Proc : q # p => len'[q] = len[q]
  <2>1. len \in [Proc -> 0..MaxLen] /\ 1..MaxLen \subseteq 0..MaxLen
    BY <1>1, FortuneAssumption DEF PotTypeOK
  <2> QED BY <1>3, <2>1
<1>5. faults' \in Nat /\ (faults' = 0 => faults = 0)
  BY <1>1, <1>3 DEF PotTypeOK
<1> QED BY <1>3, <1>4, <1>5, ReadersSparePot

\* With one writer, nobody else is at work on the pot while it writes.
LEMMA Alone == ASSUME OneWriter, WriterAtWork, NEW p \in Writer
               PROVE  \A q \in Proc : pc[q] \in Writing => q = p
BY DEF OneWriter, WriterAtWork, Writing

LEMMA WritePreservesPot == ASSUME OneWriter, PotInv, NEW p \in Writer, Write(p)
                           PROVE  PotInv'
<1>1. PotTypeOK /\ PotLaidOut /\ WriterAtWork /\ CookiesInOrder
  BY DEF PotInv
<1>2. PICK n \in 0..MaxLen : n + 1 <= POT_SIZE - write_index /\ len' = [len EXCEPT ![p] = n]
  BY DEF Write, Fits
<1>3. /\ lpc # "out" /\ pc[p] = "idle" /\ pc' = [pc EXCEPT ![p] = "copy_in"]
      /\ UNCHANGED <<lpc, loads, cookie_pot, write_index, cookies, faults>> /\ p \in Proc
  BY DEF Write, Goto, Proc
<1>4. \A q \in Proc : pc[q] \in Writing => q = p
  BY <1>1, Alone
<1>5. /\ pc'[p] = "copy_in" /\ len'[p] = n /\ write_index + n < POT_SIZE
      /\ \A q \in Proc : pc'[q] \in Writing => q = p
      /\ \A q \in Proc : q # p => pc'[q] = pc[q]
  <2>1. write_index + n < POT_SIZE
    BY <1>1, <1>2, FortuneAssumption DEF PotTypeOK
  <2> QED BY <1>1, <1>2, <1>3, <1>4, <2>1 DEF PotTypeOK, Writing
<1>6. PotTypeOK'
  BY <1>1, <1>2, <1>3 DEF PotTypeOK
<1>7. ~Terminating /\ ~Terminating'
  BY <1>3, <1>4, <1>5 DEF Terminating, Writing
<1>8. PotLaidOut'
  BY <1>1, <1>3, <1>7 DEF PotLaidOut, RowBelow
<1>9. WriterAtWork'
  BY <1>3, <1>5 DEF WriterAtWork, Writing
<1>10. CookiesInOrder'
  <2>1. \A i \in write_index..(POT_SIZE - 1) : ~Coming(i)
    BY <1>3, <1>4 DEF Coming, Writing
  <2> QED BY <1>1, <1>3, <2>1 DEF CookiesInOrder
<1> QED BY <1>6, <1>8, <1>9, <1>10 DEF PotInv

\* What Filled() changes.
LEMMA FilledCells ==
  ASSUME PotTypeOK, NEW n \in Nat, NEW v \in Int, write_index + n < POT_SIZE
  PROVE  /\ Filled(n, v) \in [0..(POT_SIZE - 1) -> Int]
         /\ \A i \in 0..(write_index - 1) : Filled(n, v)[i] = cookie_pot[i]
         /\ \A i \in write_index..(write_index + n - 1) : Filled(n, v)[i] = v
         /\ \A i \in (write_index + n)..(POT_SIZE - 1) : Filled(n, v)[i] = cookie_pot[i]
<1>1. /\ cookie_pot \in [0..(POT_SIZE - 1) -> Int] /\ DOMAIN cookie_pot = 0..(POT_SIZE - 1)
      /\ write_index \in Nat /\ POT_SIZE \in Nat
  BY FortuneAssumption DEF PotTypeOK
<1>2. Filled(n, v) = [i \in 0..(POT_SIZE - 1) |->
                        IF i \in write_index..(write_index + n - 1) THEN v ELSE cookie_pot[i]]
  BY <1>1 DEF Filled
<1> QED BY <1>1, <1>2

LEMMA CopyInPreservesPot == ASSUME OneWriter, PotInv, NEW p \in Writer, CopyIn(p)
                            PROVE  PotInv'
<1>1. PotTypeOK /\ PotLaidOut /\ WriterAtWork /\ CookiesInOrder
  BY DEF PotInv
<1>2. /\ pc[p] = "copy_in" /\ pc' = [pc EXCEPT ![p] = "advance"]
      /\ cookie_pot' = Filled(len[p], cookies + 1) /\ p \in Proc
      /\ UNCHANGED <<lpc, loads, write_index, len, cookies, faults>>
  BY DEF CopyIn, Goto, Proc
<1>3. /\ \A q \in Proc : pc[q] \in Writing => q = p
      /\ write_index + len[p] < POT_SIZE /\ len[p] \in Nat /\ cookies + 1 \in Int
      /\ write_index \in Nat
  BY <1>1, <1>2, Alone, FortuneAssumption DEF WriterAtWork, PotTypeOK
<1>4. /\ cookie_pot' \in [0..(POT_SIZE - 1) -> Int]
      /\ \A i \in 0..(write_index - 1) : cookie_pot'[i] = cookie_pot[i]
      /\ \A i \in write_index..(write_index + len[p] - 1) : cookie_pot'[i] = cookies + 1
      /\ \A i \in (write_index + len[p])..(POT_SIZE - 1) : cookie_pot'[i] = cookie_pot[i]
  BY <1>1, <1>2, <1>3, FilledCells
<1>5. /\ pc'[p] = "advance" /\ \A q \in Proc : pc'[q] \in Writing => q = p
      /\ \A q \in Proc : q # p => pc'[q] = pc[q]
  BY <1>1, <1>2, <1>3 DEF PotTypeOK, Writing
<1>6. PotTypeOK'
  BY <1>1, <1>2, <1>4 DEF PotTypeOK
<1>7. ~Terminating /\ ~Terminating'
  BY <1>2, <1>3, <1>5 DEF Terminating, Writing
<1>8. PotLaidOut'
  BY <1>1, <1>2, <1>3, <1>4, <1>7 DEF PotLaidOut, RowBelow
<1>9. WriterAtWork'
  <2>1. lpc' # "out"
    BY <1>1, <1>2 DEF WriterAtWork, AllIdle
  <2> QED BY <1>2, <1>3, <1>4, <1>5, <2>1 DEF WriterAtWork, Writing
<1>10. CookiesInOrder'
  <2> SUFFICES ASSUME faults = 0 PROVE CookiesInOrder'
    BY <1>2 DEF CookiesInOrder
  <2>1. \A i \in write_index..(POT_SIZE - 1) : ~Coming(i) /\ cookie_pot[i] = Nul
    BY <1>1, <1>2, <1>3 DEF Coming, Writing, CookiesInOrder
  <2>2. \A i \in write_index..(POT_SIZE - 1) : ~Coming(i)' => cookie_pot'[i] = Nul
    <3> SUFFICES ASSUME NEW i \in write_index..(POT_SIZE - 1), ~Coming(i)'
                 PROVE  cookie_pot'[i] = Nul
      OBVIOUS
    <3>1. ~(i < write_index + len[p])
      BY <1>2, <1>5 DEF Coming
    <3>2. i \in (write_index + len[p])..(POT_SIZE - 1)
      BY <1>3, <3>1, FortuneAssumption
    <3> QED BY <1>4, <2>1, <3>2
  <2>3. /\ \A i \in 0..(write_index - 1) : cookie_pot'[i] \in 0..cookies
        /\ write_index > 0 => cookie_pot'[write_index - 1] = Nul
    BY <1>1, <1>3, <1>4 DEF CookiesInOrder
  <2>5. \A k \in 1..cookies : \E i \in 0..(write_index - 1) : cookie_pot'[i] = k
    <3>1. \A k \in 1..cookies : \E i \in 0..(write_index - 1) : cookie_pot[i] = k
      BY <1>1 DEF CookiesInOrder
    <3> QED BY <1>4, <3>1
  <2>4. ASSUME NEW i \in 0..(write_index - 1), NEW j \in 0..(write_index - 1), i < j,
               cookie_pot'[i] # Nul, cookie_pot'[j] # Nul
        PROVE  IF \E m \in i..j : cookie_pot'[m] = Nul
               THEN cookie_pot'[i] < cookie_pot'[j] ELSE cookie_pot'[i] = cookie_pot'[j]
    <3>1. \A m \in i..j : cookie_pot'[m] = cookie_pot[m]
      BY <1>3, <1>4
    <3>2. i \in i..j /\ j \in i..j
      BY <1>3, <2>4
    <3> QED BY <1>1, <2>4, <3>1, <3>2 DEF CookiesInOrder
  <2> QED BY <1>2, <2>2, <2>3, <2>4, <2>5 DEF CookiesInOrder
<1> QED BY <1>6, <1>8, <1>9, <1>10 DEF PotInv

LEMMA CopyInFailsPreservesPot == ASSUME OneWriter, PotInv, NEW p \in Writer, CopyInFails(p)
                                 PROVE  PotInv'
<1>1. PotTypeOK /\ PotLaidOut /\ WriterAtWork
  BY DEF PotInv
<1>2. /\ pc[p] = "copy_in" /\ pc' = [pc EXCEPT ![p] = "idle"] /\ p \in Proc
      /\ UNCHANGED <<lpc, loads, write_index, len, cookies>> /\ faults' = faults + 1
  BY DEF CopyInFails, Goto, Proc
<1>3. PICK n \in 0..len[p] : cookie_pot' = Filled(n, Junk)
  BY DEF CopyInFails
<1>4. /\ \A q \in Proc : pc[q] \in Writing => q = p
      /\ write_index + n < POT_SIZE /\ n \in Nat /\ Junk \in Int /\ write_index \in Nat
  <2>1. len[p] \in Nat /\ write_index \in Nat /\ write_index + len[p] < POT_SIZE
    BY <1>1, <1>2, FortuneAssumption DEF WriterAtWork, PotTypeOK
  <2> QED BY <1>1, <2>1, Alone, FortuneAssumption DEF Junk
<1>5. /\ cookie_pot' \in [0..(POT_SIZE - 1) -> Int]
      /\ \A i \in 0..(write_index - 1) : cookie_pot'[i] = cookie_pot[i]
  BY <1>1, <1>3, <1>4, FilledCells
<1>6. /\ \A q \in Proc : pc'[q] \notin Writing
      /\ \A q \in Proc : q # p => pc'[q] = pc[q]
  BY <1>1, <1>2, <1>4 DEF PotTypeOK, Writing
<1>7. PotTypeOK' /\ faults' # 0
  BY <1>1, <1>2, <1>5 DEF PotTypeOK
<1>8. PotLaidOut'
  <2>1. ~Terminating /\ ~Terminating'
    BY <1>2, <1>4, <1>6 DEF Terminating, Writing
  <2> QED BY <1>1, <1>2, <1>4, <1>5, <2>1 DEF PotLaidOut, RowBelow
<1>9. WriterAtWork'
  <2>1. lpc' # "out"
    BY <1>1, <1>2 DEF WriterAtWork, AllIdle
  <2> QED BY <1>6, <2>1 DEF WriterAtWork, Writing
<1>10. CookiesInOrder'
  BY <1>7 DEF CookiesInOrder
<1> QED BY <1>7, <1>8, <1>9, <1>10 DEF PotInv

LEMMA WriteAdvancePreservesPot ==
  ASSUME OneWriter, PotInv, NEW p \in Writer, WriteAdvance(p)
  PROVE  PotInv'
<1> DEFINE n == len[p]
<1>1. PotTypeOK /\ PotLaidOut /\ WriterAtWork /\ CookiesInOrder
  BY DEF PotInv
<1>2. /\ pc[p] = "advance" /\ pc' = [pc EXCEPT ![p] = "terminate"] /\ p \in Proc
      /\ write_index' = write_index + n + 1
      /\ cookies' = cookies + (IF n > 0 THEN 1 ELSE 0)
      /\ UNCHANGED <<lpc, loads, cookie_pot, len, faults>>
  BY DEF WriteAdvance, Goto, Proc, Advanced, Counted
<1>3. /\ \A q \in Proc : pc[q] \in Writing => q = p
      /\ n \in 0..MaxLen /\ write_index + n < POT_SIZE
      /\ write_index \in Nat /\ n \in Nat /\ cookies \in Nat
      /\ \A i \in write_index..(write_index + n - 1) : cookie_pot[i] = cookies + 1
  BY <1>1, <1>2, Alone, FortuneAssumption DEF WriterAtWork, PotTypeOK
<1> HIDE DEF n
<1>4. /\ pc'[p] = "terminate" /\ \A q \in Proc : pc'[q] \in Writing => q = p
      /\ \A q \in Proc : q # p => pc'[q] = pc[q]
  BY <1>1, <1>2, <1>3 DEF PotTypeOK, Writing
<1>5. cookies' \in Nat /\ write_index' \in 0..POT_SIZE /\ write_index' > 0
  BY <1>2, <1>3, FortuneAssumption
<1>6. PotTypeOK'
  BY <1>1, <1>2, <1>5 DEF PotTypeOK
<1>7. ~Terminating /\ Terminating'
  BY <1>2, <1>3, <1>4 DEF Terminating, Writing
<1>8. /\ RowBelow(write_index) /\ (write_index > 0 => cookie_pot[write_index - 1] = Nul)
  BY <1>1, <1>7 DEF PotLaidOut
<1>9. PotLaidOut'
  <2>1. \A i \in 0..(write_index + n - 1) : cookie_pot[i] # Junk
    BY <1>3, <1>8 DEF RowBelow, Junk
  <2>2. ASSUME NEW i \in 1..(write_index + n - 1), cookie_pot[i] # Nul
        PROVE  cookie_pot[i - 1] \in {Nul, cookie_pot[i]}
    BY <1>3, <1>8, <2>2 DEF RowBelow
  <2>3. write_index' - 1 = write_index + n
    BY <1>2, <1>3
  <2>4. RowBelow(write_index - 1)'
    BY <1>2, <1>3, <2>1, <2>2, <2>3 DEF RowBelow
  <2> QED BY <1>7, <2>4 DEF PotLaidOut
<1>10. WriterAtWork'
  <2>1. lpc' # "out"
    BY <1>1, <1>2 DEF WriterAtWork, AllIdle
  <2> QED BY <1>2, <1>4, <1>5, <2>1 DEF WriterAtWork, Writing
<1>11. CookiesInOrder'
  <2> SUFFICES ASSUME faults = 0 PROVE CookiesInOrder'
    BY <1>2 DEF CookiesInOrder
  <2>1. \A i \in (write_index + n)..(POT_SIZE - 1) : cookie_pot[i] = Nul
    <3> SUFFICES ASSUME NEW i \in (write_index + n)..(POT_SIZE - 1)
                 PROVE  cookie_pot[i] = Nul
      OBVIOUS
    <3>1. ~Coming(i)
      <4> SUFFICES ASSUME NEW q \in Proc, pc[q] = "advance" PROVE ~(i < write_index + len[q])
        BY DEF Coming
      <4>1. q = p
        BY <1>3 DEF Writing
      <4> QED BY <1>3, <4>1 DEF n
    <3>2. i \in write_index..(POT_SIZE - 1)
      BY <1>3, FortuneAssumption
    <3> QED BY <1>1, <3>1, <3>2 DEF CookiesInOrder
  <2>2. /\ \A i \in 0..(write_index - 1) : cookie_pot[i] \in 0..cookies
        /\ write_index > 0 => cookie_pot[write_index - 1] = Nul
        /\ \A k \in 1..cookies : \E i \in 0..(write_index - 1) : cookie_pot[i] = k
    BY <1>1 DEF CookiesInOrder
  <2>3. cookie_pot[write_index + n] = Nul
    BY <1>3, <2>1, FortuneAssumption
  <2>4. \A i \in 0..(write_index' - 1) : cookie_pot[i] \in 0..cookies'
    BY <1>2, <1>3, <2>2, <2>3 DEF Nul
  <2>5. \A i \in write_index'..(POT_SIZE - 1) : cookie_pot[i] = Nul
    BY <1>2, <1>3, <2>1
  <2>6. cookie_pot[write_index' - 1] = Nul
    BY <1>2, <1>3, <2>3
  <2>7. ASSUME NEW k \in 1..cookies' PROVE \E i \in 0..(write_index' - 1) : cookie_pot[i] = k
    <3>1. CASE k \in 1..cookies
      BY <1>2, <1>3, <2>2, <3>1
    <3>2. CASE k \notin 1..cookies
      <4>1. k = cookies + 1 /\ n > 0
        BY <1>2, <1>3, <3>2
      <4>2. write_index \in write_index..(write_index + n - 1)
            /\ write_index \in 0..(write_index' - 1)
        BY <1>2, <1>3, <4>1
      <4> QED BY <1>3, <4>1, <4>2
    <3> QED BY <3>1, <3>2
  <2>8. ASSUME NEW i \in 0..(write_index' - 1), NEW j \in 0..(write_index' - 1), i < j,
               cookie_pot[i] # Nul, cookie_pot[j] # Nul
        PROVE  IF \E m \in i..j : cookie_pot[m] = Nul
               THEN cookie_pot[i] < cookie_pot[j] ELSE cookie_pot[i] = cookie_pot[j]
    <3>1. i # write_index + n /\ j # write_index + n
      BY <2>3, <2>8
    <3>2. CASE j < write_index
      <4>1. i \in 0..(write_index - 1) /\ j \in 0..(write_index - 1)
        BY <1>3, <2>8, <3>2
      <4> QED BY <1>1, <2>8, <4>1 DEF CookiesInOrder
    <3>3. CASE i < write_index /\ ~(j < write_index)
      <4>1. i \in 0..(write_index - 1) /\ j \in write_index..(write_index + n - 1)
            /\ write_index - 1 \in i..j /\ write_index > 0
        BY <1>2, <1>3, <2>8, <3>1, <3>3
      <4>2. cookie_pot[i] \in 0..cookies /\ cookie_pot[j] = cookies + 1
        BY <1>3, <2>2, <4>1
      <4> QED BY <1>3, <2>2, <4>1, <4>2
    <3>4. CASE ~(i < write_index)
      <4>1. /\ i \in write_index..(write_index + n - 1) /\ j \in write_index..(write_index + n - 1)
            /\ \A m \in i..j : m \in write_index..(write_index + n - 1)
        BY <1>2, <1>3, <2>8, <3>1, <3>4
      <4>2. \A m \in i..j : cookie_pot[m] # Nul
        BY <1>3, <4>1 DEF Nul
      <4> QED BY <1>3, <4>1, <4>2
    <3> QED BY <3>2, <3>3, <3>4
  <2>9. \A i \in write_index'..(POT_SIZE - 1) : ~Coming(i)' => cookie_pot'[i] = Nul
    BY <1>2, <2>5
  <2> QED BY <1>2, <2>4, <2>6, <2>7, <2>8, <2>9 DEF CookiesInOrder
<1> QED BY <1>6, <1>9, <1>10, <1>11 DEF PotInv

LEMMA TerminatePreservesPot == ASSUME OneWriter, PotInv, NEW p \in Writer, Terminate(p)
                               PROVE  /\ PotInv'
                                      /\ faults = 0 => cookie_pot' = cookie_pot
<1>1. PotTypeOK /\ PotLaidOut /\ WriterAtWork /\ CookiesInOrder
  BY DEF PotInv
<1>2. /\ pc[p] = "terminate" /\ pc' = [pc EXCEPT ![p] = "idle"] /\ p \in Proc
      /\ cookie_pot' = [cookie_pot EXCEPT ![write_index - 1] = Nul]
      /\ UNCHANGED <<lpc, loads, write_index, len, cookies, faults>>
  BY DEF Terminate, Goto, Proc
<1>3. /\ \A q \in Proc : pc[q] \in Writing => q = p
      /\ write_index \in 1..POT_SIZE /\ write_index - 1 \in 0..(POT_SIZE - 1)
  BY <1>1, <1>2, Alone, FortuneAssumption DEF WriterAtWork, PotTypeOK
<1>4. /\ \A q \in Proc : pc'[q] \notin Writing
      /\ \A q \in Proc : q # p => pc'[q] = pc[q]
  BY <1>1, <1>2, <1>3 DEF PotTypeOK, Writing
<1>5. /\ cookie_pot' \in [0..(POT_SIZE - 1) -> Int]
      /\ \A i \in 0..(POT_SIZE - 1) : cookie_pot'[i] = (IF i = write_index - 1 THEN Nul
                                                        ELSE cookie_pot[i])
  BY <1>1, <1>2, <1>3 DEF PotTypeOK, Nul
<1>6. PotTypeOK'
  BY <1>1, <1>2, <1>5 DEF PotTypeOK
<1>7. Terminating /\ ~Terminating'
  BY <1>2, <1>4 DEF Terminating, Writing
<1>8. PotLaidOut'
  <2>1. RowBelow(write_index - 1)
    BY <1>1, <1>7 DEF PotLaidOut
  <2>2. cookie_pot'[write_index - 1] = Nul
    BY <1>3, <1>5
  <2>3. \A i \in 0..(write_index - 1) : cookie_pot'[i] # Junk
    <3> SUFFICES ASSUME NEW i \in 0..(write_index - 1) PROVE cookie_pot'[i] # Junk
      OBVIOUS
    <3>1. i \in 0..(POT_SIZE - 1) /\ (i = write_index - 1 \/ i \in 0..(write_index - 1 - 1))
      BY <1>3, FortuneAssumption
    <3> QED BY <1>5, <2>1, <3>1 DEF RowBelow, Nul, Junk
  <2>4. ASSUME NEW i \in 1..(write_index - 1), cookie_pot'[i] # Nul
        PROVE  cookie_pot'[i - 1] \in {Nul, cookie_pot'[i]}
    <3>1. i \in 1..(write_index - 1 - 1) /\ i \in 0..(POT_SIZE - 1) /\ i - 1 \in 0..(POT_SIZE - 1)
          /\ i # write_index - 1 /\ i - 1 # write_index - 1
      BY <1>3, <2>2, <2>4, FortuneAssumption
    <3> QED BY <1>5, <2>1, <2>4, <3>1 DEF RowBelow
  <2> QED BY <1>2, <1>7, <2>2, <2>3, <2>4 DEF PotLaidOut, RowBelow
<1>9. WriterAtWork'
  <2>1. lpc' # "out"
    BY <1>1, <1>2 DEF WriterAtWork, AllIdle
  <2> QED BY <1>4, <2>1 DEF WriterAtWork, Writing
<1>10. faults = 0 => cookie_pot' = cookie_pot
  <2> SUFFICES ASSUME faults = 0 PROVE cookie_pot' = cookie_pot
    OBVIOUS
  <2>1. cookie_pot[write_index - 1] = Nul
    BY <1>1, <1>3 DEF CookiesInOrder
  <2> QED BY <1>1, <1>2, <1>3, <2>1 DEF PotTypeOK
<1>11. CookiesInOrder'
  <2> SUFFICES ASSUME faults = 0 PROVE CookiesInOrder'
    BY <1>2 DEF CookiesInOrder
  <2>1. \A i \in write_index..(POT_SIZE - 1) : ~Coming(i) /\ cookie_pot[i] = Nul
    BY <1>1, <1>2, <1>3 DEF Coming, Writing, CookiesInOrder
  <2> QED BY <1>1, <1>2, <1>10, <2>1 DEF CookiesInOrder
<1> QED BY <1>6, <1>8, <1>9, <1>10, <1>11 DEF PotInv

LEMMA NextPreservesPot == ASSUME OneWriter, PotInv, [Next]_vars PROVE PotInv'
<1>1. CASE Loader
  BY <1>1, LoaderPreservesPot
<1>2. ASSUME NEW p \in Writer, WriterStep(p) PROVE PotInv'
  BY <1>2, WritePreservesPot, CopyInPreservesPot, CopyInFailsPreservesPot,
     WriteAdvancePreservesPot, TerminatePreservesPot DEF WriterStep
<1>3. CASE UNCHANGED vars
  BY <1>3 DEF vars, PotInv, PotTypeOK, PotLaidOut, RowBelow, Terminating, WriterAtWork,
     AllIdle, CookiesInOrder, Coming
<1> QED BY <1>1, <1>2, <1>3, ReadersStep DEF Next

\* With one writer, however many readers there are and whichever copies fail,
\* the pot is a row of whole cookies, and write_index stays within it.
THEOREM PotInductive == ASSUME OneWriter PROVE Spec => []PotInv
<1>1. PotInv /\ [Next]_vars => PotInv'
  BY NextPreservesPot
<1> QED BY <1>1, InitEstablishesPot, PTL DEF Spec


-----------------------------------------------------------------------------
(* The reader.                                                             *)

LEMMA InitEstablishes == FortuneInit => FortuneInv
<1> SUFFICES ASSUME FortuneInit PROVE FortuneInv
  OBVIOUS
<1>1. PotInv
  BY InitEstablishesPot
<1>2. ReadTypeOK /\ ReaderAtWork /\ ToldBefore
  BY FortuneAssumption DEF FortuneInit, ReadTypeOK, ReaderAtWork, ToldBefore
<1> QED BY <1>1, <1>2 DEF FortuneInv

\* What the reader relies on stays, if the row may grow but not change, the
\* reader's variables stay and no read moves on.
LEMMA ReaderUndisturbed ==
  ASSUME PotTypeOK, PotTypeOK', ReadTypeOK, ReaderAtWork, ToldBefore,
         UNCHANGED <<read_index, read_len, told, known, got>>, offset' \in [Proc -> Nat],
         write_index <= write_index', cookies <= cookies',
         \A q \in Proc : pc'[q] \in Reading => pc'[q] = pc[q] /\ len'[q] = len[q],
         faults' = 0 => /\ faults = 0
                        /\ \A i \in 0..(write_index - 1) : cookie_pot'[i] = cookie_pot[i]
  PROVE  ReadTypeOK' /\ ReaderAtWork' /\ ToldBefore'
<1>1. /\ write_index \in 0..POT_SIZE /\ write_index' \in 0..POT_SIZE
      /\ cookies \in Nat /\ cookies' \in Nat /\ POT_SIZE \in Nat
      /\ read_index \in Nat /\ read_len \in [Proc -> 0..MaxLen] /\ known \in 0..cookies
  BY FortuneAssumption DEF PotTypeOK, ReadTypeOK
<1>2. ReadTypeOK'
  BY <1>1 DEF ReadTypeOK
<1>3. ReaderAtWork'
  <2>1. ASSUME NEW q \in Proc, pc'[q] \in Reading
        PROVE  q \in Reader /\ len'[q] > 0 /\ read_index < write_index'
    BY <1>1, <2>1 DEF ReaderAtWork, Reading
  <2>2. ASSUME NEW q \in Proc, pc'[q] \in {"copy_out", "advance_read"}
        PROVE  /\ read_index + read_len[q] <= POT_SIZE
               /\ faults' = 0 =>
                  /\ read_index + read_len[q] < write_index'
                  /\ \A i \in read_index..(read_index + read_len[q] - 1) : cookie_pot'[i] # Nul
                  /\ read_len[q] = 0 => cookie_pot'[read_index] = Nul
    <3>1. pc[q] = pc'[q] /\ read_len[q] \in Nat
      BY <1>1, <2>2 DEF Reading
    <3>2. CASE faults' # 0
      BY <2>2, <3>1, <3>2 DEF ReaderAtWork
    <3>3. CASE faults' = 0
      <4>1. /\ read_index + read_len[q] < write_index /\ read_index + read_len[q] <= POT_SIZE
            /\ \A i \in read_index..(read_index + read_len[q] - 1) : cookie_pot[i] # Nul
            /\ read_len[q] = 0 => cookie_pot[read_index] = Nul
        BY <2>2, <3>1, <3>3 DEF ReaderAtWork
      <4>2. \A i \in read_index..(read_index + read_len[q]) : cookie_pot'[i] = cookie_pot[i]
        BY <1>1, <3>1, <3>3, <4>1
      <4>3. /\ read_index \in read_index..(read_index + read_len[q])
            /\ \A i \in read_index..(read_index + read_len[q] - 1) :
                 i \in read_index..(read_index + read_len[q])
            /\ read_index + read_len[q] < write_index'
        BY <1>1, <3>1, <4>1
      <4> QED BY <4>1, <4>2, <4>3
    <3> QED BY <3>2, <3>3
  <2> QED BY <2>1, <2>2 DEF ReaderAtWork, Reading
<1>4. ToldBefore'
  <2> SUFFICES ASSUME faults' = 0 PROVE ToldBefore'
    BY DEF ToldBefore
  <2>1. /\ read_index <= write_index /\ told \in 0..cookies
        /\ \A i \in 0..(read_index - 1) : cookie_pot[i] <= told
        /\ \/ \E i \in 0..(read_index - 1) : cookie_pot[i] = told /\ told # Nul
           \/ told = known /\ \A i \in 0..(read_index - 1) : cookie_pot[i] = Nul
        /\ \A x \in got : got = {x} /\ x \notin {Nul, Junk}
    BY DEF ToldBefore
  <2>2. \A i \in 0..(read_index - 1) : cookie_pot'[i] = cookie_pot[i]
    BY <1>1, <2>1
  <2>3. read_index <= write_index' /\ told \in 0..cookies'
    BY <1>1, <2>1
  <2> QED BY <2>1, <2>2, <2>3 DEF ToldBefore
<1> QED BY <1>2, <1>3, <1>4

\* A writer lets the reader be.
LEMMA WriterPreserves == ASSUME OneWriter, FortuneInv, NEW p \in Writer, WriterStep(p)
                         PROVE  FortuneInv'
<1>1. PotInv /\ ReadTypeOK /\ ReaderAtWork /\ ToldBefore /\ PotTypeOK /\ WriterAtWork
  BY DEF FortuneInv, PotInv
<1>2. PotInv' /\ PotTypeOK'
  BY <1>1, WritePreservesPot, CopyInPreservesPot, CopyInFailsPreservesPot,
     WriteAdvancePreservesPot, TerminatePreservesPot DEF WriterStep, PotInv
<1>3. /\ p \in Proc /\ UNCHANGED <<read_index, read_len, told, known, got>>
      /\ pc' = [pc EXCEPT ![p] = pc'[p]] /\ pc'[p] \notin Reading
      /\ \A q \in Proc : q # p => len'[q] = len[q]
      /\ faults' = faults \/ faults' = faults + 1
      /\ offset' = offset \/ offset' = [offset EXCEPT ![p] = @ + len[p]]
  <2>1. p \in Proc /\ DOMAIN pc = Proc /\ pc = [pc EXCEPT ![p] = pc[p]]
    BY <1>1 DEF Proc, PotTypeOK
  <2>2. /\ UNCHANGED <<read_index, read_len, told, known, got>>
        /\ \E to \in {"idle"} \cup Writing : pc' = [pc EXCEPT ![p] = to]
        /\ len' = len \/ \E n \in 0..MaxLen : len' = [len EXCEPT ![p] = n]
        /\ faults' = faults \/ faults' = faults + 1
        /\ offset' = offset \/ offset' = [offset EXCEPT ![p] = @ + len[p]]
    BY DEF WriterStep, Write, CopyIn, CopyInFails, WriteAdvance, Terminate, Goto, Writing
  <2>3. len \in [Proc -> 0..MaxLen]
    BY <1>1 DEF PotTypeOK
  <2> QED BY <2>1, <2>2, <2>3 DEF Reading, Writing
<1>4. /\ offset' \in [Proc -> Nat] /\ (faults' = 0 => faults = 0)
      /\ \A q \in Proc : pc'[q] \in Reading => pc'[q] = pc[q] /\ len'[q] = len[q]
  <2>1. offset' \in [Proc -> Nat]
    <3>1. offset[p] + len[p] \in Nat
      BY <1>1, <1>3, FortuneAssumption DEF PotTypeOK, ReadTypeOK
    <3> QED BY <1>1, <1>3, <3>1 DEF ReadTypeOK
  <2>2. faults' = 0 => faults = 0
    BY <1>1, <1>3 DEF PotTypeOK
  <2> QED BY <1>1, <1>3, <2>1, <2>2 DEF PotTypeOK
<1>5. /\ write_index <= write_index' /\ cookies <= cookies'
      /\ faults' = 0 => \A i \in 0..(write_index - 1) : cookie_pot'[i] = cookie_pot[i]
  <2> USE <1>1, FortuneAssumption DEF PotTypeOK
  <2>1. CASE Write(p)
    BY <2>1 DEF Write
  <2>2. CASE CopyIn(p)
    <3>1. /\ write_index + len[p] < POT_SIZE /\ len[p] \in Nat /\ cookies + 1 \in Int
          /\ cookie_pot' = Filled(len[p], cookies + 1)
          /\ UNCHANGED <<write_index, cookies>>
      BY <1>3, <2>2 DEF CopyIn, Goto, WriterAtWork
    <3>2. \A i \in 0..(write_index - 1) : Filled(len[p], cookies + 1)[i] = cookie_pot[i]
      BY <3>1, FilledCells
    <3> QED BY <3>1, <3>2
  <2>3. CASE CopyInFails(p)
    BY <2>3 DEF CopyInFails
  <2>4. CASE WriteAdvance(p)
    <3>1. len[p] \in Nat /\ write_index \in Nat /\ cookies \in Nat
      BY <1>3
    <3> QED BY <2>4, <3>1, SMTT(30) DEF WriteAdvance, Advanced, Counted
  <2>5. CASE Terminate(p)
    <3>1. faults = 0 => cookie_pot' = cookie_pot
      BY <2>5, TerminatePreservesPot
    <3> QED BY <2>5, <3>1 DEF Terminate
  <2> QED BY <2>1, <2>2, <2>3, <2>4, <2>5 DEF WriterStep
<1>6. ReadTypeOK' /\ ReaderAtWork' /\ ToldBefore'
  BY <1>1, <1>2, <1>3, <1>4, <1>5, ReaderUndisturbed
<1> QED BY <1>2, <1>6 DEF FortuneInv

\* So do the loader's steps, but Load, which clears everything.
LEMMA LoaderPreserves == ASSUME FortuneInv, Loader
                         PROVE  FortuneInv'
<1>1. PotInv /\ ReadTypeOK /\ ReaderAtWork /\ ToldBefore /\ PotTypeOK /\ WriterAtWork
  BY DEF FortuneInv, PotInv
<1>2. PotInv' /\ PotTypeOK'
  BY <1>1, LoaderPreservesPot DEF PotInv
<1>3. CASE Load
  <2>1. /\ read_index' = 0 /\ write_index' = 0 /\ cookies' = 0 /\ told' = 0 /\ known' = 0
        /\ got' = {} /\ offset' = [p \in Proc |-> 0] /\ UNCHANGED <<pc, read_len>>
        /\ \A p \in Proc : pc[p] = "idle"
    BY <1>1, <1>3 DEF Load, WriterAtWork, AllIdle
  <2>2. ReadTypeOK' /\ ReaderAtWork' /\ ToldBefore'
    BY <1>1, <2>1, FortuneAssumption DEF ReadTypeOK, ReaderAtWork, ToldBefore
  <2> QED BY <1>2, <2>2 DEF FortuneInv
<1>4. CASE Initialise \/ InitFails \/ Unload
  <2>1. /\ UNCHANGED <<cookie_pot, write_index, read_index, pc, offset, len, read_len,
                       cookies, told, known, got>>
        /\ faults' = faults \/ faults' = faults + 1
    BY <1>4 DEF Initialise, InitFails, Unload, LoaderGoto
  <2>2. /\ offset' \in [Proc -> Nat] /\ (faults' = 0 => faults = 0)
        /\ write_index <= write_index' /\ cookies <= cookies'
    BY <1>1, <2>1, FortuneAssumption DEF PotTypeOK, ReadTypeOK
  <2>3. ReadTypeOK' /\ ReaderAtWork' /\ ToldBefore'
    BY <1>1, <1>2, <2>1, <2>2, ReaderUndisturbed
  <2> QED BY <1>2, <2>3 DEF FortuneInv
<1> QED BY <1>3, <1>4 DEF Loader


\* So does another open() of the file.
LEMMA OpenPreserves == ASSUME FortuneInv, NEW p \in Proc, Open(p)
                       PROVE  FortuneInv'
<1>1. PotInv /\ ReadTypeOK /\ ReaderAtWork /\ ToldBefore /\ PotTypeOK
  BY DEF FortuneInv, PotInv
<1>2. PotInv' /\ PotTypeOK'
  BY <1>1, ReadersStep DEF PotInv
<1>3. /\ UNCHANGED <<cookie_pot, write_index, read_index, len, read_len,
                     cookies, told, known, got, faults>>
      /\ pc' = pc /\ offset' = [offset EXCEPT ![p] = 0]
  BY <1>1 DEF Open, Goto, PotTypeOK
<1>4. /\ offset' \in [Proc -> Nat] /\ write_index <= write_index' /\ cookies <= cookies'
  BY <1>1, <1>3, FortuneAssumption DEF PotTypeOK, ReadTypeOK
<1>5. ReadTypeOK' /\ ReaderAtWork' /\ ToldBefore'
  BY <1>1, <1>2, <1>3, <1>4, ReaderUndisturbed
<1> QED BY <1>2, <1>5 DEF FortuneInv

\* With one reader, nobody else reads while it does.
LEMMA AloneReading == ASSUME OneReader, ReaderAtWork, NEW p \in Reader
                      PROVE  \A q \in Proc : pc[q] \in Reading => q = p
BY DEF OneReader, ReaderAtWork, Reading

\* A read begins: anew from the first cookie if there is none left, and then
\* all of them have been told.
LEMMA ReadPreserves == ASSUME OneReader, FortuneInv, NEW p \in Reader, Read(p)
                       PROVE  FortuneInv'
<1>1. PotInv /\ ReadTypeOK /\ ReaderAtWork /\ ToldBefore /\ PotTypeOK /\ CookiesInOrder
  BY DEF FortuneInv, PotInv
<1>2. PotInv' /\ PotTypeOK'
  BY <1>1, ReadersStep DEF PotInv, ReaderStep
<1>3. PICK n \in 1..MaxLen : len' = [len EXCEPT ![p] = n]
  BY DEF Read
<1>4. /\ pc' = [pc EXCEPT ![p] = "strlen"] /\ p \in Proc /\ write_index # 0
      /\ UNCHANGED <<cookie_pot, write_index, offset, read_len, cookies, told, got, faults>>
      /\ IF read_index >= write_index THEN read_index' = 0 /\ known' = cookies
                                      ELSE UNCHANGED <<read_index, known>>
  BY DEF Read, Goto, Proc
<1>5. /\ \A q \in Proc : pc[q] \in Reading => q = p
      /\ pc \in [Proc -> {"idle", "copy_in", "advance", "terminate", "strlen", "copy_out",
                          "advance_read"}]
      /\ len \in [Proc -> 0..MaxLen]
      /\ write_index \in 1..POT_SIZE /\ read_index \in Nat /\ cookies \in Nat
      /\ known \in 0..cookies /\ POT_SIZE \in Nat
  BY <1>1, <1>4, AloneReading, FortuneAssumption DEF PotTypeOK, ReadTypeOK
<1>6. /\ pc'[p] = "strlen" /\ len'[p] > 0 /\ \A q \in Proc : pc'[q] \in Reading => q = p
      /\ read_index' \in Nat /\ read_index' < write_index /\ known' \in 0..cookies
  BY <1>3, <1>4, <1>5 DEF Reading
<1>7. ReadTypeOK'
  BY <1>1, <1>4, <1>5, <1>6 DEF ReadTypeOK
<1>8. ReaderAtWork'
  BY <1>4, <1>6 DEF ReaderAtWork, Reading
<1>9. ToldBefore'
  <2> SUFFICES ASSUME faults = 0 PROVE ToldBefore'
    BY <1>4 DEF ToldBefore
  <2>1. CASE read_index < write_index
    <3>1. UNCHANGED <<read_index, known>>
      BY <1>4, <1>5, <2>1
    <3> QED BY <1>1, <1>4, <3>1 DEF ToldBefore
  <2>2. CASE ~(read_index < write_index)
    <3>1. read_index = write_index /\ read_index' = 0 /\ known' = cookies
      BY <1>1, <1>4, <1>5, <2>2 DEF ToldBefore
    <3>2. told \in 0..cookies /\ \A x \in got : got = {x} /\ x \notin {Nul, Junk}
      BY <1>1 DEF ToldBefore
    <3>3. told = cookies
      <4>1. CASE cookies = 0
        BY <3>2, <4>1
      <4>2. CASE cookies # 0
        <5>1. PICK i \in 0..(write_index - 1) : cookie_pot[i] = cookies
          BY <1>1, <1>5, <4>2 DEF CookiesInOrder
        <5>2. cookie_pot[i] <= told
          BY <1>1, <3>1 DEF ToldBefore
        <5> QED BY <1>5, <3>2, <5>1, <5>2
      <4> QED BY <4>1, <4>2
    <3> QED BY <1>4, <1>5, <3>1, <3>2, <3>3 DEF ToldBefore
  <2> QED BY <2>1, <2>2
<1> QED BY <1>2, <1>7, <1>8, <1>9 DEF FortuneInv

\* A step of a read that moves no index.
LEMMA ReadingPreserves ==
  ASSUME OneReader, FortuneInv, NEW p \in Reader, Measure(p) \/ CopyOut(p) \/ CopyOutFails(p)
  PROVE  FortuneInv'
<1>1. PotInv /\ ReadTypeOK /\ ReaderAtWork /\ ToldBefore /\ PotTypeOK /\ CookiesInOrder
  BY DEF FortuneInv, PotInv
<1>2. PotInv' /\ PotTypeOK'
  BY <1>1, ReadersStep DEF PotInv, ReaderStep
<1>3. /\ pc[p] \in Reading /\ p \in Proc
      /\ UNCHANGED <<cookie_pot, write_index, read_index, offset, len, cookies, told, known>>
      /\ faults' = faults \/ faults' = faults + 1
  BY DEF Measure, CopyOut, CopyOutFails, Goto, Proc, Reading
<1>4. /\ \A q \in Proc : pc[q] \in Reading => q = p
      /\ pc \in [Proc -> {"idle", "copy_in", "advance", "terminate", "strlen", "copy_out",
                          "advance_read"}]
      /\ len \in [Proc -> 0..MaxLen] /\ read_len \in [Proc -> 0..MaxLen]
      /\ write_index \in 0..POT_SIZE /\ POT_SIZE \in Nat /\ MaxLen \in Nat
      /\ read_index \in Nat /\ read_index < write_index /\ len[p] > 0 /\ len[p] \in 0..MaxLen
      /\ faults' = 0 => faults = 0
  BY <1>1, <1>3, AloneReading, FortuneAssumption DEF PotTypeOK, ReadTypeOK, ReaderAtWork, Reading
<1>5. CASE Measure(p)
  <2> DEFINE n == StrLen(read_index)
             l == IF n > len[p] THEN len[p] ELSE n
  <2>1. /\ pc' = [pc EXCEPT ![p] = "copy_out"] /\ read_len' = [read_len EXCEPT ![p] = l]
        /\ UNCHANGED <<got, faults>>
    BY <1>5 DEF Measure, Goto
  <2>2. /\ n \in 0..(POT_SIZE - read_index)
        /\ \A m \in read_index..(read_index + n - 1) : cookie_pot[m] # Nul
        /\ read_index + n < POT_SIZE => cookie_pot[read_index + n] = Nul
    <3>1. read_index \in 0..(POT_SIZE - 1)
      BY <1>4
    <3> QED BY <3>1, StrLenCounts
  <2> HIDE DEF n
  <2>3. l \in 0..MaxLen /\ l <= n /\ (l = 0 => n = 0) /\ n \in Nat
    BY <1>4, <2>2
  <2>4. faults = 0 => read_index + n < write_index
    <3>1. faults = 0 => cookie_pot[write_index - 1] = Nul
      BY <1>1, <1>4 DEF CookiesInOrder
    <3>2. faults = 0 => write_index - 1 \notin read_index..(read_index + n - 1)
      BY <2>2, <3>1
    <3> QED BY <1>4, <2>3, <3>2
  <2> HIDE DEF l
  <2>5. /\ pc'[p] = "copy_out" /\ \A q \in Proc : pc'[q] \in Reading => q = p
        /\ read_len'[p] = l /\ read_len' \in [Proc -> 0..MaxLen]
    BY <1>3, <1>4, <2>1, <2>3 DEF Reading
  <2>6. ReadTypeOK'
    BY <1>1, <1>3, <2>5 DEF ReadTypeOK
  <2>7. ReaderAtWork'
    <3>1. read_index + l <= POT_SIZE /\ (faults = 0 => read_index + l < write_index)
      BY <1>4, <2>2, <2>3, <2>4
    <3>2. \A i \in read_index..(read_index + l - 1) : cookie_pot[i] # Nul
      BY <1>4, <2>2, <2>3
    <3>3. l = 0 => cookie_pot[read_index] = Nul
      BY <1>4, <2>2, <2>3
    <3>4. \A q \in Proc : pc'[q] \in {"strlen", "copy_out", "advance_read"} => q = p
      BY <2>5 DEF Reading
    <3> QED BY <1>3, <1>4, <2>1, <2>5, <3>1, <3>2, <3>3, <3>4 DEF ReaderAtWork
  <2>8. ToldBefore'
    BY <1>1, <1>3, <2>1 DEF ToldBefore
  <2> QED BY <1>2, <2>6, <2>7, <2>8 DEF FortuneInv
<1>6. CASE CopyOut(p)
  <2>1. /\ pc[p] = "copy_out" /\ pc' = [pc EXCEPT ![p] = "advance_read"]
        /\ got' = {cookie_pot[i] : i \in read_index..(read_index + read_len[p] - 1)}
        /\ UNCHANGED <<read_len, faults>>
    BY <1>6 DEF CopyOut, Goto
  <2>2. /\ pc'[p] = "advance_read" /\ \A q \in Proc : pc'[q] \in Reading => q = p
    BY <1>3, <1>4, <2>1 DEF Reading
  <2>3. ReadTypeOK'
    BY <1>1, <1>3, <2>1 DEF ReadTypeOK
  <2>4. ReaderAtWork'
    <3>1. \A q \in Proc : pc'[q] \in {"strlen", "copy_out", "advance_read"} => q = p
      BY <2>2 DEF Reading
    <3> QED BY <1>1, <1>3, <2>1, <2>2, <3>1 DEF ReaderAtWork
  <2>5. faults = 0 => \A x \in got' : got' = {x} /\ x \notin {Nul, Junk}
    <3> SUFFICES ASSUME faults = 0, NEW x \in got' PROVE got' = {x} /\ x \notin {Nul, Junk}
      OBVIOUS
    <3>1. /\ read_index + read_len[p] < write_index /\ read_len[p] \in Nat
          /\ \A i \in read_index..(read_index + read_len[p] - 1) : cookie_pot[i] # Nul
      BY <1>1, <1>3, <1>4, <2>1 DEF ReaderAtWork
    <3>2. \A i \in read_index..(read_index + read_len[p] - 1) : i \in 0..(write_index - 1)
      BY <1>4, <3>1
    <3>3. ASSUME NEW i \in read_index..(read_index + read_len[p] - 1),
                 NEW j \in read_index..(read_index + read_len[p] - 1), i < j
          PROVE  cookie_pot[i] = cookie_pot[j]
      <4>1. \A m \in i..j : cookie_pot[m] # Nul
        BY <1>4, <3>1
      <4>2. i \in i..j /\ j \in i..j
        BY <1>4, <3>1, <3>3
      <4> QED BY <1>1, <3>2, <3>3, <4>1, <4>2 DEF CookiesInOrder
    <3>4. \A i, j \in read_index..(read_index + read_len[p] - 1) : cookie_pot[i] = cookie_pot[j]
      BY <1>4, <3>1, <3>3
    <3>5. PICK i \in read_index..(read_index + read_len[p] - 1) : x = cookie_pot[i]
      BY <2>1
    <3>6. x # Nul /\ x \in 0..cookies
      BY <1>1, <3>1, <3>2, <3>5 DEF CookiesInOrder
    <3>7. x # Junk
      BY <1>1, <3>6 DEF PotTypeOK, Junk
    <3>8. got' = {x}
      BY <2>1, <3>4, <3>5
    <3> QED BY <3>6, <3>7, <3>8
  <2>6. ToldBefore'
    BY <1>1, <1>3, <2>1, <2>5 DEF ToldBefore
  <2> QED BY <1>2, <2>3, <2>4, <2>6 DEF FortuneInv
<1>7. CASE CopyOutFails(p)
  <2>1. UNCHANGED <<read_len, got>> /\ pc' = [pc EXCEPT ![p] = "idle"]
    BY <1>7 DEF CopyOutFails, Goto
  <2>2. /\ \A q \in Proc : pc'[q] \in Reading => pc'[q] = pc[q] /\ len'[q] = len[q]
        /\ offset' \in [Proc -> Nat] /\ write_index <= write_index' /\ cookies <= cookies'
    BY <1>1, <1>3, <1>4, <2>1 DEF Reading, ReadTypeOK, PotTypeOK
  <2>3. ReadTypeOK' /\ ReaderAtWork' /\ ToldBefore'
    BY <1>1, <1>2, <1>3, <1>4, <2>1, <2>2, ReaderUndisturbed
  <2> QED BY <1>2, <2>3 DEF FortuneInv
<1> QED BY <1>5, <1>6, <1>7

\* The cookie at read_index is the one told last, whose rest it may be, the next
\* one, or the first after reading began anew; what is read with it is its own.
LEMMA NextCookie ==
  ASSUME FortuneInv, faults = 0, NEW p \in Proc, pc[p] = "advance_read", read_len[p] > 0
  PROVE  LET v == cookie_pot[read_index] IN
         /\ v \in 1..cookies /\ (v \in {told, told + 1} \/ (v = 1 /\ told = known))
         /\ \A i \in 0..(read_index - 1) : cookie_pot[i] <= v
         /\ \A i \in read_index..(read_index + read_len[p]) : cookie_pot[i] \in {Nul, v}
<1> DEFINE v == cookie_pot[read_index]
<1>1. CookiesInOrder /\ ReaderAtWork /\ ToldBefore /\ PotTypeOK /\ ReadTypeOK
  BY DEF FortuneInv, PotInv
<1>2. /\ read_index \in Nat /\ read_len[p] \in Nat /\ write_index \in Nat /\ cookies \in Nat
      /\ read_index + read_len[p] < write_index
      /\ \A i \in read_index..(read_index + read_len[p] - 1) : cookie_pot[i] # Nul
  BY <1>1, FortuneAssumption DEF PotTypeOK, ReadTypeOK, ReaderAtWork
<1>3. /\ \A i \in 0..(write_index - 1) : cookie_pot[i] \in 0..cookies
      /\ \A k \in 1..cookies : \E i \in 0..(write_index - 1) : cookie_pot[i] = k
  BY <1>1 DEF CookiesInOrder
<1>4. read_index \in 0..(write_index - 1) /\ v # Nul /\ v \in 0..cookies /\ v \in 1..cookies
  BY <1>2, <1>3 DEF Nul
<1>5. ASSUME NEW i \in 0..(write_index - 1), NEW j \in 0..(write_index - 1), i < j,
             cookie_pot[i] # Nul, cookie_pot[j] # Nul
      PROVE  cookie_pot[i] <= cookie_pot[j]
  <2>1. cookie_pot[i] < cookie_pot[j] \/ cookie_pot[i] = cookie_pot[j]
    BY <1>1, <1>5 DEF CookiesInOrder
  <2>2. cookie_pot[i] \in Int /\ cookie_pot[j] \in Int
    BY <1>3
  <2> QED BY <2>1, <2>2
<1>6. \A i \in 0..(read_index - 1) : cookie_pot[i] <= v
  <2> SUFFICES ASSUME NEW i \in 0..(read_index - 1) PROVE cookie_pot[i] <= v
    OBVIOUS
  <2>1. i \in 0..(write_index - 1) /\ i < read_index
    BY <1>2
  <2>2. CASE cookie_pot[i] = Nul
    BY <1>4, <2>2 DEF Nul
  <2>3. CASE cookie_pot[i] # Nul
    BY <1>4, <1>5, <2>1, <2>3
  <2> QED BY <2>2, <2>3
<1>7. \A i \in read_index..(read_index + read_len[p]) : cookie_pot[i] \in {Nul, v}
  <2> SUFFICES ASSUME NEW i \in read_index..(read_index + read_len[p]),
                      i # read_index, cookie_pot[i] # Nul
               PROVE  cookie_pot[i] = v
    OBVIOUS
  <2>1. read_index < i /\ i \in 0..(write_index - 1)
    BY <1>2
  <2>2. \A m \in read_index..i : cookie_pot[m] # Nul
    BY <1>2
  <2> QED BY <1>1, <1>4, <2>1, <2>2 DEF CookiesInOrder
<1>8. told \in 0..cookies /\ \A i \in 0..(read_index - 1) : cookie_pot[i] <= told
  BY <1>1 DEF ToldBefore
<1> HIDE DEF v
<1>9. ASSUME NEW k \in 1..cookies, k < v
      PROVE  \E i \in 0..(read_index - 1) : cookie_pot[i] = k
  <2>1. PICK i \in 0..(write_index - 1) : cookie_pot[i] = k
    BY <1>3
  <2>2. k # Nul
    BY DEF Nul
  <2>3. i # read_index
    BY <1>4, <1>9, <2>1 DEF v
  <2>4. ~(read_index < i)
    BY <1>4, <1>5, <1>9, <2>1, <2>2 DEF v
  <2>5. i \in 0..(read_index - 1)
    BY <1>2, <2>3, <2>4
  <2> QED BY <2>1, <2>5
<1>10. v \in {told, told + 1} \/ (v = 1 /\ told = known)
  <2>1. CASE \E i \in 0..(read_index - 1) : cookie_pot[i] = told
    <3>1. told <= v
      BY <1>6, <2>1
    <3>2. ~(told + 1 < v)
      <4> SUFFICES ASSUME told + 1 < v PROVE FALSE
        OBVIOUS
      <4>1. told + 1 \in 1..cookies
        BY <1>2, <1>4, <1>8
      <4>2. PICK i \in 0..(read_index - 1) : cookie_pot[i] = told + 1
        BY <1>9, <4>1
      <4>3. told + 1 <= told
        BY <1>8, <4>2
      <4> QED BY <1>8, <4>3
    <3> QED BY <1>4, <1>8, <3>1, <3>2
  <2>2. CASE told = known /\ \A i \in 0..(read_index - 1) : cookie_pot[i] = Nul
    <3>1. ~(1 < v)
      <4> SUFFICES ASSUME 1 < v PROVE FALSE
        OBVIOUS
      <4>1. 1 \in 1..cookies
        BY <1>2, <1>4
      <4>2. PICK i \in 0..(read_index - 1) : cookie_pot[i] = 1
        BY <1>9, <4>1
      <4> QED BY <2>2, <4>2 DEF Nul
    <3> QED BY <1>4, <2>2, <3>1
  <2> QED BY <1>1, <2>1, <2>2 DEF ToldBefore
<1> QED BY <1>4, <1>6, <1>7, <1>10 DEF v

LEMMA ReadAdvancePreserves ==
  ASSUME OneReader, FortuneInv, NEW p \in Reader, ReadAdvance(p)
  PROVE  FortuneInv'
<1> DEFINE l == read_len[p]
           v == cookie_pot[read_index]
<1>1. PotInv /\ ReadTypeOK /\ ReaderAtWork /\ ToldBefore /\ PotTypeOK /\ CookiesInOrder
  BY DEF FortuneInv, PotInv
<1>2. PotInv' /\ PotTypeOK'
  BY <1>1, ReadersStep DEF PotInv, ReaderStep
<1>3. /\ pc[p] = "advance_read" /\ pc' = [pc EXCEPT ![p] = "idle"] /\ p \in Proc
      /\ read_index' = read_index + l + 1 /\ offset' = [offset EXCEPT ![p] = offset[p] + l]
      /\ told' = (IF l > 0 THEN v ELSE told)
      /\ UNCHANGED <<cookie_pot, write_index, len, read_len, cookies, known, got, faults>>
  BY DEF ReadAdvance, Goto, Advanced, Proc
<1>4. /\ l \in Nat /\ read_index \in Nat /\ POT_SIZE \in Nat /\ write_index \in Nat
      /\ read_index + l <= POT_SIZE /\ offset[p] \in Nat
      /\ faults = 0 => read_index + l < write_index /\ (l = 0 => v = Nul)
  BY <1>1, <1>3, FortuneAssumption DEF ReadTypeOK, PotTypeOK, ReaderAtWork
<1>5. l > 0 /\ faults = 0 =>
        /\ v \in 1..cookies
        /\ \A i \in 0..(read_index - 1) : cookie_pot[i] <= v
        /\ \A i \in read_index..(read_index + l) : cookie_pot[i] \in {Nul, v}
  BY <1>3, NextCookie
<1> HIDE DEF l, v
<1>6. ReadTypeOK'
  <2>1. read_index' \in 0..(POT_SIZE + 1) /\ offset[p] + l \in Nat
    BY <1>3, <1>4
  <2> QED BY <1>1, <1>3, <2>1 DEF ReadTypeOK
<1>7. ReaderAtWork'
  <2>1. \A q \in Proc : pc'[q] \notin Reading
    BY <1>1, <1>3, AloneReading DEF PotTypeOK, Reading
  <2> QED BY <2>1 DEF ReaderAtWork, Reading
<1>8. ToldBefore'
  <2> SUFFICES ASSUME faults = 0 PROVE ToldBefore'
    BY <1>3 DEF ToldBefore
  <2>1. /\ read_index' <= write_index
        /\ \A i \in 0..(read_index' - 1) :
             i \in 0..(read_index - 1) \/ i \in read_index..(read_index + l)
    BY <1>3, <1>4
  <2>2. CASE l > 0
    <3>1. told' = v /\ told' \in 0..cookies /\ told' # Nul /\ v \in Nat
      BY <1>3, <1>5, <2>2 DEF Nul
    <3>2. \A i \in 0..(read_index' - 1) : cookie_pot[i] <= v
      BY <1>5, <2>1, <2>2, <3>1 DEF Nul
    <3>3. read_index \in 0..(read_index' - 1)
      BY <1>3, <1>4
    <3> QED BY <1>1, <1>3, <2>1, <3>1, <3>2, <3>3 DEF ToldBefore, v
  <2>3. CASE ~(l > 0)
    <3>1. l = 0 /\ told' = told /\ v = Nul
      BY <1>3, <1>4, <2>3
    <3>2. read_index' - 1 = read_index /\ \A i \in 0..read_index :
            i \in 0..(read_index - 1) \/ (i = read_index /\ cookie_pot[i] = Nul)
      BY <1>3, <1>4, <3>1 DEF v
    <3>3. told \in Nat /\ \A i \in 0..(read_index - 1) : i \in 0..read_index
      BY <1>1, <1>4 DEF ToldBefore, PotTypeOK
    <3>4. \A i \in 0..read_index : cookie_pot[i] <= told
      BY <1>1, <3>2, <3>3 DEF ToldBefore, Nul
    <3>5. \/ \E i \in 0..read_index : cookie_pot[i] = told /\ told # Nul
          \/ told = known /\ \A i \in 0..read_index : cookie_pot[i] = Nul
      BY <1>1, <3>2, <3>3 DEF ToldBefore
    <3> QED BY <1>1, <1>3, <2>1, <3>1, <3>2, <3>4, <3>5 DEF ToldBefore
  <2> QED BY <2>2, <2>3
<1> QED BY <1>2, <1>6, <1>7, <1>8 DEF FortuneInv

LEMMA NextPreserves == ASSUME OneWriter, OneReader, FortuneInv, [Next]_vars
                       PROVE  FortuneInv'
<1>1. ASSUME NEW p \in Reader, ReaderStep(p) PROVE FortuneInv'
  BY <1>1, ReadPreserves, ReadingPreserves, ReadAdvancePreserves DEF ReaderStep
<1>2. CASE UNCHANGED vars
  <2>1. PotInv' /\ PotTypeOK' /\ PotTypeOK
    BY <1>2, NextPreservesPot DEF FortuneInv, PotInv
  <2>2. /\ UNCHANGED <<read_index, read_len, told, known, got, offset, write_index, cookies,
                       pc, len, faults, cookie_pot>>
    BY <1>2 DEF vars
  <2>3. offset' \in [Proc -> Nat] /\ write_index <= write_index' /\ cookies <= cookies'
    BY <2>1, <2>2, FortuneAssumption DEF FortuneInv, ReadTypeOK, PotTypeOK
  <2>4. ReadTypeOK' /\ ReaderAtWork' /\ ToldBefore'
    BY <2>1, <2>2, <2>3, ReaderUndisturbed DEF FortuneInv
  <2> QED BY <2>1, <2>4 DEF FortuneInv
<1> QED BY <1>1, <1>2, LoaderPreserves, WriterPreserves, OpenPreserves DEF Next

\* One reader beside one writer: both stay within the pot and its row.
THEOREM FortuneInductive == ASSUME OneWriter, OneReader PROVE Spec => []FortuneInv
<1>1. FortuneInv /\ [Next]_vars => FortuneInv'
  BY NextPreserves
<1> QED BY <1>1, InitEstablishes, PTL DEF Spec

\* What a read gives is of one cookie, and none of it junk.
THEOREM ReadsWholeCookies == ASSUME OneWriter, OneReader PROVE Spec => []WholeCookies
<1>1. FortuneInv => WholeCookies
  <2> SUFFICES ASSUME ToldBefore, faults = 0 PROVE WholeCookies
    BY DEF FortuneInv, WholeCookies
  <2>1. CASE got = {}
    BY <2>1, FS_EmptySet DEF WholeCookies, ToldBefore
  <2>2. CASE got # {}
    <3>1. PICK x \in got : got = {x} /\ x \notin {Nul, Junk}
      BY <2>2 DEF ToldBefore
    <3>2. Cardinality(got) = 1
      BY <3>1, FS_Singleton
    <3> QED BY <3>1, <3>2 DEF WholeCookies, ToldBefore
  <2> QED BY <2>1, <2>2
<1> QED BY <1>1, FortuneInductive, PTL

\* From one read to the next: no cookie is passed over or told again, before
\* the last there was has been reached.
THEOREM CookiesToldInOrder == ASSUME OneWriter, OneReader PROVE Spec => ToldInOrder
<1> DEFINE InTurn == faults' = 0 /\ loads' = loads =>
                       told' \in {told, told + 1} \/ (told' = 1 /\ told = known)
<1>1. ASSUME FortuneInv, Next PROVE InTurn
  <2>2. CASE Loader
    BY <1>1, <2>2 DEF Loader, Load, Initialise, InitFails, Unload, LoaderGoto, FortuneInv,
       PotInv, PotTypeOK
  <2>3. ASSUME NEW p \in Writer, WriterStep(p) PROVE InTurn
    BY <2>3 DEF WriterStep, Write, CopyIn, CopyInFails, WriteAdvance, Terminate
  <2>4. ASSUME NEW p \in Reader, ReaderStep(p), ~ReadAdvance(p) PROVE InTurn
    BY <2>4 DEF ReaderStep, Read, Measure, CopyOut, CopyOutFails
  <2>5. ASSUME NEW p \in Reader, ReadAdvance(p) PROVE InTurn
    <3>1. CASE read_len[p] > 0 /\ faults' = 0
      BY <1>1, <2>5, <3>1, NextCookie DEF ReadAdvance, Goto, Proc
    <3>2. CASE ~(read_len[p] > 0 /\ faults' = 0)
      BY <2>5, <3>2 DEF ReadAdvance
    <3> QED BY <3>1, <3>2
  <2>6. ASSUME NEW p \in Proc, Open(p) PROVE InTurn
    BY <2>6 DEF Open
  <2> QED BY <1>1, <2>2, <2>3, <2>4, <2>5, <2>6 DEF Next
<1>2. FortuneInv /\ [Next]_vars => [InTurn]_vars
  BY <1>1
<1> QED BY <1>2, FortuneInductive, PTL DEF ToldInOrder, Spec

=============================================================================
