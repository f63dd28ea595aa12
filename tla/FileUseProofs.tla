--------------------------- MODULE FileUseProofs ---------------------------
(***************************************************************************)
(* Theorems about ProcReader and FileIO.                                   *)
(*                                                                         *)
(* ProcReader, for any number of pids and any files: what is read, named   *)
(* and killed for a program whose pid nobody took is that program          *)
(* (ReaderInv).                                                            *)
(*                                                                         *)
(* FileIO, for an alphabet of any even length, buffers of any size, and    *)
(* every interleaving of the threads: which letters are printed, and what  *)
(* two writers leave (FileInv).                                            *)
(***************************************************************************)
EXTENDS ProcReader, FileIO, FiniteSetTheorems, SequenceTheorems, TLAPS

-----------------------------------------------------------------------------
(* ProcReader                                                              *)

USE DEF Free, Other, Nobody, Old, Empty, Mixed

\* The three names, and the files.
LEMMA Names ==
  /\ Prog = {"mt", "mp", "ftw"} /\ Len(PROG_NAMES) = 3 /\ DOMAIN PROG_NAMES = 1..3
  /\ \A k \in 1..3 : PROG_NAMES[k] \in Prog
  /\ \A n \in Prog : \E k \in 1..3 : n = PROG_NAMES[k]
  /\ \A j, k \in 1..3 : PROG_NAMES[j] = PROG_NAMES[k] => j = k
<1>1. /\ Len(PROG_NAMES) = 3 /\ DOMAIN PROG_NAMES = 1..3
      /\ PROG_NAMES[1] = "mt" /\ PROG_NAMES[2] = "mp" /\ PROG_NAMES[3] = "ftw"
  BY DEF PROG_NAMES
<1>2. 1..3 = {1, 2, 3}
  OBVIOUS
<1>3. Prog = {PROG_NAMES[k] : k \in 1..3}
  BY <1>1 DEF Prog, Range
<1> HIDE DEF PROG_NAMES, Prog
<1> QED  BY <1>1, <1>2, <1>3

LEMMA FilesTyped ==
  /\ Len(Files) \in Nat /\ DOMAIN Files = 1..Len(Files) /\ Len(Files) > 0
  /\ File = {Files[m] : m \in 1..Len(Files)}
<1>1. Len(Files) \in Nat /\ DOMAIN Files = 1..Len(Files)
  BY ReaderAssumption
<1>2. File = {Files[m] : m \in 1..Len(Files)}
  BY <1>1 DEF File, Range
<1>3. Len(Files) > 0
  BY <1>1, <1>2, ReaderAssumption
<1> QED  BY <1>1, <1>2, <1>3

\* What the lists say once main() runs.
LEMMA MainsPid ==
  ASSUME ReaderTypeOK, ListsInStep, pc \in {"mkdir", "print", "kill"}
  PROVE  /\ pid \in Pid /\ pid # 0 /\ pid = PIDS[i] /\ i \in DOMAIN PIDS
         /\ DOMAIN PIDS = 1..3 /\ VALID_PIDS = PIDS
         /\ \A k \in 1..3 : PIDS[k] \in Pid /\ PIDS[k] # 0
<1>1. /\ Len(VALID_PIDS) = 3 /\ Len(PIDS) = 3 /\ Passed = 3
      /\ \A k \in 1..3 : VALID_PIDS[k] = PIDS[k]
  BY DEF ListsInStep, Passed
<1>2. VALID_PIDS \in Seq(Pid) /\ PIDS \in Seq(Pid \cup {0}) /\ i \in 1..3
  BY DEF ReaderTypeOK
<1>3. DOMAIN VALID_PIDS = 1..3 /\ DOMAIN PIDS = 1..3
  BY <1>1, <1>2
<1>4. \A k \in 1..3 : VALID_PIDS[k] \in Pid
  BY <1>1, <1>2, ElementOfSeq
<1>5. VALID_PIDS = PIDS
  <2>1. VALID_PIDS \in Seq(Pid \cup {0})
    BY <1>1, <1>2, <1>4
  <2> QED  BY <1>1, <1>2, <2>1, SeqEqual
<1> QED  BY <1>1, <1>2, <1>3, <1>4, <1>5, ReaderAssumption DEF pid

\* A pid that is given is free, and in use thereafter.
LEMMA Forked ==
  ASSUME NEW who, Fork(who), ReaderTypeOK
  PROVE  /\ last' \in Pid /\ owner[last'] = Free /\ owner'[last'] = who
         /\ \A p \in Pid \ {last'} : owner'[p] = owner[p]
         /\ owner' = [owner EXCEPT ![last'] = who]
  BY DEF Fork, ReaderTypeOK

-----------------------------------------------------------------------------
(* Types.                                                                  *)

LEMMA InitTyped == ReaderInit => ReaderTypeOK
<1> SUFFICES ASSUME ReaderInit  PROVE ReaderTypeOK
  OBVIOUS
<1>1. last \in Pid
  BY ReaderAssumption DEF ReaderInit
<1>2. /\ PIDS \in Seq(Pid \cup {0}) /\ VALID_PIDS \in Seq(Pid)
      /\ owner \in [Pid -> Prog \cup {Other, Free}] /\ zombie \subseteq Pid /\ dirs \subseteq Pid
  BY DEF ReaderInit
<1>3. /\ holds \in [Pid -> [File -> Prog \cup {Nobody, Old, Empty, Mixed, Other}]]
      /\ vsize \in [{"stat", "maps"} -> Prog \cup {Nobody, Empty, Other}]
      /\ named \in [Prog -> [File -> Prog \cup {Nobody, Old, Empty, Mixed, Other}]]
  BY DEF ReaderInit, Untouched
<1>4. /\ found \subseteq Needed /\ pc = "start" /\ i \in 1..3 /\ f \in 1..Len(Files)
      /\ ended \subseteq Prog /\ killed \subseteq Prog \cup {Other}
      /\ others \in 0..MaxOthers /\ fails \in 0..MaxFails
  BY FilesTyped, ReaderAssumption DEF ReaderInit
<1> QED  BY <1>1, <1>2, <1>3, <1>4 DEF ReaderTypeOK

LEMMA StepTyped == ReaderTypeOK /\ ListsInStep /\ [Next]_vars => ReaderTypeOK'
<1> SUFFICES ASSUME ReaderTypeOK, ListsInStep, [Next]_vars  PROVE ReaderTypeOK'
  OBVIOUS
<1> USE DEF ReaderTypeOK
<1>1. CASE StartProgram
  <2>1. i' \in 1..3 /\ pc' \in {"start", "filter"}
    BY <1>1 DEF StartProgram, NextRound
  <2>2. CASE PROG_NAMES[i] \notin found
    <3>1. PIDS' = Append(PIDS, 0) /\ owner' = owner /\ last' = last
      BY <1>1, <2>2 DEF StartProgram
    <3>2. PIDS' \in Seq(Pid \cup {0})
      BY <3>1
    <3> QED  BY <1>1, <2>1, <3>1, <3>2 DEF StartProgram
  <2>3. CASE PROG_NAMES[i] \in found
    <3>1. Fork(PROG_NAMES[i]) /\ PIDS' = Append(PIDS, last')
      BY <1>1, <2>3 DEF StartProgram
    <3>2. PROG_NAMES[i] \in Prog
      BY Names
    <3>3. last' \in Pid /\ owner' = [owner EXCEPT ![last'] = PROG_NAMES[i]]
      BY <3>1, Forked
    <3>4. PIDS' \in Seq(Pid \cup {0})
      BY <3>1, <3>3
    <3>5. owner' \in [Pid -> Prog \cup {Other, Free}]
      BY <3>2, <3>3
    <3> QED  BY <1>1, <2>1, <3>3, <3>4, <3>5 DEF StartProgram
  <2> QED  BY <2>2, <2>3
<1>2. CASE Filter
  <2>1. PIDS[i] \in Pid \cup {0}
    <3>1. i \in DOMAIN PIDS
      BY <1>2 DEF Filter, ListsInStep
    <3> QED  BY <3>1
  <2>2. VALID_PIDS' \in Seq(Pid)
    BY <1>2, <2>1 DEF Filter
  <2>3. i' \in 1..3 /\ pc' \in {"filter", "done", "mkdir", "move"}
    BY <1>2 DEF Filter, NextRound
  <2> QED  BY <1>2, <2>2, <2>3 DEF Filter
<1>3. CASE MakeDirectory
  <2>1. pid \in Pid
    BY <1>3, MainsPid DEF MakeDirectory
  <2>2. i' \in 1..3 /\ pc' \in {"mkdir", "print", "move"} /\ dirs' \subseteq Pid
    BY <1>3, <2>1 DEF MakeDirectory, NextRound
  <2>3. fails' \in 0..MaxFails
    BY <1>3, ReaderAssumption DEF MakeDirectory
  <2>4. f' \in 1..Len(Files) /\ vsize' \in [{"stat", "maps"} -> Prog \cup {Nobody, Empty, Other}]
    BY <1>3, FilesTyped DEF MakeDirectory
  <2> QED  BY <1>3, <2>2, <2>3, <2>4 DEF MakeDirectory
<1>4. CASE PrintFile
  <2> DEFINE x == Files[f]
             calculated == IF vsize["stat"] = vsize["maps"] THEN vsize["stat"] ELSE Mixed
             tells == CASE x = "calculations" -> calculated
                        [] x \in Links /\ owner[pid] = Free -> Empty
                        [] OTHER -> Reading
  <2>1. pid \in Pid /\ x \in File
    BY <1>4, MainsPid, FilesTyped DEF PrintFile
  <2>2. Reading \in Prog \cup {Other, Free, Empty}
    BY <2>1 DEF Reading
  <2>3. calculated \in Prog \cup {Nobody, Empty, Other, Mixed}
    OBVIOUS
  <2>4. /\ tells \in Prog \cup {Nobody, Empty, Other, Mixed, Free}
        /\ x # "calculations" => tells \in Prog \cup {Empty, Other, Free}
    <3> HIDE DEF calculated, x
    <3>1. x = "calculations" => x \notin Links
      BY ReaderAssumption
    <3>2. CASE x = "calculations"
      BY <2>3, <3>1, <3>2
    <3>3. CASE x # "calculations"
      BY <2>2, <3>3
    <3> QED  BY <3>2, <3>3
  <2>5. /\ holds' = IF tells = Free THEN holds ELSE [holds EXCEPT ![pid][x] = tells]
        /\ vsize' = IF x \in DOMAIN vsize /\ tells # Free
                    THEN [vsize EXCEPT ![x] = tells] ELSE vsize
    BY <1>4 DEF PrintFile
  <2> HIDE DEF x, calculated, tells
  <2>6. holds' \in [Pid -> [File -> Prog \cup {Nobody, Old, Empty, Mixed, Other}]]
    BY <2>1, <2>4, <2>5
  <2>7. vsize' \in [{"stat", "maps"} -> Prog \cup {Nobody, Empty, Other}]
    BY <2>4, <2>5
  <2>8. f' \in 1..Len(Files) /\ pc' \in {"print", "kill"}
    BY <1>4, FilesTyped DEF PrintFile
  <2> QED  BY <1>4, <2>6, <2>7, <2>8 DEF PrintFile
<1>5. CASE Kill
  <2>1. pid \in Pid
    BY <1>5, MainsPid DEF Kill
  <2>2. /\ killed' \subseteq Prog \cup {Other} /\ zombie' \subseteq Pid
        /\ owner' \in [Pid -> Prog \cup {Other, Free}]
    BY <1>5, <2>1 DEF Kill, Strike
  <2>3. i' \in 1..3 /\ pc' \in {"mkdir", "move"}
    BY <1>5 DEF Kill, NextRound
  <2> QED  BY <1>5, <2>2, <2>3 DEF Kill
<1>6. CASE Move
  <2>1. i' \in 1..3 /\ pc' \in {"move", "done"}
    BY <1>6 DEF Move, NextRound
  <2>2. CASE "sudo" \in found /\ i <= Len(VALID_PIDS) /\ VALID_PIDS[i] \in dirs
    <3>1. PROG_NAMES[i] \in Prog /\ VALID_PIDS[i] \in Pid
      BY <2>2, Names
    <3>2. /\ dirs' = dirs \ {VALID_PIDS[i]}
          /\ named' = [named EXCEPT ![PROG_NAMES[i]] = holds[VALID_PIDS[i]]]
          /\ holds' = [holds EXCEPT ![VALID_PIDS[i]] = Untouched]
      BY <1>6, <2>2 DEF Move
    <3>3. Untouched \in [File -> Prog \cup {Nobody, Old, Empty, Mixed, Other}]
      BY DEF Untouched
    <3>4. /\ named' \in [Prog -> [File -> Prog \cup {Nobody, Old, Empty, Mixed, Other}]]
          /\ holds' \in [Pid -> [File -> Prog \cup {Nobody, Old, Empty, Mixed, Other}]]
      BY <3>1, <3>2, <3>3
    <3> QED  BY <1>6, <2>1, <3>2, <3>4 DEF Move
  <2>3. CASE ~("sudo" \in found /\ i <= Len(VALID_PIDS) /\ VALID_PIDS[i] \in dirs)
    BY <1>6, <2>1, <2>3 DEF Move
  <2> QED  BY <2>2, <2>3
<1>7. CASE End
  BY <1>7 DEF End
<1>8. CASE Reap
  BY <1>8 DEF Reap
<1>9. CASE Appear
  <2>1. owner' \in [Pid -> Prog \cup {Other, Free}] /\ last' \in Pid
    BY <1>9, Forked DEF Appear
  <2>2. others' \in 0..MaxOthers
    BY <1>9, ReaderAssumption DEF Appear
  <2> QED  BY <1>9, <2>1, <2>2 DEF Appear
<1>10. CASE UNCHANGED vars
  BY <1>10 DEF vars
<1> QED  BY <1>1, <1>2, <1>3, <1>4, <1>5, <1>6, <1>7, <1>8, <1>9, <1>10 DEF Next, Script

-----------------------------------------------------------------------------
(* The lists and the owners of the pids.                                   *)

LEMMA StepLists == ReaderTypeOK /\ ListsInStep /\ [Next]_vars => ListsInStep'
<1> SUFFICES ASSUME ReaderTypeOK, ListsInStep, [Next]_vars  PROVE ListsInStep'
  OBVIOUS
<1>0. /\ i \in 1..3 /\ PIDS \in Seq(Pid \cup {0}) /\ VALID_PIDS \in Seq(Pid)
      /\ pc \in {"start", "filter", "mkdir", "print", "kill", "move", "done"}
  BY DEF ReaderTypeOK
<1>1. CASE StartProgram
  <2>1. PICK x \in Pid \cup {0} : PIDS' = Append(PIDS, x) /\ (x = 0 <=> PROG_NAMES[i] \notin found)
    <3>1. CASE PROG_NAMES[i] \notin found
      BY <1>1, <3>1 DEF StartProgram
    <3>2. CASE PROG_NAMES[i] \in found
      <4>1. Fork(PROG_NAMES[i]) /\ PIDS' = Append(PIDS, last')
        BY <1>1, <3>2 DEF StartProgram
      <4>2. last' \in Pid /\ last' # 0
        BY <4>1, Forked, ReaderAssumption
      <4> QED  BY <3>2, <4>1, <4>2
    <3> QED  BY <3>1, <3>2
  <2>2. /\ pc = "start" /\ Len(PIDS) = i - 1 /\ Passed = 0 /\ Len(VALID_PIDS) = 0
        /\ found' = found /\ VALID_PIDS' = VALID_PIDS
        /\ IF i < 3 THEN i' = i + 1 /\ pc' = "start" ELSE i' = 1 /\ pc' = "filter"
    BY <1>0, <1>1 DEF StartProgram, NextRound, ListsInStep, Passed
  <2>3. /\ Len(PIDS') = i /\ PIDS'[i] = x /\ \A k \in 1..(i - 1) : PIDS'[k] = PIDS[k]
        /\ DOMAIN PIDS' = 1..i /\ DOMAIN PIDS = 1..(i - 1)
    BY <1>0, <2>1, <2>2
  <2>4. \A k \in DOMAIN PIDS' : PIDS'[k] = 0 <=> PROG_NAMES[k] \notin found'
    BY <1>0, <2>1, <2>2, <2>3 DEF ListsInStep
  <2>5. Passed' = 0 /\ Len(PIDS') = IF pc' = "start" THEN i' - 1 ELSE 3
    BY <1>0, <2>2, <2>3 DEF Passed
  <2> QED  BY <2>2, <2>4, <2>5 DEF ListsInStep
<1>2. CASE Filter
  <2>1. /\ pc = "filter" /\ Len(PIDS) = 3 /\ Passed = i - 1 /\ i \in DOMAIN PIDS
        /\ PIDS' = PIDS /\ found' = found
        /\ VALID_PIDS' = IF PIDS[i] = 0 THEN VALID_PIDS ELSE Append(VALID_PIDS, PIDS[i])
    BY <1>0, <1>2 DEF Filter, ListsInStep, Passed
  <2>2. /\ Len(VALID_PIDS) \in 0..(i - 1) /\ (Prog \subseteq found => Len(VALID_PIDS) = i - 1)
        /\ Len(VALID_PIDS) = i - 1 => \A k \in 1..(i - 1) : VALID_PIDS[k] = PIDS[k]
        /\ PIDS[i] = 0 <=> PROG_NAMES[i] \notin found
        /\ PIDS[i] \in Pid \cup {0}
    <3>1. PIDS[i] \in Pid \cup {0} /\ Len(VALID_PIDS) \in Nat
      <4>1. i \in DOMAIN PIDS
        BY <2>1
      <4> QED  BY <1>0, <4>1
    <3>2. /\ Len(VALID_PIDS) <= i - 1 /\ (Prog \subseteq found => Len(VALID_PIDS) = i - 1)
          /\ Len(VALID_PIDS) = i - 1 => \A k \in 1..(i - 1) : VALID_PIDS[k] = PIDS[k]
      BY <2>1 DEF ListsInStep
    <3>3. PIDS[i] = 0 <=> PROG_NAMES[i] \notin found
      BY <2>1 DEF ListsInStep
    <3> QED  BY <1>0, <3>1, <3>2, <3>3
  <2>3. /\ Len(VALID_PIDS') \in 0..i /\ (Prog \subseteq found => Len(VALID_PIDS') = i)
        /\ Len(VALID_PIDS') = i => \A k \in 1..i : VALID_PIDS'[k] = PIDS[k]
    <3>1. CASE PIDS[i] = 0
      <4>1. ~(Prog \subseteq found)
        BY <1>0, <2>2, <3>1, Names
      <4> QED  BY <1>0, <2>1, <2>2, <3>1, <4>1
    <3>2. CASE PIDS[i] # 0
      BY <1>0, <2>1, <2>2, <3>2
    <3> QED  BY <3>1, <3>2
  <2>4. \/ i < 3 /\ i' = i + 1 /\ pc' = "filter"
        \/ /\ i = 3 /\ i' = 1 /\ pc' \in {"done", "mkdir", "move"}
           /\ pc' = "mkdir" => Len(VALID_PIDS') = 3
    BY <1>0, <1>2 DEF Filter, NextRound
  <2>5. Passed' = i
    BY <1>0, <2>4 DEF Passed
  <2>6. pc' # "start" /\ (pc' \in {"mkdir", "print", "kill"} => Len(VALID_PIDS') = 3)
    BY <2>4
  <2>7. \A k \in DOMAIN PIDS : PIDS[k] = 0 <=> PROG_NAMES[k] \notin found
    BY DEF ListsInStep
  <2> QED  BY <1>0, <2>1, <2>3, <2>5, <2>6, <2>7 DEF ListsInStep
<1>3. ASSUME UNCHANGED <<found, PIDS, VALID_PIDS>>,
             \/ pc' = pc /\ i' = i
             \/ pc \in {"mkdir", "print", "kill"} /\ pc' \in {"mkdir", "print", "kill", "move", "done"}
             \/ pc = "move" /\ pc' \in {"move", "done"}
      PROVE  ListsInStep'
  <2>1. Passed' = Passed
    BY <1>3 DEF Passed
  <2> QED  BY <1>3, <2>1 DEF ListsInStep
<1>4. CASE MakeDirectory
  BY <1>3, <1>4 DEF MakeDirectory, NextRound
<1>5. CASE PrintFile
  BY <1>3, <1>5 DEF PrintFile
<1>6. CASE Kill
  BY <1>3, <1>6 DEF Kill, NextRound
<1>7. CASE Move
  BY <1>3, <1>7 DEF Move, NextRound
<1>8. CASE End \/ Reap \/ Appear
  BY <1>3, <1>8 DEF End, Reap, Appear
<1>9. CASE UNCHANGED vars
  BY <1>3, <1>9 DEF vars
<1> QED  BY <1>1, <1>2, <1>4, <1>5, <1>6, <1>7, <1>8, <1>9 DEF Next, Script

\* A step that takes no pid away from a program but a zombie's, makes zombies of
\* ended or killed programs only, and gives no pid to a program, keeps the owners.
LEMMA OwnersKept ==
  ASSUME ReaderTypeOK, ListsInStep, OwnersListed, PIDS' = PIDS, ended \subseteq ended', killed \subseteq killed',
         \A p \in Pid : owner'[p] \in Prog => owner'[p] = owner[p],
         \A p \in zombie' : p \in Pid /\ owner'[p] \in Prog,
         \A p \in Pid : /\ owner[p] \in Prog /\ p \notin zombie
                        => \/ owner'[p] = owner[p] /\ p \notin zombie'
                           \/ owner[p] \in ended' \cup killed'
  PROVE  OwnersListed'
<1>1. DOMAIN PIDS \subseteq 1..3 => \A k \in DOMAIN PIDS :
        PIDS'[k] # 0 /\ PROG_NAMES[k] \notin ended' \cup killed' => Alive(k)'
  <2> SUFFICES ASSUME DOMAIN PIDS \subseteq 1..3, NEW k \in DOMAIN PIDS,
                      PIDS[k] # 0, PROG_NAMES[k] \notin ended' \cup killed'
               PROVE  Alive(k)'
    OBVIOUS
  <2>1. owner[PIDS[k]] = PROG_NAMES[k] /\ PIDS[k] \notin zombie
    BY DEF OwnersListed, Alive
  <2>2. PIDS[k] \in Pid
    BY DEF ReaderTypeOK
  <2>3. PROG_NAMES[k] \in Prog
    BY Names
  <2> QED  BY <2>1, <2>2, <2>3 DEF Alive
<1>2. \A p \in Pid, k \in 1..3 : owner'[p] = PROG_NAMES[k] => k \in DOMAIN PIDS' /\ PIDS'[k] = p
  BY Names DEF OwnersListed
<1>3. DOMAIN PIDS \subseteq 1..3
  BY DEF ReaderTypeOK, ListsInStep
<1> QED  BY <1>1, <1>2, <1>3 DEF OwnersListed

\* What starting a program does.
LEMMA Started ==
  ASSUME ReaderTypeOK, ListsInStep, StartProgram
  PROVE  /\ i \in 1..3 /\ DOMAIN PIDS = 1..(i - 1) /\ DOMAIN PIDS' = 1..i
         /\ \A k \in 1..(i - 1) : PIDS'[k] = PIDS[k] /\ PIDS[k] \in Pid \cup {0}
         /\ UNCHANGED <<zombie, ended, killed, holds, fails>>
         /\ pc = "start" /\ pc' \in {"start", "filter"}
         /\ \/ PIDS'[i] = 0 /\ owner' = owner
            \/ /\ PIDS'[i] \in Pid /\ PIDS'[i] # 0 /\ owner[PIDS'[i]] = Free
               /\ owner' = [owner EXCEPT ![PIDS'[i]] = PROG_NAMES[i]]
<1>1. /\ i \in 1..3 /\ PIDS \in Seq(Pid \cup {0}) /\ pc = "start" /\ Len(PIDS) = i - 1
      /\ UNCHANGED <<zombie, ended, killed, holds, fails>> /\ pc' \in {"start", "filter"}
  BY DEF StartProgram, ListsInStep, ReaderTypeOK, NextRound
<1>2. DOMAIN PIDS = 1..(i - 1)
  BY <1>1
<1>3. \A k \in 1..(i - 1) : PIDS[k] \in Pid \cup {0}
  BY <1>1, <1>2
<1>0. ASSUME NEW x \in Pid \cup {0}, PIDS' = Append(PIDS, x)
      PROVE  /\ DOMAIN PIDS' = 1..i /\ PIDS'[i] = x
             /\ \A k \in 1..(i - 1) : PIDS'[k] = PIDS[k]
  BY <1>0, <1>1, <1>2
<1>4. CASE PROG_NAMES[i] \notin found
  <2>1. PIDS' = Append(PIDS, 0) /\ owner' = owner
    BY <1>4 DEF StartProgram
  <2> QED  BY <1>0, <1>1, <1>2, <1>3, <2>1
<1>5. CASE PROG_NAMES[i] \in found
  <2>1. Fork(PROG_NAMES[i]) /\ PIDS' = Append(PIDS, last')
    BY <1>5 DEF StartProgram
  <2>2. last' \in Pid /\ last' # 0 /\ owner[last'] = Free
        /\ owner' = [owner EXCEPT ![last'] = PROG_NAMES[i]]
    BY <2>1, Forked, ReaderAssumption
  <2>3. /\ DOMAIN PIDS' = 1..i /\ PIDS'[i] = last'
        /\ \A k \in 1..(i - 1) : PIDS'[k] = PIDS[k]
    BY <1>0, <2>1, <2>2
  <2> HIDE DEF Free
  <2> QED  BY <1>1, <1>2, <1>3, <2>2, <2>3
<1> QED  BY <1>4, <1>5

LEMMA StepOwners ==
  ReaderTypeOK /\ ListsInStep /\ OwnersListed /\ [Next]_vars => OwnersListed'
<1> SUFFICES ASSUME ReaderTypeOK, ListsInStep, OwnersListed, [Next]_vars  PROVE OwnersListed'
  OBVIOUS
<1>0. owner \in [Pid -> Prog \cup {Other, Free}] /\ zombie \subseteq Pid
  BY DEF ReaderTypeOK
<1>1. CASE StartProgram
  <2>1. CASE PIDS'[i] = 0 /\ owner' = owner
    BY <1>1, <2>1, Started DEF OwnersListed, Alive
  <2>2. CASE PIDS'[i] # 0
    <3> DEFINE q == PIDS'[i]
    <3>1. /\ q \in Pid /\ owner[q] = Free /\ owner'[q] = PROG_NAMES[i] /\ i \in 1..3
          /\ \A p \in Pid \ {q} : owner'[p] = owner[p]
          /\ zombie' = zombie /\ ended' = ended /\ killed' = killed
          /\ DOMAIN PIDS = 1..(i - 1) /\ DOMAIN PIDS' = 1..i
          /\ \A k \in 1..(i - 1) : PIDS'[k] = PIDS[k] /\ PIDS[k] \in Pid \cup {0}
      BY <1>0, <1>1, <2>2, Started
    <3> HIDE DEF q
    <3>2. q \notin zombie
      BY <3>1, Names DEF OwnersListed
    <3>3. \A p \in zombie : owner'[p] \in Prog
      BY <1>0, <3>1, <3>2 DEF OwnersListed
    <3>4. \A p \in Pid, k \in 1..3 : owner'[p] = PROG_NAMES[k] => k \in DOMAIN PIDS' /\ PIDS'[k] = p
      <4> SUFFICES ASSUME NEW p \in Pid, NEW k \in 1..3, owner'[p] = PROG_NAMES[k]
                   PROVE  k \in DOMAIN PIDS' /\ PIDS'[k] = p
        OBVIOUS
      <4>1. CASE p = q
        BY <3>1, <4>1, Names DEF q
      <4>2. CASE p # q
        BY <3>1, <4>2 DEF OwnersListed
      <4> QED  BY <4>1, <4>2
    <3>5. \A k \in DOMAIN PIDS' : PIDS'[k] # 0 /\ PROG_NAMES[k] \notin ended \cup killed => Alive(k)'
      <4> SUFFICES ASSUME NEW k \in 1..i, PIDS'[k] # 0, PROG_NAMES[k] \notin ended \cup killed
                   PROVE  Alive(k)'
        BY <3>1
      <4>1. CASE k = i
        BY <3>1, <3>2, <4>1 DEF Alive, q
      <4>2. CASE k # i
        <5>1. k \in 1..(i - 1)
          BY <3>1, <4>2
        <5>2. Alive(k) /\ PIDS'[k] = PIDS[k] /\ PIDS[k] \in Pid
          BY <3>1, <5>1 DEF OwnersListed
        <5>3. PIDS[k] # q
          BY <3>1, <5>1, <5>2, Names DEF Alive
        <5> QED  BY <3>1, <5>2, <5>3 DEF Alive
      <4> QED  BY <4>1, <4>2
    <3> QED  BY <3>1, <3>3, <3>4, <3>5 DEF OwnersListed
  <2> QED  BY <1>1, <2>1, <2>2, Started
<1>2. CASE UNCHANGED <<PIDS, owner, zombie, ended, killed>>
  BY <1>2 DEF OwnersListed, Alive
<1>3. CASE Kill
  <2>1. pid \in Pid
    BY <1>3, MainsPid DEF Kill
  <2>2. /\ PIDS' = PIDS /\ ended' = ended /\ killed' = killed \cup ({owner[pid]} \ {Free})
        /\ zombie' = IF owner[pid] \in Prog THEN zombie \cup {pid} ELSE zombie
        /\ owner' = IF owner[pid] = Other THEN [owner EXCEPT ![pid] = Free] ELSE owner
    BY <1>3 DEF Kill, Strike
  <2>3. \A p \in Pid : owner'[p] \in Prog => owner'[p] = owner[p]
    BY <1>0, <2>1, <2>2, Names
  <2>4. \A p \in zombie' : p \in Pid /\ owner'[p] \in Prog
    BY <1>0, <2>1, <2>2, Names DEF OwnersListed
  <2>5. \A p \in Pid : owner[p] \in Prog /\ p \notin zombie
          => (owner'[p] = owner[p] /\ p \notin zombie') \/ owner[p] \in ended' \cup killed'
    BY <1>0, <2>1, <2>2, Names
  <2> QED  BY <2>2, <2>3, <2>4, <2>5, OwnersKept
<1>4. CASE End
  BY <1>0, <1>4, OwnersKept DEF End, OwnersListed
<1>5. CASE Reap
  BY <1>0, <1>5, Names, OwnersKept DEF Reap, OwnersListed
<1>6. CASE Appear
  <2>1. /\ last' \in Pid /\ owner[last'] = Free /\ owner' = [owner EXCEPT ![last'] = Other]
        /\ UNCHANGED <<PIDS, ended, killed, zombie>>
    BY <1>6, Forked DEF Appear
  <2>2. \A p \in Pid : owner'[p] \in Prog \/ owner[p] \in Prog => owner'[p] = owner[p]
    BY <1>0, <2>1, Names
  <2> QED  BY <1>0, <2>1, <2>2, OwnersKept DEF OwnersListed
<1> QED  BY <1>1, <1>2, <1>3, <1>4, <1>5, <1>6
         DEF Next, Script, Filter, MakeDirectory, PrintFile, Move, vars

-----------------------------------------------------------------------------
(* Whom main() kills.                                                      *)

\* The next round of the loop over the three.
LEMMA Rounds ==
  ASSUME ReaderTypeOK
  PROVE  /\ pc \in {"mkdir", "print", "kill"} => Handled = 1..(i - 1) /\ i \notin Handled
         /\ pc \in {"mkdir", "print", "kill"} /\ NextRound("mkdir", "move")
              => Handled' = Handled \cup {i}
         /\ pc \in {"start", "filter"} => Handled = {}
         /\ pc = "move" /\ NextRound("move", "done") => Handled' = Handled /\ Handled = 1..3
         /\ pc' = pc /\ i' = i => Handled' = Handled
         /\ pc' \in {"mkdir", "print", "kill"} /\ pc \in {"mkdir", "print", "kill"} /\ i' = i
              => Handled' = Handled
<1>1. i \in 1..3
  BY DEF ReaderTypeOK
<1>2. ASSUME pc \in {"mkdir", "print", "kill"}, NextRound("mkdir", "move")
      PROVE  Handled' = Handled \cup {i}
  <2>1. CASE i < 3
    BY <1>1, <1>2, <2>1 DEF Handled, NextRound
  <2>2. CASE i = 3
    BY <1>2, <2>2 DEF Handled, NextRound
  <2> QED  BY <1>1, <2>1, <2>2
<1>3. pc \in {"mkdir", "print", "kill"} => Handled = 1..(i - 1) /\ i \notin Handled
  BY <1>1 DEF Handled
<1>4. pc = "move" /\ NextRound("move", "done") => Handled' = Handled /\ Handled = 1..3
  BY <1>1 DEF Handled, NextRound
<1>5. pc' = pc /\ i' = i => Handled' = Handled
  BY DEF Handled
<1> QED  BY <1>2, <1>3, <1>4, <1>5 DEF Handled

LEMMA StepKilled ==
  ReaderTypeOK /\ ListsInStep /\ OwnersListed /\ KilledInTurn /\ [Next]_vars => KilledInTurn'
<1> SUFFICES ASSUME ReaderTypeOK, ListsInStep, OwnersListed, KilledInTurn, [Next]_vars
             PROVE  KilledInTurn'
  OBVIOUS
<1>1. CASE StartProgram
  <2>1. killed = {} /\ killed' = {} /\ ended' = ended /\ pc' \in {"start", "filter"}
    BY <1>1, Started DEF KilledInTurn
  <2>2. ended = {} => Distinct'
    <3> SUFFICES ASSUME ended = {}, NEW j \in DOMAIN PIDS', NEW k \in DOMAIN PIDS',
                        PIDS'[j] = PIDS'[k], PIDS'[j] # 0
                 PROVE  j = k
      BY DEF Distinct
    <3>1. ASSUME NEW a \in 1..(i - 1), PIDS'[a] = PIDS'[i], PIDS'[a] # 0  PROVE FALSE
      <4>1. a \in DOMAIN PIDS /\ PIDS'[a] = PIDS[a] /\ owner[PIDS'[i]] = Free /\ a \in 1..3
        BY <1>1, <3>1, Started
      <4>2. Alive(a)
        BY <2>1, <3>1, <4>1 DEF OwnersListed
      <4> QED  BY <3>1, <4>1, <4>2, Names DEF Alive
    <3>2. i \in 1..3 /\ j \in 1..i /\ k \in 1..i /\ DOMAIN PIDS = 1..(i - 1)
          /\ \A a \in 1..(i - 1) : PIDS'[a] = PIDS[a]
      BY <1>1, Started
    <3>3. CASE j = i \/ k = i
      BY <3>1, <3>2, <3>3
    <3>4. CASE j # i /\ k # i
      <4>1. j \in 1..(i - 1) /\ k \in 1..(i - 1)
        BY <3>2, <3>4
      <4> QED  BY <3>2, <4>1 DEF KilledInTurn, Distinct
    <3> QED  BY <3>3, <3>4
  <2> QED  BY <2>1, <2>2 DEF KilledInTurn
<1>2. CASE Filter
  <2>1. killed = {} /\ killed' = {} /\ PIDS' = PIDS /\ ended' = ended /\ found' = found
    BY <1>2 DEF Filter, KilledInTurn
  <2>2. pc' \in {"filter", "mkdir", "move", "done"}
    BY <1>2 DEF Filter, NextRound
  <2>3. ASSUME pc' = "mkdir"  PROVE found' = Needed
    <3>1. Len(VALID_PIDS') = 3 /\ {"main", "sudo"} \subseteq found
      BY <1>2, <2>3 DEF Filter, NextRound
    <3>2. ReaderTypeOK' /\ ListsInStep' /\ Passed' = 3
      BY <2>3, StepTyped, StepLists DEF Passed
    <3>3. ASSUME NEW k \in 1..3  PROVE PROG_NAMES[k] \in found
      <4>1. k \in DOMAIN PIDS' /\ VALID_PIDS'[k] = PIDS'[k] /\ k \in DOMAIN VALID_PIDS'
        BY <2>3, <3>1, <3>2 DEF ListsInStep, ReaderTypeOK
      <4>2. VALID_PIDS'[k] \in Pid
        BY <3>2, <4>1 DEF ReaderTypeOK
      <4>3. PIDS'[k] # 0
        BY <4>1, <4>2, ReaderAssumption
      <4> QED  BY <2>1, <3>2, <4>1, <4>3 DEF ListsInStep
    <3>4. Prog \subseteq found
      BY <3>3, Names
    <3> QED  BY <2>1, <3>1, <3>4 DEF ReaderTypeOK, Needed
  <2> QED  BY <2>1, <2>2, <2>3 DEF KilledInTurn, Distinct
<1>3. ASSUME PIDS' = PIDS, killed' = killed, ended \subseteq ended', Handled \subseteq Handled',
             pc' \in {"start", "filter"} => pc' = pc, found' = found,
             pc' \in {"mkdir", "print", "kill"} => pc \in {"mkdir", "print", "kill"}
      PROVE  KilledInTurn'
  <2>1. Distinct' <=> Distinct
    BY <1>3 DEF Distinct
  <2> QED  BY <1>3, <2>1 DEF KilledInTurn
<1>4. CASE MakeDirectory
  <2>1. Handled \subseteq Handled'
    BY <1>4, Rounds DEF MakeDirectory
  <2> QED  BY <1>3, <1>4, <2>1 DEF MakeDirectory, NextRound
<1>5. CASE PrintFile
  BY <1>3, <1>5, Rounds DEF PrintFile
<1>6. CASE Kill
  <2>1. /\ pid \in Pid /\ pid # 0 /\ pid = PIDS[i] /\ DOMAIN PIDS = 1..3 /\ i \in 1..3
    BY <1>6, MainsPid DEF Kill
  <2>2. /\ killed' = killed \cup ({owner[pid]} \ {Free}) /\ PIDS' = PIDS /\ ended' = ended
        /\ Handled' = Handled \cup {i} /\ i \notin Handled /\ pc' \notin {"start", "filter"}
        /\ found' = Needed
    BY <1>6, Rounds DEF Kill, Strike, NextRound, KilledInTurn
  <2>3. Distinct' <=> Distinct
    BY <2>2 DEF Distinct
  <2>4. ASSUME Distinct, NEW k \in (1..3) \ Handled'  PROVE PROG_NAMES[k] \notin killed'
    <3>1. k # i /\ PROG_NAMES[k] \notin killed
      BY <2>2, <2>4 DEF KilledInTurn
    <3>2. owner[pid] # PROG_NAMES[k]
      BY <2>1, <2>4, <3>1 DEF OwnersListed, Distinct
    <3> QED  BY <2>2, <3>1, <3>2
  <2>5. ended = {} => killed' \subseteq Prog
    <3> SUFFICES ASSUME ended = {}  PROVE killed' \subseteq Prog
      OBVIOUS
    <3>1. PROG_NAMES[i] \notin killed
      BY <2>1, <2>2 DEF KilledInTurn
    <3>2. owner[pid] = PROG_NAMES[i]
      BY <2>1, <3>1 DEF OwnersListed, Alive
    <3> QED  BY <2>1, <2>2, <3>2, Names DEF KilledInTurn
  <2> QED  BY <2>2, <2>3, <2>4, <2>5 DEF KilledInTurn
<1>7. CASE Move
  BY <1>3, <1>7, Rounds DEF Move, NextRound
<1>8. CASE End \/ Reap \/ Appear
  BY <1>3, <1>8, Rounds DEF End, Reap, Appear
<1>9. CASE UNCHANGED vars
  BY <1>3, <1>9, Rounds DEF vars
<1> QED  BY <1>1, <1>2, <1>4, <1>5, <1>6, <1>7, <1>8, <1>9 DEF Next, Script

-----------------------------------------------------------------------------
(* What main() prints.                                                     *)

LEMMA InDirectory ==
  ASSUME ReaderTypeOK, NEW p \in Pid, NEW S
  PROVE  Range(holds[p]) \subseteq S <=> \A x \in File : holds[p][x] \in S
<1>1. DOMAIN holds[p] = File
  BY DEF ReaderTypeOK
<1> QED  BY <1>1 DEF Range

\* A program that has neither ended nor been killed is the one that is printed.
LEMMA TellsOfItself ==
  ASSUME ReaderTypeOK, ListsInStep, OwnersListed, KilledInTurn, OwnFiles, PrintFile,
         Distinct, PROG_NAMES[i] \notin ended
  PROVE  /\ holds' = [holds EXCEPT ![pid][Files[f]] = PROG_NAMES[i]]
         /\ vsize' = IF Files[f] \in DOMAIN vsize
                     THEN [vsize EXCEPT ![Files[f]] = PROG_NAMES[i]] ELSE vsize
<1> DEFINE n == PROG_NAMES[i]
           x == Files[f]
           calculated == IF vsize["stat"] = vsize["maps"] THEN vsize["stat"] ELSE Mixed
           tells == CASE x = "calculations" -> calculated
                      [] x \in Links /\ owner[pid] = Free -> Empty
                      [] OTHER -> Reading
<1>1. /\ pid = PIDS[i] /\ pid # 0 /\ i \in DOMAIN PIDS /\ i \in 1..3 /\ i \notin Handled
      /\ pc = "print"
  BY MainsPid, Rounds DEF PrintFile, ReaderTypeOK
<1>2. n \notin killed
  BY <1>1 DEF KilledInTurn
<1>3. owner[pid] = n /\ pid \notin zombie /\ n # Free
  BY <1>1, <1>2, Names DEF OwnersListed, Alive
<1>4. Reading = n
  BY <1>3 DEF Reading
<1>5. x = "calculations" => calculated = n
  <2> SUFFICES ASSUME x = "calculations"  PROVE calculated = n
    OBVIOUS
  <2>1. {"stat", "maps"} \subseteq Printed
    BY <1>1, FilesTyped, ReaderAssumption DEF Printed, ReaderTypeOK
  <2>2. DOMAIN vsize = {"stat", "maps"}
    BY DEF ReaderTypeOK
  <2>3. vsize["stat"] = n /\ vsize["maps"] = n
    BY <1>1, <2>1, <2>2 DEF OwnFiles
  <2> QED  BY <2>3
<1>6. /\ holds' = IF tells = Free THEN holds ELSE [holds EXCEPT ![pid][x] = tells]
      /\ vsize' = IF x \in DOMAIN vsize /\ tells # Free THEN [vsize EXCEPT ![x] = tells] ELSE vsize
  BY DEF PrintFile
<1> HIDE DEF n, x, calculated
<1>7. tells = n
  <2>1. x = "calculations" => x \notin Links
    BY ReaderAssumption
  <2> QED  BY <1>3, <1>4, <1>5, <2>1
<1> HIDE DEF tells
<1> QED  BY <1>3, <1>6, <1>7 DEF n, x

\* One more file has been printed.
LEMMA PrintedGrows ==
  ASSUME ReaderTypeOK, PrintFile
  PROVE  /\ Printed' = Printed \cup {Files[f]} /\ Files[f] \in File
         /\ pc = "print" /\ pc' \in {"print", "kill"}
<1>1. f \in 1..Len(Files) /\ pc = "print" /\ Printed = {Files[m] : m \in 1..(f - 1)}
  BY DEF PrintFile, ReaderTypeOK, Printed
<1>2. CASE f = Len(Files)
  <2>1. Printed' = File
    BY <1>2 DEF PrintFile, Printed
  <2>2. \A m \in 1..f : m \in 1..(f - 1) \/ m = f
    BY <1>1, FilesTyped
  <2> QED  BY <1>1, <1>2, <2>1, <2>2, FilesTyped DEF PrintFile
<1>3. CASE f # Len(Files)
  <2>1. Printed' = {Files[m] : m \in 1..f}
    BY <1>1, <1>3, FilesTyped DEF PrintFile, Printed
  <2>2. \A m \in 1..f : m \in 1..(f - 1) \/ m = f
    BY <1>1, FilesTyped
  <2> QED  BY <1>1, <1>3, <2>1, <2>2, FilesTyped DEF PrintFile
<1> QED  BY <1>2, <1>3

LEMMA StepFiles ==
  ReaderTypeOK /\ ListsInStep /\ OwnersListed /\ KilledInTurn /\ OwnFiles /\ [Next]_vars => OwnFiles'
<1> SUFFICES ASSUME ReaderTypeOK, ListsInStep, OwnersListed, KilledInTurn, OwnFiles, [Next]_vars
             PROVE  OwnFiles'
  OBVIOUS
<1>0. ReaderTypeOK'
  BY StepTyped
<1>1. CASE StartProgram
  <2>1. /\ \A p \in Pid : Range(holds[p]) \subseteq {Nobody, Old}
        /\ holds' = holds /\ pc' \in {"start", "filter"}
    BY <1>1, Started DEF OwnFiles
  <2>2. \A k \in DOMAIN PIDS' : PIDS'[k] # 0 => PIDS'[k] \in Pid
    BY <1>0 DEF ReaderTypeOK
  <2> QED  BY <2>1, <2>2 DEF OwnFiles
<1>2. CASE Filter
  <2>1. /\ \A p \in Pid : Range(holds[p]) \subseteq {Nobody, Old}
        /\ holds' = holds /\ PIDS' = PIDS
    BY <1>2 DEF Filter, OwnFiles
  <2>2. \A k \in DOMAIN PIDS : PIDS[k] # 0 => PIDS[k] \in Pid
    BY DEF ReaderTypeOK
  <2>3. pc' # "print"
    BY <1>2 DEF Filter, NextRound
  <2> QED  BY <2>1, <2>2, <2>3 DEF OwnFiles
<1>3. ASSUME PIDS' = PIDS, ended \subseteq ended', holds' = holds,
             pc' \in {"start", "filter"} => pc' = pc,
             pc' = "print" => UNCHANGED <<pc, i, f, vsize>>
      PROVE  OwnFiles'
  <2>1. Distinct' <=> Distinct
    BY <1>3 DEF Distinct
  <2>2. pc' = "print" => Printed' = Printed
    BY <1>3 DEF Printed
  <2> QED  BY <1>3, <2>1, <2>2 DEF OwnFiles
<1>4. CASE MakeDirectory
  <2>1. CASE pc' = "print"
    <3>1. /\ PIDS' = PIDS /\ ended' = ended /\ holds' = holds
          /\ vsize' = [y \in {"stat", "maps"} |-> Nobody] /\ f' = 1
      BY <1>4 DEF MakeDirectory
    <3>2. Printed' = {}
      BY <2>1, <3>1 DEF Printed
    <3>3. Distinct' <=> Distinct
      BY <3>1 DEF Distinct
    <3> QED  BY <2>1, <3>1, <3>2, <3>3 DEF OwnFiles
  <2>2. CASE pc' # "print"
    BY <1>3, <1>4, <2>2 DEF MakeDirectory, NextRound
  <2> QED  BY <2>1, <2>2
<1>5. CASE PrintFile
  <2>1. /\ pid \in Pid /\ pid = PIDS[i] /\ DOMAIN PIDS = 1..3 /\ i \in 1..3
        /\ \A k \in 1..3 : PIDS[k] \in Pid /\ PIDS[k] # 0
    BY <1>5, MainsPid DEF PrintFile
  <2>2. /\ PIDS' = PIDS /\ ended' = ended /\ i' = i
        /\ Printed' = Printed \cup {Files[f]} /\ Files[f] \in File
        /\ pc = "print" /\ pc' \in {"print", "kill"}
    BY <1>5, PrintedGrows DEF PrintFile
  <2>3. Distinct' <=> Distinct
    BY <2>2 DEF Distinct
  <2>4. ASSUME Distinct, NEW k \in 1..3, PROG_NAMES[k] \notin ended
        PROVE  Range(holds'[PIDS[k]]) \subseteq {PROG_NAMES[k], Nobody, Old}
    <3>1. \A x \in File : holds[PIDS[k]][x] \in {PROG_NAMES[k], Nobody, Old}
      <4>1. Range(holds[PIDS[k]]) \subseteq {PROG_NAMES[k], Nobody, Old}
        BY <2>1, <2>4 DEF OwnFiles
      <4> QED  BY <2>1, <4>1, InDirectory
    <3>2. \A x \in File : holds'[PIDS[k]][x] \in {PROG_NAMES[k], Nobody, Old}
      <4>1. CASE k = i
        <5>1. holds' = [holds EXCEPT ![pid][Files[f]] = PROG_NAMES[i]]
          BY <1>5, <2>4, <4>1, TellsOfItself
        <5> QED  BY <2>1, <2>2, <3>1, <4>1, <5>1 DEF ReaderTypeOK
      <4>2. CASE k # i
        <5>1. PIDS[k] # pid
          BY <2>1, <2>4, <4>2 DEF Distinct
        <5>2. holds'[PIDS[k]] = holds[PIDS[k]]
          BY <1>5, <2>1, <5>1 DEF PrintFile, ReaderTypeOK
        <5> QED  BY <3>1, <5>2
      <4> QED  BY <4>1, <4>2
    <3>3. DOMAIN holds'[PIDS[k]] = File
      BY <1>0, <2>1 DEF ReaderTypeOK
    <3> QED  BY <3>2, <3>3 DEF Range
  <2>5. ASSUME pc' = "print", Distinct, PROG_NAMES[i] \notin ended, NEW x \in DOMAIN vsize'
        PROVE  vsize'[x] = IF x \in Printed' THEN PROG_NAMES[i] ELSE Nobody
    <3>1. /\ DOMAIN vsize = {"stat", "maps"} /\ DOMAIN vsize' = {"stat", "maps"}
          /\ vsize[x] = IF x \in Printed THEN PROG_NAMES[i] ELSE Nobody
      BY <1>0, <2>2, <2>5 DEF OwnFiles, ReaderTypeOK
    <3>2. vsize' = IF Files[f] \in DOMAIN vsize
                   THEN [vsize EXCEPT ![Files[f]] = PROG_NAMES[i]] ELSE vsize
      BY <1>5, <2>5, TellsOfItself
    <3> QED  BY <2>2, <3>1, <3>2
  <2> QED  BY <2>1, <2>2, <2>3, <2>4, <2>5 DEF OwnFiles
<1>6. CASE Kill
  BY <1>3, <1>6 DEF Kill, NextRound
<1>7. CASE Move
  <2>1. /\ PIDS' = PIDS /\ ended' = ended /\ pc = "move" /\ pc' \in {"move", "done"}
        /\ \/ holds' = holds
           \/ \E p \in Pid : holds' = [holds EXCEPT ![p] = Untouched]
    BY <1>7 DEF Move, NextRound, ReaderTypeOK
  <2>2. Distinct' <=> Distinct
    BY <2>1 DEF Distinct
  <2>3. \A p \in Pid : holds'[p] = holds[p] \/ holds'[p] = Untouched
    BY <2>1 DEF ReaderTypeOK
  <2>4. Range(Untouched) \subseteq {Nobody}
    BY DEF Range, Untouched
  <2>5. \A k \in DOMAIN PIDS : PIDS[k] # 0 => PIDS[k] \in Pid
    BY DEF ReaderTypeOK
  <2> QED  BY <2>1, <2>2, <2>3, <2>4, <2>5 DEF OwnFiles
<1>8. CASE End \/ Reap \/ Appear
  BY <1>3, <1>8 DEF End, Reap, Appear
<1>9. CASE UNCHANGED vars
  BY <1>3, <1>9 DEF vars
<1> QED  BY <1>1, <1>2, <1>4, <1>5, <1>6, <1>7, <1>8, <1>9 DEF Next, Script

\* With the three programs there, every list is full, of pids.
LEMMA AllFound ==
  ASSUME ReaderTypeOK, ListsInStep, found = Needed, pc # "start"
  PROVE  /\ DOMAIN PIDS = 1..3 /\ \A k \in 1..3 : PIDS[k] \in Pid /\ PIDS[k] # 0
         /\ pc # "filter" => VALID_PIDS = PIDS
<1>1. DOMAIN PIDS = 1..3
  BY DEF ListsInStep, ReaderTypeOK
<1>2. ASSUME NEW k \in 1..3  PROVE PIDS[k] \in Pid /\ PIDS[k] # 0
  <2>1. PIDS[k] \in Pid \cup {0}
    <3>1. PIDS \in Seq(Pid \cup {0}) /\ k \in DOMAIN PIDS
      BY <1>1 DEF ReaderTypeOK
    <3> QED  BY <3>1
  <2>2. PIDS[k] # 0
    BY <1>1, Names DEF ListsInStep, Needed
  <2> QED  BY <2>1, <2>2
<1>3. ASSUME pc # "filter"  PROVE VALID_PIDS = PIDS
  <2>1. Passed = 3
    BY <1>3 DEF Passed
  <2>2. Len(VALID_PIDS) = 3 /\ \A k \in 1..3 : VALID_PIDS[k] = PIDS[k]
    BY <2>1 DEF ListsInStep, Needed
  <2>3. VALID_PIDS \in Seq(Pid) /\ PIDS \in Seq(Pid \cup {0})
    BY DEF ReaderTypeOK
  <2>4. VALID_PIDS = [k \in 1..3 |-> VALID_PIDS[k]] /\ PIDS = [k \in 1..3 |-> PIDS[k]]
    BY <1>1, <2>2, <2>3
  <2> QED  BY <2>2, <2>4
<1> QED  BY <1>1, <1>2, <1>3

\* main() is called with all three, and else runs for nobody.
LEMMA Filtered ==
  ASSUME ReaderTypeOK, ListsInStep, ListsInStep', Filter
  PROVE  pc' \in {"filter", "mkdir"} \/ found' # Needed
<1>1. /\ pc' # "start" /\ found' = found
      /\ i = 3 /\ Len(VALID_PIDS') = 3 /\ found = Needed => pc' = "mkdir"
      /\ i # 3 => pc' = "filter"
  BY DEF Filter, NextRound, ReaderTypeOK, Needed
<1>2. ASSUME found' = Needed, pc' # "filter"  PROVE Len(VALID_PIDS') = 3
  <2>1. Passed' = 3
    BY <1>1, <1>2 DEF Passed
  <2> QED  BY <1>2, <2>1 DEF ListsInStep, Needed
<1> QED  BY <1>1, <1>2

LEMMA StepStays ==
  ReaderTypeOK /\ ListsInStep /\ OwnersListed /\ KilledInTurn /\ OwnFiles /\ PrintedStays
    /\ [Next]_vars => PrintedStays'
<1> SUFFICES ASSUME ReaderTypeOK, ListsInStep, OwnersListed, KilledInTurn, OwnFiles, PrintedStays,
                    [Next]_vars
             PROVE  PrintedStays'
  OBVIOUS
<1>0. i \in 1..3 /\ ListsInStep' /\ ReaderTypeOK'
  BY StepLists, StepTyped DEF ReaderTypeOK
<1>1. ASSUME Handled' = {}, pc' \in {"start", "filter", "mkdir"}  PROVE PrintedStays'
  BY <1>1 DEF PrintedStays, Kept, Renamed
<1>2. CASE StartProgram
  <2>1. pc' \in {"start", "filter"}
    BY <1>2, Started
  <2> QED  BY <1>1, <2>1 DEF Handled
<1>3. CASE Filter
  <2>1. CASE pc' = "filter"
    BY <1>1, <2>1 DEF Handled
  <2>2. CASE pc' = "mkdir"
    <3>1. i' = 1
      BY <1>3, <2>2 DEF Filter, NextRound
    <3> QED  BY <1>1, <2>2, <3>1 DEF Handled
  <2>3. CASE found' # Needed
    BY <2>3 DEF PrintedStays
  <2> QED  BY <1>0, <1>3, <2>1, <2>2, <2>3, Filtered
<1>4. CASE MakeDirectory
  <2>1. CASE fails' = fails
    <3>1. /\ UNCHANGED <<PIDS, found, ended, killed, holds, named, i>> /\ pc = "mkdir" /\ pc' = "print"
          /\ dirs' = dirs \cup {pid} /\ f' = 1
      BY <1>4, <2>1 DEF MakeDirectory, ReaderTypeOK
    <3>2. /\ Distinct' <=> Distinct
          /\ Handled' = Handled /\ Printed' = {} /\ pid = PIDS[i] /\ i \notin Handled
      BY <3>1, Rounds, MainsPid DEF Distinct, Printed
    <3> QED  BY <2>1, <3>1, <3>2 DEF PrintedStays, Kept, Renamed
  <2>2. CASE fails' # fails
    <3>1. fails' # 0
      BY <1>4, <2>2 DEF MakeDirectory, ReaderTypeOK
    <3> QED  BY <3>1 DEF PrintedStays
  <2> QED  BY <2>1, <2>2
<1>5. CASE PrintFile
  <2>1. /\ pid \in Pid /\ pid = PIDS[i] /\ DOMAIN PIDS = 1..3
        /\ \A k \in 1..3 : PIDS[k] \in Pid /\ PIDS[k] # 0
    BY <1>5, MainsPid DEF PrintFile
  <2>2. /\ UNCHANGED <<PIDS, found, ended, killed, dirs, named, i, fails>>
        /\ Printed' = Printed \cup {Files[f]} /\ Files[f] \in File
        /\ pc = "print" /\ pc' \in {"print", "kill"}
    BY <1>5, PrintedGrows DEF PrintFile
  <2>3. /\ Distinct' <=> Distinct
        /\ Handled' = Handled /\ i \notin Handled
    BY <2>2, Rounds DEF Distinct
  <2>4. ASSUME Distinct, NEW k \in 1..3, PROG_NAMES[k] \notin ended, Kept(k)  PROVE Kept(k)'
    <3>1. CASE k = i
      <4>1. holds' = [holds EXCEPT ![pid][Files[f]] = PROG_NAMES[i]]
        BY <1>5, <2>4, <3>1, TellsOfItself
      <4>2. \A x \in File : holds'[pid][x] = IF x = Files[f] THEN PROG_NAMES[i] ELSE holds[pid][x]
        BY <2>1, <2>2, <4>1 DEF ReaderTypeOK
      <4> QED  BY <2>1, <2>2, <2>3, <2>4, <3>1, <4>2 DEF Kept, Renamed
    <3>2. CASE k # i
      <4>1. PIDS[k] # pid
        BY <1>0, <2>1, <2>4, <3>2 DEF Distinct
      <4>2. holds'[PIDS[k]] = holds[PIDS[k]]
        BY <1>5, <2>1, <4>1 DEF PrintFile, ReaderTypeOK
      <4> QED  BY <2>2, <2>3, <2>4, <3>2, <4>2 DEF Kept, Renamed
    <3> QED  BY <3>1, <3>2
  <2> QED  BY <2>2, <2>3, <2>4 DEF PrintedStays
<1>6. CASE Kill
  <2>1. /\ pid = PIDS[i] /\ pid # 0 /\ DOMAIN PIDS = 1..3
    BY <1>6, MainsPid DEF Kill
  <2>2. /\ UNCHANGED <<PIDS, found, ended, dirs, holds, named, fails>>
        /\ killed' = killed \cup ({owner[pid]} \ {Free})
        /\ Handled' = Handled \cup {i} /\ i \notin Handled /\ pc = "kill"
        /\ pc' = "mkdir" \/ (pc' = "move" /\ i' = 1)
    BY <1>6, Rounds DEF Kill, Strike, NextRound
  <2>3. Distinct' <=> Distinct
    BY <2>2 DEF Distinct
  <2>4. ASSUME Distinct, PROG_NAMES[i] \notin ended  PROVE PROG_NAMES[i] \in killed'
    <3>1. PROG_NAMES[i] \notin killed
      BY <1>0, <2>2, <2>4 DEF KilledInTurn
    <3>2. owner[pid] = PROG_NAMES[i] /\ PROG_NAMES[i] # Free
      BY <1>0, <2>1, <2>4, <3>1, Names DEF OwnersListed, Alive
    <3> QED  BY <2>2, <3>2
  <2>5. Printed = File
    BY <2>2 DEF Printed
  <2>6. ASSUME Distinct, NEW k \in 1..3, PROG_NAMES[k] \notin ended, Kept(k)  PROVE Kept(k)'
    <3>1. ~Renamed(k) /\ ~Renamed(k)'
      BY <2>2, <2>6 DEF Renamed
    <3>2. CASE k \in Handled
      BY <2>2, <2>6, <3>1, <3>2 DEF Kept
    <3>3. CASE k = i
      BY <2>2, <2>4, <2>5, <2>6, <3>1, <3>3 DEF Kept
    <3>4. CASE k \notin Handled'
      BY <2>2, <3>1, <3>4 DEF Kept
    <3> QED  BY <2>2, <3>2, <3>3, <3>4
  <2> QED  BY <2>2, <2>3, <2>6 DEF PrintedStays
<1>7. CASE Move
  <2> SUFFICES ASSUME Distinct', found' = Needed, fails' = 0,
                      NEW k \in 1..3, PROG_NAMES[k] \notin ended'
               PROVE  Kept(k)'
    BY DEF PrintedStays
  <2>1. /\ UNCHANGED <<PIDS, found, ended, killed, fails, VALID_PIDS>> /\ pc = "move"
        /\ IF i < 3 THEN i' = i + 1 /\ pc' = "move" ELSE i' = 1 /\ pc' = "done"
        /\ Handled' = Handled /\ Handled = 1..3
    BY <1>7, Rounds DEF Move, NextRound
  <2>2. /\ Distinct /\ found = Needed /\ PROG_NAMES[k] \notin ended /\ Kept(k)
    BY <2>1 DEF PrintedStays, Distinct
  <2>3. /\ DOMAIN PIDS = 1..3 /\ VALID_PIDS = PIDS /\ Len(VALID_PIDS) = 3
        /\ \A j \in 1..3 : PIDS[j] \in Pid /\ PIDS[j] # 0
    BY <2>1, <2>2, AllFound DEF ReaderTypeOK
  <2>4. Renamed(k)' <=> k <= i
    BY <1>0, <2>1 DEF Renamed
  <2>5. Renamed(k) <=> k < i
    BY <1>0, <2>1 DEF Renamed
  <2>6. CASE PIDS[i] \in dirs
    <3>1. /\ dirs' = dirs \ {PIDS[i]}
          /\ named' = [named EXCEPT ![PROG_NAMES[i]] = holds[PIDS[i]]]
          /\ holds' = [holds EXCEPT ![PIDS[i]] = Untouched]
      BY <1>0, <1>7, <2>2, <2>3, <2>6 DEF Move, Needed
    <3>2. PROG_NAMES[k] \in Prog /\ PROG_NAMES[i] \in Prog
      BY <1>0, Names
    <3>3. CASE k < i
      <4>1. PROG_NAMES[k] # PROG_NAMES[i]
        BY <1>0, <3>3, Names
      <4>2. named'[PROG_NAMES[k]] = named[PROG_NAMES[k]]
        BY <3>1, <3>2, <4>1 DEF ReaderTypeOK
      <4> QED  BY <1>0, <2>1, <2>2, <2>4, <2>5, <3>3, <4>2 DEF Kept
    <3>4. CASE k = i
      <4>1. \A x \in File : holds[PIDS[k]][x] = PROG_NAMES[k]
        BY <2>1, <2>2, <2>5, <3>4, <1>0 DEF Kept
      <4>2. holds[PIDS[k]] = [x \in File |-> PROG_NAMES[k]]
        BY <2>3, <4>1 DEF ReaderTypeOK
      <4>3. named'[PROG_NAMES[k]] = [x \in File |-> PROG_NAMES[k]]
        BY <3>1, <3>2, <3>4, <4>2 DEF ReaderTypeOK
      <4> QED  BY <1>0, <2>1, <2>2, <2>4, <3>4, <4>3 DEF Kept
    <3>5. CASE k > i
      <4>1. PIDS[k] # PIDS[i]
        BY <1>0, <2>2, <2>3, <3>5 DEF Distinct
      <4>2. holds'[PIDS[k]] = holds[PIDS[k]]
        BY <2>3, <3>1, <4>1 DEF ReaderTypeOK
      <4> QED  BY <1>0, <2>1, <2>2, <2>4, <2>5, <3>1, <3>5, <4>1, <4>2 DEF Kept
    <3> QED  BY <1>0, <3>3, <3>4, <3>5
  <2>7. CASE PIDS[i] \notin dirs
    <3>1. UNCHANGED <<dirs, named, holds>>
      BY <1>0, <1>7, <2>3, <2>7 DEF Move
    <3>2. k # i
      BY <1>0, <2>1, <2>2, <2>5, <2>7 DEF Kept
    <3> QED  BY <1>0, <2>1, <2>2, <2>4, <2>5, <3>1, <3>2 DEF Kept
  <2> QED  BY <2>6, <2>7
<1>8. ASSUME UNCHANGED <<PIDS, found, fails, pc, i, f, holds, dirs, named, killed>>, ended \subseteq ended'
      PROVE  PrintedStays'
  <2>1. /\ Distinct' <=> Distinct
        /\ Handled' = Handled /\ Printed' = Printed
        /\ \A k \in 1..3 : Renamed(k)' <=> Renamed(k)
    BY <1>8 DEF Distinct, Handled, Printed, Renamed
  <2> QED  BY <1>8, <2>1 DEF PrintedStays, Kept
<1>9. CASE End \/ Reap \/ Appear
  BY <1>8, <1>9 DEF End, Reap, Appear
<1>10. CASE UNCHANGED vars
  BY <1>8, <1>10 DEF vars
<1> QED  BY <1>2, <1>3, <1>4, <1>5, <1>6, <1>7, <1>9, <1>10 DEF Next, Script

-----------------------------------------------------------------------------
(* Whom main() leaves running.                                             *)

LEMMA Fewer ==
  ASSUME NEW S, IsFiniteSet(S), NEW T, T \subseteq S
  PROVE  /\ IsFiniteSet(T) /\ Cardinality(T) <= Cardinality(S)
         /\ Cardinality(T) \in Nat /\ Cardinality(S) \in Nat
  BY FS_Subset, FS_CardinalityType

LEMMA ThreeFinite == IsFiniteSet(1..3)
<1>1. 1 \in Int /\ 3 \in Int
  OBVIOUS
<1> QED  BY <1>1, FS_Interval, Zenon

LEMMA StepLeft ==
  ReaderTypeOK /\ ListsInStep /\ OwnersListed /\ LeftForFails /\ [Next]_vars => LeftForFails'
<1> DEFINE S == {k \in Handled : Alive(k)}
<1> SUFFICES ASSUME ReaderTypeOK, ListsInStep, OwnersListed, LeftForFails, [Next]_vars, found' = Needed
             PROVE  Cardinality(S') <= fails'
  BY DEF LeftForFails
<1>1. /\ found = Needed /\ fails \in Nat /\ fails' \in Nat /\ i \in 1..3
      /\ ReaderTypeOK' /\ ListsInStep'
  <2>1. found' = found
    BY DEF Next, Script, StartProgram, Filter, MakeDirectory, PrintFile, Kill, Move, End, Reap,
           Appear, vars
  <2>2. ReaderTypeOK' /\ ListsInStep'
    BY StepTyped, StepLists
  <2>3. fails \in 0..MaxFails /\ fails' \in 0..MaxFails /\ MaxFails \in Nat /\ i \in 1..3
    BY <2>2, ReaderAssumption DEF ReaderTypeOK
  <2>4. fails \in Nat /\ fails' \in Nat
    BY <2>3
  <2> QED  BY <2>1, <2>2, <2>3, <2>4
<1>2. IsFiniteSet(S) /\ Cardinality(S) <= fails
  <2>1. Handled \subseteq 1..3
    BY <1>1 DEF Handled
  <2>2. IsFiniteSet(1..3)
    BY ThreeFinite
  <2>3. IsFiniteSet(Handled)
    BY <2>1, <2>2, FS_Subset
  <2>4. S \subseteq Handled
    OBVIOUS
  <2>5. IsFiniteSet(S)
    BY <2>3, <2>4, FS_Subset
  <2>6. Cardinality(S) <= fails
    BY <1>1 DEF LeftForFails
  <2> QED  BY <2>5, <2>6
<1> HIDE DEF S
<1>3. ASSUME S' \subseteq S, fails' = fails  PROVE Cardinality(S') <= fails'
  BY <1>1, <1>2, <1>3, Fewer
<1>4. ASSUME Handled' = {}  PROVE Cardinality(S') <= fails'
  <2>1. S' = {}
    BY <1>4 DEF S
  <2> QED  BY <1>1, <2>1, FS_EmptySet
<1>5. ASSUME Handled' = Handled, PIDS' = PIDS, UNCHANGED <<owner, zombie, fails>>
      PROVE  Cardinality(S') <= fails'
  BY <1>3, <1>5 DEF S, Alive
<1>6. CASE StartProgram
  BY <1>4, <1>6, Started DEF Handled
<1>7. CASE Filter
  <2>1. pc' \in {"filter", "mkdir"}
    BY <1>1, <1>7, Filtered
  <2>2. pc' = "mkdir" => i' = 1
    BY <1>7 DEF Filter, NextRound
  <2> QED  BY <1>4, <2>1, <2>2 DEF Handled
<1>8. CASE MakeDirectory
  <2>1. CASE pc' = "print" /\ UNCHANGED <<i, fails>>
    BY <1>5, <1>8, <2>1, Rounds DEF MakeDirectory
  <2>2. CASE fails' = fails + 1 /\ NextRound("mkdir", "move")
    <3>1. Handled' = Handled \cup {i} /\ UNCHANGED <<PIDS, owner, zombie>>
      BY <1>8, <2>2, Rounds DEF MakeDirectory
    <3>2. S' \subseteq S \cup {i}
      BY <3>1 DEF S, Alive
    <3>3. IsFiniteSet(S \cup {i}) /\ Cardinality(S \cup {i}) <= Cardinality(S) + 1
      <4>1. IsFiniteSet(S) /\ Cardinality(S) \in Nat
        BY <1>2, FS_CardinalityType
      <4>2. /\ IsFiniteSet(S \cup {i})
            /\ \/ Cardinality(S \cup {i}) = Cardinality(S)
               \/ Cardinality(S \cup {i}) = Cardinality(S) + 1
        BY <4>1, FS_AddElement, Zenon
      <4> QED  BY <4>1, <4>2
    <3>4. Cardinality(S') <= Cardinality(S \cup {i}) /\ Cardinality(S') \in Nat
          /\ Cardinality(S \cup {i}) \in Nat
      BY <3>2, <3>3, Fewer
    <3>5. Cardinality(S) \in Nat
      BY <1>2, FS_CardinalityType
    <3> QED  BY <1>1, <1>2, <2>2, <3>3, <3>4, <3>5
  <2> QED  BY <1>8, <2>1, <2>2 DEF MakeDirectory
<1>9. CASE PrintFile
  <2>1. Handled' = Handled
    BY <1>9, Rounds DEF PrintFile
  <2> QED  BY <1>5, <1>9, <2>1 DEF PrintFile
<1>10. CASE Kill
  <2>1. /\ pid = PIDS[i] /\ pid \in Pid /\ \A k \in 1..3 : PIDS[k] \in Pid
    BY <1>10, MainsPid DEF Kill
  <2>2. /\ PIDS' = PIDS /\ fails' = fails /\ Handled' = Handled \cup {i}
        /\ Handled = 1..(i - 1)
        /\ zombie' = IF owner[pid] \in Prog THEN zombie \cup {pid} ELSE zombie
        /\ owner' = IF owner[pid] = Other THEN [owner EXCEPT ![pid] = Free] ELSE owner
    BY <1>10, Rounds DEF Kill, Strike
  <2>3. \A p \in Pid : owner'[p] \in Prog => owner'[p] = owner[p]
    BY <2>1, <2>2, Names DEF ReaderTypeOK
  <2>4. \A k \in 1..3 : k = i => ~Alive(k)'
    BY <1>1, <2>1, <2>2, <2>3, Names DEF Alive
  <2>5. \A k \in Handled : Alive(k)' => Alive(k)
    <3> SUFFICES ASSUME NEW k \in Handled, Alive(k)'  PROVE Alive(k)
      OBVIOUS
    <3>1. k \in 1..3 /\ PIDS[k] \in Pid /\ PROG_NAMES[k] \in Prog
      BY <1>1, <2>1, <2>2, Names
    <3> QED  BY <2>2, <2>3, <3>1 DEF Alive
  <2>6. S' \subseteq S
    BY <1>1, <2>2, <2>4, <2>5 DEF S
  <2> QED  BY <1>3, <2>2, <2>6
<1>11. CASE Move
  <2>1. Handled' = Handled
    BY <1>11, Rounds DEF Move
  <2> QED  BY <1>5, <1>11, <2>1 DEF Move
<1>12. CASE End \/ Reap \/ Appear
  <2>1. /\ UNCHANGED <<PIDS, fails, pc, i>>
        /\ Handled' = Handled
    BY <1>12, Rounds DEF End, Reap, Appear
  <2>2. ASSUME NEW k \in Handled, Alive(k)'  PROVE Alive(k)
    <3>1. k \in 1..3 /\ pc # "start"
      BY <1>1, <2>2 DEF Handled
    <3>2. PIDS[k] \in Pid /\ PROG_NAMES[k] \in Prog
      BY <1>1, <3>1, AllFound, Names
    <3>3. owner'[PIDS[k]] = PROG_NAMES[k] /\ PIDS[k] \notin zombie'
      BY <2>1, <2>2 DEF Alive
    <3>4. CASE End
      BY <3>3, <3>4 DEF End, Alive
    <3>5. CASE Reap
      <4>1. PICK p \in zombie : zombie' = zombie \ {p} /\ owner' = [owner EXCEPT ![p] = Free]
        BY <3>5 DEF Reap
      <4>2. PIDS[k] # p
        BY <3>2, <3>3, <4>1, Names DEF ReaderTypeOK
      <4> QED  BY <3>2, <3>3, <4>1, <4>2 DEF Alive, ReaderTypeOK
    <3>6. CASE Appear
      <4>1. owner' = [owner EXCEPT ![last'] = Other] /\ zombie' = zombie
        BY <3>6, Forked DEF Appear
      <4> QED  BY <3>2, <3>3, <4>1, Names DEF Alive, ReaderTypeOK
    <3> QED  BY <1>12, <3>4, <3>5, <3>6
  <2> QED  BY <1>3, <2>1, <2>2 DEF S
<1>13. CASE UNCHANGED vars
  BY <1>5, <1>13, Rounds DEF vars
<1> QED  BY <1>6, <1>7, <1>8, <1>9, <1>10, <1>11, <1>12, <1>13 DEF Next, Script

-----------------------------------------------------------------------------

LEMMA InitEstablishesReader == ReaderInit => ReaderInv
<1> SUFFICES ASSUME ReaderInit  PROVE ReaderInv
  OBVIOUS
<1>1. ReaderTypeOK
  BY InitTyped
<1>2. /\ pc = "start" /\ i = 1 /\ PIDS = <<>> /\ VALID_PIDS = <<>> /\ killed = {} /\ ended = {}
      /\ owner = [p \in Pid |-> Free] /\ zombie = {} /\ Handled = {} /\ fails = 0
      /\ Len(PIDS) = 0 /\ DOMAIN PIDS = {} /\ Len(VALID_PIDS) = 0
  BY DEF ReaderInit, Handled
<1>3. ListsInStep
  <2>1. Passed = 0
    BY <1>2 DEF Passed
  <2> QED  BY <1>2, <2>1, Names DEF ListsInStep
<1>4. OwnersListed
  BY <1>2, Names DEF OwnersListed
<1>5. Distinct /\ KilledInTurn
  BY <1>2 DEF Distinct, KilledInTurn
<1>6. OwnFiles
  <2>1. ASSUME NEW p \in Pid  PROVE Range(holds[p]) \subseteq {Nobody, Old}
    <3>1. \A x \in File : holds[p][x] \in {Nobody, Old}
      BY DEF ReaderInit, Untouched
    <3> QED  BY <1>1, <3>1, InDirectory
  <2> QED  BY <1>2, <2>1 DEF OwnFiles
<1>7. PrintedStays
  BY <1>2 DEF PrintedStays, Kept, Renamed
<1>8. LeftForFails
  <2>1. {k \in Handled : Alive(k)} = {}
    BY <1>2
  <2> QED  BY <1>2, <2>1, FS_EmptySet DEF LeftForFails
<1>9. OnlyTargets
  BY <1>2 DEF OnlyTargets
<1> QED  BY <1>1, <1>3, <1>4, <1>5, <1>6, <1>7, <1>8, <1>9 DEF ReaderInv

\* As long as no program has ended, main() prints and kills the programs alone.
LEMMA TargetsOnly ==
  ReaderTypeOK /\ ListsInStep /\ OwnersListed /\ KilledInTurn /\ OwnFiles => OnlyTargets
<1> SUFFICES ASSUME ReaderTypeOK, ListsInStep, OwnersListed, KilledInTurn, OwnFiles, ended = {}
             PROVE  /\ killed \subseteq Prog
                    /\ \A k \in DOMAIN VALID_PIDS : PIDS = VALID_PIDS
                         => Range(holds[VALID_PIDS[k]]) \subseteq {PROG_NAMES[k], Nobody, Old}
                    /\ pc \in {"mkdir", "print", "kill"} => owner[pid] = PROG_NAMES[i]
  BY DEF OnlyTargets
<1>1. Distinct /\ killed \subseteq Prog
  BY DEF KilledInTurn
<1>2. \A k \in DOMAIN VALID_PIDS : VALID_PIDS[k] # 0
  BY ReaderAssumption DEF ReaderTypeOK
<1>3. \A k \in DOMAIN VALID_PIDS : PIDS = VALID_PIDS
        => Range(holds[VALID_PIDS[k]]) \subseteq {PROG_NAMES[k], Nobody, Old}
  BY <1>1, <1>2 DEF OwnFiles
<1>4. ASSUME pc \in {"mkdir", "print", "kill"}  PROVE owner[pid] = PROG_NAMES[i]
  <2>1. pid = PIDS[i] /\ pid # 0 /\ i \in DOMAIN PIDS /\ i \in 1..3 /\ i \notin Handled
    BY <1>4, MainsPid, Rounds DEF ReaderTypeOK
  <2>2. PROG_NAMES[i] \notin killed
    BY <1>1, <2>1 DEF KilledInTurn
  <2> QED  BY <2>1, <2>2 DEF OwnersListed, Alive
<1> QED  BY <1>1, <1>3, <1>4

\* The invariant, for any pids, files and failing calls.
THEOREM ReaderInductive == ReaderSpec => []ReaderInv
<1>1. ReaderInv /\ [Next]_vars => ReaderInv'
  <2> SUFFICES ASSUME ReaderInv, [Next]_vars  PROVE ReaderInv'
    OBVIOUS
  <2>1. /\ ReaderTypeOK /\ ListsInStep /\ OwnersListed /\ KilledInTurn /\ OwnFiles /\ PrintedStays
        /\ LeftForFails
    BY DEF ReaderInv
  <2>2. /\ ReaderTypeOK' /\ ListsInStep' /\ OwnersListed' /\ KilledInTurn' /\ OwnFiles'
        /\ PrintedStays' /\ LeftForFails'
    BY <2>1, StepTyped, StepLists, StepOwners, StepKilled, StepFiles, StepStays, StepLeft
  <2>3. OnlyTargets'
    BY <2>2, TargetsOnly, PTL
  <2> QED  BY <2>2, <2>3 DEF ReaderInv
<1> QED  BY <1>1, InitEstablishesReader, PTL DEF ReaderSpec

\* main() prints and kills nobody but the three programs as long as none of them
\* has ended by itself, whoever else starts or ends meanwhile.
THEOREM ReaderHitsTargets == ReaderSpec => []OnlyTargets
  BY ReaderInductive, PTL DEF ReaderInv

\* Each program that did not end by itself is told of in full under its own
\* name, and is killed, if no pid was given twice.
THEOREM ReaderTells == ReaderSpec => []Told
<1>1. ReaderInv => Told
  <2> SUFFICES ASSUME ReaderInv, pc = "done", found = Needed, fails = 0, IsInjective(PIDS),
                      NEW n \in Prog, n \notin ended
               PROVE  named[n] = [x \in File |-> n] /\ n \in killed
    BY DEF Told
  <2>1. PICK k \in 1..3 : n = PROG_NAMES[k]
    BY Names
  <2>2. Distinct
    BY DEF IsInjective, Distinct
  <2>3. Kept(k)
    BY <2>1, <2>2 DEF ReaderInv, PrintedStays
  <2>4. k \in Handled /\ Renamed(k)
    BY DEF Handled, Renamed
  <2> QED  BY <2>1, <2>3, <2>4 DEF Kept
<1> QED  BY <1>1, ReaderInductive, PTL

\* No program is left running but one for each directory that could not be made,
\* or all, when main() has not been called with three.
THEOREM ReaderLeavesNone == ReaderSpec => []NoneLeft
<1>1. ReaderInv => NoneLeft
  <2> DEFINE left == {p \in Pid \ zombie : owner[p] \in Prog}
             S == {k \in Handled : Alive(k)}
  <2>0. ASSUME ReaderInv, pc = "done", found # Needed,
               NEW k \in 1..3, PROG_NAMES[k] \in found \ ended
        PROVE  Alive(k)
    <3>1. killed = {} /\ k \in DOMAIN PIDS
      BY <2>0 DEF ReaderInv, ReaderTypeOK, KilledInTurn, ListsInStep
    <3>2. PIDS[k] # 0
      BY <2>0, <3>1 DEF ReaderInv, ListsInStep
    <3> QED  BY <2>0, <3>1, <3>2 DEF ReaderInv, OwnersListed
  <2> SUFFICES ASSUME ReaderInv, pc = "done", found = Needed  PROVE Cardinality(left) <= fails
    BY <2>0 DEF NoneLeft
  <2>1. /\ ReaderTypeOK /\ ListsInStep /\ OwnersListed /\ LeftForFails /\ Handled = 1..3
    BY DEF ReaderInv, Handled
  <2>2. IsFiniteSet(S) /\ Cardinality(S) <= fails /\ Cardinality(S) \in Nat /\ fails \in Nat
    <3>1. IsFiniteSet(1..3) /\ S \subseteq 1..3
      BY <2>1, ThreeFinite
    <3>2. IsFiniteSet(S)
      BY <3>1, FS_Subset
    <3>3. fails \in Nat
      BY <2>1, ReaderAssumption DEF ReaderTypeOK
    <3> QED  BY <2>1, <3>2, <3>3, FS_CardinalityType DEF LeftForFails
  <2> DEFINE theirs == {PIDS[k] : k \in S}
  <2>3. IsFiniteSet(theirs) /\ Cardinality(theirs) <= Cardinality(S)
    <3> HIDE DEF S
    <3> DEFINE at == [k \in S |-> PIDS[k]]
    <3>1. at \in Surjection(S, theirs)
      BY DEF Surjection
    <3> HIDE DEF at, theirs
    <3> QED  BY <2>2, <3>1, FS_Surjection
  <2>4. left \subseteq theirs
    <3> SUFFICES ASSUME NEW p \in Pid \ zombie, owner[p] \in Prog  PROVE p \in theirs
      OBVIOUS
    <3>1. PICK k \in 1..3 : owner[p] = PROG_NAMES[k]
      BY Names
    <3>2. PIDS[k] = p
      BY <2>1, <3>1 DEF OwnersListed
    <3>3. k \in S
      BY <2>1, <3>1, <3>2 DEF Alive
    <3> QED  BY <3>2, <3>3
  <2> HIDE DEF left, theirs, S
  <2>5. Cardinality(left) <= Cardinality(theirs) /\ Cardinality(left) \in Nat
        /\ Cardinality(theirs) \in Nat
    BY <2>3, <2>4, Fewer
  <2> QED  BY <2>2, <2>3, <2>5
<1> QED  BY <1>1, ReaderInductive, PTL

-----------------------------------------------------------------------------
(* Halves, sequences and counting.                                         *)

LEMMA Halves ==
  ASSUME NEW c \in Nat
  PROVE  c \div 2 \in Nat /\ c % 2 \in {0, 1} /\ c = 2 * (c \div 2) + (c % 2)
  BY SMTT(20)

LEMMA Sizes ==
  /\ Size \in Nat \ {0} /\ half \in Nat \ {0} /\ Size = 2 * half
  /\ BufSize \in Nat \ {0} /\ MaxCreateFails \in Nat
BY FileAssumption DEF half

LEMMA SeqOfFunction ==
  ASSUME NEW S, NEW n \in Nat, NEW word \in [1..n -> S]
  PROVE  word \in Seq(S) /\ Len(word) = n
<1>1. word \in Seq(S)
  OBVIOUS
<1>2. 1..Len(word) = 1..n /\ Len(word) \in Nat
  BY <1>1, LenProperties
<1>3. Len(word) = n
  <2>1. CASE Len(word) < n
    BY <1>2, <2>1
  <2>2. CASE Len(word) > n
    BY <1>2, <2>2
  <2> QED  BY <2>1, <2>2, <1>2
<1> QED  BY <1>1, <1>3

LEMMA Letters ==
  /\ Alphabet \in Seq(1..Size) /\ Len(Alphabet) = Size /\ DOMAIN Alphabet = 1..Size
  /\ \A j \in 1..Size : Alphabet[j] = j
<1>1. Size \in Nat
  BY Sizes
<1>2. Alphabet \in [1..Size -> 1..Size]
  BY DEF Alphabet
<1>3. Alphabet \in Seq(1..Size)
  BY <1>1, <1>2
<1> QED  BY <1>1, <1>2, <1>3 DEF Alphabet

\* What c - 1 letters leave with each of the two writers' streams.
LEMMA Shares ==
  ASSUME NEW c \in 1..(Size + 1)
  PROVE  /\ Sooner(c) \in Seq(1..Size) /\ Len(Sooner(c)) = c \div 2
         /\ \A m \in 1..(c \div 2) : Sooner(c)[m] = 2 * m - 1
         /\ Later(c) \in Seq(1..Size) /\ Len(Later(c)) = (c - 1) \div 2
         /\ \A m \in 1..((c - 1) \div 2) : Later(c)[m] = 2 * m
<1> DEFINE a == c \div 2
           b == (c - 1) \div 2
<1>1. /\ a \in Nat /\ b \in Nat /\ 2 * a <= c /\ 2 * b <= c - 1 /\ c \in Nat
  BY Sizes, Halves
<1>2. Sooner(c) \in [1..a -> 1..Size]
  BY <1>1, Sizes DEF Sooner
<1>3. Later(c) \in [1..b -> 1..Size]
  BY <1>1, Sizes DEF Later
<1> HIDE DEF a, b
<1>4. Sooner(c) \in Seq(1..Size) /\ Len(Sooner(c)) = a
  BY <1>1, <1>2, SeqOfFunction
<1>5. Later(c) \in Seq(1..Size) /\ Len(Later(c)) = b
  BY <1>1, <1>3, SeqOfFunction
<1> QED  BY <1>4, <1>5 DEF Sooner, Later, a, b

\* The next letter goes to the one or to the other.
LEMMA SharesGrow ==
  ASSUME NEW c \in 1..Size
  PROVE  /\ c % 2 = 1 => /\ Append(Sooner(c), c) = Sooner(c + 1)
                         /\ Later(c) = Later(c + 1)
         /\ c % 2 # 1 => /\ Append(Later(c), c) = Later(c + 1)
                         /\ Sooner(c) = Sooner(c + 1)
<1> DEFINE a == c \div 2
           b == (c - 1) \div 2
<1>1. c \in Nat /\ c - 1 \in Nat /\ c + 1 \in 1..(Size + 1) /\ c \in 1..(Size + 1)
  BY Sizes
<1>2. ASSUME c % 2 = 1
      PROVE  (c + 1) \div 2 = a + 1 /\ c \div 2 = b /\ c = 2 * a + 1
  BY <1>1, <1>2, Halves
<1>3. ASSUME c % 2 # 1
      PROVE  (c + 1) \div 2 = a /\ c \div 2 = b + 1 /\ c = 2 * b + 2
  BY <1>1, <1>3, Halves
<1>4. a \in Nat /\ b \in Nat
  BY <1>1, Halves
<1>5. ASSUME c % 2 = 1
      PROVE  Append(Sooner(c), c) = Sooner(c + 1)
  <2>1. /\ Append(Sooner(c), c) \in Seq(1..Size)
        /\ Len(Append(Sooner(c), c)) = a + 1
        /\ \A m \in 1..a : Append(Sooner(c), c)[m] = 2 * m - 1
        /\ Append(Sooner(c), c)[a + 1] = c
    <3>1. /\ Sooner(c) \in Seq(1..Size) /\ Len(Sooner(c)) = a
          /\ \A m \in 1..a : Sooner(c)[m] = 2 * m - 1
      BY <1>1, Shares
    <3> HIDE DEF a
    <3> QED  BY <3>1, AppendProperties
  <2>2. /\ Sooner(c + 1) \in Seq(1..Size) /\ Len(Sooner(c + 1)) = a + 1
        /\ \A m \in 1..(a + 1) : Sooner(c + 1)[m] = 2 * m - 1
    BY <1>1, <1>2, <1>5, Shares
  <2> HIDE DEF a, b
  <2>3. \A m \in 1..(a + 1) : Append(Sooner(c), c)[m] = Sooner(c + 1)[m]
    <3> TAKE m \in 1..(a + 1)
    <3>1. CASE m = a + 1
      BY <3>1, <2>1, <2>2, <1>2, <1>4, <1>5
    <3>2. CASE m \in 1..a
      BY <3>2, <2>1, <2>2
    <3>3. m = a + 1 \/ m \in 1..a
      BY <1>4
    <3> QED  BY <3>1, <3>2, <3>3
  <2> QED  BY <2>1, <2>2, <2>3, SeqEqual
<1>6. ASSUME c % 2 # 1
      PROVE  Append(Later(c), c) = Later(c + 1)
  <2>1. /\ Append(Later(c), c) \in Seq(1..Size)
        /\ Len(Append(Later(c), c)) = b + 1
        /\ \A m \in 1..b : Append(Later(c), c)[m] = 2 * m
        /\ Append(Later(c), c)[b + 1] = c
    <3>1. /\ Later(c) \in Seq(1..Size) /\ Len(Later(c)) = b
          /\ \A m \in 1..b : Later(c)[m] = 2 * m
      BY <1>1, Shares
    <3> HIDE DEF b
    <3> QED  BY <3>1, AppendProperties
  <2>2. /\ Later(c + 1) \in Seq(1..Size) /\ Len(Later(c + 1)) = b + 1
        /\ \A m \in 1..(b + 1) : Later(c + 1)[m] = 2 * m
    BY <1>1, <1>3, <1>6, Shares
  <2> HIDE DEF a, b
  <2>3. \A m \in 1..(b + 1) : Append(Later(c), c)[m] = Later(c + 1)[m]
    <3> TAKE m \in 1..(b + 1)
    <3>1. CASE m = b + 1
      BY <3>1, <2>1, <2>2, <1>3, <1>4, <1>6
    <3>2. CASE m \in 1..b
      BY <3>2, <2>1, <2>2
    <3>3. m = b + 1 \/ m \in 1..b
      BY <1>4
    <3> QED  BY <3>1, <3>2, <3>3
  <2> QED  BY <2>1, <2>2, <2>3, SeqEqual
<1>7. c % 2 = 1 => Later(c) = Later(c + 1)
  BY <1>2 DEF Later
<1>8. c % 2 # 1 => Sooner(c) = Sooner(c + 1)
  BY <1>3 DEF Sooner
<1> QED  BY <1>5, <1>6, <1>7, <1>8

\* What a write at p leaves.
LEMMA Overwrites ==
  ASSUME file \in Seq(0..Size), NEW p \in 0..Len(file), NEW letters \in Seq(1..Size)
  PROVE  /\ WriteAt(p, letters) \in Seq(0..Size)
         /\ Len(WriteAt(p, letters)) = IF p + Len(letters) > Len(file) THEN p + Len(letters)
                                       ELSE Len(file)
         /\ \A j \in 1..Len(WriteAt(p, letters)) :
              WriteAt(p, letters)[j] = IF j \in (p + 1)..(p + Len(letters)) THEN letters[j - p]
                                       ELSE file[j]
<1> DEFINE l == Len(letters)
           n == Len(file)
           x == SubSeq(file, 1, p)
           y == x \o letters
           z == SubSeq(file, p + l + 1, n)
<1>1. l \in Nat /\ n \in Nat /\ p \in Nat /\ p <= n /\ letters \in Seq(0..Size)
  BY Sizes, SeqMonotonic
<1>2. /\ x \in Seq(0..Size) /\ Len(x) = p /\ \A j \in 1..p : x[j] = file[j]
  <2>1. \A j \in 1..Len(file) : file[j] \in 0..Size
    BY ElementOfSeq
  <2> QED  BY <2>1, <1>1, SubSeqProperties
<1>3. /\ z \in Seq(0..Size) /\ Len(z) = (IF p + l + 1 <= n THEN n - (p + l) ELSE 0)
      /\ \A j \in 1..Len(z) : z[j] = file[p + l + j]
  <2>1. \A j \in 1..Len(file) : file[j] \in 0..Size
    BY ElementOfSeq
  <2>2. /\ z \in Seq(0..Size)
        /\ Len(z) = (IF p + l + 1 <= n THEN n - (p + l + 1) + 1 ELSE 0)
        /\ \A j \in 1..(n - (p + l + 1) + 1) : z[j] = file[p + l + 1 + j - 1]
    BY <2>1, <1>1, SubSeqProperties
  <2> HIDE DEF l, n, z
  <2> QED  BY <2>2, <1>1
<1>4. /\ y \in Seq(0..Size) /\ Len(y) = p + l
      /\ \A j \in 1..(p + l) : y[j] = IF j <= p THEN file[j] ELSE letters[j - p]
  <2>1. /\ y \in Seq(0..Size) /\ Len(y) = Len(x) + l
        /\ \A j \in 1..(Len(x) + l) : y[j] = IF j <= Len(x) THEN x[j] ELSE letters[j - Len(x)]
    BY <1>1, <1>2, ConcatProperties
  <2> HIDE DEF l, x, y
  <2> QED  BY <2>1, <1>1, <1>2
<1>5. /\ y \o z \in Seq(0..Size) /\ Len(y \o z) = Len(y) + Len(z)
      /\ \A j \in 1..(Len(y) + Len(z)) : (y \o z)[j] = IF j <= Len(y) THEN y[j] ELSE z[j - Len(y)]
  BY <1>3, <1>4, ConcatProperties
<1>6. WriteAt(p, letters) = y \o z
  BY DEF WriteAt
<1> HIDE DEF l, n, x, y, z
<1>7. Len(y \o z) = IF p + l > n THEN p + l ELSE n
  BY <1>1, <1>3, <1>4, <1>5
<1>8. ASSUME NEW j \in 1..Len(y \o z)
      PROVE  (y \o z)[j] = IF j \in (p + 1)..(p + l) THEN letters[j - p] ELSE file[j]
  <2>1. CASE j <= p + l
    BY <2>1, <1>1, <1>4, <1>5
  <2>2. CASE j > p + l
    <3>0. j \in 1..(Len(y) + Len(z)) /\ Len(y) = p + l /\ p + l \in Nat /\ Len(z) \in Nat
      BY <1>1, <1>3, <1>4, <1>5
    <3>1. (y \o z)[j] = z[j - (p + l)] /\ j - (p + l) \in 1..Len(z)
      BY <2>2, <3>0, <1>5
    <3>2. z[j - (p + l)] = file[p + l + (j - (p + l))]
      BY <3>1, <1>3
    <3>3. p + l + (j - (p + l)) = j
      BY <1>1
    <3> QED  BY <3>1, <3>2, <3>3, <2>2, <1>1
  <2> QED  BY <2>1, <2>2, <1>1, <1>7
<1> QED  BY <1>5, <1>6, <1>7, <1>8 DEF l, n

\* What a stream has printed grows by what is printed of it.
LEMMA Counted ==
  ASSUME NEW q, NEW s, NEW m \in Nat
  PROVE  Count(q, s, m) \in Nat /\ IsFiniteSet({j \in 1..m : q[j].from = s})
<1>1. IsFiniteSet(1..m)
  BY FS_Interval
<1>2. {j \in 1..m : q[j].from = s} \in SUBSET (1..m)
  OBVIOUS
<1>3. IsFiniteSet({j \in 1..m : q[j].from = s})
  BY <1>1, <1>2, FS_Subset
<1> QED  BY <1>3, FS_CardinalityType DEF Count

LEMMA CountAppend ==
  ASSUME NEW S, NEW q \in Seq(S), NEW e \in S, NEW s
  PROVE  /\ \A m \in 0..Len(q) : Count(Append(q, e), s, m) = Count(q, s, m)
         /\ Count(Append(q, e), s, Len(q) + 1)
              = IF e.from = s THEN Count(q, s, Len(q)) + 1 ELSE Count(q, s, Len(q))
<1> DEFINE n == Len(q)
           r == Append(q, e)
           L == {j \in 1..n : q[j].from = s}
<1>1. n \in Nat /\ (\A j \in 1..n : r[j] = q[j]) /\ r[n + 1] = e
  BY AppendProperties
<1>2. IsFiniteSet(L)
  BY <1>1, Counted
<1> HIDE DEF n, r
<1>3. ASSUME NEW m \in 0..n
      PROVE  Count(r, s, m) = Count(q, s, m)
  <2>1. \A j \in 1..m : r[j] = q[j]
    BY <1>1
  <2>2. {j \in 1..m : r[j].from = s} = {j \in 1..m : q[j].from = s}
    BY <2>1
  <2> QED  BY <2>2 DEF Count
<1>4. CASE e.from = s
  <2>1. {j \in 1..(n + 1) : r[j].from = s} = L \cup {n + 1}
    BY <1>1, <1>4
  <2>2. n + 1 \notin L
    BY <1>1
  <2>3. Cardinality(L \cup {n + 1}) = Cardinality(L) + 1
    BY <1>2, <2>2, FS_AddElement, Zenon
  <2> QED  BY <1>3, <1>4, <2>1, <2>3 DEF Count, n, r
<1>5. CASE e.from # s
  <2>1. {j \in 1..(n + 1) : r[j].from = s} = L
    BY <1>1, <1>5
  <2> QED  BY <1>3, <1>5, <2>1 DEF Count, n, r
<1> QED  BY <1>4, <1>5

-----------------------------------------------------------------------------
(* 1.c: letters move from the file to a FILE's buffer, and from there to   *)
(* stdout.                                                                 *)

Letter == [from : Stream, c : {Garbage} \cup (1..Size)]

\* SharedOffset, of what is printed, the two buffers and the one offset.
Shared(o, b, p) ==
  /\ p <= Size /\ Len(o) + Len(b[1]) + Len(b[2]) = p
  /\ {e.c : e \in Range(o)} \cup Range(b[1]) \cup Range(b[2]) = 1..p
  /\ \A j, k \in DOMAIN o : j < k /\ o[j].from = o[k].from => o[j].c < o[k].c
  /\ \A s \in Stream : Increasing(b[s])
  /\ \A j \in DOMAIN o : \A k \in DOMAIN b[o[j].from] : o[j].c < b[o[j].from][k]

LEMMA FillKeeps ==
  ASSUME NEW o \in Seq(Letter), NEW b \in [Stream -> Seq(1..Size)], NEW p \in Nat,
         Shared(o, b, p), NEW s \in Stream, b[s] = <<>>,
         NEW word \in Seq(1..Size), p + Len(word) <= Size, \A k \in 1..Len(word) : word[k] = p + k
  PROVE  Shared(o, [b EXCEPT ![s] = word], p + Len(word))
<1> DEFINE g == [b EXCEPT ![s] = word]
           n == Len(word)
<1>1. /\ g \in [Stream -> Seq(1..Size)] /\ g[s] = word
      /\ \A r \in Stream \ {s} : g[r] = b[r]
  OBVIOUS
<1>2. n \in Nat /\ DOMAIN word = 1..n /\ Len(o) \in Nat /\ DOMAIN o = 1..Len(o)
  BY LenProperties
<1>3. Len(b[s]) = 0 /\ Range(b[s]) = {} /\ Range(word) = (p + 1)..(p + n)
  <2>1. Len(b[s]) = 0 /\ Range(b[s]) = {}
    BY DEF Range
  <2>2. ASSUME NEW x \in Range(word)
        PROVE  x \in (p + 1)..(p + n)
    BY <1>2 DEF Range
  <2>3. ASSUME NEW x \in (p + 1)..(p + n)
        PROVE  x \in Range(word)
    <3>1. x - p \in 1..n /\ word[x - p] = x
      BY <1>2
    <3> QED  BY <3>1, <1>2 DEF Range
  <2> QED  BY <2>1, <2>2, <2>3
<1>4. \A r \in Stream : Len(b[r]) \in Nat /\ DOMAIN b[r] = 1..Len(b[r])
  BY LenProperties
<1>5. \A j \in DOMAIN o : o[j].from \in Stream /\ o[j].c \in 1..p
  <2> TAKE j \in DOMAIN o
  <2>1. o[j] \in Letter
    BY <1>2, ElementOfSeq
  <2>2. o[j] \in Range(o)
    BY DEF Range
  <2> QED  BY <2>1, <2>2 DEF Shared, Letter
<1> HIDE DEF g, n
<1>6. p + n <= Size /\ Len(o) + Len(g[1]) + Len(g[2]) = p + n
  <2> DEFINE x == Len(o)
  <2>0. p + n <= Size /\ x + Len(b[1]) + Len(b[2]) = p /\ x \in Nat
    BY <1>2 DEF Shared, n
  <2> HIDE DEF x
  <2>1. CASE s = 1
    <3>1. g[1] = word /\ g[2] = b[2] /\ Len(b[1]) = 0
      BY <2>1, <1>1, <1>3 DEF Stream
    <3>2. PICK k \in Nat : Len(b[2]) = k /\ Len(g[2]) = k /\ Len(g[1]) = n
      BY <3>1, <1>4 DEF Stream, n
    <3>3. x + k = p
      BY <3>1, <3>2, <2>0, <1>2
    <3>4. x + n + k = p + n
      BY <3>3, <2>0, <1>2
    <3> QED  BY <3>2, <3>4, <2>0 DEF x
  <2>2. CASE s = 2
    <3>1. g[2] = word /\ g[1] = b[1] /\ Len(b[2]) = 0
      BY <2>2, <1>1, <1>3 DEF Stream
    <3>2. PICK k \in Nat : Len(b[1]) = k /\ Len(g[1]) = k /\ Len(g[2]) = n
      BY <3>1, <1>4 DEF Stream, n
    <3>3. x + k = p
      BY <3>1, <3>2, <2>0, <1>2
    <3>4. x + k + n = p + n
      BY <3>3, <2>0, <1>2
    <3> QED  BY <3>2, <3>4, <2>0 DEF x
  <2> QED  BY <2>1, <2>2 DEF Stream
<1>7. {e.c : e \in Range(o)} \cup Range(g[1]) \cup Range(g[2]) = 1..(p + n)
  <2>1. {e.c : e \in Range(o)} \cup Range(b[1]) \cup Range(b[2]) = 1..p
    BY DEF Shared
  <2>2. 1..(p + n) = (1..p) \cup ((p + 1)..(p + n))
    BY <1>2
  <2> DEFINE O == {e.c : e \in Range(o)}
  <2> HIDE DEF O
  <2>3. CASE s = 1
    <3>1. g[1] = word /\ g[2] = b[2]
      BY <2>3, <1>1 DEF Stream
    <3>2. O \cup {} \cup Range(b[2]) = 1..p
      BY <2>1, <2>3, <1>3 DEF O
    <3>3. O \cup Range(word) \cup Range(b[2]) = 1..(p + n)
      BY <3>2, <2>2, <1>3
    <3> QED  BY <3>1, <3>3 DEF O
  <2>4. CASE s = 2
    <3>1. g[2] = word /\ g[1] = b[1]
      BY <2>4, <1>1 DEF Stream
    <3>2. O \cup Range(b[1]) \cup {} = 1..p
      BY <2>1, <2>4, <1>3 DEF O
    <3>3. O \cup Range(b[1]) \cup Range(word) = 1..(p + n)
      BY <3>2, <2>2, <1>3
    <3> QED  BY <3>1, <3>3 DEF O
  <2> QED  BY <2>3, <2>4 DEF Stream
<1>8. \A r \in Stream : Increasing(g[r])
  <2>1. Increasing(word)
    BY <1>2 DEF Increasing, n
  <2> QED  BY <2>1, <1>1 DEF Shared
<1>9. \A j \in DOMAIN o : \A k \in DOMAIN g[o[j].from] : o[j].c < g[o[j].from][k]
  <2> TAKE j \in DOMAIN o
  <2> TAKE k \in DOMAIN g[o[j].from]
  <2>1. CASE o[j].from = s
    <3>1. k \in 1..n /\ word[k] = p + k
      BY <2>1, <1>1, <1>2 DEF n
    <3> QED  BY <3>1, <2>1, <1>1, <1>5
  <2>2. CASE o[j].from # s
    BY <2>2, <1>1, <1>5 DEF Shared
  <2> QED  BY <2>1, <2>2
<1> QED  BY <1>6, <1>7, <1>8, <1>9 DEF Shared, g, n

LEMMA HandKeeps ==
  ASSUME NEW o \in Seq(Letter), NEW b \in [Stream -> Seq(1..Size)], NEW p \in Nat,
         Shared(o, b, p), NEW s \in Stream, b[s] # <<>>
  PROVE  Shared(Append(o, [from |-> s, c |-> Head(b[s])]), [b EXCEPT ![s] = Tail(b[s])], p)
<1> DEFINE e == [from |-> s, c |-> Head(b[s])]
           q == Append(o, e)
           g == [b EXCEPT ![s] = Tail(b[s])]
           n == Len(o)
           h == Head(b[s])
           t == Tail(b[s])
           l == Len(b[s])
<1>1. /\ b[s] \in Seq(1..Size) /\ l \in Nat \ {0} /\ DOMAIN b[s] = 1..l
      /\ h \in 1..Size /\ h = b[s][1]
      /\ t \in Seq(1..Size) /\ Len(t) = l - 1 /\ DOMAIN t = 1..(l - 1)
      /\ \A nth \in 1..(l - 1) : t[nth] = b[s][nth + 1]
  <2>1. b[s] \in Seq(1..Size) /\ l \in Nat \ {0} /\ DOMAIN b[s] = 1..l
    BY EmptySeq, LenProperties
  <2>2. /\ h \in 1..Size /\ t \in Seq(1..Size) /\ Len(t) = l - 1
        /\ \A nth \in 1..Len(t) : t[nth] = b[s][nth + 1]
    BY <2>1, HeadTailProperties
  <2>3. DOMAIN t = 1..Len(t)
    BY <2>2, LenProperties
  <2>4. h = b[s][1]
    <3>1. l \in 1..l /\ 1 \in 1..l
      BY <2>1
    <3>2. Head(SubSeq(b[s], 1, l)) = b[s][1] /\ SubSeq(b[s], 1, l) = b[s]
      BY <3>1, <2>1, HeadTailOfSubSeq, SubSeqFull
    <3> QED  BY <3>2
  <2> HIDE DEF h, t, l
  <2> QED  BY <2>1, <2>2, <2>3, <2>4
<1>2. e \in Letter /\ e.from = s /\ e.c = h
  BY <1>1 DEF Letter
<1>3. /\ n \in Nat /\ DOMAIN o = 1..n /\ q \in Seq(Letter) /\ Len(q) = n + 1
      /\ DOMAIN q = 1..(n + 1) /\ \A nth \in 1..n : q[nth] = o[nth]
      /\ q[n + 1] = e
  <2> HIDE DEF e
  <2> QED  BY <1>2, AppendProperties, LenProperties
<1>4. g[s] = t /\ \A r \in Stream \ {s} : g[r] = b[r]
  OBVIOUS
<1>5. \A r \in Stream : Len(b[r]) \in Nat
  BY LenProperties
<1>6. Range(b[s]) = {h} \cup Range(t)
  <2>1. ASSUME NEW x \in Range(b[s])
        PROVE  x = h \/ x \in Range(t)
    <3>1. PICK nth \in 1..l : x = b[s][nth]
      BY <1>1 DEF Range
    <3>2. CASE nth = 1
      BY <3>1, <3>2, <1>1
    <3>3. CASE nth # 1
      <4>1. nth - 1 \in 1..(l - 1) /\ t[nth - 1] = b[s][(nth - 1) + 1] /\ (nth - 1) + 1 = nth
        BY <3>3, <1>1
      <4> QED  BY <4>1, <3>1, <1>1 DEF Range
    <3> QED  BY <3>2, <3>3
  <2>2. ASSUME NEW x \in Range(t)
        PROVE  x \in Range(b[s])
    <3>1. PICK nth \in 1..(l - 1) : x = b[s][nth + 1]
      BY <1>1 DEF Range
    <3>2. nth + 1 \in 1..l
      BY <1>1
    <3> QED  BY <3>1, <3>2, <1>1 DEF Range
  <2>3. h \in Range(b[s])
    <3>1. 1 \in DOMAIN b[s]
      BY <1>1
    <3> QED  BY <3>1, <1>1 DEF Range
  <2> QED  BY <2>1, <2>2, <2>3
<1>7. {d.c : d \in Range(q)} = {d.c : d \in Range(o)} \cup {h}
  <2>1. Range(q) = Range(o) \cup {e}
    <3> HIDE DEF e, q, n
    <3>1. {q[nth] : nth \in 1..(n + 1)} = {q[nth] : nth \in 1..n} \cup {q[n + 1]}
      BY <1>3
    <3>2. {q[nth] : nth \in 1..n} = {o[nth] : nth \in 1..n}
      BY <1>3
    <3> QED  BY <3>1, <3>2, <1>3 DEF Range
  <2> HIDE DEF e, q
  <2> QED  BY <2>1, <1>2
<1>8. \A j \in 1..n : o[j].from \in Stream
  <2> TAKE j \in 1..n
  <2>1. o[j] \in Letter
    BY <1>3, ElementOfSeq
  <2> QED  BY <2>1 DEF Letter
<1>9. \A j \in 1..n : o[j].from = s => o[j].c < h
  <2> TAKE j \in 1..n
  <2> HAVE o[j].from = s
  <2>1. 1 \in DOMAIN b[o[j].from] /\ j \in DOMAIN o
    BY <1>1, <1>3
  <2>2. o[j].c < b[o[j].from][1]
    BY <2>1 DEF Shared
  <2> QED  BY <2>2, <1>1
<1>10. \A nth \in 1..(l - 1) : h < t[nth]
  <2> TAKE nth \in 1..(l - 1)
  <2>1. nth + 1 \in 1..l /\ 1 \in 1..l /\ 1 < nth + 1
    BY <1>1
  <2>2. Increasing(b[s])
    BY DEF Shared
  <2> QED  BY <2>1, <2>2, <1>1 DEF Increasing
<1> HIDE DEF e, q, g, n, h, t, l
<1>11. p <= Size /\ Len(q) + Len(g[1]) + Len(g[2]) = p
  <2>1. p <= Size /\ n + Len(b[1]) + Len(b[2]) = p
    BY DEF Shared, n
  <2>2. CASE s = 1
    <3>1. g[1] = t /\ g[2] = b[2] /\ Len(b[1]) = l
      BY <2>2, <1>4 DEF Stream, l
    <3>2. PICK k \in Nat : Len(b[2]) = k /\ Len(g[2]) = k /\ Len(g[1]) = l - 1
      BY <3>1, <1>1, <1>5 DEF Stream
    <3>3. n + l + k = p
      BY <3>1, <3>2, <2>1, <1>1, <1>3
    <3>4. (n + 1) + (l - 1) + k = p
      BY <3>3, <1>1, <1>3
    <3> QED  BY <3>2, <3>4, <2>1, <1>3
  <2>3. CASE s = 2
    <3>1. g[2] = t /\ g[1] = b[1] /\ Len(b[2]) = l
      BY <2>3, <1>4 DEF Stream, l
    <3>2. PICK k \in Nat : Len(b[1]) = k /\ Len(g[1]) = k /\ Len(g[2]) = l - 1
      BY <3>1, <1>1, <1>5 DEF Stream
    <3>3. n + l + k = p
      BY <3>1, <3>2, <2>1, <1>1, <1>3
    <3>4. (n + 1) + k + (l - 1) = p
      BY <3>3, <1>1, <1>3
    <3> QED  BY <3>2, <3>4, <2>1, <1>3
  <2> QED  BY <2>2, <2>3 DEF Stream
<1>12. {d.c : d \in Range(q)} \cup Range(g[1]) \cup Range(g[2]) = 1..p
  <2> DEFINE O == {d.c : d \in Range(o)}
             Q == {d.c : d \in Range(q)}
  <2>1. O \cup Range(b[1]) \cup Range(b[2]) = 1..p /\ Q = O \cup {h}
    BY <1>7 DEF Shared
  <2> HIDE DEF O, Q
  <2>2. CASE s = 1
    <3>1. g[1] = t /\ g[2] = b[2] /\ Range(b[1]) = {h} \cup Range(t)
      BY <2>2, <1>4, <1>6 DEF Stream
    <3>2. Q \cup Range(g[1]) \cup Range(g[2]) = 1..p
      BY <3>1, <2>1
    <3> QED  BY <3>2 DEF Q
  <2>3. CASE s = 2
    <3>1. g[2] = t /\ g[1] = b[1] /\ Range(b[2]) = {h} \cup Range(t)
      BY <2>3, <1>4, <1>6 DEF Stream
    <3>2. Q \cup Range(g[1]) \cup Range(g[2]) = 1..p
      BY <3>1, <2>1
    <3> QED  BY <3>2 DEF Q
  <2> QED  BY <2>2, <2>3 DEF Stream
<1>13. \A j, k \in DOMAIN q : j < k /\ q[j].from = q[k].from => q[j].c < q[k].c
  <2> TAKE j, k \in DOMAIN q
  <2> SUFFICES ASSUME j < k, q[j].from = q[k].from
               PROVE  q[j].c < q[k].c
    OBVIOUS
  <2>1. j \in 1..n /\ q[j] = o[j]
    BY <1>3
  <2>2. CASE k \in 1..n
    BY <2>1, <2>2, <1>3 DEF Shared
  <2>3. CASE k = n + 1
    BY <2>1, <2>3, <1>2, <1>3, <1>9
  <2> QED  BY <2>2, <2>3, <1>3
<1>14. \A r \in Stream : Increasing(g[r])
  <2>1. Increasing(t)
    <3> SUFFICES ASSUME NEW nth \in 1..(l - 1), NEW k \in 1..(l - 1), nth < k
                 PROVE  t[nth] < t[k]
      BY <1>1 DEF Increasing
    <3>1. nth + 1 \in 1..l /\ k + 1 \in 1..l /\ nth + 1 < k + 1
      BY <1>1
    <3>2. Increasing(b[s])
      BY DEF Shared
    <3> QED  BY <3>1, <3>2, <1>1 DEF Increasing
  <2> QED  BY <2>1, <1>4 DEF Shared
<1>15. \A j \in DOMAIN q : \A k \in DOMAIN g[q[j].from] : q[j].c < g[q[j].from][k]
  <2> TAKE j \in DOMAIN q
  <2> TAKE k \in DOMAIN g[q[j].from]
  <2>1. CASE j = n + 1
    BY <2>1, <1>1, <1>2, <1>3, <1>4, <1>10
  <2>2. CASE j \in 1..n /\ o[j].from = s
    <3>1. k \in 1..(l - 1) /\ q[j] = o[j]
      BY <2>2, <1>1, <1>3, <1>4
    <3>2. k + 1 \in 1..l /\ t[k] = b[s][k + 1]
      BY <3>1, <1>1
    <3>3. o[j].c < b[s][k + 1]
      BY <3>2, <2>2, <1>1, <1>3 DEF Shared
    <3> QED  BY <3>1, <3>2, <3>3, <2>2, <1>4
  <2>3. CASE j \in 1..n /\ o[j].from # s
    BY <2>3, <1>3, <1>4, <1>8 DEF Shared
  <2> QED  BY <2>1, <2>2, <2>3, <1>3
<1>16. Shared(q, g, p)
  BY <1>11, <1>12, <1>13, <1>14, <1>15 DEF Shared
<1> QED  BY <1>16 DEF e, q, g

-----------------------------------------------------------------------------
(* The actions.                                                            *)

\* Where main() can be tells which program it is.
LEMMA Places ==
  ASSUME FileTypeOK, ThreadsInStep
  PROVE  /\ tpc["main"] = "create" =>
              program \in {"2-2t", "2-2t-det", "2-3t", "2-3t-det"}
         /\ tpc["main"] = "turn" => program \in {"1", "2-1t"}
         /\ tpc["main"] \in {"put", "close"} => program \in Writers
         /\ tpc["main"] = "join" => program \in {"2-2t", "2-3t"}
         /\ tpc["main"] = "return" => program = "2-2t-det"
         /\ \A t \in Thread : tpc[t] \in {"read", "write"} =>
              /\ t = "main" => program \in {"2-2t", "2-2t-det"}
              /\ t = "t1" => program \in {"2-2t", "2-2t-det", "2-3t", "2-3t-det"}
              /\ t = "t2" => program \in {"2-3t", "2-3t-det"}
         /\ Reads # {} <=> program \in {"2-2t", "2-2t-det", "2-3t", "2-3t-det"}
         /\ program \in {"2-2t", "2-2t-det"} => Reads = {"main", "t1"}
         /\ program \in {"2-3t", "2-3t-det"} => Reads = {"t1", "t2"}
<1>1. /\ program \in {"2-2t", "2-2t-det"} => Reads = {"main", "t1"}
      /\ program \in {"2-3t", "2-3t-det"} => Reads = {"t1", "t2"}
      /\ program \notin {"2-2t", "2-2t-det", "2-3t", "2-3t-det"} => Reads = {}
  BY DEF Reads
<1>2. /\ program = "2-2t" => MainsPlaces = {"open", "create", "read", "write", "join", "end"}
      /\ program = "2-2t-det" => MainsPlaces = {"open", "create", "read", "write", "return", "end"}
      /\ program = "2-3t" => MainsPlaces = {"open", "create", "join", "end"}
      /\ program = "2-3t-det" => MainsPlaces = {"create", "end"}
      /\ program \in Writers => MainsPlaces = {"open", "put", "close", "end"}
      /\ program \notin {"2-2t", "2-2t-det", "2-3t", "2-3t-det"} \cup Writers =>
           MainsPlaces = {"open", "turn", "end"}
  BY DEF MainsPlaces, Writers
<1>3. tpc["main"] \in MainsPlaces /\ \A t \in Thread : tpc[t] \in {"read", "write"} => t \in Reads
  BY DEF ThreadsInStep
<1>4. program \in Program
  BY DEF FileTypeOK
<1> QED  BY <1>1, <1>2, <1>3, <1>4 DEF Thread, Program, Writers

\* What holds of one program only.
LEMMA ReadersAside ==
  ASSUME program' \in {"2-2t", "2-2t-det", "2-3t", "2-3t-det"}
  PROVE  (SharedOffset /\ SideBySide /\ ReportsInStep /\ WrittenThrough /\ WrittenAtClose)'
BY DEF SharedOffset, SideBySide, ReportsInStep, WrittenThrough, WrittenAtClose, Writers

\* The readers' part, as far as the threads are concerned.
LEMMA SameLetters ==
  ASSUME EachInOrder, program' = program, exists' = exists, out' = out, pos' = pos, got' = got,
         \A t \in Thread : tpc'[t] = "write" => tpc[t] = "write",
         \A t \in Thread : Stale(t) => Stale(t)',
         ~Ended' => ~Ended /\ \A t \in Thread : tpc[t] = "write" => tpc'[t] = "write",
         Reads # {} /\ exists =>
           \A t \in Reads : tpc'[t] \in {"return", "end"} /\ createFails' = 0
                              /\ (program = "2-2t-det" => t = "main") =>
             PrintedBy(StreamOf(t)) = Size
  PROVE  EachInOrder'
<1>1. Reads' = Reads /\ InOrder' = InOrder /\ Reads \subseteq Thread
  BY DEF Reads, InOrder, Thread, Unread
<1>2. \A t \in Thread : StreamOf(t)' = StreamOf(t) /\ PrintedBy(StreamOf(t))' = PrintedBy(StreamOf(t))
  BY DEF StreamOf, PrintedBy
<1> QED  BY <1>1, <1>2 DEF EachInOrder

\* Only after main() has returned is the frame gone, and only for the thread.
LEMMA Fresh ==
  ASSUME FileTypeOK, ThreadsInStep,
         \/ tpc["main"] \notin {"return", "end"}
         \/ tpc["t1"] \notin {"write", "end"}
         \/ program # "2-2t-det"
  PROVE  \A t : ~Stale(t)
BY DEF Stale

LEMMA CreatePreserves == ASSUME FileInv, Create
                         PROVE  FileInv'
<1>1. program \in {"2-2t", "2-2t-det", "2-3t", "2-3t-det"} /\ program' = program
  BY Places DEF FileInv, Create
<1>2. FileTypeOK /\ ThreadsInStep /\ EachInOrder
  BY DEF FileInv
<1>3. /\ tpc \in [Thread -> {"none", "open", "create", "turn", "read", "write", "put",
                             "close", "join", "return", "end"}]
      /\ tpc["main"] = "create" /\ turn \in Stream /\ createFails \in 0..MaxCreateFails
  BY <1>2 DEF FileTypeOK, Create
<1>4. UNCHANGED <<program, exists, file, pos, buf, got, flag, out, sizes>>
  BY DEF Create
<1> DEFINE u == IF turn = 1 THEN "t1" ELSE "t2"
<1>5. tpc[u] = "none" /\ u \in Thread
  BY <1>2, <1>3 DEF ThreadsInStep, Thread, Stream
<1>6. CASE createFails < MaxCreateFails /\ createFails' = createFails + 1 /\ Exit /\ turn' = turn
  <2>1. tpc' = [t \in Thread |-> "end"]
    BY <1>6 DEF Exit
  <2>2. FileTypeOK'
    BY <1>2, <1>4, <1>6, <2>1, Sizes DEF FileTypeOK, Thread
  <2>3. ThreadsInStep'
    <3>1. tpc'["main"] \in MainsPlaces'
      BY <1>1, <2>1 DEF MainsPlaces, Thread, Writers
    <3>2. Reads' = Reads
      BY <1>1, <1>4 DEF Reads
    <3> QED  BY <1>1, <1>2, <1>3, <1>4, <3>2, <1>6, <2>1, <3>1 DEF ThreadsInStep, Thread
  <2>4. EachInOrder'
    <3>1. createFails' # 0 /\ Ended'
      BY <1>3, <1>6, <2>1 DEF Ended
    <3>2. \A t \in Thread : tpc'[t] = "end"
      BY <2>1
    <3> QED  BY <1>2, <1>3, <1>4, <3>1, <3>2, SameLetters, Fresh
  <2> QED  BY <1>1, <2>2, <2>3, <2>4, ReadersAside DEF FileInv
<1>7. CASE /\ tpc' = [tpc EXCEPT ![u] = "read",
                                 !["main"] = IF program \in {"2-3t", "2-3t-det"} /\ turn = 1
                                             THEN "create"
                                             ELSE CASE program = "2-3t" -> "join"
                                                    [] program = "2-3t-det" -> "end"
                                                    [] OTHER -> "read"]
           /\ turn' = IF tpc'["main"] = "create" THEN 2 ELSE 1
           /\ UNCHANGED createFails
  <2> DEFINE v == tpc'["main"]
  <2>1. /\ program \in {"2-3t", "2-3t-det"} /\ turn = 1 => v = "create" /\ turn' = 2
        /\ program \in {"2-2t", "2-2t-det"} => v = "read" /\ turn' = 1
        /\ program = "2-3t" /\ turn = 2 => v = "join" /\ turn' = 1
        /\ program = "2-3t-det" /\ turn = 2 => v = "end" /\ turn' = 1
        /\ tpc'[u] = "read" /\ \A t \in Thread \ {u, "main"} : tpc'[t] = tpc[t]
    BY <1>1, <1>3, <1>5, <1>7 DEF Thread, Stream
  <2>2. tpc' \in [Thread -> {"none", "open", "create", "turn", "read", "write", "put",
                             "close", "join", "return", "end"}]
    BY <1>1, <1>3, <1>5, <1>7, <2>1 DEF Thread, Stream
  <2> HIDE DEF v
  <2>3. FileTypeOK'
    BY <1>1, <1>2, <1>3, <1>4, <1>7, <2>1, <2>2 DEF FileTypeOK, Stream
  <2>4. ThreadsInStep'
    <3>1. tpc'["main"] \in MainsPlaces'
      BY <1>1, <1>3, <2>1 DEF MainsPlaces, v, Stream, Writers
    <3>2. \A t \in Thread : tpc'[t] \in {"read", "write"} => t \in Reads'
      BY <1>1, <1>2, <1>3, <2>1 DEF ThreadsInStep, Thread, Stream, Reads, v
    <3>3. program \in {"2-2t", "2-2t-det"} => turn = 1
      BY <1>2, <1>3 DEF ThreadsInStep
    <3>4. Reads' = Reads
      BY <1>1, <1>4 DEF Reads
    <3> QED  BY <1>1, <1>2, <1>3, <1>4, <3>4, <2>1, <3>1, <3>2, <3>3 DEF ThreadsInStep, Thread, Stream, v, Writers
  <2>5. EachInOrder'
    <3>1. ~Ended
      BY <1>3 DEF Ended, Thread
    <3>2. \A t \in Reads : tpc'[t] \in {"return", "end"} => tpc[t] \in {"return", "end"} /\ t # "main"
      BY <1>1, <1>3, <2>1 DEF Reads, v, Thread
    <3>3. \A t \in Thread : tpc'[t] = "write" <=> tpc[t] = "write"
      BY <1>1, <1>3, <1>5, <2>1 DEF Thread, Stream, v
    <3>4. Reads # {} /\ exists => \A t \in Reads :
             tpc'[t] \in {"return", "end"} /\ createFails' = 0 /\ (program = "2-2t-det" => t = "main") =>
             PrintedBy(StreamOf(t)) = Size
      BY <1>2, <1>3, <1>7, <3>2, Fresh DEF EachInOrder
    <3> QED  BY <1>2, <1>3, <1>4, <3>1, <3>3, <3>4, SameLetters, Fresh
  <2> QED  BY <1>1, <2>3, <2>4, <2>5, ReadersAside DEF FileInv
<1> QED  BY <1>6, <1>7 DEF Create

\* A reader that is not in its loop has taken what it has printed, and the
\* one that main() joins last has printed all.
LEMMA JoinPreserves == ASSUME FileInv, Join
                       PROVE  FileInv'
<1>1. program \in {"2-2t", "2-3t"} /\ program' = program
  BY Places DEF FileInv, Join
<1>2. FileTypeOK /\ ThreadsInStep /\ EachInOrder
  BY DEF FileInv
<1>3. /\ tpc \in [Thread -> {"none", "open", "create", "turn", "read", "write", "put",
                             "close", "join", "return", "end"}]
      /\ tpc["main"] = "join" /\ turn \in Stream
  BY <1>2 DEF FileTypeOK, Join
<1>4. UNCHANGED <<program, exists, file, pos, buf, got, flag, out, sizes, createFails>>
  BY DEF Join
<1>5. CASE program = "2-3t" /\ turn = 1
  <2>1. turn' = 2 /\ tpc' = tpc /\ tpc["t1"] = "end"
    BY <1>5 DEF Join, TwiceThen
  <2>2. FileTypeOK' /\ ThreadsInStep'
    <3>1. MainsPlaces' = MainsPlaces /\ Reads' = Reads
      BY <1>1 DEF MainsPlaces, Reads, Writers
    <3> QED  BY <1>2, <1>3, <1>4, <1>5, <2>1, <3>1 DEF FileTypeOK, ThreadsInStep, Stream
  <2>3. EachInOrder'
    <3>1. Ended' <=> Ended
      BY <2>1 DEF Ended
    <3>2. Reads # {} /\ exists => \A t \in Reads :
             tpc'[t] \in {"return", "end"} /\ createFails' = 0 /\ (program = "2-2t-det" => t = "main") =>
             PrintedBy(StreamOf(t)) = Size
      BY <1>2, <1>3, <1>4, <2>1, Fresh DEF EachInOrder
    <3> QED  BY <1>2, <1>3, <1>4, <2>1, <3>1, <3>2, SameLetters, Fresh
  <2> QED  BY <1>1, <2>2, <2>3, ReadersAside DEF FileInv
<1>6. CASE program = "2-2t" \/ turn = 2
  <2>1. tpc' = [t \in Thread |-> "end"] /\ turn' \in Stream /\ (program = "2-2t" => turn' = turn)
    BY <1>3, <1>6 DEF Join, TwiceThen, Exit, Stream
  <2>2. FileTypeOK'
    BY <1>2, <1>4, <2>1 DEF FileTypeOK, Thread
  <2>3. ThreadsInStep'
    <3>1. tpc'["main"] \in MainsPlaces'
      BY <1>1, <2>1 DEF MainsPlaces, Thread, Writers
    <3>2. Reads' = Reads
      BY <1>1, <1>4 DEF Reads
    <3> QED  BY <1>1, <1>2, <1>3, <1>4, <3>2, <2>1, <3>1 DEF ThreadsInStep, Thread
  <2>4. EachInOrder'
    <3>1. Ended' /\ ~Ended /\ \A t \in Thread : tpc'[t] = "end"
      BY <1>3, <2>1 DEF Ended, Thread
    <3>2. tpc["t1"] = "end" /\ (program = "2-3t" => tpc["t2"] = "end")
      BY <1>1, <1>2, <1>3, <1>6 DEF Join, ThreadsInStep, Stream
    <3>3. program = "2-2t" /\ exists => PrintedBy(2) = Size
      <4> SUFFICES ASSUME program = "2-2t", exists
                   PROVE  PrintedBy(2) = Size
        OBVIOUS
      <4>1. pos[2] = Size
        BY <1>2, <1>3 DEF ThreadsInStep
      <4>2. Reads = {"main", "t1"} /\ StreamOf("main") = 2
        BY <1>2, Places DEF StreamOf
      <4>3. PrintedBy(2) = pos[2]
        BY <1>2, <1>3, <3>1, <4>2, Fresh DEF EachInOrder
      <4> QED  BY <4>1, <4>3
    <3>4. Reads # {} /\ exists => \A t \in Reads :
             tpc'[t] \in {"return", "end"} /\ createFails' = 0 /\ (program = "2-2t-det" => t = "main") =>
             PrintedBy(StreamOf(t)) = Size
      <4> SUFFICES ASSUME exists, NEW t \in Reads, createFails = 0
                   PROVE  PrintedBy(StreamOf(t)) = Size
        BY <1>4
      <4>1. t \in {"main", "t1", "t2"} /\ (t = "main" => program = "2-2t")
              /\ (t = "t2" => program = "2-3t")
        BY <1>1, <1>2, Places
      <4>2. CASE t = "main"
        BY <3>3, <4>1, <4>2 DEF StreamOf
      <4>3. CASE t # "main"
        BY <1>1, <1>2, <1>3, <3>2, <4>1, <4>3, Fresh DEF EachInOrder
      <4> QED  BY <4>2, <4>3
    <3> QED  BY <1>2, <1>3, <1>4, <3>1, <3>4, SameLetters, Fresh
  <2> QED  BY <1>1, <2>2, <2>3, <2>4, ReadersAside DEF FileInv
<1> QED  BY <1>1, <1>3, <1>5, <1>6 DEF Stream

LEMMA ReturnPreserves == ASSUME FileInv, Return
                         PROVE  FileInv'
<1>1. FileTypeOK /\ ThreadsInStep /\ EachInOrder /\ tpc["main"] = "return"
  BY DEF FileInv, Return
<1>2. program = "2-2t-det" /\ Reads = {"main", "t1"}
  BY <1>1, Places
<1>3. /\ UNCHANGED <<program, exists, file, pos, buf, turn, got, flag, out, sizes, createFails>>
      /\ tpc' = [t \in Thread |-> "end"]
  BY DEF Return, Exit
<1>4. FileTypeOK'
  BY <1>1, <1>3 DEF FileTypeOK, Thread
<1>5. ThreadsInStep'
  <2>1. tpc'["main"] \in MainsPlaces' /\ Reads' = Reads
    BY <1>2, <1>3 DEF MainsPlaces, Reads, Thread
  <2> QED  BY <1>1, <1>2, <1>3, <2>1 DEF ThreadsInStep, Thread, Writers
<1>6. EachInOrder'
  <2>1. Ended' /\ \A t \in Thread : tpc'[t] = "end"
    BY <1>3 DEF Ended
  <2>2. \A t \in Thread : Stale(t) => Stale(t)'
    BY <1>3 DEF Stale, Thread
  <2>3. Reads # {} /\ exists => \A t \in Reads :
           tpc'[t] \in {"return", "end"} /\ createFails' = 0 /\ (program = "2-2t-det" => t = "main")
             => PrintedBy(StreamOf(t)) = Size
    BY <1>1, <1>2, <1>3 DEF EachInOrder, Stale
  <2> QED  BY <1>1, <1>3, <2>1, <2>2, <2>3, SameLetters
<1> QED  BY <1>2, <1>3, <1>4, <1>5, <1>6, ReadersAside DEF FileInv

\* The thread has not read yet, and does not after it.
LEMMA ReadStalePreserves == ASSUME FileInv, ReadStale
                            PROVE  FileInv'
<1>1. /\ FileTypeOK /\ ThreadsInStep /\ EachInOrder
      /\ tpc["main"] = "return" /\ tpc["t1"] = "read" /\ got["t1"] = Garbage
  BY DEF FileInv, ReadStale
<1>2. program = "2-2t-det" /\ Reads = {"main", "t1"}
  BY <1>1, Places
<1>3. /\ UNCHANGED <<program, exists, file, pos, buf, turn, got, flag, out, sizes, createFails>>
      /\ tpc \in [Thread -> {"none", "open", "create", "turn", "read", "write", "put",
                             "close", "join", "return", "end"}]
  BY <1>1 DEF ReadStale, FileTypeOK
<1>4. PICK place \in {"write", "end"} : tpc' = [tpc EXCEPT !["t1"] = place]
  BY DEF ReadStale, Goto
<1>5. FileTypeOK'
  BY <1>1, <1>3, <1>4 DEF FileTypeOK
<1>6. MainsPlaces' = MainsPlaces /\ Reads' = Reads
  BY <1>2, <1>3 DEF MainsPlaces, Reads
<1>7. ThreadsInStep'
  BY <1>1, <1>2, <1>3, <1>4, <1>6 DEF ThreadsInStep, Thread, Writers
<1>8. EachInOrder'
  <2>1. InOrder' = InOrder /\ ~Ended
    <3>1. ~Ended
      BY <1>1 DEF Ended, Thread
    <3>2. InOrder' = InOrder
      BY <1>3 DEF InOrder, Unread
    <3> QED  BY <3>1, <3>2
  <2>2. Stale("t1")'
    BY <1>1, <1>2, <1>3, <1>4 DEF Stale, Thread
  <2>3. tpc'["main"] = tpc["main"] /\ ~Stale("main")
    BY <1>3, <1>4 DEF Thread, Stale
  <2>4. PrintedBy(StreamOf("main"))' = PrintedBy(StreamOf("main")) /\ StreamOf("main")' = StreamOf("main")
    BY <1>3 DEF PrintedBy, StreamOf
  <2> QED  BY <1>1, <1>2, <1>3, <1>6, <2>1, <2>2, <2>3, <2>4 DEF EachInOrder
<1> QED  BY <1>2, <1>3, <1>5, <1>7, <1>8, ReadersAside DEF FileInv

\* The read() that gives a letter, and the one that gives none.
LEMMA ReadPreserves == ASSUME FileInv, NEW t \in Thread, Read(t)
                       PROVE  FileInv'
<1> DEFINE s == StreamOf(t)
<1>1. program \in {"2-2t", "2-2t-det", "2-3t", "2-3t-det"} /\ program' = program /\ t \in Reads
  BY Places DEF FileInv, Read, ReadInto, ThreadsInStep, Thread
<1>2. FileTypeOK /\ ThreadsInStep /\ EachInOrder
  BY DEF FileInv
<1>3. /\ tpc \in [Thread -> {"none", "open", "create", "turn", "read", "write", "put",
                             "close", "join", "return", "end"}]
      /\ tpc[t] = "read" /\ s \in Stream
      /\ pos \in [Stream -> Nat] /\ got \in [Thread -> {Garbage} \cup (1..(Size + 1))]
  BY <1>2 DEF FileTypeOK, Read, ReadInto, StreamOf, Stream
<1>4. UNCHANGED <<program, exists, file, buf, turn, flag, out, sizes, createFails>>
  BY DEF Read, ReadInto
<1>5. exists => file = Alphabet /\ Len(file) = Size
  BY <1>1, <1>2, Letters DEF ThreadsInStep, Writers
<1>6. MainsPlaces' = MainsPlaces /\ Reads' = Reads
  BY <1>1 DEF MainsPlaces, Reads
<1>7. ~Ended
  BY <1>3 DEF Ended
<1>8. /\ \A r \in Reads : r # t => StreamOf(r) # s
      /\ \A r : ~Stale(r)
  <2>1. program = "2-2t-det" => t \in {"main", "t1"}
    BY <1>1, <1>2, Places
  <2>2. \A r : ~Stale(r)
    BY <1>2, <1>3, <2>1, Fresh
  <2> QED  BY <1>1, <1>2, <2>2, Places DEF StreamOf
<1>9. CASE exists /\ pos[s] < Len(file)
  <2>1. /\ got' = [got EXCEPT ![t] = pos[s] + 1] /\ pos' = [pos EXCEPT ![s] = @ + 1]
        /\ tpc' = [tpc EXCEPT ![t] = "write"] /\ pos[s] + 1 \in 1..Size
    <3>1. pos[s] + 1 \in 1..Size
      BY <1>3, <1>5, <1>9, Sizes
    <3>2. file[pos[s] + 1] = pos[s] + 1
      BY <3>1, <1>5, <1>9, Letters
    <3>3. got' = [r \in Thread |-> IF r \in {t} THEN file[pos[s] + 1] ELSE got[r]]
      BY <1>9 DEF Read, ReadInto
    <3>4. got' = [got EXCEPT ![t] = pos[s] + 1]
      BY <3>2, <3>3, <1>3
    <3> QED  BY <3>1, <3>4, <1>9 DEF Read, ReadInto, Goto
  <2>2. FileTypeOK'
    <3>1. pos[s] + 1 \in 1..(Size + 1) /\ pos[s] + 1 \in Nat
      BY <1>3, <2>1, Sizes
    <3> HIDE DEF s
    <3> QED  BY <1>2, <1>3, <1>4, <2>1, <3>1 DEF FileTypeOK
  <2>3. ThreadsInStep'
    BY <1>1, <1>2, <1>3, <1>4, <1>6, <2>1, Sizes DEF ThreadsInStep, Thread, MainsPlaces, Writers
  <2>4. EachInOrder'
    <3>1. InOrder' = InOrder /\ ~Ended' /\ exists /\ Reads # {}
      BY <1>1, <1>3, <1>4, <1>9, <2>1 DEF InOrder, Unread, Ended
    <3>2. InOrder
      BY <1>2, <3>1 DEF EachInOrder
    <3>3. ASSUME NEW r \in Reads
          PROVE  /\ pos'[StreamOf(r)] <= Size
                 /\ tpc'[r] = "write" => got'[r] = pos'[StreamOf(r)]
                 /\ PrintedBy(StreamOf(r))' = IF tpc'[r] = "write" THEN pos'[StreamOf(r)] - 1
                                           ELSE pos'[StreamOf(r)]
                 /\ tpc'[r] \in {"return", "end"} /\ createFails' = 0 /\ (program = "2-2t-det" => r = "main")
                      => PrintedBy(StreamOf(r))' = Size
      <4>1. PrintedBy(StreamOf(r))' = PrintedBy(StreamOf(r)) /\ r \in Thread /\ StreamOf(r) \in Stream
        BY <1>1, <1>2, <1>4, Places DEF PrintedBy, StreamOf, Thread, Stream
      <4>2. /\ pos[StreamOf(r)] <= Size
            /\ tpc[r] = "write" => got[r] = pos[StreamOf(r)]
            /\ PrintedBy(StreamOf(r)) = IF tpc[r] = "write" THEN pos[StreamOf(r)] - 1
                                      ELSE pos[StreamOf(r)]
            /\ tpc[r] \in {"return", "end"} /\ createFails = 0 /\ (program = "2-2t-det" => r = "main")
                 => PrintedBy(StreamOf(r)) = Size
        BY <1>2, <1>7, <1>8, <3>1 DEF EachInOrder
      <4> HIDE DEF s
      <4>3. CASE r = t
        BY <4>1, <4>2, <4>3, <1>3, <1>4, <2>1 DEF s
      <4>4. CASE r # t
        <5>1. StreamOf(r) # s
          BY <4>4, <1>8
        <5> QED  BY <4>1, <4>2, <4>4, <5>1, <1>3, <1>4, <2>1
      <4> QED  BY <4>3, <4>4
    <3>4. \A r \in Thread : StreamOf(r)' = StreamOf(r)
      BY DEF StreamOf
    <3> QED  BY <1>1, <1>4, <1>6, <3>1, <3>2, <3>3 DEF EachInOrder
  <2> QED  BY <1>1, <2>2, <2>3, <2>4, ReadersAside DEF FileInv
<1>10. CASE ~(exists /\ pos[s] < Len(file))
  <2>1. got' = got /\ pos' = pos
    BY <1>10 DEF Read, ReadInto
  <2>2. exists => /\ pos[s] = Size
                  /\ PrintedBy(s) = Size
    <3> SUFFICES ASSUME exists
                 PROVE  pos[s] = Size /\ PrintedBy(s) = Size
      OBVIOUS
    <3>1. pos[s] <= Size /\ PrintedBy(s) = pos[s]
      BY <1>1, <1>2, <1>3, <1>7, <1>8 DEF EachInOrder
    <3> HIDE DEF s
    <3> QED  BY <3>1, <1>3, <1>5, <1>10, Sizes
  <2>3. CASE ~exists /\ t # "main"
    <3>1. tpc' = [tpc EXCEPT ![t] = "write"]
      BY <1>10, <2>3 DEF Read, ReadInto, Goto
    <3>2. FileTypeOK'
      BY <1>2, <1>3, <1>4, <2>1, <3>1 DEF FileTypeOK
    <3>3. ThreadsInStep'
      BY <1>1, <1>2, <1>3, <1>4, <1>6, <2>1, <2>3, <3>1 DEF ThreadsInStep, Thread
    <3>4. EachInOrder'
      BY <1>4, <2>3 DEF EachInOrder
    <3> QED  BY <1>1, <3>2, <3>3, <3>4, ReadersAside DEF FileInv
  <2>4. CASE ~(~exists /\ t # "main")
    <3> DEFINE place == IF t # "main" THEN "end" ELSE IF program = "2-2t" THEN "join" ELSE "return"
    <3>1. tpc' = [tpc EXCEPT ![t] = place]
      BY <1>1, <1>2, <1>3, <1>10, <2>4, Places DEF Read, ReadInto, Goto, Leave
    <3>2. FileTypeOK'
      BY <1>2, <1>3, <1>4, <2>1, <3>1 DEF FileTypeOK
    <3>3. t = "main" => program \in {"2-2t", "2-2t-det"} /\ s = 2
      BY <1>1, <1>2, <1>3, <2>4, Places DEF StreamOf
    <3>4. ThreadsInStep'
      <4>1. tpc'["main"] \in MainsPlaces'
        BY <1>2, <1>3, <1>6, <3>1, <3>3 DEF ThreadsInStep, Thread, MainsPlaces
      <4>2. tpc'["main"] = "join" => (program = "2-2t" /\ (exists => pos[2] = Size))
                                     \/ tpc["main"] = "join"
        BY <1>3, <2>2, <3>1, <3>3 DEF Thread
      <4> QED  BY <1>1, <1>2, <1>3, <1>4, <1>6, <2>1, <3>1, <3>3, <4>1, <4>2 DEF ThreadsInStep, Thread
    <3>5. EachInOrder'
      <4>1. Reads # {} /\ exists => \A r \in Reads :
             tpc'[r] \in {"return", "end"} /\ createFails' = 0 /\ (program = "2-2t-det" => r = "main") =>
             PrintedBy(StreamOf(r)) = Size
        <5> SUFFICES ASSUME exists, NEW r \in Reads, tpc'[r] \in {"return", "end"}, createFails = 0,
                            program = "2-2t-det" => r = "main"
                     PROVE  PrintedBy(StreamOf(r)) = Size
          BY <1>4
        <5>1. CASE r = t
          BY <5>1, <2>2
        <5>2. CASE r # t
          <6>1. r \in Thread /\ tpc[r] \in {"return", "end"}
            BY <5>2, <1>1, <1>2, <1>3, <3>1, Places DEF Thread
          <6> QED  BY <6>1, <1>1, <1>2, <1>8 DEF EachInOrder
        <5> QED  BY <5>1, <5>2
      <4> QED  BY <1>2, <1>3, <1>4, <1>7, <1>8, <2>1, <3>1, <4>1, SameLetters
    <3> QED  BY <1>1, <3>2, <3>4, <3>5, ReadersAside DEF FileInv
  <2> QED  BY <2>3, <2>4
<1> QED  BY <1>9, <1>10

\* The letter in hand is the next that its stream prints.
LEMMA WritePreserves == ASSUME FileInv, NEW t \in Thread, Write(t)
                        PROVE  FileInv'
<1> DEFINE s == StreamOf(t)
           o == [from |-> s, c |-> got[t]]
<1>1. program \in {"2-2t", "2-2t-det", "2-3t", "2-3t-det"} /\ program' = program /\ t \in Reads
  BY Places DEF FileInv, Write, ThreadsInStep, Thread
<1>2. FileTypeOK /\ ThreadsInStep /\ EachInOrder
  BY DEF FileInv
<1>3. /\ tpc \in [Thread -> {"none", "open", "create", "turn", "read", "write", "put",
                             "close", "join", "return", "end"}]
      /\ tpc[t] = "write" /\ s \in Stream /\ out \in Seq(Letter)
      /\ pos \in [Stream -> Nat] /\ got[t] \in {Garbage} \cup (1..Size)
  <2>1. got[t] \in {Garbage} \cup (1..Size)
    BY <1>1, <1>2 DEF ThreadsInStep
  <2> QED  BY <1>2, <2>1 DEF FileTypeOK, Write, StreamOf, Stream, Letter
<1>4. UNCHANGED <<program, exists, file, pos, buf, turn, got, flag, sizes, createFails>>
  BY DEF Write
<1>5. out' = IF o.c = Garbage /\ o \in Range(out) THEN out ELSE Append(out, o)
  BY DEF Write
<1>6. MainsPlaces' = MainsPlaces /\ Reads' = Reads
  BY <1>1 DEF MainsPlaces, Reads
<1>7. o \in Letter /\ o.from = s /\ o.c = got[t]
  BY <1>3 DEF Letter
<1>8. out' \in Seq(Letter)
  <2> HIDE DEF o
  <2> QED  BY <1>3, <1>5, <1>7, AppendProperties
<1>9. ASSUME tpc' \in [Thread -> {"none", "open", "create", "turn", "read", "write", "put",
                                  "close", "join", "return", "end"}]
      PROVE  FileTypeOK'
  BY <1>2, <1>4, <1>8, <1>9 DEF FileTypeOK, Letter
<1>10. ASSUME exists, ~Stale(t)
       PROVE  FileInv'
  <2>0. /\ pos[s] <= Size /\ got[t] = pos[s] /\ PrintedBy(s) = pos[s] - 1
    <3>1. ~Ended
      BY <1>3 DEF Ended
    <3> QED  BY <1>1, <1>2, <1>3, <1>10, <3>1 DEF EachInOrder
  <2>6. got[t] # Garbage
    <3>1. Len(out) \in Nat
      BY <1>3, LenProperties
    <3>2. PrintedBy(s) \in Nat
      BY <3>1, Counted DEF PrintedBy
    <3> HIDE DEF s
    <3> QED  BY <3>2, <2>0, <1>3 DEF Garbage
  <2>1. tpc' = [tpc EXCEPT ![t] = "read"]
    BY <1>10, <2>6 DEF Write, Goto
  <2>2. FileTypeOK'
    BY <1>3, <1>9, <2>1
  <2>3. ThreadsInStep'
    <3>1. tpc["main"] # "open"
      BY <1>1, <1>2, <1>3 DEF ThreadsInStep, Thread
    <3> QED  BY <1>1, <1>2, <1>3, <1>4, <1>6, <2>1, <3>1 DEF ThreadsInStep, Thread, MainsPlaces
  <2>4. ~Ended /\ ~Ended'
    BY <1>3, <2>1 DEF Ended
  <2>5. \A r \in Reads : ~Stale(r)
    <3>1. program = "2-2t-det" => t \in {"main", "t1"}
      BY <1>1, <1>2, Places
    <3>2. \A r : r # "t1" => ~Stale(r)
      BY DEF Stale
    <3>3. t = "main" => \A r : ~Stale(r)
      BY <1>2, <1>3, Fresh
    <3>4. program # "2-2t-det" => \A r : ~Stale(r)
      BY DEF Stale
    <3> QED  BY <1>10, <3>1, <3>2, <3>3, <3>4
  <2>7. out' = Append(out, o)
    BY <1>5, <2>6
  <2>8. /\ Len(out) \in Nat /\ DOMAIN out = 1..Len(out)
        /\ Len(out') = Len(out) + 1 /\ DOMAIN out' = 1..(Len(out) + 1)
        /\ \A m \in 1..Len(out) : out'[m] = out[m]
        /\ out'[Len(out) + 1] = o
    <3> HIDE DEF o
    <3> QED  BY <2>7, <1>3, <1>7, <1>8, AppendProperties, LenProperties
  <2>9. /\ \A r, m : m \in 0..Len(out) => Count(out', r, m) = Count(out, r, m)
        /\ \A r : Count(out', r, Len(out) + 1)
                    = IF r = s THEN Count(out, r, Len(out)) + 1 ELSE Count(out, r, Len(out))
    <3> HIDE DEF o, s
    <3>1. ASSUME NEW r
          PROVE  /\ \A m \in 0..Len(out) : Count(out', r, m) = Count(out, r, m)
                 /\ Count(out', r, Len(out) + 1)
                      = IF o.from = r THEN Count(out, r, Len(out)) + 1 ELSE Count(out, r, Len(out))
      BY <2>7, <1>3, <1>7, CountAppend
    <3> QED  BY <3>1, <1>7
  <2>10. InOrder'
    <3> SUFFICES ASSUME NEW m \in 1..(Len(out) + 1)
                 PROVE  Unread(out[m])' \/ out'[m].c = Count(out', out'[m].from, m)
      BY <2>8 DEF InOrder
    <3>1. CASE m = Len(out) + 1
      <4>1. Count(out', s, m) = (pos[s] - 1) + 1
        BY <3>1, <2>0, <2>9 DEF PrintedBy
      <4>2. Count(out', s, m) = pos[s]
        <5> HIDE DEF s
        <5> QED  BY <4>1, <1>3
      <4> QED  BY <3>1, <4>2, <1>7, <2>0, <2>8
    <3>2. CASE m \in 1..Len(out)
      <4>1. Unread(out[m]) \/ out[m].c = Count(out, out[m].from, m)
        BY <3>2, <1>1, <1>2, <1>10, <2>8 DEF EachInOrder, InOrder
      <4>2. m \in 0..Len(out)
        BY <3>2, <2>8
      <4>3. Unread(out[m]) => Unread(out[m])'
        BY <3>2, <1>4, <2>8 DEF Unread
      <4> QED  BY <3>2, <4>1, <4>2, <4>3, <2>8, <2>9
    <3>3. m = Len(out) + 1 \/ m \in 1..Len(out)
      BY <2>8
    <3> QED  BY <3>1, <3>2, <3>3
  <2>11. ASSUME NEW r \in Reads
         PROVE  /\ pos'[StreamOf(r)] <= Size
                /\ tpc'[r] = "write" => got'[r] = pos'[StreamOf(r)]
                /\ PrintedBy(StreamOf(r))' = IF tpc'[r] = "write" THEN pos'[StreamOf(r)] - 1
                                          ELSE pos'[StreamOf(r)]
                /\ tpc'[r] \in {"return", "end"} /\ createFails' = 0 /\ (program = "2-2t-det" => r = "main")
                     => PrintedBy(StreamOf(r))' = Size
    <3>1. r \in Thread /\ StreamOf(r) \in Stream /\ StreamOf(r)' = StreamOf(r)
            /\ (r # t => StreamOf(r) # s)
      BY <1>1, <1>2, Places DEF StreamOf, Thread, Stream
    <3>2. /\ pos[StreamOf(r)] <= Size
          /\ tpc[r] = "write" => got[r] = pos[StreamOf(r)]
          /\ PrintedBy(StreamOf(r)) = IF tpc[r] = "write" THEN pos[StreamOf(r)] - 1
                                    ELSE pos[StreamOf(r)]
          /\ tpc[r] \in {"return", "end"} /\ createFails = 0 /\ (program = "2-2t-det" => r = "main")
               => PrintedBy(StreamOf(r)) = Size
      BY <1>1, <1>2, <1>10, <2>4, <2>5 DEF EachInOrder
    <3>3. PrintedBy(StreamOf(r))' = Count(out', StreamOf(r), Len(out) + 1)
      BY <3>1, <2>8 DEF PrintedBy
    <3>4. CASE r = t
      <4>1. Count(out', s, Len(out) + 1) = (pos[s] - 1) + 1
        BY <2>0, <2>9 DEF PrintedBy
      <4>2. Count(out', s, Len(out) + 1) = pos[s]
        <5> HIDE DEF s
        <5> QED  BY <4>1, <1>3
      <4> QED  BY <3>2, <3>3, <3>4, <4>2, <1>3, <1>4, <2>1
    <3>5. CASE r # t
      <4>1. PrintedBy(StreamOf(r))' = PrintedBy(StreamOf(r))
        BY <3>1, <3>3, <3>5, <2>9 DEF PrintedBy
      <4>2. tpc'[r] = tpc[r]
        BY <3>1, <3>5, <1>3, <2>1
      <4> QED  BY <3>2, <4>1, <4>2, <1>4
    <3> QED  BY <3>4, <3>5
  <2>12. EachInOrder'
    <3>1. \A r \in Reads : StreamOf(r)' = StreamOf(r)
      BY DEF StreamOf
    <3> QED  BY <1>1, <1>4, <1>6, <2>10, <2>11, <3>1 DEF EachInOrder
  <2> QED  BY <1>1, <2>2, <2>3, <2>12, ReadersAside DEF FileInv
<1>11. CASE ~exists
  <2>1. EachInOrder'
    BY <1>4, <1>11 DEF EachInOrder
  <2> DEFINE place == IF program = "2-3t-det" THEN "read" ELSE IF t # "main" THEN "end"
                      ELSE IF program = "2-2t" THEN "join" ELSE "return"
  <2>2. tpc' = [tpc EXCEPT ![t] = place]
    BY <1>11 DEF Write, Goto, Leave
  <2>3. FileTypeOK'
    BY <1>3, <1>9, <2>2
  <2>4. t = "main" => program \in {"2-2t", "2-2t-det"}
    BY <1>1, <1>2, <1>3, Places
  <2>5. tpc'["main"] \in MainsPlaces' /\ tpc["main"] # "open"
    BY <1>1, <1>2, <1>3, <1>6, <2>2, <2>4 DEF ThreadsInStep, Thread, MainsPlaces
  <2>6. ThreadsInStep'
    BY <1>1, <1>2, <1>3, <1>4, <1>6, <1>11, <2>2, <2>4, <2>5 DEF ThreadsInStep, Thread
  <2> QED  BY <1>1, <2>1, <2>3, <2>6, ReadersAside DEF FileInv
<1>12. ASSUME exists, Stale(t)
       PROVE  FileInv'
  <2>1. /\ program = "2-2t-det" /\ Reads = {"main", "t1"} /\ t = "t1" /\ s = 1
        /\ got[t] = Garbage /\ tpc["main"] \in {"return", "end"}
    BY <1>1, <1>2, <1>12, Places DEF Stale, StreamOf
  <2>2. tpc' = [tpc EXCEPT ![t] = "end"]
    BY <2>1 DEF Write, Goto, Leave
  <2>3. FileTypeOK'
    BY <1>3, <1>9, <2>2
  <2>4. ThreadsInStep'
    BY <1>1, <1>2, <1>3, <1>4, <1>6, <2>1, <2>2 DEF ThreadsInStep, Thread, Writers
  <2>5. InOrder' /\ PrintedBy(2)' = PrintedBy(2)
    <3>1. InOrder
      BY <1>1, <1>2, <1>12 DEF EachInOrder
    <3>2. CASE out' = out
      BY <1>4, <3>1, <3>2 DEF InOrder, Unread, PrintedBy
    <3>3. CASE out' = Append(out, o)
      <4>1. /\ Len(out) \in Nat /\ DOMAIN out = 1..Len(out)
            /\ Len(out') = Len(out) + 1 /\ DOMAIN out' = 1..(Len(out) + 1)
            /\ \A m \in 1..Len(out) : out'[m] = out[m]
            /\ out'[Len(out) + 1] = o
        <5> HIDE DEF o
        <5> QED  BY <3>3, <1>3, <1>7, <1>8, AppendProperties, LenProperties
      <4>2. ASSUME NEW r
            PROVE  /\ \A m \in 0..Len(out) : Count(out', r, m) = Count(out, r, m)
                   /\ Count(out', r, Len(out) + 1)
                        = IF o.from = r THEN Count(out, r, Len(out)) + 1 ELSE Count(out, r, Len(out))
        <5> HIDE DEF o
        <5> QED  BY <3>3, <1>3, <1>7, CountAppend
      <4>3. PrintedBy(2)' = PrintedBy(2)
        BY <2>1, <4>1, <4>2 DEF PrintedBy
      <4>4. ASSUME NEW m \in 1..(Len(out) + 1)
            PROVE  Unread(out[m])' \/ out'[m].c = Count(out', out'[m].from, m)
        <5>1. CASE m = Len(out) + 1
          BY <5>1, <1>4, <2>1, <4>1 DEF Unread
        <5>2. CASE m \in 1..Len(out)
          <6>1. Unread(out[m]) \/ out[m].c = Count(out, out[m].from, m)
            BY <5>2, <3>1, <4>1 DEF InOrder
          <6>2. m \in 0..Len(out) /\ out'[m] = out[m]
            BY <5>2, <4>1
          <6>3. Unread(out[m]) => Unread(out[m])'
            BY <6>2, <1>4 DEF Unread
          <6>4. Count(out', out[m].from, m) = Count(out, out[m].from, m)
            BY <6>2, <4>2
          <6> QED  BY <6>1, <6>2, <6>3, <6>4
        <5>3. m = Len(out) + 1 \/ m \in 1..Len(out)
          BY <4>1
        <5> QED  BY <5>1, <5>2, <5>3
      <4>5. InOrder'
        BY <4>1, <4>4 DEF InOrder
      <4> QED  BY <4>3, <4>5
    <3> QED  BY <1>5, <3>2, <3>3
  <2>6. EachInOrder'
    <3>1. Stale("t1")'
      BY <1>3, <1>4, <1>12, <2>1, <2>2 DEF Stale, Thread
    <3>2. /\ StreamOf("main") = 2 /\ StreamOf("main")' = 2 /\ tpc'["main"] = tpc["main"]
          /\ tpc["main"] # "write" /\ ~Ended /\ ~Stale("main")
      BY <1>3, <2>1, <2>2 DEF StreamOf, Thread, Ended, Stale
    <3>3. /\ pos[2] <= Size /\ PrintedBy(2) = pos[2]
          /\ tpc["main"] \in {"return", "end"} /\ createFails = 0 => PrintedBy(2) = Size
      BY <1>1, <1>2, <1>12, <2>1, <3>2 DEF EachInOrder
    <3> QED  BY <1>4, <1>6, <2>1, <2>5, <3>1, <3>2, <3>3 DEF EachInOrder
  <2> QED  BY <1>1, <2>3, <2>4, <2>6, ReadersAside DEF FileInv
<1> QED  BY <1>10, <1>11, <1>12

\* What a FILE of 1.c has for its stream after it has, perhaps, read ahead.
LEMMA FilledKeeps ==
  ASSUME FileInv, program = "1", exists, NEW s \in Stream
  PROVE  LET n == IF buf[s] = <<>> THEN Len(Filled(s)) ELSE 0
         IN /\ Filled(s) \in Seq(1..Size) /\ n \in Nat
            /\ Shared(out, [buf EXCEPT ![s] = Filled(s)], pos[1] + n)
            /\ Filled(s) = <<>> => buf[s] = <<>> /\ n = 0 /\ pos[1] = Size
<1> DEFINE word == Filled(s)
           p == pos[1]
<1>1. /\ file = Alphabet /\ p \in Nat /\ buf \in [Stream -> Seq(1..Size)] /\ out \in Seq(Letter)
      /\ Size \in Nat /\ BufSize \in Nat \ {0}
  BY Sizes DEF FileInv, FileTypeOK, ThreadsInStep, Writers, Stream, Letter
<1>2. Shared(out, buf, p)
  BY DEF FileInv, SharedOffset, Shared
<1>3. CASE buf[s] # <<>>
  <2>1. word = buf[s] /\ word \in Seq(1..Size) /\ [buf EXCEPT ![s] = word] = buf /\ p + 0 = p
    BY <1>1, <1>3 DEF Filled
  <2> HIDE DEF word, p
  <2> QED  BY <1>2, <1>3, <2>1 DEF word, p
<1>4. CASE buf[s] = <<>>
  <2> DEFINE left == Size - p
             n == IF left < BufSize THEN left ELSE BufSize
  <2>1. left \in Nat /\ n \in Nat /\ p + n <= Size /\ (n = 0 => p = Size)
    BY <1>1, <1>2 DEF Shared
  <2>2. word = SubSeq(Alphabet, p + 1, p + n)
    BY <1>1, <1>4, Letters DEF Filled
  <2> HIDE DEF word, p, n, left
  <2>3. /\ word \in Seq(1..Size) /\ Len(word) = n /\ \A k \in 1..n : word[k] = p + k
    <3>1. \A j \in (p + 1)..(p + n) : Alphabet[j] = j /\ j \in 1..Size
      BY <1>1, <2>1, Letters
    <3>2. /\ SubSeq(Alphabet, p + 1, p + n) \in Seq(1..Size)
          /\ Len(SubSeq(Alphabet, p + 1, p + n))
               = IF p + 1 <= p + n THEN (p + n) - (p + 1) + 1 ELSE 0
          /\ \A k \in 1..((p + n) - (p + 1) + 1) :
               SubSeq(Alphabet, p + 1, p + n)[k] = Alphabet[p + 1 + k - 1]
      <4> DEFINE a == p + 1
                 b == p + n
                 T == 1..Size
      <4>1. a \in Int /\ b \in Int
        BY <1>1, <2>1
      <4>2. \A j \in a..b : Alphabet[j] \in T
        BY <3>1
      <4> HIDE DEF a, b, T
      <4>3. /\ SubSeq(Alphabet, a, b) \in Seq(T)
            /\ Len(SubSeq(Alphabet, a, b)) = IF a <= b THEN b - a + 1 ELSE 0
            /\ \A k \in 1..(b - a + 1) : SubSeq(Alphabet, a, b)[k] = Alphabet[a + k - 1]
        BY <4>1, <4>2, SubSeqProperties
      <4> QED  BY <4>3, Zenon DEF a, b, T
    <3>3. (p + n) - (p + 1) + 1 = n /\ (p + 1 <= p + n <=> n # 0)
      BY <1>1, <2>1
    <3>4. \A k \in 1..n : p + 1 + k - 1 = p + k /\ p + k \in (p + 1)..(p + n)
      BY <1>1, <2>1
    <3>5. Len(word) = n
      BY <2>2, <3>2, <3>3, <2>1
    <3> QED  BY <2>2, <3>1, <3>2, <3>3, <3>4, <3>5
  <2>4. Shared(out, [buf EXCEPT ![s] = word], p + Len(word))
    BY <1>1, <1>2, <1>4, <2>1, <2>3, FillKeeps
  <2>5. word = <<>> => n = 0
    BY <2>3
  <2> QED  BY <1>4, <2>1, <2>3, <2>4, <2>5 DEF word, p
<1> QED  BY <1>3, <1>4

LEMMA TurnOnePreserves == ASSUME FileInv, Turn, program = "1"
                          PROVE  FileInv'
<1> DEFINE s == turn
           word == Filled(s)
           n == IF buf[s] = <<>> THEN Len(word) ELSE 0
           b == [buf EXCEPT ![s] = word]
<1>1. FileTypeOK /\ ThreadsInStep /\ exists /\ s \in Stream /\ tpc["main"] = "turn"
  BY DEF FileInv, FileTypeOK, ThreadsInStep, Turn
<1>2. /\ file = Alphabet /\ pos \in [Stream -> Nat] /\ buf \in [Stream -> Seq(1..Size)]
      /\ out \in Seq(Letter) /\ flag \in [Stream -> BOOLEAN]
      /\ tpc \in [Thread -> {"none", "open", "create", "turn", "read", "write", "put",
                             "close", "join", "return", "end"}]
  BY <1>1 DEF FileInv, FileTypeOK, ThreadsInStep, Writers, Letter
<1>3. /\ word \in Seq(1..Size) /\ n \in Nat /\ Shared(out, b, pos[1] + n)
      /\ word = <<>> => buf[s] = <<>> /\ n = 0 /\ pos[1] = Size
  BY <1>1, FilledKeeps
<1>4. /\ UNCHANGED <<program, exists, file, got, sizes, createFails>>
      /\ flag' = [flag EXCEPT ![s] = word # <<>>]
      /\ buf' = [buf EXCEPT ![s] = IF word # <<>> THEN Tail(word) ELSE <<>>]
      /\ pos' = [pos EXCEPT ![1] = @ + n]
      /\ out' = IF word # <<>> THEN Append(out, [from |-> s, c |-> Head(word)]) ELSE out
      /\ IF turn = 1 THEN turn' = 2 /\ UNCHANGED tpc
         ELSE turn' = 1 /\ IF flag'[1] \/ flag'[2] THEN UNCHANGED tpc ELSE Exit
      /\ flag'[s] = (word # <<>>) /\ \A r \in Stream \ {s} : flag'[r] = flag[r]
  <2>1. Take(s) /\ UNCHANGED <<program, exists, file, got, sizes, createFails>>
    BY DEF Turn
  <2>2. /\ flag' = [flag EXCEPT ![s] = word # <<>>]
        /\ buf' = [buf EXCEPT ![s] = IF flag'[s] THEN Tail(word) ELSE <<>>]
        /\ pos' = [pos EXCEPT ![1] = IF buf[s] = <<>> THEN @ + Len(word) ELSE @]
        /\ out' = IF flag'[s] THEN Append(out, [from |-> s, c |-> Head(word)]) ELSE out
    BY <2>1 DEF Take
  <2>3. flag'[s] = (word # <<>>)
    BY <2>2, <1>1, <1>2
  <2>4. pos' = [pos EXCEPT ![1] = @ + n]
    <3> HIDE DEF word
    <3>1. pos[1] \in Nat /\ pos[1] + 0 = pos[1]
      BY <1>2 DEF Stream
    <3>2. CASE buf[s] = <<>>
      BY <3>2, <2>2
    <3>3. CASE buf[s] # <<>>
      BY <3>1, <3>3, <2>2
    <3> QED  BY <3>2, <3>3
  <2>5. IF turn = 1 THEN turn' = 2 /\ UNCHANGED tpc
        ELSE turn' = 1 /\ IF flag'[1] \/ flag'[2] THEN UNCHANGED tpc ELSE Exit
    BY DEF Turn
  <2>6. \A r \in Stream \ {s} : flag'[r] = flag[r]
    BY <2>2, <1>2
  <2> QED  BY <2>1, <2>2, <2>3, <2>4, <2>5, <2>6
<1> HIDE DEF word, n
<1>5. /\ b \in [Stream -> Seq(1..Size)] /\ b[s] = word /\ pos'[1] = pos[1] + n
      /\ pos[1] \in Nat /\ pos' \in [Stream -> Nat]
  BY <1>1, <1>2, <1>3, <1>4 DEF Stream
<1>6. Shared(out', buf', pos'[1])
  <2>1. CASE word # <<>>
    <3>1. buf' = [b EXCEPT ![s] = Tail(word)] /\ out' = Append(out, [from |-> s, c |-> Head(word)])
      BY <2>1, <1>4
    <3>2. Shared(Append(out, [from |-> s, c |-> Head(b[s])]), [b EXCEPT ![s] = Tail(b[s])],
                 pos'[1])
      BY <2>1, <1>1, <1>2, <1>3, <1>4, <1>5, HandKeeps
    <3> QED  BY <3>1, <3>2, <1>5
  <2>2. CASE word = <<>>
    BY <2>2, <1>3, <1>4, <1>5
  <2> QED  BY <2>1, <2>2
<1>7. out' \in Seq(Letter) /\ buf' \in [Stream -> Seq(1..Size)]
  <2>1. CASE word # <<>>
    <3>1. Head(word) \in 1..Size /\ Tail(word) \in Seq(1..Size)
      BY <2>1, <1>3, HeadTailProperties
    <3>2. [from |-> s, c |-> Head(word)] \in Letter
      BY <3>1, <1>1 DEF Letter
    <3>3. out' \in Seq(Letter)
      BY <2>1, <3>2, <1>2, <1>4, AppendProperties
    <3> QED  BY <2>1, <3>1, <3>3, <1>1, <1>2, <1>4
  <2>2. CASE word = <<>>
    BY <2>2, <1>2, <1>3, <1>4
  <2> QED  BY <2>1, <2>2
<1>8. turn' \in Stream /\ flag' \in [Stream -> BOOLEAN]
  BY <1>1, <1>2, <1>4 DEF Stream
<1>9. FileTypeOK' /\ ThreadsInStep'
  <2>1. MainsPlaces' = MainsPlaces /\ Reads' = Reads /\ Reads = {} /\ "end" \in MainsPlaces
    BY <1>4 DEF MainsPlaces, Reads, Writers
  <2>2. tpc' = tpc \/ tpc' = [t \in Thread |-> "end"]
    BY <1>4 DEF Exit
  <2>3. FileTypeOK'
    BY <1>1, <1>2, <1>4, <1>5, <1>7, <1>8, <2>2 DEF FileTypeOK, Letter
  <2>4. /\ tpc'["main"] \in {"turn", "end"} /\ tpc'["main"] \in MainsPlaces'
        /\ \A t \in {"t1", "t2"} : tpc'[t] \in {"none", "read", "write", "end"}
        /\ \A t \in Thread : tpc'[t] \in {"read", "write"} => t \in Reads'
    BY <1>1, <2>1, <2>2 DEF ThreadsInStep, Thread
  <2>5. program' = "1" /\ exists' /\ file' = Alphabet
    BY <1>1, <1>2, <1>4
  <2>6. ThreadsInStep'
    BY <2>1, <2>4, <2>5 DEF ThreadsInStep
  <2> QED  BY <2>3, <2>6
<1>10. SharedOffset'
  <2>1. turn' = 2 /\ ~flag'[1] => buf'[1] = <<>> /\ pos'[1] = Size
    <3> SUFFICES ASSUME turn' = 2, ~flag'[1]
                 PROVE  buf'[1] = <<>> /\ pos'[1] = Size
      OBVIOUS
    <3>1. s = 1 /\ word = <<>>
      BY <1>1, <1>2, <1>4 DEF Stream
    <3> QED  BY <3>1, <1>2, <1>3, <1>4, <1>5 DEF Stream
  <2>2. tpc'["main"] = "end" => Len(out') = Size
    <3> SUFFICES ASSUME tpc'["main"] = "end"
                 PROVE  Len(out') = Size
      OBVIOUS
    <3>1. s = 2 /\ ~flag'[1] /\ ~flag'[2]
      BY <1>1, <1>4 DEF Stream
    <3>2. word = <<>> /\ ~flag[1]
      <4>1. flag'[s] = (word # <<>>) /\ 1 \in Stream \ {s} /\ flag'[1] = flag[1]
        BY <3>1, <1>4 DEF Stream
      <4>2. ~(word # <<>>)
        BY <4>1, <3>1, Zenon
      <4> QED  BY <4>1, <4>2, <3>1
    <3>3. buf[1] = <<>> /\ pos[1] = Size
      BY <3>1, <3>2, <1>1 DEF FileInv, SharedOffset
    <3>4. buf'[1] = <<>> /\ buf'[2] = <<>> /\ pos'[1] = Size
      BY <3>1, <3>2, <3>3, <1>2, <1>3, <1>4, <1>5 DEF Stream
    <3>5. Len(out') + Len(buf'[1]) + Len(buf'[2]) = Size
      BY <3>4, <1>6 DEF Shared
    <3>6. PICK l \in Nat : Len(out') = l
      BY <1>7, LenProperties
    <3>7. l + 0 + 0 = Size
      BY <3>4, <3>5, <3>6
    <3> QED  BY <3>6, <3>7
  <2> QED  BY <1>6, <2>1, <2>2 DEF SharedOffset, Shared
<1>11. (SideBySide /\ EachInOrder /\ ReportsInStep /\ WrittenThrough /\ WrittenAtClose)'
  BY <1>4 DEF SideBySide, EachInOrder, Reads, ReportsInStep, WrittenThrough, WrittenAtClose, Writers
<1> QED  BY <1>9, <1>10, <1>11 DEF FileInv

\* Each letter of 2-1t.c comes from stream 1 and then from stream 2.
LEMMA TurnTwoPreserves == ASSUME FileInv, Turn, program = "2-1t"
                          PROVE  FileInv'
<1> DEFINE s == turn
<1>1. FileTypeOK /\ ThreadsInStep /\ s \in Stream /\ tpc["main"] = "turn"
  BY DEF FileInv, FileTypeOK, Turn
<1>2. /\ pos \in [Stream -> Nat] /\ out \in Seq(Letter) /\ flag \in [Stream -> BOOLEAN]
      /\ tpc \in [Thread -> {"none", "open", "create", "turn", "read", "write", "put",
                             "close", "join", "return", "end"}]
      /\ Len(out) \in Nat /\ DOMAIN out = 1..Len(out) /\ Size \in Nat
      /\ exists => file = Alphabet /\ Len(file) = Size
  BY <1>1, Sizes, Letters, LenProperties DEF FileTypeOK, ThreadsInStep, Writers, Letter
<1>3. UNCHANGED <<program, exists, file, got, sizes, createFails, buf>>
  BY DEF Turn, Take
<1>4. MainsPlaces' = MainsPlaces /\ Reads' = Reads /\ Reads = {} /\ "end" \in MainsPlaces
  BY <1>3 DEF MainsPlaces, Reads, Writers
<1>5. /\ flag' = [flag EXCEPT ![s] = exists /\ pos[s] < Len(file)]
      /\ pos' = [pos EXCEPT ![s] = IF flag'[s] THEN @ + 1 ELSE @]
      /\ out' = IF flag'[s] THEN Append(out, [from |-> s, c |-> file[pos[s] + 1]]) ELSE out
      /\ flag'[s] = (exists /\ pos[s] < Len(file))
      /\ \A r \in Stream \ {s} : flag'[r] = flag[r]
  BY <1>1, <1>2 DEF Turn, Take
<1>6. IF turn = 1 /\ flag'[1] THEN turn' = 2 /\ UNCHANGED tpc
      ELSE turn' = 1 /\ IF flag'[1] THEN UNCHANGED tpc ELSE Exit
  BY DEF Turn
<1>7. ASSUME out' \in Seq(Letter), pos' \in [Stream -> Nat]
      PROVE  FileTypeOK' /\ ThreadsInStep'
  <2>1. turn' \in Stream /\ flag' \in [Stream -> BOOLEAN]
    BY <1>1, <1>2, <1>5, <1>6 DEF Stream
  <2>2. tpc' = tpc \/ tpc' = [t \in Thread |-> "end"]
    BY <1>6 DEF Exit
  <2>3. FileTypeOK'
    BY <1>1, <1>2, <1>3, <1>7, <2>1, <2>2 DEF FileTypeOK, Letter
  <2>4. /\ tpc'["main"] \in {"turn", "end"} /\ tpc'["main"] \in MainsPlaces'
        /\ \A t \in {"t1", "t2"} : tpc'[t] \in {"none", "read", "write", "end"}
        /\ \A t \in Thread : tpc'[t] \in {"read", "write"} => t \in Reads'
    BY <1>1, <1>4, <2>2 DEF ThreadsInStep, Thread
  <2>5. /\ program' = "2-1t" /\ (exists' => file' = Alphabet) /\ (~exists' => file' = <<>>)
        /\ buf' = [r \in Stream |-> <<>>]
    BY <1>1, <1>2, <1>3 DEF ThreadsInStep
  <2>6. ThreadsInStep'
    BY <1>4, <2>4, <2>5 DEF ThreadsInStep
  <2> QED  BY <2>3, <2>6
<1>8. (SharedOffset /\ EachInOrder /\ ReportsInStep /\ WrittenThrough /\ WrittenAtClose)'
  BY <1>3 DEF SharedOffset, EachInOrder, Reads, ReportsInStep, WrittenThrough, WrittenAtClose, Writers
<1>9. exists =>
        /\ pos[1] = (IF turn = 2 THEN pos[2] + 1 ELSE pos[2])
        /\ pos[1] <= Size /\ Len(out) = pos[1] + pos[2]
        /\ \A m \in DOMAIN out : /\ out[m].from = IF m % 2 = 1 THEN 1 ELSE 2
                                 /\ out[m].c = (m + 1) \div 2
        /\ turn = 2 => flag[1]
  BY <1>1 DEF FileInv, SideBySide
<1>10. CASE ~flag'[s]
  <2>1. out' = out /\ pos' = pos
    BY <1>2, <1>5, <1>10
  <2>2. SideBySide'
    <3> SUFFICES ASSUME exists
                 PROVE  SideBySide'
      BY <1>3 DEF SideBySide
    <3>1. ~(pos[s] < Len(file))
      BY <1>5, <1>10, Zenon
    <3>2. pos[s] >= Size /\ pos[1] \in Nat /\ pos[2] \in Nat
      BY <3>1, <1>1, <1>2 DEF Stream
    <3>3. s = 1
      BY <3>2, <1>1, <1>2, <1>9 DEF Stream
    <3>4. turn' = 1 /\ tpc' = [t \in Thread |-> "end"] /\ tpc'["main"] = "end"
      BY <3>3, <1>6, <1>10 DEF Exit, Thread
    <3>5. pos[1] = Size /\ pos[2] = Size /\ Len(out) = pos[1] + pos[2]
      BY <3>2, <3>3, <1>2, <1>9
    <3> QED  BY <2>1, <3>4, <3>5, <1>9 DEF SideBySide
  <2> QED  BY <2>1, <2>2, <1>2, <1>7, <1>8 DEF FileInv
<1>11. CASE flag'[s]
  <2>1. exists /\ pos[s] < Len(file)
    BY <1>5, <1>11, Zenon
  <2>2. /\ pos[1] \in Nat /\ pos[2] \in Nat /\ pos[s] + 1 \in 1..Size
        /\ file[pos[s] + 1] = pos[s] + 1
    <3>1. pos[1] \in Nat /\ pos[2] \in Nat /\ pos[s] + 1 \in 1..Size
      BY <2>1, <1>1, <1>2 DEF Stream
    <3> HIDE DEF s
    <3> QED  BY <3>1, <2>1, <1>2, Letters
  <2> DEFINE e == [from |-> s, c |-> pos[s] + 1]
  <2>3. out' = Append(out, e) /\ pos' = [pos EXCEPT ![s] = @ + 1]
    BY <2>2, <1>5, <1>11
  <2>4. e \in Letter /\ e.from = s /\ e.c = pos[s] + 1
    BY <2>2, <1>1 DEF Letter
  <2> HIDE DEF e
  <2>5. /\ out' \in Seq(Letter) /\ Len(out') = Len(out) + 1 /\ DOMAIN out' = 1..(Len(out) + 1)
        /\ \A m \in 1..Len(out) : out'[m] = out[m]
        /\ out'[Len(out) + 1] = e
    BY <2>3, <2>4, <1>2, AppendProperties, LenProperties
  <2>6. pos' \in [Stream -> Nat]
    BY <2>3, <1>1, <1>2
  <2>7. \A m \in 1..Len(out) : /\ out'[m].from = IF m % 2 = 1 THEN 1 ELSE 2
                               /\ out'[m].c = (m + 1) \div 2
    BY <2>1, <2>5, <1>2, <1>9
  <2> DEFINE l == Len(out)
  <2>8. \A m \in 1..(l + 1) : m \in 1..l \/ m = l + 1
    BY <1>2
  <2>9. CASE s = 1
    <3>1. flag'[1] /\ turn' = 2 /\ tpc' = tpc
      BY <2>9, <1>6, <1>11
    <3>2. pos'[1] = pos[1] + 1 /\ pos'[2] = pos[2] /\ pos[1] = pos[2] /\ l = pos[1] + pos[2]
      BY <2>1, <2>3, <2>9, <1>2, <1>9 DEF Stream
    <3>3. l + 1 = 2 * pos[1] + 1
      BY <2>2, <3>2
    <3>4. (l + 1) % 2 = 1 /\ ((l + 1) + 1) \div 2 = pos[1] + 1
      <4> HIDE DEF l
      <4>1. PICK k \in Nat : k = pos[1]
        BY <2>2
      <4>2. (2 * k + 1) % 2 = 1 /\ ((2 * k + 1) + 1) \div 2 = k + 1
        BY <4>1
      <4> QED  BY <4>1, <4>2, <3>3
    <3>5. \A m \in 1..(l + 1) : /\ out'[m].from = IF m % 2 = 1 THEN 1 ELSE 2
                                /\ out'[m].c = (m + 1) \div 2
      BY <2>4, <2>5, <2>7, <2>8, <2>9, <3>4
    <3>6. /\ pos'[1] = pos'[2] + 1 /\ pos'[1] <= Size /\ Len(out') = pos'[1] + pos'[2]
      BY <2>2, <2>5, <2>9, <3>2, <1>2
    <3>7. SideBySide'
      BY <3>1, <3>5, <3>6, <2>5, <1>1 DEF SideBySide
    <3> QED  BY <2>5, <2>6, <3>7, <1>7, <1>8 DEF FileInv
  <2>10. CASE s = 2
    <3>1. flag'[1] /\ turn' = 1 /\ tpc' = tpc
      <4>1. flag'[1] = flag[1] /\ flag[1]
        BY <2>1, <2>10, <1>5, <1>9 DEF Stream
      <4>2. flag'[1]
        BY <4>1, Zenon
      <4> QED  BY <4>2, <2>10, <1>6
    <3>2. pos'[2] = pos[2] + 1 /\ pos'[1] = pos[1] /\ pos[1] = pos[2] + 1 /\ l = pos[1] + pos[2]
            /\ pos[1] <= Size
      BY <2>1, <2>3, <2>10, <1>2, <1>9 DEF Stream
    <3>3. l + 1 = 2 * pos[2] + 2
      BY <2>2, <3>2
    <3>4. (l + 1) % 2 # 1 /\ ((l + 1) + 1) \div 2 = pos[2] + 1
      <4> HIDE DEF l
      <4>1. PICK k \in Nat : k = pos[2]
        BY <2>2
      <4>2. (2 * k + 2) % 2 # 1 /\ ((2 * k + 2) + 1) \div 2 = k + 1
        BY <4>1
      <4> QED  BY <4>1, <4>2, <3>3
    <3>5. \A m \in 1..(l + 1) : /\ out'[m].from = IF m % 2 = 1 THEN 1 ELSE 2
                                /\ out'[m].c = (m + 1) \div 2
      BY <2>4, <2>5, <2>7, <2>8, <2>10, <3>4
    <3>6. /\ pos'[1] = pos'[2] /\ pos'[1] <= Size /\ Len(out') = pos'[1] + pos'[2]
      BY <2>2, <2>5, <3>2, <1>2
    <3>7. SideBySide'
      BY <3>1, <3>5, <3>6, <2>5, <1>1 DEF SideBySide
    <3> QED  BY <2>5, <2>6, <3>7, <1>7, <1>8 DEF FileInv
  <2> QED  BY <2>9, <2>10, <1>1 DEF Stream
<1> QED  BY <1>10, <1>11

-----------------------------------------------------------------------------
(* The writers.                                                            *)

\* What holds of the readers only.
LEMMA WritersAside ==
  ASSUME program' \in Writers
  PROVE  (SharedOffset /\ SideBySide /\ EachInOrder)'
BY DEF SharedOffset, SideBySide, EachInOrder, Reads, Writers

\* A printed size is added to those that are as they should be.
LEMMA SizesGrow ==
  ASSUME FileTypeOK, program' = program, Len(sizes) > 0,
         \A m \in DOMAIN sizes : sizes[m] = SizeAt(m),
         NEW v \in {Garbage} \cup Nat, sizes' = Append(sizes, v), v = SizeAt(Len(sizes) + 1)
  PROVE  /\ before' = before /\ Len(sizes') = Len(sizes) + 1 /\ sizes' # <<>>
         /\ \A m \in DOMAIN sizes' : sizes'[m] = SizeAt(m)'
<1>1. sizes \in Seq({Garbage} \cup Nat)
  BY DEF FileTypeOK
<1>2. /\ Len(sizes) \in Nat /\ DOMAIN sizes = 1..Len(sizes)
      /\ Len(sizes') = Len(sizes) + 1 /\ DOMAIN sizes' = 1..(Len(sizes) + 1) /\ sizes' # <<>>
      /\ \A m \in 1..Len(sizes) : sizes'[m] = sizes[m]
      /\ sizes'[Len(sizes) + 1] = v
  BY <1>1, AppendProperties, LenProperties
<1>3. before' = before
  BY <1>2 DEF before
<1>4. ASSUME NEW m
      PROVE  SizeAt(m)' = SizeAt(m)
  BY <1>3 DEF SizeAt
<1>5. \A m \in 1..(Len(sizes) + 1) : m \in 1..Len(sizes) \/ m = Len(sizes) + 1
  BY <1>2
<1> QED  BY <1>2, <1>3, <1>4, <1>5

\* The first size is the file's: SizeAt(1) is no Garbage.
LEMMA FirstSize ==
  ASSUME FileTypeOK, Len(sizes) > 0, \A m \in DOMAIN sizes : sizes[m] = SizeAt(m)
  PROVE  before \in Nat
<1>1. sizes \in Seq({Garbage} \cup Nat)
  BY DEF FileTypeOK
<1>2. 1 \in DOMAIN sizes /\ sizes[1] \in {Garbage} \cup Nat
  BY <1>1, LenProperties, ElementOfSeq
<1>3. CASE program = "3-write"
  <2>1. before = sizes[1] /\ sizes[1] = SizeAt(1)
    BY <1>2, <1>3 DEF before
  <2>2. (1 - 1) \div 2 = 0
    OBVIOUS
  <2>3. SizeAt(1) = IF 0 > before THEN 0 ELSE before
    BY <1>3, <2>2, Sizes DEF SizeAt
  <2> QED  BY <1>2, <2>1, <2>3 DEF Garbage
<1>4. CASE program # "3-write"
  BY <1>4 DEF before
<1> QED  BY <1>3, <1>4

\* The types, and where main() is, after a step of a writer.
LEMMA WriterTyped ==
  ASSUME FileTypeOK, ThreadsInStep, program \in Writers, tpc["main"] \in {"put", "close"},
         UNCHANGED <<program, exists, flag, out, createFails>>,
         file' \in Seq(0..Size), pos' \in [Stream -> Nat], buf' \in [Stream -> Seq(1..Size)],
         turn' \in Stream, got' \in [Thread -> {Garbage} \cup (1..(Size + 1))], PrintStat,
         \/ tpc' = [t \in Thread |-> "end"]
         \/ /\ tpc' = [tpc EXCEPT !["main"] = tpc'["main"]] /\ tpc'["main"] \in {"put", "close"}
            /\ tpc'["main"] = "put" => turn' = 1 /\ got'["main"] \in 1..Size,
         program = "3-write" => buf' = buf, ~exists => file' = <<>>
  PROVE  FileTypeOK' /\ ThreadsInStep'
<1>1. /\ tpc \in [Thread -> {"none", "open", "create", "turn", "read", "write", "put",
                             "close", "join", "return", "end"}]
      /\ sizes \in Seq({Garbage} \cup Nat)
  BY DEF FileTypeOK
<1>2. sizes' \in Seq({Garbage} \cup Nat)
  <2>1. Len(file') \in Nat
    BY LenProperties
  <2> QED  BY <1>1, <2>1, AppendProperties DEF PrintStat
<1>3. /\ tpc' \in [Thread -> {"none", "open", "create", "turn", "read", "write", "put",
                              "close", "join", "return", "end"}]
      /\ tpc'["main"] \in {"put", "close", "end"}
      /\ \A t \in {"t1", "t2"} : tpc'[t] \in {"none", "read", "write", "end"}
      /\ \A t \in Thread : tpc'[t] \in {"read", "write"} => tpc[t] \in {"read", "write"}
  BY <1>1 DEF Thread, ThreadsInStep
<1>4. FileTypeOK'
  BY <1>2, <1>3 DEF FileTypeOK
<1>5. MainsPlaces' = {"open", "put", "close", "end"} /\ Reads' = {} /\ Reads = {}
  BY DEF MainsPlaces, Reads, Writers
<1>6. tpc'["main"] = "put" => turn' = 1 /\ got'["main"] \in 1..Size
  BY <1>1 DEF Thread
<1>7. program = "3-write" => buf' = [s \in Stream |-> <<>>]
  BY DEF ThreadsInStep
<1>8. /\ program' = program /\ exists' = exists
      /\ program = "3-fprintf" => exists
  BY DEF ThreadsInStep
<1>9. ThreadsInStep'
  BY <1>3, <1>5, <1>6, <1>7, <1>8 DEF ThreadsInStep, Writers
<1> QED  BY <1>4, <1>9

LEMMA PutWritePreserves == ASSUME FileInv, Put, program = "3-write"
                           PROVE  FileInv'
<1> DEFINE c == got["main"]
           s == IF c % 2 = 1 THEN 1 ELSE 2
<1>1. /\ FileTypeOK /\ ThreadsInStep /\ turn = 1 /\ c \in 1..Size /\ s \in Stream
      /\ tpc["main"] = "put" /\ program \in Writers
  BY DEF FileInv, ThreadsInStep, Put, Stream, Writers
<1>2. /\ tpc \in [Thread -> {"none", "open", "create", "turn", "read", "write", "put",
                             "close", "join", "return", "end"}]
      /\ file \in Seq(0..Size) /\ pos \in [Stream -> Nat] /\ buf \in [Stream -> Seq(1..Size)]
      /\ got \in [Thread -> {Garbage} \cup (1..(Size + 1))] /\ turn \in Stream
      /\ Size \in Nat /\ Len(file) \in Nat /\ DOMAIN file = 1..Len(file)
  BY <1>1, Sizes, LenProperties DEF FileTypeOK
<1>3. /\ UNCHANGED <<program, exists, turn, flag, out, createFails, buf>> /\ PrintStat
      /\ file' = IF exists THEN WriteAt(pos[s], <<c>>) ELSE file
      /\ pos' = IF exists THEN [pos EXCEPT ![s] = @ + 1] ELSE pos
      /\ got' = [got EXCEPT !["main"] = c + 1]
      /\ IF c = Size THEN tpc' = [tpc EXCEPT !["main"] = "close"] ELSE tpc' = tpc
  BY DEF Put, Goto
<1> HIDE DEF c
<1>4. /\ got' \in [Thread -> {Garbage} \cup (1..(Size + 1))] /\ got'["main"] = c + 1
      /\ tpc' = [tpc EXCEPT !["main"] = tpc'["main"]]
      /\ tpc'["main"] = IF c = Size THEN "close" ELSE "put"
      /\ pos' \in [Stream -> Nat]
  <2>1. pos' \in [Stream -> Nat]
    <3> HIDE DEF s
    <3>1. pos[s] + 1 \in Nat
      BY <1>1, <1>2
    <3> QED  BY <3>1, <1>2, <1>3
  <2>2. c + 1 \in 1..(Size + 1)
    BY <1>1, <1>2
  <2>3. got' \in [Thread -> {Garbage} \cup (1..(Size + 1))] /\ got'["main"] = c + 1
    BY <2>2, <1>2, <1>3 DEF Thread
  <2>4. CASE c = Size
    BY <2>1, <2>3, <2>4, <1>2, <1>3 DEF Thread
  <2>5. CASE c # Size
    BY <2>1, <2>3, <2>5, <1>1, <1>2, <1>3 DEF Thread
  <2> QED  BY <2>4, <2>5
<1>5. ASSUME file' \in Seq(0..Size), ~exists => file' = <<>>
      PROVE  FileTypeOK' /\ ThreadsInStep'
  <2>1. tpc'["main"] = "put" => c \in 1..Size /\ c # Size /\ c + 1 \in 1..Size
    BY <1>1, <1>2, <1>4
  <2> QED  BY <1>1, <1>2, <1>3, <1>4, <1>5, <2>1, WriterTyped
<1>6. CASE ~exists
  <2>1. file' = <<>> /\ <<>> \in Seq(0..Size)
    BY <1>1, <1>3, <1>6 DEF ThreadsInStep
  <2>2. (ReportsInStep /\ WrittenThrough /\ WrittenAtClose)'
    BY <1>3, <1>6 DEF ReportsInStep, WrittenThrough, WrittenAtClose
  <2> QED  BY <1>1, <1>3, <1>5, <2>1, <2>2, WritersAside DEF FileInv
<1>7. CASE exists
  <2>1. /\ out = <<>> /\ Len(sizes) = c + 1 /\ \A m \in DOMAIN sizes : sizes[m] = SizeAt(m)
    BY <1>1, <1>7 DEF FileInv, ReportsInStep, Reports, c
  <2>2. before \in Nat /\ c + 1 > 0
    BY <1>1, <1>2, <2>1, FirstSize
  <2>3. /\ pos[1] = c \div 2 /\ pos[2] = (c - 1) \div 2
        /\ Len(file) = IF pos[1] > before THEN pos[1] ELSE before
        /\ \A j \in DOMAIN file : file[j] = IF j <= pos[2] THEN 2 * j
                                          ELSE IF j <= pos[1] THEN 2 * j - 1 ELSE OldByte
    <3>1. sizes # <<>>
      BY <2>1, <2>2
    <3> QED  BY <1>1, <1>7, <3>1 DEF FileInv, WrittenThrough, c
  <2>4. /\ pos[1] \in Nat /\ pos[2] \in Nat
        /\ c % 2 = 1 => c = 2 * pos[1] + 1 /\ pos[2] = pos[1]
                        /\ (c + 1) \div 2 = pos[1] + 1 /\ s = 1
        /\ c % 2 # 1 => c = 2 * pos[2] + 2 /\ pos[1] = pos[2] + 1
                        /\ (c + 1) \div 2 = pos[1] /\ s = 2
    <3>1. c \in Nat /\ c - 1 \in Nat
      BY <1>1, <1>2
    <3>2. c % 2 = 1 => c \div 2 = (c - 1) \div 2 /\ (c + 1) \div 2 = (c \div 2) + 1
      BY <3>1, Halves
    <3>3. c % 2 # 1 => c \div 2 = ((c - 1) \div 2) + 1 /\ (c + 1) \div 2 = c \div 2
      BY <3>1, Halves
    <3>4. c \div 2 \in Nat /\ (c - 1) \div 2 \in Nat /\ c = 2 * (c \div 2) + (c % 2) /\ c % 2 \in {0, 1}
      BY <3>1, Halves
    <3> QED  BY <2>3, <3>2, <3>3, <3>4
  <2> DEFINE p == pos[s]
             w == WriteAt(p, <<c>>)
  <2>5. p \in 0..Len(file)
    <3>1. PICK a \in Nat, b \in Nat, l \in Nat : a = pos[1] /\ b = pos[2] /\ l = Len(file)
      BY <1>2, <2>4, LenProperties
    <3>2. l = IF a > before THEN a ELSE before
      BY <2>3, <3>1
    <3>3. a <= l /\ b <= a /\ (p = a \/ p = b)
      BY <2>2, <2>4, <3>1, <3>2 DEF p
    <3>4. p \in 0..l
      BY <3>1, <3>3
    <3> QED  BY <3>1, <3>4
  <2>6. /\ w \in Seq(0..Size) /\ Len(w) = IF p + 1 > Len(file) THEN p + 1 ELSE Len(file)
        /\ \A j \in 1..Len(w) : w[j] = IF j = p + 1 THEN c ELSE file[j]
    <3>1. <<c>> \in Seq(1..Size) /\ Len(<<c>>) = 1 /\ <<c>>[1] = c
      BY <1>1
    <3> HIDE DEF p
    <3>2. /\ w \in Seq(0..Size) /\ Len(w) = IF p + 1 > Len(file) THEN p + 1 ELSE Len(file)
          /\ \A j \in 1..Len(w) : w[j] = IF j \in (p + 1)..(p + 1) THEN <<c>>[j - p] ELSE file[j]
      <4>1. file \in Seq(0..Size)
        BY <1>2
      <4> DEFINE letters == <<c>>
      <4> HIDE DEF letters
      <4>2. letters \in Seq(1..Size) /\ Len(letters) = 1
        BY <3>1 DEF letters
      <4>3. /\ WriteAt(p, letters) \in Seq(0..Size)
            /\ Len(WriteAt(p, letters)) = IF p + 1 > Len(file) THEN p + 1 ELSE Len(file)
            /\ \A j \in 1..Len(WriteAt(p, letters)) : WriteAt(p, letters)[j] =
                 IF j \in (p + 1)..(p + 1) THEN letters[j - p] ELSE file[j]
        BY <4>1, <4>2, <2>5, Overwrites
      <4> QED  BY <4>3 DEF letters
    <3>3. p \in Nat /\ (p + 1) - p = 1
      BY <1>2, <2>5
    <3>4. ASSUME NEW j \in 1..Len(w)
          PROVE  w[j] = IF j = p + 1 THEN c ELSE file[j]
      <4> HIDE DEF w
      <4>1. CASE j = p + 1
        BY <4>1, <3>1, <3>2, <3>3
      <4>2. CASE j # p + 1
        BY <4>2, <3>2, <3>3
      <4> QED  BY <4>1, <4>2
    <3> QED  BY <3>2, <3>4
  <2>7. file' = w /\ pos' = [pos EXCEPT ![s] = @ + 1]
    BY <1>3, <1>7
  <2> HIDE DEF s, p, w
  <2>8. pos'[1] = (c + 1) \div 2 /\ pos'[2] = ((c + 1) - 1) \div 2 /\ (c + 1) - 1 = c
    BY <1>1, <1>2, <2>3, <2>4, <2>7 DEF Stream
  <2>9. Len(file') = IF pos'[1] > before THEN pos'[1] ELSE before
    <3>1. PICK a \in Nat, b \in Nat, l \in Nat : a = pos[1] /\ b = pos[2] /\ l = Len(file)
      BY <1>2, <2>4
    <3>2. CASE c % 2 = 1
      <4>1. p = a /\ pos'[1] = a + 1
        BY <3>1, <3>2, <2>4, <2>8 DEF p
      <4> QED  BY <3>1, <4>1, <2>2, <2>3, <2>6, <2>7
    <3>3. CASE c % 2 # 1
      <4>1. p = b /\ pos'[1] = a /\ a = b + 1
        BY <3>1, <3>3, <2>4, <2>8 DEF p
      <4> QED  BY <3>1, <4>1, <2>2, <2>3, <2>6, <2>7
    <3> QED  BY <3>2, <3>3
  <2>10. \A j \in DOMAIN file' : file'[j] = IF j <= pos'[2] THEN 2 * j
                                          ELSE IF j <= pos'[1] THEN 2 * j - 1 ELSE OldByte
    <3>1. PICK a \in Nat, b \in Nat, l \in Nat : a = pos[1] /\ b = pos[2] /\ l = Len(file)
      BY <1>2, <2>4
    <3>2. Len(file') \in Nat /\ DOMAIN file' = 1..Len(file')
      BY <2>6, <2>7, LenProperties
    <3> SUFFICES ASSUME NEW j \in 1..Len(file')
                 PROVE  file'[j] = IF j <= pos'[2] THEN 2 * j
                                   ELSE IF j <= pos'[1] THEN 2 * j - 1 ELSE OldByte
      BY <3>2
    <3>3. j \in Nat /\ j > 0 /\ file'[j] = IF j = p + 1 THEN c ELSE file[j]
      BY <3>2, <2>6, <2>7
    <3>4. j # p + 1 => j \in 1..l
      <4>1. j <= (IF p + 1 > l THEN p + 1 ELSE l) /\ p \in Nat /\ p <= l
        <5>1. Len(w) = IF p + 1 > l THEN p + 1 ELSE l
          BY <3>1, <2>6
        <5>2. p \in 0..l
          BY <3>1, <2>5
        <5>3. Len(file') = IF p + 1 > l THEN p + 1 ELSE l
          BY <5>1, <2>7
        <5>4. p \in Nat /\ p <= l
          BY <3>1, <5>2
        <5>5. j <= Len(file')
          BY <3>2
        <5> QED  BY <5>3, <5>4, <5>5
      <4> QED  BY <3>1, <3>2, <4>1
    <3>5. j \in 1..l => file[j] = IF j <= b THEN 2 * j ELSE IF j <= a THEN 2 * j - 1 ELSE OldByte
      BY <3>1, <1>2, <2>3
    <3>6. CASE c % 2 = 1
      <4>1. p = a /\ pos'[1] = a + 1 /\ pos'[2] = a /\ b = a /\ c = 2 * a + 1
        BY <3>1, <3>6, <2>3, <2>4, <2>8 DEF p
      <4>2. CASE j = a + 1
        <5>1. file'[j] = c /\ c = 2 * j - 1 /\ ~(j <= a) /\ j <= a + 1
          BY <3>3, <4>1, <4>2
        <5> QED  BY <4>1, <5>1
      <4>3. CASE j # a + 1
        <5>1. file'[j] = IF j <= a THEN 2 * j ELSE OldByte
          BY <3>3, <3>4, <3>5, <4>1, <4>3
        <5>2. j <= a + 1 <=> j <= a
          BY <3>1, <3>3, <4>3
        <5> QED  BY <4>1, <5>1, <5>2
      <4> QED  BY <4>2, <4>3
    <3>7. CASE c % 2 # 1
      <4>1. p = b /\ pos'[1] = b + 1 /\ pos'[2] = b + 1 /\ a = b + 1 /\ c = 2 * b + 2
        <5>1. pos'[2] = pos[2] + 1
          BY <3>7, <1>2, <2>4, <2>7 DEF p, Stream
        <5> QED  BY <3>1, <3>7, <5>1, <2>3, <2>4, <2>8 DEF p
      <4>2. CASE j = b + 1
        <5>1. file'[j] = c /\ c = 2 * j /\ j <= b + 1
          BY <3>3, <4>1, <4>2
        <5> QED  BY <4>1, <5>1
      <4>3. CASE j # b + 1
        <5>1. j \in 1..l /\ file'[j] = file[j]
          BY <3>3, <3>4, <4>1, <4>3
        <5>2. file'[j] = IF j <= b THEN 2 * j ELSE IF j <= b + 1 THEN 2 * j - 1 ELSE OldByte
          BY <3>5, <4>1, <5>1
        <5>3. (j <= b + 1 <=> j <= b) /\ j \in Nat
          BY <3>1, <3>3, <4>3
        <5>4. file'[j] = IF j <= b + 1 THEN 2 * j ELSE OldByte
          BY <5>2, <5>3
        <5> QED  BY <4>1, <5>4
      <4> QED  BY <4>2, <4>3
    <3> QED  BY <3>6, <3>7
  <2>11. FileTypeOK' /\ ThreadsInStep'
    BY <1>5, <1>7, <2>6, <2>7
  <2>12. SizeAt(c + 2) = Len(file')
    <3>1. PICK d \in Nat : d = (c + 1) \div 2
      BY <2>4
    <3>2. d <= half
      <4>1. c <= 2 * half /\ c \in Nat /\ half \in Nat
        BY <1>1, Sizes
      <4> QED  BY <3>1, <4>1, Halves
    <3>3. (c + 2) - 1 = c + 1
      BY <1>1, <1>2
    <3>4. SizeAt(c + 2) = IF d > half THEN IF before > half THEN before ELSE half
                          ELSE IF d > before THEN d ELSE before
      BY <3>1, <3>3 DEF SizeAt
    <3> QED  BY <3>1, <3>2, <3>4, <2>2, <2>8, <2>9, Sizes
  <2>13. ReportsInStep' /\ before' = before /\ sizes' # <<>>
    <3>1. sizes' = Append(sizes, Len(file')) /\ Len(file') \in {Garbage} \cup Nat
      BY <1>3, <1>7, <2>6, <2>7, LenProperties DEF PrintStat
    <3>2. Len(sizes) + 1 = c + 2 /\ Len(sizes) > 0
      BY <1>1, <1>2, <2>1
    <3>3. /\ before' = before /\ Len(sizes') = c + 2 /\ sizes' # <<>>
          /\ \A m \in DOMAIN sizes' : sizes'[m] = SizeAt(m)'
      BY <1>1, <1>3, <2>1, <2>12, <3>1, <3>2, SizesGrow
    <3>4. Reports' = c + 2
      <4>1. CASE c = Size
        BY <4>1, <1>1, <1>2, <1>3, <1>4 DEF Reports
      <4>2. CASE c # Size
        BY <4>2, <1>1, <1>2, <1>4 DEF Reports
      <4> QED  BY <4>1, <4>2
    <3>5. tpc'["main"] = "close" => got'["main"] = Size + 1
      BY <1>4
    <3> QED  BY <1>3, <1>4, <2>1, <3>3, <3>4, <3>5 DEF ReportsInStep
  <2>14. WrittenThrough'
    BY <1>3, <1>4, <2>8, <2>9, <2>10, <2>13 DEF WrittenThrough
  <2>15. WrittenAtClose'
    BY <1>3 DEF WrittenAtClose
  <2> QED  BY <1>1, <1>3, <2>11, <2>13, <2>14, <2>15, WritersAside DEF FileInv
<1> QED  BY <1>6, <1>7

LEMMA PutFprintfPreserves == ASSUME FileInv, Put, program = "3-fprintf"
                             PROVE  FileInv'
<1> DEFINE c == got["main"]
           s == IF c % 2 = 1 THEN 1 ELSE 2
<1>1. /\ FileTypeOK /\ ThreadsInStep /\ turn = 1 /\ c \in 1..Size /\ s \in Stream /\ exists
      /\ tpc["main"] = "put" /\ program \in Writers
  BY DEF FileInv, ThreadsInStep, Put, Stream, Writers
<1>2. /\ tpc \in [Thread -> {"none", "open", "create", "turn", "read", "write", "put",
                             "close", "join", "return", "end"}]
      /\ file \in Seq(0..Size) /\ pos \in [Stream -> Nat] /\ buf \in [Stream -> Seq(1..Size)]
      /\ got \in [Thread -> {Garbage} \cup (1..(Size + 1))] /\ turn \in Stream /\ Size \in Nat
  BY <1>1, Sizes DEF FileTypeOK
<1>3. /\ UNCHANGED <<program, exists, turn, flag, out, createFails, file, pos>> /\ PrintStat
      /\ buf' = [buf EXCEPT ![s] = Append(@, c)]
      /\ got' = [got EXCEPT !["main"] = c + 1]
      /\ IF c = Size THEN tpc' = [tpc EXCEPT !["main"] = "close"] ELSE tpc' = tpc
  BY DEF Put, Goto
<1>4. pos = [r \in Stream |-> 0] /\ buf[1] = Sooner(c) /\ buf[2] = Later(c) /\ file = <<>>
  BY <1>1 DEF FileInv, WrittenAtClose
<1> HIDE DEF c
<1>5. /\ got' \in [Thread -> {Garbage} \cup (1..(Size + 1))] /\ got'["main"] = c + 1
      /\ tpc' = [tpc EXCEPT !["main"] = tpc'["main"]]
      /\ tpc'["main"] = IF c = Size THEN "close" ELSE "put"
  <2>1. c + 1 \in 1..(Size + 1)
    BY <1>1, <1>2
  <2>2. got' \in [Thread -> {Garbage} \cup (1..(Size + 1))] /\ got'["main"] = c + 1
    BY <2>1, <1>2, <1>3 DEF Thread
  <2>3. CASE c = Size
    BY <2>2, <2>3, <1>2, <1>3 DEF Thread
  <2>4. CASE c # Size
    BY <2>2, <2>4, <1>1, <1>2, <1>3 DEF Thread
  <2> QED  BY <2>3, <2>4
<1>6. buf'[1] = Sooner(c + 1) /\ buf'[2] = Later(c + 1)
  <2>1. /\ c % 2 = 1 => Append(Sooner(c), c) = Sooner(c + 1) /\ Later(c) = Later(c + 1)
        /\ c % 2 # 1 => Append(Later(c), c) = Later(c + 1) /\ Sooner(c) = Sooner(c + 1)
    BY <1>1, SharesGrow
  <2>2. s = IF c % 2 = 1 THEN 1 ELSE 2
    OBVIOUS
  <2>3. buf'[1] = (IF s = 1 THEN Append(buf[1], c) ELSE buf[1])
        /\ buf'[2] = (IF s = 2 THEN Append(buf[2], c) ELSE buf[2])
    BY <1>2, <1>3 DEF Stream
  <2> HIDE DEF s
  <2>4. CASE s = 1
    <3>1. c % 2 = 1
      BY <2>2, <2>4
    <3> QED  BY <2>1, <2>3, <2>4, <3>1, <1>4
  <2>5. CASE s # 1
    <3>1. c % 2 # 1 /\ s = 2
      BY <2>2, <2>5
    <3> QED  BY <2>1, <2>3, <2>5, <3>1, <1>4
  <2> QED  BY <2>4, <2>5
<1>7. FileTypeOK' /\ ThreadsInStep'
  <2>1. tpc'["main"] = "put" => c + 1 \in 1..Size
    BY <1>1, <1>2, <1>5
  <2>2. buf' \in [Stream -> Seq(1..Size)]
    <3> HIDE DEF s
    <3>1. Append(buf[s], c) \in Seq(1..Size)
      BY <1>1, <1>2, AppendProperties
    <3> QED  BY <3>1, <1>2, <1>3
  <2> QED  BY <1>1, <1>2, <1>3, <1>5, <2>1, <2>2, WriterTyped
<1>8. /\ out = <<>> /\ Len(sizes) = c + 1 /\ \A m \in DOMAIN sizes : sizes[m] = SizeAt(m)
  BY <1>1 DEF FileInv, ReportsInStep, Reports, c
<1>9. ReportsInStep'
  <2>1. sizes' = Append(sizes, 0) /\ 0 \in {Garbage} \cup Nat
    BY <1>1, <1>3, <1>4 DEF PrintStat
  <2>2. Len(sizes) + 1 = c + 2 /\ Len(sizes) > 0 /\ ~(c + 2 > Size + 2)
    BY <1>1, <1>2, <1>8
  <2>3. SizeAt(c + 2) = 0
    BY <1>1, <2>2, Sizes DEF SizeAt, before
  <2>4. /\ Len(sizes') = c + 2 /\ \A m \in DOMAIN sizes' : sizes'[m] = SizeAt(m)'
    BY <1>1, <1>3, <1>8, <2>1, <2>2, <2>3, SizesGrow
  <2>5. Reports' = c + 2
    <3>1. CASE c = Size
      BY <3>1, <1>1, <1>2, <1>3, <1>5 DEF Reports
    <3>2. CASE c # Size
      BY <3>2, <1>1, <1>2, <1>5 DEF Reports
    <3> QED  BY <3>1, <3>2
  <2>6. tpc'["main"] = "close" => got'["main"] = Size + 1
    BY <1>5
  <2> QED  BY <1>3, <1>5, <1>8, <2>4, <2>5, <2>6 DEF ReportsInStep
<1>10. WrittenAtClose'
  <2>1. turn' = 1 /\ tpc'["main"] \in {"put", "close"} /\ pos' = pos /\ file' = file
    BY <1>1, <1>3, <1>5
  <2>2. Sooner(got'["main"]) = Sooner(c + 1) /\ Later(got'["main"]) = Later(c + 1)
    BY <1>5
  <2> QED  BY <1>4, <1>6, <2>1, <2>2 DEF WrittenAtClose, Sooner, Later
<1>11. WrittenThrough'
  BY <1>3 DEF WrittenThrough
<1> QED  BY <1>1, <1>3, <1>7, <1>9, <1>10, <1>11, WritersAside DEF FileInv

\* A FILE's letters, 13 of 26, go to the front of the file.
LEMMA AtFront ==
  ASSUME file \in Seq(0..Size), NEW letters \in Seq(1..Size), Len(file) <= Len(letters)
  PROVE  WriteAt(0, letters) = letters
<1> DEFINE w == WriteAt(0, letters)
           l == Len(letters)
<1>1. l \in Nat /\ Len(file) \in Nat /\ letters \in Seq(0..Size)
  BY Sizes, SeqMonotonic, LenProperties
<1>2. /\ w \in Seq(0..Size) /\ Len(w) = IF 0 + l > Len(file) THEN 0 + l ELSE Len(file)
      /\ \A j \in 1..Len(w) : w[j] = IF j \in (0 + 1)..(0 + l) THEN letters[j - 0] ELSE file[j]
  <2>1. 0 \in 0..Len(file)
    BY <1>1
  <2> QED  BY <2>1, Overwrites
<1> HIDE DEF w, l
<1>3. Len(w) = l
  BY <1>1, <1>2 DEF l
<1>4. \A j \in 1..Len(w) : w[j] = letters[j]
  BY <1>1, <1>2, <1>3
<1> QED  BY <1>1, <1>2, <1>3, <1>4, SeqEqual DEF w, l

LEMMA ClosePreserves == ASSUME FileInv, Close
                        PROVE  FileInv'
<1> DEFINE c == got["main"]
<1>1. /\ FileTypeOK /\ ThreadsInStep /\ turn \in Stream
      /\ tpc["main"] = "close" /\ program \in Writers /\ (program = "3-fprintf" => exists)
  BY Places DEF FileInv, FileTypeOK, ThreadsInStep, Close
<1>2. /\ tpc \in [Thread -> {"none", "open", "create", "turn", "read", "write", "put",
                             "close", "join", "return", "end"}]
      /\ file \in Seq(0..Size) /\ pos \in [Stream -> Nat] /\ buf \in [Stream -> Seq(1..Size)]
      /\ got \in [Thread -> {Garbage} \cup (1..(Size + 1))] /\ Size \in Nat
  BY <1>1, Sizes DEF FileTypeOK
<1>3. /\ UNCHANGED <<program, exists, got, flag, out, createFails>> /\ PrintStat
      /\ file' = IF buf[turn] = <<>> THEN file ELSE WriteAt(pos[turn], buf[turn])
      /\ pos' = [pos EXCEPT ![turn] = @ + Len(buf[turn])]
      /\ buf' = [buf EXCEPT ![turn] = <<>>]
      /\ turn' \in Stream
      /\ turn = 1 => turn' = 2 /\ tpc' = tpc
      /\ turn = 2 => turn' = 1 /\ tpc' = [t \in Thread |-> "end"]
  BY <1>1 DEF Close, TwiceThen, Exit, Stream
<1>4. /\ pos' \in [Stream -> Nat] /\ buf' \in [Stream -> Seq(1..Size)]
  <2>1. pos[turn] + Len(buf[turn]) \in Nat
    <3>1. Len(buf[turn]) \in Nat
      BY <1>1, <1>2, LenProperties
    <3>2. pos[turn] \in Nat
      BY <1>1, <1>2
    <3> QED  BY <3>1, <3>2
  <2> QED  BY <2>1, <1>1, <1>2, <1>3
<1>5. ASSUME file' \in Seq(0..Size), ~exists => file' = <<>>, program = "3-write" => buf' = buf
      PROVE  FileTypeOK' /\ ThreadsInStep'
  <2>1. \/ tpc' = [t \in Thread |-> "end"]
        \/ tpc' = [tpc EXCEPT !["main"] = tpc'["main"]] /\ tpc'["main"] = "close"
    BY <1>1, <1>2, <1>3 DEF Stream
  <2> QED  BY <1>1, <1>2, <1>3, <1>4, <1>5, <2>1, WriterTyped
<1>6. ASSUME exists, Len(file') = SizeAt(Size + 2 + turn), Len(file') \in Nat
      PROVE  ReportsInStep' /\ before' = before /\ sizes' # <<>> /\ c = Size + 1
               /\ sizes # <<>>
  <2>1. /\ out = <<>> /\ Len(sizes) = Size + 1 + turn /\ c = Size + 1
        /\ \A m \in DOMAIN sizes : sizes[m] = SizeAt(m)
    BY <1>1, <1>6 DEF FileInv, ReportsInStep, Reports
  <2>2. sizes' = Append(sizes, Len(file')) /\ Len(file') \in {Garbage} \cup Nat
    BY <1>3, <1>6 DEF PrintStat
  <2>3. Len(sizes) + 1 = Size + 2 + turn /\ Len(sizes) > 0
    BY <1>1, <1>2, <2>1 DEF Stream
  <2>4. /\ before' = before /\ Len(sizes') = Size + 2 + turn /\ sizes' # <<>>
        /\ \A m \in DOMAIN sizes' : sizes'[m] = SizeAt(m)'
    BY <1>1, <1>3, <1>6, <2>1, <2>2, <2>3, SizesGrow
  <2>5. CASE turn = 1
    <3>1. turn' = 2 /\ tpc'["main"] = "close" /\ got'["main"] = Size + 1
      BY <2>5, <1>1, <1>3, <2>1
    <3>2. Reports' = Size + 3
      BY <3>1, <1>2 DEF Reports
    <3> QED  BY <1>3, <2>1, <2>3, <2>4, <2>5, <3>1, <3>2, <1>2 DEF ReportsInStep
  <2>6. CASE turn = 2
    <3>1. turn' = 1 /\ tpc'["main"] = "end" /\ got'["main"] = Size + 1
      BY <2>6, <1>3, <2>1 DEF Thread
    <3>2. Reports' = Size + 4
      BY <3>1, <1>2 DEF Reports
    <3> QED  BY <1>3, <2>1, <2>3, <2>4, <2>6, <3>1, <3>2, <1>2 DEF ReportsInStep
  <2> QED  BY <2>5, <2>6, <1>1 DEF Stream
<1>7. CASE program = "3-write"
  <2>1. /\ buf = [r \in Stream |-> <<>>] /\ file' = file
        /\ buf' = buf /\ pos' = pos
    <3>1. buf = [r \in Stream |-> <<>>] /\ buf[turn] = <<>> /\ Len(buf[turn]) = 0
      BY <1>1, <1>7 DEF ThreadsInStep
    <3>2. pos[turn] \in Nat /\ pos[turn] + 0 = pos[turn]
      BY <1>1, <1>2
    <3> QED  BY <3>1, <3>2, <1>2, <1>3
  <2>2. FileTypeOK' /\ ThreadsInStep'
    BY <1>1, <1>2, <1>5, <2>1 DEF ThreadsInStep
  <2>3. CASE ~exists
    <3>1. (ReportsInStep /\ WrittenThrough /\ WrittenAtClose)'
      BY <1>3, <2>3 DEF ReportsInStep, WrittenThrough, WrittenAtClose
    <3> QED  BY <1>1, <1>3, <2>2, <3>1, WritersAside DEF FileInv
  <2>4. CASE exists
    <3>1. /\ Len(sizes) = Size + 1 + turn /\ c = Size + 1
          /\ \A m \in DOMAIN sizes : sizes[m] = SizeAt(m)
      BY <1>1, <2>4 DEF FileInv, ReportsInStep, Reports
    <3>2. Len(sizes) > 0 /\ sizes # <<>>
      BY <1>1, <1>2, <3>1 DEF Stream
    <3>3. before \in Nat
      BY <1>1, <3>1, <3>2, FirstSize
    <3>4. /\ pos[1] = c \div 2 /\ pos[2] = (c - 1) \div 2
          /\ Len(file) = IF pos[1] > before THEN pos[1] ELSE before
          /\ \A j \in DOMAIN file : file[j] = IF j <= pos[2] THEN 2 * j
                                            ELSE IF j <= pos[1] THEN 2 * j - 1 ELSE OldByte
      BY <1>1, <1>7, <2>4, <3>2 DEF FileInv, WrittenThrough
    <3>5. pos[1] = half /\ ((Size + 2 + turn) - 1) \div 2 > half
      <4>1. half \in Nat /\ Size = 2 * half
        BY Sizes
      <4>2. (2 * half + 1) \div 2 = half /\ (2 * half + 2) \div 2 > half
              /\ (2 * half + 3) \div 2 > half
        BY <4>1
      <4>3. (Size + 2 + turn) - 1 = 2 * half + 2 \/ (Size + 2 + turn) - 1 = 2 * half + 3
        BY <1>1, <4>1 DEF Stream
      <4> QED  BY <3>1, <3>4, <4>1, <4>2, <4>3
    <3>6. SizeAt(Size + 2 + turn) = IF before > half THEN before ELSE half
      <4> DEFINE k == ((Size + 2 + turn) - 1) \div 2
      <4>1. k > half
        BY <3>5
      <4>2. SizeAt(Size + 2 + turn) = IF k > half THEN IF before > half THEN before ELSE half
                                      ELSE IF k > before THEN k ELSE before
        BY <1>7 DEF SizeAt
      <4> HIDE DEF k
      <4> QED  BY <4>1, <4>2
    <3>7. Len(file') = SizeAt(Size + 2 + turn) /\ Len(file') \in Nat
      BY <2>1, <3>3, <3>4, <3>5, <3>6, Sizes
    <3>8. ReportsInStep' /\ before' = before /\ sizes' # <<>>
      BY <1>6, <2>4, <3>7
    <3>9. WrittenThrough'
      <4>1. tpc'["main"] # "open" /\ got'["main"] = c
        BY <1>1, <1>3 DEF Stream, Thread
      <4> QED  BY <1>3, <2>1, <3>4, <3>8, <4>1 DEF WrittenThrough
    <3>10. WrittenAtClose'
      BY <1>3, <1>7 DEF WrittenAtClose
    <3> QED  BY <1>1, <1>3, <2>2, <3>8, <3>9, <3>10, WritersAside DEF FileInv
  <2> QED  BY <2>3, <2>4
<1>8. CASE program = "3-fprintf"
  <2>1. c = Size + 1 /\ c \in 1..(Size + 1) /\ exists
    BY <1>1, <1>2, <1>8 DEF FileInv, ReportsInStep
  <2>2. /\ Sooner(c) \in Seq(1..Size) /\ Len(Sooner(c)) = half
        /\ Later(c) \in Seq(1..Size) /\ Len(Later(c)) = half
        /\ half \in Nat \ {0} /\ Sooner(c) # <<>> /\ Later(c) # <<>>
    <3>1. half \in Nat \ {0} /\ Size = 2 * half
      BY Sizes
    <3>2. (2 * half + 1) \div 2 = half /\ (2 * half + 1) - 1 = 2 * half /\ (2 * half) \div 2 = half
      BY <3>1
    <3>3. c \div 2 = half /\ (c - 1) \div 2 = half
      BY <2>1, <3>1, <3>2
    <3> QED  BY <2>1, <3>1, <3>3, Shares
  <2>3. before = 0
    BY <1>8 DEF before
  <2>4. CASE turn = 1
    <3>1. pos = [r \in Stream |-> 0] /\ buf[1] = Sooner(c) /\ buf[2] = Later(c) /\ file = <<>>
      BY <1>1, <1>8, <2>1, <2>4 DEF FileInv, WrittenAtClose
    <3>2. file' = Sooner(c)
      <4>1. file' = WriteAt(0, Sooner(c)) /\ Len(file) = 0 /\ 0 <= half
        BY <1>3, <2>2, <2>4, <3>1 DEF Stream
      <4> QED  BY <4>1, <1>2, <2>2, AtFront
    <3>3. file' \in Seq(0..Size) /\ Len(file') = half /\ Len(file') \in Nat
      BY <2>2, <3>2, Sizes, SeqMonotonic
    <3>4. SizeAt(Size + 2 + turn) = half
      BY <1>8, <1>2, <2>2, <2>3, <2>4 DEF SizeAt
    <3>5. FileTypeOK' /\ ThreadsInStep' /\ ReportsInStep'
      BY <1>5, <1>6, <1>8, <2>1, <3>3, <3>4
    <3>6. WrittenAtClose'
      <4>1. /\ turn' = 2 /\ tpc'["main"] = "close" /\ got'["main"] = c
            /\ pos'[2] = 0 /\ buf'[2] = Later(c)
        BY <1>1, <1>2, <1>3, <2>4, <3>1 DEF Stream
      <4> QED  BY <3>2, <4>1 DEF WrittenAtClose, Sooner, Later
    <3>7. WrittenThrough'
      BY <1>3, <1>8 DEF WrittenThrough
    <3> QED  BY <1>1, <1>3, <3>5, <3>6, <3>7, WritersAside DEF FileInv
  <2>5. CASE turn = 2
    <3>1. pos[2] = 0 /\ buf[2] = Later(c) /\ file = Sooner(c)
      BY <1>1, <1>8, <2>1, <2>5 DEF FileInv, WrittenAtClose
    <3>2. file' = Later(c)
      <4>1. file' = WriteAt(0, Later(c)) /\ Len(file) <= Len(Later(c))
        BY <1>3, <2>2, <2>5, <3>1
      <4> QED  BY <4>1, <1>2, <2>2, AtFront
    <3>3. file' \in Seq(0..Size) /\ Len(file') = half /\ Len(file') \in Nat
      BY <2>2, <3>2, Sizes, SeqMonotonic
    <3>4. SizeAt(Size + 2 + turn) = half
      BY <1>8, <1>2, <2>2, <2>3, <2>5 DEF SizeAt
    <3>5. FileTypeOK' /\ ThreadsInStep' /\ ReportsInStep'
      BY <1>5, <1>6, <1>8, <2>1, <3>3, <3>4
    <3>6. WrittenAtClose'
      <4>1. tpc'["main"] = "end" /\ got'["main"] = c
        BY <1>3, <2>5 DEF Thread
      <4> QED  BY <3>2, <4>1 DEF WrittenAtClose, Sooner, Later
    <3>7. WrittenThrough'
      BY <1>3, <1>8 DEF WrittenThrough
    <3> QED  BY <1>1, <1>3, <3>5, <3>6, <3>7, WritersAside DEF FileInv
  <2> QED  BY <2>4, <2>5, <1>1 DEF Stream
<1> QED  BY <1>1, <1>7, <1>8 DEF Writers

-----------------------------------------------------------------------------
(* open() and fopen(), and the whole.                                      *)

LEMMA OpenPreserves == ASSUME FileInv, Open
                       PROVE  FileInv'
<1>1. /\ FileTypeOK /\ ThreadsInStep /\ tpc["main"] = "open"
      /\ program \in Program \ {"2-3t-det"} /\ turn \in Stream /\ Size \in Nat
  BY Sizes DEF FileInv, FileTypeOK, ThreadsInStep, MainsPlaces, Open, Writers, Program
<1>2. /\ tpc \in [Thread -> {"none", "open", "create", "turn", "read", "write", "put",
                             "close", "join", "return", "end"}]
      /\ file \in Seq(0..Size) /\ sizes \in Seq({Garbage} \cup Nat)
      /\ got \in [Thread -> {Garbage} \cup (1..(Size + 1))]
      /\ tpc["t1"] = "none" /\ tpc["t2"] = "none"
      /\ pos = [s \in Stream |-> 0] /\ out = <<>> /\ flag = [s \in Stream |-> TRUE]
      /\ buf = [s \in Stream |-> <<>>] /\ (turn = 1 => sizes = <<>>)
      /\ pos[1] = 0 /\ pos[2] = 0 /\ buf[1] = <<>> /\ buf[2] = <<>>
      /\ flag[1] = TRUE
  BY <1>1 DEF FileTypeOK, ThreadsInStep, Stream
<1>3. UNCHANGED <<program, pos, buf, flag, out, createFails>>
  BY DEF Open
<1> DEFINE place == CASE program \in Writers       -> "put"
                      [] program \in {"1", "2-1t"} -> "turn"
                      [] OTHER                     -> "create"
<1>4. /\ place \in {"put", "turn", "create"} /\ (place = "put" <=> program \in Writers)
      /\ place = "turn" <=> program \in {"1", "2-1t"}
      /\ place = "create" <=> program \in {"2-2t", "2-2t-det", "2-3t"}
  BY <1>1 DEF Writers, Program
<1> HIDE DEF place
<1>5. \/ /\ program = "1" /\ ~exists /\ tpc' = [t \in Thread |-> "end"] /\ turn' = turn
      \/ /\ ~(program = "1" /\ ~exists)
         /\ \/ turn = 1 /\ turn' = 2 /\ tpc' = tpc
            \/ turn = 2 /\ turn' = 1 /\ tpc' = [tpc EXCEPT !["main"] = place]
  BY <1>1 DEF Open, TwiceThen, Goto, Exit, place, Stream
<1>6. /\ program = "3-fprintf" => exists' = TRUE /\ file' = <<>>
      /\ program # "3-fprintf" => exists' = exists /\ file' = file
      /\ program \in Writers => /\ sizes' = Append(sizes, IF exists' THEN Len(file') ELSE Garbage)
                                /\ got' = [got EXCEPT !["main"] = 1]
      /\ program \notin Writers => sizes' = sizes /\ got' = got
  BY DEF Open, PrintStat
<1>7. FileTypeOK'
  <2>1. file' \in Seq(0..Size) /\ exists' \in BOOLEAN
    <3>1. CASE program = "3-fprintf"
      <4>1. <<>> \in Seq(0..Size)
        BY EmptySeq
      <4> QED  BY <3>1, <4>1, <1>6
    <3>2. CASE program # "3-fprintf"
      BY <3>2, <1>1, <1>2, <1>6 DEF FileTypeOK
    <3> QED  BY <3>1, <3>2
  <2>2. sizes' \in Seq({Garbage} \cup Nat)
    <3>1. Len(file') \in Nat
      BY <2>1, LenProperties
    <3>2. (IF exists' THEN Len(file') ELSE Garbage) \in {Garbage} \cup Nat
      BY <3>1
    <3> DEFINE size == IF exists' THEN Len(file') ELSE Garbage
    <3>3. size \in {Garbage} \cup Nat
      BY <3>2
    <3>4. program \in Writers => sizes' = Append(sizes, size)
      BY <1>6
    <3> HIDE DEF size
    <3>5. Append(sizes, size) \in Seq({Garbage} \cup Nat)
      BY <3>3, <1>2, AppendProperties
    <3> QED  BY <3>4, <3>5, <1>2, <1>6
  <2>3. got' \in [Thread -> {Garbage} \cup (1..(Size + 1))]
    <3>1. 1 \in 1..(Size + 1)
      BY <1>1
    <3> QED  BY <3>1, <1>2, <1>6
  <2>4. /\ tpc' \in [Thread -> {"none", "open", "create", "turn", "read", "write", "put",
                                "close", "join", "return", "end"}]
        /\ turn' \in Stream
    BY <1>1, <1>2, <1>4, <1>5 DEF Thread, Stream
  <2> QED  BY <1>1, <1>3, <2>1, <2>2, <2>3, <2>4 DEF FileTypeOK
<1>8. ThreadsInStep'
  <2>1. /\ tpc'["main"] \in {"open", "end", place} /\ tpc'["t1"] \in {"none", "end"}
        /\ tpc'["t2"] \in {"none", "end"}
        /\ tpc'["main"] # "end" => tpc'["t1"] = "none" /\ tpc'["t2"] = "none"
        /\ tpc'["main"] = "open" => turn' = 2
        /\ tpc'["main"] = place => turn' = 1
        /\ tpc'["main"] = "end" => program = "1" /\ ~exists
    BY <1>1, <1>2, <1>4, <1>5 DEF Thread
  <2>2. tpc'["main"] \in MainsPlaces'
    <3>1. MainsPlaces' = MainsPlaces
      BY <1>3 DEF MainsPlaces
    <3>2. "open" \in MainsPlaces /\ (program = "1" => "end" \in MainsPlaces)
      BY <1>1 DEF ThreadsInStep, MainsPlaces, Writers
    <3>3. place \in MainsPlaces
      BY <1>1, <1>4 DEF MainsPlaces, Program, Writers
    <3> QED  BY <2>1, <3>1, <3>2, <3>3
  <2>3. \A t \in Thread : tpc'[t] \notin {"read", "write"}
    BY <1>4, <2>1 DEF Thread
  <2>4. \A t \in Reads' : got'[t] \in {Garbage} \cup (1..Size)
    <3>1. Reads' = Reads /\ (program \in Writers => Reads = {})
      BY <1>3 DEF Reads, Writers
    <3> QED  BY <1>1, <1>6, <3>1 DEF ThreadsInStep
  <2>5. tpc'["main"] = "put" => got'["main"] \in 1..Size
    <3>1. 1 \in 1..Size
      BY Sizes
    <3> QED  BY <3>1, <1>2, <1>4, <1>6, <2>1 DEF Thread
  <2>6. /\ exists' /\ program' \notin Writers => file' = Alphabet
        /\ ~exists' => file' = <<>>
    BY <1>1, <1>3, <1>6 DEF ThreadsInStep, Writers
  <2>7. /\ program \in {"2-2t", "2-2t-det"} => turn' = 1 \/ tpc'["main"] = "open"
        /\ tpc'["main"] = "turn" /\ program = "1" => exists'
        /\ program = "3-fprintf" => exists'
    BY <1>1, <1>2, <1>5, <1>6, <2>1 DEF Thread
  <2> QED  BY <1>2, <1>3, <1>4, <2>1, <2>2, <2>3, <2>4, <2>5, <2>6, <2>7 DEF ThreadsInStep
<1>9. /\ Len(out) = 0 /\ DOMAIN out = {} /\ Range(out) = {}
      /\ \A s, m : Count(out, s, m) = Count(out', s, m)
  BY <1>2, <1>3 DEF Range
<1>10. SharedOffset'
  <2> SUFFICES ASSUME program = "1", exists
               PROVE  SharedOffset'
    BY <1>3, <1>6 DEF SharedOffset
  <2>1. tpc'["main"] # "end" /\ flag'[1] /\ Len(<<>>) = 0 /\ Range(<<>>) = {} /\ 1..0 = {}
    BY <1>1, <1>2, <1>3, <1>4, <1>5 DEF Thread, Range
  <2>2. pos'[1] = 0 /\ buf'[1] = <<>> /\ buf'[2] = <<>> /\ out' = <<>> /\ 0 <= Size
    BY <1>1, <1>2, <1>3
  <2>3. \A s \in Stream : buf'[s] = <<>> /\ Increasing(buf'[s])
    BY <1>2, <1>3 DEF Increasing
  <2>4. {e.c : e \in Range(out')} \cup Range(buf'[1]) \cup Range(buf'[2]) = 1..pos'[1]
    BY <2>1, <2>2
  <2> QED  BY <1>3, <1>9, <2>1, <2>2, <2>3, <2>4 DEF SharedOffset
<1>11. SideBySide'
  <2> SUFFICES ASSUME program = "2-1t", exists
               PROVE  SideBySide'
    BY <1>3, <1>6 DEF SideBySide
  <2>1. /\ tpc'["main"] # "end" /\ (tpc'["main"] = "turn" => turn' = 1) /\ flag'[1]
    BY <1>1, <1>2, <1>3, <1>4, <1>5 DEF Thread
  <2> QED  BY <1>1, <1>2, <1>3, <1>9, <2>1 DEF SideBySide
<1>12. EachInOrder'
  <2>1. Ended => FALSE
    BY <1>1 DEF Ended, Thread
  <2>2. ASSUME Reads # {}
        PROVE  /\ \A t \in Thread : tpc'[t] \notin {"write", "return", "end"}
                                     /\ tpc[t] \notin {"write", "return", "end"}
               /\ exists' = exists /\ got' = got
    <3>1. program \in {"2-2t", "2-2t-det", "2-3t", "2-3t-det"}
      BY <1>1, <2>2, Places
    <3> QED  BY <3>1, <1>1, <1>2, <1>4, <1>5, <1>6 DEF Thread, Writers
  <2>3. Reads' = Reads
    BY <1>3 DEF Reads
  <2>4. CASE Reads = {}
    BY <2>3, <2>4 DEF EachInOrder
  <2>5. CASE Reads # {}
    <3>1. Reads \subseteq Thread
      BY DEF Reads, Thread
    <3>2. \A t : ~Stale(t)
      BY <1>1, Fresh
    <3> QED  BY <1>3, <2>1, <2>2, <2>5, <3>1, <3>2, SameLetters DEF FileInv
  <2> QED  BY <2>4, <2>5
<1>13. CASE program \notin Writers
  <2>1. (ReportsInStep /\ WrittenThrough /\ WrittenAtClose)'
    BY <1>3, <1>13 DEF ReportsInStep, WrittenThrough, WrittenAtClose, Writers
  <2> QED  BY <1>7, <1>8, <1>10, <1>11, <1>12, <2>1 DEF FileInv
<1>14. CASE program \in Writers
  <2>1. CASE ~exists'
    <3>1. (ReportsInStep /\ WrittenThrough /\ WrittenAtClose)'
      BY <2>1 DEF ReportsInStep, WrittenThrough, WrittenAtClose
    <3> QED  BY <1>7, <1>8, <1>10, <1>11, <1>12, <3>1 DEF FileInv
  <2>2. CASE exists'
    <3> DEFINE v == Len(file')
    <3>1. v \in Nat /\ sizes' = Append(sizes, v) /\ v \in {Garbage} \cup Nat
      BY <1>7, <1>6, <1>14, <2>2, LenProperties DEF FileTypeOK
    <3> HIDE DEF v
    <3>2. \A j \in DOMAIN file' : file'[j] = OldByte
      <4>1. CASE program = "3-fprintf"
        BY <4>1, <1>6
      <4>2. CASE program = "3-write"
        BY <4>2, <1>1, <1>6, <1>14, <2>2 DEF FileInv, ReportsInStep
      <4> QED  BY <4>1, <4>2, <1>14 DEF Writers
    <3>3. program = "3-fprintf" => v = 0 /\ file' = <<>>
      BY <1>6 DEF v
    <3>4. /\ before' \in Nat /\ Len(sizes') = Reports' /\ sizes' # <<>>
          /\ \A m \in DOMAIN sizes' : sizes'[m] = SizeAt(m)'
          /\ v = IF program = "3-write" THEN before' ELSE 0
      <4>1. CASE turn = 1
        <5>1. sizes' = <<v>> /\ Len(sizes') = 1 /\ DOMAIN sizes' = {1} /\ sizes'[1] = v
          BY <4>1, <1>2, <3>1
        <5>2. before' = IF program = "3-write" THEN v ELSE 0
          BY <5>1, <1>3 DEF before
        <5>3. Reports' = 1
          BY <4>1, <1>1, <1>5, <1>14 DEF Reports, Writers
        <5>4. SizeAt(1)' = v
          <6>1. (1 - 1) \div 2 = 0 /\ ~(1 > Size + 2)
            BY <1>1
          <6>2. SizeAt(1)' = IF 0 > half THEN IF before' > half THEN before' ELSE half
                             ELSE IF 0 > before' THEN 0 ELSE before'
            BY <6>1 DEF SizeAt, half
          <6> QED  BY <6>2, <5>2, <3>1, <3>3, <1>3, <1>14, Sizes DEF Writers
        <5> QED  BY <5>1, <5>2, <5>3, <5>4, <3>1, <3>3, <1>14 DEF Writers
      <4>2. CASE turn = 2
        <5>1. exists /\ file' = IF program = "3-fprintf" THEN <<>> ELSE file
          BY <4>2, <1>1, <1>6, <2>2 DEF ThreadsInStep
        <5>2. Len(sizes) = 1 /\ \A m \in DOMAIN sizes : sizes[m] = SizeAt(m)
          BY <4>2, <5>1, <1>1, <1>14 DEF FileInv, ReportsInStep, Reports
        <5>3. before \in Nat /\ sizes # <<>>
          <6>1. Len(sizes) > 0
            BY <5>2
          <6>2. sizes # <<>>
            BY <6>1
          <6>3. \A m \in DOMAIN sizes : sizes[m] = SizeAt(m)
            BY <5>2
          <6> QED  BY <6>1, <6>2, <6>3, <1>1, <1>14, <5>1, FirstSize
        <5>4. v = IF program = "3-write" THEN before ELSE 0
          <6>1. CASE program = "3-write"
            <7>1. Len(file) = IF 0 > before THEN 0 ELSE before
              BY <6>1, <5>1, <5>3, <1>2 DEF FileInv, WrittenThrough
            <7> QED  BY <6>1, <7>1, <5>1, <5>3 DEF v
          <6>2. CASE program = "3-fprintf"
            BY <6>2, <3>3
          <6> QED  BY <6>1, <6>2, <1>14 DEF Writers
        <5>5. SizeAt(2) = v
          <6>1. (2 - 1) \div 2 = 0 /\ ~(2 > Size + 2)
            BY <1>1
          <6>2. SizeAt(2) = IF 0 > half THEN IF before > half THEN before ELSE half
                            ELSE IF 0 > before THEN 0 ELSE before
            BY <6>1 DEF SizeAt
          <6> QED  BY <6>2, <5>3, <5>4, <1>14, Sizes DEF before, Writers
        <5>6. /\ before' = before /\ Len(sizes') = 2 /\ sizes' # <<>>
              /\ \A m \in DOMAIN sizes' : sizes'[m] = SizeAt(m)'
          BY <5>2, <5>5, <1>1, <1>3, <3>1, SizesGrow
        <5>7. Reports' = 2
          BY <4>2, <1>1, <1>2, <1>4, <1>5, <1>6, <1>14 DEF Reports, Writers, Thread
        <5> QED  BY <5>3, <5>4, <5>6, <5>7
      <4> QED  BY <4>1, <4>2, <1>1 DEF Stream
    <3>5. /\ tpc'["main"] \in {"open", "put"} /\ (tpc'["main"] = "open" => turn' = 2)
          /\ tpc'["main"] = "put" => turn' = 1 /\ got'["main"] = 1
      BY <1>1, <1>2, <1>4, <1>5, <1>6, <1>14 DEF Thread, Writers
    <3>6. ReportsInStep'
      BY <1>2, <1>3, <3>2, <3>4, <3>5 DEF ReportsInStep
    <3>7. WrittenThrough'
      <4> SUFFICES ASSUME program = "3-write"
                   PROVE  WrittenThrough'
        BY <1>3 DEF WrittenThrough
      <4>1. 1 \div 2 = 0 /\ (1 - 1) \div 2 = 0
        OBVIOUS
      <4>2. (IF tpc'["main"] = "open" THEN 1 ELSE got'["main"]) = 1
        BY <3>5
      <4>3. Len(file') = IF 0 > before' THEN 0 ELSE before'
        BY <3>4 DEF v
      <4>4. \A j \in DOMAIN file' : ~(j <= 0)
        BY <1>7, LenProperties DEF FileTypeOK
      <4> QED  BY <1>2, <1>3, <3>2, <4>1, <4>2, <4>3, <4>4 DEF WrittenThrough
    <3>8. WrittenAtClose'
      <4> SUFFICES ASSUME program = "3-fprintf"
                   PROVE  WrittenAtClose'
        BY <1>3 DEF WrittenAtClose
      <4>1. Sooner(1) = <<>> /\ Later(1) = <<>>
        <5>1. 1 \div 2 = 0 /\ (1 - 1) \div 2 = 0 /\ 1 \in 1..(Size + 1)
          BY <1>1
        <5>2. /\ Sooner(1) \in Seq(1..Size) /\ Len(Sooner(1)) = 0
              /\ Later(1) \in Seq(1..Size) /\ Len(Later(1)) = 0
          BY <5>1, Shares
        <5> QED  BY <5>2, EmptySeq
      <4>2. CASE tpc'["main"] = "open"
        BY <4>2, <3>3 DEF WrittenAtClose
      <4>3. CASE tpc'["main"] = "put"
        <5>1. got'["main"] = 1 /\ file' = <<>>
          BY <4>3, <3>3, <3>5
        <5>2. Sooner(got'["main"]) = <<>> /\ Later(got'["main"]) = <<>>
          BY <4>1, <5>1
        <5> QED  BY <4>3, <5>1, <5>2, <1>2, <1>3 DEF WrittenAtClose, Sooner, Later
      <4> QED  BY <4>2, <4>3, <3>5
    <3> QED  BY <1>7, <1>8, <1>10, <1>11, <1>12, <3>6, <3>7, <3>8 DEF FileInv
  <2> QED  BY <2>1, <2>2
<1> QED  BY <1>13, <1>14

LEMMA InitHolds == ASSUME FileInit
                   PROVE  FileInv
<1>1. /\ Size \in Nat \ {0} /\ BufSize \in Nat \ {0} /\ MaxCreateFails \in Nat
  BY Sizes
<1>2. /\ program \in Program /\ exists \in BOOLEAN /\ turn = 1 /\ out = <<>> /\ sizes = <<>>
      /\ pos = [s \in Stream |-> 0] /\ buf = [s \in Stream |-> <<>>]
      /\ flag = [s \in Stream |-> TRUE] /\ got = [t \in Thread |-> Garbage] /\ createFails = 0
      /\ tpc["main"] = (IF program = "2-3t-det" THEN "create" ELSE "open")
      /\ tpc["t1"] = "none" /\ tpc["t2"] = "none"
      /\ tpc \in [Thread -> {"none", "open", "create"}]
  BY DEF FileInit, Thread
<1>3. /\ ~exists => file = <<>>
      /\ exists /\ program \notin Writers => file = Alphabet
      /\ file \in Seq(0..Size)
      /\ exists /\ program \in Writers => \A j \in DOMAIN file : file[j] = OldByte
  <2>1. CASE ~exists
    <3>1. file = <<>> /\ <<>> \in Seq(0..Size)
      BY <2>1, EmptySeq DEF FileInit
    <3> QED  BY <2>1, <3>1
  <2>2. CASE exists /\ program \notin Writers
    <3>1. file = Alphabet
      BY <2>2 DEF FileInit
    <3>2. Alphabet \in [1..Size -> 0..Size]
      BY <1>1 DEF Alphabet
    <3>3. Alphabet \in Seq(0..Size)
      BY <1>1, <3>2, SeqOfFunction
    <3> QED  BY <2>2, <3>1, <3>3
  <2>3. CASE exists /\ program \in Writers
    <3>1. PICK n \in 0..Size : file = [j \in 1..n |-> OldByte]
      BY <2>3 DEF FileInit
    <3>2. n \in Nat /\ file \in [1..n -> 0..Size]
      BY <1>1, <3>1 DEF OldByte
    <3>3. file \in Seq(0..Size)
      BY <3>2, SeqOfFunction
    <3> QED  BY <2>3, <3>1, <3>3
  <2> QED  BY <2>1, <2>2, <2>3, <1>2
<1>4. FileTypeOK
  <2>1. out \in Seq([from : Stream, c : {Garbage} \cup (1..Size)])
    BY <1>2, EmptySeq
  <2>2. sizes \in Seq({Garbage} \cup Nat)
    BY <1>2, EmptySeq
  <2>3. buf \in [Stream -> Seq(1..Size)]
    <3>1. <<>> \in Seq(1..Size)
      BY EmptySeq
    <3> QED  BY <3>1, <1>2
  <2>4. turn \in Stream /\ createFails \in 0..MaxCreateFails
    BY <1>1, <1>2 DEF Stream
  <2>5. pos \in [Stream -> Nat] /\ got \in [Thread -> {Garbage} \cup (1..(Size + 1))]
    BY <1>1, <1>2
  <2>6. flag \in [Stream -> BOOLEAN]
    BY <1>2, Zenon
  <2>7. tpc \in [Thread -> {"none", "open", "create", "turn", "read", "write", "put",
                            "close", "join", "return", "end"}]
    BY <1>2
  <2> QED  BY <1>2, <1>3, <2>1, <2>2, <2>3, <2>4, <2>5, <2>6, <2>7 DEF FileTypeOK
<1>5. \A t \in Thread : tpc[t] \notin {"read", "write", "return", "end"}
  BY <1>2 DEF Thread
<1>6. Reads \subseteq Thread /\ pos[1] = 0 /\ pos[2] = 0 /\ \A s \in Stream : pos[s] = 0
  BY <1>2 DEF Reads, Thread, Stream
<1>7. ThreadsInStep
  <2>1. tpc["main"] \in MainsPlaces
    BY <1>2 DEF MainsPlaces, Program, Writers
  <2>2. \A t \in Reads : got[t] \in {Garbage} \cup (1..Size)
    BY <1>2, <1>6
  <2> QED  BY <1>2, <1>3, <1>5, <2>1, <2>2 DEF ThreadsInStep
<1>8. Len(out) = 0 /\ DOMAIN out = {} /\ Len(sizes) = 0 /\ DOMAIN sizes = {} /\ Range(out) = {}
  BY <1>2 DEF Range
<1>9. SharedOffset
  <2> SUFFICES ASSUME program = "1", exists
               PROVE  SharedOffset
    BY DEF SharedOffset
  <2>1. buf[1] = <<>> /\ buf[2] = <<>> /\ \A s \in Stream : buf[s] = <<>> /\ Increasing(buf[s])
    BY <1>2 DEF Stream, Increasing
  <2>2. Range(<<>>) = {} /\ Len(<<>>) = 0 /\ 1..0 = {}
    BY DEF Range
  <2>3. {e.c : e \in Range(out)} \cup Range(buf[1]) \cup Range(buf[2]) = 1..pos[1]
    BY <1>6, <1>8, <2>1, <2>2
  <2>4. pos[1] <= Size /\ Len(out) + Len(buf[1]) + Len(buf[2]) = pos[1]
    BY <1>1, <1>6, <1>8, <2>1, <2>2
  <2>5. tpc["main"] # "end" /\ turn # 2
    BY <1>2
  <2>6. \A j \in DOMAIN out : FALSE
    BY <1>8
  <2> QED  BY <2>1, <2>3, <2>4, <2>5, <2>6 DEF SharedOffset
<1>10. SideBySide
  BY <1>1, <1>2, <1>6, <1>8 DEF SideBySide
<1>11. EachInOrder
  <2>1. \A s : PrintedBy(s) = 0
    <3>1. \A s : {j \in 1..0 : out[j].from = s} = {}
      OBVIOUS
    <3> QED  BY <1>8, <3>1, FS_EmptySet DEF PrintedBy, Count
  <2>2. \A t \in Reads : StreamOf(t) \in Stream
    BY DEF StreamOf, Stream
  <2>3. InOrder
    BY <1>8 DEF InOrder
  <2>4. \A t \in Reads : /\ pos[StreamOf(t)] <= Size
                         /\ tpc[t] \notin {"write", "return", "end"}
                         /\ PrintedBy(StreamOf(t)) = pos[StreamOf(t)]
    BY <1>1, <1>5, <1>6, <2>1, <2>2
  <2> QED  BY <2>3, <2>4 DEF EachInOrder
<1>12. ReportsInStep
  BY <1>2, <1>3, <1>8 DEF ReportsInStep, Reports, Writers
<1>13. WrittenThrough
  <2> SUFFICES ASSUME program = "3-write", exists
               PROVE  WrittenThrough
    BY DEF WrittenThrough
  <2>1. 1 \div 2 = 0 /\ (1 - 1) \div 2 = 0
    OBVIOUS
  <2>2. \A j \in DOMAIN file : file[j] = OldByte /\ ~(j <= 0)
    BY <1>3, LenProperties DEF Writers
  <2> QED  BY <1>2, <1>6, <2>1, <2>2 DEF WrittenThrough
<1>14. WrittenAtClose
  BY <1>2 DEF WrittenAtClose
<1> QED  BY <1>4, <1>7, <1>9, <1>10, <1>11, <1>12, <1>13, <1>14 DEF FileInv

LEMMA StutterPreserves == ASSUME FileInv, UNCHANGED fileVars
                          PROVE  FileInv'
<1>1. UNCHANGED <<program, exists, file, pos, buf, tpc, turn, got, flag, out, sizes, createFails>>
  BY DEF fileVars
<1>2. Reads' = Reads /\ MainsPlaces' = MainsPlaces /\ Ended' = Ended /\ before' = before
  BY <1>1 DEF Reads, MainsPlaces, Ended, before
<1>3. FileTypeOK' /\ ThreadsInStep'
  BY <1>1, <1>2, SMTT(30) DEF FileInv, FileTypeOK, ThreadsInStep
<1>4. SharedOffset' /\ SideBySide'
  BY <1>1 DEF FileInv, SharedOffset, SideBySide
<1>5. EachInOrder'
  <2>1. InOrder' = InOrder /\ \A s : PrintedBy(s)' = PrintedBy(s)
    BY <1>1 DEF InOrder, Unread, PrintedBy
  <2>2. \A t : Stale(t)' = Stale(t) /\ StreamOf(t)' = StreamOf(t)
    BY <1>1 DEF Stale, StreamOf
  <2> QED  BY <1>1, <1>2, <2>1, <2>2 DEF FileInv, EachInOrder
<1>6. ReportsInStep'
  <2>1. Reports' = Reports /\ \A m : SizeAt(m)' = SizeAt(m)
    BY <1>1, <1>2 DEF Reports, SizeAt
  <2> QED  BY <1>1, <2>1 DEF FileInv, ReportsInStep
<1>7. WrittenThrough' /\ WrittenAtClose'
  BY <1>1, <1>2 DEF FileInv, WrittenThrough, WrittenAtClose
<1> QED  BY <1>3, <1>4, <1>5, <1>6, <1>7 DEF FileInv

LEMMA NextPreserves == ASSUME FileInv, FileNext
                       PROVE  FileInv'
<1>1. FileTypeOK /\ ThreadsInStep
  BY DEF FileInv
<1>2. ASSUME Turn
      PROVE  FileInv'
  <2>1. program \in {"1", "2-1t"}
    BY <1>1, <1>2, Places DEF Turn
  <2> QED  BY <1>2, <2>1, TurnOnePreserves, TurnTwoPreserves
<1>3. ASSUME Put
      PROVE  FileInv'
  <2>1. program \in {"3-fprintf", "3-write"}
    BY <1>1, <1>3, Places DEF Put, Writers
  <2> QED  BY <1>3, <2>1, PutWritePreserves, PutFprintfPreserves
<1>4. ASSUME Main
      PROVE  FileInv'
  BY <1>2, <1>3, <1>4, OpenPreserves, CreatePreserves, JoinPreserves, ClosePreserves,
     ReturnPreserves DEF Main
<1>5. ASSUME NEW t \in Thread, Read(t) \/ Write(t)
      PROVE  FileInv'
  BY <1>5, ReadPreserves, WritePreserves
<1> QED  BY <1>4, <1>5, ReadStalePreserves DEF FileNext

\* In every one of the eight programs, whatever the interleaving of the
\* threads, what has been printed or written is what has been read or put.
THEOREM FileInductive == FileSpec => []FileInv
<1>1. FileInit => FileInv
  BY InitHolds
<1>2. FileInv /\ [FileNext]_fileVars => FileInv'
  BY NextPreserves, StutterPreserves
<1> QED  BY <1>1, <1>2, PTL DEF FileSpec

-----------------------------------------------------------------------------
(* What the programs have printed and written when they have ended.        *)

\* Nothing is in a buffer any more, so that the letters up to the end of the
\* file are those that have been printed.
LEMMA OnePrinted ==
  ASSUME FileInv, Ended, exists, program = "1"
  PROVE  Len(out) = Size /\ {o.c : o \in Range(out)} = 1..Size
<1>1. /\ pos[1] <= Size /\ Len(out) + Len(buf[1]) + Len(buf[2]) = pos[1] /\ Len(out) = Size
      /\ {o.c : o \in Range(out)} \cup Range(buf[1]) \cup Range(buf[2]) = 1..pos[1]
      /\ pos[1] \in Nat /\ buf[1] \in Seq(1..Size) /\ buf[2] \in Seq(1..Size)
  BY DEF FileInv, FileTypeOK, SharedOffset, Ended, Thread, Stream
<1>2. PICK a \in Nat, b \in Nat, p \in Nat : a = Len(buf[1]) /\ b = Len(buf[2]) /\ p = pos[1]
  BY <1>1, LenProperties
<1>3. p <= Size /\ Size + a + b = p /\ a \in Nat /\ b \in Nat /\ p \in Nat
  BY <1>1, <1>2
<1>4. a = 0 /\ b = 0 /\ p = Size
  <2>1. Size \in Nat
    BY Sizes
  <2> QED  BY <1>3, <2>1
<1>5. Range(buf[1]) = {} /\ Range(buf[2]) = {}
  <2>1. buf[1] = <<>> /\ buf[2] = <<>>
    BY <1>1, <1>2, <1>4, EmptySeq
  <2> QED  BY <2>1 DEF Range
<1> QED  BY <1>1, <1>2, <1>4, <1>5

LEMMA TwicePrinted ==
  ASSUME FileInv, Ended, exists, program = "2-1t"
  PROVE  [m \in DOMAIN out |-> out[m].c] = [m \in 1..(2 * Size) |-> (m + 1) \div 2]
<1>1. tpc["main"] = "end"
  BY DEF Ended, Thread
<1>2. /\ pos[1] = Size /\ pos[1] = pos[2] /\ Len(out) = pos[1] + pos[2]
      /\ \A m \in DOMAIN out : out[m].c = (m + 1) \div 2
  BY <1>1 DEF FileInv, SideBySide
<1>3. Len(out) = 2 * Size
  BY <1>2, Sizes
<1>4. DOMAIN out = 1..(2 * Size)
  BY <1>3, LenProperties DEF FileInv, FileTypeOK
<1> QED  BY <1>2, <1>4

\* A writer's main() neither takes a turn nor reads.
LEMMA ReadersPrinted ==
  ASSUME FileInv, Ended, exists, createFails = 0, Reads # {}
  PROVE  /\ InOrder
         /\ program = "2-2t-det" => PrintedBy(2) = Size
         /\ program # "2-2t-det" => PrintedBy(1) = Size /\ PrintedBy(2) = Size
<1>1. EachInOrder /\ \A t \in Reads : tpc[t] = "end"
  BY DEF FileInv, Ended, Reads, Thread
<1>2. InOrder /\ \A t \in Reads : (program = "2-2t-det" => t = "main") => PrintedBy(StreamOf(t)) = Size
  BY <1>1 DEF EachInOrder, Stale
<1>3. /\ program \in {"2-2t", "2-2t-det"} => Reads = {"main", "t1"}
      /\ program \in {"2-3t", "2-3t-det"} => Reads = {"t1", "t2"}
      /\ program \in {"2-2t", "2-2t-det", "2-3t", "2-3t-det"}
  BY Places DEF FileInv
<1>4. StreamOf("t1") = 1 /\ StreamOf("t2") = 2 /\ StreamOf("main") = 2
  BY DEF StreamOf
<1> QED  BY <1>2, <1>3, <1>4

\* What each program prints, for an alphabet of any even length and buffers of
\* any size: 1.c every letter once, whichever of its FILEs had read it ahead,
\* 2-1t.c every letter twice, side by side, and the threads each all of them, in
\* order, in every interleaving.
THEOREM FileAllPrinted == FileSpec => []AllPrinted
<1>1. ASSUME FileInv
      PROVE  AllPrinted
  <2> SUFFICES ASSUME Ended, exists, createFails = 0
               PROVE  AllPrinted
    BY DEF AllPrinted
  <2> DEFINE Once     == Len(out) = Size /\ {o.c : o \in Range(out)} = 1..Size
             Twice    == [m \in DOMAIN out |-> out[m].c]
                           = [m \in 1..(2 * Size) |-> (m + 1) \div 2]
             Detached == InOrder /\ PrintedBy(2) = Size
             Both     == InOrder /\ PrintedBy(1) = Size /\ PrintedBy(2) = Size
             Nothing  == out = <<>>
  <2>1. AllPrinted <=> CASE program = "1" -> Once
                         [] program = "2-1t" -> Twice
                         [] program = "2-2t-det" -> Detached
                         [] program \in Writers -> Nothing
                         [] OTHER -> Both
    BY DEF AllPrinted
  <2>2. /\ program = "1" => Once
        /\ program = "2-1t" => Twice
        /\ program \in Writers => Nothing
    BY <1>1, OnePrinted, TwicePrinted DEF FileInv, ReportsInStep
  <2>3. /\ program = "2-2t-det" => Detached
        /\ program \in {"2-2t", "2-3t", "2-3t-det"} => Both
    BY <1>1, ReadersPrinted, Places DEF FileInv
  <2>4. program \in Program
    BY <1>1 DEF FileInv, FileTypeOK
  <2> HIDE DEF Once, Twice, Detached, Both, Nothing
  <2> QED  BY <2>1, <2>2, <2>3, <2>4 DEF Program, Writers
<1> QED  BY <1>1, FileInductive, PTL

\* The file of a writer that has ended: first the letters of stream 2.
LEMMA LettersLeft ==
  ASSUME FileInv, Ended, exists, program \in Writers
  PROVE  /\ file \in Seq(0..Size) /\ half <= Len(file)
         /\ \A j \in 1..half : file[j] = 2 * j
         /\ \A j \in DOMAIN file : j > half => file[j] = OldByte
<1>1. tpc["main"] = "end" /\ got["main"] = Size + 1 /\ file \in Seq(0..Size)
  BY DEF FileInv, FileTypeOK, ReportsInStep, Ended, Thread
<1>2. (Size + 1) \div 2 = half /\ ((Size + 1) - 1) \div 2 = half
  <2>1. half \in Nat /\ Size = 2 * half
    BY Sizes
  <2>2. (Size + 1) - 1 = Size /\ Size \div 2 = half
    BY Sizes DEF half
  <2>3. (2 * half + 1) \div 2 = half
    BY <2>1
  <2> QED  BY <2>1, <2>2, <2>3
<1>3. CASE program = "3-write"
  <2> DEFINE c == IF tpc["main"] = "open" THEN 1 ELSE got["main"]
  <2>0. c \div 2 = half /\ (c - 1) \div 2 = half
    <3>1. c = Size + 1
      BY <1>1
    <3> HIDE DEF c
    <3> QED  BY <1>2, <3>1
  <2>1. /\ pos[1] = half /\ pos[2] = half
        /\ \A j \in DOMAIN file : file[j] = IF j <= half THEN 2 * j
                                  ELSE IF j <= half THEN 2 * j - 1 ELSE OldByte
        /\ sizes # <<>> => Len(file) = IF half > before THEN half ELSE before
    <3>1. /\ pos[1] = c \div 2 /\ pos[2] = (c - 1) \div 2
          /\ sizes # <<>> => Len(file) = IF pos[1] > before THEN pos[1] ELSE before
          /\ \A j \in DOMAIN file : file[j] = IF j <= pos[2] THEN 2 * j
                                          ELSE IF j <= pos[1] THEN 2 * j - 1 ELSE OldByte
      BY <1>3 DEF FileInv, WrittenThrough
    <3> HIDE DEF c
    <3> QED  BY <2>0, <3>1
  <2>2. Len(sizes) = Size + 4 /\ \A m \in DOMAIN sizes : sizes[m] = SizeAt(m)
    BY <1>1 DEF FileInv, ReportsInStep, Reports
  <2>3. Len(sizes) > 0 /\ sizes # <<>>
    <3>1. Len(sizes) > 0
      BY <2>2, Sizes
    <3> QED  BY <3>1
  <2>4. before \in Nat
    BY <2>2, <2>3, FirstSize DEF FileInv
  <2>5. half <= Len(file)
    BY <2>1, <2>3, <2>4, Sizes
  <2>6. DOMAIN file = 1..Len(file) /\ Len(file) \in Nat
    BY <1>1, LenProperties
  <2>7. PICK n \in Nat : n = Len(file)
    BY <2>6
  <2>8. half \in Nat /\ half <= n /\ DOMAIN file = 1..n /\ n \in Nat
    BY <2>5, <2>6, <2>7, Sizes
  <2>9. \A j \in 1..half : j \in 1..n /\ j <= half
    BY <2>8
  <2>10. \A j \in 1..n : j > half => ~(j <= half)
    BY <2>8
  <2> QED  BY <1>1, <2>1, <2>5, <2>8, <2>9, <2>10
<1>4. CASE program = "3-fprintf"
  <2>1. file = Later(Size + 1)
    BY <1>1, <1>4 DEF FileInv, WrittenAtClose
  <2>2. Size + 1 \in 1..(Size + 1)
    BY Sizes
  <2>3. Len(file) = half /\ \A j \in 1..half : file[j] = 2 * j
    <3> DEFINE c == Size + 1
    <3>1. c \in 1..(Size + 1) /\ (c - 1) \div 2 = half
      BY <1>2, <2>2
    <3> HIDE DEF c
    <3>2. Len(Later(c)) = (c - 1) \div 2 /\ \A j \in 1..((c - 1) \div 2) : Later(c)[j] = 2 * j
      BY <3>1, Shares
    <3>3. Len(Later(c)) = half /\ \A j \in 1..half : Later(c)[j] = 2 * j
      BY <3>1, <3>2
    <3> QED  BY <2>1, <3>3 DEF c
  <2>4. DOMAIN file = 1..half
    BY <1>1, <2>3, LenProperties
  <2> QED  BY <1>1, <2>3, <2>4, Sizes
<1> QED  BY <1>3, <1>4 DEF Writers

\* Of two descriptors that write one file from its start, or two FILEs that
\* write it when they are closed, the second leaves its letters and the first
\* none, whatever was there before; and stat() tells the size at each step.
THEOREM FileSecondWriterWins == FileSpec => []SecondWriterWins
<1>1. ASSUME FileInv
      PROVE  SecondWriterWins
  <2> SUFFICES ASSUME Ended, exists, program \in Writers
               PROVE  SecondWriterWins
    BY DEF SecondWriterWins
  <2>1. /\ file \in Seq(0..Size) /\ half <= Len(file)
        /\ \A j \in 1..half : file[j] = 2 * j
        /\ \A j \in DOMAIN file : j > half => file[j] = OldByte
    BY <1>1, LettersLeft
  <2>2. PICK n \in Nat : n = Len(file)
    BY <2>1, LenProperties
  <2>3. DOMAIN file = 1..n /\ half <= n /\ half \in Nat \ {0}
    BY <2>1, <2>2, LenProperties, Sizes
  <2>4. SubSeq(file, 1, half) = [m \in 1..half |-> 2 * m]
    BY <2>1, <2>3, SubSeqProperties
  <2>5. Range(SubSeq(file, half + 1, n)) \subseteq {OldByte}
    <3>1. /\ DOMAIN SubSeq(file, half + 1, n) = 1..(n - half)
          /\ \A j \in 1..(n - half) : SubSeq(file, half + 1, n)[j] = file[half + j]
      BY <2>1, <2>3
    <3>2. \A j \in 1..(n - half) : half + j \in 1..n /\ half + j > half
      BY <2>3
    <3> QED  BY <2>1, <2>3, <3>1, <3>2 DEF Range
  <2>6. Len(sizes) = Size + 4 /\ \A m \in DOMAIN sizes : sizes[m] = SizeAt(m)
    BY <1>1 DEF FileInv, ReportsInStep, Reports, Ended, Thread
  <2>7. DOMAIN sizes = 1..(Size + 4)
    BY <1>1, <2>6, LenProperties DEF FileInv, FileTypeOK
  <2> QED  BY <2>2, <2>4, <2>5, <2>6, <2>7 DEF SecondWriterWins
<1> QED  BY <1>1, FileInductive, PTL

=============================================================================
