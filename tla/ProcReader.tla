----------------------------- MODULE ProcReader -----------------------------
(***************************************************************************)
(* lab_03/proc-1: run.sh starts three programs in the background, main.c   *)
(* (run by it with sudo) prints what /proc tells of each into a directory  *)
(* pid_<PID> and kills it, and run.sh renames the directories.  Meanwhile  *)
(* the programs may end by themselves, bash reaps its children, and other  *)
(* processes take the pids that are free again.                            *)
(*                                                                         *)
(* What a file tells is reduced to whom it tells of.  Files stands for the *)
(* thirteen steps of analyze_process(): the links' files are created       *)
(* before the link is read, the others only if /proc has the process, and  *)
(* the calculations are made of what `stat' and `maps' gave.               *)
(***************************************************************************)
EXTENDS Integers, Sequences, FiniteSets, Functions

CONSTANTS
  Pid,        \* process numbers
  Files,      \* the files, in the order in which they are printed
  Links,      \* cwd, exe and root
  MaxOthers,  \* bound: processes that others start
  MaxFails    \* bound: failing calls of mkdir()

PROG_NAMES == <<"mt", "mp", "ftw">>
Prog == Range(PROG_NAMES)

\* What the script relies on: the programs, main itself, and the right to sudo.
Needed == Prog \cup {"main", "sudo"}
File == Range(Files)

\* There is a highest pid; the calculations come after both files that they are
\* made of.
ASSUME ReaderAssumption ==
  /\ Cardinality(Pid) >= 3 /\ Pid \subseteq Nat \ {0}
  /\ \E p \in Pid : \A q \in Pid : q <= p
  /\ Files \in Seq(STRING) /\ Links \subseteq File \ {"stat", "maps", "calculations"}
  /\ {"stat", "maps", "calculations"} \subseteq File
  /\ \A n \in DOMAIN Files : Files[n] = "calculations" =>
       {"stat", "maps"} \subseteq {Files[m] : m \in 1..(n - 1)}
  /\ MaxOthers \in Nat /\ MaxFails \in Nat

VARIABLES
  found,     \* the programs whose directory in PROG_DIRS exists, whether main
             \* has been built, and whether sudo runs what it is given
  pc,        \* where run.sh is, or main() in it
  i,         \* the loops' index, in both
  f,         \* the next file
  PIDS, VALID_PIDS,
  owner,     \* who has each pid
  last,      \* the pid given last
  zombie,    \* pids of children that ended and are not yet reaped
  dirs,      \* the directories pid_<PID>
  holds,     \* of whom each file in them tells
  vsize,     \* of whom stat_vsize and maps_vsize tell
  named,     \* what has become mt, mp and ftw
  ended, killed,  \* history: programs that ended by themselves, and who was killed
  others, fails

vars == <<found, pc, i, f, PIDS, VALID_PIDS, owner, last, zombie, dirs, holds, vsize,
          named, ended, killed, others, fails>>

Free    == "free"
Other   == "other"
Nobody  == "nobody"    \* no such file, or a figure that is still zero
Old     == "old"       \* left by an earlier call of main
Empty   == "empty"     \* of a process that has ended, or may not be read
Mixed   == "mixed"     \* calculations from two processes

Untouched == [x \in File |-> Nobody]

ReaderInit ==
  /\ found \in SUBSET Needed
  /\ pc = "start" /\ i = 1 /\ f = 1
  /\ PIDS = <<>> /\ VALID_PIDS = <<>>
  /\ owner = [p \in Pid |-> Free] /\ zombie = {}
  /\ last = CHOOSE p \in Pid : \A q \in Pid : q <= p
  /\ dirs \in {{}} \cup {{p} : p \in Pid}
  /\ holds = [p \in Pid |-> IF p \in dirs THEN [x \in File |-> Old] ELSE Untouched]
  /\ vsize = [x \in {"stat", "maps"} |-> Nobody]
  /\ named = [n \in Prog |-> Untouched]
  /\ ended = {} /\ killed = {}
  /\ others = 0 /\ fails = 0

-----------------------------------------------------------------------------
(* run.sh                                                                  *)

\* Three times through a loop, and then on.
NextRound(loop, on) == IF i < 3 THEN i' = i + 1 /\ pc' = loop ELSE i' = 1 /\ pc' = on

\* The kernel gives pids in turn and passes over those that are in use.
Fork(who) ==
  /\ last' \in Pid /\ owner[last'] = Free
  /\ \A p \in Pid : owner[p] = Free =>
       IF last' > last THEN ~(last < p /\ p < last') ELSE last' <= p /\ p <= last
  /\ owner' = [owner EXCEPT ![last'] = who]

\* A program without its directory is skipped, and 0 stands for its pid.
StartProgram ==
  /\ pc = "start" /\ NextRound("start", "filter")
  /\ IF PROG_NAMES[i] \notin found
     THEN PIDS' = Append(PIDS, 0) /\ UNCHANGED <<owner, last>>
     ELSE Fork(PROG_NAMES[i]) /\ PIDS' = Append(PIDS, last')
  /\ UNCHANGED <<found, f, VALID_PIDS, zombie, dirs, holds, vsize, named, ended,
                 killed, others, fails>>

\* The pids that are none of the 0s.  Without one the script ends, and without
\* three of them main() does.  What has become of the sudo is not asked.
Filter ==
  /\ pc = "filter"
  /\ VALID_PIDS' = IF PIDS[i] = 0 THEN VALID_PIDS ELSE Append(VALID_PIDS, PIDS[i])
  /\ NextRound("filter", CASE Len(VALID_PIDS') = 0 -> "done"
                           [] Len(VALID_PIDS') = 3 /\ {"main", "sudo"} \subseteq found -> "mkdir"
                           [] OTHER -> "move")
  /\ UNCHANGED <<found, last, f, PIDS, owner, zombie, dirs, holds, vsize, named,
                 ended, killed, others, fails>>

\* sudo mv; the names have been removed at the start.
Move ==
  /\ pc = "move" /\ NextRound("move", "done")
  /\ IF "sudo" \in found /\ i <= Len(VALID_PIDS) /\ VALID_PIDS[i] \in dirs
     THEN LET p == VALID_PIDS[i] IN
          /\ dirs' = dirs \ {p} /\ named' = [named EXCEPT ![PROG_NAMES[i]] = holds[p]]
          /\ holds' = [holds EXCEPT ![p] = Untouched]
     ELSE UNCHANGED <<dirs, named, holds>>
  /\ UNCHANGED <<found, last, f, PIDS, VALID_PIDS, owner, zombie, vsize, ended,
                 killed, others, fails>>

-----------------------------------------------------------------------------
(* main() and analyze_process()                                            *)

pid == VALID_PIDS[i]

\* A variant, that is, a faulty form used by nothing: EEXIST counts as a failure.
MakeNewDirectory ==
  /\ pc = "mkdir"
  /\ \/ pid \notin dirs /\ dirs' = dirs \cup {pid} /\ pc' = "print" /\ UNCHANGED <<i, fails>>
     \/ pid \in dirs /\ NextRound("mkdir", "move") /\ UNCHANGED <<dirs, fails>>
  /\ f' = 1 /\ vsize' = [x \in {"stat", "maps"} |-> Nobody]
  /\ UNCHANGED <<found, last, PIDS, VALID_PIDS, owner, zombie, holds, named, ended,
                 killed, others>>

\* A directory that is there already is used as it is.  When mkdir() fails the
\* process is neither printed nor killed.
MakeDirectory ==
  /\ pc = "mkdir"
  /\ \/ dirs' = dirs \cup {pid} /\ pc' = "print" /\ UNCHANGED <<i, fails>>
     \/ /\ pid \notin dirs /\ fails < MaxFails /\ fails' = fails + 1
        /\ NextRound("mkdir", "move") /\ UNCHANGED dirs
  /\ f' = 1 /\ vsize' = [x \in {"stat", "maps"} |-> Nobody]
  /\ UNCHANGED <<found, last, PIDS, VALID_PIDS, owner, zombie, holds, named, ended,
                 killed, others>>

\* Whom /proc/<pid> tells of.
Reading == IF pid \in zombie THEN Empty ELSE owner[pid]

PrintFile ==
  /\ pc = "print"
  /\ LET x == Files[f]
         calculated == IF vsize["stat"] = vsize["maps"] THEN vsize["stat"] ELSE Mixed
         tells == CASE x = "calculations" -> calculated
                    [] x \in Links /\ owner[pid] = Free -> Empty
                    [] OTHER -> Reading
     IN /\ holds' = IF tells = Free THEN holds ELSE [holds EXCEPT ![pid][x] = tells]
        /\ vsize' = IF x \in DOMAIN vsize /\ tells # Free
                    THEN [vsize EXCEPT ![x] = tells] ELSE vsize
  /\ f' = IF f = Len(Files) THEN 1 ELSE f + 1
  /\ pc' = IF f = Len(Files) THEN "kill" ELSE pc
  /\ UNCHANGED <<found, last, i, PIDS, VALID_PIDS, owner, zombie, dirs, named,
                 ended, killed, others, fails>>

Strike == /\ killed' = killed \cup ({owner[pid]} \ {Free})
          /\ zombie' = IF owner[pid] \in Prog THEN zombie \cup {pid} ELSE zombie
          /\ owner' = IF owner[pid] = Other THEN [owner EXCEPT ![pid] = Free] ELSE owner

\* Variants: one that may send the signal again, because waitpid() failed, and
\* two that have lost the call of kill(), one of which does wait.
KillUntilGone ==
  /\ pc = "kill" /\ Strike
  /\ (UNCHANGED <<pc, i>> \/ NextRound("mkdir", "move"))
  /\ UNCHANGED <<found, last, f, PIDS, VALID_PIDS, dirs, holds, vsize, named,
                 ended, others, fails>>
KillNobody ==
  /\ pc = "kill" /\ NextRound("mkdir", "move")
  /\ UNCHANGED <<found, last, f, PIDS, VALID_PIDS, owner, zombie, dirs, holds, vsize, named,
                 ended, killed, others, fails>>
KillNobodyAndWait ==
  pc = "kill" /\ (owner[pid] = Free \/ pid \in zombie) /\ KillNobody

\* SIGKILL, to whoever has the pid by now.  The programs are children of bash,
\* so that waitpid() returns at once.
Kill ==
  /\ pc = "kill" /\ Strike
  /\ NextRound("mkdir", "move")
  /\ UNCHANGED <<found, last, f, PIDS, VALID_PIDS, dirs, holds, vsize, named,
                 ended, others, fails>>

-----------------------------------------------------------------------------
(* The programs, bash as their parent, and others.                         *)

\* chdir.out comes to its end, a server that finds its port taken does, too.
End == /\ \E p \in Pid \ zombie :
            /\ owner[p] \in Prog
            /\ zombie' = zombie \cup {p} /\ ended' = ended \cup {owner[p]}
       /\ UNCHANGED <<found, last, pc, i, f, PIDS, VALID_PIDS, owner, dirs, holds, vsize,
                      named, killed, others, fails>>

Reap == /\ \E p \in zombie : zombie' = zombie \ {p} /\ owner' = [owner EXCEPT ![p] = Free]
        /\ UNCHANGED <<found, last, pc, i, f, PIDS, VALID_PIDS, dirs, holds, vsize, named,
                       ended, killed, others, fails>>

\* An unrelated process starts; there is always a pid left for the programs.
Appear == /\ others < MaxOthers /\ others' = others + 1
          /\ Cardinality({p \in Pid : owner[p] = Free}) > 3 - Len(PIDS)
          /\ Fork(Other)
          /\ UNCHANGED <<found, pc, i, f, PIDS, VALID_PIDS, zombie, dirs, holds, vsize,
                         named, ended, killed, fails>>

Script == StartProgram \/ Filter \/ MakeDirectory \/ PrintFile \/ Kill \/ Move

Next == Script \/ End \/ Reap \/ Appear

ReaderSpec == ReaderInit /\ [][Next]_vars

\* The script and main keep running, and bash reaps its children.
FairSpec == ReaderSpec /\ WF_vars(Script) /\ WF_vars(Reap)

-----------------------------------------------------------------------------
(* Properties.                                                             *)

ReaderTypeOK ==
  /\ found \subseteq Needed /\ pc \in {"start", "filter", "mkdir", "print", "kill", "move", "done"}
  /\ i \in 1..3 /\ f \in 1..Len(Files)
  /\ PIDS \in Seq(Pid \cup {0}) /\ VALID_PIDS \in Seq(Pid)
  /\ owner \in [Pid -> Prog \cup {Other, Free}] /\ last \in Pid /\ zombie \subseteq Pid
  /\ dirs \subseteq Pid
  /\ holds \in [Pid -> [File -> Prog \cup {Nobody, Old, Empty, Mixed, Other}]]
  /\ vsize \in [{"stat", "maps"} -> Prog \cup {Nobody, Empty, Other}]
  /\ named \in [Prog -> [File -> Prog \cup {Nobody, Old, Empty, Mixed, Other}]]
  /\ ended \subseteq Prog /\ killed \subseteq Prog \cup {Other}
  /\ others \in 0..MaxOthers /\ fails \in 0..MaxFails

\* main, which is root, takes three numbers for the programs they once were.  It
\* prints or kills something else only if one of the programs had ended by
\* itself; as long as none has, program i is the i-th that is killed and no
\* file tells of another.
OnlyTargets == ended = {} =>
  /\ killed \subseteq Prog
  /\ \A k \in DOMAIN VALID_PIDS : PIDS = VALID_PIDS
       => Range(holds[VALID_PIDS[k]]) \subseteq {PROG_NAMES[k], Nobody, Old}
  /\ pc \in {"mkdir", "print", "kill"} => owner[pid] = PROG_NAMES[i]

\* Why: the lists are made in step with PROG_NAMES,
Passed == CASE pc = "start" -> 0 [] pc = "filter" -> i - 1 [] OTHER -> 3
ListsInStep ==
  /\ Len(PIDS) = IF pc = "start" THEN i - 1 ELSE 3
  /\ \A k \in DOMAIN PIDS : PIDS[k] = 0 <=> PROG_NAMES[k] \notin found
  /\ Len(VALID_PIDS) <= Passed /\ (Prog \subseteq found => Len(VALID_PIDS) = Passed)
  /\ Len(VALID_PIDS) = Passed => \A k \in 1..Passed : VALID_PIDS[k] = PIDS[k]
  /\ pc \in {"mkdir", "print", "kill"} => Len(VALID_PIDS) = 3

\* a program has no pid but the one in the list, and that until it ends or is
\* killed,
Alive(k) == owner[PIDS[k]] = PROG_NAMES[k] /\ PIDS[k] \notin zombie
OwnersListed ==
  /\ \A p \in zombie : owner[p] \in Prog
  /\ \A p \in Pid, k \in 1..3 : owner[p] = PROG_NAMES[k] => k \in DOMAIN PIDS /\ PIDS[k] = p
  /\ \A k \in DOMAIN PIDS : PIDS[k] # 0 /\ PROG_NAMES[k] \notin ended \cup killed => Alive(k)

\* no pid is given twice before a program has ended, and then main() kills each
\* in its turn,
Distinct == \A j, k \in DOMAIN PIDS : PIDS[j] = PIDS[k] /\ PIDS[j] # 0 => j = k
Handled  == CASE pc \in {"start", "filter"} -> {}
              [] pc \in {"mkdir", "print", "kill"} -> 1..(i - 1)
              [] OTHER -> 1..3
KilledInTurn ==
  /\ ended = {} => Distinct /\ killed \subseteq Prog
  /\ pc \in {"mkdir", "print", "kill"} => found = Needed
  /\ pc \in {"start", "filter"} \/ found # Needed => killed = {}
  /\ Distinct => \A k \in (1..3) \ Handled : PROG_NAMES[k] \notin killed

\* and until then has printed it from its own files.
Printed == IF pc = "kill" THEN File ELSE {Files[m] : m \in 1..(f - 1)}
OwnFiles ==
  /\ pc \in {"start", "filter"} => \A p \in Pid : Range(holds[p]) \subseteq {Nobody, Old}
  /\ Distinct => \A k \in DOMAIN PIDS :
       PIDS[k] # 0 /\ PROG_NAMES[k] \notin ended
         => Range(holds[PIDS[k]]) \subseteq {PROG_NAMES[k], Nobody, Old}
  /\ pc = "print" /\ Distinct /\ PROG_NAMES[i] \notin ended => \A x \in DOMAIN vsize :
       vsize[x] = IF x \in Printed THEN PROG_NAMES[i] ELSE Nobody

\* What has been printed of a program stays until it has its name.
Renamed(k) == pc = "done" \/ (pc = "move" /\ k < i)
Kept(k) ==
  /\ k \in Handled => PROG_NAMES[k] \in killed
  /\ Renamed(k) => named[PROG_NAMES[k]] = [x \in File |-> PROG_NAMES[k]]
  /\ ~Renamed(k) /\ (k \in Handled \/ (k = i /\ pc \in {"print", "kill"})) =>
       /\ PIDS[k] \in dirs
       /\ \A x \in File : k \in Handled \/ x \in Printed => holds[PIDS[k]][x] = PROG_NAMES[k]
PrintedStays == Distinct /\ found = Needed /\ fails = 0 =>
  \A k \in 1..3 : PROG_NAMES[k] \notin ended => Kept(k)

\* Of those that main() has been at, only those it could not make a directory
\* for are left.
LeftForFails == found = Needed => Cardinality({k \in Handled : Alive(k)}) <= fails

ReaderInv == /\ ReaderTypeOK /\ ListsInStep /\ OwnersListed /\ KilledInTurn
             /\ OwnFiles /\ PrintedStays /\ LeftForFails /\ OnlyTargets

\* Each program that did not end by itself is told of in full, under its own
\* name, by files of which none is left from an earlier call, and is killed;
\* unless one was given the pid of another, which then is printed twice.
Told == pc = "done" /\ found = Needed /\ fails = 0 /\ IsInjective(PIDS) =>
  \A n \in Prog : n \notin ended =>
    named[n] = [x \in File |-> n] /\ n \in killed

\* A program is left running only if a directory could not be made; unless one
\* could not be started, or main() could not: then all that were started are.
NoneLeft == pc = "done" =>
  IF found = Needed THEN Cardinality({p \in Pid \ zombie : owner[p] \in Prog}) <= fails
  ELSE \A k \in 1..3 : PROG_NAMES[k] \in found \ ended => Alive(k)

\* Whatever programs end meanwhile, the script comes to its end.
ScriptEnds == <>(pc = "done")
=============================================================================
