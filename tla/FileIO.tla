------------------------------- MODULE FileIO -------------------------------
(***************************************************************************)
(* lab_05/src: eight programs that use one file twice.  1.c reads one      *)
(* descriptor through two FILEs, the 2-*.c read two descriptors, most of   *)
(* them in threads, and the 3-*.c write q.txt through two.                 *)
(*                                                                         *)
(* A letter is its place in the alphabet.  Stream s is fs1 or fs2, fd1 or  *)
(* fd2, or what thread s opens.  Of the kernel and of stdio the model      *)
(* keeps: an open file description has an offset of its own, read() and    *)
(* write() of one byte are atomic, a FILE reads as much as its buffer      *)
(* takes, and writes when it is closed (13 letters do not fill 4096 bytes).*)
(***************************************************************************)
EXTENDS Integers, Sequences, FiniteSets, Functions

CONSTANTS Size,            \* letters of the alphabet
          BufSize,         \* the buffers that 1.c gives to setvbuf()
          MaxCreateFails   \* bound: failing calls of pthread_create()

\* The letters come in pairs, one for each stream.
ASSUME FileAssumption ==
  /\ Size \in Nat \ {0} /\ Size % 2 = 0
  /\ BufSize \in Nat \ {0} /\ MaxCreateFails \in Nat

Writers == {"3-fprintf", "3-write"}
Program == {"1", "2-1t", "2-2t", "2-2t-det", "2-3t", "2-3t-det"} \cup Writers
Thread  == {"main", "t1", "t2"}
Stream  == {1, 2}

VARIABLES
  program,
  exists, file,  \* alphabet.txt or q.txt: whether it is there, its bytes
  pos,           \* the offset of each open file description
  buf,           \* what a FILE has read ahead, or has not written yet
  tpc,           \* where each thread is
  turn,          \* the stream or thread that main is at
  got,           \* each thread's c
  flag,          \* flag1 and flag2, fl1 and fl2: whether the last read gave one
  out,           \* what stdout has received, with the stream it came from
  sizes,         \* what print_stat() has printed
  createFails

fileVars == <<program, exists, file, pos, buf, tpc, turn, got, flag, out, sizes, createFails>>

Alphabet == [j \in 1..Size |-> j]
OldByte  == 0    \* what q.txt held before
Garbage  == -1   \* an uninitialised variable

FileInit ==
  /\ program \in Program /\ exists \in BOOLEAN
  /\ file \in IF ~exists THEN {<<>>} ELSE IF program \notin Writers THEN {Alphabet}
              ELSE {[j \in 1..n |-> OldByte] : n \in 0..Size}
  /\ pos = [s \in Stream |-> 0] /\ buf = [s \in Stream |-> <<>>]
  /\ tpc = [t \in Thread |-> IF t # "main" THEN "none"
                             ELSE IF program = "2-3t-det" THEN "create" ELSE "open"]
  /\ turn = 1 /\ got = [t \in Thread |-> Garbage] /\ flag = [s \in Stream |-> TRUE]
  /\ out = <<>> /\ sizes = <<>> /\ createFails = 0

Goto(t, label) == tpc' = [tpc EXCEPT ![t] = label]

\* The return of main(), or exit(), ends every thread.
Exit == tpc' = [t \in Thread |-> "end"]

\* Twice through one place of main(), and then on.
TwiceThen(on) ==
  IF turn = 1 THEN turn' = 2 /\ UNCHANGED tpc ELSE turn' = 1 /\ on

PrintStat == sizes' = Append(sizes, IF exists' THEN Len(file') ELSE Garbage)

-----------------------------------------------------------------------------
(* Opening, creating threads and waiting for them.                         *)

\* fopen("w") creates or empties the file, open() does neither.  The streams
\* of 1.c share a descriptor: without it fdopen() gives NULL, and setvbuf()
\* takes it.
Open ==
  /\ tpc["main"] = "open"
  /\ IF program = "3-fprintf" THEN exists' = TRUE /\ file' = <<>>
                              ELSE UNCHANGED <<exists, file>>
  /\ IF program = "1" /\ ~exists THEN Exit /\ UNCHANGED turn
     ELSE TwiceThen(Goto("main", CASE program \in Writers       -> "put"
                                   [] program \in {"1", "2-1t"} -> "turn"
                                   [] OTHER                     -> "create"))
  /\ IF program \in Writers THEN PrintStat /\ got' = [got EXCEPT !["main"] = 1]
                            ELSE UNCHANGED <<sizes, got>>
  /\ UNCHANGED <<program, pos, buf, flag, out, createFails>>

\* In 2-3t-det.c main() leaves with pthread_exit(), and its pthread_detach()
\* of threads that are detached already changes nothing.
Create ==
  /\ tpc["main"] = "create"
  /\ LET t == IF turn = 1 THEN "t1" ELSE "t2"
         after == CASE program = "2-3t" -> "join" [] program = "2-3t-det" -> "end"
                    [] OTHER -> "read"
     IN \/ /\ tpc' = [tpc EXCEPT ![t] = "read",
                               !["main"] = IF program \in {"2-3t", "2-3t-det"} /\ turn = 1
                                           THEN "create" ELSE after]
           /\ turn' = IF tpc'["main"] = "create" THEN 2 ELSE 1
           /\ UNCHANGED createFails
        \/ /\ createFails < MaxCreateFails /\ createFails' = createFails + 1
           /\ Exit /\ UNCHANGED turn
  /\ UNCHANGED <<program, exists, file, pos, buf, got, flag, out, sizes>>

\* A variant that waits for one thread only.
JoinFirst ==
  /\ tpc["main"] = "join" /\ tpc["t1"] = "end"
  /\ Exit /\ UNCHANGED turn
  /\ UNCHANGED <<program, exists, file, pos, buf, got, flag, out, sizes, createFails>>

Join ==
  /\ tpc["main"] = "join"
  /\ tpc[IF turn = 1 THEN "t1" ELSE "t2"] = "end"
  /\ IF program = "2-2t" THEN Exit /\ UNCHANGED turn ELSE TwiceThen(Exit)
  /\ UNCHANGED <<program, exists, file, pos, buf, got, flag, out, sizes, createFails>>

-----------------------------------------------------------------------------
(* The loops of 1.c and 2-1t.c: a letter from one stream, then the other.  *)

\* What stream s of 1.c has when its next letter is asked for.
Filled(s) == IF buf[s] # <<>> THEN buf[s]
             ELSE LET left == Len(file) - pos[1]
                  IN SubSeq(file, pos[1] + 1, pos[1] + IF left < BufSize THEN left ELSE BufSize)

Take(s) ==
  IF program = "1"
  THEN /\ flag' = [flag EXCEPT ![s] = Filled(s) # <<>>]
       /\ buf' = [buf EXCEPT ![s] = IF flag'[s] THEN Tail(Filled(s)) ELSE <<>>]
       /\ pos' = [pos EXCEPT ![1] = IF buf[s] = <<>> THEN @ + Len(Filled(s)) ELSE @]
       /\ out' = IF flag'[s] THEN Append(out, [from |-> s, c |-> Head(Filled(s))]) ELSE out
  ELSE /\ flag' = [flag EXCEPT ![s] = exists /\ pos[s] < Len(file)]
       /\ pos' = [pos EXCEPT ![s] = IF flag'[s] THEN @ + 1 ELSE @]
       /\ out' = IF flag'[s] THEN Append(out, [from |-> s, c |-> file[pos[s] + 1]]) ELSE out
       /\ UNCHANGED buf

\* A variant in which 2-1t.c, too, goes on while either had one.
TurnEither ==
  /\ tpc["main"] = "turn"
  /\ Take(turn)
  /\ IF turn = 1 /\ (program = "1" \/ flag'[1]) THEN turn' = 2 /\ UNCHANGED tpc
     ELSE turn' = 1 /\ IF flag'[1] \/ flag'[2] THEN UNCHANGED tpc ELSE Exit
  /\ UNCHANGED <<program, exists, file, got, sizes, createFails>>

\* 1.c goes on while either stream has a letter, 2-1t.c while both have.
Turn ==
  /\ tpc["main"] = "turn"
  /\ Take(turn)
  /\ IF turn = 1 /\ (program = "1" \/ flag'[1]) THEN turn' = 2 /\ UNCHANGED tpc
     ELSE /\ turn' = 1
          /\ IF flag'[1] \/ (program = "1" /\ flag'[2]) THEN UNCHANGED tpc ELSE Exit
  /\ UNCHANGED <<program, exists, file, got, sizes, createFails>>

-----------------------------------------------------------------------------
(* thread_func(), and the loop of main() in 2-2t.c and 2-2t-det.c.         *)

StreamOf(t) == IF t = "t1" THEN 1 ELSE 2

\* What t does after its loop.  Until the return of main() has ended the process,
\* the thread of 2-2t-det.c goes on,
Leave(t) == Goto(t, IF t # "main" THEN "end" ELSE IF program = "2-2t" THEN "join" ELSE "return")

Return ==
  /\ tpc["main"] = "return" /\ Exit
  /\ UNCHANGED <<program, exists, file, pos, buf, turn, got, flag, out, sizes, createFails>>

\* and may only now take fd out of main()'s frame, which is gone: then read() may
\* refuse it, or have no more for it, and else Read has what fd1 was.
ReadStale ==
  /\ tpc["main"] = "return" /\ tpc["t1"] = "read" /\ got["t1"] = Garbage
  /\ Goto("t1", "write") \/ Goto("t1", "end")
  /\ UNCHANGED <<program, exists, file, pos, buf, turn, got, flag, out, sizes, createFails>>

\* thread_func() takes the -1 of a read() without a file for a letter.
ReadInto(c, t) ==
  LET s == StreamOf(t) IN
  /\ tpc[t] = "read"
  /\ IF exists /\ pos[s] < Len(file)
     THEN /\ got' = [r \in Thread |-> IF r \in c THEN file[pos[s] + 1] ELSE got[r]]
          /\ pos' = [pos EXCEPT ![s] = @ + 1]
          /\ Goto(t, "write")
     ELSE /\ UNCHANGED <<got, pos>>
          /\ IF ~exists /\ t # "main" THEN Goto(t, "write") ELSE Leave(t)
  /\ UNCHANGED <<program, exists, file, buf, turn, flag, out, sizes, createFails>>

\* A variant, that is, a faulty form used by nothing, with one c for all.
ReadShared(t) == ReadInto(Thread, t)

Read(t) == ReadInto({t}, t)

\* Garbage that has been printed is not recorded again.
Write(t) ==
  /\ tpc[t] = "write"
  /\ LET o == [from |-> StreamOf(t), c |-> got[t]] IN
     out' = IF o.c = Garbage /\ o \in Range(out) THEN out ELSE Append(out, o)
  /\ IF (exists /\ got[t] # Garbage) \/ program = "2-3t-det" THEN Goto(t, "read") ELSE Leave(t)
  /\ UNCHANGED <<program, exists, file, pos, buf, turn, got, flag, sizes, createFails>>

-----------------------------------------------------------------------------
(* 3-fprintf.c and 3-write.c                                               *)

\* A variant that appends, as with O_APPEND.
AppendAt(p, letters) == file \o letters

\* The file when letters are written at offset p; there are no holes.
WriteAt(p, letters) == SubSeq(file, 1, p) \o letters
                         \o SubSeq(file, p + Len(letters) + 1, Len(file))

Put ==
  LET c == got["main"]
      s == IF c % 2 = 1 THEN 1 ELSE 2
  IN /\ tpc["main"] = "put"
     /\ IF program = "3-fprintf"
        THEN buf' = [buf EXCEPT ![s] = Append(@, c)] /\ UNCHANGED <<file, pos>>
        ELSE /\ file' = IF exists THEN WriteAt(pos[s], <<c>>) ELSE file
             /\ pos' = IF exists THEN [pos EXCEPT ![s] = @ + 1] ELSE pos
             /\ UNCHANGED buf
     /\ got' = [got EXCEPT !["main"] = c + 1]
     /\ IF c = Size THEN Goto("main", "close") ELSE UNCHANGED tpc
     /\ UNCHANGED exists /\ PrintStat
     /\ UNCHANGED <<program, turn, flag, out, createFails>>

\* fclose() and close(); only a FILE has something left to write.
Close ==
  /\ tpc["main"] = "close"
  /\ file' = IF buf[turn] = <<>> THEN file ELSE WriteAt(pos[turn], buf[turn])
  /\ pos' = [pos EXCEPT ![turn] = @ + Len(buf[turn])]
  /\ buf' = [buf EXCEPT ![turn] = <<>>]
  /\ TwiceThen(Exit)
  /\ UNCHANGED exists /\ PrintStat
  /\ UNCHANGED <<program, got, flag, out, createFails>>

-----------------------------------------------------------------------------
Main == Open \/ Create \/ Join \/ Turn \/ Put \/ Close \/ Return

FileNext == Main \/ ReadStale \/ \E t \in Thread : Read(t) \/ Write(t)

FileSpec == FileInit /\ [][FileNext]_fileVars

\* Every thread keeps running.
FileFairSpec == FileSpec /\ WF_fileVars(Main) /\ \A t \in Thread : WF_fileVars(Read(t) \/ Write(t))

-----------------------------------------------------------------------------
(* Properties.                                                             *)

FileTypeOK ==
  /\ program \in Program /\ exists \in BOOLEAN
  /\ file \in Seq(0..Size) /\ pos \in [Stream -> Nat] /\ buf \in [Stream -> Seq(1..Size)]
  /\ tpc \in [Thread -> {"none", "open", "create", "turn", "read", "write", "put",
                        "close", "join", "return", "end"}]
  /\ turn \in Stream /\ flag \in [Stream -> BOOLEAN]
  /\ got \in [Thread -> {Garbage} \cup (1..(Size + 1))]
  /\ out \in Seq([from : Stream, c : {Garbage} \cup (1..Size)])
  /\ sizes \in Seq({Garbage} \cup Nat) /\ createFails \in 0..MaxCreateFails

Ended == tpc = [t \in Thread |-> "end"]

\* Who does what in which program, what the file holds when nobody writes it, and
\* that a loop is left at the end of the file.
Reads == CASE program \in {"2-2t", "2-2t-det"} -> {"main", "t1"}
           [] program \in {"2-3t", "2-3t-det"} -> {"t1", "t2"}
           [] OTHER -> {}
MainsPlaces == CASE program = "2-2t"     -> {"open", "create", "read", "write", "join", "end"}
                 [] program = "2-2t-det" -> {"open", "create", "read", "write", "return", "end"}
                 [] program = "2-3t"     -> {"open", "create", "join", "end"}
                 [] program = "2-3t-det" -> {"create", "end"}
                 [] program \in Writers  -> {"open", "put", "close", "end"}
                 [] OTHER                -> {"open", "turn", "end"}
ThreadsInStep ==
  /\ tpc["main"] \in MainsPlaces
  /\ \A t \in {"t1", "t2"} : tpc[t] \in {"none", "read", "write", "end"}
  /\ \A t \in Thread : tpc[t] \in {"read", "write"} => t \in Reads
  /\ \A t \in Reads : got[t] \in {Garbage} \cup (1..Size)
  /\ tpc["main"] = "open" => /\ pos = [s \in Stream |-> 0] /\ out = <<>>
                             /\ flag = [s \in Stream |-> TRUE]
                             /\ turn = 1 => sizes = <<>>
                             /\ program = "3-fprintf" /\ turn = 2 => exists
  /\ tpc["main"] \in {"put", "close"} /\ program = "3-fprintf" => exists
  /\ tpc["main"] = "put" => turn = 1 /\ got["main"] \in 1..Size
  /\ tpc["main"] = "turn" /\ program = "1" => exists
  /\ (program \in {"1", "3-fprintf"} => tpc["main"] = "open") =>
       buf = [s \in Stream |-> <<>>]
  /\ tpc["main"] \in {"open", "create"} => tpc["t2"] = "none"
  /\ tpc["main"] = "open" \/ (tpc["main"] = "create" /\ turn = 1) => tpc["t1"] = "none"
  /\ program \in {"2-2t", "2-2t-det"} => turn = 1 \/ tpc["main"] = "open"
  /\ exists /\ program \notin Writers => file = Alphabet
  /\ ~exists => file = <<>>
  /\ tpc["main"] = "join" =>
       IF program = "2-2t" THEN exists => pos[2] = Size ELSE turn = 2 => tpc["t1"] = "end"

\* The two FILEs of 1.c share the letters up to their one offset between them,
\* printed or read ahead: none is lost, none is had twice, and each stream hands
\* its own on in order.
Increasing(q) == \A j, k \in DOMAIN q : j < k => q[j] < q[k]
SharedOffset == program = "1" /\ exists =>
  /\ pos[1] <= Size /\ Len(out) + Len(buf[1]) + Len(buf[2]) = pos[1]
  /\ {o.c : o \in Range(out)} \cup Range(buf[1]) \cup Range(buf[2]) = 1..pos[1]
  /\ \A j, k \in DOMAIN out : j < k /\ out[j].from = out[k].from => out[j].c < out[k].c
  /\ \A s \in Stream : Increasing(buf[s])
  /\ \A j \in DOMAIN out : \A k \in DOMAIN buf[out[j].from] : out[j].c < buf[out[j].from][k]
  /\ turn = 2 /\ ~flag[1] => buf[1] = <<>> /\ pos[1] = Size
  /\ tpc["main"] = "end" => Len(out) = Size

\* 2-1t.c prints each letter twice, side by side.
SideBySide == program = "2-1t" /\ exists =>
  /\ pos[1] = (IF tpc["main"] = "turn" /\ turn = 2 THEN pos[2] + 1 ELSE pos[2])
  /\ pos[1] <= Size /\ Len(out) = pos[1] + pos[2]
  /\ \A m \in DOMAIN out : /\ out[m].from = IF m % 2 = 1 THEN 1 ELSE 2
                           /\ out[m].c = (m + 1) \div 2
  /\ turn = 2 => flag[1]
  /\ tpc["main"] = "end" => pos[1] = Size

\* However two readers interleave, each prints the letters in order, none
\* twice, and has at most the last one still in hand; only the thread of
\* 2-2t-det.c may print, instead of all of them, a c that it has not read.
Count(q, s, m) == Cardinality({j \in 1..m : q[j].from = s})
PrintedBy(s) == Count(out, s, Len(out))
Unread(o) == program = "2-2t-det" /\ o.from = 1 /\ o.c = Garbage
InOrder == \A m \in DOMAIN out : Unread(out[m]) \/ out[m].c = Count(out, out[m].from, m)
Stale(t) == /\ program = "2-2t-det" /\ t = "t1" /\ got["t1"] = Garbage
            /\ tpc["main"] \in {"return", "end"} /\ tpc["t1"] \in {"write", "end"}
EachInOrder == Reads # {} /\ exists =>
  /\ InOrder
  /\ \A t \in Reads : Stale(t) \/
       /\ pos[StreamOf(t)] <= Size
       /\ tpc[t] = "write" => got[t] = pos[StreamOf(t)]
       /\ ~Ended => PrintedBy(StreamOf(t)) = IF tpc[t] = "write" THEN pos[StreamOf(t)] - 1
                                         ELSE pos[StreamOf(t)]
       /\ tpc[t] \in {"return", "end"} /\ createFails = 0 /\ (program = "2-2t-det" => t = "main")
            => PrintedBy(StreamOf(t)) = Size

\* What a program that found its file and its threads has printed at its end:
\* 1.c each letter once, the others each letter once for each stream, of which
\* 2-1t.c puts the two side by side.  Only 2-2t-det.c may cut the letters of its
\* thread short, when main() returns before it, or print one it has not read.
AllPrinted == Ended /\ exists /\ createFails = 0 =>
  CASE program = "1" -> Len(out) = Size /\ {o.c : o \in Range(out)} = 1..Size
    [] program = "2-1t" -> [m \in DOMAIN out |-> out[m].c]
                             = [m \in 1..(2 * Size) |-> (m + 1) \div 2]
    [] program = "2-2t-det" -> InOrder /\ PrintedBy(2) = Size
    [] program \in Writers -> out = <<>>
    [] OTHER -> InOrder /\ PrintedBy(1) = Size /\ PrintedBy(2) = Size

\* How the two writers get there: after c - 1 letters stream 1 has had half of
\* them, rounded up, and stream 2 the others, in the file or in the FILE's
\* buffer, over what was there before.
half == Size \div 2
Sooner(c) == [m \in 1..(c \div 2) |-> 2 * m - 1]
Later(c)  == [m \in 1..((c - 1) \div 2) |-> 2 * m]
before == IF program = "3-write" THEN sizes[1] ELSE 0

\* The size that is printed as the m-th.
SizeAt(m) ==
  LET written == IF program = "3-write" THEN (m - 1) \div 2
                 ELSE IF m > Size + 2 THEN half ELSE 0
  IN IF written > half THEN IF before > half THEN before ELSE half
     ELSE IF written > before THEN written ELSE before

Reports == CASE tpc["main"] = "open" -> turn - 1
             [] tpc["main"] = "put" -> got["main"] + 1
             [] tpc["main"] = "close" -> Size + 1 + turn
             [] OTHER -> Size + 4
ReportsInStep == program \in Writers /\ exists =>
  /\ out = <<>> /\ Len(sizes) = Reports /\ \A m \in DOMAIN sizes : sizes[m] = SizeAt(m)
  /\ tpc["main"] = "open" => \A j \in DOMAIN file : file[j] = OldByte
  /\ tpc["main"] = "close" => got["main"] = Size + 1
  /\ tpc["main"] = "end" => got["main"] = Size + 1 /\ turn = 1

WrittenThrough == program = "3-write" /\ exists =>
  LET c == IF tpc["main"] = "open" THEN 1 ELSE got["main"] IN
  /\ pos[1] = c \div 2 /\ pos[2] = (c - 1) \div 2
  /\ sizes # <<>> => Len(file) = IF pos[1] > before THEN pos[1] ELSE before
  /\ \A j \in DOMAIN file : file[j] = IF j <= pos[2] THEN 2 * j
                                    ELSE IF j <= pos[1] THEN 2 * j - 1 ELSE OldByte

WrittenAtClose == program = "3-fprintf" /\ exists =>
  LET c == got["main"] IN
  CASE tpc["main"] = "open" -> turn = 2 => file = <<>>
    [] tpc["main"] = "put" \/ (tpc["main"] = "close" /\ turn = 1) ->
         pos = [s \in Stream |-> 0] /\ buf[1] = Sooner(c) /\ buf[2] = Later(c) /\ file = <<>>
    [] tpc["main"] = "close" /\ turn = 2 ->
         pos[2] = 0 /\ buf[2] = Later(c) /\ file = Sooner(c)
    [] OTHER -> file = Later(c)

\* Both writers start at the front, so that of what stream 1 writes nothing
\* remains; what 3-fprintf.c writes is in the file only after the fclose().
SecondWriterWins == Ended /\ exists /\ program \in Writers =>
  /\ SubSeq(file, 1, half) = [m \in 1..half |-> 2 * m]
  /\ Range(SubSeq(file, half + 1, Len(file))) \subseteq {OldByte}
  /\ Len(sizes) = Size + 4 /\ \A m \in 1..(Size + 4) : sizes[m] = SizeAt(m)

FileInv == /\ FileTypeOK /\ ThreadsInStep /\ SharedOffset /\ SideBySide /\ EachInOrder
           /\ ReportsInStep /\ WrittenThrough /\ WrittenAtClose

\* Every program comes to its end; only the threads of 2-3t-det.c print for
\* ever when there is no file.
ProgramEnds == <>(Ended \/ (program = "2-3t-det" /\ ~exists))
=============================================================================
