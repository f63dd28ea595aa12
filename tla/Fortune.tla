------------------------------ MODULE Fortune ------------------------------
(***************************************************************************)
(* lab_04/lkm-3/md.c: /proc/fortune.  Cookies are written one behind the   *)
(* other into a pot and read in turn, from the first again after the last. *)
(* The handlers take no lock.  The kernel (external) runs them for several *)
(* open files at a time, and proc_remove() waits for those under way.      *)
(*                                                                         *)
(* The bytes of the n-th cookie are all n; Nul is zero.                    *)
(***************************************************************************)
EXTENDS Integers, FiniteSets

CONSTANTS Reader, Writer,  \* processes that read, and that write, the file
          POT_SIZE,        \* 4096
          MaxLen,          \* bound: bytes of one read() or write()
          MaxFaults,       \* bound: failing copies and failing allocations
          MaxLoads         \* bound: insmod calls

ASSUME FortuneAssumption == /\ POT_SIZE \in Nat \ {0} /\ MaxLen \in Nat \ {0}
                            /\ MaxFaults \in Nat /\ MaxLoads \in Nat

VARIABLES
  lpc,                      \* fortune_init() and fortune_exit()
  cookie_pot, write_index, read_index,
  pc, offset, len,          \* each process: where, *offset, the argument len
  read_len,                 \* the local of fortune_read()
  cookies, told, known,     \* history: cookies written (empty ones aside), the
                            \* last one read, and how many there were when
                            \* reading began anew
  got,                      \* history: the bytes last copied to a reader
  faults, loads

vars == <<lpc, cookie_pot, write_index, read_index, pc, offset, len, read_len,
          cookies, told, known, got, faults, loads>>

Proc == Reader \cup Writer
Nul  == 0
Junk == -1   \* what a failing copy_from_user() leaves behind
Empty == [i \in 0..(POT_SIZE - 1) |-> Nul]

FortuneInit ==
  /\ lpc = "out" /\ cookie_pot = Empty /\ write_index = 0 /\ read_index = 0
  /\ pc = [p \in Proc |-> "idle"] /\ offset = [p \in Proc |-> 0]
  /\ len = [p \in Proc |-> 0] /\ read_len = [p \in Proc |-> 0]
  /\ cookies = 0 /\ told = 0 /\ known = 0 /\ got = {}
  /\ faults = 0 /\ loads = 0

-----------------------------------------------------------------------------
(* Loading and unloading.                                                  *)

AllIdle == \A p \in Proc : pc[p] = "idle"

Load ==
  /\ lpc = "out" /\ loads < MaxLoads /\ lpc' = "mkdir" /\ loads' = loads + 1
  /\ cookie_pot' = Empty /\ write_index' = 0 /\ read_index' = 0
  /\ cookies' = 0 /\ told' = 0 /\ known' = 0 /\ got' = {}
  /\ offset' = [p \in Proc |-> 0]
  /\ UNCHANGED <<pc, len, read_len, faults>>

LoaderGoto(from, to) ==
  /\ lpc = from /\ lpc' = to
  /\ UNCHANGED <<cookie_pot, write_index, read_index, pc, offset, len, read_len,
                 cookies, told, known, got, loads>>

\* proc_mkdir(), then proc_symlink(): the file can be used before they return.
Initialise == /\ LoaderGoto("mkdir", "symlink") \/ LoaderGoto("symlink", "loaded")
              /\ UNCHANGED faults

InitFails == /\ LoaderGoto("mkdir", "out") \/ LoaderGoto("symlink", "out")
             /\ AllIdle /\ faults < MaxFaults /\ faults' = faults + 1

Unload == LoaderGoto("loaded", "out") /\ AllIdle /\ UNCHANGED faults

Loader == Load \/ Initialise \/ InitFails \/ Unload

-----------------------------------------------------------------------------
Goto(p, from, to) == pc[p] = from /\ pc' = [pc EXCEPT ![p] = to] /\ UNCHANGED <<lpc, loads>>

\* Another open() of the file.
Open(p) ==
  /\ lpc # "out" /\ Goto(p, "idle", "idle") /\ offset' = [offset EXCEPT ![p] = 0]
  /\ UNCHANGED <<cookie_pot, write_index, read_index, len, read_len,
                 cookies, told, known, got, faults>>

(* fortune_write()                                                         *)

Fits(n) == n + 1 <= POT_SIZE - write_index

\* When the cookie does not fit, -ENOSPC.
Write(p) ==
  /\ lpc # "out" /\ Goto(p, "idle", "copy_in")
  /\ \E n \in 0..MaxLen : Fits(n) /\ len' = [len EXCEPT ![p] = n]
  /\ UNCHANGED <<cookie_pot, write_index, read_index, offset, read_len,
                 cookies, told, known, got, faults>>

Filled(n, value) == [i \in DOMAIN cookie_pot |->
  IF i \in write_index..(write_index + n - 1) THEN value ELSE cookie_pot[i]]

CopyIn(p) ==
  /\ Goto(p, "copy_in", "advance")
  /\ cookie_pot' = Filled(len[p], cookies + 1)
  /\ UNCHANGED <<write_index, read_index, offset, len, read_len,
                 cookies, told, known, got, faults>>

\* -EFAULT, with any part of the bytes copied.
CopyInFails(p) ==
  /\ Goto(p, "copy_in", "idle") /\ faults < MaxFaults /\ faults' = faults + 1
  /\ \E n \in 0..len[p] : cookie_pot' = Filled(n, Junk)
  /\ UNCHANGED <<write_index, read_index, offset, len, read_len,
                 cookies, told, known, got>>

Advanced(index, n) == index + n + 1

Counted(n) == IF n > 0 THEN 1 ELSE 0

\* A variant, that is, a faulty form used by nothing, without room for the terminating zero.
WriteAdvanceByLen(p) ==
  /\ Goto(p, "advance", "terminate")
  /\ write_index' = write_index + len[p] /\ cookies' = cookies + Counted(len[p])
  /\ UNCHANGED <<cookie_pot, read_index, offset, len, read_len, told, known, got, faults>>

WriteAdvance(p) ==
  /\ Goto(p, "advance", "terminate")
  /\ write_index' = Advanced(write_index, len[p]) /\ cookies' = cookies + Counted(len[p])
  /\ UNCHANGED <<cookie_pot, read_index, offset, len, read_len, told, known, got, faults>>

\* A variant that trusts the pot to be zero.
TerminateNothing(p) ==
  /\ Goto(p, "terminate", "idle")
  /\ offset' = [offset EXCEPT ![p] = @ + len[p]]
  /\ UNCHANGED <<cookie_pot, write_index, read_index, len, read_len,
                 cookies, told, known, got, faults>>

Terminate(p) ==
  /\ Goto(p, "terminate", "idle")
  /\ cookie_pot' = [cookie_pot EXCEPT ![write_index - 1] = Nul]
  /\ offset' = [offset EXCEPT ![p] = @ + len[p]]
  /\ UNCHANGED <<write_index, read_index, len, read_len, cookies, told, known, got, faults>>

-----------------------------------------------------------------------------
(* fortune_read()                                                          *)

\* A file from which something has been read, and an empty pot, are at their
\* end: the call returns 0.  Readers ask for at least a byte.
Read(p) ==
  /\ lpc # "out" /\ offset[p] = 0 /\ write_index # 0
  /\ Goto(p, "idle", "strlen")
  /\ \E n \in 1..MaxLen : len' = [len EXCEPT ![p] = n]
  /\ IF read_index >= write_index THEN read_index' = 0 /\ known' = cookies
                                  ELSE UNCHANGED <<read_index, known>>
  /\ UNCHANGED <<cookie_pot, write_index, offset, read_len, cookies, told, got, faults>>

\* A zero byte is always found below POT_SIZE; else the call would run over.
StrLen(i) == LET ends == {j \in i..(POT_SIZE - 1) : cookie_pot[j] = Nul} \cup {POT_SIZE}
             IN  (CHOOSE j \in ends : \A k \in ends : j <= k) - i

Measure(p) ==
  /\ Goto(p, "strlen", "copy_out")
  /\ LET n == StrLen(read_index) IN
       read_len' = [read_len EXCEPT ![p] = IF n > len[p] THEN len[p] ELSE n]
  /\ UNCHANGED <<cookie_pot, write_index, read_index, offset, len,
                 cookies, told, known, got, faults>>

CopyOut(p) ==
  /\ Goto(p, "copy_out", "advance_read")
  /\ got' = {cookie_pot[i] : i \in read_index..(read_index + read_len[p] - 1)}
  /\ UNCHANGED <<cookie_pot, write_index, read_index, offset, len, read_len,
                 cookies, told, known, faults>>

CopyOutFails(p) ==
  /\ Goto(p, "copy_out", "idle") /\ faults < MaxFaults /\ faults' = faults + 1
  /\ UNCHANGED <<cookie_pot, write_index, read_index, offset, len, read_len,
                 cookies, told, known, got>>

\* A variant that advances by what was asked for.
ReadAdvanceByLen(p) ==
  /\ Goto(p, "advance_read", "idle")
  /\ read_index' = Advanced(read_index, len[p])
  /\ offset' = [offset EXCEPT ![p] = @ + read_len[p]]
  /\ told' = IF read_len[p] > 0 THEN cookie_pot[read_index] ELSE told
  /\ UNCHANGED <<cookie_pot, write_index, len, read_len, cookies, known, got, faults>>

ReadAdvance(p) ==
  /\ Goto(p, "advance_read", "idle")
  /\ read_index' = Advanced(read_index, read_len[p])
  /\ offset' = [offset EXCEPT ![p] = @ + read_len[p]]
  /\ told' = IF read_len[p] > 0 THEN cookie_pot[read_index] ELSE told
  /\ UNCHANGED <<cookie_pot, write_index, len, read_len, cookies, known, got, faults>>

-----------------------------------------------------------------------------
WriterStep(p) == Write(p) \/ CopyIn(p) \/ CopyInFails(p) \/ WriteAdvance(p) \/ Terminate(p)
ReaderStep(p) == Read(p) \/ Measure(p) \/ CopyOut(p) \/ CopyOutFails(p) \/ ReadAdvance(p)

Next == \/ Loader
        \/ \E p \in Writer : WriterStep(p)
        \/ \E p \in Reader : ReaderStep(p)
        \/ \E p \in Proc : Open(p)

Spec == FortuneInit /\ [][Next]_vars

-----------------------------------------------------------------------------
(* Properties.  Nothing in the module keeps a second reader or writer out;  *)
(* what follows is for one writer, and, where it says so, for one reader.  *)

OneWriter == \A p, q \in Writer : p = q
OneReader == \A p, q \in Reader : p = q

\* The pot and its writer: every variable stays in its range, and write_index
\* never passes the pot's end.
PotTypeOK ==
  /\ lpc \in {"out", "mkdir", "symlink", "loaded"}
  /\ cookie_pot \in [0..(POT_SIZE - 1) -> Int] /\ write_index \in 0..POT_SIZE
  /\ pc \in [Proc -> {"idle", "copy_in", "advance", "terminate", "strlen", "copy_out",
                      "advance_read"}]
  /\ len \in [Proc -> 0..MaxLen] /\ cookies \in Nat /\ faults \in Nat /\ loads \in Nat

\* Below n the pot is a row of cookies, each the bytes of one write followed by
\* a zero.
RowBelow(n) ==
  /\ \A i \in 0..(n - 1) : cookie_pot[i] # Junk
  /\ \A i \in 1..(n - 1) : cookie_pot[i] # Nul => cookie_pot[i - 1] \in {Nul, cookie_pot[i]}

\* The pot is such a row, whatever failed writes have left behind it; between
\* the last two assignments of a write its last byte is still missing.
Terminating == \E p \in Proc : pc[p] = "terminate"
PotLaidOut ==
  /\ RowBelow(IF Terminating THEN write_index - 1 ELSE write_index)
  /\ ~Terminating /\ write_index > 0 => cookie_pot[write_index - 1] = Nul

\* Why it is: a write has tested that it fits, ...
WriterAtWork ==
  /\ lpc = "out" => AllIdle
  /\ \A p \in Proc :
       /\ pc[p] \in {"copy_in", "advance", "terminate"} => p \in Writer
       /\ pc[p] \in {"copy_in", "advance"} => write_index + len[p] < POT_SIZE
       /\ pc[p] = "advance" =>
            \A i \in write_index..(write_index + len[p] - 1) : cookie_pot[i] = cookies + 1
       /\ pc[p] = "terminate" => write_index > 0

\* ... and as long as no copy has failed the row is all cookies there were, in
\* order, with zeros behind it.
Coming(i) == \E p \in Proc : pc[p] = "advance" /\ i < write_index + len[p]
CookiesInOrder == faults = 0 =>
  /\ \A i \in 0..(write_index - 1) : cookie_pot[i] \in 0..cookies
  /\ \A i \in write_index..(POT_SIZE - 1) : ~Coming(i) => cookie_pot[i] = Nul
  /\ write_index > 0 => cookie_pot[write_index - 1] = Nul
  /\ \A k \in 1..cookies : \E i \in 0..(write_index - 1) : cookie_pot[i] = k
  /\ \A i, j \in 0..(write_index - 1) :
       i < j /\ cookie_pot[i] # Nul /\ cookie_pot[j] # Nul =>
         IF \E m \in i..j : cookie_pot[m] = Nul
         THEN cookie_pot[i] < cookie_pot[j] ELSE cookie_pot[i] = cookie_pot[j]

PotInv == PotTypeOK /\ PotLaidOut /\ WriterAtWork /\ CookiesInOrder

\* The reader's variables; a read may pass the pot's end by the zero it takes
\* to be there.
ReadTypeOK ==
  /\ read_index \in 0..(POT_SIZE + 1)
  /\ offset \in [Proc -> Nat] /\ read_len \in [Proc -> 0..MaxLen]
  /\ known \in 0..cookies

\* A read under way has found its cookie below write_index, ...
ReaderAtWork == \A p \in Proc :
  /\ pc[p] \in {"strlen", "copy_out", "advance_read"} =>
       p \in Reader /\ len[p] > 0 /\ read_index < write_index
  /\ pc[p] \in {"copy_out", "advance_read"} =>
       /\ read_index + read_len[p] <= POT_SIZE
       /\ faults = 0 =>
            /\ read_index + read_len[p] < write_index
            /\ \A i \in read_index..(read_index + read_len[p] - 1) : cookie_pot[i] # Nul
            /\ read_len[p] = 0 => cookie_pot[read_index] = Nul

\* ... and what lies before read_index has been told, unless reading began anew
\* and met nothing since.
ToldBefore == faults = 0 =>
  /\ read_index <= write_index /\ told \in 0..cookies
  /\ \A i \in 0..(read_index - 1) : cookie_pot[i] <= told
  /\ \/ \E i \in 0..(read_index - 1) : cookie_pot[i] = told /\ told # Nul
     \/ told = known /\ \A i \in 0..(read_index - 1) : cookie_pot[i] = Nul
  /\ \A x \in got : got = {x} /\ x \notin {Nul, Junk}

\* No interleaving of a reader with a writer, and no failed copy, disturbs the
\* row of cookies or leads the reader out of it.
FortuneInv == PotInv /\ ReadTypeOK /\ ReaderAtWork /\ ToldBefore

\* A read gives bytes of a single cookie and stays behind the writer, although
\* the reader uses indices and bytes that the writer is changing.  (After a
\* failed write it may run on into the bytes left behind, between the writer's
\* last two assignments.)
WholeCookies == faults = 0 =>
  Cardinality(got) <= 1 /\ got \cap {Nul, Junk} = {} /\ read_index <= write_index

\* Cookies are told in the order they were written, none is passed over, and
\* the first follows only the last of those there were when reading began anew.
ToldInOrder ==
  [][faults' = 0 /\ loads' = loads =>
       told' \in {told, told + 1} \/ (told' = 1 /\ told = known)]_vars
=============================================================================
