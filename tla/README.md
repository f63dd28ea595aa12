# Models of the operating-systems labs

The repository holds the programs of a sixth-semester operating-systems course:
servers and clients over sockets and System V semaphores, kernel modules, file
tree walks, a /proc reader and file I/O experiments. They are small, but nearly
every one is concurrent or meets files and processes that others change, and
nothing in the repository tests them. This directory models them in TLA+, checks
the models with TLC and proves their safety properties with TLAPS.

Contents: [parts](#the-parts-of-the-system), [modules](#modules-and-code),
[runs](#the-runs), [bounds](#bounds-and-why-they-are-enough),
[fairness](#fairness), [proofs](#what-is-proved),
[worth knowing](#what-a-reader-of-the-code-may-not-expect),
[left out](#what-is-not-modelled), [plan](#plan).

## The parts of the system

### Multithreaded letter server (`lab_01/client-server-af-inet/multithread`)

*State.* A set of three semaphores that outlives the process (SE counts free
places, SF letters, SB is binary); a ring of 26 cells with a producer and a
consumer index; the flag that the SIGINT handler clears; `connfd`, one variable
of `main()` whose address every thread is given; one detached thread per
request; the connections, which the server never closes.
*Operations.* `main()` accepts, receives one letter (`p` or `c`) and creates a
thread in `produce()` or `consume()`. The thread copies `*args`, does one
`semop()` of two operations, writes or reads a cell, advances an index, sends the
reply, does the second `semop()`. A client makes 400 requests, each on a new
connection, productions and consumptions in turn.
*Hard.* Threads interleave everywhere; a thread reads `connfd` when `main()` may
have moved on; SE starts at 4096 although the ring has 26 cells; no operation
uses SEM_UNDO, so a process that ends inside leaves SB at 0; SIGINT can hit any
thread, and one that waits in `semop()` ends the process with `exit(1)`;
consumers wait without limit; descriptors run out; a restarted server has lost
its letters.
*Correct when* threads exclude one another, the letters come out in the order of
the alphabet, each once; no request's reply goes backwards; requests are carried
through; SIGINT ends the server after at most one more connection.

### Multiplexing letter server (`lab_01/client-server-af-inet/multiplex`)

*State.* One thread, two counting semaphores, a ring of 26 letters with two
indices and the current letter, an epoll set.
*Operations.* `epoll_wait()` gives up to ten events; the listening socket means
`accept()` and registration, any other connection means one whole request in
`worker()`: read, `producer()` or `consumer()`, write, close. A semaphore that
stays at zero for half a millisecond refuses the request with "ER". Clients make
five consumptions, then five productions, and so on, 10000 requests in all.
*Hard.* Registration with EPOLLOUT starts `worker()` before the request is there,
so `read()` blocks the only thread; SIGINT during `epoll_wait()` or
`semtimedop()` ends the process with `exit(1)`; an exit between the two semaphore
operations leaves them off by one; ring, letter and indices wrap separately.
*Correct when* every request takes effect at one instant on a bounded queue and
gets that operation's answer; it is refused only when the queue is full or empty;
every request is answered; a dead client does not stop the service.

### Socket pair (`lab_01/socketpair/main.c`)

*State.* One pair of connected stream sockets, shared by a parent and three
children. *Operations.* The parent forks a child, reads one message, writes the
answer, and goes on to the next; then closes, and waits for each child. A child
closes one end, writes, reads one answer. *Hard.* All children read the same
socket; a child can be killed before it writes; `fork()` can fail.
*Correct when* no answer is lost or read twice and all end.

### Unix datagram servers (`lab_01/client-server-af-unix/{no-ans,with-ans}`)

*State.* The socket file `./server.s`, the server's buffer, the sender's address
and `addrlen`, one file per client of `with-ans`. *Operations.* Receive, print,
answer (`with-ans` only), until SIGINT; then close and unlink. *Hard.* `addrlen`
is uninitialised at first and later holds the length of the previous address; a
failing `sendto()` ends the server and leaves the file, so that no later server
can bind; SIGINT is noticed after the next datagram only; a datagram queued at
the close is lost. *Correct when* each answer goes to its sender, once, and the
server fails only for a reason one can name.

### Keyboard modules (`lab_07/my-workqueue.c`, `lab_07/tasklet.c`)

*State.* The registered handler, the queue, two allocated work items with a scan
code each, or one allocated tasklet, the kernel's pending bits. *Operations.*
insmod with its failure paths, rmmod, the interrupt handler, two work functions
(one sleeps before it reads the code) or the tasklet's function, which is given
the code as it was when it was called. *Hard.* The handler is registered before
the items exist and unregistered after they are freed; `queue_work()` and
`tasklet_schedule()` do nothing for a pending item, so codes are coalesced;
`tasklet_init()` clears a code that was stored too early.
*Correct when* memory is misused in no other window than these two, the last code
is never lost, and rmmod ends.

### Fortune module (`lab_04/lkm-3/md.c`)

*State.* A pot of 4096 bytes, a write index and a read index. *Operations.*
`write()` appends a cookie and a zero byte, `read()` gives the next one, from the
first again after the last; insmod and rmmod. *Hard.* No lock at all: a reader
works on indices and bytes that a writer is changing; the index is advanced
before the zero is stored; failed copies leave bytes behind; a short read skips
the byte it stops at. *Correct when* reads give whole cookies, in turn.

### File tree walks (`lab_02/ftw/nochdir.c`, `chdir.c`)

*State.* The path buffer with its length, one open directory for each call of
`dopath()`, the working directory (`chdir.c`), the listing. *Operations.* `lstat()`
by the path from the root or in the working directory, the doubling of the buffer,
`opendir()`, `chdir()` in and out, `readdir()`, `closedir()`; and meanwhile
renames and removals by other processes. *Hard.* The buffer is doubled at most
once for a directory; a path grows too long for the kernel; descriptors run out
at depth; a directory may be readable and not searchable; a directory is moved
while the walk is in it. *Correct when* the buffer suffices, the names that are
read are the files that are looked up, a tree that stands still is listed
completely, and the walk ends.

### /proc reader (`lab_03/proc-1/main.c`, `run.sh`)

*State.* Three pids, the directories `pid_<PID>` with the files printed into them,
two figures kept from one file to a later one. *Operations.* `run.sh` starts three
programs, drops those that did not start, calls `main`, and renames the
directories; `main` makes a directory, prints thirteen files and sends SIGKILL,
for each pid. *Hard.* The programs may end by themselves meanwhile, be reaped, and
leave their pids to others; main is root and names its victims by number; a failed
step spares the rest. *Correct when* each file tells of the program whose
directory it is in, only these are killed, and none is left running.

### File I/O experiments (`lab_05/src`)

*State.* A file, open file descriptions with offsets, `FILE` buffers, one
character in each thread. *Operations.* Open, read ahead, read, print, write,
close, create and join threads. *Hard.* Two `FILE`s on one offset take letters
from each other; two threads read one file through two offsets; `main()` returns
before its detached thread; two writers start at offset 0. *Correct when* each
stream hands its letters on in order, none twice and none lost but where the
program ends too early.

### Virtual file system module (`lab_06/vfs.c`)

*State.* A slab cache, an array of objects from it, the registered type, mounted
superblocks. *Operations.* Load with four failure paths, unload, mount with its
failure paths, unmount. *Hard.* `vfs_free_memory()` runs after each prefix of the
load; the memory is freed before the type is unregistered; `d_make_root()` has put
the inode when it fails, and the module puts it again. *Correct when* each object
is given back once, before its cache, and nothing is used that was freed.

### Not modelled

| part | what it is | why |
| --- | --- | --- |
| `lab_04/lkm-1` | one loop over the task list that prints | keeps nothing, waits for nothing |
| `lab_04/lkm-2` | three modules that call each other's exported functions at load | keep no state; that a module in use stays loaded is the kernel loader's promise |
| `multiplex/client-for-remote.c` | a client | its server is not in the repository |
| `comparison/graph.gp` | a plot of measured times | no state |

## Modules and code

Names of variables, states and operators follow the source. A program counter
(`pc`, `mpc`, `spc`, ...) has a value for each place between two calls that
others can see; one action is what happens from one such place to the next.

| module | models | actions and code |
| --- | --- | --- |
| `LetterStream` | what the letter servers promise: an endless alphabet | abstract |
| `MtBuffer` | semaphores, ring and threads of the multithreaded server | `Start` 205-239, `Spawn` 299-320, `ReadArg` 60/103, `Enter` and `Leave` the two `semop()`, `WriteCell` 72, `ReadCell` 113, `Advance` 73-75/114-116, `Send`, `Remove` 340-346, `Exit` |
| `MtServer` | `MtBuffer` composed with `main()`, network, clients and faults | `TestFlag` 276, `Accept` 279, `Receive` 293, `CreateThread` 299-320, `Detach` 330, ...; `client.c` in `Connect`, `SendRequest`, `ReceiveReply`, `LoseServer`, `Quit` |
| `LetterService` | a bounded queue of letters with refusals | abstract |
| `MpServer` | the multiplexing server with its clients and faults | `EpollWait` 308, `Accept` 321-343, `ReadRequest` 159, `ProduceBegin`, `ConsumeBegin`, `TimeOut`, `SemEnd`, `WriteReply`, `CloseConnection` |
| `SocketPair` | parent and children | `Fork`, `ParentRead`, `ParentWrite`, ..., `ChildWrite`, `ChildRead` |
| `Datagram` | both datagram servers (`answers` tells which) and clients | `Receive`, `Reply`, `Close`, `Unlink`, `Send`, `ReceiveAnswer` and their failures; `Senders` and `Spelled` say where a cut-short address can lead |
| `Keyboard` | both keyboard modules (`driver` tells which) and the kernel around them | `Initialise`, `SetLayout`, `InitFails`, `Unloading`, `Interrupt`, `StoreCode`, `QueueWork`, `RunWork`, `WorkFunction`; `Line`, what is printed |
| `Fortune` | the fortune module and the processes that use it | `Write`, `CopyIn`, `WriteAdvance`, `Terminate`; `Read`, `Measure`, `CopyOut`, `ReadAdvance` |
| `Ftw` | both tree walks (`program` tells which) and others who change the tree | `MyFtw`, `Stat`, `Grow`, `OpenDir`, `ChDir`, `ReadDir`, `EndOfDir`, `ChDirUp`, `CloseDir`, each one call of `dopath()`; `Change` |
| `FileIO` | the eight programs of `lab_05/src` | `Open`, `Create`, `Join`, `Turn`, `Read`, `Write`, `Put`, `Close`; `Return` 45 and `ReadStale` 11 of `2-2t-det.c` |
| `ProcReader` | `run.sh`, `main()`, the three programs and the pids | `StartProgram`, `Filter`, `MakeDirectory`, `PrintFile`, `Kill`, `Move`; `End`, `Reap`, `Appear` |
| `Vfs` | the file system module and the processes that mount it | `CreateCache`, `AllocateArray`, `Fill`, `Register`, `FreeElement`, `DestroyCache`, `Unregister`; `Find`, `NewInode`, `MakeRoot`, `Unmount`, `KillSb` |
| `MC_*` | constants for TLC | |
| `MtServerProofs`, `MpServerProofs`, `SocketPairProofs`, `DatagramProofs`, `KeyboardProofs`, `FortuneProofs`, `FileSystemProofs`, `FileUseProofs` | theorems: of `MtBuffer` and `MtServer`, of `MpServer`, `SocketPair`, `Datagram`, `Keyboard` and `Fortune`, of `Ftw` and `Vfs`, of `ProcReader` and `FileIO` | |

*Composition.* `MtServer` extends `MtBuffer`: each of its actions is a buffer
action together with what `main()`, the network or a client does, or leaves the
buffer alone. So every behaviour of the server is one of the buffer (the lemma
`ServerUsesBuffer`, which holds by this way of composing them and is only there to
carry the theorems over), and what is proved of the buffer holds of the whole server.

*Data.* Letters are numbers modulo the length of the alphabet, `R`. A request is named
by its connection, a datagram by its client, a file of a tree by its name, the bytes
of the n-th cookie are all n, a letter of `alphabet.txt` is its place, and what a
printed file of /proc holds is whom it tells of. The text of logs and messages,
latency measurements and `sleep()` are left out. History variables are marked so and
read by no guard.

*External parts*, modelled from how the code uses them: semaphores (an operation
of several is done in one step or waits), TCP connections (a connection closed
with unread data is reset), stream and datagram sockets of the Unix domain, end
of a process (its sockets close, semaphores and socket files stay), and the
kernel's interrupts and work queues (interrupts of one line do not overlap,
`free_irq()` waits for a running handler, a worker clears the pending bit before
it calls the function). `proc_remove()` waits for calls under way.

*Variants.* An operator introduced as a variant (`LeaveKeepingSB`, `ConsumeNextCell`,
...) is a faulty form of the definition that follows it: a dropped guard, a
missing reset, a swapped order. No specification uses one; put in the place of
the right definition, it breaks the property PROJECT.json lists it for, which
shows that the property depends on that line of the code.

## The runs

| run | question | states |
| --- | --- | --- |
| `mt_buffer` | do five threads exclude one another, does the invariant of the proofs hold (`BufferInv`, with types, exclusion, the conservation of units and letters among its parts), do letters come out in order (`ImplementsStream`)? | 2.4 k |
| `mt_two` | with two racing clients and a SIGINT: does a client that has no competitor read its own reply (`OwnReply`), does each consumer find a letter, in the first life and with no client killed (`LetterComing`), are requests carried through (`RequestsFinish`), does SIGINT end the server (`NoticedInterruptStops`)? | 302 k |
| `mt_faults` | the same with a killed client, the descriptor limit, an exit and a restart: do replies only go forward (`RepliesNeverGoBack`), is at most one connection accepted after SIGINT (a part of `ServerInv`), and does a client killed before its request cost the others one letter at most (`OneLetterPerKill`)? | 3.5 M |
| `mp` | with two cells, through SIGINT, a killed client, an exit between any two steps and a restart: is no letter overwritten, no connection closed unanswered and none forgotten (parts of `MpInv`), do the requests take effect on a bounded queue whose letters leave in the order they came (`ImplementsService`), does a dead client leave the service alive (`EveryConnectionClosed`), does SIGINT end it (`NoticedInterruptStops`)? | 1.1 M |
| `pair` | are answers conserved and is there one for every child that waits (`PairInv`), does all end without faults (`AllAnswered`), and does the parent hang only for a killed child's message (`ParentStuckOnlyOnKilled`)? | 1.6 k |
| `datagram` | one answer each, to its sender, until an answer goes astray for the one cause there is, and at most one datagram after SIGINT (`DgramInv`); failures only for named causes (`FailureHasCause`); waiting ends, with the answer read or dropped, unless the server was interrupted or failed, or an answer went astray (`WaitingEnds`) | 31 k |
| `keyboard` | is memory misused only by a handler in the two windows (`KbInv`), is the last code kept (`LastCodeNotLost`) and, if it is a release, printed, by name if the table has it and as UNKNOWN if not (`LastReleasePrinted`), does rmmod end (`UnloadFinishes`)? | 245 k |
| `fortune` | is the pot a row of cookies whatever failed copies leave (`FortuneInv`), is each read of one cookie and behind the writer (`WholeCookies`), in turn (`ToldInOrder`)? | 2.1 M |
| `ftw` | does the path buffer suffice (`FtwInv`), is what `readdir()` gave the file that is looked up (`EntryFound`), is the listing of an unchanged tree what a definition without a walk says (`CompleteWalk`), does the walk end, and for which reasons does it give up (`EndsWell`)? | 239 k |
| `fileio` | does each stream hand its letters on in order, none twice (`FileInv`), what has each program printed at its end (`AllPrinted`), what is left of two writers (`SecondWriterWins`), does each end (`ProgramEnds`)? | 63 k |
| `proc_reader` | does main print and kill only what it was given (`ReaderInv`), is each program told of in full under its own name (`Told`), is one left running only for a failed `mkdir()`, or else all that were started (`NoneLeft`), does the script end (`ScriptEnds`)? | 1.4 M |
| `vfs` | is what was allocated given back once and in order through every failure path (`VfsInv`), never under a mount (`MountedIsLoaded`)? | 3.5 k |

Each invariant that ends in `Inv` is the inductive one, or the conjunction of a
module's type invariant with its safety properties; its parts are named, and each
part has its comment, in the module.

Deadlock is checked in `mt_buffer`. The other configurations say
`CHECK_DEADLOCK FALSE`, because their systems really stop: all clients have made
their requests, all processes have ended, the module is out and `MaxLoads` is
used up. What must not stop early is stated by the liveness properties instead.

## Bounds and why they are enough

- `Iter` (requests per client), `Client`, `Worker`/`Conn` (connections), `N`,
  `SeInit`, `R` are the program's numbers made small. The ring or the counter is
  always shorter than the number of requests, so that indices wrap, producers
  meet a full and consumers an empty ring. `SeInit` is above `R` in `mt_buffer`,
  as 4096 is above 26, and below it elsewhere, so that producers wait too.
  In `mp` two cells, two letters and five requests, shared by the clients as they
  come (each alternates, `Burst` being one for five), fill the ring, consume two
  letters and take both indices and the letter past the end, and leave room for every
  fault. That cells and letters wrap at different places, larger rings, and any number
  of clients and requests are the proofs' matter (`N` and `R` are independent there).
- `MaxSignals`, `MaxKills`, `MaxCrashes`, `MaxFails`, `MaxFaults`, `MaxForkFails`
  bound how often something outside the program strikes. One of each, at every
  place, together with the others, reaches every error path; a second of the same
  kind finds the same places, or a process already ended. `pair` has two kills,
  because the parent meets its children one after the other.
- `MaxLives` and `MaxLoads` are two, three in `vfs`: the second life meets what
  the first left.
- `FdLimit` is three in `mt_faults`, less than the four connections.
- `MaxKeys` is three: one interrupt being handled, one pending, one coalesced. Two
  keys are released, one that the table has (`Known`) and one beyond it, so that what
  was printed for one is never taken for the other.
- In `datagram` addresses have 8, 11 and 12 bytes: each longer one is cut short after a
  shorter one, and the longest can be spelled as the second.
- `POT_SIZE` is six and `MaxLen` three: two cookies fill the pot, a third does not
  fit, and a short cookie can be written over a failed longer one. A reader asks
  for a byte at least: a call for none also advances the index, and would pass a
  byte over without reading it.
- In `ftw` three shapes of a root and four files give depth two, an empty directory
  and brothers after a directory. They are crossed with lengths of the root's path (0,
  shorter and longer than a third of `NAME_MAX`), a root that exists or not,
  unreadable and unsearchable directories, the one above the root among them. Names
  have one to `NAME_MAX` = 4 bytes, `PATH_MAX` of 13 is passed by one path of each
  shape, and `FdLimit` of two by the depth.
- In `fileio` six letters do not fill `BufSize` = 4 evenly: the first `FILE` of
  `1.c` takes four and the second two.
- In `proc_reader` three pids are all there are: a pid that a program leaves goes
  to another at once, which is the case that matters. One file stands for each way
  a file is printed, and `Links` for the three links. Each of the three directories, of
  `./main` and of the right to run it (`Needed`) may be there or not.
- In `vfs` four objects, three failures and three mounters: fails at the first, a
  middle and the last object, and a mount under way beside one that is made and
  one that is undone.
- `mt_buffer` uses symmetry over its threads; it checks safety only, and threads
  differ in nothing but their names.

## Fairness

Safety needs none. The liveness properties assume weak fairness of `main()`, of
each worker thread, of each client, of the parent and each child, of a server
process, of the interrupt handler, of rmmod, of each work item, of a tree walk,
of each thread of `lab_05`, of `run.sh` with `main`, and of bash that reaps its
children: each is a process or thread of its own that the scheduler keeps running,
and none polls.
A waiting `semop()` is an action that is not enabled. The kernel serves waiters
in the order they came; weak fairness is less than that, and enough here, for
each thread passes each semaphore once and there are finitely many of them.
Nothing forces signals, kills, exits, restarts, keys, failing calls, renames, new
processes, insmod or rmmod to happen, and rmmod, once begun, is kept running.

## What is proved

Every safety property that a run checks is a theorem. The theorems hold for every
value of the constants that the module's assumptions allow: any number of threads,
clients, connections, children, keys, objects and mounts, any tree, any positive ring
length `R` and any initial value of SE, a pot of any size, any pids and any number of
faults (the bounds on faults are constants, and arbitrary naturals). The assumptions
say that counters are naturals and rings, pots and buffers are not empty; in the
letter servers, that connections are numbered from 1 without gaps; in `ProcReader`,
that there are three pids at least, one of them the highest, and that the calculations
come after the two files that they are made of; in `FileIO`, that the alphabet has an
even number of letters, one for each stream, as the 26 of `alphabet.txt`; in `Ftw`,
that the files are finitely many, each in a directory and none, by way of others, in
itself. The theorems of `Fortune` are about one writer, and but for the first about
one reader beside it: the module locks nothing, and of two writers nothing can be
promised.

| theorem | statement |
| --- | --- |
| `BufferInductive` | `BufferSpec => []BufferInv` |
| `BufferTypes`, `BufferExcludes`, `BufferReleases`, `BufferConserves`, `BufferCounts` | the parts of `BufferInv`: types, exclusion, SB, units, letters |
| `BufferImplementsStream` | `BufferSpec => ImplementsStream` |
| `BufferWaitsForOneKind` | when no thread can move, producers wait for a full count of letters, consumers for an empty one |
| `ServerInductive` | `Spec => [](BufferInv /\ ServerInv)` |
| `ServerTypes`, `ServerRepliesForward`, `ServerStopsAccepting` | the parts of `ServerInv` |
| `ServerOwnReply`, `ServerLetterComing` | a client without a competitor reads its own reply; each consumer of the first life finds a letter |
| `ServerNobodyWaitsInVain` | in that life some thread can move while a consumer waits, and `main()` waits for a client about to send |
| `ServerOneLetterPerKill` | consumers that wait in the first life outnumber the letters by the killed clients at most |
| `ServerImplementsStream`, `ServerExcludes` | the letters of the whole server are the alphabet, and its threads exclude one another |
| `MpInductive` | `Spec => []MpInv`, of the multiplexing server |
| `MpAnswersBeforeClosing`, `MpKeepsLetters` | parts of `MpInv`: no connection is closed unanswered, no unread letter overwritten |
| `MpNobodyWaitsInVain` | the loop stands still in `epoll_wait()` only when every connection is closed, in `read()` only for a client that can write |
| `MpImplementsService` | `Spec => ImplementsService`: a bounded queue with refusals |
| `PairInductive` | `Spec => []PairInv`, of the socket pair |
| `AllAnsweredAtTheEnd`, `NobodyWaitsInVain` | its end, and who waits for whom, from it |
| `DgramInductive`, `DgramFailureHasCause` | `Spec => []DgramInv`, of the datagram programs, and what each failure comes from |
| `DgramNobodyWaitsInVain` | a client that waits is in line, served or answered, until a server is interrupted or fails, or an answer goes astray |
| `MemoryInductive`, `KbInductive`, `KbLastCodeKept` | of the keyboard modules: `Spec => []MemoryInv`, `Spec => []KbInv`, and `[]LastCodeNotLost` from it |
| `KbLastReleasePrinted` | at rest after a release, each function has printed it |
| `PotInductive` | one writer, any readers: the pot is a row of cookies, `[]PotInv` |
| `FortuneInductive`, `ReadsWholeCookies`, `CookiesToldInOrder` | one reader beside it: `[]FortuneInv`, `[]WholeCookies`, and the action property `ToldInOrder` |
| `BufferInductive`, `FtwBufferSuffices` (`FileSystemProofs`) | `FtwSpec => []BufferInv` of the walks' path buffer, and `[]BufferSuffices` |
| `PathInductive`, `FtwEntryFound` | `FtwSpec => []PathInv`, and `[]EntryFound` from it |
| `FtwInductive`, `FtwCompleteWalk` | `FtwSpec => []FtwInv`, which adds `WalkInv`, of a tree that nobody changes; and `[]CompleteWalk` from it |
| `VfsInductive`, `VfsStaysWhileMounted` | `VfsSpec => []VfsInv`, and `[]MountedIsLoaded` from it |
| `ReaderInductive`, `ReaderHitsTargets` | `ReaderSpec => []ReaderInv`, and its part `OnlyTargets` |
| `ReaderTells`, `ReaderLeavesNone` | `[]Told` and `[]NoneLeft` from it |
| `FileInductive` | `FileSpec => []FileInv`, of the eight programs |
| `FileAllPrinted`, `FileSecondWriterWins` | `[]AllPrinted` and `[]SecondWriterWins` from it |

*The buffer's invariant.* Exclusion and counting are not inductive by themselves.
`BufferInv` adds where the indices stand (`IndexPositions`: the number of letters
produced, or consumed, modulo `R`, or one behind while a thread is between
writing and advancing), what the cells hold (`RingContents`: each written cell
holds the one letter that belongs there; `UnreadIsNul`), that a consumer inside
has counted (`ConsumerStarted`) and that no thread outlives the process
(`Quiescent`). Each action has a lemma that says it preserves the invariant
(`EnterPreserves`, `WriteCellPreserves`, ...), and `AdvanceIsNext`, from a few
lemmas on division, says that the code's wrap-around is addition modulo `R`.
The refinement maps a production to `WriteCell` and a consumption to `ReadCell`;
both step while SB is held, which is why the order is right.

*The server's invariant.* Misdirected replies go forward because `main()` never
moves `connfd` back: `ServerInv` says that `connfd` is the newest connection, that
every worker belongs to it or to an older one, and that what a worker has read is
not older than itself; and that `flag` is tested between two accepts.
That a client alone reads its own reply needs to know when it connects again:
`OneAtATime` says that a client waits for one reply at a time, and `InTurn` that
with one client each older connection has had its reply, so that the workers of
the newest still find it in `connfd`. `LetterComing` compares two numbers of
threads. `SFCounts` ties SF to the productions that are over and the consumptions
begun; `ClientsAlternate` gives each request for a letter an earlier request of the
same client that makes one; `ThreadsAsAsked` says that `main()` has started the
thread asked for at every earlier connection, but where a client was killed before it
asked (`Silent`), of which there are no more than kills. Hence an injection from the
takers' connections, without these, to the makers', and the rest is counting:
`OneLetterPerKill`, and `LetterComing` where nobody was killed. A later life starts
with fewer letters than the clients asked for, so both are about the first.

*The multiplexing server's invariant.* Here `SEM_FULL` never exceeds the ring, so
unread letters stay: `WindowIntact` says what each of the cells from the consumed
to the produced count holds, and what the semaphores count, one unit apart while
the one request is half done (`HalfDone`), which is what an exit leaves behind.
`IndicesInStep` ties the two indices and the letter, which wrap at different
places, to the two counts. `HandledOnce` says that a request is decided at one
step and its reply kept from then on; with `OwnersKnown` this gives
`ClosedMeansAnswered`. The refinement maps `ProduceBegin` and `ConsumeBegin`, where
a letter moves, and `TimeOut`, where a request is refused, to the steps of the
queue, `Restart` to its emptying, and every other step to a stutter.
`NobodyForgotten`, the last part, follows a connection from the backlog through epoll
and the batch to the worker: until it is closed it is in one of these.

*The socket pair's.* That no answer is lost or read twice (`AnswersConserved`) needs
where each answer is: in the stream or with the one child that read it
(`AnswersInOnePlace`); and that the parent answers one child's message before it forks
the next (`OneMessageAtATime`), so that no two answers are the same. `NobodyLeftOut`
counts: the children that wait are never more than the answers in the stream and the
one to be sent. So no child meets the end of the stream or a closed peer, whichever
children are killed and even if `fork()` fails.

*The datagram programs'.* An answer goes to its sender because a client sends once
(`SentOnce`), so that no two datagrams have one name, and because the server serves
what it has received and knows no address but the sender's (`ServesReceived`). An
address cut short is no valid one, unless the end of an earlier one lies behind it and
completes it to another client's; the history variable `astray` says that this has
happened, `AstrayHasCause` what it takes, and from then on no more is promised.
`ServesReceived` also says that no datagram is
taken after SIGINT but by a call that was waiting, which gives
`OneMoreAfterInterrupt`. For `FailureHasCause` the invariant follows the one length
that is never set back: `addrlen` is that of a sender met before (`LengthMet`), so
that an address is cut short only by an earlier, shorter one or by the first
datagram (`CutShort`), and a client whose datagram is waiting is there to be
answered, or was killed (`AwaitsReply`).
`EndsOnInterrupt` says that without SIGINT and failure there is one life.

*The keyboard modules'.* `QuietInWindow`: as long as the handler has not stepped in
a window, nothing waits or runs there; `LiveIsReady`: between the windows the
items, and the queue, are there. So an item that waits or runs is there.
`LastCodeNotLost` is about interrupts that are coalesced: `CodeHandedOn` says, at
each place of the handler, which items hold the newest code and which are queued
or running and will read it; and `NothingQueuedInWindow` that loading begins with
nothing left of an earlier life.

*The fortune module's.* One write leaves the pot's row of cookies unfinished for two
steps, between the copy and the zero, and a reader may look at it then. `WriterAtWork`
says what has been copied behind `write_index` at each of the writer's places, and
`CookiesInOrder` that, until a copy fails, the row below is every cookie in its
order, with zeros behind. A reader has its own place: `ReaderAtWork` says that the
cookie it measures ends below `write_index`, which a concurrent write only moves up,
and `ToldBefore` what lies before `read_index`. `StrLen` is a `CHOOSE` of the first
zero; that it exists, is in the pot and is the least follows from the naturals being
well-founded (`Least`), not from an induction over the bytes.

*The tree walks'.* That a doubling for each directory suffices is an invariant of
all open directories at once (`RoomForNames`): each has left room for the longest
name after its slash, because the one above it had. The root has it by its own
length, which is where the condition of `BufferSuffices` comes from; and
`PathFollowsStack` ties the path to the stack. Renames do not matter there: only the
lengths of names do. They matter for `EntryFound`, where the two walks agree for
different reasons. `StackSpelled` says that `nochdir.c`'s path names the open
directories, `StackOpened` that these are directories that could be opened and
searched, `UnmovedInPlace` that what has not been moved is where it was read, and
`WorksInTop` that `chdir.c` works in the directory on top of its stack, at each step
of entering and leaving it.

`CompleteWalk` compares the listing with one that is defined without a walk, and
without recursion: the directories above a file, `Upwards`, are the smallest set that
is closed under `parent`, and the length of a path is the number of its bytes. Its
invariant, `WalkInv`, has three parts (and `FtwInv` is `PathInv` and it). `OpenAbove`:
the open directories are those above the file looked at, so that the kernel finds and
opens what `Found` and `Openable` say (`Looked`). `ToldInTurn`: nothing is told twice,
and a directory before what it holds. `NothingPassedOver`: each file of a directory
that was opened has been told or is still before the walk. At the end nothing is
before it; a file that could be reached and was not told would then have one above it
of the same kind, and so on without end, which the assumption on trees excludes
(`AllReachedTold`). It is an argument by a least counterexample, where an induction
over the tree is not to be had.

*The file system's.* `MemoryByPhase` says which memory exists at each step of load
and unload, so that each prefix of the load meets the free loop that fits it;
`ReferencesCounted` counts the mounts under way or made, `Busy`, into the module's
use count, which bars the unload.

*The /proc reader's.* The lists of `main()` must agree with each other and with the
three names while pids change hands: `ListsInStep` says how far each loop has filled
them, and `OwnersListed` that a program has no pid but that in the list, and that
until it ends or is killed. Unless a pid was given twice, each program is killed in
its turn (`KilledInTurn`), so what is printed before is printed of its owner
(`OwnFiles`) and stays until it has its name (`PrintedStays`), from which `Told`
follows. `LeftForFails` counts the programs that `main()` left alone against its
failing calls of `mkdir()`; `NoneLeft` maps the living programs into that set. Where
`main()` did not come to run (`found # Needed`) nobody was killed, so that all programs
that have not ended live, which is the other half of `NoneLeft`.

*The file programs'.* `ThreadsInStep` says who is where. Of `1.c`, the letters up to
the one offset are printed or read ahead, and each stream's in order
(`SharedOffset`); its step is proved in two halves, filling a buffer from the file
and handing on its first letter. Of the threads, `EachInOrder` counts what each has
printed: the n-th letter of a stream is n, whatever lies between. Only the detached
thread of `2-2t-det.c` is excepted, once it has its descriptor from a frame that is
gone (`Stale`), and then only in what it has not read (`Unread`). The writers are
followed letter by letter: `WrittenThrough` says what each place of the file holds
after c letters, `WrittenAtClose` what the two buffers hold, and `ReportsInStep` that
`stat()` told `SizeAt` at every step.

*Where nothing moves.* The liveness properties are out of the prover's reach, but what
they mean for a single state is not: that nobody waits for something nobody will do.
Their fairness then has to carry each process only through steps that it can take.
That is what `ServerNobodyWaitsInVain`, `MpNobodyWaitsInVain`, `NobodyWaitsInVain` and
`AllAnsweredAtTheEnd`, `DgramNobodyWaitsInVain` and `KbLastReleasePrinted` state, for
`RequestsFinish` (its consumers; a producer can wait while the ring counts `SeInit`
letters, and `BufferWaitsForOneKind` says that then consumers may enter),
`EveryConnectionClosed`, the two of the socket pair, `WaitingEnds` and
`LastReleasePrinted`. "Can move" is there a guard of the program, written out, since
`ENABLED` cannot be reasoned about.

*Only model-checked.* Liveness under fairness, which is beyond the prover, and with it
the liveness properties of all runs.

## What a reader of the code may not expect

The runs check what the code does; these are consequences of it that the models
show or had to allow for.

- SE admits far more letters than the ring has cells, so producers of the
  multithreaded server do overwrite unread cells. Consumers get the right letter
  all the same, because a cell is only ever written with the letter of its own
  index (`RingContents`).
- The race on `connfd` sends replies to other connections, always later ones. A
  client alone is safe, since it connects again only once it has its reply.
- After a restart `RequestsFinish` no longer holds: a client that goes on with a
  consumption waits for a letter of the earlier life.
- An exit of the multiplexing server between its two semaphore operations does no
  lasting harm: the next start sets the semaphores anew, with the indices.
- A child of the socket pair may read another child's answer: all read one
  socket, and the parent forks the next child as soon as it has written
  (`main.c:75`). Answers are conserved, not addressed.
- A killed datagram client, or one whose pid has a digit more than the one
  before, can end the server and leave the file that stops all later ones.
- An address that is cut short by three bytes or more may be completed by the end of
  an earlier one and spell another client's, who then gets the answer.
- `addrlen` is not set in the client either (`with-ans/client.c:17`): its `recvfrom()`
  may take the answer and fail, and the client exits without it and leaves its file.
- A client of the multithreaded server that dies before it has sent its letter makes
  `main()` start the thread of the request before once more, which may take a letter
  that others wait for; one for each such client.
- A key in the windows of the keyboard modules uses memory that is not there:
  `request_irq()` comes first and `free_irq()` last.
- A key beyond the table of names is UNKNOWN for ever, any other until the module has
  set `layout_size`. If one key is released twice in a row, its second line looks like
  its first, and the properties cannot tell them apart.
- The path buffer of the tree walks starts with `PATH_MAX` bytes from
  `path_alloc()`, but `myftw()` then takes its length to be twice the root's and
  shortens it. When the root's path is shorter than a third of `NAME_MAX + 2`, the
  first long name is written beyond the end; `BufferSuffices` states the length
  from which it never is. An empty path is refused, by way of `realloc()` to no
  bytes.
- `chdir.c` ends in `exit(1)` at a directory that may be read but not searched,
  where `nochdir.c` goes on, and where `..` cannot be entered: of a directory that was
  removed, or moved to one that may not be searched.
- `run.sh` quotes a `~`, which the shell then does not expand: as committed it
  finds none of the three directories, starts nothing, and `main` refuses the
  empty list. The model lets any of the directories exist (`found`).
- SIGKILL goes to whoever has the pid by then. With fewer than three programs
  `main` refuses, and those that were started are left running; so they are if `sudo`
  is refused or `./main` has not been built, which the script does not notice; so is
  one whose directory could not be made.
- Without `alphabet.txt`, `thread_func` of `2-2t*.c` prints one byte that it never
  read, `2-3t-det.c` prints for ever, and `1.c` passes NULL to `setvbuf()`.
  `2-2t-det.c` may end its detached thread half-way, and between its return and the
  end of the process the thread may still start and take its descriptor from a frame
  that is gone (`2-2t-det.c:11`). What it finds there is taken to be refused by
  `read()`, to have no more to read (standard input, say, is silent), or to be the
  right one.
- Of the two writers of `3-*.c` the second overwrites the first, and before
  `fclose()` the file of `3-fprintf.c` is empty.
- When `d_make_root()` fails in `vfs.c`, the inode is put twice.

## What is not modelled

- In the letter servers: a second instance started while one runs (`server.c:258`;
  it sets the first one's semaphores before its own `bind()` fails, and none of the
  first one's properties survives that), failures of the set-up calls before the
  first `accept()`, log files and latencies.
- Two overlapping writers of `/proc/fortune`: both can pass the test for space,
  and then the pot can be overrun; nothing could be promised. Two overlapping
  readers likewise race on `read_index`. A call of `read()` for no bytes.
- What `no-ans/server.c` prints: its client sends no zero byte, so a shorter pid
  is printed with the tail of a longer one. A pid used again, whose client file an
  earlier run left behind.
- In `Ftw`, a failing `malloc()` or `closedir()`, hard and symbolic links (neither
  walk follows them) and the layout of the listing. In `ProcReader`, the figures
  themselves and the failure to open an output file. In `Vfs`, the fields of
  superblock and inode, which are only set.
- `lkm-1`, `lkm-2`, `client-for-remote.c` and `graph.gp`, for the reasons in the
  table above.

## Plan

Written in this order, the most concurrent first: `LetterStream`, `MtBuffer`,
`MtServer`, `LetterService`, `MpServer`, `SocketPair`, `Fortune`, `Datagram`,
`Keyboard`, `Ftw`, `FileIO`, `ProcReader`, `Vfs`; and the proofs of all of them.
What could follow:

1. *Depth.* A second instance of each letter server; the bytes of `no-ans`' buffer; two
   writers of the pot, to say what still holds.
2. *Proofs.* What of `WholeCookies` holds after a failed copy, and of `PotInv` with
   several readers that do not overlap; that the tree walks, the /proc reader and the
   file programs stop at their ends only, which TLC checks.
