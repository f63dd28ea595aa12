-------------------------------- MODULE Ftw --------------------------------
(***************************************************************************)
(* lab_02/ftw: the tree walks of nochdir.c, which looks every file up by   *)
(* its path from the root, and chdir.c, which enters each directory and    *)
(* looks its entries up by name.  Other processes may rename or remove     *)
(* files while one of them runs.                                           *)
(*                                                                         *)
(* A file is its own name.  What myfunc() prints of it is an element of    *)
(* told; the counters that it keeps, and nothing reads, are the numbers of *)
(* these elements by type.                                                 *)
(***************************************************************************)
EXTENDS Integers, Sequences, FiniteSets

CONSTANTS
  File,        \* the files of the tree, but not its root
  Root,        \* the root's file
  NAME_MAX,    \* longest name
  PATH_MAX,    \* longest path the kernel takes, with its zero
  FdLimit,     \* directories one process can hold open
  Tree,        \* the trees to walk
  MaxChanges   \* bound: renames and removals by others

Node == File \cup {Root}

\* What lies above the root, and no directory.
Above == "above"
None  == "none"

\* A tree: the directory of each file, which files are directories, which of
\* these, and of those above the root, may be read and searched, the length of
\* each name, and that of the root's path as it is given to the program.
TreeType == [parent : [Node -> Node \cup {Above, None}], dir : SUBSET Node,
             read : SUBSET Node, search : SUBSET (Node \cup {Above}),
             len : [File -> 1..NAME_MAX], rootLen : Nat]

ASSUME FtwAssumption ==
  /\ Root \notin File /\ {Above, None} \cap Node = {}
  /\ NAME_MAX \in Nat \ {0} /\ PATH_MAX \in Nat
  /\ FdLimit \in Nat /\ MaxChanges \in Nat
  /\ Tree \subseteq TreeType

\* Every file is in a directory, and none, by way of others, in itself.  The
\* root is in none if the path that is given leads nowhere.
ASSUME TreeAssumption ==
  /\ IsFiniteSet(File)
  /\ \A t \in Tree : /\ t.parent[Root] \in {Above, None}
                     /\ \A f \in File : t.parent[f] \in t.dir
                     /\ \A S \in SUBSET File : S # {} => \E f \in S : t.parent[f] \notin S

VARIABLES
  program,   \* "nochdir" or "chdir"
  tree,      \* the tree, as it was at the start
  parent,    \* where each file is now
  pc,        \* where myftw() or dopath() is
  stack,     \* the calls of dopath() with an open directory, and their locals
  path,      \* the names that fullpath spells
  strlen,    \* its length
  pathlen,   \* the length the program takes its buffer to have
  overrun,   \* history: a byte was written beyond that length
  cwd,       \* the working directory
  told,      \* what has been printed
  moved,     \* history: files that were renamed or removed
  changes    \* how many times others changed the tree

vars == <<program, tree, parent, pc, stack, path, strlen, pathlen, overrun,
          cwd, told, moved, changes>>

\* dirp's directory, the place n of the next name, entries not yet read.
Frame == [dir : Node, n : Nat, left : SUBSET File]

FtwInit ==
  /\ program \in {"nochdir", "chdir"}
  /\ tree \in Tree /\ parent = tree.parent
  /\ pc = "start" /\ stack = <<>>
  /\ path = <<>> /\ strlen = 0 /\ pathlen = 0 /\ overrun = FALSE
  /\ cwd = None /\ told = <<>>
  /\ moved = {} /\ changes = 0

Top == stack[Len(stack)]

-----------------------------------------------------------------------------
(* The file system.                                                        *)

Entries(d) == {f \in File : parent[f] = d}

\* Whether the path given to the program leads to the root, and whether
\* fullpath leads to the file it names.
RootFound == parent[Root] # None /\ Root \notin moved
Resolves ==
  \/ path = <<Root>> /\ RootFound /\ strlen < PATH_MAX
  \/ /\ program = "nochdir" /\ path # <<Root>> /\ RootFound /\ strlen < PATH_MAX
     /\ \A i \in 1..(Len(path) - 1) :
          path[i] \in tree.search /\ parent[path[i + 1]] = path[i]
  \/ /\ program = "chdir" /\ path # <<Root>>
     /\ cwd \in tree.search /\ parent[path[1]] = cwd

Target == path[Len(path)]

Up(d) == IF d \in Node THEN parent[d] ELSE Above

\* f and the directories it lies in, one in another.
Upwards(f) == {d \in Node : \A S \in SUBSET Node :
  f \in S /\ (\A g \in S : parent[g] \in Node => parent[g] \in S) => d \in S}

\* Another process renames f into directory d, keeping its name, or removes
\* it; the root is renamed without leaving the directory above it.  A directory
\* stream on d may or may not return the new entry.
Change ==
  /\ changes < MaxChanges /\ pc \notin {"done", "failed"}
  /\ changes' = changes + 1
  /\ \E f \in Node :
       /\ parent[f] # None /\ moved' = moved \cup {f}
       /\ \/ /\ Entries(f) = {} /\ parent' = [parent EXCEPT ![f] = None]
             /\ UNCHANGED stack
          \/ f = Root /\ UNCHANGED <<parent, stack>>
          \/ \E d \in tree.dir \ {parent[f]} :
               /\ f # Root /\ f \notin Upwards(d) /\ parent[d] # None
               /\ parent' = [parent EXCEPT ![f] = d]
               /\ \/ UNCHANGED stack
                  \/ \E i \in DOMAIN stack :
                       stack[i].dir = d /\ stack' = [stack EXCEPT ![i].left = @ \cup {f}]
  /\ UNCHANGED <<program, tree, pc, path, strlen, pathlen, overrun, cwd, told>>

-----------------------------------------------------------------------------
(* myftw() and dopath()                                                    *)

\* Bytes up to and including index i of fullpath are written.
Writes(i) == overrun' = (overrun \/ i >= pathlen')

\* The buffer of path_alloc() is shortened: pathlen is 0 before.  realloc() to
\* no bytes frees it and gives NULL.
MyFtw ==
  /\ pc = "start"
  /\ pathlen' = 2 * tree.rootLen
  /\ IF pathlen' = 0 THEN pc' = "failed" /\ UNCHANGED <<path, strlen, overrun>>
     ELSE /\ pc' = "stat"
          /\ path' = <<Root>> /\ strlen' = tree.rootLen
          /\ Writes(strlen')
  /\ UNCHANGED <<program, tree, parent, stack, cwd, told, moved, changes>>

Tell(type) == told' = Append(told, [name |-> Target, type |-> type, depth |-> Len(stack)])

\* Back to the loop of the directory above, if there is one.
Return(depth) == pc' = IF depth = 0 THEN "done" ELSE "read"

Stat ==
  /\ pc = "stat"
  /\ IF ~Resolves THEN Tell("FTW_NS") /\ Return(Len(stack))
     ELSE IF Target \notin tree.dir THEN Tell("FTW_F") /\ Return(Len(stack))
     ELSE Tell("FTW_D") /\ pc' = "grow"
  /\ UNCHANGED <<program, tree, parent, stack, path, strlen, pathlen, overrun,
                 cwd, moved, changes>>

\* A variant that leaves no place for the slash and the zero.
GrowTooLate ==
  /\ pc = "grow" /\ pc' = "open"
  /\ pathlen' = IF strlen + NAME_MAX > pathlen THEN 2 * pathlen ELSE pathlen
  /\ strlen' = strlen + 1 /\ Writes(strlen')
  /\ UNCHANGED <<program, tree, parent, stack, path, cwd, told, moved, changes>>

Grow ==
  /\ pc = "grow" /\ pc' = "open"
  /\ pathlen' = IF strlen + NAME_MAX + 2 > pathlen THEN 2 * pathlen ELSE pathlen
  /\ strlen' = strlen + 1 /\ Writes(strlen')
  /\ UNCHANGED <<program, tree, parent, stack, path, cwd, told, moved, changes>>

\* A variant in which what myfunc() returns for an unreadable directory ends
\* the walk.
OpenDirOrStop ==
  /\ pc = "open"
  /\ IF Resolves /\ Target \in tree.read /\ Len(stack) < FdLimit
     THEN /\ stack' = Append(stack, [dir |-> Target, n |-> strlen, left |-> Entries(Target)])
          /\ pc' = IF program = "chdir" THEN "chdir" ELSE "read"
          /\ UNCHANGED told
     ELSE Tell("FTW_DNR") /\ pc' = "done" /\ UNCHANGED stack
  /\ UNCHANGED <<program, tree, parent, path, strlen, pathlen, overrun, cwd,
                 moved, changes>>

OpenDir ==
  /\ pc = "open"
  /\ IF Resolves /\ Target \in tree.read /\ Len(stack) < FdLimit
     THEN /\ stack' = Append(stack, [dir |-> Target, n |-> strlen, left |-> Entries(Target)])
          /\ pc' = IF program = "chdir" THEN "chdir" ELSE "read"
          /\ UNCHANGED told
     ELSE Tell("FTW_DNR") /\ Return(Len(stack)) /\ UNCHANGED stack
  /\ UNCHANGED <<program, tree, parent, path, strlen, pathlen, overrun, cwd,
                 moved, changes>>

ChDir ==
  /\ pc = "chdir"
  /\ IF Resolves /\ Target \in tree.search
     THEN cwd' = Target /\ pc' = "read"
     ELSE pc' = "failed" /\ UNCHANGED cwd
  /\ UNCHANGED <<program, tree, parent, stack, path, strlen, pathlen, overrun,
                 told, moved, changes>>

\* The stream may still return an entry that has gone.
ReadDir ==
  /\ pc = "read" /\ pc' = "stat"
  /\ \E f \in Top.left :
       /\ stack' = [stack EXCEPT ![Len(stack)].left = @ \ {f}]
       /\ IF program = "nochdir"
          THEN /\ path' = Append(SubSeq(path, 1, Len(stack)), f)
               /\ strlen' = Top.n + tree.len[f]
          ELSE path' = <<f>> /\ strlen' = tree.len[f]
  /\ UNCHANGED pathlen /\ Writes(strlen')
  /\ UNCHANGED <<program, tree, parent, cwd, told, moved, changes>>

EndOfDir ==
  /\ pc = "read" /\ \A f \in Top.left : parent[f] # Top.dir
  /\ pc' = IF program = "chdir" THEN "up" ELSE "close"
  /\ UNCHANGED <<program, tree, parent, stack, path, strlen, pathlen, overrun,
                 cwd, told, moved, changes>>

\* A variant that does not go back up.
StayDown ==
  /\ pc = "up" /\ pc' = "close"
  /\ UNCHANGED <<program, tree, parent, stack, path, strlen, pathlen, overrun,
                 cwd, told, moved, changes>>

\* A variant that tries again when ".." cannot be entered.
GoUpOrRetry ==
  /\ pc = "up" /\ Up(cwd) \in tree.search
  /\ cwd' = Up(cwd) /\ pc' = "close"
  /\ UNCHANGED <<program, tree, parent, stack, path, strlen, pathlen, overrun,
                 told, moved, changes>>

\* A directory that was removed has no "..", and one that was moved, or the
\* root, may lie in a directory that cannot be searched.
ChDirUp ==
  /\ pc = "up"
  /\ IF Up(cwd) \in tree.search THEN cwd' = Up(cwd) /\ pc' = "close"
                                ELSE pc' = "failed" /\ UNCHANGED cwd
  /\ UNCHANGED <<program, tree, parent, stack, path, strlen, pathlen, overrun,
                 told, moved, changes>>

CloseDir ==
  /\ pc = "close"
  /\ stack' = SubSeq(stack, 1, Len(stack) - 1)
  /\ Return(Len(stack) - 1)
  /\ strlen' = IF program = "nochdir" THEN Top.n - 1 ELSE strlen
  /\ path' = IF program = "nochdir" THEN SubSeq(path, 1, Len(stack)) ELSE path
  /\ UNCHANGED <<program, tree, parent, pathlen, overrun, cwd, told, moved, changes>>

\* What follows a write beyond the buffer is undefined: here it does no harm,
\* or ends the process.
Abort == /\ overrun /\ pc \notin {"done", "failed"} /\ pc' = "failed"
         /\ UNCHANGED <<program, tree, parent, stack, path, strlen, pathlen,
                        overrun, cwd, told, moved, changes>>

Walk == MyFtw \/ Stat \/ Grow \/ OpenDir \/ ChDir \/ ReadDir \/ EndOfDir
          \/ ChDirUp \/ CloseDir

Next == Walk \/ Abort \/ Change

FtwSpec == FtwInit /\ [][Next]_vars

\* The process keeps running; nothing forces others to change the tree.
FairSpec == FtwSpec /\ WF_vars(Walk)

-----------------------------------------------------------------------------
(* Properties.                                                             *)

FtwTypeOK ==
  /\ program \in {"nochdir", "chdir"} /\ tree \in Tree
  /\ parent \in [Node -> Node \cup {Above, None}]
  /\ pc \in {"start", "stat", "grow", "open", "chdir", "read", "up", "close",
             "done", "failed"}
  /\ stack \in Seq(Frame) /\ path \in Seq(Node)
  /\ strlen \in Nat /\ pathlen \in Nat /\ overrun \in BOOLEAN
  /\ cwd \in Node \cup {Above, None}
  /\ told \in Seq([name : Node, type : {"FTW_F", "FTW_D", "FTW_DNR", "FTW_NS"},
                   depth : Nat])
  /\ moved \subseteq Node /\ changes \in 0..MaxChanges

\* The buffer is doubled at most once for each directory, and starts with
\* twice the length of the root's path.  That is enough, at every depth, for a
\* root whose path is not shorter than a third of a name's greatest length.
BufferSuffices == 3 * tree.rootLen >= NAME_MAX + 2 => ~overrun

\* Why it is: each directory on the stack has left room for any name.
RoomForNames == 3 * tree.rootLen >= NAME_MAX + 2 =>
  /\ pc # "start" => strlen < pathlen
  /\ stack # <<>> => pathlen >= NAME_MAX + 2
  /\ \A i \in DOMAIN stack : stack[i].n + NAME_MAX < pathlen
  /\ pc = "open" => strlen + NAME_MAX < pathlen

\* ... and fullpath spells the directories on the stack, in nochdir.c, with at
\* most one name below them.
PathFollowsStack ==
  /\ pc = "start" => stack = <<>> /\ ~overrun
  /\ pc \in {"chdir", "up"} => program = "chdir"
  /\ pc \in {"chdir", "read", "up", "close"} => stack # <<>>
  /\ pc \notin {"start", "failed"} => path # <<>>
  /\ program = "nochdir" =>
       /\ pc \in {"stat", "grow", "open"} => Len(path) = Len(stack) + 1
       /\ pc \in {"read", "close"} => Len(path) \in {Len(stack), Len(stack) + 1}
  /\ pc \in {"stat", "grow"} /\ stack = <<>> =>
       strlen = tree.rootLen /\ pathlen = 2 * tree.rootLen
  /\ pc = "open" => strlen > 0
  /\ \A i \in DOMAIN stack : stack[i].n > 0

BufferInv == FtwTypeOK /\ PathFollowsStack /\ RoomForNames /\ BufferSuffices

\* The directories on the stack lead down from the root.  The path spells them,
\* in nochdir.c, and then one of their entries; that entry, in chdir.c.
Looking == {"stat", "grow", "open"}
StackSpelled ==
  /\ stack # <<>> => stack[1].dir = Root
  /\ pc \in Looking /\ stack = <<>> => path = <<Root>>
  /\ program = "nochdir" /\ pc \in Looking \cup {"read", "close"} =>
       \A i \in DOMAIN stack : path[i] = stack[i].dir
  /\ program = "chdir" /\ pc \in Looking /\ stack # <<>> => \E f \in File : path = <<f>>
  /\ pc = "chdir" => Target = Top.dir

\* Each was found to be a directory, and those above the last to be searchable.
StackOpened ==
  /\ pc \in {"grow", "open"} => Target \in tree.dir
  /\ \A i \in DOMAIN stack :
       /\ stack[i].dir \in tree.dir
       /\ i < Len(stack) => stack[i].dir \in tree.search
  /\ program = "chdir" /\ pc \notin {"chdir", "failed"} /\ stack # <<>> =>
       Top.dir \in tree.search

\* A file that nobody has moved is where it was when its directory was read.
UnmovedInPlace ==
  /\ \A i \in DOMAIN stack :
       /\ \A f \in stack[i].left \ moved : parent[f] = stack[i].dir
       /\ i > 1 /\ stack[i].dir \notin moved => parent[stack[i].dir] = stack[i - 1].dir
  /\ stack # <<>> /\ Root \notin moved => parent[Root] # None
  /\ pc \in Looking /\ stack # <<>> /\ Target \notin moved => parent[Target] = Top.dir

\* chdir.c works in the directory it reads, unless a directory has been moved.
WorksInTop == program = "chdir" /\ moved \cap tree.dir = {} /\ stack # <<>> =>
  /\ pc \in Looking \cup {"read", "up"} => cwd = Top.dir
  /\ pc \in {"chdir", "close"} /\ Len(stack) > 1 => cwd = stack[Len(stack) - 1].dir

PathInv == /\ BufferInv
           /\ StackSpelled /\ StackOpened /\ UnmovedInPlace /\ WorksInTop

\* The entry that readdir() returned is the file that lstat() looks up next,
\* by its path or in the working directory, unless it has been renamed
\* itself, or a directory has.
EntryFound ==
  pc = "stat" /\ stack # <<>> /\ moved \cap (tree.dir \cup {Target}) = {}
    => /\ parent[Target] = Top.dir
       /\ Resolves \/ (program = "nochdir" /\ (Top.dir \notin tree.search
                                                \/ strlen >= PATH_MAX))

\* What should be printed of a tree that nobody changes, said without walking:
\* which files lie below directories that can be opened, and how each is found.
\* The bytes of a path are, after the root's, a slash and the name for each file.
Ancestors(f) == Upwards(f) \ {f}
Bytes(f)  == UNION {{g} \X (0..tree.len[g]) : g \in Upwards(f) \ {Root}}
Length(f) == tree.rootLen + Cardinality(Bytes(f))
ByPath(f) == program = "nochdir" \/ f = Root
Found(f) == /\ f = Root => parent[Root] # None
            /\ ByPath(f) => Ancestors(f) \subseteq tree.search /\ Length(f) < PATH_MAX
Openable(d) ==
  /\ Found(d) /\ d \in tree.read /\ Cardinality(Ancestors(d)) < FdLimit
  /\ ByPath(d) => Length(d) + 1 < PATH_MAX
TypesOf(f) == IF ~Found(f) THEN {"FTW_NS"} ELSE IF f \notin tree.dir THEN {"FTW_F"}
              ELSE IF Openable(f) THEN {"FTW_D"} ELSE {"FTW_D", "FTW_DNR"}
Entry(f, t) == [name |-> f, type |-> t, depth |-> Cardinality(Ancestors(f))]
Reached == {f \in Node : \A d \in Ancestors(f) : Openable(d)}
Listing == UNION {{Entry(f, t) : t \in TypesOf(f)} : f \in Reached}

\* A walk that comes to its end in a tree that nobody changed has told each
\* file it could reach, once, with the right type and depth; files that cannot
\* be looked up or opened do not keep it from the others.
CompleteWalk == pc = "done" /\ changes = 0 /\ ~overrun =>
  /\ {told[i] : i \in DOMAIN told} = Listing
  /\ Len(told) = Cardinality(Listing)

\* How it comes to that: the open directories are those above the file that is
\* looked at, which nochdir.c's path leads through, ...
Open == {stack[i].dir : i \in DOMAIN stack}
OpenAbove == changes = 0 =>
  /\ parent = tree.parent /\ moved = {}
  /\ \A i, j \in DOMAIN stack : stack[i].dir = stack[j].dir => i = j
  /\ \A i \in DOMAIN stack :
       /\ Upwards(stack[i].dir) = {stack[j].dir : j \in 1..i}
       /\ Openable(stack[i].dir)
       /\ program = "nochdir" => stack[i].n = Length(stack[i].dir) + 1
  /\ pc \in Looking => Upwards(Target) = Open \cup {Target}
  /\ pc \in Looking /\ ByPath(Target) =>
       strlen = Length(Target) + (IF pc = "open" THEN 1 ELSE 0)

\* ... what has been told is in the listing, nothing twice, and the directory of
\* a file before the file, ...
IsTold(f) == \E i \in DOMAIN told : told[i].name = f
ToldInTurn == changes = 0 =>
  /\ pc = "start" => told = <<>>
  /\ \A i \in DOMAIN told : told[i] \in Listing
  /\ \A i, j \in DOMAIN told : told[i] = told[j] => i = j
  /\ \A f \in File : IsTold(f) => IsTold(parent[f])
  /\ \A i \in DOMAIN stack :
       /\ IsTold(stack[i].dir)
       /\ \A f \in stack[i].left : parent[f] = stack[i].dir /\ ~IsTold(f)
  /\ pc = "stat" => ~IsTold(Target) /\ \A i \in DOMAIN stack : Target \notin stack[i].left
  /\ pc \in {"grow", "open"} =>
       /\ Found(Target) /\ \A f \in File : parent[f] = Target => ~IsTold(f)
       /\ \A i \in DOMAIN told : told[i].name = Target => told[i].type = "FTW_D"

\* ... and only what the walk has before it has not been told yet.
Before == {f \in Node : \/ pc = "stat" /\ f = Target
                       \/ \E i \in DOMAIN stack : f \in stack[i].left}
NothingPassedOver == changes = 0 /\ pc \notin {"start", "failed"} =>
  /\ IsTold(Root) \/ Root \in Before
  /\ pc \in {"grow", "open"} => Entry(Target, "FTW_D") \in {told[i] : i \in DOMAIN told}
  /\ \A d \in Node : IsTold(d) /\ ~(pc \in {"grow", "open"} /\ d = Target) =>
       /\ \A t \in TypesOf(d) : Entry(d, t) \in {told[i] : i \in DOMAIN told}
       /\ Openable(d) => \A f \in File : parent[f] = d => IsTold(f) \/ f \in Before
  /\ pc \in {"up", "close"} => Top.left = {}
  /\ pc = "done" => stack = <<>>

WalkInv == OpenAbove /\ ToldInTurn /\ NothingPassedOver

FtwInv == PathInv /\ WalkInv

\* The walk ends.  It gives up only for an empty path, because of a write
\* beyond the buffer, and, in chdir.c, for a directory that may be read but not
\* searched, for a root below one that may not be searched, or when a directory
\* was moved or removed under it.
EndsWell == <>( \/ pc = "done"
                \/ /\ pc = "failed"
                   /\ \/ tree.rootLen = 0 \/ overrun
                      \/ /\ program = "chdir"
                         /\ \/ ~(tree.dir \cap tree.read \subseteq tree.search)
                            \/ Above \notin tree.search
                            \/ moved \cap tree.dir # {} )
=============================================================================
