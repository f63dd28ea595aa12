-------------------------- MODULE FileSystemProofs --------------------------
(***************************************************************************)
(* Theorems about Ftw and Vfs.                                             *)
(*                                                                         *)
(* Ftw, for every tree, every NAME_MAX and whatever others do to the tree  *)
(* meanwhile: neither walk writes beyond its path buffer (BufferInv), and  *)
(* what a walk looks up is the entry it has read (PathInv).  Of a tree     *)
(* that nobody changes, it tells each file it can reach, once (FtwInv).    *)
(*                                                                         *)
(* Vfs, for every number of objects, every finite set of mounting          *)
(* processes, and any number of failing calls: VfsInv is an invariant, and *)
(* a mounted file system stays loaded.                                     *)
(***************************************************************************)
EXTENDS Ftw, Vfs, FiniteSetTheorems, SequenceTheorems, TLAPS

-----------------------------------------------------------------------------
(* Ftw: what the walks keep.                                               *)


\* What is printed.
Told == [name : Node, type : {"FTW_F", "FTW_D", "FTW_DNR", "FTW_NS"}, depth : Nat]

LEMMA TreeTyped ==
  ASSUME FtwTypeOK
  PROVE  /\ tree.dir \subseteq Node /\ tree.rootLen \in Nat
         /\ tree.len \in [File -> 1..NAME_MAX]
         /\ tree.parent \in [Node -> Node \cup {Above, None}]
         /\ NAME_MAX \in Nat \ {0}
BY FtwAssumption DEF FtwTypeOK, TreeType

\* What a call of dopath() keeps of its directory.
LEMMA FrameTyped ==
  ASSUME NEW s \in Seq(Frame), NEW i \in DOMAIN s
  PROVE  s[i] \in Frame /\ s[i].n \in Nat /\ s[i].left \subseteq File /\ s[i].dir \in Node
<1>1. s[i] \in Frame
  OBVIOUS
<1> QED BY <1>1 DEF Frame

\* Entries come and go without disturbing the rest.
LEMMA EntriesChange ==
  ASSUME NEW x \in Frame, NEW E \in SUBSET File
  PROVE  LET y == [x EXCEPT !.left = E] IN y \in Frame /\ y.n = x.n
BY DEF Frame

LEMMA FrameChange ==
  ASSUME NEW s \in Seq(Frame), NEW i \in DOMAIN s, NEW y \in Frame, y.n = s[i].n
  PROVE  LET t == [s EXCEPT ![i] = y]
         IN  /\ t \in Seq(Frame) /\ Len(t) = Len(s) /\ DOMAIN t = DOMAIN s
             /\ \A j \in DOMAIN s : t[j].n = s[j].n
OBVIOUS

\* An answer of the kernel about fullpath is about some file.
LEMMA TargetIsNode == ASSUME path \in Seq(Node), path # <<>>
                      PROVE  Target \in Node
BY DEF Target

LEMMA TellTyped ==
  ASSUME FtwTypeOK, path # <<>>, Tell("FTW_F") \/ Tell("FTW_D") \/ Tell("FTW_DNR") \/ Tell("FTW_NS")
  PROVE  told' \in Seq(Told)
<1>1. Target \in Node /\ Len(stack) \in Nat /\ told \in Seq(Told)
  BY TargetIsNode DEF FtwTypeOK, Told
<1>2. \A type \in {"FTW_F", "FTW_D", "FTW_DNR", "FTW_NS"} :
        [name |-> Target, type |-> type, depth |-> Len(stack)] \in Told
  BY <1>1 DEF Told
<1>3. PICK x \in Told : told' = Append(told, x)
  BY <1>2 DEF Tell
<1> QED BY <1>1, <1>3

LEMMA InitEstablishesFtw == FtwInit => BufferInv
<1> SUFFICES ASSUME FtwInit PROVE BufferInv
  OBVIOUS
<1>1. tree.parent \in [Node -> Node \cup {Above, None}]
  BY FtwAssumption DEF FtwInit, TreeType
<1>2. <<>> \in Seq(Node) /\ <<>> \in Seq(Frame) /\ <<>> \in Seq(Told)
  OBVIOUS
<1>3. FtwTypeOK
  <2>1. /\ program \in {"nochdir", "chdir"} /\ tree \in Tree /\ pc = "start"
        /\ strlen \in Nat /\ pathlen \in Nat /\ overrun \in BOOLEAN
        /\ moved \subseteq Node /\ changes \in 0..MaxChanges /\ cwd = None
    <3>1. changes = 0 /\ MaxChanges \in Nat
      BY FtwAssumption DEF FtwInit
    <3>2. changes \in 0..MaxChanges
      BY <3>1
    <3> QED BY <3>2 DEF FtwInit
  <2>2. stack \in Seq(Frame) /\ path \in Seq(Node) /\ told \in Seq(Told)
    BY <1>2 DEF FtwInit
  <2>3. parent \in [Node -> Node \cup {Above, None}]
    BY <1>1 DEF FtwInit
  <2> QED BY <2>1, <2>2, <2>3 DEF FtwTypeOK, Told
<1>4. PathFollowsStack
  BY DEF FtwInit, PathFollowsStack
<1>5. RoomForNames /\ BufferSuffices
  BY DEF FtwInit, RoomForNames, BufferSuffices
<1> QED BY <1>3, <1>4, <1>5 DEF BufferInv

-----------------------------------------------------------------------------
(* Steps that leave the path, the stack and the buffer alone.              *)

LEMMA LookingPreserves ==
  ASSUME BufferInv, Stat \/ ChDir \/ EndOfDir \/ ChDirUp \/ Abort
  PROVE  BufferInv'
<1>1. FtwTypeOK /\ PathFollowsStack /\ RoomForNames /\ BufferSuffices
  BY DEF BufferInv
<1>2. UNCHANGED <<program, tree, parent, stack, path, strlen, pathlen, overrun, moved, changes>>
  BY DEF Stat, ChDir, EndOfDir, ChDirUp, Abort
<1>3. Len(stack) # 0 => stack # <<>>
  OBVIOUS
<1>4. /\ pc \notin {"start", "failed"} /\ pc' \in {"read", "grow", "up", "close", "done", "failed"}
      /\ pc' \in {"read", "up", "close"} => stack # <<>>
      /\ pc' = "grow" => pc = "stat"
      /\ pc' = "up" => program = "chdir"
      /\ program = "nochdir" /\ pc' \in {"read", "close"} => pc \in {"stat", "read"}
  <2>1. CASE Stat
    BY <1>1, <1>3, <2>1 DEF Stat, Return, PathFollowsStack
  <2>2. CASE ChDir
    BY <1>1, <2>2 DEF ChDir, PathFollowsStack
  <2>3. CASE EndOfDir
    BY <1>1, <2>3 DEF EndOfDir, PathFollowsStack
  <2>4. CASE ChDirUp
    BY <1>1, <2>4 DEF ChDirUp, PathFollowsStack
  <2>5. CASE Abort
    BY <1>1, <2>5 DEF Abort, PathFollowsStack
  <2> QED BY <2>1, <2>2, <2>3, <2>4, <2>5
<1>5. told' \in Seq(Told)
  <2>1. UNCHANGED told \/ (path # <<>> /\ (Tell("FTW_F") \/ Tell("FTW_D") \/ Tell("FTW_NS")))
    BY <1>1, <1>4 DEF Stat, ChDir, EndOfDir, ChDirUp, Abort, PathFollowsStack
  <2> QED BY <1>1, <2>1, TellTyped DEF FtwTypeOK, Told
<1>6. cwd' \in Node \cup {Above, None}
  <2>1. Up(cwd) \in Node \cup {Above, None}
    BY <1>1 DEF Up, FtwTypeOK
  <2>2. ChDir => Target \in Node
    BY <1>1, <1>4, TargetIsNode DEF PathFollowsStack, FtwTypeOK
  <2> QED BY <1>1, <2>1, <2>2 DEF Stat, ChDir, EndOfDir, ChDirUp, Abort, FtwTypeOK
<1>7. FtwTypeOK'
  BY <1>1, <1>2, <1>4, <1>5, <1>6 DEF FtwTypeOK, Told
<1>8. PathFollowsStack'
  BY <1>1, <1>2, <1>4 DEF PathFollowsStack
<1>9. RoomForNames' /\ BufferSuffices'
  BY <1>1, <1>2, <1>4 DEF RoomForNames, BufferSuffices
<1> QED BY <1>7, <1>8, <1>9 DEF BufferInv
-----------------------------------------------------------------------------
(* Steps that write to the path.                                           *)

LEMMA MyFtwPreserves == ASSUME BufferInv, MyFtw
                        PROVE  BufferInv'
<1>1. FtwTypeOK /\ PathFollowsStack
  BY DEF BufferInv
<1>2. /\ pc = "start" /\ pathlen' = 2 * tree.rootLen /\ tree.rootLen \in Nat
      /\ UNCHANGED <<program, tree, parent, stack, cwd, told, moved, changes>>
      /\ stack = <<>> /\ ~overrun /\ NAME_MAX \in Nat \ {0}
  BY <1>1, TreeTyped DEF MyFtw, PathFollowsStack
<1>3. CASE pathlen' = 0
  <2>1. pc' = "failed" /\ UNCHANGED <<path, strlen, overrun>>
    BY <1>3 DEF MyFtw
  <2>2. tree.rootLen = 0
    BY <1>2, <1>3
  <2>3. FtwTypeOK'
    BY <1>1, <1>2, <1>3, <2>1 DEF FtwTypeOK
  <2>4. PathFollowsStack'
    BY <1>2, <2>1 DEF PathFollowsStack
  <2>5. RoomForNames' /\ BufferSuffices'
    BY <1>2, <2>1, <2>2 DEF RoomForNames, BufferSuffices
  <2> QED BY <2>3, <2>4, <2>5 DEF BufferInv
<1>4. CASE pathlen' # 0
  <2>1. /\ pc' = "stat" /\ path' = <<Root>> /\ strlen' = tree.rootLen
        /\ overrun' = (overrun \/ strlen' >= pathlen')
    BY <1>4 DEF MyFtw, Writes
  <2>2. strlen' < pathlen' /\ ~overrun'
    <3>1. strlen' < pathlen' /\ ~(strlen' >= pathlen')
      <4>1. tree.rootLen > 0
        BY <1>2, <1>4
      <4> QED BY <1>2, <2>1, <4>1
    <3> QED BY <1>2, <2>1, <3>1
  <2>3. path' \in Seq(Node) /\ Len(path') = 1 /\ Len(stack) = 0 /\ path' # <<>>
    BY <1>2, <2>1 DEF Node
  <2>4. FtwTypeOK'
    BY <1>1, <1>2, <2>1, <2>2, <2>3 DEF FtwTypeOK
  <2>5. PathFollowsStack'
    BY <1>2, <2>1, <2>3 DEF PathFollowsStack
  <2>6. RoomForNames' /\ BufferSuffices'
    BY <1>2, <2>1, <2>2 DEF RoomForNames, BufferSuffices
  <2> QED BY <2>4, <2>5, <2>6 DEF BufferInv
<1> QED BY <1>3, <1>4

\* The root has room for one more name because of its length, every other
\* directory because of the room in the one above.
LEMMA GrowPreserves == ASSUME BufferInv, Grow
                       PROVE  BufferInv'
<1>1. FtwTypeOK /\ PathFollowsStack /\ RoomForNames /\ BufferSuffices
  BY DEF BufferInv
<1>2. /\ pc = "grow" /\ pc' = "open" /\ strlen' = strlen + 1
      /\ pathlen' = IF strlen + NAME_MAX + 2 > pathlen THEN 2 * pathlen ELSE pathlen
      /\ overrun' = (overrun \/ strlen' >= pathlen')
      /\ UNCHANGED <<program, tree, parent, stack, path, cwd, told, moved, changes>>
  BY DEF Grow, Writes
<1>3. strlen \in Nat /\ pathlen \in Nat /\ NAME_MAX \in Nat \ {0} /\ tree.rootLen \in Nat
  BY <1>1, TreeTyped DEF FtwTypeOK
<1>4. pathlen' \in Nat /\ pathlen' >= pathlen /\ strlen' \in Nat /\ strlen' > 0
  BY <1>2, <1>3
<1>5. FtwTypeOK'
  BY <1>1, <1>2, <1>4 DEF FtwTypeOK
<1>6. PathFollowsStack'
  BY <1>1, <1>2, <1>4 DEF PathFollowsStack
<1>7. ASSUME 3 * tree.rootLen >= NAME_MAX + 2
      PROVE  strlen' + NAME_MAX < pathlen'
  <2>1. strlen < pathlen
    BY <1>1, <1>2, <1>7 DEF RoomForNames
  <2>2. CASE stack # <<>>
    <3>1. pathlen >= NAME_MAX + 2
      BY <1>1, <1>7, <2>2 DEF RoomForNames
    <3> QED BY <1>2, <1>3, <2>1, <3>1
  <2>3. CASE stack = <<>>
    <3>1. strlen = tree.rootLen /\ pathlen = 2 * tree.rootLen
      BY <1>1, <1>2, <2>3 DEF PathFollowsStack
    <3> QED BY <1>2, <1>3, <1>7, <3>1
  <2> QED BY <2>2, <2>3
<1>8. RoomForNames' /\ BufferSuffices'
  <2>1. \A i \in DOMAIN stack : stack[i].n \in Nat
    BY <1>1, FrameTyped DEF FtwTypeOK
  <2>2. ASSUME 3 * tree.rootLen >= NAME_MAX + 2
        PROVE  strlen' < pathlen' /\ ~overrun'
    <3>1. strlen' < pathlen' /\ ~(strlen' >= pathlen')
      <4>1. strlen' \in Nat /\ pathlen' \in Nat /\ NAME_MAX \in Nat
        BY <1>3, <1>4
      <4>2. strlen' + NAME_MAX < pathlen'
        BY <1>7, <2>2
      <4>3. \A a, b, m \in Nat : a + m < b => a < b
        OBVIOUS
      <4>4. strlen' < pathlen'
        BY <4>1, <4>2, <4>3
      <4> QED BY <4>1, <4>4
    <3>2. ~overrun
      BY <1>1, <2>2 DEF BufferSuffices
    <3> QED BY <1>2, <3>1, <3>2
  <2>3. ASSUME 3 * tree.rootLen >= NAME_MAX + 2
        PROVE  /\ stack # <<>> => pathlen' >= NAME_MAX + 2
               /\ \A i \in DOMAIN stack : stack[i].n + NAME_MAX < pathlen'
    BY <1>1, <1>3, <1>4, <2>1, <2>3 DEF RoomForNames
  <2> QED BY <1>2, <1>7, <2>2, <2>3 DEF RoomForNames, BufferSuffices
<1> QED BY <1>5, <1>6, <1>8 DEF BufferInv

LEMMA ReadDirPreserves == ASSUME BufferInv, ReadDir
                          PROVE  BufferInv'
<1>1. FtwTypeOK /\ PathFollowsStack /\ RoomForNames /\ BufferSuffices
  BY DEF BufferInv
<1>2. PICK f \in Top.left :
        /\ stack' = [stack EXCEPT ![Len(stack)].left = @ \ {f}]
        /\ IF program = "nochdir"
           THEN /\ path' = Append(SubSeq(path, 1, Len(stack)), f)
                /\ strlen' = Top.n + tree.len[f]
           ELSE path' = <<f>> /\ strlen' = tree.len[f]
  BY DEF ReadDir
<1>3. /\ pc = "read" /\ pc' = "stat" /\ stack # <<>>
      /\ overrun' = (overrun \/ strlen' >= pathlen')
      /\ UNCHANGED <<program, tree, parent, pathlen, cwd, told, moved, changes>>
  BY <1>1 DEF ReadDir, Writes, PathFollowsStack
<1>4. stack \in Seq(Frame) /\ path \in Seq(Node) /\ pathlen \in Nat
  BY <1>1 DEF FtwTypeOK
<1>5. Len(stack) \in DOMAIN stack
  BY <1>3, <1>4
<1>6. Top.n \in Nat /\ Top.left \subseteq File
  BY <1>4, <1>5, FrameTyped DEF Top
<1>7. f \in File /\ f \in Node
  BY <1>6 DEF Node
<1>8. NAME_MAX \in Nat /\ tree.len[f] \in 1..NAME_MAX
  BY <1>1, <1>7, TreeTyped
<1>9. /\ stack' \in Seq(Frame) /\ Len(stack') = Len(stack) /\ DOMAIN stack' = DOMAIN stack
      /\ \A j \in DOMAIN stack : stack'[j].n = stack[j].n
  <2>1. stack' = [stack EXCEPT ![Len(stack)].left = Top.left \ {f}]
    BY <1>2 DEF Top
  <2>2. Top.left \ {f} \in SUBSET File
    BY <1>6
  <2> DEFINE y == [Top EXCEPT !.left = Top.left \ {f}]
  <2>3. Top \in Frame
    BY <1>4, <1>5, FrameTyped DEF Top
  <2>4. y \in Frame /\ y.n = stack[Len(stack)].n
    BY <2>2, <2>3, EntriesChange DEF Top
  <2>5. stack' = [stack EXCEPT ![Len(stack)] = y]
    BY <2>1 DEF Top
  <2> HIDE DEF y
  <2> QED BY <1>4, <1>5, <2>4, <2>5, FrameChange
<1>10. stack' # <<>>
  BY <1>3, <1>4, <1>9
<1>11. /\ path' \in Seq(Node) /\ path' # <<>> /\ strlen' \in Nat
       /\ program = "nochdir" => Len(path') = Len(stack) + 1
  <2>1. CASE program = "nochdir"
    <3>1. Len(path) \in {Len(stack), Len(stack) + 1}
      BY <1>1, <1>3, <2>1 DEF PathFollowsStack
    <3>2. SubSeq(path, 1, Len(stack)) \in Seq(Node) /\ Len(SubSeq(path, 1, Len(stack))) = Len(stack)
      BY <1>4, <3>1
    <3>3. path' \in Seq(Node) /\ Len(path') = Len(stack) + 1
      <4>1. path' = Append(SubSeq(path, 1, Len(stack)), f)
        BY <1>2, <2>1
      <4> QED BY <1>4, <1>7, <3>2, <4>1
    <3>4. path' # <<>>
      BY <1>4, <3>3
    <3> QED BY <1>2, <1>6, <1>8, <2>1, <3>3, <3>4
  <2>2. CASE program # "nochdir"
    <3>1. path' = <<f>> /\ strlen' = tree.len[f]
      BY <1>2, <2>2
    <3>2. path' \in Seq(Node) /\ path' # <<>>
      BY <1>7, <3>1
    <3> QED BY <1>8, <2>2, <3>1, <3>2
  <2> QED BY <2>1, <2>2
<1>12. FtwTypeOK'
  <2>1. overrun' \in BOOLEAN
    BY <1>3
  <2> QED BY <1>1, <1>3, <1>9, <1>11, <2>1, SMTT(30) DEF FtwTypeOK
<1>13. PathFollowsStack'
  BY <1>1, <1>3, <1>9, <1>10, <1>11 DEF PathFollowsStack
<1>14. ASSUME 3 * tree.rootLen >= NAME_MAX + 2
       PROVE  strlen' < pathlen' /\ ~overrun'
  <2>1. pathlen >= NAME_MAX + 2 /\ Top.n + NAME_MAX < pathlen /\ ~overrun
    BY <1>1, <1>3, <1>5, <1>14 DEF RoomForNames, BufferSuffices, Top
  <2>2. strlen' < pathlen' /\ ~(strlen' >= pathlen')
    BY <1>2, <1>3, <1>4, <1>6, <1>8, <2>1
  <2> QED BY <1>3, <2>1, <2>2
<1>15. RoomForNames' /\ BufferSuffices'
  BY <1>1, <1>3, <1>9, <1>14 DEF RoomForNames, BufferSuffices
<1> QED BY <1>12, <1>13, <1>15 DEF BufferInv

-----------------------------------------------------------------------------
(* Opening and closing a directory.                                        *)

LEMMA OpenDirPreserves == ASSUME BufferInv, OpenDir
                          PROVE  BufferInv'
<1>1. FtwTypeOK /\ PathFollowsStack /\ RoomForNames /\ BufferSuffices
  BY DEF BufferInv
<1>2. /\ pc = "open" /\ path # <<>> /\ strlen > 0
      /\ UNCHANGED <<program, tree, parent, path, strlen, pathlen, overrun, cwd, moved, changes>>
  BY <1>1 DEF OpenDir, PathFollowsStack
<1>3. stack \in Seq(Frame) /\ strlen \in Nat /\ pathlen \in Nat /\ NAME_MAX \in Nat
  BY <1>1, TreeTyped DEF FtwTypeOK
<1>4. CASE Tell("FTW_DNR") /\ Return(Len(stack)) /\ UNCHANGED stack
  <2>1. told' \in Seq(Told)
    BY <1>1, <1>2, <1>4, TellTyped
  <2>2. pc' \in {"done", "read"} /\ (pc' = "read" => stack # <<>>)
    BY <1>3, <1>4 DEF Return
  <2>3. FtwTypeOK'
    BY <1>1, <1>2, <1>4, <2>1, <2>2 DEF FtwTypeOK, Told
  <2>4. PathFollowsStack'
    BY <1>1, <1>2, <1>4, <2>2 DEF PathFollowsStack
  <2>5. RoomForNames' /\ BufferSuffices'
    BY <1>1, <1>2, <1>4, <2>2 DEF RoomForNames, BufferSuffices
  <2> QED BY <2>3, <2>4, <2>5 DEF BufferInv
<1>5. CASE /\ stack' = Append(stack, [dir |-> Target, n |-> strlen, left |-> Entries(Target)])
           /\ pc' = (IF program = "chdir" THEN "chdir" ELSE "read")
           /\ UNCHANGED told
  <2> DEFINE e == [dir |-> Target, n |-> strlen, left |-> Entries(Target)]
  <2>1. e \in Frame /\ e.n = strlen
    BY <1>1, <1>2, <1>3, TargetIsNode DEF FtwTypeOK, Frame, Entries
  <2> HIDE DEF e
  <2>2. stack' = Append(stack, e)
    BY <1>5 DEF e
  <2>3. /\ stack' \in Seq(Frame) /\ Len(stack') = Len(stack) + 1
        /\ \A i \in DOMAIN stack' : (i \in DOMAIN stack /\ stack'[i] = stack[i])
                                      \/ stack'[i] = e
    BY <1>3, <2>1, <2>2
  <2>4. stack' # <<>> /\ Len(stack) \in Nat
    BY <1>3, <2>3
  <2>5. \A i \in DOMAIN stack' : stack'[i].n > 0
    BY <1>1, <1>2, <2>1, <2>3 DEF PathFollowsStack
  <2>6. pc' \in {"chdir", "read"} /\ (pc' = "chdir" <=> program = "chdir")
    BY <1>5
  <2>7. FtwTypeOK'
    BY <1>1, <1>2, <1>5, <2>3, <2>6 DEF FtwTypeOK
  <2>8. PathFollowsStack'
    BY <1>1, <1>2, <2>3, <2>4, <2>5, <2>6 DEF PathFollowsStack
  <2>9. ASSUME 3 * tree.rootLen >= NAME_MAX + 2
        PROVE  /\ strlen < pathlen /\ pathlen >= NAME_MAX + 2 /\ ~overrun
               /\ \A i \in DOMAIN stack' : stack'[i].n + NAME_MAX < pathlen
    <3>1. /\ strlen < pathlen /\ strlen + NAME_MAX < pathlen /\ ~overrun
          /\ \A i \in DOMAIN stack : stack[i].n + NAME_MAX < pathlen
      BY <1>1, <1>2, <2>9 DEF RoomForNames, BufferSuffices
    <3>2. pathlen >= NAME_MAX + 2
      BY <1>2, <1>3, <3>1
    <3> QED BY <2>1, <2>3, <3>1, <3>2
  <2>10. RoomForNames' /\ BufferSuffices'
    BY <1>2, <2>6, <2>9 DEF RoomForNames, BufferSuffices
  <2> QED BY <2>7, <2>8, <2>10 DEF BufferInv
<1> QED BY <1>4, <1>5 DEF OpenDir

LEMMA CloseDirPreserves == ASSUME BufferInv, CloseDir
                           PROVE  BufferInv'
<1>1. FtwTypeOK /\ PathFollowsStack /\ RoomForNames /\ BufferSuffices
  BY DEF BufferInv
<1>2. /\ pc = "close" /\ stack # <<>> /\ path # <<>>
      /\ stack' = SubSeq(stack, 1, Len(stack) - 1)
      /\ pc' = (IF Len(stack) - 1 = 0 THEN "done" ELSE "read")
      /\ strlen' = (IF program = "nochdir" THEN Top.n - 1 ELSE strlen)
      /\ path' = (IF program = "nochdir" THEN SubSeq(path, 1, Len(stack)) ELSE path)
      /\ UNCHANGED <<program, tree, parent, pathlen, overrun, cwd, told, moved, changes>>
  BY <1>1 DEF CloseDir, Return, PathFollowsStack
<1>3. stack \in Seq(Frame) /\ path \in Seq(Node) /\ pathlen \in Nat /\ strlen \in Nat
  BY <1>1 DEF FtwTypeOK
<1>4. Len(stack) \in DOMAIN stack /\ Len(stack) > 0
  BY <1>2, <1>3
<1>5. Top.n \in Nat /\ Top.n > 0
  BY <1>1, <1>3, <1>4, FrameTyped DEF Top, PathFollowsStack
<1>6. /\ stack' \in Seq(Frame) /\ Len(stack') = Len(stack) - 1
      /\ \A i \in DOMAIN stack' : i \in DOMAIN stack /\ stack'[i] = stack[i]
  <2>1. stack' = SubSeq(stack, 1, Len(stack) - 1) /\ Len(stack) \in Nat \ {0}
    BY <1>2, <1>3, <1>4
  <2>2. 1..(Len(stack) - 1) \subseteq 1..Len(stack) /\ DOMAIN stack = 1..Len(stack)
    BY <1>3, <2>1
  <2>3. stack' \in Seq(Frame) /\ Len(stack') = Len(stack) - 1
    <3>1. \A i \in 1..(Len(stack) - 1) : stack[i] \in Frame
      BY <1>3, <2>2
    <3>2. 1 \in Int /\ Len(stack) - 1 \in Int
      BY <2>1
    <3>3. /\ stack' \in Seq(Frame)
          /\ Len(stack') = IF 1 <= Len(stack) - 1 THEN Len(stack) - 1 - 1 + 1 ELSE 0
      BY <2>1, <3>1, <3>2, SubSeqProperties
    <3>4. ASSUME NEW d \in Nat \ {0}
          PROVE  (IF 1 <= d - 1 THEN d - 1 - 1 + 1 ELSE 0) = d - 1
      OBVIOUS
    <3> QED BY <2>1, <3>3, <3>4
  <2>4. DOMAIN stack' = 1..(Len(stack) - 1)
    BY <2>3
  <2>5. \A i \in 1..(Len(stack) - 1) : stack'[i] = stack[i]
    BY <1>3, <2>1
  <2> QED BY <2>2, <2>3, <2>4, <2>5
<1>7. /\ pc' \in {"done", "read"} /\ (pc' = "read" => stack' # <<>>)
      /\ strlen' \in Nat
  <2>1. pc' \in {"done", "read"} /\ (pc' = "read" => Len(stack') # 0)
    BY <1>2, <1>6
  <2>2. stack' = <<>> => Len(stack') = 0
    OBVIOUS
  <2>3. Top.n - 1 \in Nat
    BY <1>5
  <2>4. strlen' \in Nat
    BY <1>2, <1>3, <2>3
  <2> QED BY <2>1, <2>2, <2>4
<1>8. /\ path' \in Seq(Node) /\ path' # <<>>
      /\ program = "nochdir" => Len(path') = Len(stack') + 1
  <2>1. CASE program = "nochdir"
    <3>1. Len(path) \in {Len(stack), Len(stack) + 1}
      BY <1>1, <1>2, <2>1 DEF PathFollowsStack
    <3>2. path' = SubSeq(path, 1, Len(stack))
      BY <1>2, <2>1
    <3>3. path' \in Seq(Node) /\ Len(path') = Len(stack)
      BY <1>3, <1>4, <3>1, <3>2
    <3>4. path' # <<>> /\ Len(path') = Len(stack') + 1
      BY <1>3, <1>4, <1>6, <3>3
    <3> QED BY <3>3, <3>4
  <2>2. CASE program # "nochdir"
    BY <1>2, <1>3, <2>2
  <2> QED BY <2>1, <2>2
<1>9. FtwTypeOK'
  BY <1>1, <1>2, <1>6, <1>7, <1>8 DEF FtwTypeOK
<1>10. PathFollowsStack'
  BY <1>1, <1>2, <1>6, <1>7, <1>8 DEF PathFollowsStack
<1>11. RoomForNames' /\ BufferSuffices'
  <2>1. ASSUME 3 * tree.rootLen >= NAME_MAX + 2
        PROVE  /\ strlen' < pathlen /\ pathlen >= NAME_MAX + 2 /\ ~overrun
               /\ \A i \in DOMAIN stack' : stack'[i].n + NAME_MAX < pathlen
    <3>1. /\ strlen < pathlen /\ pathlen >= NAME_MAX + 2 /\ ~overrun
          /\ \A i \in DOMAIN stack : stack[i].n + NAME_MAX < pathlen
      BY <1>1, <1>2, <2>1 DEF RoomForNames, BufferSuffices
    <3>2. Top.n + NAME_MAX < pathlen /\ NAME_MAX \in Nat
      BY <1>1, <1>4, <3>1, TreeTyped DEF Top
    <3>3. strlen' < pathlen
      BY <1>2, <1>3, <1>5, <3>1, <3>2
    <3> QED BY <1>6, <3>1, <3>3
  <2> QED BY <1>2, <1>7, <2>1 DEF RoomForNames, BufferSuffices
<1> QED BY <1>9, <1>10, <1>11 DEF BufferInv

-----------------------------------------------------------------------------
(* What others do to the tree.                                             *)

LEMMA ChangePreserves == ASSUME BufferInv, Change
                         PROVE  BufferInv'
<1>1. FtwTypeOK /\ PathFollowsStack /\ RoomForNames /\ BufferSuffices
  BY DEF BufferInv
<1>2. PICK f \in Node :
        /\ moved' = moved \cup {f}
        /\ \/ parent' = [parent EXCEPT ![f] = None] /\ UNCHANGED stack
           \/ UNCHANGED <<parent, stack>>
           \/ \E d \in tree.dir :
                /\ f \in File /\ parent' = [parent EXCEPT ![f] = d]
                /\ \/ UNCHANGED stack
                   \/ \E i \in DOMAIN stack : stack' = [stack EXCEPT ![i].left = @ \cup {f}]
  BY DEF Change, Node
<1>3. /\ changes < MaxChanges /\ changes' = changes + 1
      /\ UNCHANGED <<program, tree, pc, path, strlen, pathlen, overrun, cwd, told>>
  BY DEF Change
<1>4. stack \in Seq(Frame) /\ tree.dir \subseteq Node
      /\ parent \in [Node -> Node \cup {Above, None}]
  BY <1>1, TreeTyped DEF FtwTypeOK
<1>5. parent' \in [Node -> Node \cup {Above, None}]
  <2>1. parent' = parent \/ \E d \in Node \cup {Above, None} : parent' = [parent EXCEPT ![f] = d]
    BY <1>2, <1>4
  <2> QED BY <1>4, <2>1
<1>6. changes' \in 0..MaxChanges
  <2>1. changes \in 0..MaxChanges /\ MaxChanges \in Nat
    BY <1>1, FtwAssumption DEF FtwTypeOK
  <2> QED BY <1>3, <2>1
<1>7. /\ stack' \in Seq(Frame) /\ Len(stack') = Len(stack) /\ DOMAIN stack' = DOMAIN stack
      /\ \A j \in DOMAIN stack : stack'[j].n = stack[j].n
  <2>1. CASE UNCHANGED stack
    BY <1>4, <2>1
  <2>2. ASSUME f \in File, NEW i \in DOMAIN stack, stack' = [stack EXCEPT ![i].left = @ \cup {f}]
        PROVE  /\ stack' \in Seq(Frame) /\ Len(stack') = Len(stack)
               /\ DOMAIN stack' = DOMAIN stack
               /\ \A j \in DOMAIN stack : stack'[j].n = stack[j].n
    <3>1. stack[i].left \cup {f} \in SUBSET File
      BY <1>4, <2>2, FrameTyped
    <3>2. stack' = [stack EXCEPT ![i].left = stack[i].left \cup {f}]
      BY <2>2
    <3> DEFINE y == [stack[i] EXCEPT !.left = stack[i].left \cup {f}]
    <3>3. y \in Frame /\ y.n = stack[i].n
      BY <1>4, <3>1, FrameTyped, EntriesChange
    <3>4. stack' = [stack EXCEPT ![i] = y]
      BY <3>2
    <3> HIDE DEF y
    <3> QED BY <1>4, <3>3, <3>4, FrameChange
  <2>3. \/ UNCHANGED stack
        \/ f \in File /\ \E i \in DOMAIN stack : stack' = [stack EXCEPT ![i].left = @ \cup {f}]
    BY <1>2
  <2> QED BY <2>1, <2>2, <2>3
<1>8. stack' = <<>> <=> stack = <<>>
  BY <1>4, <1>7
<1>9. FtwTypeOK'
  <2>1. moved' \subseteq Node
    BY <1>1, <1>2 DEF FtwTypeOK
  <2> QED BY <1>1, <1>3, <1>5, <1>6, <1>7, <2>1 DEF FtwTypeOK
<1>10. PathFollowsStack'
  BY <1>1, <1>3, <1>7, <1>8 DEF PathFollowsStack
<1>11. RoomForNames' /\ BufferSuffices'
  BY <1>1, <1>3, <1>7, <1>8 DEF RoomForNames, BufferSuffices
<1> QED BY <1>9, <1>10, <1>11 DEF BufferInv

-----------------------------------------------------------------------------
LEMMA StutterPreserves == ASSUME BufferInv, UNCHANGED vars
                          PROVE  BufferInv'
<1>1. FtwTypeOK' /\ PathFollowsStack'
  BY DEF BufferInv, FtwTypeOK, PathFollowsStack, vars
<1>2. RoomForNames' /\ BufferSuffices'
  BY DEF BufferInv, RoomForNames, BufferSuffices, vars
<1> QED BY <1>1, <1>2 DEF BufferInv

LEMMA NextPreservesBuffer == ASSUME BufferInv, [Next]_vars
                             PROVE  BufferInv'
BY LookingPreserves, MyFtwPreserves, GrowPreserves, ReadDirPreserves, OpenDirPreserves,
   CloseDirPreserves, ChangePreserves, StutterPreserves
   DEF Next, Walk

\* Whatever the tree and the length of its names, and whatever others do to it
\* while nochdir.c or chdir.c walks it, the path follows the open directories and
\* each of these has left room for one more name.
THEOREM BufferInductive == FtwSpec => []BufferInv
<1>1. BufferInv /\ [Next]_vars => BufferInv'
  BY NextPreservesBuffer
<1> QED BY <1>1, InitEstablishesFtw, PTL DEF FtwSpec

\* So nothing is written beyond the buffer, though it is doubled at most once for
\* each directory, if the root's path is not shorter than a third of
\* NAME_MAX + 2.
THEOREM FtwBufferSuffices == FtwSpec => []BufferSuffices
BY BufferInductive, PTL DEF BufferInv

-----------------------------------------------------------------------------
(* Where the walk stands in the tree.                                      *)

PlaceInv == StackSpelled /\ StackOpened /\ UnmovedInPlace /\ WorksInTop

LEMMA PlaceInit == FtwInit => PlaceInv
<1> SUFFICES ASSUME FtwInit PROVE PlaceInv
  OBVIOUS
<1>1. pc = "start" /\ stack = <<>> /\ DOMAIN stack = {}
  BY DEF FtwInit
<1> QED BY <1>1 DEF PlaceInv, StackSpelled, StackOpened, UnmovedInPlace, WorksInTop, Looking

\* The beginning of a sequence.
LEMMA Prefix ==
  ASSUME NEW S, NEW s \in Seq(S), NEW d \in 0..Len(s)
  PROVE  LET t == SubSeq(s, 1, d)
         IN  t \in Seq(S) /\ Len(t) = d /\ DOMAIN t = 1..d /\ \A i \in 1..d : t[i] = s[i]
OBVIOUS

\* The entries still to come of one directory change, and nothing else.
LEMMA LeftChange ==
  ASSUME NEW s \in Seq(Frame), NEW i \in DOMAIN s, NEW E \in SUBSET File
  PROVE  LET t == [s EXCEPT ![i].left = E]
         IN  /\ Len(t) = Len(s) /\ DOMAIN t = DOMAIN s
             /\ \A j \in DOMAIN s : /\ t[j].dir = s[j].dir
                                    /\ t[j].left = IF j = i THEN E ELSE s[j].left
<1> DEFINE t == [s EXCEPT ![i].left = E]
<1>1. Len(t) = Len(s) /\ DOMAIN t = DOMAIN s
  OBVIOUS
<1>2. s[i] \in Frame
  OBVIOUS
<1>3. \A j \in DOMAIN s : t[j] = IF j = i THEN [s[i] EXCEPT !.left = E] ELSE s[j]
  OBVIOUS
<1>4. LET y == [s[i] EXCEPT !.left = E] IN y.dir = s[i].dir /\ y.left = E
  BY <1>2 DEF Frame
<1> QED BY <1>1, <1>3, <1>4

\* What the places below have in common.
LEMMA StackFacts ==
  ASSUME PathInv
  PROVE  /\ stack \in Seq(Frame) /\ path \in Seq(Node) /\ Len(stack) \in Nat
         /\ DOMAIN stack = 1..Len(stack) /\ (stack # <<>> <=> Len(stack) > 0)
         /\ tree.dir \subseteq Node /\ moved \subseteq Node
         /\ parent \in [Node -> Node \cup {Above, None}]
         /\ \A i \in DOMAIN stack : stack[i].dir \in Node /\ stack[i].left \subseteq File
<1>1. FtwTypeOK
  BY DEF PathInv, BufferInv
<1>2. stack \in Seq(Frame) /\ \A i \in DOMAIN stack : stack[i].dir \in Node /\ stack[i].left \subseteq File
  BY <1>1, FrameTyped DEF FtwTypeOK
<1> QED BY <1>1, <1>2, TreeTyped DEF FtwTypeOK

LEMMA StatPlace == ASSUME PathInv, Stat
                   PROVE  PlaceInv'
<1>1. StackSpelled /\ StackOpened /\ UnmovedInPlace /\ WorksInTop
  BY DEF PathInv
<1>2. /\ pc = "stat" /\ pc' \in {"read", "done", "grow"}
      /\ pc' = "grow" => Target \in tree.dir
      /\ UNCHANGED <<program, tree, parent, stack, path, cwd, moved>>
  BY DEF Stat, Return
<1> QED BY <1>1, <1>2 DEF PlaceInv, StackSpelled, StackOpened, UnmovedInPlace, WorksInTop, Looking,
        Top, Target

LEMMA GrowPlace == ASSUME PathInv, Grow
                   PROVE  PlaceInv'
<1>1. StackSpelled /\ StackOpened /\ UnmovedInPlace /\ WorksInTop
  BY DEF PathInv
<1>2. /\ pc = "grow" /\ pc' = "open"
      /\ UNCHANGED <<program, tree, parent, stack, path, cwd, moved>>
  BY DEF Grow
<1> QED BY <1>1, <1>2 DEF PlaceInv, StackSpelled, StackOpened, UnmovedInPlace, WorksInTop, Looking,
        Top, Target

LEMMA EndOfDirPlace == ASSUME PathInv, EndOfDir
                       PROVE  PlaceInv'
<1>1. StackSpelled /\ StackOpened /\ UnmovedInPlace /\ WorksInTop
  BY DEF PathInv
<1>2. /\ pc = "read" /\ pc' \in {"up", "close"} /\ (program = "chdir" => pc' = "up")
      /\ UNCHANGED <<program, tree, parent, stack, path, cwd, moved>>
  BY DEF EndOfDir
<1> QED BY <1>1, <1>2 DEF PlaceInv, StackSpelled, StackOpened, UnmovedInPlace, WorksInTop, Looking,
        Top, Target

LEMMA AbortPlace == ASSUME PathInv, Abort
                    PROVE  PlaceInv'
<1>1. StackSpelled /\ StackOpened /\ UnmovedInPlace /\ WorksInTop
  BY DEF PathInv
<1>2. /\ pc' = "failed"
      /\ UNCHANGED <<program, tree, parent, stack, path, cwd, moved>>
  BY DEF Abort
<1> QED BY <1>1, <1>2 DEF PlaceInv, StackSpelled, StackOpened, UnmovedInPlace, WorksInTop, Looking

LEMMA MyFtwPlace == ASSUME PathInv, MyFtw
                    PROVE  PlaceInv'
<1>1. PathFollowsStack
  BY DEF PathInv, BufferInv
<1>2. /\ stack = <<>> /\ stack' = <<>> /\ pc' \in {"failed", "stat"}
      /\ pc' = "stat" => path' = <<Root>>
  BY <1>1 DEF MyFtw, PathFollowsStack
<1>3. DOMAIN stack' = {} /\ Len(stack') = 0
  BY <1>2
<1> QED BY <1>2, <1>3 DEF PlaceInv, StackSpelled, StackOpened, UnmovedInPlace, WorksInTop, Looking

\* chdir.c goes into the directory it has opened, ...
LEMMA ChDirPlace == ASSUME PathInv, ChDir
                    PROVE  PlaceInv'
<1>1. StackSpelled /\ StackOpened /\ UnmovedInPlace /\ WorksInTop
  BY DEF PathInv
<1>2. /\ pc = "chdir" /\ pc' \in {"read", "failed"} /\ program = "chdir"
      /\ pc' = "read" => cwd' = Target /\ Target \in tree.search
      /\ UNCHANGED <<program, tree, parent, stack, path, moved>>
  BY DEF ChDir, PathInv, BufferInv, PathFollowsStack
<1>3. Target = Top.dir
  BY <1>1, <1>2 DEF StackSpelled
<1> QED BY <1>1, <1>2, <1>3 DEF PlaceInv, StackSpelled, StackOpened, UnmovedInPlace, WorksInTop,
        Looking, Top

\* ... and up again to the one above, if that is where it still is.
LEMMA ChDirUpPlace == ASSUME PathInv, ChDirUp
                      PROVE  PlaceInv'
<1>1. StackSpelled /\ StackOpened /\ UnmovedInPlace /\ WorksInTop
  BY DEF PathInv
<1>2. /\ pc = "up" /\ pc' \in {"close", "failed"} /\ program = "chdir"
      /\ pc' = "close" => cwd' = Up(cwd)
      /\ UNCHANGED <<program, tree, parent, stack, path, moved>>
  BY DEF ChDirUp, PathInv, BufferInv, PathFollowsStack
<1>3. StackSpelled' /\ StackOpened' /\ UnmovedInPlace'
  BY <1>1, <1>2 DEF StackSpelled, StackOpened, UnmovedInPlace, Looking, Top
<1>4. WorksInTop'
  <2> SUFFICES ASSUME pc' = "close", moved \cap tree.dir = {}, Len(stack) > 1
               PROVE  cwd' = stack[Len(stack) - 1].dir
    BY <1>2 DEF WorksInTop, Looking
  <2>1. Len(stack) \in DOMAIN stack /\ stack # <<>>
    BY StackFacts
  <2>2. cwd = Top.dir /\ Top.dir \in tree.dir /\ Top.dir \in Node
    BY <1>1, <1>2, <2>1, StackFacts DEF WorksInTop, StackOpened, Top
  <2>3. Top.dir \notin moved
    BY <2>2
  <2>4. parent[Top.dir] = stack[Len(stack) - 1].dir
    BY <1>1, <2>1, <2>3 DEF UnmovedInPlace, Top
  <2> QED BY <1>2, <2>2, <2>4 DEF Up
<1> QED BY <1>3, <1>4 DEF PlaceInv

LEMMA ReadDirPlace == ASSUME PathInv, ReadDir
                      PROVE  PlaceInv'
<1>1. /\ StackSpelled /\ StackOpened /\ UnmovedInPlace /\ WorksInTop
      /\ PathFollowsStack
  BY DEF PathInv, BufferInv
<1>2. PICK f \in Top.left :
        /\ stack' = [stack EXCEPT ![Len(stack)].left = Top.left \ {f}]
        /\ path' = (IF program = "nochdir" THEN Append(SubSeq(path, 1, Len(stack)), f) ELSE <<f>>)
  BY DEF ReadDir, Top
<1>3. /\ pc = "read" /\ pc' = "stat" /\ stack # <<>>
      /\ UNCHANGED <<program, tree, parent, cwd, moved>>
  BY <1>1 DEF ReadDir, PathFollowsStack
<1>4. /\ Len(stack) \in DOMAIN stack /\ stack \in Seq(Frame) /\ path \in Seq(Node)
      /\ Top.left \subseteq File /\ f \in File /\ f \in Node /\ Len(stack) > 0
  BY <1>2, <1>3, StackFacts DEF Top, Node
<1>5. /\ Len(stack') = Len(stack) /\ DOMAIN stack' = DOMAIN stack
      /\ \A j \in DOMAIN stack : stack'[j].dir = stack[j].dir /\ stack'[j].left \subseteq stack[j].left
  <2>1. Top.left \ {f} \in SUBSET File
    BY <1>4
  <2>2. /\ Len(stack') = Len(stack) /\ DOMAIN stack' = DOMAIN stack
        /\ \A j \in DOMAIN stack :
             /\ stack'[j].dir = stack[j].dir
             /\ stack'[j].left = IF j = Len(stack) THEN Top.left \ {f} ELSE stack[j].left
    BY <1>2, <1>4, <2>1, LeftChange
  <2> QED BY <2>2 DEF Top
<1>6. Top'.dir = Top.dir /\ 1 \in DOMAIN stack /\ stack' # <<>>
  <2>1. 1 \in DOMAIN stack
    BY <1>4, StackFacts
  <2>2. stack' # <<>>
    BY <1>5, <2>1
  <2> QED BY <1>4, <1>5, <2>1, <2>2 DEF Top
<1>7. /\ Target' = f
      /\ program = "nochdir" => \A i \in DOMAIN stack : path'[i] = stack[i].dir
  <2>1. CASE program = "nochdir"
    <3>1. Len(path) >= Len(stack) /\ Len(stack) \in 0..Len(path)
      BY <1>1, <1>3, <1>4, <2>1, StackFacts DEF PathFollowsStack
    <3> DEFINE t == SubSeq(path, 1, Len(stack))
    <3>2. t \in Seq(Node) /\ Len(t) = Len(stack) /\ \A i \in 1..Len(stack) : t[i] = path[i]
      BY <1>4, <3>1, Prefix
    <3>3. path' = Append(t, f)
      BY <1>2, <2>1
    <3> HIDE DEF t
    <3>4. /\ path'[Len(path')] = f
          /\ \A i \in 1..Len(stack) : path'[i] = path[i]
      BY <1>4, <3>2, <3>3, StackFacts
    <3> QED BY <1>1, <1>3, <2>1, <3>4, StackFacts DEF StackSpelled, Target
  <2>2. CASE program # "nochdir"
    BY <1>2, <2>2 DEF Target
  <2> QED BY <2>1, <2>2
<1>8. StackSpelled'
  <2>1. program = "chdir" => path' = <<f>>
    BY <1>2
  <2> QED BY <1>1, <1>3, <1>4, <1>5, <1>6, <1>7, <2>1 DEF StackSpelled, Looking
<1>9. StackOpened'
  BY <1>1, <1>3, <1>5, <1>6 DEF StackOpened
<1>10. UnmovedInPlace'
  <2>1. f \notin moved => parent[f] = Top.dir
    BY <1>1, <1>2, <1>4 DEF UnmovedInPlace, Top
  <2>2. ASSUME NEW i \in DOMAIN stack, i > 1, stack[i].dir \notin moved
        PROVE  parent[stack'[i].dir] = stack'[i - 1].dir
    <3>1. i - 1 \in DOMAIN stack
      BY <2>2, StackFacts
    <3> QED BY <1>1, <1>5, <2>2, <3>1 DEF UnmovedInPlace
  <2>3. \A i \in DOMAIN stack : \A g \in stack'[i].left \ moved : parent[g] = stack'[i].dir
    BY <1>1, <1>5 DEF UnmovedInPlace
  <2>4. Root \notin moved => parent[Root] # None
    BY <1>1, <1>3 DEF UnmovedInPlace
  <2> QED BY <1>3, <1>5, <1>6, <1>7, <2>1, <2>2, <2>3, <2>4 DEF UnmovedInPlace
<1>11. WorksInTop'
  BY <1>1, <1>3, <1>6 DEF WorksInTop, Looking
<1> QED BY <1>8, <1>9, <1>10, <1>11 DEF PlaceInv

LEMMA OpenDirPlace == ASSUME PathInv, OpenDir
                      PROVE  PlaceInv'
<1>1. /\ StackSpelled /\ StackOpened /\ UnmovedInPlace /\ WorksInTop
      /\ PathFollowsStack
  BY DEF PathInv, BufferInv
<1>2. /\ pc = "open" /\ path # <<>>
      /\ UNCHANGED <<program, tree, parent, path, cwd, moved>>
  BY <1>1 DEF OpenDir, PathFollowsStack
<1>3. CASE Return(Len(stack)) /\ UNCHANGED stack
  <2>1. pc' \in {"done", "read"}
    BY <1>3 DEF Return
  <2> QED BY <1>1, <1>2, <1>3, <2>1 DEF PlaceInv, StackSpelled, StackOpened, UnmovedInPlace,
          WorksInTop, Looking, Top
<1>4. CASE /\ stack' = Append(stack, [dir |-> Target, n |-> strlen, left |-> Entries(Target)])
           /\ pc' = (IF program = "chdir" THEN "chdir" ELSE "read")
           /\ Resolves
  <2> DEFINE e == [dir |-> Target, n |-> strlen, left |-> Entries(Target)]
             l == Len(stack)
  <2>1. /\ stack \in Seq(Frame) /\ path \in Seq(Node) /\ l \in Nat /\ DOMAIN stack = 1..l
        /\ stack # <<>> <=> l > 0
    BY StackFacts
  <2>2. e \in Frame /\ e.dir = Target /\ e.left = Entries(Target)
    <3>1. strlen \in Nat
      BY DEF PathInv, BufferInv, FtwTypeOK
    <3> QED BY <1>2, <2>1, <3>1, TargetIsNode DEF Frame, Entries
  <2> HIDE DEF e
  <2>3. stack' = Append(stack, e)
    BY <1>4 DEF e
  <2>4. /\ Len(stack') = l + 1 /\ DOMAIN stack' = 1..(l + 1) /\ stack' # <<>>
        /\ \A i \in 1..l : stack'[i] = stack[i]
        /\ stack'[l + 1] = e
    BY <2>1, <2>2, <2>3
  <2> HIDE DEF l
  <2>5. /\ Top'.dir = Target /\ l + 1 > 0 /\ l + 1 - 1 = l
        /\ l > 0 => Top.dir = stack[l].dir /\ l \in 1..l /\ stack'[l] = stack[l]
    BY <2>1, <2>2, <2>4 DEF Top, l
  <2>6. Target \in tree.dir
    BY <1>1, <1>2 DEF StackOpened
  <2>7. l > 0 => stack[l].dir \in tree.search
    <3> SUFFICES ASSUME l > 0 PROVE stack[l].dir \in tree.search
      OBVIOUS
    <3>1. CASE program = "chdir"
      BY <1>1, <1>2, <2>1, <2>5, <3>1 DEF StackOpened
    <3>2. CASE program # "chdir"
      <4>1. program = "nochdir" /\ Len(path) = l + 1
        BY <1>1, <1>2, <3>2 DEF PathFollowsStack, PathInv, BufferInv, FtwTypeOK, l
      <4>2. path # <<Root>>
        <5>1. l \in Nat /\ l > 0
          BY <2>1
        <5>2. Len(path) # 1
          BY <4>1, <5>1
        <5> QED BY <5>2
      <4>3. path[l] \in tree.search
        BY <1>4, <2>1, <3>2, <4>1, <4>2 DEF Resolves
      <4>4. path[l] = stack[l].dir
        BY <1>1, <1>2, <2>1, <2>5, <4>1 DEF StackSpelled, Looking
      <4> QED BY <4>3, <4>4
    <3> QED BY <3>1, <3>2
  <2>8. StackSpelled'
    <3>1. l = 0 => Target = Root
      <4>1. l = 0 => path = <<Root>>
        BY <1>1, <1>2, <2>1 DEF StackSpelled, Looking
      <4> QED BY <4>1 DEF Target
    <3>2. stack'[1].dir = Root
      <4>1. CASE l = 0
        BY <2>2, <2>4, <3>1, <4>1
      <4>2. CASE l # 0
        BY <1>1, <2>1, <2>4, <4>2 DEF StackSpelled
      <4> QED BY <4>1, <4>2
    <3>3. program = "nochdir" => \A i \in 1..(l + 1) : path[i] = stack'[i].dir
      <4> SUFFICES ASSUME program = "nochdir", NEW i \in 1..(l + 1)
                   PROVE  path[i] = stack'[i].dir
        OBVIOUS
      <4>1. Len(path) = l + 1
        BY <1>1, <1>2 DEF PathFollowsStack, l
      <4>2. CASE i = l + 1
        BY <2>2, <2>4, <4>1, <4>2 DEF Target
      <4>3. CASE i # l + 1
        <5>1. i \in 1..l
          BY <2>1, <4>3
        <5>2. path[i] = stack[i].dir
          BY <1>1, <1>2, <2>1, <5>1 DEF StackSpelled, Looking
        <5> QED BY <2>4, <5>1, <5>2
      <4> QED BY <4>2, <4>3
    <3>4. pc' \in {"chdir", "read"} /\ Target' = Target
      BY <1>2, <1>4 DEF Target
    <3> QED BY <1>2, <2>4, <2>5, <3>2, <3>3, <3>4 DEF StackSpelled, Looking
  <2>9. StackOpened'
    <3>1. ASSUME NEW i \in 1..(l + 1)
          PROVE  /\ stack'[i].dir \in tree.dir
                 /\ i < l + 1 => stack'[i].dir \in tree.search
      <4>1. CASE i = l + 1
        BY <2>1, <2>2, <2>4, <2>6, <4>1
      <4>2. CASE i # l + 1
        <5>1. i \in 1..l /\ stack'[i] = stack[i] /\ (i = l \/ i < l) /\ l > 0
          BY <2>1, <2>4, <4>2
        <5>2. stack[i].dir \in tree.dir /\ (i < l => stack[i].dir \in tree.search)
          BY <1>1, <2>1, <5>1 DEF StackOpened, l
        <5> QED BY <2>7, <5>1, <5>2
      <4> QED BY <4>1, <4>2
    <3> QED BY <1>2, <1>4, <2>4, <3>1 DEF StackOpened
  <2>10. UnmovedInPlace'
    <3>1. ASSUME NEW i \in 1..(l + 1)
          PROVE  /\ \A g \in stack'[i].left \ moved : parent[g] = stack'[i].dir
                 /\ i > 1 /\ stack'[i].dir \notin moved => parent[stack'[i].dir] = stack'[i - 1].dir
      <4>1. CASE i = l + 1
        <5>1. \A g \in e.left : parent[g] = Target
          BY <2>2 DEF Entries
        <5>2. i > 1 => l > 0 /\ i - 1 = l
          BY <2>1, <4>1
        <5>3. l > 0 /\ Target \notin moved => parent[Target] = stack[l].dir
          BY <1>1, <1>2, <2>1, <2>5 DEF UnmovedInPlace, Looking
        <5> QED BY <2>2, <2>4, <2>5, <4>1, <5>1, <5>2, <5>3
      <4>2. CASE i # l + 1
        <5>1. i \in 1..l /\ stack'[i] = stack[i] /\ (i > 1 => i - 1 \in 1..l)
          BY <2>1, <2>4, <4>2
        <5>2. i > 1 => stack'[i - 1] = stack[i - 1]
          BY <2>4, <5>1
        <5> QED BY <1>1, <2>1, <5>1, <5>2 DEF UnmovedInPlace
      <4> QED BY <4>1, <4>2
    <3>2. pc' \notin Looking
      BY <1>4 DEF Looking
    <3>3. Root \notin moved => parent[Root] # None
      <4>1. CASE l = 0
        BY <1>1, <1>2, <1>4, <2>1, <4>1 DEF StackSpelled, Looking, Resolves, RootFound
      <4>2. CASE l # 0
        BY <1>1, <2>1, <4>2 DEF UnmovedInPlace
      <4> QED BY <4>1, <4>2
    <3> QED BY <1>2, <2>4, <3>1, <3>2, <3>3 DEF UnmovedInPlace
  <2>11. WorksInTop'
    <3>1. program = "chdir" /\ moved \cap tree.dir = {} /\ l > 0 => cwd = stack'[l].dir
      BY <1>1, <1>2, <2>1, <2>5 DEF WorksInTop, Looking
    <3>2. l + 1 > 1 => l > 0
      BY <2>1
    <3>3. program = "chdir" => pc' \notin Looking \cup {"read", "up"}
      BY <1>4 DEF Looking
    <3>4. program' = program /\ moved' = moved /\ tree' = tree /\ cwd' = cwd
      BY <1>2
    <3>5. Len(stack') - 1 = l /\ (Len(stack') > 1 => l + 1 > 1)
      BY <2>1, <2>4
    <3> QED BY <3>1, <3>2, <3>3, <3>4, <3>5 DEF WorksInTop
  <2> QED BY <2>8, <2>9, <2>10, <2>11 DEF PlaceInv
<1> QED BY <1>3, <1>4 DEF OpenDir

LEMMA CloseDirPlace == ASSUME PathInv, CloseDir
                       PROVE  PlaceInv'
<1> DEFINE l == Len(stack)
<1>1. /\ StackSpelled /\ StackOpened /\ UnmovedInPlace /\ WorksInTop
      /\ PathFollowsStack
  BY DEF PathInv, BufferInv
<1>2. /\ pc = "close" /\ stack # <<>> /\ pc' \in {"done", "read"}
      /\ stack' = SubSeq(stack, 1, l - 1)
      /\ path' = (IF program = "nochdir" THEN SubSeq(path, 1, l) ELSE path)
      /\ UNCHANGED <<program, tree, parent, cwd, moved>>
  BY <1>1 DEF CloseDir, Return, PathFollowsStack
<1>3. /\ stack \in Seq(Frame) /\ path \in Seq(Node) /\ l \in Nat /\ DOMAIN stack = 1..l
      /\ l > 0 /\ l - 1 \in 0..l
  BY <1>2, StackFacts
<1>4. /\ Len(stack') = l - 1 /\ DOMAIN stack' = 1..(l - 1)
      /\ \A i \in 1..(l - 1) : stack'[i] = stack[i] /\ i \in 1..l
      /\ stack' \in Seq(Frame)
  <2>1. \A i \in 1..(l - 1) : i \in 1..l
    BY <1>3
  <2>2. LET t == SubSeq(stack, 1, l - 1)
        IN  t \in Seq(Frame) /\ Len(t) = l - 1 /\ DOMAIN t = 1..(l - 1)
            /\ \A i \in 1..(l - 1) : t[i] = stack[i]
    BY <1>3, Prefix
  <2> QED BY <1>2, <2>1, <2>2
<1>5. stack' # <<>> <=> l > 1
  BY <1>3, <1>4
<1> HIDE DEF l
<1>6. l > 1 => l - 1 \in 1..l /\ l - 1 < l /\ Top' = stack[l - 1] /\ 1 \in 1..(l - 1)
  BY <1>3, <1>4 DEF Top
<1>7. StackSpelled'
  <2>1. program = "nochdir" => \A i \in 1..(l - 1) : path'[i] = stack[i].dir
    <3> SUFFICES ASSUME program = "nochdir", NEW i \in 1..(l - 1) PROVE path'[i] = stack[i].dir
      OBVIOUS
    <3>1. l \in 0..Len(path)
      BY <1>1, <1>2, <1>3 DEF PathFollowsStack, l
    <3>2. path'[i] = path[i]
      BY <1>2, <1>3, <1>4, <3>1, Prefix
    <3> QED BY <1>1, <1>2, <1>3, <1>4, <3>2 DEF StackSpelled
  <2> QED BY <1>1, <1>2, <1>4, <1>5, <1>6, <2>1 DEF StackSpelled, Looking
<1>8. StackOpened'
  <2>1. \A i \in 1..(l - 1) : stack'[i].dir \in tree.dir /\ stack'[i].dir \in tree.search
    <3> SUFFICES ASSUME NEW i \in 1..(l - 1)
                 PROVE  stack[i].dir \in tree.dir /\ stack[i].dir \in tree.search
      BY <1>4
    <3>1. i < l /\ i \in 1..l
      BY <1>3
    <3> QED BY <1>1, <1>3, <3>1 DEF StackOpened, l
  <2>2. stack' # <<>> => Top'.dir \in tree.search
    <3>1. l > 1 => l - 1 \in 1..(l - 1)
      BY <1>3
    <3> QED BY <1>4, <1>5, <1>6, <2>1, <3>1
  <2> QED BY <1>2, <1>4, <2>1, <2>2 DEF StackOpened
<1>9. UnmovedInPlace'
  <2>1. ASSUME NEW i \in 1..(l - 1)
        PROVE  /\ \A g \in stack'[i].left \ moved : parent[g] = stack'[i].dir
               /\ i > 1 /\ stack'[i].dir \notin moved => parent[stack'[i].dir] = stack'[i - 1].dir
    <3>1. i \in 1..l /\ stack'[i] = stack[i]
      BY <1>4
    <3>2. i > 1 => stack'[i - 1] = stack[i - 1]
      <4>1. i > 1 => i - 1 \in 1..(l - 1)
        BY <1>3
      <4> QED BY <1>4, <4>1
    <3> QED BY <1>1, <1>3, <3>1, <3>2 DEF UnmovedInPlace
  <2>2. pc' \notin Looking
    BY <1>2 DEF Looking
  <2>3. Root \notin moved => parent[Root] # None
    BY <1>1, <1>2 DEF UnmovedInPlace
  <2> QED BY <1>2, <1>4, <2>1, <2>2, <2>3 DEF UnmovedInPlace
<1>10. WorksInTop'
  <2>1. program = "chdir" /\ moved \cap tree.dir = {} /\ l > 1 => cwd = stack[l - 1].dir
    BY <1>1, <1>2 DEF WorksInTop, l
  <2> QED BY <1>2, <1>5, <1>6, <2>1 DEF WorksInTop
<1> QED BY <1>7, <1>8, <1>9, <1>10 DEF PlaceInv

\* Others may move files and directories: nothing is said of those.
LEMMA ChangePlace == ASSUME PathInv, Change
                     PROVE  PlaceInv'
<1>1. StackSpelled /\ StackOpened /\ UnmovedInPlace /\ WorksInTop
  BY DEF PathInv
<1>2. PICK f \in Node :
        /\ moved' = moved \cup {f}
        /\ parent' = parent \/ \E d : parent' = [parent EXCEPT ![f] = d]
        /\ \/ UNCHANGED stack
           \/ f \in File /\ \E i \in DOMAIN stack :
                stack' = [stack EXCEPT ![i].left = stack[i].left \cup {f}]
  BY DEF Change, Node
<1>3. UNCHANGED <<program, tree, pc, path, cwd>>
  BY DEF Change
<1>4. /\ stack \in Seq(Frame) /\ DOMAIN stack = 1..Len(stack) /\ Len(stack) \in Nat
      /\ stack # <<>> <=> Len(stack) > 0
      /\ moved \subseteq Node /\ parent \in [Node -> Node \cup {Above, None}]
      /\ \A i \in DOMAIN stack : stack[i].dir \in Node /\ stack[i].left \subseteq File
  BY StackFacts
<1>5. /\ Len(stack') = Len(stack) /\ DOMAIN stack' = DOMAIN stack
      /\ \A j \in DOMAIN stack : /\ stack'[j].dir = stack[j].dir
                                 /\ stack'[j].left \subseteq stack[j].left \cup {f}
  <2>1. CASE UNCHANGED stack
    BY <2>1
  <2>2. ASSUME f \in File, NEW i \in DOMAIN stack,
               stack' = [stack EXCEPT ![i].left = stack[i].left \cup {f}]
        PROVE  /\ Len(stack') = Len(stack) /\ DOMAIN stack' = DOMAIN stack
               /\ \A j \in DOMAIN stack : /\ stack'[j].dir = stack[j].dir
                                          /\ stack'[j].left \subseteq stack[j].left \cup {f}
    <3>1. stack[i].left \cup {f} \in SUBSET File
      BY <1>4, <2>2
    <3>2. /\ Len(stack') = Len(stack) /\ DOMAIN stack' = DOMAIN stack
          /\ \A j \in DOMAIN stack :
               /\ stack'[j].dir = stack[j].dir
               /\ stack'[j].left = IF j = i THEN stack[i].left \cup {f} ELSE stack[j].left
      BY <1>4, <2>2, <3>1, LeftChange
    <3> QED BY <3>2
  <2> QED BY <1>2, <2>1, <2>2
<1>6. /\ \A g \in Node \ moved' : g \notin moved /\ parent'[g] = parent[g]
      /\ moved' \cap tree.dir = {} => moved \cap tree.dir = {}
  BY <1>2, <1>4
<1>7. stack # <<>> => Len(stack) \in DOMAIN stack /\ 1 \in DOMAIN stack /\ Top'.dir = Top.dir
  BY <1>4, <1>5 DEF Top
<1>8. stack' # <<>> <=> stack # <<>>
  BY <1>4, <1>5
<1>9. StackSpelled'
  <2>1. pc = "chdir" => stack # <<>>
    BY DEF PathInv, BufferInv, PathFollowsStack
  <2> QED BY <1>1, <1>3, <1>5, <1>7, <1>8, <2>1 DEF StackSpelled, Looking, Target
<1>10. StackOpened'
  BY <1>1, <1>3, <1>5, <1>7, <1>8 DEF StackOpened, Target
<1>11. UnmovedInPlace'
  <2>1. ASSUME NEW i \in DOMAIN stack, NEW g \in stack'[i].left \ moved'
        PROVE  parent'[g] = stack'[i].dir
    <3>1. g # f /\ g \in stack[i].left \ moved /\ g \in Node \ moved'
      BY <1>2, <1>4, <1>5, <2>1 DEF Node
    <3> QED BY <1>1, <1>5, <1>6, <3>1 DEF UnmovedInPlace
  <2>2. ASSUME NEW i \in DOMAIN stack, i > 1, stack'[i].dir \notin moved'
        PROVE  parent'[stack'[i].dir] = stack'[i - 1].dir
    <3>1. i - 1 \in DOMAIN stack
      BY <1>4, <2>2
    <3>2. stack[i].dir \in Node \ moved'
      BY <1>4, <1>5, <2>2
    <3> QED BY <1>1, <1>5, <1>6, <2>2, <3>1, <3>2 DEF UnmovedInPlace
  <2>3. ASSUME pc \in Looking, stack # <<>>, Target \notin moved'
        PROVE  parent'[Target] = Top'.dir
    <3>1. Target \in Node
      <4>1. path # <<>> /\ path \in Seq(Node)
        BY <2>3, StackFacts DEF PathInv, BufferInv, PathFollowsStack, Looking
      <4> QED BY <4>1, TargetIsNode
    <3> QED BY <1>1, <1>6, <1>7, <2>3, <3>1 DEF UnmovedInPlace
  <2>4. Target' = Target
    BY <1>3 DEF Target
  <2>5. stack # <<>> /\ Root \notin moved' => parent'[Root] # None
    BY <1>1, <1>6 DEF UnmovedInPlace, Node
  <2> QED BY <1>3, <1>5, <1>8, <2>1, <2>2, <2>3, <2>4, <2>5 DEF UnmovedInPlace
<1>12. WorksInTop'
  <2>1. Len(stack) > 1 => Len(stack) - 1 \in DOMAIN stack
    BY <1>4
  <2> QED BY <1>1, <1>3, <1>5, <1>6, <1>7, <1>8, <2>1 DEF WorksInTop
<1> QED BY <1>9, <1>10, <1>11, <1>12 DEF PlaceInv

\* At each moment the walk stands where its stack says, as far as nobody has
\* moved the directories of it.
THEOREM PathInductive == FtwSpec => []PathInv
<1>1. FtwInit => PathInv
  BY InitEstablishesFtw, PlaceInit DEF PathInv, PlaceInv
<1>2. ASSUME PathInv, [Next]_vars PROVE PathInv'
  <2>1. BufferInv'
    BY <1>2, NextPreservesBuffer DEF PathInv
  <2>2. CASE UNCHANGED vars
    <3>1. PlaceInv
      BY <1>2 DEF PathInv, PlaceInv
    <3>2. PlaceInv'
      BY <2>2, <3>1 DEF PlaceInv, StackSpelled, StackOpened, UnmovedInPlace, WorksInTop, Top,
         Target, vars
    <3> QED BY <2>1, <3>2 DEF PathInv, PlaceInv
  <2>3. CASE Next
    <3>1. PlaceInv'
      BY <1>2, <2>3, MyFtwPlace, StatPlace, GrowPlace, OpenDirPlace, ChDirPlace, ReadDirPlace,
         EndOfDirPlace, ChDirUpPlace, CloseDirPlace, AbortPlace, ChangePlace DEF Next, Walk
    <3> QED BY <2>1, <3>1 DEF PathInv, PlaceInv
  <2> QED BY <1>2, <2>2, <2>3
<1> QED BY <1>1, <1>2, PTL DEF FtwSpec

\* So the next lookup is of the file that readdir() named, though nochdir.c
\* spells a path from the root and chdir.c a name only.
THEOREM FtwEntryFound == FtwSpec => []EntryFound
<1>1. PathInv => EntryFound
  <2> DEFINE l == Len(stack)
  <2> SUFFICES ASSUME PathInv, pc = "stat", stack # <<>>,
                      moved \cap (tree.dir \cup {Target}) = {}
               PROVE  /\ parent[Target] = Top.dir
                      /\ Resolves \/ (program = "nochdir" /\ (Top.dir \notin tree.search
                                                                \/ strlen >= PATH_MAX))
    BY DEF EntryFound
  <2>1. /\ StackSpelled /\ StackOpened /\ UnmovedInPlace /\ WorksInTop
        /\ PathFollowsStack /\ FtwTypeOK
    BY DEF PathInv, BufferInv
  <2>2. /\ l \in Nat /\ DOMAIN stack = 1..l /\ l > 0 /\ path \in Seq(Node)
        /\ Target \notin moved /\ moved \cap tree.dir = {}
    BY StackFacts
  <2>3. parent[Target] = Top.dir
    BY <2>1, <2>2 DEF UnmovedInPlace, Looking
  <2>4. CASE program = "chdir"
    <3>1. PICK f \in File : path = <<f>>
      BY <2>1, <2>4 DEF StackSpelled, Looking
    <3>2. path # <<Root>> /\ Target = path[1]
      <4>1. f # Root
        BY FtwAssumption
      <4> QED BY <3>1, <4>1 DEF Target
    <3>3. cwd = Top.dir /\ Top.dir \in tree.search
      BY <2>1, <2>2, <2>4 DEF WorksInTop, StackOpened, Looking
    <3> QED BY <2>3, <2>4, <3>2, <3>3 DEF Resolves
  <2>5. CASE program # "chdir" /\ Top.dir \in tree.search /\ strlen < PATH_MAX
    <3>1. program = "nochdir" /\ Len(path) = l + 1
      BY <2>1, <2>5 DEF FtwTypeOK, PathFollowsStack
    <3> HIDE DEF l
    <3>2. \A i \in 1..l : path[i] = stack[i].dir
      BY <2>1, <2>2, <3>1 DEF StackSpelled, Looking
    <3>3. Target = path[l + 1] /\ Top.dir = stack[l].dir
      BY <3>1 DEF Target, Top, l
    <3>4. ASSUME NEW i \in 1..l
          PROVE  path[i] \in tree.search /\ parent[path[i + 1]] = path[i]
      <4>1. CASE i = l
        BY <2>2, <2>3, <2>5, <3>2, <3>3, <4>1
      <4>2. CASE i # l
        <5>1. i < l /\ i + 1 \in 1..l /\ i + 1 > 1 /\ i + 1 - 1 = i
          BY <2>2, <4>2
        <5>2. stack[i].dir \in tree.search /\ stack[i + 1].dir \in tree.dir
          BY <2>1, <2>2, <5>1 DEF StackOpened, l
        <5>3. parent[stack[i + 1].dir] = stack[i].dir
          <6>1. stack[i + 1].dir \notin moved
            BY <2>2, <5>2
          <6> QED BY <2>1, <2>2, <5>1, <6>1 DEF UnmovedInPlace
        <5> QED BY <3>2, <5>1, <5>2, <5>3
      <4> QED BY <4>1, <4>2
    <3>5. \A i \in 1..(Len(path) - 1) : path[i] \in tree.search /\ parent[path[i + 1]] = path[i]
      BY <2>2, <3>1, <3>4
    <3>6. path # <<Root>> /\ RootFound
      <4>1. Len(path) # 1
        BY <2>2, <3>1
      <4>2. stack[1].dir = Root /\ Root \in tree.dir
        BY <2>1, <2>2 DEF StackSpelled, StackOpened
      <4> QED BY <2>1, <2>2, <4>1, <4>2 DEF UnmovedInPlace, RootFound
    <3> QED BY <2>3, <2>5, <3>1, <3>5, <3>6 DEF Resolves
  <2>6. CASE program # "chdir" /\ ~(Top.dir \in tree.search /\ strlen < PATH_MAX)
    <3>1. program = "nochdir" /\ strlen \in Nat /\ PATH_MAX \in Nat
      BY <2>1, <2>6, FtwAssumption DEF FtwTypeOK
    <3> QED BY <2>3, <2>6, <3>1
  <2> QED BY <2>4, <2>5, <2>6
<1> QED BY <1>1, PathInductive, PTL

-----------------------------------------------------------------------------
(* Upwards in a tree that nobody has changed.                              *)

Unchanged == FtwTypeOK /\ parent = tree.parent

LEMMA Parents ==
  ASSUME Unchanged
  PROVE  /\ IsFiniteSet(Node) /\ Root \in Node /\ Root \notin File /\ parent[Root] \notin Node
         /\ \A f \in File : f \in Node /\ parent[f] \in tree.dir /\ parent[f] \in Node
         /\ \A S \in SUBSET File : S # {} => \E f \in S : parent[f] \notin S
         /\ parent \in [Node -> Node \cup {Above, None}]
<1>1. tree \in Tree /\ tree.dir \subseteq Node /\ tree.parent \in [Node -> Node \cup {Above, None}]
  BY TreeTyped DEF Unchanged, FtwTypeOK
<1>2. IsFiniteSet(Node)
  BY TreeAssumption, FS_AddElement DEF Node
<1>3. {Above, None} \cap Node = {} /\ Root \notin File
  BY FtwAssumption
<1> QED BY <1>1, <1>2, <1>3, TreeAssumption DEF Unchanged, Node

LEMMA UpwardsIs ==
  ASSUME NEW f \in Node
  PROVE  /\ f \in Upwards(f) /\ Upwards(f) \subseteq Node
         /\ \A g \in Upwards(f) : parent[g] \in Node => parent[g] \in Upwards(f)
         /\ \A S \in SUBSET Node :
              f \in S /\ (\A g \in S : parent[g] \in Node => parent[g] \in S)
                => Upwards(f) \subseteq S
BY DEF Upwards

LEMMA UpwardsFrom ==
  ASSUME Unchanged
  PROVE  /\ Upwards(Root) = {Root}
         /\ \A f \in File : Upwards(f) = {f} \cup Upwards(parent[f])
         /\ \A f \in Node : \A d \in Upwards(f) : Upwards(d) \subseteq Upwards(f)
<1>1. Upwards(Root) = {Root}
  <2>1. Root \in Node /\ parent[Root] \notin Node
    BY Parents
  <2>2. Upwards(Root) \subseteq {Root}
    BY <2>1, UpwardsIs
  <2> QED BY <2>1, <2>2, UpwardsIs
<1>2. ASSUME NEW f \in Node, NEW d \in Upwards(f)
      PROVE  Upwards(d) \subseteq Upwards(f)
  <2>1. d \in Node /\ Upwards(f) \in SUBSET Node
    BY UpwardsIs
  <2>2. \A g \in Upwards(f) : parent[g] \in Node => parent[g] \in Upwards(f)
    BY UpwardsIs
  <2> QED BY <1>2, <2>1, <2>2, UpwardsIs
<1>3. ASSUME NEW f \in File
      PROVE  Upwards(f) = {f} \cup Upwards(parent[f])
  <2>1. f \in Node /\ parent[f] \in Node
    BY Parents
  <2>2. f \in Upwards(f) /\ parent[f] \in Upwards(f)
    BY <2>1, UpwardsIs
  <2>3. Upwards(parent[f]) \subseteq Upwards(f)
    BY <1>2, <2>1, <2>2
  <2> DEFINE S == {f} \cup Upwards(parent[f])
  <2>4. S \in SUBSET Node /\ f \in S
    BY <2>1, UpwardsIs
  <2>5. ASSUME NEW g \in S, parent[g] \in Node
        PROVE  parent[g] \in S
    BY <2>1, <2>5, UpwardsIs
  <2>6. Upwards(f) \subseteq S
    BY <2>1, <2>4, <2>5, UpwardsIs
  <2> QED BY <2>2, <2>3, <2>6
<1> QED BY <1>1, <1>2, <1>3

\* No file is below itself.
LEMMA UpwardsEnds ==
  ASSUME Unchanged, NEW f \in File
  PROVE  f \notin Upwards(parent[f])
<1> SUFFICES ASSUME f \in Upwards(parent[f])
             PROVE  FALSE
  OBVIOUS
<1> DEFINE C == {g \in Upwards(f) : f \in Upwards(g)}
<1>1. f \in C /\ f \in Node
  BY Parents, UpwardsIs
<1>2. C \in SUBSET File
  <2>1. Upwards(f) \subseteq Node /\ f # Root
    BY <1>1, Parents, UpwardsIs
  <2>2. Root \notin C
    BY <2>1, UpwardsFrom
  <2> QED BY <2>1, <2>2 DEF Node
<1>3. ASSUME NEW g \in C
      PROVE  parent[g] \in C
  <2>1. g \in File /\ parent[g] \in Node /\ g \in Upwards(f) /\ f \in Upwards(g)
    BY <1>2, Parents
  <2>2. parent[g] \in Upwards(f)
    BY <1>1, <2>1, UpwardsIs
  <2>3. f \in Upwards(parent[g])
    BY <2>1, UpwardsFrom
  <2> QED BY <2>2, <2>3
<1> HIDE DEF C
<1> QED BY <1>1, <1>2, <1>3, Parents

-----------------------------------------------------------------------------
(* The length of a path.                                                   *)

\* What m different elements are numbered with.
LEMMA Numbered ==
  ASSUME NEW m \in Nat, NEW S, NEW b \in Injection(1..m, S),
         \A x \in S : \E i \in 1..m : b[i] = x
  PROVE  IsFiniteSet(S) /\ Cardinality(S) = m
<1>1. IsFiniteSet(1..m) /\ Cardinality(1..m) = m
  <2>1. m \in Int /\ 1 \in Int
    OBVIOUS
  <2>2. IsFiniteSet(1..m) /\ Cardinality(1..m) = IF 1 > m THEN 0 ELSE m - 1 + 1
    BY <2>1, FS_Interval
  <2> QED BY <2>2
<1>2. b \in Bijection(1..m, S)
  BY DEF Bijection, Surjection, Injection
<1>3. ExistsBijection(1..m, S)
  BY <1>2, Zenon DEF ExistsBijection
<1> QED BY <1>1, <1>3, FS_Bijection, Zenon

LEMMA Slice ==
  ASSUME NEW g, NEW m \in Nat
  PROVE  IsFiniteSet({g} \X (0..m)) /\ Cardinality({g} \X (0..m)) = m + 1
<1> DEFINE b == [k \in 1..(m + 1) |-> <<g, k - 1>>]
<1>1. b \in Injection(1..(m + 1), {g} \X (0..m))
  BY DEF Injection, IsInjective
<1>2. \A x \in {g} \X (0..m) : \E k \in 1..(m + 1) : b[k] = x
  <2> TAKE x \in {g} \X (0..m)
  <2>1. PICK k \in 0..m : x = <<g, k>>
    OBVIOUS
  <2>2. k + 1 \in 1..(m + 1) /\ (k + 1) - 1 = k
    OBVIOUS
  <2> QED BY <2>1, <2>2
<1> HIDE DEF b
<1> QED BY <1>1, <1>2, Numbered

LEMMA LengthFrom ==
  ASSUME Unchanged
  PROVE  /\ Length(Root) = tree.rootLen
         /\ \A f \in Node : IsFiniteSet(Bytes(f)) /\ Length(f) \in Nat
         /\ \A f \in File : Length(f) = Length(parent[f]) + 1 + tree.len[f]
<1>1. tree.rootLen \in Nat /\ tree.len \in [File -> 1..NAME_MAX] /\ NAME_MAX \in Nat
  BY TreeTyped DEF Unchanged
<1>2. Bytes(Root) = {}
  BY UpwardsFrom DEF Bytes
<1>3. Length(Root) = tree.rootLen
  <2>1. Cardinality({}) = 0
    BY FS_EmptySet
  <2> QED BY <1>1, <1>2, <2>1 DEF Length
<1>4. ASSUME NEW f \in Node
      PROVE  IsFiniteSet(Bytes(f))
  <2>1. Upwards(f) \ {Root} \subseteq File
    BY UpwardsIs DEF Node
  <2>2. Bytes(f) \in SUBSET (File \X (0..NAME_MAX))
    <3> SUFFICES ASSUME NEW x \in Bytes(f)
                 PROVE  x \in File \X (0..NAME_MAX)
      OBVIOUS
    <3>1. PICK g \in Upwards(f) \ {Root} : x \in {g} \X (0..tree.len[g])
      BY DEF Bytes
    <3>2. g \in File /\ tree.len[g] \in 1..NAME_MAX
      BY <1>1, <2>1
    <3> QED BY <1>1, <3>1, <3>2
  <2>3. IsFiniteSet(0..NAME_MAX)
    BY <1>1, FS_Interval
  <2>4. IsFiniteSet(File \X (0..NAME_MAX))
    BY <2>3, TreeAssumption, FS_Product
  <2> QED BY <2>2, <2>4, FS_Subset
<1>5. ASSUME NEW f \in Node
      PROVE  Length(f) \in Nat
  <2>1. Cardinality(Bytes(f)) \in Nat
    BY <1>4, FS_CardinalityType
  <2> QED BY <1>1, <2>1 DEF Length
<1>6. ASSUME NEW f \in File
      PROVE  Length(f) = Length(parent[f]) + 1 + tree.len[f]
  <2> DEFINE d == parent[f]
             m == tree.len[f]
             A == {f} \X (0..m)
             B == Bytes(d)
  <2>1. d \in Node /\ f # Root /\ m \in Nat /\ f \notin Upwards(d)
    BY <1>1, Parents, UpwardsEnds
  <2>2. Bytes(f) = A \cup B
    <3>1. Upwards(f) \ {Root} = {f} \cup (Upwards(d) \ {Root})
      BY <2>1, UpwardsFrom
    <3> QED BY <3>1 DEF Bytes
  <2>3. A \cap B = {}
    <3>1. ASSUME NEW x \in A, x \in B
          PROVE  FALSE
      <4>1. PICK g \in Upwards(d) \ {Root} : x \in {g} \X (0..tree.len[g])
        BY <3>1 DEF Bytes
      <4>2. x[1] = f /\ x[1] = g
        BY <4>1
      <4> QED BY <2>1, <4>1, <4>2
    <3> QED BY <3>1
  <2>4. IsFiniteSet(A) /\ Cardinality(A) = m + 1
    BY <2>1, Slice
  <2>5. IsFiniteSet(B) /\ Cardinality(B) \in Nat
    BY <1>4, <2>1, FS_CardinalityType
  <2> HIDE DEF A, B, d, m
  <2>6. Cardinality(A \cup B) = Cardinality(A) + Cardinality(B) - Cardinality(A \cap B)
    BY <2>4, <2>5, FS_Union, Zenon
  <2>7. Cardinality(A \cap B) = 0
    BY <2>3, FS_EmptySet
  <2>8. Cardinality(A \cup B) = (m + 1) + Cardinality(B)
    BY <2>1, <2>4, <2>5, <2>6, <2>7
  <2>9. /\ Length(f) = tree.rootLen + Cardinality(A \cup B)
        /\ Length(d) = tree.rootLen + Cardinality(B)
    BY <2>2 DEF Length, B
  <2> QED BY <1>1, <2>1, <2>5, <2>8, <2>9 DEF d, m
<1> QED BY <1>3, <1>4, <1>5, <1>6

-----------------------------------------------------------------------------
(* Where the walk stands.                                                  *)

\* What a step that leaves the tree alone leaves of the listing.
LEMMA SameTree ==
  ASSUME UNCHANGED <<program, tree, parent>>
  PROVE  /\ \A f : /\ Upwards(f)' = Upwards(f) /\ Ancestors(f)' = Ancestors(f)
                   /\ Length(f)' = Length(f) /\ Found(f)' = Found(f)
                   /\ Openable(f)' = Openable(f) /\ TypesOf(f)' = TypesOf(f)
         /\ \A f, t : Entry(f, t)' = Entry(f, t)
         /\ Listing' = Listing
<1>1. \A f : Upwards(f)' = Upwards(f)
  BY DEF Upwards
<1>2. \A f : Ancestors(f)' = Ancestors(f) /\ Length(f)' = Length(f)
  BY <1>1 DEF Ancestors, Length, Bytes
<1>3. \A f : Found(f)' = Found(f)
  BY <1>2 DEF Found, ByPath
<1>4. \A f : Openable(f)' = Openable(f)
  BY <1>2, <1>3 DEF Openable, ByPath
<1>5. \A f : TypesOf(f)' = TypesOf(f)
  BY <1>3, <1>4 DEF TypesOf
<1>6. \A f, t : Entry(f, t)' = Entry(f, t)
  BY <1>2 DEF Entry
<1>7. Reached' = Reached
  BY <1>2, <1>4 DEF Reached
<1>8. Listing' = Listing
  BY <1>5, <1>6, <1>7 DEF Listing
<1> QED BY <1>1, <1>2, <1>3, <1>4, <1>5, <1>6, <1>8

\* The open directories are as many as the calls of dopath().
LEMMA OpenCount ==
  ASSUME stack \in Seq(Frame), \A i, j \in DOMAIN stack : stack[i].dir = stack[j].dir => i = j
  PROVE  IsFiniteSet(Open) /\ Cardinality(Open) = Len(stack)
<1> DEFINE m == Len(stack)
           b == [i \in 1..m |-> stack[i].dir]
<1>1. m \in Nat /\ DOMAIN stack = 1..m
  OBVIOUS
<1>2. b \in Injection(1..m, Open)
  BY <1>1 DEF Injection, IsInjective, Open
<1>3. \A x \in Open : \E i \in 1..m : b[i] = x
  BY <1>1 DEF Open
<1> HIDE DEF b
<1> QED BY <1>1, <1>2, <1>3, Numbered

LEMMA TargetPlace ==
  ASSUME PathInv, OpenAbove, changes = 0, pc \in Looking
  PROVE  /\ Unchanged /\ Target \in Node /\ Target \notin Open /\ Ancestors(Target) = Open
         /\ Cardinality(Open) = Len(stack) /\ Target \in Reached
         /\ stack # <<>> => Target \in File /\ parent[Target] = Top.dir
         /\ stack = <<>> => Target = Root /\ path = <<Root>>
<1>1. /\ FtwTypeOK /\ PathFollowsStack /\ StackSpelled /\ StackOpened /\ UnmovedInPlace
      /\ parent = tree.parent /\ moved = {} /\ Upwards(Target) = Open \cup {Target}
  BY DEF PathInv, BufferInv, OpenAbove
<1>2. Unchanged
  BY <1>1 DEF Unchanged
<1>3. Target \in Node
  BY <1>1, TargetIsNode DEF FtwTypeOK, PathFollowsStack, Looking
<1>4. ASSUME stack = <<>>
      PROVE  Target = Root /\ path = <<Root>> /\ Open = {}
  <2>1. path = <<Root>> /\ DOMAIN stack = {}
    BY <1>1, <1>4 DEF StackSpelled
  <2>2. Target = Root
    BY <2>1 DEF Target
  <2> QED BY <2>1, <2>2 DEF Open
<1>5. ASSUME stack # <<>>
      PROVE  Target \in File /\ parent[Target] = Top.dir /\ Target \notin Open
  <2>1. parent[Target] = Top.dir
    BY <1>1, <1>5 DEF UnmovedInPlace
  <2>2. Len(stack) \in DOMAIN stack /\ Top.dir \in Node /\ DOMAIN stack = 1..Len(stack)
    BY <1>5, StackFacts DEF Top
  <2>3. Target \in File
    BY <1>2, <1>3, <2>1, <2>2, Parents DEF Node
  <2>4. Upwards(Top.dir) = Open
    BY <2>2 DEF OpenAbove, Open, Top
  <2> QED BY <1>2, <2>1, <2>3, <2>4, UpwardsEnds
<1>6. Target \notin Open
  BY <1>4, <1>5
<1>7. Ancestors(Target) = Open
  BY <1>1, <1>6 DEF Ancestors
<1>8. Cardinality(Open) = Len(stack)
  BY <1>1, OpenCount DEF OpenAbove, FtwTypeOK
<1>9. Target \in Reached
  BY <1>3, <1>7 DEF Reached, OpenAbove, Open
<1> QED BY <1>2, <1>3, <1>4, <1>5, <1>6, <1>7, <1>8, <1>9

\* What the kernel says of the path, or the name, is what the listing says.
LEMMA Looked ==
  ASSUME PathInv, OpenAbove, changes = 0, pc \in {"stat", "open"}
  PROVE  /\ pc = "stat" => (Resolves <=> Found(Target))
         /\ pc = "open" /\ Found(Target) =>
              (Resolves /\ Target \in tree.read /\ Len(stack) < FdLimit <=> Openable(Target))
<1>1. /\ FtwTypeOK /\ PathFollowsStack /\ StackSpelled /\ StackOpened /\ UnmovedInPlace
      /\ WorksInTop /\ parent = tree.parent /\ moved = {} /\ pc \in Looking
  BY DEF PathInv, BufferInv, OpenAbove, Looking
<1>2. /\ Unchanged /\ Target \in Node /\ Target \notin Open /\ Ancestors(Target) = Open
      /\ Cardinality(Open) = Len(stack)
      /\ stack # <<>> => Target \in File /\ parent[Target] = Top.dir
      /\ stack = <<>> => Target = Root /\ path = <<Root>>
  BY <1>1, TargetPlace
<1>3. Target \in File => Target # Root
  BY <1>2, Parents
<1>4. /\ Len(stack) \in Nat /\ DOMAIN stack = 1..Len(stack) /\ path \in Seq(Node)
      /\ stack # <<>> <=> Len(stack) > 0
  BY StackFacts
<1>5. CASE stack = <<>>
  <2>1. /\ Target = Root /\ ByPath(Root) /\ Ancestors(Root) = {} /\ Root \in Node
        /\ path = <<Root>>
    BY <1>2, <1>5 DEF ByPath, Open
  <2>2. Resolves <=> parent[Root] # None /\ strlen < PATH_MAX
    BY <1>1, <2>1 DEF Resolves, RootFound
  <2>3. Length(Root) \in Nat /\ strlen = Length(Root) + (IF pc = "open" THEN 1 ELSE 0)
    BY <1>1, <1>2, <2>1, LengthFrom DEF OpenAbove
  <2>4. Found(Root) <=> parent[Root] # None /\ Length(Root) < PATH_MAX
    BY <2>1 DEF Found
  <2>5. Openable(Root) <=> /\ Found(Root) /\ Root \in tree.read /\ Len(stack) < FdLimit
                           /\ Length(Root) + 1 < PATH_MAX
    BY <1>2, <2>1 DEF Openable
  <2>6. PATH_MAX \in Nat
    BY FtwAssumption
  <2> QED BY <2>1, <2>2, <2>3, <2>4, <2>5, <2>6
<1>6. CASE stack # <<>> /\ program = "chdir"
  <2>1. PICK f \in File : path = <<f>>
    BY <1>1, <1>6 DEF StackSpelled
  <2>2. Target = f /\ path # <<Root>> /\ path[1] = f
    BY <1>2, <1>3, <1>6, <2>1 DEF Target
  <2>3. cwd = Top.dir /\ Top.dir \in tree.search
    BY <1>1, <1>6 DEF WorksInTop, StackOpened, Looking
  <2>4. Resolves
    BY <1>2, <1>6, <2>2, <2>3 DEF Resolves
  <2>5. Target # Root /\ ~ByPath(Target)
    BY <1>2, <1>3, <1>6 DEF ByPath
  <2> QED BY <1>2, <1>6, <2>4, <2>5 DEF Openable, Found
<1>7. CASE stack # <<>> /\ program = "nochdir"
  <2>1. /\ Len(path) = Len(stack) + 1 /\ DOMAIN path = 1..(Len(stack) + 1)
        /\ \A i \in 1..Len(stack) : path[i] = stack[i].dir
        /\ path[Len(stack) + 1] = Target /\ path # <<Root>>
    <3>1. Len(path) = Len(stack) + 1 /\ \A i \in 1..Len(stack) : path[i] = stack[i].dir
      BY <1>1, <1>4, <1>7 DEF PathFollowsStack, StackSpelled, Looking
    <3>2. DOMAIN path = 1..(Len(stack) + 1) /\ path[Len(stack) + 1] = Target
      BY <1>4, <3>1 DEF Target
    <3>3. Len(path) # 1
      BY <1>4, <1>7, <3>1
    <3> QED BY <3>1, <3>2, <3>3
  <2>2. \A i \in 1..Len(stack) : parent[path[i + 1]] = path[i]
    <3> TAKE i \in 1..Len(stack)
    <3>1. CASE i = Len(stack)
      BY <1>2, <1>4, <1>7, <2>1, <3>1 DEF Top
    <3>2. CASE i # Len(stack)
      <4>1. i + 1 \in 1..Len(stack) /\ (i + 1) - 1 = i /\ i + 1 > 1
        <5>1. PICK l \in Nat : l = Len(stack)
          BY <1>4
        <5>2. i \in 1..l /\ i # l
          BY <3>2, <5>1
        <5>3. i + 1 \in 1..l /\ (i + 1) - 1 = i /\ i + 1 > 1
          BY <5>2
        <5> QED BY <5>1, <5>3
      <4>2. parent[stack[i + 1].dir] = stack[(i + 1) - 1].dir
        BY <1>1, <1>4, <4>1 DEF UnmovedInPlace
      <4> QED BY <2>1, <4>1, <4>2
    <3> QED BY <3>1, <3>2
  <2>3. Open \subseteq tree.search <=> \A i \in 1..Len(stack) : path[i] \in tree.search
    BY <1>4, <2>1 DEF Open
  <2>4. Len(path) - 1 = Len(stack)
    BY <1>4, <2>1
  <2>5. Resolves <=> strlen < PATH_MAX /\ Open \subseteq tree.search
    <3>1. RootFound
      BY <1>1, <1>7 DEF UnmovedInPlace, RootFound
    <3> QED BY <1>7, <2>1, <2>2, <2>3, <2>4, <3>1 DEF Resolves
  <2>6. Length(Target) \in Nat /\ strlen = Length(Target) + (IF pc = "open" THEN 1 ELSE 0)
    BY <1>1, <1>2, <1>7, LengthFrom DEF OpenAbove, ByPath
  <2>7. Found(Target) <=> Open \subseteq tree.search /\ Length(Target) < PATH_MAX
    BY <1>2, <1>3, <1>7 DEF Found, ByPath
  <2>8. Openable(Target) <=> /\ Found(Target) /\ Target \in tree.read /\ Len(stack) < FdLimit
                             /\ Length(Target) + 1 < PATH_MAX
    BY <1>2, <1>3, <1>7 DEF Openable, ByPath
  <2>9. PATH_MAX \in Nat
    BY FtwAssumption
  <2> QED BY <2>5, <2>6, <2>7, <2>8, <2>9
<1> QED BY <1>1, <1>5, <1>6, <1>7 DEF FtwTypeOK

-----------------------------------------------------------------------------
(* Steps that tell nothing.                                                *)

WalkOK == PathInv /\ WalkInv /\ changes = 0

\* The steps within one call of dopath().
LEMMA AsidePreserves ==
  ASSUME WalkOK, UNCHANGED <<program, tree, parent, stack, path, told, moved, changes>>,
         \/ /\ pc = "grow" /\ pc' = "open" /\ strlen' = strlen + 1
         \/ /\ pc = "chdir" /\ pc' = "read"
         \/ /\ pc = "read" /\ pc' \in {"up", "close"}
            /\ \A f \in Top.left : parent[f] # Top.dir
         \/ /\ pc = "up" /\ pc' = "close"
         \/ pc' = "failed"
         \/ pc' = pc /\ strlen' = strlen
  PROVE  WalkInv'
<1>1. OpenAbove /\ ToldInTurn /\ NothingPassedOver /\ changes = 0 /\ FtwTypeOK
  BY DEF WalkOK, WalkInv, PathInv, BufferInv
<1>2. /\ \A f : /\ Upwards(f)' = Upwards(f) /\ Length(f)' = Length(f) /\ Found(f)' = Found(f)
                /\ Openable(f)' = Openable(f) /\ TypesOf(f)' = TypesOf(f)
      /\ \A f, t : Entry(f, t)' = Entry(f, t)
      /\ Listing' = Listing
  BY SameTree
<1>3. /\ Target' = Target /\ Top' = Top /\ Open' = Open /\ \A f : IsTold(f)' = IsTold(f)
  BY DEF Target, Top, Open, IsTold
<1>4. \/ /\ pc = "grow" /\ pc' = "open" /\ strlen' = strlen + 1
      \/ pc' \in {"read", "up", "close", "failed"}
      \/ pc' = pc /\ strlen' = strlen
  OBVIOUS
<1>5. OpenAbove'
  <2>1. pc' \in Looking => pc \in Looking
    BY <1>4 DEF Looking
  <2>2. pc' \in Looking /\ ByPath(Target) =>
          strlen' = Length(Target) + (IF pc' = "open" THEN 1 ELSE 0)
    <3> SUFFICES ASSUME pc' \in Looking, ByPath(Target)
                 PROVE  strlen' = Length(Target) + (IF pc' = "open" THEN 1 ELSE 0)
      OBVIOUS
    <3>1. pc \in Looking /\ strlen = Length(Target) + (IF pc = "open" THEN 1 ELSE 0)
      BY <1>1, <2>1 DEF OpenAbove
    <3>2. Length(Target) \in Nat
      BY <1>1, <3>1, TargetPlace, LengthFrom DEF WalkOK
    <3>3. CASE pc = "grow" /\ pc' = "open" /\ strlen' = strlen + 1
      BY <3>1, <3>2, <3>3
    <3>4. CASE pc' = pc /\ strlen' = strlen
      BY <3>1, <3>4
    <3> QED BY <1>4, <3>3, <3>4 DEF Looking
  <2>3. ByPath(Target)' <=> ByPath(Target)
    BY <1>3 DEF ByPath
  <2> QED BY <1>1, <1>2, <1>3, <2>1, <2>2, <2>3 DEF OpenAbove
<1>6. ToldInTurn'
  <2>1. /\ pc' \in {"start", "stat"} => pc = pc'
        /\ pc' \in {"grow", "open"} => pc \in {"grow", "open"}
    BY <1>4
  <2> QED BY <1>1, <1>2, <1>3, <2>1 DEF ToldInTurn
<1>7. NothingPassedOver'
  <2> SUFFICES ASSUME pc' # "failed"
               PROVE  NothingPassedOver'
    BY DEF NothingPassedOver
  <2>1. /\ pc' = "start" => pc = "start"
        /\ pc' = "done" => pc = "done"
        /\ pc' \in {"grow", "open"} <=> pc \in {"grow", "open"}
        /\ pc' = "stat" <=> pc = "stat"
        /\ pc' # pc => pc \notin {"start", "failed"}
        /\ pc' \in {"up", "close"} => pc \in {"up", "close"}
                                      \/ (pc = "read" /\ \A f \in Top.left : parent[f] # Top.dir)
    BY <1>4
  <2>2. Before' = Before
    BY <1>3, <2>1 DEF Before
  <2>3. pc' \in {"up", "close"} => Top.left = {}
    <3>1. ASSUME pc = "read", \A f \in Top.left : parent[f] # Top.dir
          PROVE  Top.left = {}
      <4>1. Len(stack) \in DOMAIN stack
        BY <3>1, StackFacts DEF WalkOK, PathInv, BufferInv, PathFollowsStack
      <4> QED BY <1>1, <3>1, <4>1 DEF ToldInTurn, Top
    <3>2. ASSUME pc \in {"up", "close"}
          PROVE  Top.left = {}
      BY <1>1, <3>2 DEF NothingPassedOver
    <3> QED BY <2>1, <3>1, <3>2
  <2> QED BY <1>1, <1>2, <1>3, <2>1, <2>2, <2>3 DEF NothingPassedOver
<1> QED BY <1>5, <1>6, <1>7 DEF WalkInv

LEMMA MyFtwWalks == ASSUME WalkOK, MyFtw
                    PROVE  WalkInv'
<1>1. /\ OpenAbove /\ ToldInTurn /\ FtwTypeOK /\ Unchanged /\ PathFollowsStack
      /\ UNCHANGED <<program, tree, parent, stack, told, moved, changes>> /\ changes = 0
      /\ pc = "start"
  BY DEF WalkOK, WalkInv, PathInv, BufferInv, MyFtw, OpenAbove, Unchanged
<1>2. /\ stack = <<>> /\ DOMAIN stack = {} /\ Open' = {} /\ told = <<>> /\ DOMAIN told = {}
      /\ stack' = <<>> /\ DOMAIN stack' = {} /\ told' = <<>> /\ DOMAIN told' = {}
      /\ \A f : ~IsTold(f)'
  BY <1>1 DEF PathFollowsStack, ToldInTurn, Open, IsTold
<1>3. /\ \A f : Upwards(f)' = Upwards(f) /\ Length(f)' = Length(f)
      /\ Listing' = Listing
  BY <1>1, SameTree
<1>4. CASE pc' = "failed"
  BY <1>1, <1>2, <1>4 DEF WalkInv, OpenAbove, ToldInTurn, NothingPassedOver, Looking
<1>5. CASE pc' = "stat" /\ path' = <<Root>> /\ strlen' = tree.rootLen
  <2>1. Target' = Root
    BY <1>5 DEF Target
  <2>2. Upwards(Root) = {Root} /\ Length(Root) = tree.rootLen /\ tree.rootLen \in Nat
    BY <1>1, UpwardsFrom, LengthFrom, TreeTyped
  <2>3. OpenAbove'
    <3>1. strlen' = Length(Target)' + (IF pc' = "open" THEN 1 ELSE 0)
      BY <1>3, <1>5, <2>1, <2>2
    <3> QED BY <1>1, <1>2, <1>3, <1>5, <2>1, <2>2, <3>1 DEF OpenAbove
  <2>4. ToldInTurn'
    BY <1>2, <1>5 DEF ToldInTurn
  <2>5. Root \in Before'
    BY <1>5, <2>1 DEF Before, Node
  <2>6. NothingPassedOver'
    BY <1>2, <1>5, <2>5 DEF NothingPassedOver
  <2> QED BY <2>3, <2>4, <2>6 DEF WalkInv
<1> QED BY <1>4, <1>5 DEF MyFtw

\* The next entry of the directory read.
LEMMA ReadDirWalks == ASSUME WalkOK, ReadDir
                      PROVE  WalkInv'
<1>1. /\ OpenAbove /\ ToldInTurn /\ NothingPassedOver /\ FtwTypeOK /\ Unchanged /\ PathFollowsStack
      /\ UNCHANGED <<program, tree, parent, told, moved, changes>> /\ changes = 0
      /\ pc = "read" /\ pc' = "stat" /\ program \in {"chdir", "nochdir"}
      /\ parent = tree.parent /\ moved = {}
  BY DEF WalkOK, WalkInv, PathInv, BufferInv, ReadDir, OpenAbove, Unchanged, FtwTypeOK
<1>2. /\ stack \in Seq(Frame) /\ stack # <<>> /\ DOMAIN stack = 1..Len(stack) /\ path \in Seq(Node)
      /\ Len(stack) \in Nat /\ Len(stack) \in DOMAIN stack
      /\ \A i \in DOMAIN stack : stack[i].dir \in Node /\ stack[i].left \subseteq File
  BY <1>1, StackFacts DEF WalkOK, PathFollowsStack
<1>3. PICK f \in Top.left :
        /\ stack' = [stack EXCEPT ![Len(stack)].left = Top.left \ {f}]
        /\ IF program = "nochdir"
           THEN path' = Append(SubSeq(path, 1, Len(stack)), f) /\ strlen' = Top.n + tree.len[f]
           ELSE path' = <<f>>
  BY DEF ReadDir, Top
<1>4. f \in File /\ parent[f] = Top.dir /\ ~IsTold(f) /\ Top.dir \in Node
  BY <1>1, <1>2 DEF ToldInTurn, Top
<1>5. /\ DOMAIN stack' = DOMAIN stack /\ Len(stack') = Len(stack)
      /\ \A j \in DOMAIN stack : /\ stack'[j].dir = stack[j].dir
                                 /\ stack'[j].left = IF j = Len(stack) THEN Top.left \ {f}
                                                                       ELSE stack[j].left
                                 /\ stack'[j].n = stack[j].n
  <2>1. Top.left \ {f} \in SUBSET File
    BY <1>2 DEF Top
  <2>2. \A j \in DOMAIN stack : stack'[j].n = stack[j].n
    <3>1. \A j \in DOMAIN stack : stack[j] \in Frame
      BY <1>2
    <3> QED BY <1>2, <1>3, <3>1 DEF Frame
  <2> QED BY <1>2, <1>3, <2>1, <2>2, LeftChange
<1>6. Target' = f
  <2>1. CASE program = "nochdir"
    <3> DEFINE s == SubSeq(path, 1, Len(stack))
    <3>1. Len(stack) \in 0..Len(path)
      BY <1>1, <1>2, <2>1 DEF PathFollowsStack
    <3>2. s \in Seq(Node) /\ Len(s) = Len(stack)
      BY <1>2, <3>1, Prefix
    <3>3. path' = Append(s, f)
      BY <1>3, <2>1
    <3> HIDE DEF s
    <3>4. Len(path') = Len(s) + 1 /\ path'[Len(s) + 1] = f
      BY <1>4, <3>2, <3>3, AppendProperties DEF Node
    <3> QED BY <3>4 DEF Target
  <2>2. CASE program = "chdir"
    <3>1. path' = <<f>>
      BY <1>3, <2>2
    <3>2. Len(path') = 1 /\ path'[1] = f
      BY <3>1
    <3> QED BY <3>2 DEF Target
  <2> QED BY <1>1, <2>1, <2>2
<1>7. /\ \A g : /\ Upwards(g)' = Upwards(g) /\ Length(g)' = Length(g)
                /\ Openable(g)' = Openable(g) /\ TypesOf(g)' = TypesOf(g)
                /\ IsTold(g)' = IsTold(g)
      /\ \A g, t : Entry(g, t)' = Entry(g, t)
      /\ Listing' = Listing
  BY <1>1, SameTree DEF IsTold
<1>8. Open' = Open
  BY <1>5 DEF Open
<1>9. OpenAbove'
  <2>1. Upwards(f) = Open \cup {f}
    <3>1. Upwards(Top.dir) = Open
      BY <1>1, <1>2 DEF OpenAbove, Open, Top
    <3> QED BY <1>1, <1>4, <3>1, UpwardsFrom
  <2>2. program = "nochdir" => strlen' = Length(f) + 0
    <3> SUFFICES ASSUME program = "nochdir"
                 PROVE  strlen' = Length(f) + 0
      OBVIOUS
    <3>1. strlen' = Top.n + tree.len[f] /\ Top.n = Length(Top.dir) + 1
      BY <1>1, <1>2, <1>3 DEF OpenAbove, Top
    <3>2. Length(f) = Length(Top.dir) + 1 + tree.len[f] /\ Length(Top.dir) \in Nat
      BY <1>1, <1>4, LengthFrom
    <3>3. tree.len[f] \in Nat
      BY <1>1, <1>4, TreeTyped
    <3> QED BY <3>1, <3>2, <3>3
  <2>3. \A i \in DOMAIN stack : {stack'[j].dir : j \in 1..i} = {stack[j].dir : j \in 1..i}
    <3>1. \A i \in DOMAIN stack : 1..i \subseteq DOMAIN stack
      BY <1>2
    <3> QED BY <1>5, <3>1
  <2>4. \A i, j \in DOMAIN stack' : stack'[i].dir = stack'[j].dir => i = j
    BY <1>1, <1>5 DEF OpenAbove
  <2>5. \A i \in DOMAIN stack' :
          /\ Upwards(stack'[i].dir) = {stack'[j].dir : j \in 1..i}
          /\ Openable(stack'[i].dir)
          /\ program = "nochdir" => stack'[i].n = Length(stack'[i].dir) + 1
    BY <1>1, <1>5, <2>3 DEF OpenAbove
  <2>6. ByPath(Target)' => program = "nochdir"
    BY <1>1, <1>4, <1>6, Parents DEF ByPath
  <2> QED BY <1>1, <1>6, <1>7, <1>8, <2>1, <2>2, <2>4, <2>5, <2>6 DEF OpenAbove
<1>10. \A i \in DOMAIN stack' : f \notin stack'[i].left /\ stack'[i].left \subseteq stack[i].left
  <2> TAKE i \in DOMAIN stack'
  <2>1. CASE i = Len(stack)
    BY <1>5, <2>1 DEF Top
  <2>2. CASE i # Len(stack)
    <3>1. stack[i].dir # Top.dir
      BY <1>1, <1>2, <1>5, <2>2 DEF OpenAbove, Top
    <3>2. \A g \in stack[i].left : parent[g] = stack[i].dir
      BY <1>1, <1>5 DEF ToldInTurn
    <3> QED BY <1>4, <1>5, <2>2, <3>1, <3>2
  <2> QED BY <2>1, <2>2
<1>11. ToldInTurn'
  <2>1. \A i \in DOMAIN stack' :
          /\ IsTold(stack'[i].dir)
          /\ \A g \in stack'[i].left : parent[g] = stack'[i].dir /\ ~IsTold(g)
    BY <1>1, <1>5, <1>10 DEF ToldInTurn
  <2> QED BY <1>1, <1>4, <1>6, <1>7, <1>10, <2>1 DEF ToldInTurn
<1>12. NothingPassedOver'
  <2>1. ASSUME NEW g \in Before
        PROVE  g \in Before'
    <3>1. PICK i \in DOMAIN stack : g \in stack[i].left
      BY <1>1, <2>1 DEF Before
    <3>2. CASE g = f
      BY <1>1, <1>6, <2>1, <3>2 DEF Before
    <3>3. CASE g # f
      <4>1. g \in stack'[i].left
        BY <1>5, <3>1, <3>3 DEF Top
      <4> QED BY <1>5, <2>1, <3>1, <4>1 DEF Before
    <3> QED BY <3>2, <3>3
  <2> QED BY <1>1, <1>7, <2>1 DEF NothingPassedOver
<1> QED BY <1>9, <1>11, <1>12 DEF WalkInv

\* A directory is left when all its entries have been read.
LEMMA CloseDirWalks == ASSUME WalkOK, CloseDir
                       PROVE  WalkInv'
<1>1. /\ OpenAbove /\ ToldInTurn /\ NothingPassedOver /\ FtwTypeOK /\ PathFollowsStack
      /\ UNCHANGED <<program, tree, parent, told, moved, changes>> /\ changes = 0
      /\ pc = "close" /\ stack' = SubSeq(stack, 1, Len(stack) - 1)
      /\ pc' = IF Len(stack) - 1 = 0 THEN "done" ELSE "read"
  BY DEF WalkOK, WalkInv, PathInv, BufferInv, CloseDir, Return
<1>2. /\ stack \in Seq(Frame) /\ DOMAIN stack = 1..Len(stack)
      /\ Len(stack) \in Nat /\ Len(stack) > 0
  BY <1>1, StackFacts DEF WalkOK, PathFollowsStack
<1>3. PICK l \in Nat : l = Len(stack) - 1 /\ l + 1 = Len(stack)
  <2>1. \A m \in Nat : m > 0 => \E l \in Nat : l = m - 1 /\ l + 1 = m
    <3> TAKE m \in Nat
    <3> HAVE m > 0
    <3> WITNESS m - 1 \in Nat
    <3> QED OBVIOUS
  <2> QED BY <1>2, <2>1, Zenon
<1>4. /\ Len(stack') = l /\ DOMAIN stack' = 1..l /\ \A i \in 1..l : stack'[i] = stack[i]
      /\ DOMAIN stack = 1..(l + 1) /\ (l = 0 => stack' = <<>>)
  BY <1>1, <1>2, <1>3
<1>5. \A i \in 1..l : i \in DOMAIN stack /\ 1..i \subseteq 1..l
  BY <1>3, <1>4
<1>6. /\ \A g : /\ Upwards(g)' = Upwards(g) /\ Length(g)' = Length(g)
                /\ Openable(g)' = Openable(g) /\ TypesOf(g)' = TypesOf(g)
                /\ IsTold(g)' = IsTold(g)
      /\ \A g, t : Entry(g, t)' = Entry(g, t)
      /\ Listing' = Listing
  BY <1>1, SameTree DEF IsTold
<1>7. OpenAbove'
  <2>1. \A i \in 1..l : {stack'[j].dir : j \in 1..i} = {stack[j].dir : j \in 1..i}
    BY <1>4, <1>5
  <2>2. \A i, j \in DOMAIN stack' : stack'[i].dir = stack'[j].dir => i = j
    BY <1>1, <1>4, <1>5 DEF OpenAbove
  <2>3. \A i \in DOMAIN stack' :
          /\ Upwards(stack'[i].dir) = {stack'[j].dir : j \in 1..i}
          /\ Openable(stack'[i].dir)
          /\ program = "nochdir" => stack'[i].n = Length(stack'[i].dir) + 1
    <3> TAKE i \in DOMAIN stack'
    <3>1. i \in DOMAIN stack /\ i \in 1..l /\ stack'[i] = stack[i]
      BY <1>4, <1>5
    <3>2. /\ Upwards(stack[i].dir) = {stack[j].dir : j \in 1..i} /\ Openable(stack[i].dir)
          /\ program = "nochdir" => stack[i].n = Length(stack[i].dir) + 1
      BY <1>1, <3>1 DEF OpenAbove
    <3>3. {stack'[j].dir : j \in 1..i} = {stack[j].dir : j \in 1..i}
      BY <2>1, <3>1
    <3> QED BY <3>1, <3>2, <3>3
  <2> QED BY <1>1, <1>6, <2>2, <2>3 DEF OpenAbove, Looking
<1>8. ToldInTurn'
  <2>1. \A i \in DOMAIN stack' :
          /\ IsTold(stack'[i].dir)
          /\ \A g \in stack'[i].left : parent[g] = stack'[i].dir /\ ~IsTold(g)
    BY <1>1, <1>4, <1>5 DEF ToldInTurn
  <2> QED BY <1>1, <1>6, <2>1 DEF ToldInTurn
<1>9. NothingPassedOver'
  <2>1. ASSUME NEW g \in Before
        PROVE  g \in Before'
    <3>1. PICK i \in DOMAIN stack : g \in stack[i].left
      BY <1>1, <2>1 DEF Before
    <3>2. i # Len(stack)
      BY <1>1, <3>1 DEF NothingPassedOver, Top
    <3>3. i \in 1..l
      BY <1>3, <1>4, <3>1, <3>2
    <3> QED BY <1>4, <2>1, <3>1, <3>3 DEF Before
  <2> QED BY <1>1, <1>3, <1>4, <1>6, <2>1 DEF NothingPassedOver
<1> QED BY <1>7, <1>8, <1>9 DEF WalkInv

-----------------------------------------------------------------------------
(* Steps that tell something.                                              *)

\* The new entry is of the target, and leaves the other files to be told.
LEMMA TellWalks ==
  ASSUME WalkOK, pc \in {"stat", "open"}, NEW t \in TypesOf(Target),
         UNCHANGED <<program, tree, parent, stack, path, moved, changes>>,
         told' = Append(told, Entry(Target, t)),
         pc = "open" => t = "FTW_DNR",
         \/ pc' = "grow" /\ pc = "stat" /\ t = "FTW_D" /\ Found(Target) /\ strlen' = strlen
         \/ /\ pc' = IF Len(stack) = 0 THEN "done" ELSE "read"
            /\ \A u \in TypesOf(Target) \ {t} : pc = "open" /\ u = "FTW_D"
            /\ Target \in tree.dir => ~Openable(Target)
  PROVE  WalkInv'
<1> DEFINE e == Entry(Target, t)
           T == {told[i] : i \in DOMAIN told}
<1>1. OpenAbove /\ ToldInTurn /\ NothingPassedOver /\ changes = 0 /\ FtwTypeOK /\ PathInv
      /\ pc \in Looking
  BY DEF WalkOK, WalkInv, PathInv, BufferInv, Looking
<1>2. /\ Unchanged /\ Target \in Node /\ Target \in Reached
      /\ stack # <<>> => Target \in File /\ parent[Target] = Top.dir
      /\ stack = <<>> => Target = Root
  BY <1>1, TargetPlace
<1>3. /\ \A f : /\ Upwards(f)' = Upwards(f) /\ Length(f)' = Length(f) /\ Found(f)' = Found(f)
                /\ Openable(f)' = Openable(f) /\ TypesOf(f)' = TypesOf(f)
      /\ \A f, u : Entry(f, u)' = Entry(f, u)
      /\ Listing' = Listing
  BY SameTree
<1>4. Target' = Target /\ Top' = Top /\ Open' = Open
  BY DEF Target, Top, Open
<1>5. /\ DOMAIN stack = 1..Len(stack) /\ Len(stack) \in Nat /\ (stack # <<>> <=> Len(stack) > 0)
      /\ stack # <<>> => Len(stack) \in DOMAIN stack
  BY <1>1, StackFacts
<1>6. e.name = Target /\ e.type = t
  BY DEF Entry
<1>7. /\ DOMAIN told' = DOMAIN told \cup {Len(told) + 1} /\ Len(told) + 1 \notin DOMAIN told
      /\ told'[Len(told) + 1] = e /\ \A i \in DOMAIN told : told'[i] = told[i]
  <2>1. \E m \in Nat : m = Len(told) /\ DOMAIN told = 1..m
    BY <1>1 DEF FtwTypeOK
  <2>2. PICK m \in Nat : m = Len(told) /\ DOMAIN told = 1..m
    BY <2>1
  <2>3. 1..(m + 1) = 1..m \cup {m + 1} /\ m + 1 \notin 1..m
    OBVIOUS
  <2>4. told \in Seq({told[i] : i \in DOMAIN told} \cup {e})
    BY <1>1 DEF FtwTypeOK
  <2> HIDE DEF e
  <2>5. told' = Append(told, e)
    BY DEF e
  <2>6. /\ DOMAIN told' = 1..(Len(told) + 1) /\ told'[Len(told) + 1] = e
        /\ \A i \in DOMAIN told : told'[i] = told[i]
    BY <2>4, <2>5, AppendProperties, <2>2
  <2> QED BY <2>2, <2>3, <2>6
<1> HIDE DEF e
<1>8. T' = T \cup {e} /\ \A g : IsTold(g)' <=> IsTold(g) \/ g = Target
  BY <1>6, <1>7 DEF IsTold
<1>9. e \in Listing
  BY <1>2 DEF Listing, e
<1>10. \A i \in DOMAIN told : told[i] # e
  <2> TAKE i \in DOMAIN told
  <2>1. CASE pc = "stat"
    BY <1>1, <1>6, <2>1 DEF ToldInTurn, IsTold
  <2>2. CASE pc = "open"
    BY <1>1, <1>6, <2>2 DEF ToldInTurn
  <2> QED BY <2>1, <2>2
<1>11. \A i \in DOMAIN stack : Target \notin stack[i].left
  <2>1. CASE pc = "stat"
    BY <1>1, <2>1 DEF ToldInTurn
  <2>2. CASE pc = "open"
    BY <1>1, <2>2 DEF ToldInTurn, NothingPassedOver, IsTold, Entry
  <2> QED BY <2>1, <2>2
<1>12. OpenAbove'
  <2>1. pc' # "grow" => pc' \notin Looking
    BY DEF Looking
  <2>2. pc' = "grow" => pc \notin {"grow", "open"} /\ strlen' = strlen
    OBVIOUS
  <2>3. pc' = "grow" /\ ByPath(Target) => strlen' = Length(Target) + 0
    BY <1>1, <2>2 DEF OpenAbove
  <2>4. OpenAbove
    BY <1>1
  <2>5. /\ parent' = tree.parent /\ moved' = {}
        /\ (\A i, j \in DOMAIN stack : stack[i].dir = stack[j].dir => i = j)'
        /\ (\A i \in DOMAIN stack :
              /\ Upwards(stack[i].dir) = {stack[j].dir : j \in 1..i}
              /\ Openable(stack[i].dir)
              /\ program = "nochdir" => stack[i].n = Length(stack[i].dir) + 1)'
    <3>1. \A i \in DOMAIN stack :
            /\ Upwards(stack[i].dir)' = Upwards(stack[i].dir)
            /\ Openable(stack[i].dir)' = Openable(stack[i].dir)
            /\ Length(stack[i].dir)' = Length(stack[i].dir)
      BY <1>3
    <3>2. /\ parent = tree.parent /\ moved = {}
          /\ \A i, j \in DOMAIN stack : stack[i].dir = stack[j].dir => i = j
      BY <2>4, <1>1 DEF OpenAbove
    <3>3. \A i \in DOMAIN stack :
            /\ Upwards(stack[i].dir) = {stack[j].dir : j \in 1..i}
            /\ Openable(stack[i].dir)
            /\ program = "nochdir" => stack[i].n = Length(stack[i].dir) + 1
      BY <2>4, <1>1 DEF OpenAbove
    <3>4. UNCHANGED <<program, stack, parent, moved, tree>>
      OBVIOUS
    <3>5. \A i : {stack[j].dir : j \in 1..i}' = {stack[j].dir : j \in 1..i}
      BY <3>4
    <3>6. (\A i \in DOMAIN stack :
            /\ Upwards(stack[i].dir) = {stack[j].dir : j \in 1..i}
            /\ Openable(stack[i].dir)
            /\ program = "nochdir" => stack[i].n = Length(stack[i].dir) + 1)'
      BY <3>1, <3>3, <3>4, <3>5
    <3> QED BY <3>2, <3>4, <3>6
  <2>6. (pc \in Looking => Upwards(Target) = Open \cup {Target})'
    BY <2>4, <1>1, <1>3, <1>4, Zenon DEF OpenAbove
  <2>7. (pc \in Looking /\ ByPath(Target) =>
            strlen = Length(Target) + (IF pc = "open" THEN 1 ELSE 0))'
    <3>1. ByPath(Target)' <=> ByPath(Target)
      BY <1>4 DEF ByPath
    <3> QED BY <1>3, <1>4, <2>1, <2>3, <3>1
  <2> QED BY <2>5, <2>6, <2>7, Zenon DEF OpenAbove
<1>13. \A f \in File : IsTold(f)' => IsTold(parent[f])'
  <2> SUFFICES ASSUME NEW f \in File, IsTold(f)'
               PROVE  IsTold(parent[f])'
    OBVIOUS
  <2>1. CASE IsTold(f)
    BY <1>1, <1>8, <2>1 DEF ToldInTurn
  <2>2. CASE f = Target
    <3>1. stack # <<>>
      BY <1>2, <2>2, FtwAssumption
    <3> QED BY <1>1, <1>2, <1>5, <1>8, <2>2, <3>1 DEF ToldInTurn, Top
  <2> QED BY <1>8, <2>1, <2>2
<1>14. ASSUME pc' = "grow"
       PROVE  /\ Found(Target) /\ \A f \in File : parent[f] = Target => ~IsTold(f)'
              /\ \A i \in DOMAIN told' : told'[i].name = Target => told'[i].type = "FTW_D"
  <2>1. pc = "stat" /\ t = "FTW_D" /\ Found(Target)
    BY <1>14
  <2>2. ~IsTold(Target)
    BY <1>1, <2>1 DEF ToldInTurn
  <2>3. ASSUME NEW f \in File, parent[f] = Target
        PROVE  ~IsTold(f)'
    <3>1. f # Target
      BY <1>2, <2>3, UpwardsEnds, UpwardsIs
    <3>2. ~IsTold(f)
      BY <1>1, <2>2, <2>3 DEF ToldInTurn
    <3> QED BY <1>8, <3>1, <3>2
  <2>4. \A i \in DOMAIN told : told[i].name # Target
    BY <2>2 DEF IsTold
  <2> QED BY <1>6, <1>7, <2>1, <2>3, <2>4
<1>15. ToldInTurn'
  <2>1. \A i \in DOMAIN told' : told'[i] \in Listing
    BY <1>1, <1>7, <1>9 DEF ToldInTurn
  <2>2. \A i, j \in DOMAIN told' : told'[i] = told'[j] => i = j
    BY <1>1, <1>7, <1>10 DEF ToldInTurn
  <2>3. \A i \in DOMAIN stack :
          /\ IsTold(stack[i].dir)'
          /\ \A f \in stack[i].left : parent[f] = stack[i].dir /\ ~IsTold(f)'
    BY <1>1, <1>8, <1>11 DEF ToldInTurn
  <2>4. pc' \notin {"start", "stat", "open"}
    OBVIOUS
  <2> QED BY <1>3, <1>4, <1>13, <1>14, <2>1, <2>2, <2>3, <2>4 DEF ToldInTurn
<1>16. ASSUME NEW f \in Before
       PROVE  f \in Before' \/ IsTold(f)'
  BY <1>8, <1>16 DEF Before
<1>17. NothingPassedOver'
  <2>1. IsTold(Root)' \/ Root \in Before'
    BY <1>1, <1>8, <1>16 DEF NothingPassedOver
  <2>2. pc' = "grow" => Entry(Target, "FTW_D") \in T'
    BY <1>8 DEF e
  <2>3. ASSUME NEW d \in Node, IsTold(d)', ~(pc' = "grow" /\ d = Target)
        PROVE  /\ \A u \in TypesOf(d) : Entry(d, u) \in T'
               /\ Openable(d) => \A f \in File : parent[f] = d => IsTold(f)' \/ f \in Before'
    <3>1. CASE d = Target
      <4>1. /\ pc' # "grow" /\ \A u \in TypesOf(Target) \ {t} : pc = "open" /\ u = "FTW_D"
            /\ Target \in tree.dir => ~Openable(Target)
        BY <2>3, <3>1
      <4>2. pc = "open" => Entry(Target, "FTW_D") \in T
        BY <1>1 DEF NothingPassedOver
      <4>3. \A u \in TypesOf(Target) : Entry(Target, u) \in T'
        BY <1>8, <4>1, <4>2 DEF e
      <4>4. \A f \in File : parent[f] \in tree.dir
        BY <1>2, Parents
      <4> QED BY <3>1, <4>1, <4>3, <4>4
    <3>2. CASE d # Target
      <4>1. IsTold(d) /\ ~(pc \in {"grow", "open"} /\ d = Target)
        BY <1>8, <2>3, <3>2
      <4>2. /\ \A u \in TypesOf(d) : Entry(d, u) \in T
            /\ Openable(d) => \A f \in File : parent[f] = d => IsTold(f) \/ f \in Before
        BY <1>1, <4>1 DEF NothingPassedOver
      <4> QED BY <1>8, <1>16, <4>2
    <3> QED BY <3>1, <3>2
  <2>4. pc' \notin {"up", "close", "open"} /\ (pc' = "done" => stack = <<>>)
    BY <1>5
  <2> HIDE DEF T
  <2> QED BY <1>3, <1>4, <2>1, <2>2, <2>3, <2>4 DEF NothingPassedOver, T
<1> QED BY <1>12, <1>15, <1>17 DEF WalkInv

LEMMA StatWalks == ASSUME WalkOK, Stat
                   PROVE  WalkInv'
<1>1. /\ pc = "stat" /\ UNCHANGED <<program, tree, parent, stack, path, strlen, moved, changes>>
      /\ pc \in Looking /\ PathInv /\ OpenAbove /\ changes = 0
  BY DEF WalkOK, WalkInv, Stat, Looking
<1>2. Cardinality(Ancestors(Target)) = Len(stack) /\ (Resolves <=> Found(Target))
  BY <1>1, TargetPlace, Looked
<1>3. CASE ~Resolves
  <2>1. TypesOf(Target) = {"FTW_NS"} /\ ~Openable(Target)
    BY <1>2, <1>3 DEF TypesOf, Openable
  <2>2. /\ told' = Append(told, Entry(Target, "FTW_NS"))
        /\ pc' = IF Len(stack) = 0 THEN "done" ELSE "read"
    BY <1>2, <1>3 DEF Stat, Tell, Return, Entry
  <2> QED BY <1>1, <2>1, <2>2, TellWalks
<1>4. CASE Resolves /\ Target \notin tree.dir
  <2>1. TypesOf(Target) = {"FTW_F"}
    BY <1>2, <1>4 DEF TypesOf
  <2>2. /\ told' = Append(told, Entry(Target, "FTW_F"))
        /\ pc' = IF Len(stack) = 0 THEN "done" ELSE "read"
    BY <1>2, <1>4 DEF Stat, Tell, Return, Entry
  <2> QED BY <1>1, <1>4, <2>1, <2>2, TellWalks
<1>5. CASE Resolves /\ Target \in tree.dir
  <2>1. "FTW_D" \in TypesOf(Target) /\ Found(Target)
    BY <1>2, <1>5 DEF TypesOf
  <2>2. told' = Append(told, Entry(Target, "FTW_D")) /\ pc' = "grow"
    BY <1>2, <1>5 DEF Stat, Tell, Entry
  <2> QED BY <1>1, <2>1, <2>2, TellWalks
<1> QED BY <1>3, <1>4, <1>5

\* A directory that cannot be opened is told again; nothing below it is.
LEMMA NoOpenDirWalks ==
  ASSUME WalkOK, OpenDir, ~(Resolves /\ Target \in tree.read /\ Len(stack) < FdLimit)
  PROVE  WalkInv'
<1>1. /\ pc = "open" /\ UNCHANGED <<program, tree, parent, stack, path, strlen, moved, changes>>
      /\ pc \in Looking /\ PathInv /\ OpenAbove /\ changes = 0 /\ ToldInTurn /\ StackOpened
      /\ pc' = IF Len(stack) = 0 THEN "done" ELSE "read"
  BY DEF WalkOK, WalkInv, OpenDir, Looking, Return, PathInv
<1>2. Found(Target) /\ Target \in tree.dir
  BY <1>1 DEF ToldInTurn, StackOpened
<1>3. Cardinality(Ancestors(Target)) = Len(stack) /\ ~Openable(Target)
  BY <1>1, <1>2, TargetPlace, Looked
<1>4. TypesOf(Target) = {"FTW_D", "FTW_DNR"}
  BY <1>2, <1>3 DEF TypesOf
<1>5. told' = Append(told, Entry(Target, "FTW_DNR"))
  BY <1>3 DEF OpenDir, Tell, Entry
<1> QED BY <1>1, <1>3, <1>4, <1>5, TellWalks

\* An open directory has all its entries before it.
LEMMA OpenDirWalks == ASSUME WalkOK, OpenDir
                      PROVE  WalkInv'
<1> DEFINE T == {told[i] : i \in DOMAIN told}
<1> SUFFICES ASSUME Resolves, Target \in tree.read, Len(stack) < FdLimit
             PROVE  WalkInv'
  BY NoOpenDirWalks
<1>1. /\ pc = "open" /\ UNCHANGED <<program, tree, parent, path, strlen, told, moved, changes>>
      /\ pc \in Looking /\ PathInv /\ FtwTypeOK /\ OpenAbove /\ changes = 0 /\ ToldInTurn
      /\ NothingPassedOver /\ StackOpened /\ pc' \in {"chdir", "read"}
      /\ program \in {"nochdir", "chdir"} /\ strlen \in Nat
  BY DEF WalkOK, WalkInv, OpenDir, Looking, PathInv, BufferInv, FtwTypeOK
<1>2. /\ Unchanged /\ Target \in Node /\ Target \notin Open /\ Ancestors(Target) = Open
      /\ Upwards(Target) = Open \cup {Target}
  BY <1>1, TargetPlace DEF OpenAbove
<1>3. Found(Target) /\ Openable(Target)
  BY <1>1, Looked DEF ToldInTurn
<1>4. Entry(Target, "FTW_D") \in T
  BY <1>1 DEF NothingPassedOver
<1>5. IsTold(Target) /\ \A f \in File : parent[f] = Target => ~IsTold(f)
  BY <1>1, <1>4 DEF ToldInTurn, IsTold, Entry
<1> DEFINE c == [dir |-> Target, n |-> strlen, left |-> Entries(Target)]
           l == Len(stack)
<1>6. /\ l \in Nat /\ DOMAIN stack = 1..l /\ stack \in Seq(Frame) /\ c \in Frame
      /\ stack' = Append(stack, c)
  BY <1>1, <1>2, StackFacts DEF Frame, Entries, OpenDir
<1>7. c.dir = Target /\ c.n = strlen /\ c.left = Entries(Target)
  OBVIOUS
<1> HIDE DEF c
<1>8. /\ Len(stack') = l + 1 /\ DOMAIN stack' = 1..(l + 1) /\ stack'[l + 1] = c
      /\ \A i \in 1..l : stack'[i] = stack[i]
  BY <1>6, AppendProperties
<1> HIDE DEF l
<1>9. /\ DOMAIN stack' = DOMAIN stack \cup {l + 1} /\ l + 1 \notin DOMAIN stack
      /\ \A i \in DOMAIN stack : 1..i \subseteq DOMAIN stack /\ stack'[i] = stack[i]
      /\ stack'[l + 1].dir = Target /\ stack'[l + 1].n = strlen
      /\ stack'[l + 1].left = Entries(Target)
  BY <1>6, <1>7, <1>8
<1>10. /\ \A f : /\ Upwards(f)' = Upwards(f) /\ Length(f)' = Length(f) /\ Found(f)' = Found(f)
                 /\ Openable(f)' = Openable(f) /\ TypesOf(f)' = TypesOf(f)
                 /\ IsTold(f)' = IsTold(f)
       /\ \A f, u : Entry(f, u)' = Entry(f, u)
       /\ Listing' = Listing
  BY <1>1, SameTree DEF IsTold
<1>11. OpenAbove'
  <2>1. \A i \in DOMAIN stack : stack[i].dir # Target
    BY <1>2 DEF Open
  <2>2. \A i, j \in DOMAIN stack' : stack'[i].dir = stack'[j].dir => i = j
    BY <1>1, <1>9, <2>1 DEF OpenAbove
  <2>3. ASSUME NEW i \in DOMAIN stack'
        PROVE  /\ Upwards(stack'[i].dir) = {stack'[j].dir : j \in 1..i}
               /\ Openable(stack'[i].dir)
               /\ program = "nochdir" => stack'[i].n = Length(stack'[i].dir) + 1
    <3>1. CASE i \in DOMAIN stack
      <4>1. {stack'[j].dir : j \in 1..i} = {stack[j].dir : j \in 1..i}
        BY <1>9, <3>1
      <4>2. stack'[i] = stack[i]
        BY <1>9, <3>1
      <4>3. /\ Upwards(stack[i].dir) = {stack[j].dir : j \in 1..i} /\ Openable(stack[i].dir)
            /\ program = "nochdir" => stack[i].n = Length(stack[i].dir) + 1
        BY <1>1, <3>1 DEF OpenAbove
      <4> QED BY <4>1, <4>2, <4>3
    <3>2. CASE i = l + 1
      <4>1. 1..i = DOMAIN stack \cup {i}
        BY <1>8, <1>9, <3>2
      <4>2. {stack'[j].dir : j \in 1..i} = Open \cup {Target}
        BY <1>9, <3>2, <4>1 DEF Open
      <4>3. program = "nochdir" => strlen = Length(Target) + 1
        BY <1>1 DEF OpenAbove, ByPath
      <4> QED BY <1>2, <1>3, <1>9, <3>2, <4>2, <4>3
    <3> QED BY <1>9, <3>1, <3>2
  <2>4. pc' \notin Looking
    BY <1>1 DEF Looking
  <2> QED BY <1>1, <1>10, <2>2, <2>3, <2>4 DEF OpenAbove
<1>12. ToldInTurn'
  <2>1. \A i \in DOMAIN stack' :
          /\ IsTold(stack'[i].dir)
          /\ \A f \in stack'[i].left : parent[f] = stack'[i].dir /\ ~IsTold(f)
    BY <1>1, <1>5, <1>9 DEF ToldInTurn, Entries
  <2> QED BY <1>1, <1>10, <2>1 DEF ToldInTurn
<1>13. ASSUME NEW f \in Node, f \in Before \/ (f \in File /\ parent[f] = Target)
       PROVE  f \in Before'
  <2>1. \E i \in DOMAIN stack' : f \in stack'[i].left
    BY <1>1, <1>9, <1>13 DEF Before, Entries
  <2> QED BY <1>13, <2>1 DEF Before
<1>14. NothingPassedOver'
  <2>1. IsTold(Root) \/ Root \in Before'
    BY <1>1, <1>13, FtwAssumption DEF NothingPassedOver, Before
  <2>2. ASSUME NEW d \in Node, IsTold(d)
        PROVE  /\ \A u \in TypesOf(d) : Entry(d, u) \in T
               /\ Openable(d) => \A f \in File : parent[f] = d => IsTold(f) \/ f \in Before'
    <3>1. CASE d = Target
      <4>1. Target \in tree.dir
        BY <1>1 DEF StackOpened
      <4>2. TypesOf(Target) = {"FTW_D"}
        BY <1>3, <4>1 DEF TypesOf
      <4> QED BY <1>4, <1>13, <3>1, <4>2 DEF Node
    <3>2. CASE d # Target
      BY <1>1, <1>13, <2>2, <3>2 DEF NothingPassedOver, Before
    <3> QED BY <3>1, <3>2
  <2> QED BY <1>1, <1>10, <2>1, <2>2 DEF NothingPassedOver
<1> QED BY <1>11, <1>12, <1>14 DEF WalkInv

LEMMA NextWalks == ASSUME PathInv, WalkInv, [Next]_vars
                   PROVE  WalkInv'
<1>1. changes \in 0..MaxChanges /\ MaxChanges \in Nat
  BY FtwAssumption DEF PathInv, BufferInv, FtwTypeOK
<1>2. ASSUME changes' # 0
      PROVE  WalkInv'
  BY <1>2 DEF WalkInv, OpenAbove, ToldInTurn, NothingPassedOver
<1>3. CASE changes # 0
  <2>1. changes' = changes \/ changes' = changes + 1
    BY DEF Next, Walk, MyFtw, Stat, Grow, OpenDir, ChDir, ReadDir, EndOfDir, ChDirUp, CloseDir,
           Abort, Change, vars
  <2> QED BY <1>1, <1>2, <1>3, <2>1
<1>4. CASE Change
  <2>1. changes' = changes + 1
    BY <1>4 DEF Change
  <2> QED BY <1>1, <1>2, <2>1
<1>5. CASE changes = 0
  <2>1. WalkOK
    BY <1>5 DEF WalkOK
  <2>2. CASE Grow \/ ChDir \/ EndOfDir \/ ChDirUp \/ Abort \/ UNCHANGED vars
    <3>1. UNCHANGED <<program, tree, parent, stack, path, told, moved, changes>>
      BY <2>2 DEF Grow, ChDir, EndOfDir, ChDirUp, Abort, vars
    <3>2. \/ /\ pc = "grow" /\ pc' = "open" /\ strlen' = strlen + 1
          \/ /\ pc = "chdir" /\ pc' = "read"
          \/ /\ pc = "read" /\ pc' \in {"up", "close"}
             /\ \A f \in Top.left : parent[f] # Top.dir
          \/ /\ pc = "up" /\ pc' = "close"
          \/ pc' = "failed"
          \/ pc' = pc /\ strlen' = strlen
      BY <2>2 DEF Grow, ChDir, EndOfDir, ChDirUp, Abort, vars
    <3> QED BY <2>1, <3>1, <3>2, AsidePreserves
  <2> QED BY <1>4, <2>1, <2>2, MyFtwWalks, StatWalks, OpenDirWalks, ReadDirWalks, CloseDirWalks
           DEF Next, Walk
<1> QED BY <1>3, <1>5

\* The open directories are those above the file looked at, and what a walk
\* has told and what it has before it are, together, what it should tell.
THEOREM FtwInductive == FtwSpec => []FtwInv
<1>1. FtwInit => WalkInv
  <2> SUFFICES ASSUME FtwInit
               PROVE  WalkInv
    OBVIOUS
  <2>1. /\ pc = "start" /\ stack = <<>> /\ told = <<>> /\ DOMAIN stack = {} /\ DOMAIN told = {}
        /\ parent = tree.parent /\ moved = {}
    BY DEF FtwInit
  <2>2. \A f : ~IsTold(f)
    BY <2>1 DEF IsTold
  <2> QED BY <2>1, <2>2 DEF WalkInv, OpenAbove, ToldInTurn, NothingPassedOver, Looking
<1>2. PathInv /\ WalkInv /\ [Next]_vars => WalkInv'
  BY NextWalks
<1>3. FtwSpec => []WalkInv
  BY <1>1, <1>2, PathInductive, PTL DEF FtwSpec
<1>4. PathInv /\ WalkInv => FtwInv
  BY DEF FtwInv
<1> QED BY <1>3, <1>4, PathInductive, PTL

-----------------------------------------------------------------------------
(* The end of the walk.                                                    *)

\* A file that could be reached and was not told has, somewhere above it, one
\* in a directory that was told; but nothing of that was passed over.
LEMMA AllReachedTold ==
  ASSUME PathInv, WalkInv, changes = 0, pc = "done"
  PROVE  \A f \in Reached : IsTold(f)
<1> DEFINE S == {f \in Reached : ~IsTold(f)}
<1>1. ToldInTurn /\ NothingPassedOver /\ Unchanged
  BY DEF WalkInv, PathInv, BufferInv, OpenAbove, Unchanged
<1>2. Before = {}
  <2>1. stack = <<>>
    BY <1>1 DEF NothingPassedOver
  <2>2. DOMAIN stack = {}
    BY <2>1
  <2> QED BY <2>2 DEF Before
<1>3. S \in SUBSET File
  BY <1>1, <1>2 DEF NothingPassedOver, Reached, Node
<1>4. ASSUME NEW f \in S
      PROVE  parent[f] \in S
  <2>1. f \in File /\ f \in Reached /\ ~IsTold(f) /\ parent[f] \in Node
    BY <1>1, <1>3, Parents
  <2>2. Ancestors(f) = Upwards(parent[f])
    BY <1>1, <2>1, UpwardsFrom, UpwardsEnds DEF Ancestors
  <2>3. parent[f] \in Ancestors(f) /\ Ancestors(parent[f]) \subseteq Ancestors(f)
    BY <2>1, <2>2, UpwardsIs DEF Ancestors
  <2>4. parent[f] \in Reached /\ Openable(parent[f])
    BY <2>1, <2>3 DEF Reached
  <2>5. ~IsTold(parent[f])
    BY <1>1, <1>2, <2>1, <2>4 DEF NothingPassedOver
  <2> QED BY <2>4, <2>5
<1> HIDE DEF S
<1>5. S = {}
  BY <1>1, <1>3, <1>4, Parents
<1> QED BY <1>5 DEF S

\* nochdir.c and chdir.c tell, of a tree that nobody changes, each file that
\* can be reached once, with the right type and depth.
THEOREM FtwCompleteWalk == FtwSpec => []CompleteWalk
<1>1. FtwInv => CompleteWalk
  <2> DEFINE T == {told[i] : i \in DOMAIN told}
  <2> SUFFICES ASSUME PathInv, WalkInv, pc = "done", changes = 0
               PROVE  T = Listing /\ Len(told) = Cardinality(Listing)
    BY DEF CompleteWalk, FtwInv
  <2>1. ToldInTurn /\ NothingPassedOver /\ FtwTypeOK
    BY DEF WalkInv, PathInv, BufferInv
  <2>2. T \subseteq Listing
    BY <2>1 DEF ToldInTurn
  <2>3. ASSUME NEW x \in Listing
        PROVE  x \in T
    <3>1. PICK f \in Reached : x \in {Entry(f, t) : t \in TypesOf(f)}
      BY DEF Listing
    <3>2. f \in Node /\ IsTold(f)
      BY AllReachedTold DEF Reached
    <3>3. \A t \in TypesOf(f) : Entry(f, t) \in T
      BY <2>1, <3>2 DEF NothingPassedOver
    <3> QED BY <3>1, <3>3
  <2>4. T = Listing
    BY <2>2, <2>3
  <2> DEFINE m == Len(told)
  <2>5. m \in Nat /\ DOMAIN told = 1..m
    BY <2>1 DEF FtwTypeOK
  <2> HIDE DEF m
  <2> DEFINE b == [i \in 1..m |-> told[i]]
  <2>6. b \in Injection(1..m, T)
    BY <2>1, <2>5 DEF Injection, IsInjective, ToldInTurn
  <2>7. \A x \in T : \E i \in 1..m : b[i] = x
    BY <2>5
  <2> HIDE DEF T, b
  <2>8. Cardinality(T) = m
    BY <2>5, <2>6, <2>7, Numbered
  <2> QED BY <2>4, <2>8 DEF m
<1> QED BY <1>1, FtwInductive, PTL

-----------------------------------------------------------------------------
(* Vfs: the memory of the module, and who mounts it.                       *)


\* The cyclic element counter is zero again only after the last element.
LEMMA NextElement ==
  ASSUME NEW e \in Elem
  PROVE  (e + 1) % ELEM_NUM = IF e = ELEM_NUM - 1 THEN 0 ELSE e + 1
<1>1. CASE e = ELEM_NUM - 1
  BY <1>1, VfsAssumption, SMTT(20) DEF Elem
<1>2. CASE e # ELEM_NUM - 1
  <2>1. e + 1 \in Nat /\ e + 1 < ELEM_NUM
    BY <1>2, VfsAssumption DEF Elem
  <2>2. \A x \in Nat : x < ELEM_NUM => x % ELEM_NUM = x
    BY VfsAssumption, SMTT(20)
  <2> QED BY <1>2, <2>1, <2>2
<1> QED BY <1>1, <1>2

LEMMA InitEstablishesVfs == VfsInit => VfsInv
<1> SUFFICES ASSUME VfsInit PROVE VfsInv
  OBVIOUS
<1>1. VfsTypeOK
  <2>1. 0 \in Elem /\ 0 \in 0..MaxFails /\ 0 \in 0..MaxLoads
    BY VfsAssumption DEF Elem
  <2>2. /\ elem \in [Elem -> {"null", "live", "freed"}]
        /\ mpc \in [Mounter -> {"idle", "inode", "root", "mounted", "kill"}]
        /\ inode \in [Mounter -> {"none", "live", "freed"}]
    BY DEF VfsInit
  <2>3. refs \in Int /\ n \in Elem /\ fails \in 0..MaxFails /\ loads \in 0..MaxLoads
    BY <2>1 DEF VfsInit
  <2> QED BY <2>2, <2>3 DEF VfsInit, VfsTypeOK
<1>2. MemoryByPhase
  BY DEF VfsInit, MemoryByPhase
<1>3. ReferencesCounted
  <2>1. Busy = {}
    BY DEF VfsInit, Busy
  <2> QED BY <2>1, FS_EmptySet DEF VfsInit, ReferencesCounted
<1>4. NothingLeft /\ OopsNeedsFailedRoot
  BY DEF VfsInit, NothingLeft, OopsNeedsFailedRoot
<1> QED BY <1>1, <1>2, <1>3, <1>4 DEF VfsInv

\* A bound counter after a call that may fail.
LEMMA FailsBounded == ASSUME fails \in 0..MaxFails, NEW failed \in BOOLEAN, MayFail(failed)
                      PROVE  fails' \in 0..MaxFails
BY VfsAssumption DEF MayFail

\* Steps of insmod and rmmod touch no mount.
LEMMA MountsAside ==
  ASSUME VfsInv, UNCHANGED mountVars, oops = FALSE,
         Busy # {} => lpc' = "loaded"
  PROVE  ReferencesCounted'
<1>1. Busy' = Busy
  BY DEF Busy, mountVars
<1> QED BY <1>1 DEF VfsInv, ReferencesCounted, mountVars

LEMMA InitStepPreserves ==
  ASSUME VfsInv, Load \/ CreateCache \/ AllocateArray \/ Fill \/ Register
  PROVE  VfsInv'
<1>1. /\ VfsTypeOK /\ MemoryByPhase /\ ReferencesCounted /\ OopsNeedsFailedRoot
      /\ oops = FALSE /\ UNCHANGED <<mountVars, oops>>
  BY DEF VfsInv, VfsTypeOK, Load, CreateCache, AllocateArray, Fill, Register, Goto
<1>2. ReferencesCounted' /\ OopsNeedsFailedRoot'
  <2>1. Busy = {}
    BY <1>1 DEF ReferencesCounted, Load, CreateCache, AllocateArray, Fill, Register, Goto
  <2> QED BY <1>1, <2>1, MountsAside DEF OopsNeedsFailedRoot, mountVars
<1>3. CASE Load
  <2>1. 0 \in Elem /\ loads' \in 0..MaxLoads
    BY <1>1, <1>3, VfsAssumption DEF Load, VfsTypeOK, Elem
  <2>2. VfsTypeOK'
    BY <1>1, <1>3, <2>1 DEF Load, Goto, VfsTypeOK, mountVars
  <2>3. MemoryByPhase' /\ NothingLeft'
    BY <1>1, <1>3 DEF Load, Goto, MemoryByPhase, NothingLeft
  <2> QED BY <1>2, <2>2, <2>3 DEF VfsInv
<1>4. CASE CreateCache
  <2>1. PICK failed \in BOOLEAN :
          /\ Goto("cache", IF failed THEN "unloaded" ELSE "array") /\ MayFail(failed)
          /\ vfs_slab' = IF failed THEN "null" ELSE "live"
          /\ UNCHANGED <<n, struct_arr, elem, rc, registered, mountVars, oops, loads>>
    BY <1>4 DEF CreateCache
  <2>2. VfsTypeOK'
    BY <1>1, <2>1, FailsBounded DEF Goto, VfsTypeOK, mountVars
  <2>3. MemoryByPhase' /\ NothingLeft'
    BY <1>1, <2>1 DEF Goto, MemoryByPhase, NothingLeft
  <2> QED BY <1>2, <2>2, <2>3 DEF VfsInv
<1>5. CASE AllocateArray
  <2>1. PICK failed \in BOOLEAN :
          /\ Goto("array", IF failed THEN "free" ELSE "fill") /\ MayFail(failed)
          /\ struct_arr' = IF failed THEN "null" ELSE "live"
          /\ rc' = failed
          /\ UNCHANGED <<n, vfs_slab, elem, registered, mountVars, oops, loads>>
    BY <1>5 DEF AllocateArray
  <2>2. VfsTypeOK'
    BY <1>1, <2>1, FailsBounded DEF Goto, VfsTypeOK, mountVars
  <2>3. MemoryByPhase' /\ NothingLeft'
    BY <1>1, <2>1 DEF Goto, VfsTypeOK, MemoryByPhase, NothingLeft, Elem
  <2> QED BY <1>2, <2>2, <2>3 DEF VfsInv
<1>6. CASE Fill
  <2>1. PICK failed \in BOOLEAN :
          /\ MayFail(failed) /\ n' = IF failed THEN 0 ELSE (n + 1) % ELEM_NUM
          /\ Goto("fill", IF failed THEN "free" ELSE IF n' = 0 THEN "register" ELSE "fill")
          /\ elem' = IF failed THEN elem ELSE [elem EXCEPT ![n] = "live"]
          /\ rc' = failed
          /\ UNCHANGED <<vfs_slab, struct_arr, registered, mountVars, oops, loads>>
    BY <1>6 DEF Fill
  <2>2. n \in Elem /\ n' = IF failed \/ n = ELEM_NUM - 1 THEN 0 ELSE n + 1
    BY <1>1, <2>1, NextElement DEF VfsTypeOK
  <2>3. n' \in Elem /\ elem' \in [Elem -> {"null", "live", "freed"}]
    BY <1>1, <2>1, <2>2, VfsAssumption DEF VfsTypeOK, Elem
  <2>4. VfsTypeOK'
    BY <1>1, <2>1, <2>3, FailsBounded DEF Goto, VfsTypeOK, mountVars
  <2>5. MemoryByPhase'
    <3>1. CASE failed
      BY <1>1, <2>1, <2>2, <3>1 DEF Goto, MemoryByPhase, Elem
    <3>2. CASE ~failed
      <4>1. \A e \in Elem : elem'[e] = IF e <= n THEN "live" ELSE "null"
        BY <1>1, <2>1, <2>2, <3>2 DEF Goto, MemoryByPhase, VfsTypeOK, Elem
      <4>2. CASE n = ELEM_NUM - 1
        <5>1. \A e \in Elem : elem'[e] = "live"
          BY <4>1, <4>2, VfsAssumption DEF Elem
        <5> QED BY <1>1, <2>1, <2>2, <3>2, <4>2, <5>1 DEF Goto, MemoryByPhase
      <4>3. CASE n # ELEM_NUM - 1
        <5>1. n' = n + 1 /\ n' # 0 /\ \A e \in Elem : e < n' <=> e <= n
          BY <2>2, <3>2, <4>3 DEF Elem
        <5>2. lpc' = "fill" /\ lpc = "fill"
          BY <2>1, <3>2, <5>1 DEF Goto
        <5> QED BY <1>1, <2>1, <3>2, <4>1, <5>1, <5>2 DEF MemoryByPhase
      <4> QED BY <4>2, <4>3
    <3> QED BY <3>1, <3>2
  <2>6. NothingLeft'
    BY <2>1 DEF Goto, NothingLeft
  <2> QED BY <1>2, <2>4, <2>5, <2>6 DEF VfsInv
<1>7. CASE Register
  <2>1. PICK failed \in BOOLEAN :
          /\ Goto("register", IF failed THEN "free" ELSE "loaded") /\ MayFail(failed)
          /\ registered' = ~failed /\ rc' = failed
          /\ UNCHANGED <<n, vfs_slab, struct_arr, elem, mountVars, oops, loads>>
    BY <1>7 DEF Register
  <2>2. VfsTypeOK'
    BY <1>1, <2>1, FailsBounded DEF Goto, VfsTypeOK, mountVars
  <2>3. MemoryByPhase' /\ NothingLeft'
    <3>1. CASE failed
      <4>1. lpc' = "free" /\ registered' = FALSE /\ rc' = TRUE /\ lpc = "register"
        BY <2>1, <3>1 DEF Goto
      <4>2. UNCHANGED <<n, vfs_slab, struct_arr, elem>>
        BY <2>1
      <4>3. struct_arr = "live" /\ n = 0 /\ \A e \in Elem : e >= n /\ elem[e] # "freed"
        BY <1>1, <4>1 DEF MemoryByPhase, Elem
      <4> QED BY <1>1, <4>1, <4>2, <4>3 DEF MemoryByPhase, NothingLeft
    <3>2. CASE ~failed
      BY <1>1, <2>1, <3>2 DEF Goto, MemoryByPhase, NothingLeft
    <3> QED BY <3>1, <3>2
  <2> QED BY <1>2, <2>2, <2>3 DEF VfsInv
<1> QED BY <1>3, <1>4, <1>5, <1>6, <1>7

LEMMA ExitStepPreserves ==
  ASSUME VfsInv, Unload \/ FreeElement \/ DestroyCache \/ Unregister
  PROVE  VfsInv'
<1>1. /\ VfsTypeOK /\ MemoryByPhase /\ ReferencesCounted /\ OopsNeedsFailedRoot
      /\ oops = FALSE /\ UNCHANGED <<mountVars, fails, loads>>
  BY DEF VfsInv, VfsTypeOK, Unload, FreeElement, DestroyCache, Unregister, Goto
<1>2. ReferencesCounted'
  <2>1. CASE Unload
    <3>1. Busy \subseteq Mounter /\ IsFiniteSet(Busy)
      BY VfsAssumption, FS_Subset DEF Busy
    <3>2. Busy = {}
      BY <1>1, <2>1, <3>1, FS_EmptySet DEF Unload, ReferencesCounted
    <3> QED BY <1>1, <3>2, MountsAside
  <2>2. CASE FreeElement \/ DestroyCache \/ Unregister
    <3>1. Busy = {}
      BY <1>1, <2>2 DEF FreeElement, DestroyCache, Unregister, Goto, ReferencesCounted
    <3> QED BY <1>1, <3>1, MountsAside
  <2> QED BY <2>1, <2>2
<1>3. CASE Unload
  <2>1. VfsTypeOK' /\ MemoryByPhase' /\ NothingLeft' /\ OopsNeedsFailedRoot'
    BY <1>1, <1>3 DEF Unload, Goto, VfsTypeOK, MemoryByPhase, NothingLeft,
       OopsNeedsFailedRoot, memVars, mountVars, Elem
  <2> QED BY <1>2, <2>1 DEF VfsInv
<1>4. CASE FreeElement
  <2>1. n \in Elem /\ n' = IF n = ELEM_NUM - 1 THEN 0 ELSE n + 1
    BY <1>1, <1>4, NextElement DEF FreeElement, VfsTypeOK
  <2>2. elem[n] # "freed" /\ vfs_slab = "live" /\ oops' = FALSE
    <3>1. vfs_slab = "live" /\ (n >= n => elem[n] # "freed")
      BY <1>1, <1>4, <2>1 DEF FreeElement, MemoryByPhase
    <3>2. n >= n
      BY <2>1 DEF Elem
    <3> QED BY <1>4, <3>1, <3>2 DEF FreeElement
  <2>3. n' \in Elem /\ elem' \in [Elem -> {"null", "live", "freed"}]
    BY <1>1, <1>4, <2>1, VfsAssumption DEF FreeElement, VfsTypeOK, Elem
  <2>4. VfsTypeOK'
    BY <1>1, <1>4, <2>2, <2>3 DEF FreeElement, VfsTypeOK, mountVars
  <2>5. \A e \in Elem : IF e > n THEN elem'[e] # "freed" ELSE elem'[e] # "live"
    BY <1>1, <1>4, <2>1 DEF FreeElement, MemoryByPhase, VfsTypeOK, Elem
  <2>6. \A e \in Elem : e > n => e >= n'
    BY <2>1 DEF Elem
  <2>7. n # ELEM_NUM - 1 => \A e \in Elem : e >= n' => e > n
    BY <2>1 DEF Elem
  <2>8. n = ELEM_NUM - 1 => \A e \in Elem : ~(e > n)
    BY <2>1, VfsAssumption DEF Elem
  <2>9. MemoryByPhase'
    <3>1. n = ELEM_NUM - 1 <=> n' = 0
      BY <2>1 DEF Elem
    <3> QED BY <1>1, <1>4, <2>5, <2>6, <2>7, <2>8, <3>1 DEF FreeElement, MemoryByPhase
  <2>10. NothingLeft' /\ OopsNeedsFailedRoot'
    BY <1>4, <2>2 DEF FreeElement, NothingLeft, OopsNeedsFailedRoot
  <2> QED BY <1>2, <2>4, <2>9, <2>10 DEF VfsInv
<1>5. CASE DestroyCache
  <2>1. vfs_slab = "live" /\ (\A e \in Elem : elem[e] # "live") /\ oops' = FALSE
    BY <1>1, <1>5 DEF DestroyCache, Goto, MemoryByPhase
  <2>2. VfsTypeOK'
    BY <1>1, <1>5, <2>1 DEF DestroyCache, Goto, VfsTypeOK, mountVars
  <2>3. MemoryByPhase' /\ NothingLeft' /\ OopsNeedsFailedRoot'
    BY <1>1, <1>5, <2>1 DEF DestroyCache, Goto, VfsTypeOK, MemoryByPhase, NothingLeft,
       OopsNeedsFailedRoot
  <2> QED BY <1>2, <2>2, <2>3 DEF VfsInv
<1>6. CASE Unregister
  <2>1. VfsTypeOK' /\ MemoryByPhase' /\ NothingLeft' /\ OopsNeedsFailedRoot'
    BY <1>1, <1>6 DEF Unregister, Goto, VfsTypeOK, MemoryByPhase, NothingLeft,
       OopsNeedsFailedRoot, memVars, mountVars, Elem
  <2> QED BY <1>2, <2>1 DEF VfsInv
<1> QED BY <1>3, <1>4, <1>5, <1>6

-----------------------------------------------------------------------------
(* Mounts.                                                                 *)

\* The mounts under way, and with them the references, change one at a time.
LEMMA BusyChange ==
  ASSUME VfsInv, NEW m \in Mounter, NEW to \in {"idle", "inode", "root", "mounted", "kill"},
         mpc' = [mpc EXCEPT ![m] = to]
  PROVE  /\ IsFiniteSet(Busy) /\ (mpc[m] # "idle" <=> m \in Busy)
         /\ Busy' = IF to = "idle" THEN Busy \ {m} ELSE Busy \cup {m}
         /\ mpc' \in [Mounter -> {"idle", "inode", "root", "mounted", "kill"}]
<1>1. mpc \in [Mounter -> {"idle", "inode", "root", "mounted", "kill"}]
  BY DEF VfsInv, VfsTypeOK
<1>2. IsFiniteSet(Busy)
  BY VfsAssumption, FS_Subset DEF Busy
<1> QED BY <1>1, <1>2 DEF Busy

LEMMA FindPreserves == ASSUME VfsInv, NEW m \in Mounter, Find(m)
                       PROVE  VfsInv'
<1>1. /\ VfsTypeOK /\ MemoryByPhase /\ ReferencesCounted /\ NothingLeft
      /\ OopsNeedsFailedRoot
  BY DEF VfsInv
<1>2. /\ mpc[m] = "idle" /\ mpc' = [mpc EXCEPT ![m] = "inode"] /\ refs' = refs + 1
      /\ UNCHANGED <<lpc, memVars, registered, inode, rootFails, oops, fails, loads>>
  BY DEF Find, MountGoto
<1>3. lpc = "loaded"
  BY <1>1 DEF Find, Going, MemoryByPhase
<1>4. IsFiniteSet(Busy) /\ m \notin Busy /\ Busy' = Busy \cup {m}
  BY <1>2, BusyChange
<1>5. Cardinality(Busy \cup {m}) = Cardinality(Busy) + 1
  BY <1>4, FS_AddElement
<1>6. ReferencesCounted'
  BY <1>1, <1>2, <1>3, <1>4, <1>5 DEF ReferencesCounted
<1>7. VfsTypeOK'
  <2>1. refs' \in Int /\ mpc' \in [Mounter -> {"idle", "inode", "root", "mounted", "kill"}]
    BY <1>1, <1>2 DEF VfsTypeOK
  <2> QED BY <1>1, <1>2, <2>1 DEF VfsTypeOK, memVars
<1>8. MemoryByPhase' /\ NothingLeft' /\ OopsNeedsFailedRoot'
  BY <1>1, <1>2 DEF MemoryByPhase, NothingLeft, OopsNeedsFailedRoot, memVars
<1> QED BY <1>6, <1>7, <1>8 DEF VfsInv

LEMMA MountStepPreserves ==
  ASSUME VfsInv, NEW m \in Mounter, NewInode(m) \/ MakeRoot(m) \/ Unmount(m)
  PROVE  VfsInv'
<1>1. /\ VfsTypeOK /\ MemoryByPhase /\ ReferencesCounted /\ NothingLeft
      /\ OopsNeedsFailedRoot
  BY DEF VfsInv
<1>2. PICK to \in {"root", "mounted", "kill"} :
        mpc[m] # "idle" /\ mpc' = [mpc EXCEPT ![m] = to]
  BY DEF NewInode, MakeRoot, Unmount, MountGoto
<1>3. UNCHANGED <<lpc, memVars, registered, refs, loads>> /\ oops = FALSE
  BY <1>1 DEF NewInode, MakeRoot, Unmount, MountGoto, VfsTypeOK
<1>4. Busy' = Busy /\ mpc' \in [Mounter -> {"idle", "inode", "root", "mounted", "kill"}]
  <2>1. to # "idle" /\ to \in {"idle", "inode", "root", "mounted", "kill"}
    BY <1>2
  <2>2. m \in Busy /\ Busy' = Busy \cup {m}
           /\ mpc' \in [Mounter -> {"idle", "inode", "root", "mounted", "kill"}]
    BY <1>2, <2>1, BusyChange
  <2> QED BY <2>2
<1>5. /\ fails' \in 0..MaxFails /\ inode' \in [Mounter -> {"none", "live", "freed"}]
      /\ oops' \in BOOLEAN /\ rootFails' \in BOOLEAN
      /\ (\E i \in Mounter : inode'[i] = "freed") => oops'
      /\ oops' => rootFails'
  <2>1. \A i \in Mounter : inode[i] # "freed"
    BY <1>1, <1>3 DEF ReferencesCounted
  <2>2. CASE NewInode(m)
    BY <1>1, <1>3, <2>1, <2>2, FailsBounded DEF NewInode, VfsTypeOK
  <2>3. CASE MakeRoot(m)
    BY <1>1, <1>3, <2>1, <2>3, FailsBounded DEF MakeRoot, VfsTypeOK
  <2>4. CASE Unmount(m)
    BY <1>1, <1>3, <2>1, <2>4 DEF Unmount, VfsTypeOK
  <2> QED BY <2>2, <2>3, <2>4
<1>6. VfsTypeOK'
  BY <1>1, <1>3, <1>4, <1>5 DEF VfsTypeOK, memVars
<1>7. ReferencesCounted' /\ OopsNeedsFailedRoot'
  BY <1>1, <1>3, <1>4, <1>5 DEF ReferencesCounted, OopsNeedsFailedRoot
<1>8. MemoryByPhase' /\ NothingLeft'
  BY <1>1, <1>3 DEF MemoryByPhase, NothingLeft, memVars
<1> QED BY <1>6, <1>7, <1>8 DEF VfsInv

LEMMA KillSbPreserves == ASSUME VfsInv, NEW m \in Mounter, KillSb(m)
                         PROVE  VfsInv'
<1>1. /\ VfsTypeOK /\ MemoryByPhase /\ ReferencesCounted /\ NothingLeft
      /\ OopsNeedsFailedRoot
  BY DEF VfsInv
<1>2. /\ mpc[m] = "kill" /\ mpc' = [mpc EXCEPT ![m] = "idle"] /\ refs' = refs - 1
      /\ inode' = [inode EXCEPT ![m] = "none"] /\ oops = FALSE
      /\ oops' = (lpc = "unloaded" \/ inode[m] = "freed")
      /\ UNCHANGED <<lpc, memVars, registered, rootFails, fails, loads>>
  BY <1>1 DEF KillSb, MountGoto, VfsTypeOK
<1>3. IsFiniteSet(Busy) /\ m \in Busy /\ Busy' = Busy \ {m}
  BY <1>2, BusyChange
<1>4. lpc = "loaded" /\ oops' = FALSE
  BY <1>1, <1>2, <1>3 DEF ReferencesCounted
<1>5. Cardinality(Busy \ {m}) = Cardinality(Busy) - 1
  BY <1>3, FS_RemoveElement
<1>6. ReferencesCounted'
  BY <1>1, <1>2, <1>3, <1>4, <1>5 DEF ReferencesCounted, VfsTypeOK
<1>7. VfsTypeOK'
  <2>1. /\ refs' \in Int /\ inode' \in [Mounter -> {"none", "live", "freed"}]
        /\ mpc' \in [Mounter -> {"idle", "inode", "root", "mounted", "kill"}]
    BY <1>1, <1>2 DEF VfsTypeOK
  <2> QED BY <1>1, <1>2, <1>4, <2>1 DEF VfsTypeOK, memVars
<1>8. MemoryByPhase' /\ NothingLeft' /\ OopsNeedsFailedRoot'
  BY <1>1, <1>2, <1>4 DEF MemoryByPhase, NothingLeft, OopsNeedsFailedRoot, memVars
<1> QED BY <1>6, <1>7, <1>8 DEF VfsInv

-----------------------------------------------------------------------------

LEMMA VfsInvStep == ASSUME VfsInv, [VfsNext]_vfsVars
                    PROVE  VfsInv'
<1>1. CASE Load \/ Loader \/ Unload
  BY <1>1, InitStepPreserves, ExitStepPreserves DEF Loader
<1>2. ASSUME NEW m \in Mounter,
             Find(m) \/ NewInode(m) \/ MakeRoot(m) \/ Unmount(m) \/ KillSb(m)
      PROVE  VfsInv'
  BY <1>2, FindPreserves, MountStepPreserves, KillSbPreserves
<1>3. CASE UNCHANGED vfsVars
  BY <1>3 DEF vfsVars, memVars, mountVars, VfsInv, VfsTypeOK, MemoryByPhase,
     ReferencesCounted, Busy, NothingLeft, OopsNeedsFailedRoot
<1> QED BY <1>1, <1>2, <1>3 DEF VfsNext

\* Whatever fails while the module is loaded, and whenever it is unloaded, no
\* object stays behind, and freed memory is used only after a d_make_root()
\* that failed, for any number of objects, mounts and failures.
THEOREM VfsInductive == VfsSpec => []VfsInv
<1>1. VfsInv /\ [VfsNext]_vfsVars => VfsInv'
  BY VfsInvStep
<1> QED BY <1>1, InitEstablishesVfs, PTL DEF VfsSpec

\* A process that mounts, or has mounted, the file system keeps the module and
\* its memory.
THEOREM VfsStaysWhileMounted == VfsSpec => []MountedIsLoaded
<1>1. VfsInv => MountedIsLoaded
  <2> SUFFICES ASSUME VfsInv, NEW m \in Mounter, mpc[m] # "idle"
               PROVE  lpc = "loaded" /\ struct_arr = "live" /\ vfs_slab = "live"
    BY DEF MountedIsLoaded
  <2>1. Busy # {}
    BY DEF Busy
  <2> QED BY <2>1 DEF VfsInv, ReferencesCounted, MemoryByPhase
<1> QED BY <1>1, VfsInductive, PTL
=============================================================================
