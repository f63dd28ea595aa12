------------------------------ MODULE Keyboard ------------------------------
(***************************************************************************)
(* lab_07: two modules with a keyboard interrupt handler, my-workqueue.c,  *)
(* which hands the scan code to two work items, and tasklet.c, which hands *)
(* it to a tasklet.  The module is loaded and unloaded on another          *)
(* processor.  One variable tells the two apart; the tasklet is item 1.    *)
(*                                                                         *)
(* The kernel's side is modelled from how the modules use it: interrupts   *)
(* of one line do not overlap, free_irq() waits for a running handler,     *)
(* queue_work() and tasklet_schedule() do nothing while the item is still  *)
(* pending, its pending bit is cleared before its function is called and   *)
(* no item runs twice at a time.  A tasklet's function is given the data   *)
(* as it was then; a work function reads the item itself.  The first use   *)
(* of memory that is not there (NULL, not initialised, freed) ends the     *)
(* behaviour with `oops'.                                                  *)
(***************************************************************************)
EXTENDS Integers

CONSTANTS Press, Release,  \* scan codes without and with bit 0x80
          Known,           \* releases of keys that the table of names has
          MaxKeys,         \* bound: interrupts
          MaxFails,        \* bound: failing allocations
          MaxLoads         \* bound: insmod calls

ASSUME KbAssumption == /\ Press \cap Release = {} /\ Known \subseteq Release
                       /\ MaxKeys \in Nat /\ MaxFails \in Nat /\ MaxLoads \in Nat

VARIABLES
  driver,      \* "workqueue" or "tasklet"
  lpc,         \* insmod and rmmod: the module's init and exit functions
  irq,         \* the handler is registered
  workqueue,   \* "null", "live", or "freed"
  mem,         \* work1 and work2, or tasklet: "null", "raw", "ready", "freed"
  layout_size, \* set (TRUE) or still zero
  hpc, code,   \* the handler: where, and the last scan code it read
  work_code,   \* work->code of both items, or tasklet->data
  pending, wpc,      \* the pending bit of each item, and its function
  arg,               \* what the tasklet's function was called with
  seen, report,      \* history: last code each function read, and what it printed
  unsafe,            \* history: a handler step in the window where it is unsafe
  oops, keys, fails, loads

moduleVars == <<driver, lpc, irq, workqueue, mem, layout_size>>
handlerVars == <<hpc, code, work_code>>
workVars == <<pending, wpc, arg>>
boundVars == <<keys, fails, loads>>
vars == <<moduleVars, handlerVars, workVars, seen, report, unsafe, oops, boundVars>>

Item == {1, 2}
Items == IF driver = "workqueue" THEN Item ELSE {1}
Code == Press \cup Release
NoCode == "none"
Nothing == [code |-> NoCode, named |-> FALSE]
Idle == pending = [w \in Item |-> FALSE] /\ wpc = [w \in Item |-> "idle"]

KbInit ==
  /\ driver \in {"workqueue", "tasklet"}
  /\ lpc = "unloaded" /\ irq = FALSE /\ workqueue = "null"
  /\ mem = [w \in Item |-> "null"] /\ layout_size = FALSE
  /\ hpc = "idle" /\ code = NoCode /\ work_code = [w \in Item |-> NoCode]
  /\ pending = [w \in Item |-> FALSE] /\ wpc = [w \in Item |-> "idle"] /\ arg = NoCode
  /\ seen = [w \in Item |-> NoCode] /\ report = [w \in Item |-> Nothing]
  /\ unsafe = FALSE /\ oops = FALSE
  /\ keys = 0 /\ fails = 0 /\ loads = 0

-----------------------------------------------------------------------------
(* Loading and unloading: each step leaves the registration of the handler,*)
(* the queue and the two items as given.                                   *)

LoaderStep(from, to, handler, queue, items) ==
  /\ ~oops /\ lpc = from /\ lpc' = to
  /\ irq' = handler /\ workqueue' = queue /\ mem' = items
  /\ UNCHANGED <<driver, hpc, workVars, unsafe, oops, keys>>

LoaderOnly == UNCHANGED <<code, work_code, seen, report, layout_size, fails, loads>>

\* insmod: the static variables of the module are fresh.
Load ==
  /\ LoaderStep("unloaded", IF driver = "workqueue" THEN "create" ELSE "alloc1",
                TRUE, "null", [w \in Item |-> "null"])
  /\ loads < MaxLoads /\ loads' = loads + 1
  /\ layout_size' = FALSE /\ code' = NoCode /\ work_code' = [w \in Item |-> NoCode]
  /\ seen' = [w \in Item |-> NoCode] /\ report' = [w \in Item |-> Nothing]
  /\ UNCHANGED fails

Initialise ==
  /\ \/ /\ driver = "workqueue"
        /\ \/ LoaderStep("create", "alloc1", irq, "live", mem)
           \/ LoaderStep("alloc1", "alloc2", irq, workqueue, [mem EXCEPT ![1] = "raw"])
           \/ LoaderStep("alloc2", "init1", irq, workqueue, [mem EXCEPT ![2] = "raw"])
           \/ LoaderStep("init1", "init2", irq, workqueue, [mem EXCEPT ![1] = "ready"])
           \/ LoaderStep("init2", "size", irq, workqueue, [mem EXCEPT ![2] = "ready"])
        /\ UNCHANGED work_code
     \/ /\ driver = "tasklet"
        /\ \/ LoaderStep("alloc1", "init1", irq, workqueue, [mem EXCEPT ![1] = "raw"])
              /\ UNCHANGED work_code
           \/ LoaderStep("init1", "size", irq, workqueue, [mem EXCEPT ![1] = "ready"])
              /\ work_code' = [work_code EXCEPT ![1] = NoCode]
  /\ UNCHANGED <<code, seen, report, layout_size, fails, loads>>

SetLayout ==
  /\ LoaderStep("size", "loaded", irq, workqueue, mem) /\ layout_size' = TRUE
  /\ UNCHANGED <<code, work_code, seen, report, fails, loads>>

\* create_workqueue() or kmalloc() fails: the handler is removed first, then
\* what has been allocated.  (request_irq(), before them, leaves nothing.)
FailedInit(handler) ==
  /\ \E from \in {"create", "alloc1", "alloc2"} :
       LoaderStep(from, "unloaded", handler, "null", [w \in Item |-> "freed"])
  /\ hpc = "idle" /\ fails < MaxFails /\ fails' = fails + 1
  /\ UNCHANGED <<code, work_code, seen, report, layout_size, loads>>

\* A variant, that is, a faulty form used by nothing, without free_irq().
InitFailsKeepingIrq == FailedInit(TRUE)

InitFails == FailedInit(FALSE)

\* flush_workqueue() waits for the items to finish, destroy_workqueue() drains
\* the queue once more and frees it; tasklet_kill() waits for the tasklet;
\* free_irq() waits for the handler.
Unload ==
  /\ LoaderStep("loaded", IF driver = "workqueue" THEN "flush" ELSE "kill",
                irq, workqueue, mem)
  /\ LoaderOnly

Unloading ==
  /\ \/ Idle /\ LoaderStep("flush", "destroy", irq, workqueue, mem)
     \/ Idle /\ LoaderStep("destroy", "free1", irq, "freed", mem)
     \/ Idle /\ LoaderStep("kill", "free1", irq, workqueue, mem)
     \/ LoaderStep("free1", IF driver = "workqueue" THEN "free2" ELSE "free_irq",
                   irq, workqueue, [mem EXCEPT ![1] = "freed"])
     \/ LoaderStep("free2", "free_irq", irq, workqueue, [mem EXCEPT ![2] = "freed"])
     \/ hpc = "idle" /\ LoaderStep("free_irq", "unloaded", FALSE, workqueue, mem)
  /\ LoaderOnly

Loader == Load \/ Initialise \/ SetLayout \/ InitFails \/ Unload \/ Unloading

-----------------------------------------------------------------------------
(* irq_handler_workqueue() and irq_handler_tasklet()                       *)

\* The handler is registered before there is anything for it to use, and
\* removed after everything has been freed.
UnsafeWindow == {"create", "alloc1", "alloc2", "init1", "init2", "free1", "free2", "free_irq"}

HandlerStep(from, to) ==
  /\ ~oops /\ hpc = from /\ hpc' = to
  /\ unsafe' = (unsafe \/ lpc \in UnsafeWindow)
  /\ UNCHANGED <<moduleVars, wpc, arg, seen, report, fails, loads>>

Interrupt ==
  /\ HandlerStep("idle", "code1") /\ irq /\ keys < MaxKeys
  /\ code' \in Code /\ keys' = keys + 1
  /\ UNCHANGED <<work_code, pending, oops>>

Store(w) ==
  /\ IF mem[w] \in {"raw", "ready"}
     THEN work_code' = [work_code EXCEPT ![w] = code] /\ UNCHANGED oops
     ELSE oops' = TRUE /\ UNCHANGED work_code
  /\ UNCHANGED <<code, pending, keys>>

\* While destroy_workqueue() drains the queue the kernel refuses new work, and
\* while tasklet_kill() waits the tasklet counts as scheduled.
Queue(w) ==
  /\ IF (driver = "workqueue" => workqueue = "live") /\ mem[w] = "ready"
     THEN /\ \/ pending' = [pending EXCEPT ![w] = TRUE]
             \/ lpc \in {"destroy", "kill"} /\ UNCHANGED pending
          /\ UNCHANGED oops
     ELSE oops' = TRUE /\ UNCHANGED pending
  /\ UNCHANGED <<code, work_code, keys>>

\* What follows storing in, or queueing, item 1: item 2, if there is one.
Then(next, otherwise) == IF driver = "workqueue" THEN next ELSE otherwise

\* Variants: the code stored in one item only, and one item queued twice.
StoreOnce == \/ HandlerStep("code1", Then("code2", "queue1")) /\ Store(1)
             \/ HandlerStep("code2", "queue1") /\ Store(1)
QueueOnce == \/ HandlerStep("queue1", Then("queue2", "idle")) /\ Queue(1)
             \/ HandlerStep("queue2", "idle") /\ Queue(1)

StoreCode == \/ HandlerStep("code1", Then("code2", "queue1")) /\ Store(1)
             \/ HandlerStep("code2", "queue1") /\ Store(2)
QueueWork == \/ HandlerStep("queue1", Then("queue2", "idle")) /\ Queue(1)
             \/ HandlerStep("queue2", "idle") /\ Queue(2)

Handler == StoreCode \/ QueueWork

-----------------------------------------------------------------------------
(* work_function_1(), work_function_2() and tasklet_function().            *)

\* The kernel takes the item from its queue, which is in the item itself.
RunWork(w) ==
  /\ ~oops /\ pending[w] /\ wpc[w] = "idle"
  /\ pending' = [pending EXCEPT ![w] = FALSE]
  /\ wpc' = [wpc EXCEPT ![w] = "run"]
  /\ arg' = IF driver = "tasklet" THEN work_code[w] ELSE arg
  /\ oops' = (mem[w] # "ready")
  /\ UNCHANGED <<moduleVars, handlerVars, seen, report, unsafe, boundVars>>

\* What a function prints for a release: its number, with its name or UNKNOWN.
\* Before the size of the table is known every key is UNKNOWN.
Line(c, sized) == [code |-> c, named |-> sized /\ c \in Known]

\* Only codes of the given set are printed.
Announce(w, printed) ==
  /\ ~oops /\ wpc[w] = "run"
  /\ wpc' = [wpc EXCEPT ![w] = "idle"]
  /\ IF mem[w] = "ready"
     THEN LET c == IF driver = "tasklet" THEN arg ELSE work_code[w] IN
          /\ seen' = [seen EXCEPT ![w] = c]
          /\ report' = IF c \notin printed THEN report
                       ELSE [report EXCEPT ![w] = Line(c, layout_size)]
          /\ UNCHANGED oops
     ELSE oops' = TRUE /\ UNCHANGED <<seen, report>>
  /\ UNCHANGED <<moduleVars, handlerVars, arg, unsafe, boundVars>>

\* A variant: a function that queues itself again.
RequeueItself(w) == Announce(w, Release) /\ pending' = [pending EXCEPT ![w] = TRUE]

WorkFunction(w) == Announce(w, Release) /\ UNCHANGED pending

-----------------------------------------------------------------------------
Next == \/ Loader \/ Interrupt \/ Handler
        \/ \E w \in Item : RunWork(w) \/ WorkFunction(w)

Spec == KbInit /\ [][Next]_vars

\* The handler and the workers run to their end, and so does an rmmod; no key
\* need ever be hit and the module need never be unloaded.
FairSpec == /\ Spec /\ WF_vars(Handler) /\ WF_vars(Unloading)
            /\ \A w \in Item : WF_vars(RunWork(w) \/ WorkFunction(w))

-----------------------------------------------------------------------------
(* Properties.                                                             *)

\* Every variable stays in its range, and only releases are printed.
KbTypeOK ==
  /\ driver \in {"workqueue", "tasklet"}
  /\ lpc \in {"unloaded", "create", "alloc1", "alloc2", "init1", "init2", "size",
              "loaded", "flush", "destroy", "kill", "free1", "free2", "free_irq"}
  /\ irq \in BOOLEAN /\ layout_size \in BOOLEAN
  /\ workqueue \in {"null", "live", "freed"}
  /\ mem \in [Item -> {"null", "raw", "ready", "freed"}]
  /\ hpc \in {"idle", "code1", "code2", "queue1", "queue2"}
  /\ code \in Code \cup {NoCode} /\ work_code \in [Item -> Code \cup {NoCode}]
  /\ pending \in [Item -> BOOLEAN] /\ wpc \in [Item -> {"idle", "run"}]
  /\ arg \in Code \cup {NoCode} /\ seen \in [Item -> Code \cup {NoCode}]
  /\ report \in [Item -> [code : Release \cup {NoCode}, named : BOOLEAN]]
  /\ unsafe \in BOOLEAN /\ oops \in BOOLEAN
  /\ keys \in 0..MaxKeys /\ fails \in 0..MaxFails /\ loads \in 0..MaxLoads

\* Bad memory is used only if the handler runs before INIT_WORK or
\* tasklet_init(), or after destroy_workqueue() or tasklet_kill(): in
\* particular the functions, which may run at any time after, find their items
\* alive through every failure path and unload.
OopsNeedsKeyInWindow == oops => unsafe

\* Why it is: without a handler step in a window nothing is queued or running
\* there, ...
Live == {"size", "loaded", "flush", "destroy", "kill"}
QuietInWindow == ~unsafe =>
  /\ lpc \in UnsafeWindow \cup {"unloaded"} => Idle
  /\ lpc \in {"unloaded", "create", "alloc1", "alloc2", "init1", "init2"} => hpc = "idle"
  /\ lpc = "unloaded" => ~irq
  /\ \A w \in Item \ Items : ~pending[w] /\ wpc[w] = "idle"

\* ... and between them everything is there.
LiveIsReady == ~unsafe =>
  /\ driver = "workqueue" /\ lpc \in {"alloc1", "alloc2", "init1", "init2"} \cup Live
       => workqueue = "live"
  /\ lpc = "init2" => mem[1] = "ready"
  /\ lpc \in Live => \A w \in Items : mem[w] = "ready"
  /\ hpc \in {"code2", "queue2"} => driver = "workqueue"

MemoryInv == KbTypeOK /\ QuietInWindow /\ LiveIsReady /\ OopsNeedsKeyInWindow

\* Even in its windows my-workqueue.c queues nothing that it could: either an
\* item, or the queue, is not there.
NothingQueuedInWindow ==
  /\ lpc = "unloaded" => hpc = "idle" /\ ~irq
  /\ lpc = "kill" => driver = "tasklet"
  /\ ~oops /\ driver = "workqueue" =>
       /\ lpc \in {"create", "alloc1", "alloc2", "init1"} => \A w \in Item : mem[w] # "ready"
       /\ lpc \in {"free1", "free2", "free_irq"} => workqueue = "freed"
       /\ lpc \in (UnsafeWindow \ {"init2"}) \cup {"unloaded"} => Idle

\* Until the kernel begins to refuse work, an item that the handler has stored
\* the code in holds it, and one that it has queued will find it there or has
\* found it.
Accepting == {"create", "alloc1", "alloc2", "init1", "init2", "size", "loaded", "flush"}
Stored(w) == hpc \in {"idle", "queue1", "queue2"} \/ (hpc = "code2" /\ w = 1)
Queued(w) == hpc = "idle" \/ (hpc = "queue2" /\ w = 1)
CodeHandedOn == ~oops /\ (driver = "tasklet" => ~unsafe) =>
  /\ driver = "tasklet" /\ lpc \in {"alloc1", "init1"} => code = NoCode
  /\ lpc \in Accepting => \A w \in Items :
       /\ Stored(w) => work_code[w] = code
       /\ Queued(w) => \/ pending[w]
                       \/ wpc[w] = "run" /\ (driver = "tasklet" => arg = code)
                       \/ wpc[w] = "idle" /\ seen[w] = code

\* A function that is through with a release has printed it, and no other key
\* by its name.
ReportsSeen == \A w \in Item :
  seen[w] \in Release => report[w].code = seen[w] /\ (report[w].named => seen[w] \in Known)

\* Memory is misused after a handler step in a window only, and no last code is
\* lost: what both modules keep, through failing loads and unloads.
KbInv == MemoryInv /\ NothingQueuedInWindow /\ CodeHandedOn /\ ReportsSeen

\* While the module is loaded and the handler is not running, whichever
\* interrupts were coalesced into one run, each function has read the code of
\* the last interrupt or is about to.  (tasklet_init() clears a code that was
\* stored too early.)
LastCodeNotLost == lpc = "loaded" /\ hpc = "idle" /\ ~oops => \A w \in Items :
  \/ driver = "tasklet" /\ unsafe
  \/ seen[w] = code \/ pending[w]
  \/ wpc[w] = "run" /\ (driver = "tasklet" => arg = code)

\* The release of a key that no other interrupt follows is printed by each
\* function, although earlier codes may be swallowed while an item is pending:
\* by its name if the table has it, as UNKNOWN otherwise, whatever was printed
\* before for other keys or before the size of the table was known.
LastReleasePrinted == \A x \in Release, w \in Item, k \in 1..MaxKeys :
  (lpc = "loaded" /\ hpc = "code1" /\ code = x /\ keys = k /\ w \in Items)
     ~> (report[w] = Line(x, TRUE) \/ keys > k \/ lpc # "loaded" \/ oops)

\* rmmod comes to its end.
UnloadFinishes == lpc \in {"flush", "kill"} ~> (lpc = "unloaded" \/ oops)
=============================================================================
