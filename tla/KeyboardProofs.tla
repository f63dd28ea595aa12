--------------------------- MODULE KeyboardProofs ---------------------------
(***************************************************************************)
(* Theorems about Keyboard, for any scan codes and any number of keys,     *)
(* loads and failing allocations: memory is misused only by a handler that *)
(* ran in one of the two windows (MemoryInv), and the last code is handed  *)
(* on to each function (KbInv).                                            *)
(***************************************************************************)
EXTENDS Keyboard, TLAPS

Places == {"unloaded", "create", "alloc1", "alloc2", "init1", "init2", "size",
           "loaded", "flush", "destroy", "kill", "free1", "free2", "free_irq"}

LEMMA InitEstablishes == KbInit => MemoryInv
<1> SUFFICES ASSUME KbInit PROVE MemoryInv
  OBVIOUS
<1>1. KbTypeOK
  <2>1. keys \in 0..MaxKeys /\ fails \in 0..MaxFails /\ loads \in 0..MaxLoads
    <3>1. keys = 0 /\ fails = 0 /\ loads = 0
      BY DEF KbInit
    <3>2. MaxKeys \in Nat /\ MaxFails \in Nat /\ MaxLoads \in Nat
      BY KbAssumption
    <3> QED BY <3>1, <3>2
  <2>2. /\ mem \in [Item -> {"null", "raw", "ready", "freed"}]
        /\ work_code \in [Item -> Code \cup {NoCode}] /\ pending \in [Item -> BOOLEAN]
        /\ wpc \in [Item -> {"idle", "run"}] /\ seen \in [Item -> Code \cup {NoCode}]
        /\ report \in [Item -> [code : Release \cup {NoCode}, named : BOOLEAN]]
    BY DEF KbInit, Nothing
  <2>3. /\ driver \in {"workqueue", "tasklet"} /\ lpc = "unloaded" /\ irq = FALSE
        /\ layout_size = FALSE /\ workqueue = "null" /\ hpc = "idle" /\ code = NoCode
        /\ arg = NoCode /\ unsafe = FALSE /\ oops = FALSE
    BY DEF KbInit
  <2> QED BY <2>1, <2>2, <2>3 DEF KbTypeOK
<1>2. QuietInWindow /\ LiveIsReady /\ OopsNeedsKeyInWindow
  BY DEF KbInit, QuietInWindow, LiveIsReady, OopsNeedsKeyInWindow, Idle, Live, Item
<1> QED BY <1>1, <1>2 DEF MemoryInv

\* Items that neither wait nor run, one by one.
LEMMA IdleItems == ASSUME Idle PROVE \A w \in Item : ~pending[w] /\ wpc[w] = "idle"
BY DEF Idle, Item

-----------------------------------------------------------------------------
(* insmod and rmmod.                                                       *)

\* What a step of the loader leaves alone, and that its registers stay typed.
LEMMA LoaderTyped ==
  ASSUME KbTypeOK, lpc' \in Places, irq' \in BOOLEAN,
         workqueue' \in {"null", "live", "freed"},
         mem' \in [Item -> {"null", "raw", "ready", "freed"}],
         layout_size' \in BOOLEAN, code' \in Code \cup {NoCode},
         work_code' \in [Item -> Code \cup {NoCode}],
         seen' \in [Item -> Code \cup {NoCode}],
         report' \in [Item -> [code : Release \cup {NoCode}, named : BOOLEAN]],
         fails' \in 0..MaxFails, loads' \in 0..MaxLoads,
         UNCHANGED <<driver, hpc, workVars, unsafe, oops, keys>>
  PROVE  KbTypeOK'
BY DEF KbTypeOK, workVars, Places

LEMMA LoadPreserves == ASSUME MemoryInv, Load
                       PROVE  MemoryInv'
<1>1. KbTypeOK /\ QuietInWindow /\ LiveIsReady
  BY DEF MemoryInv
<1>2. /\ ~oops /\ lpc = "unloaded" /\ irq' = TRUE /\ workqueue' = "null"
      /\ lpc' = (IF driver = "workqueue" THEN "create" ELSE "alloc1")
      /\ mem' = [w \in Item |-> "null"] /\ layout_size' = FALSE /\ code' = NoCode
      /\ work_code' = [w \in Item |-> NoCode] /\ seen' = [w \in Item |-> NoCode]
      /\ report' = [w \in Item |-> Nothing] /\ fails' = fails
      /\ loads < MaxLoads /\ loads' = loads + 1
      /\ UNCHANGED <<driver, hpc, workVars, unsafe, oops, keys>>
  BY DEF Load, LoaderStep
<1>3. loads' \in 0..MaxLoads
  <2>1. loads \in 0..MaxLoads /\ MaxLoads \in Nat
    BY <1>1, KbAssumption DEF KbTypeOK
  <2> QED BY <1>2, <2>1
<1>4. KbTypeOK'
  <2>1. fails' \in 0..MaxFails
    BY <1>1, <1>2 DEF KbTypeOK
  <2> QED BY <1>1, <1>2, <1>3, <2>1, LoaderTyped DEF Places, Nothing
<1>5. QuietInWindow'
  BY <1>1, <1>2 DEF QuietInWindow, UnsafeWindow, Idle, workVars, Items
<1>6. LiveIsReady'
  BY <1>1, <1>2 DEF LiveIsReady, Live
<1> QED BY <1>2, <1>4, <1>5, <1>6 DEF MemoryInv, OopsNeedsKeyInWindow

LEMMA InitialisePreserves == ASSUME MemoryInv, Initialise
                             PROVE  MemoryInv'
<1>1. KbTypeOK /\ QuietInWindow /\ LiveIsReady
  BY DEF MemoryInv
<1>2. /\ ~oops /\ irq' = irq
      /\ UNCHANGED <<driver, hpc, workVars, unsafe, oops, keys, code, seen, report,
                     layout_size, fails, loads>>
      /\ lpc \in {"create", "alloc1", "alloc2", "init1", "init2"}
      /\ lpc' \in {"alloc1", "alloc2", "init1", "init2", "size"}
      /\ lpc' = "init2" => driver = "workqueue" /\ lpc = "init1"
      /\ lpc' = "size" => \/ driver = "workqueue" /\ lpc = "init2"
                          \/ driver = "tasklet" /\ lpc = "init1"
  BY DEF Initialise, LoaderStep
<1>3. mem \in [Item -> {"null", "raw", "ready", "freed"}]
  BY <1>1 DEF KbTypeOK
<1>4. work_code' \in [Item -> Code \cup {NoCode}]
  BY <1>1 DEF Initialise, KbTypeOK, Item
<1>5. /\ mem' \in [Item -> {"null", "raw", "ready", "freed"}]
      /\ lpc' = "init2" => mem' = [mem EXCEPT ![1] = "ready"]
      /\ lpc' = "size" => mem' = [mem EXCEPT ![IF driver = "workqueue" THEN 2 ELSE 1] = "ready"]
  <2>1. \/ mem' = mem
        \/ \E w \in Item, x \in {"raw", "ready"} : mem' = [mem EXCEPT ![w] = x]
    BY DEF Initialise, LoaderStep, Item
  <2>2. mem' \in [Item -> {"null", "raw", "ready", "freed"}]
    BY <1>3, <2>1
  <2>3. /\ lpc' = "init2" => mem' = [mem EXCEPT ![1] = "ready"]
        /\ lpc' = "size" => mem' = [mem EXCEPT ![IF driver = "workqueue" THEN 2 ELSE 1] = "ready"]
    BY DEF Initialise, LoaderStep
  <2> QED BY <2>2, <2>3
<1>6. /\ workqueue' \in {"live", workqueue}
      /\ lpc = "create" => workqueue' = "live"
      /\ lpc = "create" => driver = "workqueue"
  BY DEF Initialise, LoaderStep
<1>7. KbTypeOK'
  <2>1. /\ irq' \in BOOLEAN /\ workqueue' \in {"null", "live", "freed"} /\ lpc' \in Places
        /\ layout_size' \in BOOLEAN /\ code' \in Code \cup {NoCode}
        /\ seen' \in [Item -> Code \cup {NoCode}]
        /\ report' \in [Item -> [code : Release \cup {NoCode}, named : BOOLEAN]]
        /\ fails' \in 0..MaxFails /\ loads' \in 0..MaxLoads
    BY <1>1, <1>2, <1>6 DEF KbTypeOK, Places
  <2> QED BY <1>1, <1>2, <1>4, <1>5, <2>1, LoaderTyped
<1>8. QuietInWindow'
  <2>1. ~unsafe => Idle /\ hpc = "idle"
    BY <1>1, <1>2 DEF QuietInWindow, UnsafeWindow
  <2>2. ~unsafe => \A w \in Item : ~pending[w] /\ wpc[w] = "idle"
    BY <2>1, IdleItems
  <2> QED BY <1>2, <2>1, <2>2 DEF QuietInWindow, UnsafeWindow, Idle, workVars, Items
<1>9. LiveIsReady'
  <2>1. ~unsafe /\ driver = "workqueue" => workqueue' = "live"
    BY <1>1, <1>2, <1>6 DEF LiveIsReady
  <2>2. lpc' = "init2" => mem'[1] = "ready"
    BY <1>3, <1>5 DEF Item
  <2>3. ~unsafe /\ lpc' = "size" => \A w \in Items : mem'[w] = "ready"
    <3>1. CASE driver = "workqueue"
      <4>1. lpc' = "size" => lpc = "init2" /\ mem' = [mem EXCEPT ![2] = "ready"]
        BY <1>2, <1>5, <3>1
      <4>2. ~unsafe /\ lpc' = "size" => mem[1] = "ready"
        BY <1>1, <4>1 DEF LiveIsReady
      <4> QED BY <1>3, <3>1, <4>1, <4>2 DEF Items, Item
    <3>2. CASE driver # "workqueue"
      BY <1>3, <1>5, <3>2 DEF Items, Item
    <3> QED BY <3>1, <3>2
  <2>4. ~unsafe => hpc = "idle"
    BY <1>1, <1>2 DEF QuietInWindow
  <2> QED BY <1>2, <2>1, <2>2, <2>3, <2>4 DEF LiveIsReady, Live, Items
<1> QED BY <1>2, <1>7, <1>8, <1>9 DEF MemoryInv, OopsNeedsKeyInWindow

LEMMA FailurePreserves == ASSUME MemoryInv, InitFails
                          PROVE  MemoryInv'
<1>1. KbTypeOK /\ QuietInWindow /\ LiveIsReady
  BY DEF MemoryInv
<1>2. /\ ~oops /\ lpc \in {"create", "alloc1", "alloc2"} /\ lpc' = "unloaded"
      /\ irq' = FALSE /\ workqueue' = "null" /\ mem' = [w \in Item |-> "freed"]
      /\ hpc = "idle" /\ fails < MaxFails /\ fails' = fails + 1
      /\ UNCHANGED <<driver, hpc, workVars, unsafe, oops, keys, code, work_code, seen, report,
                     layout_size, loads>>
  BY DEF InitFails, FailedInit, LoaderStep
<1>3. fails' \in 0..MaxFails
  <2>1. fails \in 0..MaxFails /\ MaxFails \in Nat
    BY <1>1, KbAssumption DEF KbTypeOK
  <2> QED BY <1>2, <2>1
<1>4. KbTypeOK'
  <2>1. /\ layout_size' \in BOOLEAN /\ code' \in Code \cup {NoCode}
        /\ work_code' \in [Item -> Code \cup {NoCode}]
        /\ seen' \in [Item -> Code \cup {NoCode}]
        /\ report' \in [Item -> [code : Release \cup {NoCode}, named : BOOLEAN]] /\ loads' \in 0..MaxLoads
    BY <1>1, <1>2 DEF KbTypeOK
  <2> QED BY <1>1, <1>2, <1>3, <2>1, LoaderTyped DEF Places
<1>5. QuietInWindow'
  BY <1>1, <1>2 DEF QuietInWindow, UnsafeWindow, Idle, workVars, Items
<1>6. LiveIsReady'
  BY <1>1, <1>2 DEF LiveIsReady, Live
<1> QED BY <1>2, <1>4, <1>5, <1>6 DEF MemoryInv, OopsNeedsKeyInWindow

\* The steps between: what was loaded is used and given back.
LEMMA UnloadPreserves == ASSUME MemoryInv, SetLayout \/ Unload \/ Unloading
                         PROVE  MemoryInv'
<1>1. KbTypeOK /\ QuietInWindow /\ LiveIsReady
  BY DEF MemoryInv
<1>2. /\ ~oops
      /\ UNCHANGED <<driver, hpc, workVars, unsafe, oops, keys, code, work_code, seen, report,
                     fails, loads>>
      /\ layout_size' \in {layout_size, TRUE} /\ irq' \in {irq, FALSE}
      /\ workqueue' \in {workqueue, "freed"}
  BY DEF SetLayout, Unload, Unloading, LoaderStep, LoaderOnly
<1>3. /\ lpc \in Live \cup {"free1", "free2", "free_irq"}
      /\ lpc' \in {"loaded", "flush", "kill", "destroy", "free1", "free2", "free_irq", "unloaded"}
      /\ lpc' \in Live => lpc \in Live /\ UNCHANGED <<mem, workqueue>>
      /\ lpc' = "free1" => Idle
      /\ lpc' \in {"free2", "free_irq", "unloaded"} => lpc \in {"free1", "free2", "free_irq"}
      /\ lpc' = "unloaded" => hpc = "idle" /\ irq' = FALSE
  BY DEF SetLayout, Unload, Unloading, LoaderStep, Live
<1>4. mem' \in [Item -> {"null", "raw", "ready", "freed"}]
  <2>1. mem' = mem \/ \E w \in Item : mem' = [mem EXCEPT ![w] = "freed"]
    BY DEF SetLayout, Unload, Unloading, LoaderStep, Item
  <2>2. mem \in [Item -> {"null", "raw", "ready", "freed"}]
    BY <1>1 DEF KbTypeOK
  <2> QED BY <2>1, <2>2
<1>5. KbTypeOK'
  <2>1. /\ layout_size' \in BOOLEAN /\ irq' \in BOOLEAN
        /\ workqueue' \in {"null", "live", "freed"}
    BY <1>1, <1>2 DEF KbTypeOK
  <2>2. /\ code' \in Code \cup {NoCode} /\ work_code' \in [Item -> Code \cup {NoCode}]
        /\ seen' \in [Item -> Code \cup {NoCode}]
        /\ report' \in [Item -> [code : Release \cup {NoCode}, named : BOOLEAN]]
        /\ fails' \in 0..MaxFails /\ loads' \in 0..MaxLoads
    BY <1>1, <1>2 DEF KbTypeOK
  <2>3. lpc' \in Places
    BY <1>3 DEF Places
  <2> QED BY <1>1, <1>2, <1>4, <2>1, <2>2, <2>3, LoaderTyped
<1>6. QuietInWindow'
  <2>1. ~unsafe /\ lpc' \in {"free1", "free2", "free_irq", "unloaded"} => Idle
    BY <1>1, <1>3 DEF QuietInWindow, UnsafeWindow
  <2>2. ~unsafe => \A w \in Item \ Items : ~pending[w] /\ wpc[w] = "idle"
    BY <1>1 DEF QuietInWindow
  <2> QED BY <1>2, <1>3, <2>1, <2>2 DEF QuietInWindow, UnsafeWindow, Idle, workVars, Items
<1>7. LiveIsReady'
  BY <1>1, <1>2, <1>3 DEF LiveIsReady, Live, Items
<1> QED BY <1>2, <1>5, <1>6, <1>7 DEF MemoryInv, OopsNeedsKeyInWindow

-----------------------------------------------------------------------------
(* The handler.                                                            *)

\* Outside the windows it finds what it needs.
LEMMA HandlerFinds ==
  ASSUME MemoryInv, NEW w \in Item, ~unsafe, lpc \notin UnsafeWindow, hpc # "idle",
         hpc \in {"code2", "queue2"} \/ w = 1
  PROVE  /\ mem[w] = "ready" /\ (driver = "workqueue" => workqueue = "live")
         /\ lpc \in Live /\ w \in Items
<1>1. KbTypeOK /\ QuietInWindow /\ LiveIsReady
  BY DEF MemoryInv
<1>2. lpc \in Live
  BY <1>1 DEF KbTypeOK, QuietInWindow, UnsafeWindow, Live
<1>3. w \in Items
  BY <1>1 DEF LiveIsReady, Items, Item
<1> QED BY <1>1, <1>2, <1>3 DEF LiveIsReady

LEMMA InterruptPreserves == ASSUME MemoryInv, Interrupt
                            PROVE  MemoryInv'
<1>1. KbTypeOK /\ QuietInWindow /\ LiveIsReady
  BY DEF MemoryInv
<1>2. /\ ~oops /\ hpc = "idle" /\ hpc' = "code1" /\ unsafe' = (unsafe \/ lpc \in UnsafeWindow)
      /\ irq /\ code' \in Code /\ keys < MaxKeys /\ keys' = keys + 1
      /\ UNCHANGED <<moduleVars, wpc, arg, seen, report, fails, loads, work_code, pending, oops>>
  BY DEF Interrupt, HandlerStep
<1>3. keys' \in 0..MaxKeys
  <2>1. keys \in 0..MaxKeys /\ MaxKeys \in Nat
    BY <1>1, KbAssumption DEF KbTypeOK
  <2> QED BY <1>2, <2>1
<1>4. unsafe' \in BOOLEAN /\ (~unsafe' => ~unsafe /\ lpc \notin UnsafeWindow)
  BY <1>2
<1>5. KbTypeOK'
  BY <1>1, <1>2, <1>3, <1>4 DEF KbTypeOK, moduleVars
<1>6. QuietInWindow'
  <2>1. ~unsafe' => lpc # "unloaded"
    BY <1>1, <1>2, <1>4 DEF QuietInWindow
  <2> QED BY <1>1, <1>2, <1>4, <2>1 DEF QuietInWindow, UnsafeWindow, moduleVars, Items
<1>7. LiveIsReady'
  BY <1>1, <1>2, <1>4 DEF LiveIsReady, moduleVars, Items
<1> QED BY <1>2, <1>5, <1>6, <1>7 DEF MemoryInv, OopsNeedsKeyInWindow

\* A step of the handler after the first: it stores in, or queues, item w.
LEMMA HandlerPreserves ==
  ASSUME MemoryInv, NEW w \in Item, NEW to \in {"code2", "queue1", "queue2", "idle"},
         hpc # "idle", HandlerStep(hpc, to), Store(w) \/ Queue(w),
         hpc \in {"code2", "queue2"} \/ w = 1,
         to \in {"code2", "queue2"} => driver = "workqueue"
  PROVE  MemoryInv'
<1>1. KbTypeOK /\ QuietInWindow /\ LiveIsReady /\ OopsNeedsKeyInWindow
  BY DEF MemoryInv
<1>2. /\ ~oops /\ hpc' = to /\ unsafe' = (unsafe \/ lpc \in UnsafeWindow)
      /\ UNCHANGED <<moduleVars, wpc, arg, seen, report, fails, loads, code, keys>>
  BY DEF HandlerStep, Store, Queue
<1>3. unsafe' \in BOOLEAN /\ (~unsafe' => ~unsafe /\ lpc \notin UnsafeWindow)
  BY <1>2
<1>4. ~unsafe' => /\ mem[w] = "ready" /\ (driver = "workqueue" => workqueue = "live")
                  /\ lpc \in Live /\ w \in Items
  BY <1>3, HandlerFinds
<1>5. /\ work_code' \in [Item -> Code \cup {NoCode}] /\ pending' \in [Item -> BOOLEAN]
      /\ oops' \in BOOLEAN /\ (~unsafe' => ~oops')
      /\ \A v \in Item : v # w => pending'[v] = pending[v]
  <2>1. CASE Store(w)
    <3>1. UNCHANGED pending /\ (UNCHANGED oops \/ oops' = TRUE)
      BY <2>1 DEF Store
    <3>2. work_code' \in [Item -> Code \cup {NoCode}]
      BY <1>1, <2>1 DEF Store, KbTypeOK
    <3>3. ~unsafe' => UNCHANGED oops
      BY <1>4, <2>1 DEF Store
    <3> QED BY <1>1, <1>2, <3>1, <3>2, <3>3 DEF KbTypeOK
  <2>2. CASE Queue(w)
    <3>1. UNCHANGED work_code /\ (UNCHANGED oops \/ oops' = TRUE)
          /\ (pending' = pending \/ pending' = [pending EXCEPT ![w] = TRUE])
      BY <2>2 DEF Queue
    <3>2. ~unsafe' => UNCHANGED oops
      BY <1>4, <2>2 DEF Queue
    <3>3. pending' \in [Item -> BOOLEAN] /\ \A v \in Item : v # w => pending'[v] = pending[v]
      BY <1>1, <3>1 DEF KbTypeOK
    <3> QED BY <1>1, <1>2, <3>1, <3>2, <3>3 DEF KbTypeOK
  <2> QED BY <2>1, <2>2
<1>6. KbTypeOK'
  BY <1>1, <1>2, <1>3, <1>5 DEF KbTypeOK, moduleVars
<1>7. QuietInWindow'
  <2>1. ~unsafe' => lpc \notin UnsafeWindow \cup {"unloaded"}
    BY <1>4 DEF Live, UnsafeWindow
  <2>2. ~unsafe' => \A v \in Item \ Items : ~pending'[v] /\ wpc[v] = "idle"
    BY <1>1, <1>3, <1>4, <1>5 DEF QuietInWindow
  <2> QED BY <1>2, <2>1, <2>2 DEF QuietInWindow, UnsafeWindow, moduleVars, Items
<1>8. LiveIsReady'
  BY <1>1, <1>2, <1>3 DEF LiveIsReady, moduleVars, Items
<1> QED BY <1>5, <1>6, <1>7, <1>8 DEF MemoryInv, OopsNeedsKeyInWindow

LEMMA HandlerIsSteps ==
  ASSUME Handler
  PROVE  \E w \in Item, to \in {"code2", "queue1", "queue2", "idle"} :
           /\ hpc # "idle" /\ HandlerStep(hpc, to) /\ (Store(w) \/ Queue(w))
           /\ hpc \in {"code2", "queue2"} \/ w = 1
           /\ to \in {"code2", "queue2"} => driver = "workqueue"
<1>1. CASE HandlerStep("code1", Then("code2", "queue1")) /\ Store(1)
  BY <1>1 DEF HandlerStep, Then, Item
<1>2. CASE HandlerStep("code2", "queue1") /\ Store(2)
  BY <1>2 DEF HandlerStep, Item
<1>3. CASE HandlerStep("queue1", Then("queue2", "idle")) /\ Queue(1)
  BY <1>3 DEF HandlerStep, Then, Item
<1>4. CASE HandlerStep("queue2", "idle") /\ Queue(2)
  BY <1>4 DEF HandlerStep, Item
<1> QED BY <1>1, <1>2, <1>3, <1>4 DEF Handler, StoreCode, QueueWork

-----------------------------------------------------------------------------
(* The functions.                                                          *)

\* An item that waits or runs is there.
LEMMA FunctionFinds ==
  ASSUME MemoryInv, NEW w \in Item, ~unsafe, pending[w] \/ wpc[w] = "run"
  PROVE  mem[w] = "ready" /\ lpc \in Live /\ w \in Items
<1>1. KbTypeOK /\ QuietInWindow /\ LiveIsReady
  BY DEF MemoryInv
<1>2. ~Idle
  BY IdleItems
<1>3. lpc \in Live
  BY <1>1, <1>2 DEF KbTypeOK, QuietInWindow, UnsafeWindow, Live
<1>4. w \in Items
  BY <1>1 DEF QuietInWindow
<1> QED BY <1>1, <1>3, <1>4 DEF LiveIsReady

LEMMA FunctionPreserves ==
  ASSUME MemoryInv, NEW w \in Item, RunWork(w) \/ WorkFunction(w)
  PROVE  MemoryInv'
<1>1. KbTypeOK /\ QuietInWindow /\ LiveIsReady
  BY DEF MemoryInv
<1>2. /\ ~oops /\ (pending[w] \/ wpc[w] = "run")
      /\ UNCHANGED <<moduleVars, handlerVars, unsafe, boundVars>>
  BY DEF RunWork, WorkFunction, Announce
<1>3. ~unsafe => mem[w] = "ready" /\ lpc \in Live /\ w \in Items
  BY <1>2, FunctionFinds
<1>4. /\ pending' \in [Item -> BOOLEAN] /\ wpc' \in [Item -> {"idle", "run"}]
      /\ \A v \in Item : v # w => pending'[v] = pending[v] /\ wpc'[v] = wpc[v]
  <2>1. /\ pending' = pending \/ pending' = [pending EXCEPT ![w] = FALSE]
        /\ \E x \in {"idle", "run"} : wpc' = [wpc EXCEPT ![w] = x]
    BY DEF RunWork, WorkFunction, Announce
  <2>2. pending \in [Item -> BOOLEAN] /\ wpc \in [Item -> {"idle", "run"}]
    BY <1>1 DEF KbTypeOK
  <2> QED BY <2>1, <2>2
<1>5. oops' \in BOOLEAN /\ (~unsafe => ~oops')
  <2>1. CASE RunWork(w)
    BY <1>3, <2>1 DEF RunWork
  <2>2. CASE WorkFunction(w)
    <3>1. IF mem[w] = "ready" THEN oops' = oops ELSE oops' = TRUE
      BY <2>2 DEF WorkFunction, Announce
    <3>2. CASE mem[w] = "ready"
      BY <1>1, <1>2, <3>1, <3>2 DEF KbTypeOK
    <3>3. CASE mem[w] # "ready"
      BY <1>3, <3>1, <3>3
    <3> QED BY <3>2, <3>3
  <2> QED BY <2>1, <2>2
<1>6. /\ arg' \in Code \cup {NoCode} /\ seen' \in [Item -> Code \cup {NoCode}]
      /\ report' \in [Item -> [code : Release \cup {NoCode}, named : BOOLEAN]]
  <2>0. /\ arg \in Code \cup {NoCode} /\ work_code[w] \in Code \cup {NoCode}
        /\ seen \in [Item -> Code \cup {NoCode}]
        /\ report \in [Item -> [code : Release \cup {NoCode}, named : BOOLEAN]]
    BY <1>1 DEF KbTypeOK
  <2>1. CASE RunWork(w)
    BY <2>0, <2>1 DEF RunWork
  <2>2. CASE WorkFunction(w) /\ mem[w] # "ready"
    BY <2>0, <2>2 DEF WorkFunction, Announce
  <2>3. CASE WorkFunction(w) /\ mem[w] = "ready"
    <3>1. PICK c \in Code \cup {NoCode} :
            /\ seen' = [seen EXCEPT ![w] = c]
            /\ report' = IF c \notin Release THEN report
                         ELSE [report EXCEPT ![w] = Line(c, layout_size)]
      BY <2>0, <2>3 DEF WorkFunction, Announce
    <3>2. report' = report \/ \E x \in [code : Release \cup {NoCode}, named : BOOLEAN] :
                                report' = [report EXCEPT ![w] = x]
      <4>1. c \in Release => Line(c, layout_size) \in [code : Release \cup {NoCode}, named : BOOLEAN]
        BY <1>1 DEF Line, KbTypeOK
      <4> QED BY <3>1, <4>1
    <3>3. arg' = arg
      BY <2>3 DEF WorkFunction, Announce
    <3> QED BY <2>0, <3>1, <3>2, <3>3
  <2> QED BY <2>1, <2>2, <2>3
<1>7. KbTypeOK'
  BY <1>1, <1>2, <1>4, <1>5, <1>6 DEF KbTypeOK, moduleVars, handlerVars, boundVars
<1>8. QuietInWindow'
  <2>1. ~unsafe => lpc \notin UnsafeWindow \cup {"unloaded"}
    BY <1>3 DEF Live, UnsafeWindow
  <2>2. ~unsafe => \A v \in Item \ Items : ~pending'[v] /\ wpc'[v] = "idle"
    BY <1>1, <1>3, <1>4 DEF QuietInWindow
  <2> QED BY <1>1, <1>2, <2>1, <2>2 DEF QuietInWindow, UnsafeWindow, moduleVars, handlerVars, Items
<1>9. LiveIsReady'
  BY <1>1, <1>2 DEF LiveIsReady, moduleVars, handlerVars, Items
<1> QED BY <1>2, <1>5, <1>7, <1>8, <1>9 DEF MemoryInv, OopsNeedsKeyInWindow

-----------------------------------------------------------------------------
LEMMA StutterPreserves == ASSUME MemoryInv, UNCHANGED vars
                          PROVE  MemoryInv'
<1>1. UNCHANGED <<driver, lpc, irq, workqueue, mem, layout_size, hpc, code, work_code,
                  pending, wpc, arg, seen, report, unsafe, oops, keys, fails, loads>>
  BY DEF vars, moduleVars, handlerVars, workVars, boundVars
<1>2. KbTypeOK' /\ OopsNeedsKeyInWindow'
  BY <1>1 DEF MemoryInv, KbTypeOK, OopsNeedsKeyInWindow
<1>3. QuietInWindow' /\ LiveIsReady'
  BY <1>1 DEF MemoryInv, QuietInWindow, LiveIsReady, Idle, Items
<1> QED BY <1>2, <1>3 DEF MemoryInv

LEMMA NextPreservesMemory == ASSUME MemoryInv, [Next]_vars
                             PROVE  MemoryInv'
<1>1. CASE Handler
  <2>1. PICK w \in Item, to \in {"code2", "queue1", "queue2", "idle"} :
          /\ hpc # "idle" /\ HandlerStep(hpc, to) /\ (Store(w) \/ Queue(w))
          /\ hpc \in {"code2", "queue2"} \/ w = 1
          /\ to \in {"code2", "queue2"} => driver = "workqueue"
    BY <1>1, HandlerIsSteps
  <2> QED BY <2>1, HandlerPreserves
<1>2. CASE Loader
  BY <1>2, LoadPreserves, InitialisePreserves, FailurePreserves, UnloadPreserves DEF Loader
<1> QED BY <1>1, <1>2, InterruptPreserves, FunctionPreserves, StutterPreserves DEF Next

\* Whenever keys are hit while either module is loaded, fails to load or is
\* unloaded, and however its functions are delayed: memory that is not there is
\* used only after the handler has run in one of the two windows.
THEOREM MemoryInductive == Spec => []MemoryInv
<1>1. MemoryInv /\ [Next]_vars => MemoryInv'
  BY NextPreservesMemory
<1> QED BY <1>1, InitEstablishes, PTL DEF Spec

-----------------------------------------------------------------------------
(* The last code.                                                          *)

\* What CodeHandedOn assumes, and what it says of an item that was queued.
Premise == ~oops /\ (driver = "tasklet" => ~unsafe)

Fed(w) == \/ pending[w]
          \/ wpc[w] = "run" /\ (driver = "tasklet" => arg = code)
          \/ wpc[w] = "idle" /\ seen[w] = code

LEMMA InitHandsOn == KbInit => NothingQueuedInWindow /\ CodeHandedOn
BY DEF KbInit, NothingQueuedInWindow, CodeHandedOn, Idle, Items, Item, Accepting

LEMMA LoadHandsOn == ASSUME KbInv, Load
                     PROVE  NothingQueuedInWindow' /\ CodeHandedOn'
<1>1. KbTypeOK /\ QuietInWindow /\ NothingQueuedInWindow
  BY DEF KbInv, MemoryInv
<1>2. /\ ~oops /\ lpc = "unloaded" /\ hpc = "idle"
      /\ lpc' = (IF driver = "workqueue" THEN "create" ELSE "alloc1")
      /\ mem' = [w \in Item |-> "null"] /\ code' = NoCode
      /\ work_code' = [w \in Item |-> NoCode] /\ seen' = [w \in Item |-> NoCode]
      /\ UNCHANGED <<driver, hpc, pending, wpc, arg, unsafe, oops>>
  BY <1>1 DEF Load, LoaderStep, workVars, NothingQueuedInWindow
<1>3. Premise => Idle
  BY <1>1, <1>2 DEF Premise, KbTypeOK, QuietInWindow, NothingQueuedInWindow
<1>4. NothingQueuedInWindow'
  BY <1>1, <1>2, <1>3 DEF NothingQueuedInWindow, Idle, Premise
<1>5. CodeHandedOn'
  <2>1. Premise => \A w \in Items' : w \in Item /\ wpc[w] = "idle"
    BY <1>3, IdleItems DEF Items, Item
  <2> QED BY <1>2, <2>1 DEF CodeHandedOn, Premise
<1> QED BY <1>4, <1>5

LEMMA InitialiseHandsOn == ASSUME KbInv, Initialise
                           PROVE  NothingQueuedInWindow' /\ CodeHandedOn'
<1>1. KbTypeOK /\ QuietInWindow /\ NothingQueuedInWindow /\ CodeHandedOn
  BY DEF KbInv, MemoryInv
<1>2. /\ ~oops /\ UNCHANGED <<driver, hpc, pending, wpc, arg, unsafe, oops, code, seen>>
      /\ lpc \in {"create", "alloc1", "alloc2", "init1", "init2"}
      /\ lpc' \in {"alloc1", "alloc2", "init1", "init2", "size"}
      /\ driver = "workqueue" => UNCHANGED work_code /\ (lpc' # "size" => lpc # "init2")
      /\ driver = "tasklet" => lpc \in {"alloc1", "init1"}
      /\ driver = "tasklet" => \/ UNCHANGED work_code
                              \/ work_code' = [work_code EXCEPT ![1] = NoCode]
  BY DEF Initialise, LoaderStep, workVars
<1>3. mem \in [Item -> {"null", "raw", "ready", "freed"}] /\ work_code \in [Item -> Code \cup {NoCode}]
  BY <1>1 DEF KbTypeOK
<1>4. NothingQueuedInWindow'
  <2>1. /\ driver = "workqueue" /\ lpc' \in {"alloc1", "alloc2", "init1"} =>
             /\ lpc \in {"create", "alloc1", "alloc2"}
             /\ \/ mem' = mem
                \/ \E w \in Item : mem' = [mem EXCEPT ![w] = "raw"]
    BY DEF Initialise, LoaderStep, Item
  <2>2. ~oops /\ driver = "workqueue" /\ lpc' \in {"alloc1", "alloc2", "init1"} =>
          Idle /\ \A w \in Item : mem'[w] # "ready"
    BY <1>1, <1>3, <2>1 DEF NothingQueuedInWindow, UnsafeWindow
  <2> QED BY <1>2, <2>2 DEF NothingQueuedInWindow, Idle, UnsafeWindow
<1>5. CodeHandedOn'
  <2> SUFFICES ASSUME Premise PROVE CodeHandedOn'
    BY <1>2 DEF CodeHandedOn, Premise
  <2>1. lpc \in Accepting
    BY <1>2 DEF Accepting
  <2>2. \A w \in Items : (Stored(w) => work_code[w] = code) /\ (Queued(w) => Fed(w))
    BY <1>1, <2>1 DEF CodeHandedOn, Premise, Fed
  <2>3. CASE driver = "workqueue"
    BY <1>2, <2>2, <2>3 DEF CodeHandedOn, Stored, Queued, Fed, Items
  <2>4. CASE driver # "workqueue"
    <3>1. driver = "tasklet" /\ code = NoCode
      BY <1>1, <1>2, <2>4 DEF CodeHandedOn, KbTypeOK, Premise
    <3>2. hpc = "idle"
      BY <1>1, <1>2, <3>1 DEF Premise, QuietInWindow
    <3>3. \A w \in Items : work_code'[w] = NoCode
      BY <1>2, <1>3, <2>2, <2>4, <3>1, <3>2 DEF Items, Item, Stored
    <3> QED BY <1>2, <2>2, <2>4, <3>1, <3>3 DEF CodeHandedOn, Queued, Fed, Items
  <2> QED BY <2>3, <2>4
<1> QED BY <1>4, <1>5

LEMMA FailureHandsOn == ASSUME KbInv, InitFails
                        PROVE  NothingQueuedInWindow' /\ CodeHandedOn'
<1>1. NothingQueuedInWindow
  BY DEF KbInv
<1>2. /\ lpc \in {"create", "alloc1", "alloc2"} /\ lpc' = "unloaded" /\ irq' = FALSE
      /\ hpc = "idle" /\ UNCHANGED <<driver, hpc, pending, wpc, oops>>
  BY DEF InitFails, FailedInit, LoaderStep, workVars
<1>3. NothingQueuedInWindow'
  BY <1>1, <1>2 DEF NothingQueuedInWindow, UnsafeWindow, Idle
<1>4. CodeHandedOn'
  BY <1>2 DEF CodeHandedOn, Accepting
<1> QED BY <1>3, <1>4

LEMMA UnloadHandsOn == ASSUME KbInv, SetLayout \/ Unload \/ Unloading
                       PROVE  NothingQueuedInWindow' /\ CodeHandedOn'
<1>1. NothingQueuedInWindow /\ CodeHandedOn /\ KbTypeOK
  BY DEF KbInv, MemoryInv
<1>2. /\ UNCHANGED <<driver, hpc, pending, wpc, arg, unsafe, oops, code, work_code, seen>>
      /\ lpc' \in Accepting => lpc \in {"size", "loaded"} /\ lpc' \in {"loaded", "flush"}
      /\ lpc' \in {"loaded", "flush", "kill", "destroy", "free1", "free2", "free_irq", "unloaded"}
      /\ lpc' = "kill" => driver # "workqueue"
      /\ lpc' = "free1" => Idle /\ (workqueue' = "freed" \/ lpc = "kill")
      /\ lpc' \in {"free2", "free_irq", "unloaded"} =>
           lpc \in {"free1", "free2", "free_irq"} /\ UNCHANGED workqueue
      /\ lpc' = "unloaded" => hpc = "idle" /\ irq' = FALSE
  BY DEF SetLayout, Unload, Unloading, LoaderStep, LoaderOnly, workVars, Accepting
<1>3. NothingQueuedInWindow'
  BY <1>1, <1>2 DEF NothingQueuedInWindow, UnsafeWindow, Idle, KbTypeOK
<1>4. CodeHandedOn'
  <2>1. lpc' \in Accepting => lpc \in Accepting
    BY <1>2 DEF Accepting
  <2> QED BY <1>1, <1>2, <2>1 DEF CodeHandedOn, Stored, Queued, Items
<1> QED BY <1>3, <1>4

LEMMA InterruptHandsOn == ASSUME KbInv, Interrupt
                          PROVE  NothingQueuedInWindow' /\ CodeHandedOn'
<1>1. NothingQueuedInWindow
  BY DEF KbInv
<1>2. /\ irq /\ hpc' = "code1" /\ unsafe' = (unsafe \/ lpc \in UnsafeWindow)
      /\ UNCHANGED <<driver, lpc, irq, workqueue, mem, pending, wpc, oops>>
  BY DEF Interrupt, HandlerStep, moduleVars
<1>3. NothingQueuedInWindow'
  BY <1>1, <1>2 DEF NothingQueuedInWindow, Idle
<1>4. CodeHandedOn'
  BY <1>2 DEF CodeHandedOn, Stored, Queued, UnsafeWindow
<1> QED BY <1>3, <1>4

LEMMA StoreHandsOn == ASSUME KbInv, StoreCode
                      PROVE  NothingQueuedInWindow' /\ CodeHandedOn'
<1>1. NothingQueuedInWindow /\ CodeHandedOn /\ KbTypeOK
  BY DEF KbInv, MemoryInv
<1>2. PICK w \in Item : Store(w) /\
        \/ w = 1 /\ hpc = "code1" /\ hpc' = "code2" /\ driver = "workqueue"
        \/ w = 1 /\ hpc = "code1" /\ hpc' = "queue1" /\ driver # "workqueue"
        \/ w = 2 /\ hpc = "code2" /\ hpc' = "queue1"
  BY DEF StoreCode, HandlerStep, Then, Item
<1>3. /\ ~oops /\ unsafe' = (unsafe \/ lpc \in UnsafeWindow)
      /\ UNCHANGED <<driver, lpc, irq, workqueue, mem, wpc, pending, code>>
      /\ ~oops' => work_code' = [work_code EXCEPT ![w] = code]
  BY <1>2 DEF StoreCode, HandlerStep, moduleVars, Store
<1>4. NothingQueuedInWindow'
  BY <1>1, <1>2, <1>3 DEF NothingQueuedInWindow, Idle
<1>5. CodeHandedOn'
  <2> SUFFICES ASSUME Premise' PROVE CodeHandedOn'
    BY DEF CodeHandedOn, Premise
  <2>1. Premise /\ (driver = "tasklet" => lpc \notin UnsafeWindow)
    BY <1>3 DEF Premise
  <2>2. work_code' = [work_code EXCEPT ![w] = code] /\ work_code \in [Item -> Code \cup {NoCode}]
    BY <1>1, <1>3 DEF Premise, KbTypeOK
  <2>3. ASSUME lpc \in Accepting, NEW v \in Items, Stored(v)' PROVE work_code'[v] = code'
    <3>1. v \in Item /\ (v = w \/ (hpc = "code2" /\ v = 1))
      BY <1>2, <2>3 DEF Items, Item, Stored
    <3>2. CASE v = w
      BY <1>3, <2>2, <3>1, <3>2
    <3>3. CASE v # w
      BY <1>1, <1>3, <2>1, <2>2, <2>3, <3>1, <3>3 DEF CodeHandedOn, Stored, Premise
    <3> QED BY <3>2, <3>3
  <2> QED BY <1>2, <1>3, <2>1, <2>3 DEF CodeHandedOn, Queued, UnsafeWindow, Items
<1> QED BY <1>4, <1>5

LEMMA QueueHandsOn == ASSUME KbInv, QueueWork
                      PROVE  NothingQueuedInWindow' /\ CodeHandedOn'
<1>1. NothingQueuedInWindow /\ CodeHandedOn /\ KbTypeOK
  BY DEF KbInv, MemoryInv
<1>2. PICK w \in Item : Queue(w) /\
        \/ w = 1 /\ hpc = "queue1" /\ hpc' = "queue2" /\ driver = "workqueue"
        \/ w = 1 /\ hpc = "queue1" /\ hpc' = "idle" /\ driver # "workqueue"
        \/ w = 2 /\ hpc = "queue2" /\ hpc' = "idle"
  BY DEF QueueWork, HandlerStep, Then, Item
<1>3. /\ ~oops /\ unsafe' = (unsafe \/ lpc \in UnsafeWindow)
      /\ UNCHANGED <<driver, lpc, irq, workqueue, mem, wpc, code, work_code, arg, seen>>
      /\ ~oops' => /\ (driver = "workqueue" => workqueue = "live") /\ mem[w] = "ready"
                   /\ \/ pending' = [pending EXCEPT ![w] = TRUE]
                      \/ lpc \in {"destroy", "kill"} /\ UNCHANGED pending
  BY <1>2 DEF QueueWork, HandlerStep, moduleVars, Queue
<1>4. NothingQueuedInWindow'
  <2>1. lpc # "unloaded"
    BY <1>1, <1>2 DEF NothingQueuedInWindow
  <2>2. ~oops' /\ driver = "workqueue" => lpc \notin (UnsafeWindow \ {"init2"}) \cup {"unloaded"}
    BY <1>1, <1>3, <2>1 DEF NothingQueuedInWindow, UnsafeWindow
  <2> QED BY <1>1, <1>3, <2>1, <2>2 DEF NothingQueuedInWindow
<1>5. CodeHandedOn'
  <2> SUFFICES ASSUME Premise' PROVE CodeHandedOn'
    BY DEF CodeHandedOn, Premise
  <2>1. Premise /\ (driver = "tasklet" => lpc \notin UnsafeWindow)
    BY <1>3 DEF Premise
  <2>2. ASSUME lpc \in Accepting, NEW v \in Items
        PROVE  (Stored(v)' => work_code'[v] = code') /\ (Queued(v)' => Fed(v)')
    <3>1. Stored(v) /\ work_code[v] = code
      BY <1>1, <1>2, <2>1, <2>2 DEF CodeHandedOn, Stored, Premise
    <3>2. pending' = [pending EXCEPT ![w] = TRUE] /\ pending \in [Item -> BOOLEAN] /\ v \in Item
      BY <1>1, <1>3, <2>2 DEF Premise, Accepting, KbTypeOK, Items, Item
    <3>3. CASE v = w
      BY <1>3, <3>1, <3>2, <3>3 DEF Fed
    <3>4. CASE v # w
      <4>1. Queued(v)' => Queued(v)
        BY <1>2, <2>2, <3>4 DEF Queued, Items, Item
      <4>2. Queued(v) => Fed(v)
        BY <1>1, <2>1, <2>2 DEF CodeHandedOn, Fed, Premise
      <4>3. pending'[v] = pending[v]
        BY <3>2, <3>4
      <4> QED BY <1>3, <3>1, <4>1, <4>2, <4>3 DEF Fed
    <3> QED BY <3>3, <3>4
  <2> QED BY <1>3, <2>1, <2>2 DEF CodeHandedOn, Fed, UnsafeWindow, Items
<1> QED BY <1>4, <1>5

LEMMA FunctionHandsOn == ASSUME KbInv, NEW w \in Item, RunWork(w) \/ WorkFunction(w)
                         PROVE  NothingQueuedInWindow' /\ CodeHandedOn'
<1>1. NothingQueuedInWindow /\ CodeHandedOn /\ KbTypeOK
  BY DEF KbInv, MemoryInv
<1>2. /\ ~oops /\ (pending[w] \/ wpc[w] = "run")
      /\ UNCHANGED <<driver, lpc, irq, workqueue, mem, hpc, code, work_code, unsafe>>
  BY DEF RunWork, WorkFunction, Announce, moduleVars, handlerVars
<1>3. NothingQueuedInWindow'
  <2>1. ~Idle
    BY <1>2, IdleItems
  <2> QED BY <1>1, <1>2, <2>1 DEF NothingQueuedInWindow
<1>4. CodeHandedOn'
  <2> SUFFICES ASSUME Premise' PROVE CodeHandedOn'
    BY DEF CodeHandedOn, Premise
  <2>1. Premise
    BY <1>2 DEF Premise
  <2>2. driver = "tasklet" => w \in Items
    BY <1>2, <2>1, FunctionFinds DEF KbInv, Premise
  <2>3. /\ pending \in [Item -> BOOLEAN] /\ wpc \in [Item -> {"idle", "run"}]
        /\ seen \in [Item -> Code \cup {NoCode}]
    BY <1>1 DEF KbTypeOK
  <2>4. ASSUME lpc \in Accepting, NEW v \in Items, Queued(v) PROVE Fed(v)'
    <3>1. Stored(v) /\ work_code[v] = code /\ Fed(v) /\ v \in Item
      BY <1>1, <2>1, <2>4 DEF CodeHandedOn, Stored, Queued, Premise, Fed, Items, Item
    <3>2. CASE v # w
      <4>1. driver # "tasklet"
        BY <2>2, <2>4, <3>2 DEF Items
      <4>2. pending'[v] = pending[v] /\ wpc'[v] = wpc[v] /\ seen'[v] = seen[v]
        BY <2>3, <3>1, <3>2 DEF RunWork, WorkFunction, Announce
      <4> QED BY <1>2, <3>1, <4>1, <4>2 DEF Fed
    <3>3. CASE v = w /\ RunWork(w)
      <4>1. wpc'[v] = "run" /\ (driver = "tasklet" => arg' = work_code[v])
        BY <2>3, <3>3 DEF RunWork
      <4> QED BY <1>2, <3>1, <4>1 DEF Fed
    <3>4. CASE v = w /\ WorkFunction(w)
      <4>1. /\ wpc[v] = "run" /\ wpc'[v] = "idle" /\ pending' = pending
            /\ seen'[v] = (IF driver = "tasklet" THEN arg ELSE work_code[v])
        BY <2>3, <3>4 DEF WorkFunction, Announce, Premise
      <4>2. CASE pending[v]
        BY <4>1, <4>2 DEF Fed
      <4>3. CASE ~pending[v]
        BY <1>2, <3>1, <4>1, <4>3 DEF Fed
      <4> QED BY <4>2, <4>3
    <3> QED BY <3>2, <3>3, <3>4
  <2> QED BY <1>1, <1>2, <2>1, <2>4 DEF CodeHandedOn, Fed, Stored, Queued, Items, Premise
<1> QED BY <1>3, <1>4

LEMMA ReportsStep == ASSUME KbInv, [Next]_vars
                     PROVE  ReportsSeen'
<1>1. KbTypeOK /\ ReportsSeen
  BY DEF KbInv, MemoryInv
<1>2. CASE UNCHANGED <<seen, report>>
  BY <1>1, <1>2 DEF ReportsSeen
<1>3. CASE Load
  BY <1>3 DEF Load, ReportsSeen, Nothing
<1>4. ASSUME NEW w \in Item, WorkFunction(w) PROVE ReportsSeen'
  <2>1. \/ UNCHANGED <<seen, report>>
        \/ \E c : /\ seen' = [seen EXCEPT ![w] = c]
                  /\ report' = IF c \notin Release THEN report
                               ELSE [report EXCEPT ![w] = Line(c, layout_size)]
    BY <1>4 DEF WorkFunction, Announce
  <2>2. seen \in [Item -> Code \cup {NoCode}] /\ DOMAIN report = Item /\ layout_size \in BOOLEAN
    BY <1>1 DEF KbTypeOK
  <2>3. CASE UNCHANGED <<seen, report>>
    BY <1>2, <2>3
  <2>4. ASSUME NEW c, seen' = [seen EXCEPT ![w] = c],
               report' = IF c \notin Release THEN report
                         ELSE [report EXCEPT ![w] = Line(c, layout_size)]
        PROVE  ReportsSeen'
    <3>1. \A v \in Item \ {w} : seen'[v] = seen[v] /\ report'[v] = report[v]
      BY <2>2, <2>4
    <3>2. seen'[w] = c /\ (c \in Release => report'[w] = Line(c, layout_size))
      BY <2>2, <2>4
    <3>3. ASSUME seen'[w] \in Release
          PROVE  report'[w].code = seen'[w] /\ (report'[w].named => seen'[w] \in Known)
      <4>1. seen'[w] = c /\ report'[w] = Line(c, layout_size)
        BY <3>2, <3>3
      <4>2. Line(c, layout_size).code = c /\ (Line(c, layout_size).named => c \in Known)
        BY <2>2 DEF Line
      <4> QED BY <4>1, <4>2, Zenon
    <3>4. \A v \in Item \ {w} : seen'[v] \in Release =>
            report'[v].code = seen'[v] /\ (report'[v].named => seen'[v] \in Known)
      BY <1>1, <3>1 DEF ReportsSeen
    <3> QED BY <3>3, <3>4 DEF ReportsSeen
  <2> QED BY <2>1, <2>3, <2>4
<1>5. CASE Initialise \/ InitFails \/ SetLayout \/ Unload \/ Unloading
  BY <1>2, <1>5 DEF Initialise, InitFails, FailedInit, SetLayout, Unload, Unloading, LoaderOnly
<1>6. CASE Interrupt \/ Handler
  BY <1>2, <1>6, HandlerIsSteps DEF Interrupt, HandlerStep
<1>7. ASSUME NEW w \in Item, RunWork(w) PROVE ReportsSeen'
  BY <1>2, <1>7 DEF RunWork
<1>8. CASE UNCHANGED vars
  BY <1>2, <1>8 DEF vars, workVars
<1> QED BY <1>3, <1>4, <1>5, <1>6, <1>7, <1>8 DEF Next, Loader

\* However the interrupts fall, one after another, while a function sleeps or
\* while the module is loaded, the code each item holds is the last one, and
\* the function that has not read it will.
THEOREM KbInductive == Spec => []KbInv
<1>1. KbInit => KbInv
  BY InitEstablishes, InitHandsOn, KbAssumption DEF KbInv, KbInit, ReportsSeen, Nothing
<1>2. ASSUME KbInv, [Next]_vars PROVE KbInv'
  <2>1. MemoryInv' /\ ReportsSeen'
    BY <1>2, NextPreservesMemory, ReportsStep DEF KbInv
  <2>2. CASE UNCHANGED vars
    <3>1. UNCHANGED <<driver, lpc, irq, workqueue, mem, hpc, code, work_code, pending, wpc,
                      arg, seen, unsafe, oops>>
      BY <2>2 DEF vars, moduleVars, handlerVars, workVars
    <3>2. NothingQueuedInWindow' /\ CodeHandedOn'
      BY <1>2, <3>1 DEF KbInv, NothingQueuedInWindow, CodeHandedOn, Idle, Items, Stored, Queued
    <3> QED BY <2>1, <3>2 DEF KbInv
  <2>3. CASE Next
    <3>1. NothingQueuedInWindow' /\ CodeHandedOn'
      BY <1>2, <2>3, LoadHandsOn, InitialiseHandsOn, FailureHandsOn, UnloadHandsOn,
         InterruptHandsOn, StoreHandsOn, QueueHandsOn, FunctionHandsOn DEF Next, Loader, Handler
    <3> QED BY <2>1, <3>1 DEF KbInv
  <2> QED BY <1>2, <2>2, <2>3
<1> QED BY <1>1, <1>2, PTL DEF Spec

\* Coalesced or not, the last code reaches each function.
THEOREM KbLastCodeKept == Spec => []LastCodeNotLost
<1>1. KbInv => LastCodeNotLost
  BY DEF KbInv, CodeHandedOn, LastCodeNotLost, Accepting, Queued, Stored, Items,
     MemoryInv, KbTypeOK
<1> QED BY <1>1, KbInductive, PTL

\* Whenever the loaded module is at rest and the last code was the release of a
\* key, each function has printed it: what LastReleasePrinted means for a state.
THEOREM KbLastReleasePrinted == Spec => [](
  lpc = "loaded" /\ hpc = "idle" /\ ~oops /\ (driver = "tasklet" => ~unsafe) /\ code \in Release
    => \A w \in Items : ~pending[w] /\ wpc[w] = "idle" =>
         report[w].code = code /\ (report[w].named => code \in Known))
<1>1. KbInv => (
  lpc = "loaded" /\ hpc = "idle" /\ ~oops /\ (driver = "tasklet" => ~unsafe) /\ code \in Release
    => \A w \in Items : ~pending[w] /\ wpc[w] = "idle" =>
         report[w].code = code /\ (report[w].named => code \in Known))
  BY DEF KbInv, CodeHandedOn, ReportsSeen, Accepting, Queued, Items, Item
<1> QED BY <1>1, KbInductive, PTL
=============================================================================
