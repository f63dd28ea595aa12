-------------------------------- MODULE Vfs --------------------------------
(***************************************************************************)
(* lab_06/vfs.c: a file system module with a cache of equal objects.  It   *)
(* is loaded and unloaded while processes mount and unmount it.            *)
(*                                                                         *)
(* The kernel's side is modelled from how the module uses it: a mount      *)
(* finds a registered file system, takes a reference to its owner unless   *)
(* the owner is being unloaded, and keeps it until the superblock is gone; *)
(* rmmod is refused while there are references; d_make_root() puts the     *)
(* inode itself when it fails.  A use of memory that has been freed ends   *)
(* the behaviour with `oops'.                                              *)
(***************************************************************************)
EXTENDS Integers, FiniteSets

CONSTANTS
  ELEM_NUM,   \* objects allocated at load (128)
  Mounter,    \* processes that mount and unmount
  MaxFails,   \* bound: failing allocations and registrations
  MaxLoads    \* bound: insmod calls

ASSUME VfsAssumption == /\ ELEM_NUM \in Nat \ {0} /\ IsFiniteSet(Mounter)
                        /\ MaxFails \in Nat /\ MaxLoads \in Nat

VARIABLES
  lpc,        \* insmod and rmmod: vfs_init() and vfs_exit()
  n,          \* the next element of struct_arr to be filled, or freed
  vfs_slab,   \* "null", "live", "destroyed"
  struct_arr, \* "null", "live", "freed"
  elem,       \* the elements
  rc,         \* whether vfs_free_memory() ends a load that fails
  registered, \* the file system can be found by its name
  mpc,        \* where each mounting process is
  refs,       \* references to the module
  inode,      \* each mount's root inode: "none", "live", "freed"
  rootFails,  \* history: d_make_root() has failed
  oops, fails, loads

memVars == <<n, vfs_slab, struct_arr, elem, rc>>
mountVars == <<mpc, refs, inode, rootFails>>
vfsVars == <<lpc, memVars, registered, mountVars, oops, fails, loads>>

Elem == 0..(ELEM_NUM - 1)

VfsInit ==
  /\ lpc = "unloaded" /\ n = 0 /\ vfs_slab = "null" /\ struct_arr = "null"
  /\ elem = [e \in Elem |-> "null"] /\ rc = FALSE /\ registered = FALSE
  /\ mpc = [m \in Mounter |-> "idle"] /\ refs = 0
  /\ inode = [m \in Mounter |-> "none"] /\ rootFails = FALSE
  /\ oops = FALSE /\ fails = 0 /\ loads = 0

Goto(from, to) == ~oops /\ lpc = from /\ lpc' = to

\* Whether a call of the kernel fails.
MayFail(failed) == IF failed THEN fails < MaxFails /\ fails' = fails + 1 ELSE UNCHANGED fails

-----------------------------------------------------------------------------
(* vfs_init()                                                              *)

\* insmod: the module's variables are fresh.
Load ==
  /\ Goto("unloaded", "cache") /\ loads < MaxLoads /\ loads' = loads + 1
  /\ n' = 0 /\ vfs_slab' = "null" /\ struct_arr' = "null"
  /\ elem' = [e \in Elem |-> "null"] /\ rc' = FALSE
  /\ UNCHANGED <<registered, mountVars, oops, fails>>

CreateCache == \E failed \in BOOLEAN :
  /\ Goto("cache", IF failed THEN "unloaded" ELSE "array") /\ MayFail(failed)
  /\ vfs_slab' = IF failed THEN "null" ELSE "live"
  /\ UNCHANGED <<n, struct_arr, elem, rc, registered, mountVars, oops, loads>>

\* kcalloc() clears the elements.  After a failure vfs_free_memory() runs.
AllocateArray == \E failed \in BOOLEAN :
  /\ Goto("array", IF failed THEN "free" ELSE "fill") /\ MayFail(failed)
  /\ struct_arr' = IF failed THEN "null" ELSE "live"
  /\ rc' = failed
  /\ UNCHANGED <<n, vfs_slab, elem, registered, mountVars, oops, loads>>

\* A variant that returns without vfs_free_memory().
FillOrReturn == \E failed \in BOOLEAN :
  /\ MayFail(failed) /\ n' = IF failed THEN 0 ELSE (n + 1) % ELEM_NUM
  /\ Goto("fill", IF failed THEN "unloaded" ELSE IF n' = 0 THEN "register" ELSE "fill")
  /\ elem' = IF failed THEN elem ELSE [elem EXCEPT ![n] = "live"]
  /\ UNCHANGED <<vfs_slab, struct_arr, rc, registered, mountVars, oops, loads>>

Fill == \E failed \in BOOLEAN :
  /\ MayFail(failed) /\ n' = IF failed THEN 0 ELSE (n + 1) % ELEM_NUM
  /\ Goto("fill", IF failed THEN "free" ELSE IF n' = 0 THEN "register" ELSE "fill")
  /\ elem' = IF failed THEN elem ELSE [elem EXCEPT ![n] = "live"]
  /\ rc' = failed
  /\ UNCHANGED <<vfs_slab, struct_arr, registered, mountVars, oops, loads>>

Register == \E failed \in BOOLEAN :
  /\ Goto("register", IF failed THEN "free" ELSE "loaded") /\ MayFail(failed)
  /\ registered' = ~failed /\ rc' = failed
  /\ UNCHANGED <<n, vfs_slab, struct_arr, elem, mountVars, oops, loads>>

-----------------------------------------------------------------------------
(* vfs_free_memory() and vfs_exit()                                        *)

\* rmmod: from now on the module gives no references.
Unload ==
  /\ Goto("loaded", "free") /\ refs = 0
  /\ UNCHANGED <<memVars, registered, mountVars, oops, fails, loads>>

\* Only elements that are there are given back.
FreeElement ==
  /\ lpc = "free" /\ struct_arr = "live" /\ ~oops
  /\ n' = (n + 1) % ELEM_NUM
  /\ elem' = IF elem[n] = "live" THEN [elem EXCEPT ![n] = "freed"] ELSE elem
  /\ oops' = (elem[n] = "freed" \/ vfs_slab # "live")
  /\ struct_arr' = IF n' = 0 THEN "freed" ELSE "live"
  /\ UNCHANGED <<lpc, vfs_slab, rc, registered, mountVars, fails, loads>>

\* A cache must be empty when it is destroyed.  Neither pointer is reset.
DestroyCache ==
  /\ struct_arr # "live" /\ Goto("free", IF rc THEN "unloaded" ELSE "unregister")
  /\ oops' = (vfs_slab = "destroyed" \/ \E e \in Elem : elem[e] = "live")
  /\ vfs_slab' = IF vfs_slab = "live" THEN "destroyed" ELSE vfs_slab
  /\ UNCHANGED <<n, struct_arr, elem, rc, registered, mountVars, fails, loads>>

Unregister ==
  /\ Goto("unregister", "unloaded")
  /\ registered' = FALSE
  /\ UNCHANGED <<memVars, mountVars, oops, fails, loads>>

Loader == CreateCache \/ AllocateArray \/ Fill \/ Register \/ FreeElement
            \/ DestroyCache \/ Unregister

-----------------------------------------------------------------------------
(* mount and umount: vfs_init_fs_context(), my_vfs_get_tree(), vfs_fill_sb(), *)
(* kill_sb().                                                              *)

Going == lpc \in {"free", "unregister", "unloaded"}

MountGoto(m, from, to) == ~oops /\ mpc[m] = from /\ mpc' = [mpc EXCEPT ![m] = to]

\* A variant without .owner: the module is not kept.
FindUnowned(m) ==
  /\ registered
  /\ MountGoto(m, "idle", "inode") /\ UNCHANGED refs
  /\ UNCHANGED <<lpc, memVars, registered, inode, rootFails, oops, fails, loads>>

\* A file system that is not there, or whose module is going, is not found.
Find(m) ==
  /\ registered /\ ~Going
  /\ MountGoto(m, "idle", "inode") /\ refs' = refs + 1
  /\ UNCHANGED <<lpc, memVars, registered, inode, rootFails, oops, fails, loads>>

NewInode(m) == \E failed \in BOOLEAN :
  /\ MountGoto(m, "inode", IF failed THEN "kill" ELSE "root") /\ MayFail(failed)
  /\ inode' = [inode EXCEPT ![m] = IF failed THEN "none" ELSE "live"]
  /\ UNCHANGED <<lpc, memVars, registered, refs, rootFails, oops, loads>>

\* After a failure the inode, which d_make_root() has put, is put once more.
MakeRoot(m) == \E failed \in BOOLEAN :
  /\ MountGoto(m, "root", IF failed THEN "kill" ELSE "mounted") /\ MayFail(failed)
  /\ inode' = [inode EXCEPT ![m] = IF failed THEN "freed" ELSE @]
  /\ rootFails' = (rootFails \/ failed) /\ oops' = failed
  /\ UNCHANGED <<lpc, memVars, registered, refs, loads>>

Unmount(m) ==
  /\ MountGoto(m, "mounted", "kill")
  /\ UNCHANGED <<lpc, memVars, registered, refs, inode, rootFails, oops, fails, loads>>

\* kill_sb(), of a mount that failed, too; then the reference is given back.
\* The module's own code runs, and the root puts its inode.
KillSb(m) ==
  /\ MountGoto(m, "kill", "idle")
  /\ refs' = refs - 1
  /\ oops' = (lpc = "unloaded" \/ inode[m] = "freed")
  /\ inode' = [inode EXCEPT ![m] = "none"]
  /\ UNCHANGED <<lpc, memVars, registered, rootFails, fails, loads>>

-----------------------------------------------------------------------------
VfsNext == \/ Load \/ Loader \/ Unload
           \/ \E m \in Mounter : Find(m) \/ NewInode(m) \/ MakeRoot(m) \/ Unmount(m) \/ KillSb(m)

VfsSpec == VfsInit /\ [][VfsNext]_vfsVars

-----------------------------------------------------------------------------
(* Properties.                                                             *)

VfsTypeOK ==
  /\ lpc \in {"unloaded", "cache", "array", "fill", "register", "loaded", "free", "unregister"}
  /\ n \in Elem /\ rc \in BOOLEAN /\ registered \in BOOLEAN
  /\ vfs_slab \in {"null", "live", "destroyed"} /\ struct_arr \in {"null", "live", "freed"}
  /\ elem \in [Elem -> {"null", "live", "freed"}]
  /\ mpc \in [Mounter -> {"idle", "inode", "root", "mounted", "kill"}] /\ refs \in Int
  /\ inode \in [Mounter -> {"none", "live", "freed"}]
  /\ rootFails \in BOOLEAN /\ oops \in BOOLEAN
  /\ fails \in 0..MaxFails /\ loads \in 0..MaxLoads

\* Whichever call of vfs_init() fails, and when the module is unloaded, every
\* object goes back to the cache, once, before the cache is destroyed, and no
\* file system stays registered whose code is gone.
NothingLeft == lpc = "unloaded" =>
  /\ vfs_slab # "live" /\ struct_arr # "live" /\ \A e \in Elem : elem[e] # "live"
  /\ ~registered

\* While a process mounts the file system or has it mounted, the module stays
\* loaded, with the memory it allocated.
MountedIsLoaded ==
  (\E m \in Mounter : mpc[m] # "idle")
    => lpc = "loaded" /\ struct_arr = "live" /\ vfs_slab = "live"

\* Freed memory is used only after a d_make_root() that failed.
OopsNeedsFailedRoot == oops => rootFails

\* Why it is: what each phase of loading and unloading has allocated, ...
MemoryByPhase ==
  /\ vfs_slab = "live" <=> lpc \in {"array", "fill", "register", "loaded", "free"}
  /\ lpc \in {"fill", "register", "loaded"} => struct_arr = "live"
  /\ struct_arr = "live" => lpc \in {"fill", "register", "loaded", "free"}
  /\ lpc \in {"cache", "array"} => n = 0 /\ \A e \in Elem : elem[e] = "null"
  /\ lpc = "fill" => \A e \in Elem : elem[e] = IF e < n THEN "live" ELSE "null"
  /\ lpc \in {"register", "loaded"} => n = 0 /\ \A e \in Elem : elem[e] = "live"
  /\ lpc = "free" => \A e \in Elem :
       IF struct_arr = "live" /\ e >= n THEN elem[e] # "freed" ELSE elem[e] # "live"
  /\ lpc \in {"unregister", "unloaded"} => \A e \in Elem : elem[e] # "live"
  /\ registered <=> lpc \in {"loaded", "unregister"} \/ (lpc = "free" /\ ~rc)
  /\ lpc = "loaded" => ~rc

\* ... and that the references to the module are those of its mounts.
Busy == {m \in Mounter : mpc[m] # "idle"}
ReferencesCounted ==
  /\ refs = Cardinality(Busy) /\ (Busy # {} => lpc = "loaded")
  /\ \A m \in Mounter : inode[m] = "freed" => oops

VfsInv == VfsTypeOK /\ MemoryByPhase /\ ReferencesCounted /\ NothingLeft
            /\ OopsNeedsFailedRoot
=============================================================================
