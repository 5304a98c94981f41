----------------------------- MODULE PageQueues -----------------------------
(***************************************************************************)
(* The pages of asgn3's page daemon, one by one: the inactive and the       *)
(* active scan of vm_pageout_scan and the laundry scan of                   *)
(* vm_pageout_launder, with vm_pageout_clean, vm_pageout_cluster and        *)
(* vm_pageout_flush, among the threads that map, write, hold and discard    *)
(* the same pages.  A scan has one page at a time; it holds the lock of     *)
(* the page and of its object, or neither.  The order of the queues, the    *)
(* activity counts and the targets are left open: any page of its queue     *)
(* may be the next, and any page may have been referenced.                  *)
(***************************************************************************)
CONSTANTS
  Kernel,  \* the kernels that are checked: "clock" is vm_pageout.c or
           \* vm_pageout_log.c, "fifo_log" is vm_pageout_fifo_log.c
  Page, NoPage

ASSUME PageQueuesAssumption ==
  /\ Kernel \subseteq {"clock", "fifo_log"}
  /\ NoPage \notin Page

Object == {"file", "swap"}  \* an object of type OBJT_VNODE, one of OBJT_SWAP
Thread == {"scan", "launder"}
Own == [scan |-> "inactive", launder |-> "laundry"]  \* the queue a thread scans

VARIABLES
  kernel,
  page,  \* the state of each page
  dead,  \* the objects that are being terminated (OBJ_DEAD)
  local  \* where each thread is, its page m and object o, and the pages of its cluster
vars == <<kernel, page, dead, local>>

FreePage == [queue   |-> "free", object |-> "swap",
             valid   |-> FALSE,   \* m->valid: its content has been read or made
             dirty   |-> FALSE,   \* m->dirty
             map     |-> "none",  \* mapped "none", for "read" or for "write"
             pmod    |-> FALSE,   \* modified, in a page table
             held    |-> FALSE, busy |-> FALSE,
             unsaved |-> "no",    \* is content lost if it is freed; "sent" while written
             marked  |-> {}]      \* threads whose marker stands right behind it

Resting == [pc |-> "next", m |-> NoPage, o |-> "swap", cluster |-> {}]

Init ==
  /\ kernel \in Kernel
  /\ page = [p \in Page |-> FreePage]
  /\ dead = {}
  /\ local = [t \in Thread |-> Resting]

\* A thread holds both locks at these steps, and no lock at the others.
Holding == {"test", "strip", "decide"}
PageLocked(p) == \E t \in Thread : local[t].pc \in Holding /\ local[t].m = p
ObjectLocked(o) == \E t \in Thread : local[t].pc \in Holding /\ local[t].o = o
InUse(p) == page[p].queue # "free"

\* A page is moved to the tail of a queue: every marker is left behind.
To(r, q) == [r EXCEPT !.queue = q, !.marked = {}]
Moves(p, q) == page' = [page EXCEPT ![p] = To(@, q)]
\* vm_page_test_dirty: what the page tables know, m->dirty knows.
Tested(r) == [r EXCEPT !.dirty = @ \/ r.pmod]
\* pmap_remove_all and pmap_remove_write pass it on before they take it away.
Unmapped(r) == [Tested(r) EXCEPT !.map = "none", !.pmod = FALSE]
Protected(r) == IF r.map = "write" THEN [Tested(r) EXCEPT !.map = "read", !.pmod = FALSE] ELSE r

Goes(t, pc) == local' = [local EXCEPT ![t].pc = pc]
Rests(t) == local' = [local EXCEPT ![t] = Resting]
-----------------------------------------------------------------------------
(* The other threads.                                                       *)

Alloc(p) ==
  /\ ~InUse(p)
  /\ \E o \in Object \ dead :
       ~ObjectLocked(o) /\ page' = [page EXCEPT ![p] = [To(@, "active") EXCEPT !.object = o]]
  /\ UNCHANGED <<dead, local>>

\* vm_fault waits for the object and while the page is busy; a page without
\* content gets it before it is mapped.
Fault(p) ==
  /\ InUse(p) /\ ~ObjectLocked(page[p].object) /\ ~PageLocked(p) /\ ~page[p].busy
  /\ page[p].object \notin dead
  /\ \E access \in {"read", "write"} :
       page' = [page EXCEPT ![p] = [To(@, "active") EXCEPT !.map = IF page[p].map = "write" THEN "write" ELSE access,
                                                          !.valid = TRUE]]
  /\ UNCHANGED <<dead, local>>

\* A store through the mapping asks for no lock.
Write(p) ==
  /\ page[p].map = "write"
  /\ page' = [page EXCEPT ![p].pmod = TRUE, ![p].unsaved = "yes"]
  /\ UNCHANGED <<dead, local>>

Unmap(p) ==
  /\ page[p].map # "none"
  /\ page' = [page EXCEPT ![p] = Unmapped(@)]
  /\ UNCHANGED <<dead, local>>

\* vm_page_hold and vm_page_unhold, with the lock of the page.
Hold(p) ==
  /\ InUse(p) /\ ~PageLocked(p)
  /\ page' = [page EXCEPT ![p].held = ~@]
  /\ UNCHANGED <<dead, local>>

\* The owner of the object gives the content of the page up, after its mappings
\* (Unmap): vm_object_page_remove, vm_object_terminate.
Discard(p) ==
  /\ InUse(p) /\ ~ObjectLocked(page[p].object) /\ ~PageLocked(p)
  /\ ~page[p].busy /\ ~page[p].held /\ page[p].map = "none"
  /\ page' = [page EXCEPT ![p] = FreePage]
  /\ UNCHANGED <<dead, local>>

\* An object that nobody refers to dies; when its pages are gone there may be a
\* new one.
Terminate(o) ==
  /\ ~ObjectLocked(o)
  /\ IF o \in dead
     THEN dead' = dead \ {o} /\ \A p \in Page : InUse(p) => page[p].object # o
     ELSE /\ dead' = dead \cup {o}
          /\ \A p \in Page : page[p].object = o => page[p].map = "none"
          /\ ~(local["launder"].pc \in {"vnode", "put"} /\ local["launder"].o = "file" /\ o = "file")
  /\ UNCHANGED <<page, local>>
-----------------------------------------------------------------------------
(* A scan takes a page of its queue: vm_pageout_page_lock and               *)
(* vm_pageout_fallback_object_lock.                                         *)

\* Held and busy pages are passed over.
Idle(p) == ~page[p].held /\ ~page[p].busy

\* With both locks.  The inactive scan dequeues the page.
Takes(t, p) ==
  /\ page' = IF t = "scan" THEN [page EXCEPT ![p] = To(@, "none")]
             ELSE [page EXCEPT ![p].marked = {t}]
  /\ local' = [local EXCEPT ![t] = [pc |-> "test", m |-> p, o |-> page[p].object, cluster |-> {}]]

Passes(t) ==
  /\ page' = IF local[t].m = NoPage THEN page
             ELSE [page EXCEPT ![local[t].m].marked = @ \ {t}]
  /\ Rests(t)

\* A lock is not to be had at once (other threads hold locks within their steps,
\* and pages share locks): a marker is put behind the page, and the
\* queue is unlocked while the thread waits.
Waits(t, p, pc) ==
  /\ page' = [page EXCEPT ![p].marked = @ \cup {t}]
  /\ local' = [local EXCEPT ![t] = [pc |-> pc, m |-> p, o |-> page[p].object, cluster |-> {}]]

Take(t, p) ==
  /\ local[t].pc = "next" /\ page[p].queue = Own[t]
  /\ \/ Waits(t, p, "page")
     \/ ~PageLocked(p) /\ ~page[p].held /\ Waits(t, p, "object")
     \/ ~PageLocked(p) /\ ~ObjectLocked(page[p].object) /\ Idle(p) /\ Takes(t, p)

\* The page is where it was if the marker stands right behind it.
\* Mutant for ReclaimedAlone: a page is taken although it was moved, or held.
Unchanged_Unseen(t) == TRUE
Unchanged(t) ==
  /\ t \in page[local[t].m].marked
  /\ page[local[t].m].object = local[t].o
  /\ ~page[local[t].m].held

TakeWithPage(t) ==
  LET p == local[t].m IN
  /\ local[t].pc = "page" /\ ~PageLocked(p)
  /\ \/ Unchanged(t) /\ Waits(t, p, "object")
     \/ Unchanged(t) /\ ~ObjectLocked(page[p].object) /\ Idle(p) /\ Takes(t, p)
     \/ ~Unchanged(t) /\ Passes(t)
     \/ Unchanged(t) /\ ~ObjectLocked(page[p].object) /\ page[p].busy /\ Passes(t)

\* The object, then the page.
TakeWithObject(t) ==
  LET p == local[t].m IN
  /\ local[t].pc = "object" /\ ~ObjectLocked(local[t].o) /\ ~PageLocked(p)
  /\ IF Unchanged(t) /\ ~page[p].busy THEN Takes(t, p) ELSE Passes(t)
-----------------------------------------------------------------------------
(* What becomes of it.                                                      *)

\* A referenced page is activated, or requeued if its object has no user; of
\* another it is tested whether it is dirty.
\* Mutant for NeverStranded: the page that was dequeued is not put back.
Requeued_Not(t, p) == page[p].map = "none" /\ page' = page
Requeued(t, p) == page[p].map = "none" /\ Moves(p, Own[t])

Test(t) ==
  LET p == local[t].m IN
  /\ local[t].pc = "test" /\ page[p].valid
  /\ \/ /\ t = "launder" \/ kernel = "clock"   \* the other does not look at references
        /\ local[t].o \notin dead
        /\ Moves(p, "active") \/ Requeued(t, p)
        /\ Rests(t)
     \/ /\ page' = [page EXCEPT ![p] = Tested(@)]
        /\ Goes(t, IF page'[p].dirty THEN "decide" ELSE "strip")

\* It seems clean: its mappings are removed.  A store may have come before.
\* Mutant for NoLostWrite: what was found before stands.
Stripped_Clean(r) == [r EXCEPT !.map = "none", !.pmod = FALSE]
Stripped(r) == Unmapped(r)

Strip(t) ==
  /\ local[t].pc = "strip"
  /\ page' = [page EXCEPT ![local[t].m] = Stripped(@)]
  /\ Goes(t, "decide")

\* An invalid page is freed at once, a valid one when it is still clean.
Free(t) ==
  /\ \/ local[t].pc = "test" /\ ~page[local[t].m].valid
     \/ local[t].pc = "decide" /\ ~page[local[t].m].dirty
  /\ page' = [page EXCEPT ![local[t].m] = FreePage]
  /\ Rests(t)

Dirty(t) == local[t].pc = "decide" /\ page[local[t].m].dirty

\* The inactive scan sends a dirty page to the laundry.
ToLaundry == Dirty("scan") /\ local["scan"].o \notin dead /\ Moves(local["scan"].m, "laundry") /\ Rests("scan")

\* The dirty page of a dead object is left, in no queue or in the laundry.
LeaveDead(t) == Dirty(t) /\ local[t].o \in dead /\ Passes(t)
-----------------------------------------------------------------------------
(* vm_pageout_clean.                                                        *)

Dirties(o) == Dirty("launder") /\ local["launder"].o = o /\ o \notin dead

\* A page of a swap object is requeued if disable_swap_pageouts is set, or it is
\* passed to vm_pageout_cluster with both locks; for one of a file both locks
\* are dropped and the vnode is asked for, unless the file system takes no
\* writes.
NoPageout == Dirties("swap") /\ Moves(local["launder"].m, "laundry") /\ Rests("launder")

AskVnode ==
  /\ Dirties("file")
  /\ \/ Goes("launder", "vnode") /\ UNCHANGED page
     \/ Passes("launder")

\* The page may have been moved, reallocated, cleaned, busied or held meanwhile.
StillDirty(p) == page[p].queue = "laundry" /\ page[p].object = "file" /\ page[p].dirty /\ Idle(p)

\* vm_pageout_cluster: neighbours that are dirty, idle and in the laundry join
\* the page; their mappings are protected, and vm_pageout_flush makes them busy
\* and hands them to the pager, which drops the lock of the object.
\* Mutant for WriteProtected: only the page itself is write protected.
Sent_NotTheRest(p, r) == IF p = local["launder"].m THEN [Protected(r) EXCEPT !.busy = TRUE, !.unsaved = "sent"]
                      ELSE [r EXCEPT !.busy = TRUE, !.unsaved = "sent"]
Sent(p, r) == [Protected(r) EXCEPT !.busy = TRUE, !.unsaved = "sent"]

Joins(p) == page[p].queue = "laundry" /\ Tested(page[p]).dirty /\ Idle(p)

Cluster ==
  \E near \in SUBSET {p \in Page \ {local["launder"].m} : page[p].object = local["launder"].o /\ ~page[p].busy} :
    LET cluster == {p \in near : Joins(p)} \cup {local["launder"].m} IN
    /\ page' = [p \in Page |-> CASE p \in cluster        -> Sent(p, page[p])
                               [] p \in near \ cluster -> Tested(page[p])
                               [] OTHER                -> page[p]]
    /\ local' = [local EXCEPT !["launder"].pc = "put", !["launder"].cluster = cluster]

PageOut == Dirties("swap") /\ Cluster

\* vget fails, or the locks are taken again and the page is looked at again.
GotVnode ==
  LET p == local["launder"].m IN
  /\ local["launder"].pc = "vnode"
  /\ \/ Passes("launder")
     \/ ~ObjectLocked("file") /\ ~PageLocked(p) /\ StillDirty(p) /\ Cluster
-----------------------------------------------------------------------------
(* vm_pageout_flush, when the pager answers: for each page of the cluster.  *)

Written(r) == [r EXCEPT !.dirty = FALSE, !.unsaved = IF @ = "sent" THEN "no" ELSE @]
Deactivated(r) == IF r.queue = "laundry" THEN To(r, "inactive") ELSE r
Idled(r) == [r EXCEPT !.busy = FALSE, !.unsaved = IF @ = "sent" THEN "yes" ELSE @]

\* VM_PAGER_OK and VM_PAGER_BAD (the changes may be lost), VM_PAGER_PEND,
\* VM_PAGER_FAIL and VM_PAGER_ERROR, VM_PAGER_AGAIN.
Answer(status, r) ==
  CASE status = "OK"    -> Idled(Deactivated(Written(r)))
    [] status = "PEND"  -> r
    [] status = "FAIL"  -> Idled(To(r, "active"))
    [] status = "AGAIN" -> Idled(r)

Flush ==
  /\ local["launder"].pc = "put" /\ ~ObjectLocked(local["launder"].o)
  /\ \E status \in [local["launder"].cluster -> {"OK", "PEND", "FAIL", "AGAIN"}] :
       page' = [p \in Page |-> IF p \in DOMAIN status THEN Answer(status[p], page[p]) ELSE page[p]]
  /\ Rests("launder")

\* The pager ends what was pending.
PagerDone(p) ==
  /\ page[p].busy /\ p \notin local["launder"].cluster /\ ~ObjectLocked(page[p].object)
  /\ \E status \in {"OK", "FAIL"} : page' = [page EXCEPT ![p] = Answer(status, @)]
  /\ UNCHANGED <<dead, local>>
-----------------------------------------------------------------------------
(* The active scan, with the lock of the page and of the queue.             *)

\* An unused page goes to the inactive queue; in a shortage a page whose dirty
\* field is set goes to the laundry.
ActiveClock(p) ==
  /\ kernel = "clock"
  /\ \/ Moves(p, "inactive")
     \/ page[p].dirty /\ Moves(p, "laundry")

\* The first-in-first-out kernel frees the page on its dirty field.
ActiveFifo(p) ==
  /\ kernel = "fifo_log"
  /\ IF page[p].dirty THEN Moves(p, "laundry") ELSE page' = [page EXCEPT ![p] = FreePage]

Active(p) ==
  /\ local["scan"].pc = "next" /\ page[p].queue = "active" /\ ~PageLocked(p)
  /\ ActiveClock(p) \/ ActiveFifo(p)
  /\ UNCHANGED local
-----------------------------------------------------------------------------
Others == \E p \in Page : Alloc(p) \/ Fault(p) \/ Write(p) \/ Unmap(p) \/ Hold(p) \/ Discard(p) \/ PagerDone(p)

Scans(t) ==
  \/ \E p \in Page : Take(t, p)
  \/ TakeWithPage(t) \/ TakeWithObject(t) \/ Test(t) \/ Strip(t) \/ Free(t) \/ LeaveDead(t)

Daemons ==
  \/ \E t \in Thread : Scans(t)
  \/ \E p \in Page : Active(p)
  \/ ToLaundry \/ NoPageout \/ AskVnode \/ PageOut \/ GotVnode \/ Flush

Next ==
  /\ \/ Others
     \/ \E o \in Object : Terminate(o)
     \/ Daemons /\ UNCHANGED dead
  /\ UNCHANGED kernel

Spec == Init /\ [][Next]_vars
-----------------------------------------------------------------------------
TypeOK ==
  /\ page \in [Page -> [queue : {"free", "active", "inactive", "laundry", "none"}, object : Object,
                        valid : BOOLEAN, dirty : BOOLEAN, map : {"none", "read", "write"}, pmod : BOOLEAN,
                        held : BOOLEAN, busy : BOOLEAN, unsaved : {"no", "yes", "sent"},
                        marked : SUBSET Thread]]
  /\ kernel \in Kernel /\ dead \subseteq Object
  /\ local \in [Thread -> [pc : {"next", "page", "object", "vnode", "put"} \cup Holding,
                           m : Page \cup {NoPage}, o : Object, cluster : SUBSET Page]]

Freed(p) == InUse(p) /\ page'[p].queue = "free"

\* Freed by the inactive scan or the laundry thread, which has locked it.
Reclaimed(p) == Freed(p) /\ PageLocked(p)

\* A page that these two free has no change that is nowhere else: a store through
\* a mapping, after vm_page_test_dirty found the page clean, is noticed by
\* pmap_remove_all, and m->dirty is read again.
NoLostWrite == [][\A p \in Page : Reclaimed(p) => page[p].unsaved = "no"]_vars

\* It is mapped nowhere, held by nobody and not in a transfer, whatever happened
\* to it while the thread waited for its lock or the lock of its object.
Alone(p) == page[p].map = "none" /\ Idle(p)
ReclaimedAlone == [][\A p \in Page : Reclaimed(p) => Alone(p)]_vars

\* "They cannot be mapped, vm_page_free() asserts this": so it is of every page
\* that is freed, by the page daemon or by its owner.
FreedUnmapped == [][\A p \in Page : Freed(p) => page[p].map = "none"]_vars

\* Only the page that the inactive scan has, or one of a dead object, is in no
\* queue: another would never be laundered or reclaimed.
NeverStranded ==
  \A p \in Page : page[p].queue = "none" => page[p].object \in dead \/ PageLocked(p)

\* While the pager writes a page nobody can store to it: "vm_pageout_flush: page
\* %p is not write protected".
WriteProtected == \A p \in Page : page[p].busy => page[p].map # "write"
=============================================================================
