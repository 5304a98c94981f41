-------------------------- MODULE PageQueuesProofs --------------------------
(***************************************************************************)
(* Proofs about PageQueues, for any set of pages and either kernel.  The     *)
(* inductive invariant Inv has three parts: what holds of each page by       *)
(* itself (Sound), what a thread that holds the locks of its page and object *)
(* knows of the page (KnowsPage), and what the laundry thread knows while it *)
(* holds no lock.  A step changes one page, or one page and the place of one *)
(* thread, or the pages of a cluster.                                        *)
(***************************************************************************)
EXTENDS PageQueues, TLAPS

\* The record of a page.
PageRecord ==
  [queue : {"free", "active", "inactive", "laundry", "none"}, object : Object,
   valid : BOOLEAN, dirty : BOOLEAN, map : {"none", "read", "write"}, pmod : BOOLEAN,
   held : BOOLEAN, busy : BOOLEAN, unsaved : {"no", "yes", "sent"},
   marked : SUBSET Thread]

\* What holds of each page by itself: only a page that is mapped for writing is
\* modified in a page table, a page that is written is in the laundry, dirty and
\* write protected, a change that is nowhere else is known to m->dirty or to a
\* page table, an invalid page is unmapped and clean, and a marker stands behind a
\* page only in the queue of its thread.
Sound(r) ==
  /\ r.valid \/ (r.map = "none" /\ ~r.dirty)
  /\ r.pmod => r.map = "write"
  /\ r.busy => r.queue = "laundry" /\ r.dirty /\ r.map # "write" /\ r.unsaved = "sent"
  /\ r.unsaved = "sent" => r.busy
  /\ r.unsaved = "yes" => r.dirty \/ r.pmod
  /\ \A t \in r.marked : r.queue = Own[t]

\* Thread t holds the lock of its page and of its object.
HasLocks(t) == local[t].pc \in Holding

\* What a thread that holds the locks knows of its page.
KnowsPage(t) ==
  HasLocks(t) =>
    /\ local[t].m \in Page
    /\ page[local[t].m].queue = (IF t = "scan" THEN "none" ELSE "laundry")
    /\ page[local[t].m].object = local[t].o
    /\ ~page[local[t].m].held /\ ~page[local[t].m].busy
    /\ local[t].pc = "decide" /\ ~page[local[t].m].dirty => page[local[t].m].map = "none"

\* The inductive invariant.
Inv ==
  /\ TypeOK
  /\ \A p \in Page : Sound(page[p])
  /\ \A t \in Thread : KnowsPage(t)
  /\ HasLocks("scan") /\ HasLocks("launder") => local["scan"].o # local["launder"].o
  /\ \A t \in Thread : local[t].pc # "next" => local[t].m \in Page
  /\ local["launder"].pc = "put" => \A p \in local["launder"].cluster : page[p].busy
  /\ local["launder"].pc = "vnode" => local["launder"].o = "file"
  /\ NeverStranded

\* The record of a thread.
LocalRecord ==
  [pc : {"next", "page", "object", "vnode", "put"} \cup Holding,
   m : Page \cup {NoPage}, o : Object, cluster : SUBSET Page]

\* The type invariant by the names of its records.
LEMMA Types == TypeOK <=> /\ page \in [Page -> PageRecord] /\ local \in [Thread -> LocalRecord]
                          /\ kernel \in Kernel /\ dead \subseteq Object
BY DEF TypeOK, PageRecord, LocalRecord

\* All pages are free and both threads are at rest: the invariant holds.
LEMMA InitInv == Init => Inv
<1> SUFFICES ASSUME Init PROVE Inv
  OBVIOUS
<1>1. TypeOK
  BY DEF Init, TypeOK, FreePage, Resting, Object, Thread
<1>2. \A p \in Page : Sound(page[p])
  BY DEF Init, Sound, FreePage
<1>3. ~HasLocks("scan") /\ ~HasLocks("launder") /\ \A t \in Thread : local[t].pc = "next"
  BY DEF Init, HasLocks, Holding, Resting, Thread
<1>4. NeverStranded
  BY DEF Init, NeverStranded, FreePage
<1> QED BY <1>1, <1>2, <1>3, <1>4 DEF Inv, KnowsPage, HasLocks, Thread

\* What can become of a page whose lock another thread holds.
Harmless(r, s) ==
  /\ s.queue = r.queue /\ s.object = r.object /\ s.held = r.held /\ s.busy = r.busy
  /\ r.dirty => s.dirty
  /\ r.map = "none" => s.map = "none"

\* A step that changes one page, and no thread, keeps the invariant if the page
\* stays sound and, where a thread has its lock, what that thread knows.
LEMMA PageStep ==
  ASSUME Inv, NEW p \in Page, NEW r \in PageRecord, Sound(r),
         page' = [page EXCEPT ![p] = r], local' = local, dead' = dead, kernel' = kernel,
         ~PageLocked(p) \/ Harmless(page[p], r),
         r.busy = page[p].busy \/ ~(local["launder"].pc = "put" /\ p \in local["launder"].cluster),
         r.queue = "none" => page[p].queue = "none" /\ r.object = page[p].object
  PROVE  Inv'
<1> USE DEF Inv
<1>1. page \in [Page -> PageRecord] /\ page' \in [Page -> PageRecord] /\ page'[p] = r
      /\ \A q \in Page \ {p} : page'[q] = page[q]
  BY Types
<1>2. TypeOK'
  BY <1>1 DEF TypeOK, PageRecord
<1>3. \A q \in Page : Sound(page'[q])
  BY <1>1
<1>4. ASSUME NEW t \in Thread PROVE KnowsPage(t)'
  <2>1. CASE ~HasLocks(t)
    BY <2>1 DEF KnowsPage, HasLocks
  <2>2. CASE HasLocks(t) /\ local[t].m # p
    BY <2>2, <1>1 DEF KnowsPage, HasLocks
  <2>3. CASE HasLocks(t) /\ local[t].m = p
    <3>1. Harmless(page[p], r)
      BY <2>3 DEF PageLocked, HasLocks
    <3> QED BY <2>3, <3>1, <1>1 DEF KnowsPage, HasLocks, Harmless
  <2> QED BY <2>1, <2>2, <2>3
<1>5. (local["launder"].pc = "put" => \A q \in local["launder"].cluster : page[q].busy)'
  <2>1. local["launder"].cluster \subseteq Page
    BY DEF TypeOK, Thread
  <2> QED BY <2>1, <1>1
<1>6. NeverStranded'
  <2> SUFFICES ASSUME NEW q \in Page, page'[q].queue = "none"
               PROVE page'[q].object \in dead \/ PageLocked(q)'
    BY DEF NeverStranded
  <2>1. page[q].queue = "none" /\ page'[q].object = page[q].object
    BY <1>1
  <2> QED BY <2>1 DEF NeverStranded, PageLocked
<1> QED BY <1>2, <1>3, <1>4, <1>5, <1>6 DEF HasLocks

\* What moving a page changes of its record.
LEMMA ToFacts ==
  ASSUME NEW r \in PageRecord, NEW q \in {"free", "active", "inactive", "laundry", "none"}
  PROVE  /\ To(r, q) \in PageRecord
         /\ To(r, q).queue = q /\ To(r, q).marked = {}
         /\ To(r, q).object = r.object /\ To(r, q).valid = r.valid /\ To(r, q).dirty = r.dirty
         /\ To(r, q).map = r.map /\ To(r, q).pmod = r.pmod
         /\ To(r, q).held = r.held /\ To(r, q).busy = r.busy /\ To(r, q).unsaved = r.unsaved
BY DEF To, PageRecord

\* What vm_page_test_dirty changes of it.
LEMMA TestedFacts ==
  ASSUME NEW r \in PageRecord
  PROVE  /\ Tested(r) \in PageRecord
         /\ Tested(r).dirty = (r.dirty \/ r.pmod) /\ Tested(r).marked = r.marked
         /\ Tested(r).object = r.object /\ Tested(r).queue = r.queue /\ Tested(r).valid = r.valid
         /\ Tested(r).map = r.map /\ Tested(r).pmod = r.pmod
         /\ Tested(r).held = r.held /\ Tested(r).busy = r.busy /\ Tested(r).unsaved = r.unsaved
<1> DEFINE d == r.dirty \/ r.pmod
<1>1. d \in BOOLEAN
  BY DEF PageRecord
<1>2. Tested(r) = [r EXCEPT !.dirty = d]
  BY DEF Tested
<1> HIDE DEF d
<1>3. /\ Tested(r) \in PageRecord
      /\ Tested(r).dirty = d /\ Tested(r).marked = r.marked
      /\ Tested(r).object = r.object /\ Tested(r).queue = r.queue /\ Tested(r).valid = r.valid
      /\ Tested(r).map = r.map /\ Tested(r).pmod = r.pmod
      /\ Tested(r).held = r.held /\ Tested(r).busy = r.busy /\ Tested(r).unsaved = r.unsaved
  BY <1>1, <1>2 DEF PageRecord
<1> QED BY <1>3 DEF d

\* What pmap_remove_all changes of it.
LEMMA UnmappedFacts ==
  ASSUME NEW r \in PageRecord
  PROVE  /\ Unmapped(r) \in PageRecord
         /\ Unmapped(r).dirty = (r.dirty \/ r.pmod) /\ Unmapped(r).marked = r.marked
         /\ Unmapped(r).map = "none" /\ Unmapped(r).pmod = FALSE
         /\ Unmapped(r).object = r.object /\ Unmapped(r).queue = r.queue /\ Unmapped(r).valid = r.valid
         /\ Unmapped(r).held = r.held /\ Unmapped(r).busy = r.busy /\ Unmapped(r).unsaved = r.unsaved
<1> DEFINE d == Tested(r)
<1>1. d \in PageRecord /\ Unmapped(r) = [d EXCEPT !.map = "none", !.pmod = FALSE]
  BY TestedFacts DEF Unmapped
<1> HIDE DEF d
<1>2. /\ Unmapped(r) \in PageRecord
      /\ Unmapped(r).dirty = d.dirty /\ Unmapped(r).marked = d.marked
      /\ Unmapped(r).map = "none" /\ Unmapped(r).pmod = FALSE
      /\ Unmapped(r).object = d.object /\ Unmapped(r).queue = d.queue /\ Unmapped(r).valid = d.valid
      /\ Unmapped(r).held = d.held /\ Unmapped(r).busy = d.busy /\ Unmapped(r).unsaved = d.unsaved
  BY <1>1 DEF PageRecord
<1> QED BY <1>2, TestedFacts DEF d

\* Testing a page keeps it sound.
LEMMA TestedSound ==
  ASSUME NEW r \in PageRecord, Sound(r)
  PROVE  Sound(Tested(r)) /\ Harmless(r, Tested(r))
<1> DEFINE s == Tested(r)
<1>1. /\ s.dirty = (r.dirty \/ r.pmod) /\ s.map = r.map /\ s.pmod = r.pmod
      /\ s.object = r.object /\ s.queue = r.queue /\ s.marked = r.marked /\ s.valid = r.valid
      /\ s.held = r.held /\ s.busy = r.busy /\ s.unsaved = r.unsaved
  BY TestedFacts
<1> HIDE DEF s
<1>2. \A t \in s.marked : s.queue = Own[t]
  BY <1>1 DEF Sound
<1> QED BY <1>1, <1>2 DEF Sound, Harmless, s

\* So does removing its mappings.
LEMMA UnmappedSound ==
  ASSUME NEW r \in PageRecord, Sound(r)
  PROVE  Sound(Unmapped(r)) /\ Harmless(r, Unmapped(r))
<1> DEFINE s == Unmapped(r)
<1>1. /\ s.dirty = (r.dirty \/ r.pmod) /\ s.map = "none" /\ s.pmod = FALSE
      /\ s.object = r.object /\ s.queue = r.queue /\ s.marked = r.marked /\ s.valid = r.valid
      /\ s.held = r.held /\ s.busy = r.busy /\ s.unsaved = r.unsaved
  BY UnmappedFacts
<1> HIDE DEF s
<1>2. \A t \in s.marked : s.queue = Own[t]
  BY <1>1 DEF Sound
<1> QED BY <1>1, <1>2 DEF Sound, Harmless, s

\* Whatever the pager answers for a page that is written, it stays sound.
LEMMA AnswerFacts ==
  ASSUME NEW r \in PageRecord, Sound(r), r.busy, NEW s \in {"OK", "PEND", "FAIL", "AGAIN"}
  PROVE  /\ Answer(s, r) \in PageRecord /\ Sound(Answer(s, r))
         /\ Answer(s, r).object = r.object /\ Answer(s, r).queue # "none"
<1>1. CASE s = "OK"
  <2> DEFINE w == Written(r)
             d == Deactivated(w)
  <2>1. /\ w \in PageRecord /\ w.busy /\ w.queue = "laundry" /\ w.unsaved = "no" /\ w.valid
        /\ w.map # "write" /\ ~w.pmod /\ w.object = r.object
    BY DEF Written, PageRecord, Sound
  <2> HIDE DEF w
  <2>2. /\ d \in PageRecord /\ d.queue = "inactive" /\ d.unsaved = "no" /\ d.marked = {} /\ d.valid
        /\ d.map # "write" /\ ~d.pmod /\ d.object = r.object
    BY <2>1, ToFacts DEF Deactivated
  <2> HIDE DEF d
  <2>3. Answer(s, r) = Idled(d)
    BY <1>1 DEF Answer, w, d
  <2>4. Idled(d) = [d EXCEPT !.busy = FALSE, !.unsaved = "no"]
    BY <2>2 DEF Idled, PageRecord
  <2> DEFINE e == [d EXCEPT !.busy = FALSE, !.unsaved = "no"]
  <2>5. e \in PageRecord /\ Sound(e) /\ e.object = r.object /\ e.queue # "none"
    BY <2>2 DEF PageRecord, Sound
  <2> QED BY <2>3, <2>4, <2>5
<1>2. CASE s = "PEND"
  BY <1>2 DEF Answer, Sound
<1>3. CASE s = "FAIL"
  <2> DEFINE d == To(r, "active")
  <2>1. d \in PageRecord /\ d.unsaved = "sent" /\ d.dirty /\ d.queue = "active" /\ d.marked = {} /\ d.valid
        /\ d.map # "write" /\ ~d.pmod /\ d.object = r.object
    BY ToFacts DEF Sound, PageRecord
  <2>2. Answer(s, r) = Idled(d)
    BY <1>3 DEF Answer
  <2> HIDE DEF d
  <2>3. Idled(d) = [d EXCEPT !.busy = FALSE, !.unsaved = "yes"]
    BY <2>1 DEF Idled, PageRecord
  <2> DEFINE e == [d EXCEPT !.busy = FALSE, !.unsaved = "yes"]
  <2>4. e \in PageRecord /\ Sound(e) /\ e.object = r.object /\ e.queue # "none"
    BY <2>1 DEF PageRecord, Sound
  <2> QED BY <2>2, <2>3, <2>4
<1>4. CASE s = "AGAIN"
  <2>1. Answer(s, r) = [r EXCEPT !.busy = FALSE, !.unsaved = "yes"]
    BY <1>4 DEF Answer, Idled, PageRecord, Sound
  <2> QED BY <2>1 DEF PageRecord, Sound
<1> QED BY <1>1, <1>2, <1>3, <1>4

\* The other threads and the pager keep the invariant.
LEMMA OthersInv ==
  ASSUME Inv, NEW p \in Page, kernel' = kernel,
         Alloc(p) \/ Fault(p) \/ Write(p) \/ Unmap(p) \/ Hold(p) \/ Discard(p) \/ PagerDone(p)
  PROVE  Inv'
<1> DEFINE r == page[p]
           a == To(r, "active")
<1>0. /\ page \in [Page -> PageRecord] /\ r \in PageRecord /\ Sound(r)
      /\ a \in PageRecord /\ a.queue = "active" /\ a.dirty = r.dirty /\ a.map = r.map
      /\ a.pmod = r.pmod /\ a.held = r.held /\ a.busy = r.busy /\ a.unsaved = r.unsaved /\ a.marked = {} /\ a.valid = r.valid
  BY Types, ToFacts DEF Inv
<1>1. CASE Alloc(p)
  <2>1. PICK o \in Object : page' = [page EXCEPT ![p] = [a EXCEPT !.object = o]]
    BY <1>1 DEF Alloc
  <2>2. ~PageLocked(p) /\ ~r.busy
    BY <1>0, <1>1 DEF Alloc, InUse, PageLocked, Inv, KnowsPage, HasLocks, Sound
  <2> HIDE DEF a
  <2> DEFINE s == [a EXCEPT !.object = o]
  <2>3. s \in PageRecord /\ Sound(s) /\ s.queue = "active" /\ s.busy = r.busy
    BY <1>0, <2>2 DEF PageRecord, Sound
  <2> HIDE DEF s
  <2> QED BY <1>1, <2>1, <2>2, <2>3, PageStep DEF Alloc, s
<1>2. CASE Fault(p)
  <2>1. PICK m \in {"read", "write"} :
          page' = [page EXCEPT ![p] = [a EXCEPT !.map = IF r.map = "write" THEN "write" ELSE m, !.valid = TRUE]]
    BY <1>2 DEF Fault
  <2> DEFINE s == [a EXCEPT !.map = IF r.map = "write" THEN "write" ELSE m, !.valid = TRUE]
  <2> HIDE DEF a
  <2>2. ~PageLocked(p) /\ ~r.busy
    BY <1>2 DEF Fault
  <2>3. s \in PageRecord /\ Sound(s) /\ s.queue = "active" /\ s.busy = r.busy
    BY <1>0, <2>2 DEF PageRecord, Sound
  <2> HIDE DEF s
  <2> QED BY <1>2, <2>1, <2>2, <2>3, PageStep DEF Fault, s
<1>3. CASE Write(p)
  <2> DEFINE s == [r EXCEPT !.pmod = TRUE, !.unsaved = "yes"]
  <2>1. page' = [page EXCEPT ![p] = s] /\ r.map = "write"
    BY <1>0, <1>3 DEF Write
  <2> HIDE DEF r
  <2>2. s \in PageRecord /\ Sound(s) /\ Harmless(r, s)
    BY <1>0, <2>1 DEF PageRecord, Sound, Harmless
  <2> HIDE DEF s
  <2>3. s.queue = r.queue /\ s.object = r.object /\ s.busy = r.busy
    BY <2>2 DEF Harmless
  <2> QED BY <1>3, <2>1, <2>2, <2>3, PageStep DEF Write, r
<1>4. CASE Unmap(p)
  <2>1. page' = [page EXCEPT ![p] = Unmapped(r)]
    BY <1>4 DEF Unmap
  <2>2. Unmapped(r) \in PageRecord /\ Sound(Unmapped(r)) /\ Harmless(r, Unmapped(r))
    BY <1>0, UnmappedFacts, UnmappedSound
  <2>3. Unmapped(r).queue = r.queue /\ Unmapped(r).object = r.object /\ Unmapped(r).busy = r.busy
    BY <2>2 DEF Harmless
  <2> QED BY <1>4, <2>1, <2>2, <2>3, PageStep DEF Unmap
<1>5. CASE Hold(p)
  <2> DEFINE h == ~r.held
             s == [r EXCEPT !.held = h]
  <2>1. page' = [page EXCEPT ![p] = s] /\ h \in BOOLEAN
    BY <1>0, <1>5 DEF Hold
  <2> HIDE DEF h, r
  <2>2. s \in PageRecord /\ Sound(s) /\ s.queue = r.queue /\ s.object = r.object /\ s.busy = r.busy
    BY <1>0, <2>1 DEF PageRecord, Sound
  <2> HIDE DEF s
  <2> QED BY <1>5, <2>1, <2>2, PageStep DEF Hold, r
<1>6. CASE Discard(p)
  <2>1. FreePage \in PageRecord /\ Sound(FreePage) /\ FreePage.queue = "free" /\ FreePage.busy = FALSE
    BY DEF FreePage, PageRecord, Sound, Object
  <2>2. r.busy = FALSE /\ ~PageLocked(p)
    BY <1>0, <1>6 DEF Discard, PageRecord
  <2> QED BY <1>6, <2>1, <2>2, PageStep DEF Discard
<1>7. CASE PagerDone(p)
  <2>1. PICK s \in {"OK", "FAIL"} : page' = [page EXCEPT ![p] = Answer(s, r)]
    BY <1>7 DEF PagerDone
  <2>2. ~PageLocked(p) /\ r.busy /\ p \notin local["launder"].cluster
    BY <1>7 DEF PagerDone, PageLocked, Inv, KnowsPage, HasLocks
  <2> QED BY <1>0, <1>7, <2>1, <2>2, AnswerFacts, PageStep DEF PagerDone
<1> QED BY <1>1, <1>2, <1>3, <1>4, <1>5, <1>6, <1>7

\* The end of an object keeps it: no page of an object that may be born anew is
\* left, and one that is in no queue by its death stays excused.
LEMMA TerminateInv ==
  ASSUME Inv, NEW o \in Object, Terminate(o), kernel' = kernel
  PROVE  Inv'
<1>1. page' = page /\ local' = local
  BY DEF Terminate
<1>2. TypeOK'
  BY <1>1 DEF Terminate, Inv, TypeOK
<1>3. NeverStranded'
  BY <1>1 DEF Terminate, Inv, NeverStranded, PageLocked, InUse
<1> QED BY <1>1, <1>2, <1>3 DEF Inv, KnowsPage, HasLocks

\* A step of thread t that changes one page p and its own place.
LEMMA ThreadStep ==
  ASSUME Inv, NEW t \in Thread, NEW p \in Page, NEW r \in PageRecord, NEW x \in LocalRecord,
         page' = [page EXCEPT ![p] = r], local' = [local EXCEPT ![t] = x],
         dead' = dead, kernel' = kernel,
         Sound(r), r.busy = page[p].busy,
         \A u \in Thread \ {t} : HasLocks(u) /\ local[u].m = p => Harmless(page[p], r),
         KnowsPage(t)',
         x.pc \in Holding => \A u \in Thread \ {t} : HasLocks(u) => x.o # local[u].o,
         x.pc # "next" => x.m \in Page,
         x.pc # "put", x.pc = "vnode" => x.o = "file",
         HasLocks(t) => local[t].m = p,
         r.queue = "none" =>
           \/ r.object \in dead
           \/ x.pc \in Holding /\ x.m = p
           \/ ~HasLocks(t) /\ page[p].queue = "none" /\ page[p].object = r.object
  PROVE  Inv'
<1> USE DEF Inv
<1>1. /\ page \in [Page -> PageRecord] /\ page' \in [Page -> PageRecord] /\ page'[p] = r
      /\ \A q \in Page \ {p} : page'[q] = page[q]
      /\ local \in [Thread -> LocalRecord] /\ local' \in [Thread -> LocalRecord] /\ local'[t] = x
      /\ \A u \in Thread \ {t} : local'[u] = local[u]
  BY Types
<1>2. TypeOK'
  BY <1>1 DEF TypeOK, PageRecord, LocalRecord
<1>3. \A q \in Page : Sound(page'[q])
  BY <1>1
<1>4. ASSUME NEW u \in Thread PROVE KnowsPage(u)'
  <2>1. CASE u = t
    BY <2>1
  <2>2. CASE u # t /\ ~HasLocks(u)
    BY <2>2, <1>1 DEF KnowsPage, HasLocks
  <2>3. CASE u # t /\ HasLocks(u) /\ local[u].m # p
    BY <2>3, <1>1 DEF KnowsPage, HasLocks
  <2>4. CASE u # t /\ HasLocks(u) /\ local[u].m = p
    <3>1. Harmless(page[p], r)
      BY <2>4
    <3> QED BY <2>4, <3>1, <1>1 DEF KnowsPage, HasLocks, Harmless
  <2> QED BY <2>1, <2>2, <2>3, <2>4
<1>5. (HasLocks("scan") /\ HasLocks("launder") => local["scan"].o # local["launder"].o)'
  BY <1>1 DEF HasLocks, Thread
<1>6. \A u \in Thread : local'[u].pc # "next" => local'[u].m \in Page
  BY <1>1
<1>7. (local["launder"].pc = "put" => \A q \in local["launder"].cluster : page[q].busy)'
  <2>1. local["launder"].cluster \subseteq Page
    BY DEF TypeOK, Thread
  <2> QED BY <2>1, <1>1 DEF Thread
<1>8. (local["launder"].pc = "vnode" => local["launder"].o = "file")'
  BY <1>1 DEF Thread
<1>9. NeverStranded'
  <2> SUFFICES ASSUME NEW q \in Page, page'[q].queue = "none"
               PROVE page'[q].object \in dead \/ PageLocked(q)'
    BY DEF NeverStranded
  <2>1. CASE q # p
    <3>1. page[q].object \in dead \/ PageLocked(q)
      BY <2>1, <1>1 DEF NeverStranded
    <3>2. \A u \in Thread : local[u].pc \in Holding /\ local[u].m = q => u # t
      BY <2>1 DEF HasLocks
    <3> QED BY <2>1, <3>1, <3>2, <1>1 DEF PageLocked
  <2>2. CASE q = p
    <3>1. CASE r.object \in dead
      BY <3>1, <2>2, <1>1
    <3>2. CASE x.pc \in Holding /\ x.m = p
      BY <3>2, <2>2, <1>1 DEF PageLocked
    <3>3. CASE ~HasLocks(t) /\ page[p].queue = "none" /\ page[p].object = r.object
      <4>1. page[p].object \in dead \/ PageLocked(p)
        BY <3>3 DEF NeverStranded
      <4> QED BY <3>3, <4>1, <2>2, <1>1 DEF PageLocked, HasLocks
    <3> QED BY <3>1, <3>2, <3>3, <2>2, <1>1
  <2> QED BY <2>1, <2>2
<1> QED BY <1>2, <1>3, <1>4, <1>5, <1>6, <1>7, <1>8, <1>9

\* A thread waits for a lock, passes a page over or takes it.
LEMMA MarkFacts ==
  ASSUME NEW r \in PageRecord, NEW k \in SUBSET Thread
  PROVE  LET s == [r EXCEPT !.marked = k]
         IN  /\ s \in PageRecord /\ Harmless(r, s)
             /\ Sound(r) /\ (\A t \in k : r.queue = Own[t]) => Sound(s)
             /\ s.map = r.map /\ s.dirty = r.dirty /\ s.unsaved = r.unsaved
BY DEF PageRecord, Sound, Harmless

\* Waiting for a lock with the marker behind the page.
LEMMA WaitsInv ==
  ASSUME Inv, NEW t \in Thread, NEW p \in Page, NEW pc \in {"page", "object"},
         Waits(t, p, pc), ~HasLocks(t), dead' = dead, kernel' = kernel, page[p].queue = Own[t]
  PROVE  Inv'
<1> DEFINE r == page[p]
           k == r.marked \cup {t}
           s == [r EXCEPT !.marked = k]
           x == [pc |-> pc, m |-> p, o |-> r.object, cluster |-> {}]
<1>1. page \in [Page -> PageRecord] /\ r \in PageRecord /\ Sound(r) /\ local \in [Thread -> LocalRecord]
  BY Types DEF Inv
<1>2. page' = [page EXCEPT ![p] = s] /\ local' = [local EXCEPT ![t] = x]
  BY <1>1 DEF Waits
<1>3. k \in SUBSET Thread /\ r.object \in Object /\ \A u \in k : r.queue = Own[u]
  BY <1>1 DEF PageRecord, Sound
<1>4. s \in PageRecord /\ Sound(s) /\ Harmless(r, s)
  BY <1>1, <1>3, MarkFacts
<1>5. x \in LocalRecord /\ x.pc \notin Holding /\ x.pc \notin {"put", "vnode"} /\ x.m = p
  BY <1>3 DEF LocalRecord, Holding
<1> HIDE DEF s, x
<1>6. KnowsPage(t)'
  BY <1>1, <1>2, <1>5 DEF KnowsPage, HasLocks
<1>7. s.busy = r.busy /\ s.queue = r.queue /\ s.object = r.object
  BY <1>4 DEF Harmless
<1>8. s.queue = "none" => r.queue = "none" /\ r.object = s.object
  BY <1>7
<1> QED BY <1>2, <1>4, <1>5, <1>6, <1>7, <1>8, ThreadStep

\* The page of a thread, and what it becomes at rest.
LEMMA RestInv ==
  ASSUME Inv, NEW t \in Thread, NEW p \in Page, NEW s \in PageRecord,
         Rests(t), page' = [page EXCEPT ![p] = s], dead' = dead, kernel' = kernel,
         p = local[t].m, Sound(s), s.busy = page[p].busy,
         HasLocks(t) \/ Harmless(page[p], s),
         s.queue = "none" => page[p].queue = "none" /\ page[p].object = s.object /\ (HasLocks(t) => s.object \in dead)
  PROVE  Inv'
<1>1. page \in [Page -> PageRecord] /\ local \in [Thread -> LocalRecord]
  BY Types DEF Inv
<1>2. local' = [local EXCEPT ![t] = Resting]
  BY DEF Rests
<1>3. Resting \in LocalRecord /\ Resting.pc = "next"
  BY DEF Resting, LocalRecord, Object, Holding
<1>4. KnowsPage(t)'
  BY <1>1, <1>2, <1>3 DEF KnowsPage, HasLocks, Holding
<1>5. ASSUME NEW u \in Thread \ {t}, HasLocks(u), local[u].m = p PROVE Harmless(page[p], s)
  <2>1. ~HasLocks(t)
    BY <1>5 DEF Inv, KnowsPage, Thread
  <2> QED BY <2>1
<1> QED BY <1>1, <1>2, <1>3, <1>4, <1>5, ThreadStep DEF Holding

\* Passing a page over.
LEMMA PassesInv ==
  ASSUME Inv, NEW t \in Thread, Passes(t), local[t].pc # "next", dead' = dead, kernel' = kernel,
         HasLocks(t) /\ page[local[t].m].queue = "none" => local[t].o \in dead
  PROVE  Inv'
<1> DEFINE p == local[t].m
           r == page[p]
           k == r.marked \ {t}
           s == [r EXCEPT !.marked = k]
<1>1. p \in Page /\ NoPage \notin Page
  BY PageQueuesAssumption DEF Inv
<1>2. page \in [Page -> PageRecord] /\ r \in PageRecord /\ Sound(r)
  BY <1>1, Types DEF Inv
<1>3. page' = [page EXCEPT ![p] = s] /\ Rests(t)
  BY <1>1, <1>2 DEF Passes
<1>4. k \in SUBSET Thread /\ \A u \in k : r.queue = Own[u]
  BY <1>2 DEF PageRecord, Sound
<1>5. s \in PageRecord /\ Sound(s) /\ Harmless(r, s)
  BY <1>2, <1>4, MarkFacts
<1>6. s.busy = r.busy /\ s.queue = r.queue /\ s.object = r.object
  BY <1>5 DEF Harmless
<1>7. HasLocks(t) => r.object = local[t].o
  BY DEF Inv, KnowsPage
<1> HIDE DEF s
<1> QED BY <1>1, <1>3, <1>5, <1>6, <1>7, RestInv

\* Taking an idle page with both locks.
LEMMA TakesInv ==
  ASSUME Inv, NEW t \in Thread, NEW p \in Page, Takes(t, p), ~HasLocks(t), dead' = dead, kernel' = kernel,
         ~PageLocked(p), ~ObjectLocked(page[p].object), Idle(p), page[p].queue = Own[t]
  PROVE  Inv'
<1> DEFINE r == page[p]
           k == {t}
           s == IF t = "scan" THEN To(r, "none") ELSE [r EXCEPT !.marked = k]
           x == [pc |-> "test", m |-> p, o |-> r.object, cluster |-> {}]
<1>1. page \in [Page -> PageRecord] /\ r \in PageRecord /\ Sound(r) /\ local \in [Thread -> LocalRecord]
  BY Types DEF Inv
<1>2. page' = [page EXCEPT ![p] = s] /\ local' = [local EXCEPT ![t] = x]
  BY <1>1 DEF Takes
<1>3. r.object \in Object /\ r.held = FALSE /\ r.busy = FALSE
  BY <1>1 DEF PageRecord, Idle
<1>4. /\ s \in PageRecord /\ Sound(s) /\ s.busy = FALSE /\ s.held = FALSE /\ s.object = r.object
      /\ s.queue = IF t = "scan" THEN "none" ELSE "laundry"
  <2>1. CASE t = "scan"
    BY <2>1, <1>1, <1>3, ToFacts DEF Sound
  <2>2. CASE t # "scan"
    <3>1. s = [r EXCEPT !.marked = k] /\ k \in SUBSET Thread /\ r.queue = "laundry"
      BY <2>2 DEF Thread, Own
    <3> QED BY <3>1, <2>2, <1>1, <1>3, MarkFacts DEF Harmless
  <2> QED BY <2>1, <2>2
<1>5. x \in LocalRecord /\ x.pc = "test" /\ x.m = p /\ x.o = r.object
  BY <1>3 DEF LocalRecord, Holding
<1> HIDE DEF s, x
<1>6. page'[p] = s /\ local'[t] = x
  BY <1>1, <1>2
<1>7. KnowsPage(t)'
  BY <1>4, <1>5, <1>6 DEF KnowsPage
<1>8. \A u \in Thread \ {t} : HasLocks(u) => x.o # local[u].o /\ local[u].m # p
  BY <1>5 DEF HasLocks, ObjectLocked, PageLocked
<1> QED BY <1>2, <1>3, <1>4, <1>5, <1>7, <1>8, ThreadStep DEF Holding

\* The next page of the queue.
LEMMA TakeInv ==
  ASSUME Inv, NEW t \in Thread, NEW p \in Page, Take(t, p), dead' = dead, kernel' = kernel
  PROVE  Inv'
<1>1. ~HasLocks(t) /\ page[p].queue = Own[t]
  BY DEF Take, HasLocks, Holding
<1> QED BY <1>1, WaitsInv, TakesInv DEF Take

\* A marker that still stands behind the page says that it is in the queue.
LEMMA UnchangedFacts ==
  ASSUME Inv, NEW t \in Thread, local[t].m \in Page, Unchanged(t)
  PROVE  page[local[t].m].queue = Own[t] /\ page[local[t].m].object = local[t].o
         /\ ~page[local[t].m].held
BY DEF Inv, Unchanged, Sound

\* The second look at a page, when the lock is there.
LEMMA TakeWithInv ==
  ASSUME Inv, NEW t \in Thread, TakeWithPage(t) \/ TakeWithObject(t), dead' = dead, kernel' = kernel
  PROVE  Inv'
<1> DEFINE p == local[t].m
<1>1. ~HasLocks(t) /\ p \in Page /\ local[t].pc # "next" /\ ~PageLocked(p)
  BY DEF TakeWithPage, TakeWithObject, Inv, HasLocks, Holding
<1>2. CASE Passes(t)
  BY <1>1, <1>2, PassesInv
<1>3. CASE Unchanged(t) /\ Waits(t, p, "object")
  BY <1>1, <1>3, UnchangedFacts, WaitsInv
<1>4. CASE Unchanged(t) /\ Takes(t, p) /\ ~ObjectLocked(page[p].object) /\ Idle(p)
  BY <1>1, <1>4, UnchangedFacts, TakesInv
<1>5. CASE TakeWithPage(t)
  BY <1>2, <1>3, <1>4, <1>5 DEF TakeWithPage
<1>6. CASE TakeWithObject(t)
  BY <1>1, <1>2, <1>4, <1>6, UnchangedFacts DEF TakeWithObject, Idle
<1> QED BY <1>5, <1>6

\* A thread goes on with its page, and keeps both locks.
LEMMA GoesInv ==
  ASSUME Inv, NEW t \in Thread, NEW s \in PageRecord, NEW pc \in {"strip", "decide"},
         HasLocks(t), Goes(t, pc), dead' = dead, kernel' = kernel,
         page' = [page EXCEPT ![local[t].m] = s], Sound(s), Harmless(page[local[t].m], s),
         pc = "decide" /\ ~s.dirty => s.map = "none"
  PROVE  Inv'
<1> DEFINE p == local[t].m
           x == [local[t] EXCEPT !.pc = pc]
<1>1. /\ page \in [Page -> PageRecord] /\ local \in [Thread -> LocalRecord]
      /\ local[t] \in LocalRecord
  BY Types DEF Inv
<1>2. p \in Page /\ page[p].queue = (IF t = "scan" THEN "none" ELSE "laundry")
      /\ page[p].object = local[t].o /\ ~page[p].held /\ ~page[p].busy
  BY DEF Inv, KnowsPage
<1>3. local' = [local EXCEPT ![t] = x]
  BY <1>1 DEF Goes
<1>4. x \in LocalRecord /\ x.pc = pc /\ x.m = p /\ x.o = local[t].o
  BY <1>1 DEF LocalRecord, Holding
<1> HIDE DEF x
<1>5. page'[p] = s /\ local'[t] = x
  BY <1>1, <1>2, <1>3
<1>6. s.queue = page[p].queue /\ s.object = page[p].object /\ s.held = page[p].held /\ s.busy = page[p].busy
  BY DEF Harmless
<1>7. KnowsPage(t)'
  BY <1>2, <1>4, <1>5, <1>6 DEF KnowsPage
<1>8. \A u \in Thread \ {t} : HasLocks(u) => x.o # local[u].o
  BY <1>4 DEF Inv, Thread
<1> QED BY <1>2, <1>3, <1>4, <1>6, <1>7, <1>8, ThreadStep DEF Holding

\* Testing the page, or moving it to a queue.
LEMMA TestInv ==
  ASSUME Inv, NEW t \in Thread, Test(t), dead' = dead, kernel' = kernel
  PROVE  Inv'
<1> DEFINE p == local[t].m
           r == page[p]
<1>1. HasLocks(t) /\ p \in Page /\ page \in [Page -> PageRecord] /\ r \in PageRecord /\ Sound(r) /\ r.busy = FALSE
  <2>1. HasLocks(t)
    BY DEF Test, HasLocks, Holding
  <2>2. p \in Page /\ ~r.busy
    BY <2>1 DEF Inv, KnowsPage
  <2>3. page \in [Page -> PageRecord] /\ r \in PageRecord /\ Sound(r)
    BY <2>2, Types DEF Inv
  <2> QED BY <2>1, <2>2, <2>3 DEF PageRecord
<1>2. CASE Rests(t) /\ (Moves(p, "active") \/ Requeued(t, p))
  <2>1. PICK q \in {"active", "inactive", "laundry"} : page' = [page EXCEPT ![p] = To(r, q)]
    BY <1>1, <1>2 DEF Requeued, Moves, Own, Thread
  <2> DEFINE s == To(r, q)
  <2>2. s \in PageRecord /\ Sound(s) /\ s.busy = FALSE /\ s.queue # "none"
    BY <1>1, ToFacts DEF Sound
  <2> HIDE DEF s
  <2> QED BY <1>1, <1>2, <2>1, <2>2, RestInv DEF s
<1>3. CASE page' = [page EXCEPT ![p] = Tested(r)] /\ Goes(t, IF page'[p].dirty THEN "decide" ELSE "strip")
  <2> DEFINE s == Tested(r)
  <2>1. s \in PageRecord /\ Sound(s) /\ Harmless(r, s)
    BY <1>1, TestedFacts, TestedSound
  <2> HIDE DEF s
  <2>2. page'[p] = s
    BY <1>1, <1>3 DEF s
  <2>3. CASE s.dirty
    BY <1>1, <1>3, <2>1, <2>2, <2>3, GoesInv DEF s
  <2>4. CASE ~s.dirty
    BY <1>1, <1>3, <2>1, <2>2, <2>4, GoesInv DEF s
  <2> QED BY <2>3, <2>4
<1> QED BY <1>2, <1>3 DEF Test

\* Removing its mappings.
LEMMA StripInv ==
  ASSUME Inv, NEW t \in Thread, Strip(t), dead' = dead, kernel' = kernel
  PROVE  Inv'
<1> DEFINE p == local[t].m
           r == page[p]
<1>1. HasLocks(t) /\ p \in Page
  BY DEF Strip, HasLocks, Holding, Inv
<1>2. page \in [Page -> PageRecord] /\ r \in PageRecord /\ Sound(r)
  BY <1>1, Types DEF Inv
<1>3. page' = [page EXCEPT ![p] = Unmapped(r)] /\ Goes(t, "decide")
  BY DEF Strip, Stripped
<1>4. Unmapped(r) \in PageRecord /\ Sound(Unmapped(r)) /\ Harmless(r, Unmapped(r)) /\ Unmapped(r).map = "none"
  BY <1>2, UnmappedFacts, UnmappedSound
<1> QED BY <1>1, <1>3, <1>4, GoesInv

\* Freeing it.
LEMMA FreeInv ==
  ASSUME Inv, NEW t \in Thread, Free(t), dead' = dead, kernel' = kernel
  PROVE  Inv'
<1>1. HasLocks(t) /\ local[t].m \in Page
  BY DEF Free, HasLocks, Holding, Inv
<1>2. page[local[t].m].busy = FALSE
  BY <1>1, Types DEF Inv, KnowsPage, PageRecord
<1>3. FreePage \in PageRecord /\ Sound(FreePage) /\ FreePage.queue = "free" /\ FreePage.busy = FALSE
  BY DEF FreePage, PageRecord, Sound, Object
<1> QED BY <1>1, <1>2, <1>3, RestInv DEF Free

\* Leaving the dirty page of a dead object.
LEMMA LeaveDeadInv ==
  ASSUME Inv, NEW t \in Thread, LeaveDead(t), dead' = dead, kernel' = kernel
  PROVE  Inv'
BY PassesInv DEF LeaveDead, Dirty

\* A dirty page goes to the laundry, to its tail or for the first time.
LEMMA LaunderedInv ==
  ASSUME Inv, ToLaundry \/ NoPageout, dead' = dead, kernel' = kernel
  PROVE  Inv'
<1>1. PICK t \in Thread : Dirty(t) /\ Moves(local[t].m, "laundry") /\ Rests(t)
  BY DEF ToLaundry, NoPageout, Dirties, Thread
<1> DEFINE p == local[t].m
           r == page[p]
           s == To(r, "laundry")
<1>2. HasLocks(t) /\ p \in Page
  BY <1>1 DEF Dirty, HasLocks, Holding, Inv
<1>3. page \in [Page -> PageRecord] /\ r \in PageRecord /\ Sound(r)
  BY <1>2, Types DEF Inv
<1>4. s \in PageRecord /\ Sound(s) /\ s.busy = r.busy /\ s.queue = "laundry"
  BY <1>3, ToFacts DEF Sound
<1>5. page' = [page EXCEPT ![p] = s]
  BY <1>1 DEF Moves
<1> HIDE DEF s
<1> QED BY <1>1, <1>2, <1>4, <1>5, RestInv

\* Both locks are dropped for the vnode.
LEMMA AskVnodeInv ==
  ASSUME Inv, AskVnode, dead' = dead, kernel' = kernel
  PROVE  Inv'
<1> DEFINE t == "launder"
           p == local[t].m
           r == page[p]
           x == [local[t] EXCEPT !.pc = "vnode"]
<1>1. t \in Thread /\ HasLocks(t) /\ local[t].pc # "next" /\ p \in Page /\ local[t].o = "file" /\ r.queue = "laundry"
  BY DEF AskVnode, Dirties, Dirty, HasLocks, Holding, Inv, Thread, KnowsPage
<1>2. CASE Passes(t)
  BY <1>1, <1>2, PassesInv
<1>3. CASE Goes(t, "vnode") /\ UNCHANGED page
  <2>1. /\ page \in [Page -> PageRecord] /\ local \in [Thread -> LocalRecord]
        /\ local[t] \in LocalRecord /\ r \in PageRecord /\ Sound(r)
    BY <1>1, Types DEF Inv
  <2>2. page' = [page EXCEPT ![p] = r] /\ local' = [local EXCEPT ![t] = x]
    BY <1>3, <2>1 DEF Goes
  <2>3. x \in LocalRecord /\ x.pc = "vnode" /\ x.m = p /\ x.o = "file"
    BY <1>1, <2>1 DEF LocalRecord
  <2> HIDE DEF x
  <2>4. KnowsPage(t)'
    BY <1>1, <2>1, <2>2, <2>3 DEF KnowsPage, HasLocks, Holding
  <2>5. Harmless(r, r)
    BY DEF Harmless
  <2> HIDE DEF t
  <2> QED BY <1>1, <2>1, <2>2, <2>3, <2>4, <2>5, ThreadStep DEF Holding
<1> QED BY <1>2, <1>3 DEF AskVnode

\* The active scan keeps the invariant: a page of the active queue is not busy.
LEMMA ActiveInv ==
  ASSUME Inv, NEW p \in Page, Active(p), dead' = dead, kernel' = kernel
  PROVE  Inv'
<1> DEFINE r == page[p]
<1>1. page \in [Page -> PageRecord] /\ r \in PageRecord /\ Sound(r)
  BY Types DEF Inv
<1>2. r.queue = "active" /\ r.busy = FALSE /\ ~PageLocked(p) /\ local' = local
  BY <1>1 DEF Active, Sound, PageRecord
<1>3. FreePage \in PageRecord /\ Sound(FreePage) /\ FreePage.queue = "free" /\ FreePage.busy = FALSE
  BY DEF FreePage, PageRecord, Sound, Object
<1>4. CASE \E q \in {"inactive", "laundry"} : Moves(p, q)
  <2>1. PICK q \in {"inactive", "laundry"} : page' = [page EXCEPT ![p] = To(r, q)]
    BY <1>4 DEF Moves
  <2> DEFINE s == To(r, q)
  <2>2. s \in PageRecord /\ Sound(s) /\ s.busy = FALSE /\ s.queue = q
    BY <1>1, <1>2, ToFacts DEF Sound
  <2> HIDE DEF s
  <2> QED BY <1>2, <2>1, <2>2, PageStep DEF s
<1>5. CASE page' = [page EXCEPT ![p] = FreePage]
  BY <1>2, <1>3, <1>5, PageStep
<1> QED BY <1>4, <1>5 DEF Active, ActiveClock, ActiveFifo

\* A dirty page of the laundry that is sent is write protected, busy and sound.
LEMMA SentFacts ==
  ASSUME NEW r \in PageRecord, Sound(r), r.queue = "laundry", Tested(r).dirty, NEW p
  PROVE  /\ Sent(p, r) \in PageRecord /\ Sound(Sent(p, r)) /\ Sent(p, r).busy
         /\ Sent(p, r).queue = "laundry" /\ Sent(p, r).object = r.object
<1> DEFINE d == Protected(r)
<1>1. /\ d \in PageRecord /\ d.dirty /\ d.map # "write" /\ ~d.pmod /\ d.queue = "laundry"
      /\ d.object = r.object /\ d.marked = r.marked /\ d.valid = r.valid
  <2>1. CASE r.map = "write"
    <3> DEFINE s == Tested(r)
    <3>1. s \in PageRecord /\ s.dirty /\ s.queue = r.queue /\ s.object = r.object /\ s.marked = r.marked
          /\ s.valid = r.valid
      BY TestedFacts
    <3> HIDE DEF s
    <3>2. d = [s EXCEPT !.map = "read", !.pmod = FALSE]
      BY <2>1 DEF Protected, s
    <3> HIDE DEF d
    <3> QED BY <3>1, <3>2 DEF PageRecord
  <2>2. CASE r.map # "write"
    BY <2>2, TestedFacts DEF Protected, Sound, PageRecord
  <2> QED BY <2>1, <2>2
<1> DEFINE e == [d EXCEPT !.busy = TRUE, !.unsaved = "sent"]
<1>2. Sent(p, r) = e
  BY DEF Sent
<1>3. \A t \in d.marked : d.queue = Own[t]
  BY <1>1 DEF Sound
<1> HIDE DEF d
<1>4. /\ e \in PageRecord /\ e.busy = TRUE /\ e.unsaved = "sent" /\ e.dirty = d.dirty /\ e.map = d.map
      /\ e.pmod = d.pmod /\ e.queue = d.queue /\ e.object = d.object /\ e.marked = d.marked
      /\ e.valid = d.valid
  BY <1>1 DEF PageRecord
<1> HIDE DEF e
<1>5. \A t \in e.marked : e.queue = Own[t]
  BY <1>3, <1>4
<1>6. r.valid
  BY TestedFacts DEF Sound
<1> QED BY <1>1, <1>2, <1>4, <1>5, <1>6 DEF Sound

\* Sending a cluster keeps the invariant: all its pages are of one object, and the
\* inactive scan has no page of it.
LEMMA ClusterInv ==
  ASSUME Inv, Cluster, dead' = dead, kernel' = kernel,
         local["launder"].m \in Page, page[local["launder"].m].queue = "laundry",
         page[local["launder"].m].dirty, Idle(local["launder"].m),
         page[local["launder"].m].object = local["launder"].o,
         HasLocks("scan") => local["scan"].o # local["launder"].o
  PROVE  Inv'
<1> DEFINE m == local["launder"].m
           o == local["launder"].o
<1>0. PICK near \in SUBSET {p \in Page \ {m} : page[p].object = o /\ ~page[p].busy} :
        LET cluster == {p \in near : Joins(p)} \cup {m} IN
        /\ page' = [p \in Page |-> CASE p \in cluster        -> Sent(p, page[p])
                                   [] p \in near \ cluster -> Tested(page[p])
                                   [] OTHER                -> page[p]]
        /\ local' = [local EXCEPT !["launder"].pc = "put", !["launder"].cluster = cluster]
  BY DEF Cluster
<1> DEFINE cluster == {p \in near : Joins(p)} \cup {m}
           x == [local["launder"] EXCEPT !.pc = "put", !.cluster = cluster]
<1>1. /\ page \in [Page -> PageRecord] /\ local \in [Thread -> LocalRecord] /\ kernel \in Kernel
      /\ dead \subseteq Object /\ local["launder"] \in LocalRecord /\ "launder" \in Thread /\ "scan" \in Thread
  BY Types DEF Inv, Thread
<1>2. ASSUME NEW p \in Page
      PROVE  /\ page'[p] \in PageRecord /\ Sound(page'[p])
             /\ page'[p].queue = page[p].queue /\ page'[p].object = page[p].object
             /\ p \in cluster => page'[p].busy
             /\ page[p].object # o => page'[p] = page[p]
  <2> DEFINE r == page[p]
  <2>1. r \in PageRecord /\ Sound(r)
    BY <1>1 DEF Inv
  <2>2. CASE p \in cluster
    <3>1. page'[p] = Sent(p, r)
      BY <1>0, <2>2
    <3>2. r.queue = "laundry" /\ Tested(r).dirty /\ r.object = o
      <4>1. CASE p = m
        BY <4>1, <2>1, TestedFacts
      <4>2. CASE p # m
        BY <4>2, <2>2, <1>0 DEF Joins
      <4> QED BY <4>1, <4>2
    <3> QED BY <3>1, <3>2, <2>1, SentFacts
  <2>3. CASE p \in near \ cluster
    <3>1. page'[p] = Tested(r)
      BY <1>0, <2>3
    <3> QED BY <3>1, <2>1, <2>3, <1>0, TestedFacts, TestedSound
  <2>4. CASE p \notin near /\ p \notin cluster
    BY <1>0, <2>1, <2>4
  <2> QED BY <2>2, <2>3, <2>4
<1>3. local' = [local EXCEPT !["launder"] = x] /\ cluster \subseteq Page
  BY <1>0, <1>1
<1>4. x \in LocalRecord /\ x.pc = "put" /\ x.cluster = cluster /\ x.m = m
  BY <1>1, <1>3 DEF LocalRecord
<1>5. page' \in [Page -> PageRecord]
  <2>1. page' = [p \in Page |-> page'[p]]
    BY <1>0
  <2> QED BY <2>1, <1>2
<1> HIDE DEF x, cluster, m, o
<1>6. /\ local' \in [Thread -> LocalRecord] /\ local'["launder"] = x /\ local'["scan"] = local["scan"]
  BY <1>1, <1>3, <1>4
<1>7. TypeOK'
  BY <1>1, <1>5, <1>6 DEF TypeOK, PageRecord, LocalRecord
<1>8. ASSUME HasLocks("scan") PROVE local["scan"].m \in Page /\ page'[local["scan"].m] = page[local["scan"].m]
  <2>1. local["scan"].m \in Page /\ page[local["scan"].m].object = local["scan"].o
    BY <1>8, <1>1 DEF Inv, KnowsPage
  <2> QED BY <2>1, <1>2, <1>8 DEF o
<1>9. \A t \in Thread : KnowsPage(t)'
  <2>1. KnowsPage("launder")'
    BY <1>4, <1>6 DEF KnowsPage, HasLocks, Holding
  <2>2. KnowsPage("scan")'
    BY <1>1, <1>6, <1>8 DEF KnowsPage, HasLocks, Inv
  <2> QED BY <2>1, <2>2 DEF Thread
<1>10. ~HasLocks("launder")'
  BY <1>4, <1>6 DEF HasLocks, Holding
<1>11. \A t \in Thread : local'[t].pc # "next" => local'[t].m \in Page
  BY <1>4, <1>6 DEF Thread, Inv, m
<1>12. \A p \in local'["launder"].cluster : page'[p].busy
  BY <1>2, <1>3, <1>4, <1>6
<1>13. local'["launder"].pc # "vnode"
  BY <1>4, <1>6
<1>14. NeverStranded'
  <2> SUFFICES ASSUME NEW p \in Page, page'[p].queue = "none"
               PROVE  page'[p].object \in dead \/ PageLocked(p)'
    BY DEF NeverStranded
  <2>1. page[p].queue = "none" /\ page'[p].object = page[p].object
    BY <1>2
  <2>2. CASE page[p].object \in dead
    BY <2>1, <2>2
  <2>3. CASE PageLocked(p)
    <3>1. ~(local["launder"].pc \in Holding /\ local["launder"].m = p)
      BY <2>1, <1>1 DEF Inv, KnowsPage, HasLocks
    <3>2. local["scan"].pc \in Holding /\ local["scan"].m = p
      BY <2>3, <3>1 DEF PageLocked, Thread
    <3> QED BY <3>2, <1>1, <1>6 DEF PageLocked
  <2> QED BY <2>1, <2>2, <2>3 DEF Inv, NeverStranded
<1>15. \A p \in Page : Sound(page'[p])
  BY <1>2
<1> QED BY <1>7, <1>9, <1>10, <1>11, <1>12, <1>13, <1>14, <1>15 DEF Inv

\* The cluster of a swap object, and of a file after the vnode is there.
LEMMA PageOutInv ==
  ASSUME Inv, PageOut \/ GotVnode, dead' = dead, kernel' = kernel
  PROVE  Inv'
<1> DEFINE m == local["launder"].m
<1>0. "launder" \in Thread /\ "scan" \in Thread
  BY DEF Thread
<1>1. CASE PageOut
  <2>1. HasLocks("launder") /\ page[m].dirty /\ Cluster
    BY <1>1 DEF PageOut, Dirties, Dirty, HasLocks, Holding
  <2>2. m \in Page /\ page[m].queue = "laundry" /\ Idle(m) /\ page[m].object = local["launder"].o
    BY <1>0, <2>1 DEF Inv, KnowsPage, Idle
  <2> QED BY <2>1, <2>2, ClusterInv DEF Inv
<1>2. CASE GotVnode
  <2>1. m \in Page /\ ~HasLocks("launder") /\ local["launder"].o = "file" /\ local["launder"].pc # "next"
    BY <1>0, <1>2 DEF GotVnode, Inv, HasLocks, Holding
  <2>2. CASE Passes("launder")
    BY <1>0, <2>1, <2>2, PassesInv
  <2>3. CASE ~ObjectLocked("file") /\ StillDirty(m) /\ Cluster
    <3>1. HasLocks("scan") => local["scan"].o # "file"
      BY <1>0, <2>3 DEF ObjectLocked, HasLocks
    <3> QED BY <3>1, <2>1, <2>3, ClusterInv DEF StillDirty
  <2> QED BY <1>2, <2>2, <2>3 DEF GotVnode
<1> QED BY <1>1, <1>2

\* The answer of the pager for the whole cluster.
LEMMA FlushInv ==
  ASSUME Inv, Flush, dead' = dead, kernel' = kernel
  PROVE  Inv'
<1> DEFINE c == local["launder"].cluster
<1>1. /\ page \in [Page -> PageRecord] /\ local \in [Thread -> LocalRecord] /\ kernel \in Kernel
      /\ dead \subseteq Object /\ local["launder"] \in LocalRecord /\ "launder" \in Thread /\ "scan" \in Thread
  BY Types DEF Inv, Thread
<1>2. /\ c \subseteq Page /\ \A p \in c : page[p].busy
      /\ local' = [local EXCEPT !["launder"] = Resting]
  BY <1>1 DEF Flush, Inv, LocalRecord, Rests
<1>3. PICK status \in [c -> {"OK", "PEND", "FAIL", "AGAIN"}] :
        page' = [p \in Page |-> IF p \in DOMAIN status THEN Answer(status[p], page[p]) ELSE page[p]]
  BY DEF Flush
<1>4. ASSUME NEW p \in Page
      PROVE  /\ page'[p] \in PageRecord /\ Sound(page'[p])
             /\ page'[p].queue = "none" => page'[p] = page[p]
             /\ ~page[p].busy => page'[p] = page[p]
  <2>1. page[p] \in PageRecord /\ Sound(page[p])
    BY <1>1 DEF Inv
  <2>2. CASE p \in c
    <3>1. page'[p] = Answer(status[p], page[p]) /\ status[p] \in {"OK", "PEND", "FAIL", "AGAIN"}
      BY <1>3, <2>2
    <3> QED BY <3>1, <2>1, <2>2, <1>2, AnswerFacts
  <2>3. CASE p \notin c
    BY <1>3, <2>1, <2>3
  <2> QED BY <2>2, <2>3
<1>5. page' \in [Page -> PageRecord]
  <2>1. page' = [p \in Page |-> page'[p]]
    BY <1>3
  <2> QED BY <2>1, <1>4
<1>6. Resting \in LocalRecord /\ Resting.pc = "next"
  BY DEF Resting, LocalRecord, Object, Holding
<1>7. local' \in [Thread -> LocalRecord] /\ local'["launder"] = Resting /\ local'["scan"] = local["scan"]
  BY <1>1, <1>2, <1>6
<1>8. TypeOK'
  BY <1>1, <1>5, <1>7 DEF TypeOK, PageRecord, LocalRecord
<1>9. \A t \in Thread : KnowsPage(t)'
  <2>1. KnowsPage("launder")'
    BY <1>6, <1>7 DEF KnowsPage, HasLocks, Holding
  <2>2. KnowsPage("scan")'
    BY <1>1, <1>4, <1>7 DEF KnowsPage, HasLocks, Inv
  <2> QED BY <2>1, <2>2 DEF Thread
<1>10. ~HasLocks("launder")' /\ local'["launder"].pc = "next"
  BY <1>6, <1>7 DEF HasLocks, Holding
<1>11. \A t \in Thread : local'[t].pc # "next" => local'[t].m \in Page
  BY <1>10, <1>7 DEF Thread, Inv
<1>12. NeverStranded'
  <2> SUFFICES ASSUME NEW p \in Page, page'[p].queue = "none"
               PROVE  page'[p].object \in dead \/ PageLocked(p)'
    BY DEF NeverStranded
  <2>1. page[p].queue = "none" /\ page'[p].object = page[p].object
    BY <1>4
  <2>2. CASE page[p].object \in dead
    BY <2>1, <2>2
  <2>3. CASE PageLocked(p)
    <3>1. local["launder"].pc \notin Holding
      BY DEF Flush, Holding
    <3>2. local["scan"].pc \in Holding /\ local["scan"].m = p
      BY <2>3, <3>1 DEF PageLocked, Thread
    <3> QED BY <3>2, <1>1, <1>7 DEF PageLocked
  <2> QED BY <2>1, <2>2, <2>3 DEF Inv, NeverStranded
<1>13. \A p \in Page : Sound(page'[p])
  BY <1>4
<1> QED BY <1>8, <1>9, <1>10, <1>11, <1>12, <1>13 DEF Inv

\* Every step keeps the invariant.
LEMMA NextInv == Inv /\ [Next]_vars => Inv'
<1> SUFFICES ASSUME Inv, [Next]_vars PROVE Inv'
  OBVIOUS
<1>1. CASE UNCHANGED vars
  BY <1>1 DEF vars, Inv, TypeOK, Sound, KnowsPage, HasLocks, NeverStranded, PageLocked
<1>2. CASE Others /\ kernel' = kernel
  BY <1>2, OthersInv DEF Others
<1>3. CASE kernel' = kernel /\ \E o \in Object : Terminate(o)
  BY <1>3, TerminateInv
<1>4. CASE Daemons /\ dead' = dead /\ kernel' = kernel
  <2>1. ASSUME NEW t \in Thread, Scans(t) PROVE Inv'
    BY <1>4, <2>1, TakeInv, TakeWithInv, TestInv, StripInv, FreeInv, LeaveDeadInv DEF Scans
  <2> QED BY <1>4, <2>1, ActiveInv, LaunderedInv, AskVnodeInv, PageOutInv, FlushInv DEF Daemons
<1> QED BY <1>1, <1>2, <1>3, <1>4 DEF Next

\* The inductive invariant holds of every behaviour.
THEOREM PagesInv == Spec => []Inv
BY InitInv, NextInv, PTL DEF Spec

\* Every page and thread has its type.
THEOREM PagesTyped == Spec => []TypeOK
<1>1. Inv => TypeOK
  BY DEF Inv
<1> QED BY <1>1, PagesInv, PTL

\* NeverStranded of PageQueues: vm_pageout_scan puts every page it dequeues into a
\* queue again, unless its object is dead.
THEOREM Stranded == Spec => []NeverStranded
<1>1. Inv => NeverStranded
  BY DEF Inv
<1> QED BY <1>1, PagesInv, PTL

\* WriteProtected: vm_pageout_cluster protects every page of a cluster before the
\* pager has it, and vm_fault waits while a page is busy.
THEOREM Protection == Spec => []WriteProtected
<1>1. Inv => WriteProtected
  BY DEF Inv, Sound, WriteProtected
<1> QED BY <1>1, PagesInv, PTL

\* Sending a page leaves it in its queue.
LEMMA SentQueue ==
  ASSUME NEW r \in PageRecord, NEW p
  PROVE  Sent(p, r).queue = r.queue
<1> DEFINE d == Protected(r)
<1>1. d \in PageRecord /\ d.queue = r.queue
  <2>1. CASE r.map = "write"
    <3> DEFINE s == Tested(r)
    <3>1. s \in PageRecord /\ s.queue = r.queue
      BY TestedFacts
    <3> HIDE DEF s
    <3>2. d = [s EXCEPT !.map = "read", !.pmod = FALSE]
      BY <2>1 DEF Protected, s
    <3> HIDE DEF d
    <3> QED BY <3>1, <3>2 DEF PageRecord
  <2>2. CASE r.map # "write"
    BY <2>2 DEF Protected
  <2> QED BY <2>1, <2>2
<1>2. Sent(p, r) = [d EXCEPT !.busy = TRUE, !.unsaved = "sent"]
  BY DEF Sent
<1> HIDE DEF d
<1> QED BY <1>1, <1>2 DEF PageRecord

\* Sending a cluster moves no page.
LEMMA ClusterQueue ==
  ASSUME Inv, Cluster, NEW p \in Page
  PROVE  page'[p].queue = page[p].queue
<1> DEFINE m == local["launder"].m
           o == local["launder"].o
           r == page[p]
<1>1. PICK near \in SUBSET {q \in Page \ {m} : page[q].object = o /\ ~page[q].busy} :
        LET cluster == {q \in near : Joins(q)} \cup {m} IN
        page' = [q \in Page |-> CASE q \in cluster        -> Sent(q, page[q])
                                [] q \in near \ cluster -> Tested(page[q])
                                [] OTHER                -> page[q]]
  BY DEF Cluster
<1>2. page'[p] = Sent(p, r) \/ page'[p] = Tested(r) \/ page'[p] = r
  BY <1>1
<1>3. r \in PageRecord
  BY Types DEF Inv
<1> QED BY <1>2, <1>3, SentQueue, TestedFacts

\* A page whose lock a thread holds leaves its queue for the free ones only by that
\* thread's Free, or as its owner discards it.
LEMMA LockedFreed ==
  ASSUME Inv, Next, NEW p \in Page, PageLocked(p), page[p].queue # "free",
         page'[p].queue = "free"
  PROVE  \E t \in Thread : Free(t) /\ local[t].m = p
<1> DEFINE r == page[p]
<1>1. page \in [Page -> PageRecord] /\ r \in PageRecord /\ Sound(r) /\ ~r.busy
  BY Types DEF Inv, PageLocked, KnowsPage, HasLocks
<1>2. ASSUME NEW q \in Page, NEW s, page' = [page EXCEPT ![q] = s] PROVE q = p /\ s.queue = "free"
  BY <1>1, <1>2
<1>3. ASSUME NEW q \in Page,
             Alloc(q) \/ Fault(q) \/ Write(q) \/ Unmap(q) \/ Hold(q) \/ Discard(q) \/ PagerDone(q)
      PROVE  FALSE
  <2>1. CASE Alloc(q)
    BY <1>2, <2>1 DEF Alloc, InUse
  <2>2. CASE Fault(q)
    BY <1>2, <2>2 DEF Fault
  <2>3. CASE Write(q)
    <3>1. page' = [page EXCEPT ![q] = [page[q] EXCEPT !.pmod = TRUE, !.unsaved = "yes"]]
      BY <1>1, <2>3 DEF Write
    <3> QED BY <1>1, <1>2, <3>1 DEF PageRecord
  <2>4. CASE Unmap(q)
    <3>1. Unmapped(page[q]).queue = page[q].queue
      BY <1>1, UnmappedFacts
    <3> QED BY <1>2, <2>4, <3>1 DEF Unmap
  <2>5. CASE Hold(q)
    <3>1. q # p
      BY <2>5 DEF Hold
    <3>2. page'[p] = page[p]
      BY <1>1, <2>5, <3>1 DEF Hold
    <3> QED BY <3>2
  <2>6. CASE Discard(q)
    BY <1>2, <2>6 DEF Discard
  <2>7. CASE PagerDone(q)
    BY <1>1, <1>2, <2>7 DEF PagerDone
  <2> QED BY <1>3, <2>1, <2>2, <2>3, <2>4, <2>5, <2>6, <2>7
<1>4. ASSUME NEW t \in Thread, NEW q \in Page, NEW pc, Waits(t, q, pc) \/ Takes(t, q) PROVE FALSE
  <2> DEFINE k == IF Waits(t, q, pc) THEN page[q].marked \cup {t} ELSE {t}
             s == [page[q] EXCEPT !.marked = k]
  <2>1. page' = [page EXCEPT ![q] = s] \/ page' = [page EXCEPT ![q] = To(page[q], "none")]
    BY <1>1, <1>4 DEF Waits, Takes
  <2>2. s.queue = page[q].queue /\ To(page[q], "none").queue = "none"
    BY <1>1, ToFacts DEF PageRecord
  <2> HIDE DEF s
  <2> QED BY <1>2, <2>1, <2>2
<1>5. ASSUME NEW t \in Thread, Passes(t) PROVE FALSE
  <2> DEFINE q == local[t].m
             k == page[q].marked \ {t}
             s == [page[q] EXCEPT !.marked = k]
  <2>1. CASE q = NoPage
    BY <1>5, <2>1 DEF Passes
  <2>2. CASE q # NoPage
    <3>1. q \in Page
      BY <2>2 DEF Inv, TypeOK
    <3>2. page' = [page EXCEPT ![q] = s]
      BY <1>1, <1>5, <2>2 DEF Passes
    <3>3. s.queue = page[q].queue
      BY <1>1, <3>1 DEF PageRecord
    <3> HIDE DEF s
    <3> QED BY <1>2, <3>1, <3>2, <3>3
  <2> QED BY <2>1, <2>2
<1>6. ASSUME NEW q \in Page, NEW u \in {"active", "inactive", "laundry"}, Moves(q, u) PROVE FALSE
  BY <1>1, <1>2, <1>6, ToFacts DEF Moves
<1>7. ASSUME NEW t \in Thread, HasLocks(t) PROVE local[t].m \in Page
  BY <1>7 DEF Inv, KnowsPage
<1>8. ASSUME NEW t \in Thread, Scans(t) PROVE Free(t) /\ local[t].m = p
  <2>1. CASE \E q \in Page : Take(t, q)
    BY <1>4, <2>1 DEF Take
  <2>2. CASE TakeWithPage(t) \/ TakeWithObject(t)
    <3>1. local[t].m \in Page
      BY <2>2 DEF TakeWithPage, TakeWithObject, Inv
    <3> QED BY <1>4, <1>5, <2>2, <3>1 DEF TakeWithPage, TakeWithObject
  <2>3. CASE Test(t)
    <3>1. local[t].m \in Page
      BY <1>7, <2>3 DEF Test, HasLocks, Holding
    <3>2. Tested(page[local[t].m]).queue = page[local[t].m].queue
      BY <1>1, <3>1, TestedFacts
    <3> QED BY <1>2, <1>6, <2>3, <3>1, <3>2 DEF Test, Requeued, Own, Thread
  <2>4. CASE Strip(t)
    <3>1. local[t].m \in Page
      BY <1>7, <2>4 DEF Strip, HasLocks, Holding
    <3>2. Unmapped(page[local[t].m]).queue = page[local[t].m].queue
      BY <1>1, <3>1, UnmappedFacts
    <3> QED BY <1>2, <2>4, <3>1, <3>2 DEF Strip, Stripped
  <2>5. CASE Free(t)
    <3>1. local[t].m \in Page
      BY <1>7, <2>5 DEF Free, HasLocks, Holding
    <3> QED BY <1>2, <2>5, <3>1 DEF Free
  <2>6. CASE LeaveDead(t)
    BY <1>5, <2>6 DEF LeaveDead
  <2> QED BY <1>8, <2>1, <2>2, <2>3, <2>4, <2>5, <2>6 DEF Scans
<1>9. CASE \E q \in Page : Active(q)
  <2>1. PICK q \in Page : Active(q)
    BY <1>9
  <2>2. q # p
    BY <2>1 DEF Active
  <2>3. page'[p] = page[p]
    BY <1>1, <2>1, <2>2 DEF Active, ActiveClock, ActiveFifo, Moves
  <2> QED BY <2>3
<1>10. CASE ToLaundry \/ NoPageout \/ AskVnode
  <2>1. \A t \in Thread : Dirty(t) => local[t].m \in Page
    BY <1>7 DEF Dirty, HasLocks, Holding
  <2>2. "scan" \in Thread /\ "launder" \in Thread
    BY DEF Thread
  <2> QED BY <1>5, <1>6, <1>10, <2>1, <2>2 DEF ToLaundry, NoPageout, AskVnode, Dirties
<1>11. CASE PageOut \/ GotVnode
  BY <1>5, <1>11, ClusterQueue DEF PageOut, GotVnode, Thread
<1>12. CASE Flush
  <2>1. p \notin local["launder"].cluster
    BY <1>1, <1>12 DEF Inv, Flush
  <2>2. page'[p] = page[p]
    BY <1>12, <2>1 DEF Flush
  <2> QED BY <2>2
<1>13. CASE Others
  BY <1>3, <1>13 DEF Others
<1>14. CASE \E o \in Object : Terminate(o)
  BY <1>14 DEF Terminate
<1> QED BY <1>8, <1>9, <1>10, <1>11, <1>12, <1>13, <1>14 DEF Next, Daemons

\* The page that a scan frees has no change that is nowhere else, and is alone: it
\* is invalid, or clean after its mappings were removed.
LEMMA ReclaimedSaved ==
  ASSUME Inv, Next, NEW p \in Page, Reclaimed(p)
  PROVE  page[p].unsaved = "no" /\ Alone(p)
<1>1. PageLocked(p) /\ page[p].queue # "free" /\ page'[p].queue = "free"
  BY DEF Reclaimed, Freed, InUse
<1>2. PICK t \in Thread : Free(t) /\ local[t].m = p
  BY <1>1, LockedFreed
<1>3. HasLocks(t) /\ (~page[p].valid \/ (local[t].pc = "decide" /\ ~page[p].dirty))
  BY <1>2 DEF Free, HasLocks, Holding
<1>4. page[p] \in PageRecord /\ Sound(page[p])
  BY Types DEF Inv
<1>5. ~page[p].held /\ ~page[p].busy /\ page[p].map = "none" /\ ~page[p].dirty
  BY <1>2, <1>3, <1>4 DEF Inv, KnowsPage, Sound
<1>6. page[p].unsaved = "no"
  BY <1>4, <1>5 DEF Sound, PageRecord
<1> QED BY <1>5, <1>6 DEF Alone, Idle

\* NoLostWrite: between vm_page_test_dirty and pmap_remove_all a store may come, and
\* it is noticed before the page is freed.
THEOREM WritesKept == Spec => NoLostWrite
<1>1. Inv /\ [Next]_vars => [\A p \in Page : Reclaimed(p) => page[p].unsaved = "no"]_vars
  BY ReclaimedSaved
<1> QED BY <1>1, PagesInv, PTL DEF Spec, NoLostWrite

\* ReclaimedAlone: whatever happened to the page while its thread waited for a lock.
THEOREM AloneReclaimed == Spec => ReclaimedAlone
<1>1. Inv /\ [Next]_vars => [\A p \in Page : Reclaimed(p) => Alone(p)]_vars
  BY ReclaimedSaved
<1> QED BY <1>1, PagesInv, PTL DEF Spec, ReclaimedAlone
=============================================================================
