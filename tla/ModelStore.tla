----------------------------- MODULE ModelStore -----------------------------
(***************************************************************************)
(* Demand-paged models: the store (kernel/src/model.rs), the page-fault    *)
(* path that leads to it (exceptions.rs, mm/mod.rs), the frames it takes   *)
(* (mm/frames.rs), the page tables it fills (mm/paging.rs), the system     *)
(* calls that open and map a model (syscall.rs), the processes that sweep  *)
(* over it (user/src/main.rs) and the kernel_main that reclaims pages      *)
(* (main.rs).                                                              *)
(*                                                                         *)
(* One published model: processes that open the same bytes get the same    *)
(* object.  A section under the STORE lock is one step; reclaim() holds    *)
(* the lock over its whole loop.  The frame allocator has no lock: each    *)
(* call loads in one step and stores in another, and two may overlap.  The *)
(* three tables a process needs below its root for the region of the model *)
(* are one frame here.                                                     *)
(*                                                                         *)
(* Two ghosts remember which of the code's own races have happened:        *)
(* overlap and late.  The code has neither; no guard reads them, and the   *)
(* only effect is that of Successor.                                       *)
(***************************************************************************)
EXTENDS Integers, FiniteSets, FiniteSetsExt

CONSTANTS
    Proc,          \* processes that use the model
    First,         \* the one that kernel_main starts first
    NPages, NFrames,
    MaxReclaims,   \* bound: calls of reclaim()
    MaxErrors,     \* bound: reads of the disk that fail
    Staged         \* kernel_main waits on the counters as stage5a_demo does

ASSUME ModelStoreAssumption ==
    /\ First \in Proc /\ 0 \notin Proc
    /\ NPages \in Nat /\ NFrames \in Nat /\ MaxReclaims \in Nat /\ MaxErrors \in Nat
    /\ Staged \in BOOLEAN

Page == 1 .. NPages
Frame == 1 .. NFrames
Absent == 0
Loading == -1
Bumped == -1
Reclaimer == 0

VARIABLES
    \* The store.
    pages,         \* m.pages: Absent, Loading, or the frame
    attached,      \* m.mappings, by process
    faults,        \* m.faults, where kernel_main looks, and up to 2 * NPages
    resident,      \* RESIDENT
    reclaiming,    \* pages reclaim() has still to drop; the STORE lock is held
    dropping,      \* the page it is at, with its frame on the way to free()
    reclaims, errors,
    \* The frame allocator; a link is the first word of a free frame.
    free_list, link, bump,
    \* Processes: where in the fault path, at which page of the sweep, with
    \* which frame; what alloc() or free() has loaded; the page table.
    ppc, page, got, head, next, table, pte,
    memory,        \* what frame f holds: a page of the model or something else
    \* Ghosts.
    overlap,       \* two calls of the allocator have overlapped
    late           \* <<p, g>>: p was about to map page g when it was dropped

store == <<pages, attached, faults, resident, reclaiming, dropping, reclaims>>
alloc == <<free_list, link, bump>>
local == <<page, got, head, next>>
ghosts == <<overlap, late>>
modelvars == <<store, errors, alloc, ppc, local, table, pte, memory, ghosts>>

ModelTypeOK ==
    /\ pages \in [Page -> Frame \cup {Absent, Loading}]
    /\ attached \subseteq Proc /\ faults \in 0 .. 2 * NPages /\ resident \in Int
    /\ reclaiming \in 0 .. NPages /\ dropping \in Page \cup {0}
    /\ reclaims \in 0 .. MaxReclaims /\ errors \in 0 .. MaxErrors
    /\ free_list \in Frame \cup {0} /\ link \in [Frame -> Frame \cup {0}] /\ bump \in 1 .. NFrames + 1
    /\ ppc \in [Proc -> {"new", "opened", "map", "run", "look", "alloc", "take", "fill",
                         "give", "undo", "publish", "enter", "ttake", "dead"}]
    /\ page \in [Proc -> Nat]
    /\ got \in [Proc -> Frame \cup {0}] /\ head \in [Proc \cup {Reclaimer} -> Frame \cup {0}]
    /\ next \in [Proc -> Frame \cup {0, Bumped}]
    /\ table \in [Proc -> Frame \cup {0}]
    /\ pte \in [Proc -> [Page -> Frame \cup {0}]]
    /\ memory \in [Frame -> Page \cup {0}]
    /\ overlap \in BOOLEAN /\ late \subseteq Proc \X Page

ModelInit ==
    /\ pages = [g \in Page |-> Absent] /\ attached = {}
    /\ faults = 0 /\ resident = 0
    /\ reclaiming = 0 /\ dropping = 0 /\ reclaims = 0 /\ errors = 0
    /\ free_list = 0 /\ link = [f \in Frame |-> 0] /\ bump = 1
    /\ ppc = [p \in Proc |-> "new"]
    /\ page = [p \in Proc |-> 1] /\ got = [p \in Proc |-> 0]
    /\ head = [p \in Proc \cup {Reclaimer} |-> 0] /\ next = [p \in Proc |-> 0]
    /\ table = [p \in Proc |-> 0] /\ pte = [p \in Proc |-> [g \in Page |-> 0]]
    /\ memory = [f \in Frame |-> 0]
    /\ overlap = FALSE /\ late = {}

Goto(p, l) == ppc' = [ppc EXCEPT ![p] = l]
Unlocked == reclaiming = 0
Resident == {g \in Page : pages[g] \in Frame}

-----------------------------------------------------------------------------
(***************************************************************************)
(* frames::alloc() and frames::free(): plain loads and stores.             *)
(***************************************************************************)
InAllocator ==
    {p \in Proc : ppc[p] \in {"take", "ttake", "give"}}
    \cup (IF dropping = 0 THEN {} ELSE {Reclaimer})

\* Somebody comes in while another is there.
Overlaps == overlap' = (overlap \/ InAllocator # {}) /\ UNCHANGED late

\* The head of the free list and its successor, or the bump pointer.  With
\* neither, alloc() returns None.
Exhausted == free_list = 0 /\ bump > NFrames
LoadFrame(p, l) ==
    /\ ~Exhausted
    /\ head' = [head EXCEPT ![p] = IF free_list # 0 THEN free_list ELSE bump]
    /\ next' = [next EXCEPT ![p] = IF free_list # 0 THEN link[free_list] ELSE Bumped]
    /\ Goto(p, l) /\ Overlaps
    /\ UNCHANGED <<store, errors, alloc, page, got, table, pte, memory>>

\* The word alloc() takes for the link.  Once calls have overlapped the frame
\* may be in use, and its first word be anything.
Successor(p) == IF overlap THEN Frame \cup {0} ELSE {next[p]}

\* The store, and the zeroing of the frame by the caller.
StoreFrame(p) ==
    /\ \/ next[p] = Bumped /\ bump' = head[p] + 1 /\ UNCHANGED free_list
       \/ next[p] # Bumped /\ free_list' \in Successor(p) /\ UNCHANGED bump
    /\ memory' = [memory EXCEPT ![head[p]] = 0]
    /\ head' = [head EXCEPT ![p] = 0] /\ next' = [next EXCEPT ![p] = 0]
    /\ UNCHANGED <<store, errors, link, page, pte, ghosts>>

\* free(), by p: the old head, then the link and the new head.
LoadHead(p) == head' = [head EXCEPT ![p] = free_list]
FreeFrame(p, f) ==
    /\ link' = [link EXCEPT ![f] = head[p]]
    /\ free_list' = f
    /\ memory' = [memory EXCEPT ![f] = 0]
    /\ head' = [head EXCEPT ![p] = 0]
    /\ UNCHANGED bump

-----------------------------------------------------------------------------
(***************************************************************************)
(* sys_model_open(), sys_model_map(), and the sweep of a process.          *)
(***************************************************************************)

\* stage5a_demo starts the second once the first has all of it in memory.
ModelOpen(p) ==
    /\ ppc[p] = "new" /\ Unlocked
    /\ Staged => p = First \/ resident = NPages
    /\ Goto(p, "opened")
    /\ UNCHANGED <<store, errors, alloc, local, table, pte, memory, ghosts>>

\* open() reads the whole file to hash it.
ModelOpenFails(p) ==
    /\ ppc[p] = "new" /\ errors < MaxErrors
    /\ errors' = errors + 1
    /\ Goto(p, "dead")
    /\ UNCHANGED <<store, alloc, local, table, pte, memory, ghosts>>

\* Mutant of Attach: the store is not told who has the model mapped.
AttachUnrecorded(p) ==
    /\ ppc[p] = "opened" /\ Unlocked
    /\ Goto(p, "map")
    /\ UNCHANGED <<store, errors, alloc, local, table, pte, memory, ghosts>>

Attach(p) ==
    /\ ppc[p] = "opened" /\ Unlocked
    /\ attached' = attached \cup {p}
    /\ Goto(p, "map")
    /\ UNCHANGED <<pages, faults, resident, reclaiming, dropping, reclaims>>
    /\ UNCHANGED <<errors, alloc, local, table, pte, memory, ghosts>>

AddVma(p) ==
    /\ ppc[p] = "map"
    /\ Goto(p, "run")
    /\ UNCHANGED <<store, errors, alloc, local, table, pte, memory, ghosts>>

\* sweep() reads the pages in turn, again and again: one that is mapped costs
\* nothing, one that is not is a fault.
Passes(p) ==
    /\ ppc[p] = "run" /\ page[p] \in Page /\ pte[p][page[p]] # 0
    /\ page' = [page EXCEPT ![p] = IF @ = NPages THEN 1 ELSE @ + 1]
    /\ UNCHANGED <<store, errors, alloc, ppc, got, head, next, table, pte, memory, ghosts>>

Touch(p) ==
    /\ ppc[p] = "run" /\ page[p] \in Page /\ pte[p][page[p]] = 0
    /\ Goto(p, "look")
    /\ UNCHANGED <<store, errors, alloc, local, table, pte, memory, ghosts>>

-----------------------------------------------------------------------------
(***************************************************************************)
(* fault().  A fault that is not satisfied ends the process.               *)
(***************************************************************************)
\* Only stage5a_demo looks at the counter.
CountFault == faults' = IF Staged /\ faults < 2 * NPages THEN faults + 1 ELSE faults

FindsResident(p) ==
    /\ ppc[p] = "look" /\ Unlocked /\ page[p] \in Resident
    /\ CountFault
    /\ got' = [got EXCEPT ![p] = pages[page[p]]]
    /\ Goto(p, "enter")
    /\ UNCHANGED <<pages, attached, resident, reclaiming, dropping, reclaims>>
    /\ UNCHANGED <<errors, alloc, page, head, next, table, pte, memory, ghosts>>

\* Mutant of ClaimsPage: the page is not marked as being read.
ClaimsPageSilently(p) ==
    /\ ppc[p] = "look" /\ Unlocked /\ pages[page[p]] \in {Absent, Loading}
    /\ CountFault
    /\ Goto(p, "alloc")
    /\ UNCHANGED <<pages, attached, resident, reclaiming, dropping, reclaims>>
    /\ UNCHANGED <<errors, alloc, local, table, pte, memory, ghosts>>

\* A page that is Loading is looked at again after a yield.
ClaimsPage(p) ==
    /\ ppc[p] = "look" /\ Unlocked /\ pages[page[p]] = Absent
    /\ CountFault
    /\ pages' = [pages EXCEPT ![page[p]] = Loading]
    /\ Goto(p, "alloc")
    /\ UNCHANGED <<attached, resident, reclaiming, dropping, reclaims>>
    /\ UNCHANGED <<errors, alloc, local, table, pte, memory, ghosts>>

AllocPage(p) == ppc[p] = "alloc" /\ LoadFrame(p, "take")

NoFrame(p) ==
    /\ ppc[p] = "alloc" /\ Exhausted
    /\ Goto(p, "undo")
    /\ UNCHANGED <<store, errors, alloc, local, table, pte, memory, ghosts>>

TakePage(p) ==
    /\ ppc[p] = "take" /\ StoreFrame(p)
    /\ got' = [got EXCEPT ![p] = head[p]]
    /\ Goto(p, "fill")
    /\ UNCHANGED table

\* The sectors of the page, outside the store's lock.
FillPage(p) ==
    /\ ppc[p] = "fill"
    /\ memory' = [memory EXCEPT ![got[p]] = page[p]]
    /\ Goto(p, "publish")
    /\ UNCHANGED <<store, errors, alloc, local, table, pte, ghosts>>

\* A sector cannot be read, and free() begins.
ReadFails(p) ==
    /\ ppc[p] = "fill" /\ errors < MaxErrors
    /\ errors' = errors + 1
    /\ LoadHead(p) /\ Overlaps
    /\ Goto(p, "give")
    /\ UNCHANGED <<store, alloc, page, got, next, table, pte, memory>>

\* Mutant of GivesBack: the frame is forgotten.
GivesBackNothing(p) ==
    /\ ppc[p] = "give"
    /\ head' = [head EXCEPT ![p] = 0] /\ got' = [got EXCEPT ![p] = 0]
    /\ Goto(p, "undo")
    /\ UNCHANGED <<store, errors, alloc, page, next, table, pte, memory, ghosts>>

GivesBack(p) ==
    /\ ppc[p] = "give" /\ FreeFrame(p, got[p])
    /\ got' = [got EXCEPT ![p] = 0]
    /\ Goto(p, "undo")
    /\ UNCHANGED <<store, errors, page, next, table, pte, ghosts>>

\* Mutant of Unclaims: nobody takes the mark off the page.
UnclaimsNothing(p) ==
    /\ ppc[p] = "undo" /\ Unlocked
    /\ Goto(p, "dead")
    /\ UNCHANGED <<store, errors, alloc, local, table, pte, memory, ghosts>>

Unclaims(p) ==
    /\ ppc[p] = "undo" /\ Unlocked
    /\ pages' = [pages EXCEPT ![page[p]] = Absent]
    /\ Goto(p, "dead")
    /\ UNCHANGED <<attached, faults, resident, reclaiming, dropping, reclaims>>
    /\ UNCHANGED <<errors, alloc, local, table, pte, memory, ghosts>>

Publish(p) ==
    /\ ppc[p] = "publish" /\ Unlocked
    /\ pages' = [pages EXCEPT ![page[p]] = got[p]]
    /\ resident' = resident + 1
    /\ Goto(p, "enter")
    /\ UNCHANGED <<attached, faults, reclaiming, dropping, reclaims>>
    /\ UNCHANGED <<errors, alloc, local, table, pte, memory, ghosts>>

-----------------------------------------------------------------------------
(***************************************************************************)
(* map_into(): entry_for() may have to make the table first.               *)
(***************************************************************************)
AllocTable(p) == ppc[p] = "enter" /\ table[p] = 0 /\ LoadFrame(p, "ttake")

NoTable(p) ==
    /\ ppc[p] = "enter" /\ table[p] = 0 /\ Exhausted
    /\ Goto(p, "dead")
    /\ UNCHANGED <<store, errors, alloc, local, table, pte, memory, ghosts>>

TakeTable(p) ==
    /\ ppc[p] = "ttake" /\ StoreFrame(p)
    /\ table' = [table EXCEPT ![p] = head[p]]
    /\ Goto(p, "enter")
    /\ UNCHANGED got

Enter(p) ==
    /\ ppc[p] = "enter" /\ table[p] # 0
    /\ pte' = [pte EXCEPT ![p][page[p]] = got[p]]
    /\ got' = [got EXCEPT ![p] = 0]
    /\ Goto(p, "run")
    /\ UNCHANGED <<store, errors, alloc, page, head, next, table, memory, ghosts>>

-----------------------------------------------------------------------------
(***************************************************************************)
(* reclaim(), called by kernel_main; stage5a_demo calls it once both       *)
(* processes have faulted on every page, half of the pages at a time.      *)
(***************************************************************************)
Mapping == {p \in Proc : ppc[p] \in {"enter", "ttake"}}

Reclaim(want) ==
    /\ Unlocked /\ reclaims < MaxReclaims /\ Resident # {}
    /\ Staged => faults = 2 * NPages /\ want = NPages \div 2
    /\ reclaiming' = want /\ reclaims' = reclaims + 1
    /\ UNCHANGED <<pages, attached, faults, resident, dropping>>
    /\ UNCHANGED <<errors, alloc, ppc, local, table, pte, memory, ghosts>>

\* The last resident page is unmapped from everybody, and free() begins.  A
\* fault that has the frame and is about to map it is not looked for.
UnmapPage ==
    /\ reclaiming > 0 /\ dropping = 0 /\ Resident # {}
    /\ LET g == Max(Resident) IN
       /\ pte' = [p \in Proc |-> IF p \in attached THEN [pte[p] EXCEPT ![g] = 0] ELSE pte[p]]
       /\ dropping' = g
       /\ late' = {x \in late : x[2] # g \/ x[1] \notin attached}
                    \cup {<<p, g>> : p \in {q \in Mapping : page[q] = g}}
    /\ LoadHead(Reclaimer)
    /\ overlap' = (overlap \/ InAllocator # {})
    /\ UNCHANGED <<pages, attached, faults, resident, reclaiming, reclaims>>
    /\ UNCHANGED <<errors, alloc, ppc, page, got, next, table, memory>>

\* ... freed, and forgotten.
DropPage ==
    /\ dropping # 0
    /\ FreeFrame(Reclaimer, pages[dropping])
    /\ pages' = [pages EXCEPT ![dropping] = Absent]
    /\ resident' = resident - 1
    /\ reclaiming' = reclaiming - 1 /\ dropping' = 0
    /\ UNCHANGED <<attached, faults, reclaims, errors, ppc, page, got, next, table, pte, ghosts>>

ReclaimEnds ==
    /\ reclaiming > 0 /\ dropping = 0 /\ Resident = {}
    /\ reclaiming' = 0
    /\ UNCHANGED <<pages, attached, faults, resident, dropping, reclaims>>
    /\ UNCHANGED <<errors, alloc, ppc, local, table, pte, memory, ghosts>>

-----------------------------------------------------------------------------
Faulting(p) ==
    \/ FindsResident(p) \/ ClaimsPage(p) \/ AllocPage(p) \/ NoFrame(p) \/ TakePage(p)
    \/ FillPage(p) \/ ReadFails(p) \/ GivesBack(p) \/ Unclaims(p) \/ Publish(p)
    \/ AllocTable(p) \/ NoTable(p) \/ TakeTable(p) \/ Enter(p)

Reclaiming == UnmapPage \/ DropPage \/ ReclaimEnds

ModelNext ==
    \/ \E p \in Proc : \/ ModelOpen(p) \/ ModelOpenFails(p) \/ Attach(p) \/ AddVma(p)
                        \/ Passes(p) \/ Touch(p) \/ Faulting(p)
    \/ Reclaiming \/ \E want \in Page : Reclaim(want)

ModelSpec == ModelInit /\ [][ModelNext]_modelvars

\* A process in the kernel is a runnable thread.  Its looks at a page that is
\* Loading and at the store's lock come and go with what others do, and it
\* repeats them until they succeed.
ModelFairness == WF_modelvars(Reclaiming) /\ \A p \in Proc : SF_modelvars(Faulting(p))

ModelLiveSpec == ModelSpec /\ ModelFairness

-----------------------------------------------------------------------------
(***************************************************************************)
(* Properties.                                                             *)
(***************************************************************************)

\* model.rs, reclaim(): "a freed frame that is still in someone's page table
\* is the worst kind of bug".  What a process can read through its page table
\* is a resident page of the model, the right one, and completely read.
MappedPagesAreResident ==
    \A p \in Proc, g \in Page : pte[p][g] # 0 => pages[g] = pte[p][g] /\ memory[pte[p][g]] = g

\* The only mapping that reclaim() leaves behind is that of a fault which had
\* the frame already and had still to map it.  Every other mapping is of the
\* resident page, through any number of faults, failures and reclaims; and as
\* long as no two calls of the allocator have overlapped, the frame holds
\* that page and nothing else.
OnlyLateMappingsDangle ==
    \A p \in Proc, g \in Page :
        pte[p][g] # 0 /\ <<p, g>> \notin late =>
            pages[g] = pte[p][g] /\ (overlap \/ memory[pte[p][g]] = g)

\* The free frames: the list, as far as it goes, and what bump has not reached.
FreeList ==
    LET c[n \in 0 .. NFrames] == IF n = 0 THEN free_list
                                 ELSE IF c[n - 1] = 0 THEN 0 ELSE link[c[n - 1]] IN
    {c[n] : n \in 0 .. NFrames} \ {0}

\* Who has frame f: the allocator, a page of the model, a page table, or a
\* fault that is filling it.
Owners(f) ==
    (IF f \in FreeList \/ f >= bump THEN {<<"free">>} ELSE {})
    \cup {<<"page", g>> : g \in {h \in Page : pages[h] = f}}
    \cup {<<"table", p>> : p \in {q \in Proc : table[q] = f}}
    \cup {<<"filling", p>> : p \in {q \in Proc : ppc[q] \in {"fill", "give", "publish"} /\ got[q] = f}}

\* As long as no two calls of the allocator have overlapped, every frame has
\* one owner, on every path through a fault or a reclaim, those that fail
\* included: none is handed out twice and none is lost.
OneOwnerUnlessOverlapped == overlap \/ \A f \in Frame : Cardinality(Owners(f)) = 1

\* A process that has claimed a page, until it publishes it or gives up.
Reading == {"alloc", "take", "fill", "give", "undo", "publish"}

\* model.rs, fault(): "Someone else is reading it.  Wait rather than read it
\* again".  Whatever the allocator does, a page has one reader, and is marked
\* Loading exactly as long as it has one.
PageHasOneReader ==
    /\ \A p, q \in Proc :
           ppc[p] \in Reading /\ ppc[q] \in Reading /\ page[p] = page[q] => p = q
    /\ \A g \in Page : pages[g] = Loading <=> \E p \in Proc : ppc[p] \in Reading /\ page[p] = g

\* Every fault ends, with the page or with the process: a page is never left
\* Loading with nobody to read it.
FaultsEnd == \A p \in Proc : ppc[p] = "look" ~> ppc[p] \in {"run", "dead"}
=============================================================================
