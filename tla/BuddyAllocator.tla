--------------------------- MODULE BuddyAllocator ---------------------------
(***************************************************************************)
(* The buddy page-frame allocator of src/kernel/mm/buddy.c.                *)
(*                                                                         *)
(* State: the page descriptors of mem_map (the PG_buddy bit of flags, the  *)
(* _refcount, the order field), the free_area lists and nr_free_pages of   *)
(* the three zones of node_data, and the global free_page_count and        *)
(* total_pages.  Every public entry point holds buddy_lock with local      *)
(* interrupts disabled for its whole body, so that body is one action.     *)
(* alloc_pages runs prep_new_page AFTER spin_unlock_irqrestore, so an      *)
(* allocation is two steps, and other contexts (interrupt handlers, or     *)
(* other CPUs) may run in between.                                         *)
(*                                                                         *)
(* Callers are modelled as contexts that respect the documented contract: *)
(* a block is freed once, by its holder, with the order it was allocated  *)
(* with.  What kfree does instead is modelled in Kmalloc.                 *)
(***************************************************************************)
EXTENDS BuddyArith, FiniteSets, Sequences, SequencesExt

CONSTANTS
  Ranges,        \* the [start, end) PFN ranges boot code passes to free_area_init
  Contexts,      \* flows of control calling the allocator
  NULL           \* the NULL page returned by a failed alloc_pages

ASSUME \A r \in Ranges : r[1] < r[2] /\ r[2] <= MemMapSize
ASSUME \A r, s \in Ranges : r # s => r[2] <= s[1] \/ s[2] <= r[1]

VARIABLES
  pageBuddy,      \* PageBuddy(page): the PG_buddy bit of page->flags
  pageCount,      \* page->_refcount
  pageOrder,      \* page->order
  freeList,       \* freeList[z][o]: zone z's free_area[o].free_list, head first
  nrFreePages,    \* zone->nr_free_pages
  freePageCount,  \* free_page_count
  totalPages,     \* total_pages
  seeded,         \* ranges already passed to free_area_init
  pc,             \* where each context is: "idle", "prep" or "failed"
  req,            \* the allocation in progress: order, zone type, page
  held,           \* held[c]: the blocks <<pfn, order>> context c owns
  badRead         \* a coalescing loop read a descriptor outside mem_map

vars == <<pageBuddy, pageCount, pageOrder, freeList, nrFreePages,
          freePageCount, totalPages, seeded, pc, req, held, badRead>>

NoReq == [order |-> 0, zone |-> 0, page |-> NULL]

-----------------------------------------------------------------------------
(* The list and page-flag primitives of list.h and mm.h.  A free_list is  *)
(* the sequence of the PFNs of its entries from head->next onwards.        *)

\* list_add: insert right after the head.
list_add(e, l) == <<e>> \o l

\* list_del of every entry whose PFN is in S; unlinking goes through the
\* entry's own pointers, so it leaves whichever list holds the entry.
list_del(l, S) == SelectSeq(l, LAMBDA p : p \notin S)

\* list_empty
list_empty(l) == l = << >>

\* SetPageBuddy / ClearPageBuddy (set_bit / clear_bit of PG_buddy) on the
\* descriptors of the PFNs in S.
\* (Mutant: ClearPageBuddy forgotten, the bit stays set.)
ClearPageBuddyNoop(flags, S) == flags

SetPageBuddy(flags, S) == [p \in DOMAIN flags |-> p \in S \/ flags[p]]
ClearPageBuddy(flags, S) == [p \in DOMAIN flags |-> p \notin S /\ flags[p]]

-----------------------------------------------------------------------------
(* Helpers of buddy.c.                                                     *)

\* (Mutant: page_is_buddy without the order check.)
PageIsBuddyAnyOrder(b, o) == pageBuddy[b] /\ pageCount[b] = 0

\* page_is_buddy: the descriptor is flagged free, of this order, unreferenced.
PageIsBuddy(b, o) == pageBuddy[b] /\ pageOrder[b] = o /\ pageCount[b] = 0

\* (Mutant: the order scan stops one short of MAX_ORDER.)
HasBlockBelowTop(z, o) == \E co \in o .. MAX_ORDER - 2 : ~list_empty(freeList[z][co])

\* __rmqueue_smallest finds a block of order >= o in zone z.
HasBlock(z, o) == \E co \in o .. MAX_ORDER - 1 : ~list_empty(freeList[z][co])

\* The order __rmqueue_smallest takes its block from.
FoundOrder(z, o) == Min({co \in o .. MAX_ORDER - 1 : ~list_empty(freeList[z][co])})

\* The zone loop of alloc_pages: from zone_type down to 0, skipping zones
\* whose nr_free_pages is short, stopping at the first that yields a block.
ServingZones(o, zt) ==
  {i \in 0 .. zt : nrFreePages[i] >= 2^o /\ HasBlock(i, o)}

\* The coalescing loop of __free_one_page, from <<pfn, o>>: the block it
\* finally inserts, the buddies it unlinks, and whether it read a
\* descriptor past the end of mem_map.
\* (Mutant: the merged block keeps the higher-addressed head.)
RECURSIVE MergeChainHighHead(_, _)
MergeChainHighHead(pfn, o) ==
  LET b == FindBuddyPfn(pfn, o) IN
  IF o >= MAX_ORDER - 1 THEN [head |-> pfn, order |-> o, gone |-> {}, oob |-> FALSE]
  ELSE IF b \notin Pfn THEN [head |-> pfn, order |-> o, gone |-> {}, oob |-> TRUE]
  ELSE IF ~PageIsBuddy(b, o) THEN [head |-> pfn, order |-> o, gone |-> {}, oob |-> FALSE]
  ELSE LET r == MergeChainHighHead(IF b > pfn THEN b ELSE pfn, o + 1)
       IN  [r EXCEPT !.gone = @ \cup {<<b, o>>}]

RECURSIVE MergeChain(_, _)
MergeChain(pfn, o) ==
  LET b == FindBuddyPfn(pfn, o) IN
  IF o >= MAX_ORDER - 1 THEN [head |-> pfn, order |-> o, gone |-> {}, oob |-> FALSE]
  ELSE IF b \notin Pfn THEN [head |-> pfn, order |-> o, gone |-> {}, oob |-> TRUE]
  ELSE IF ~PageIsBuddy(b, o) THEN [head |-> pfn, order |-> o, gone |-> {}, oob |-> FALSE]
  ELSE LET r == MergeChain(IF b < pfn THEN b ELSE pfn, o + 1)
       IN  [r EXCEPT !.gone = @ \cup {<<b, o>>}]

-----------------------------------------------------------------------------
(* Operations.                                                             *)

Init ==
  /\ pageBuddy = [p \in Pfn |-> FALSE]
  /\ pageCount = [p \in Pfn |-> 0]
  /\ pageOrder = [p \in Pfn |-> 0]
  /\ freeList = [z \in Zones |-> [o \in Orders |-> << >>]]
  /\ nrFreePages = [z \in Zones |-> 0]
  /\ freePageCount = 0
  /\ totalPages = 0
  /\ seeded = {}
  /\ pc = [c \in Contexts |-> "idle"]
  /\ req = [c \in Contexts |-> NoReq]
  /\ held = [c \in Contexts |-> {}]
  /\ badRead = FALSE

\* free_area_init(start, end): walk the range inserting the largest aligned
\* block at each step into ZONE_NORMAL; each list_add puts it at the head.
free_area_init(r) ==
  LET blocks == SeedBlocks(r[1], r[2])
      heads  == {blocks[i][1] : i \in DOMAIN blocks}
      ord(p) == CHOOSE o \in Orders : <<p, o>> \in ToSet(blocks)
      n      == r[2] - r[1]
      inOrder(o) == LET sel == SelectSeq(blocks, LAMBDA b : b[2] = o)
                    IN  [i \in 1 .. Len(sel) |-> sel[i][1]]
  IN
  /\ r \notin seeded
  /\ seeded' = seeded \cup {r}
  /\ pageBuddy' = SetPageBuddy(pageBuddy, heads)
  /\ pageCount' = [p \in Pfn |-> IF p \in heads THEN 0 ELSE pageCount[p]]
  /\ pageOrder' = [p \in Pfn |-> IF p \in heads THEN ord(p) ELSE pageOrder[p]]
  /\ freeList' = [freeList EXCEPT ![ZONE_NORMAL] =
       [o \in Orders |-> Reverse(inOrder(o)) \o @[o]]]
  /\ nrFreePages' = [nrFreePages EXCEPT ![ZONE_NORMAL] = @ + n]
  /\ totalPages' = totalPages + n
  /\ freePageCount' = freePageCount + n
  /\ UNCHANGED <<pc, req, held, badRead>>

\* alloc_pages(gfp, order): an order >= MAX_ORDER returns NULL at once;
\* otherwise, under buddy_lock, pick the zone, __rmqueue_smallest
\* (del_page_from_free_list, then expand), update the counters; or find
\* nothing and return NULL.
alloc_pages(c, o, g) ==
  LET zt == GfpZone(g)
      zs == ServingZones(o, zt)
  IN
  /\ pc[c] = "idle"
  /\ IF o >= MAX_ORDER \/ zs = {}
     THEN /\ pc' = [pc EXCEPT ![c] = "failed"]
          /\ req' = [req EXCEPT ![c] = [order |-> o, zone |-> zt, page |-> NULL]]
          /\ UNCHANGED <<pageBuddy, pageCount, pageOrder, freeList,
                         nrFreePages, freePageCount>>
     ELSE
       LET z     == Max(zs)
           co    == FoundOrder(z, o)
           page  == Head(freeList[z][co])
           split == expand(page, o, co)
           splitOrder(p) == CHOOSE h \in Orders : <<p, h>> \in split
           splitHeads == {s[1] : s \in split}
       IN
       /\ freeList' = [freeList EXCEPT ![z] =
            [h \in Orders |->
               IF h = co THEN Tail(@[h])
               ELSE IF h \in o .. co - 1 THEN list_add(page + 2^h, @[h])
               ELSE @[h]]]
       /\ pageBuddy' = SetPageBuddy(ClearPageBuddy(pageBuddy, {page}), splitHeads)
       /\ pageOrder' = [p \in Pfn |->
            IF p = page THEN 0
            ELSE IF p \in splitHeads THEN splitOrder(p) ELSE pageOrder[p]]
       /\ nrFreePages' = [nrFreePages EXCEPT ![z] =
            @ - 2^co + MapThenSumSet(LAMBDA s : 2^s[2], split)]
       /\ freePageCount' = freePageCount - 2^o
       /\ pc' = [pc EXCEPT ![c] = "prep"]
       /\ req' = [req EXCEPT ![c] = [order |-> o, zone |-> zt, page |-> page]]
       /\ UNCHANGED pageCount
  /\ UNCHANGED <<totalPages, seeded, held, badRead>>

\* (Mutant: prep_new_page increments _refcount instead of setting it.)
prep_new_page_get_page(c) ==
  LET b == <<req[c].page, req[c].order>> IN
  /\ pc[c] = "prep"
  /\ pageBuddy' = ClearPageBuddy(pageBuddy, BlockPages(b))
  /\ pageCount' = [p \in Pfn |-> IF p \in BlockPages(b) THEN pageCount[p] + 1 ELSE pageCount[p]]
  /\ held' = [held EXCEPT ![c] = @ \cup {b}]
  /\ pc' = [pc EXCEPT ![c] = "idle"]
  /\ req' = [req EXCEPT ![c] = NoReq]
  /\ UNCHANGED <<pageOrder, freeList, nrFreePages, freePageCount, totalPages,
                 seeded, badRead>>

\* alloc_pages after spin_unlock_irqrestore: prep_new_page sets flags to 0
\* and _refcount to 1 on every page of the block; the caller now owns it.
prep_new_page(c) ==
  LET b == <<req[c].page, req[c].order>> IN
  /\ pc[c] = "prep"
  /\ pageBuddy' = ClearPageBuddy(pageBuddy, BlockPages(b))
  /\ pageCount' = [p \in Pfn |-> IF p \in BlockPages(b) THEN 1 ELSE pageCount[p]]
  /\ held' = [held EXCEPT ![c] = @ \cup {b}]
  /\ pc' = [pc EXCEPT ![c] = "idle"]
  /\ req' = [req EXCEPT ![c] = NoReq]
  /\ UNCHANGED <<pageOrder, freeList, nrFreePages, freePageCount, totalPages,
                 seeded, badRead>>

\* alloc_pages returns NULL to its caller.
alloc_pages_null(c) ==
  /\ pc[c] = "failed"
  /\ pc' = [pc EXCEPT ![c] = "idle"]
  /\ req' = [req EXCEPT ![c] = NoReq]
  /\ UNCHANGED <<pageBuddy, pageCount, pageOrder, freeList, nrFreePages,
                 freePageCount, totalPages, seeded, held, badRead>>

\* (Mutant: the shift is lost and every free counts one page.)
FreedCountUnshifted(order) == 1

\* free_pages' increment of free_page_count: 1UL << order.
FreedCount(order) == 2^order

\* free_pages(page, order) under buddy_lock: clear the head's refcount,
\* then __free_one_page into ZONE_NORMAL: unlink every mergeable buddy
\* (list_del takes it off whatever list it is on), add the merged block,
\* and count the freed pages.
FreePagesBody(pfn, order) ==
  LET m     == MergeChain(pfn, order)
      goneP == {g[1] : g \in m.gone}
      zn    == ZONE_NORMAL
  IN
  /\ pageCount' = [pageCount EXCEPT ![pfn] = 0]
  /\ pageBuddy' = SetPageBuddy(ClearPageBuddy(pageBuddy, goneP), {m.head})
  /\ pageOrder' = [p \in Pfn |->
       IF p = m.head THEN m.order ELSE IF p \in goneP THEN 0 ELSE pageOrder[p]]
  /\ freeList' = [z \in Zones |-> [o \in Orders |->
       LET kept == list_del(freeList[z][o], goneP)
       IN  IF z = zn /\ o = m.order THEN list_add(m.head, kept) ELSE kept]]
  /\ nrFreePages' = [nrFreePages EXCEPT ![zn] =
       @ - MapThenSumSet(LAMBDA g : 2^g[2], m.gone) + 2^m.order]
  /\ freePageCount' = freePageCount + FreedCount(order)
  /\ badRead' = (badRead \/ m.oob)
  /\ UNCHANGED <<totalPages, seeded>>

\* A context frees a block it holds, with the order it was allocated with.
free_pages(c, b) ==
  /\ pc[c] = "idle"
  /\ b \in held[c]
  /\ held' = [held EXCEPT ![c] = @ \ {b}]
  /\ FreePagesBody(b[1], b[2])
  /\ UNCHANGED <<pc, req>>

Next ==
  \/ \E r \in Ranges : free_area_init(r)
  \/ \E c \in Contexts, o \in 0 .. MAX_ORDER, g \in GfpMasks : alloc_pages(c, o, g)
  \/ \E c \in Contexts : prep_new_page(c)
  \/ \E c \in Contexts : alloc_pages_null(c)
  \/ \E c \in Contexts : \E b \in held[c] : free_pages(c, b)

Spec == Init /\ [][Next]_vars

-----------------------------------------------------------------------------
(* Properties.                                                             *)

\* The blocks on the free lists, with their order, and the pages they cover.
FreeBlocks == UNION {{<<p, o>> : p \in ToSet(freeList[z][o])} : z \in Zones, o \in Orders}
FreePages == UNION {BlockPages(b) : b \in FreeBlocks}

\* The blocks each context owns: those it holds and the one alloc_pages has
\* taken off the lists for it but prep_new_page has not finished.
Owned(c) == held[c] \cup (IF pc[c] = "prep" THEN {<<req[c].page, req[c].order>>} ELSE {})

ListPages(z, o) == Len(freeList[z][o]) * 2^o

TypeOK ==
  /\ pageBuddy \in [Pfn -> BOOLEAN]
  /\ pageCount \in [Pfn -> 0 .. 1]
  /\ pageOrder \in [Pfn -> Orders]
  /\ freeList \in [Zones -> [Orders -> Seq(Pfn)]]
  /\ nrFreePages \in [Zones -> Nat]
  /\ freePageCount \in Nat /\ totalPages \in Nat
  /\ seeded \subseteq Ranges
  /\ pc \in [Contexts -> {"idle", "prep", "failed"}]
  /\ req \in [Contexts -> [order : 0 .. MAX_ORDER, zone : Zones, page : Pfn \cup {NULL}]]
  /\ held \in [Contexts -> SUBSET (Pfn \X Orders)]
  /\ badRead \in BOOLEAN

\* Conservation (spec section 8): each zone's nr_free_pages is what its
\* lists hold, free_page_count (what nr_free_pages() and si_meminfo report)
\* is their sum, and total_pages is exactly the free pages plus the pages
\* of every block a caller owns: the split in alloc_pages and the merge
\* loop of free_pages neither create nor lose pages.
Conservation ==
  /\ \A z \in Zones : nrFreePages[z] = MapThenSumSet(LAMBDA o : ListPages(z, o), Orders)
  /\ freePageCount = nrFreePages[ZONE_DMA] + nrFreePages[ZONE_NORMAL]
                     + nrFreePages[ZONE_HIGHMEM]
  /\ totalPages = freePageCount
       + MapThenSumSet(LAMBDA c : MapThenSumSet(LAMBDA b : 2^b[2], Owned(c)), Contexts)

\* The invariant of spec section 3 on page descriptors that buddy.c relies
\* on in page_is_buddy: a descriptor has PG_buddy set exactly when it heads
\* a block on a free list, its order field is that list's order, and no
\* page is on two lists or twice on one.
FreeListDescriptorsAgree ==
  /\ \A p \in Pfn : pageBuddy[p] <=> \E o \in Orders : <<p, o>> \in FreeBlocks
  /\ \A b \in FreeBlocks : pageOrder[b[1]] = b[2]
  /\ \A z \in Zones, o \in Orders : Len(freeList[z][o]) = Cardinality(ToSet(freeList[z][o]))
  /\ \A b1, b2 \in FreeBlocks : b1 # b2 => BlockPages(b1) \cap BlockPages(b2) = {}

\* When alloc_pages returns NULL, no zone it may fall back to (zone_type
\* down to DMA) had a free block of the requested order or larger: the
\* nr_free_pages pre-check and the order scan of __rmqueue_smallest never
\* turn away a request that the lists could serve.
FailureOnlyWhenNoFit ==
  [][\A c \in Contexts :
       (pc[c] = "idle" /\ pc'[c] = "failed")
         => \A z \in 0 .. req'[c].zone, co \in req'[c].order .. MAX_ORDER - 1 :
              freeList[z][co] = << >>]_vars

\* The buddy allocator implements the abstract PageAllocator: every
\* allocation hands out an aligned block of 2^order pages that were free,
\* and every free returns exactly the pages of the block.  This is the
\* absence of double allocation, of leaks and of misaligned blocks across
\* any interleaving of contexts.
Abs == INSTANCE PageAllocator
         WITH avail <- FreePages,
              owned <- [c \in Contexts |-> Owned(c)]
Refinement == Abs!Spec

\* Coalescing closure (spec section 3): no free block has its buddy free
\* at the same order, i.e. __free_one_page always merges as far as it can.
CoalescingClosure ==
  \A b \in FreeBlocks :
     b[2] < MAX_ORDER - 1 => <<FindBuddyPfn(b[1], b[2]), b[2]>> \notin FreeBlocks

\* Every descriptor the coalescing loop of free_pages reads lies inside
\* mem_map.
BuddyReadsInMemMap == ~badRead

=============================================================================
