----------------------------- MODULE BuddyArith -----------------------------
(***************************************************************************)
(* The constants of mm.h and the pure arithmetic of buddy.c: the buddy of *)
(* a block, the block decomposition free_area_init walks, the zone a GFP  *)
(* mask selects, and the halves expand splits off.  BuddyAllocator builds *)
(* on these; BuddyMath checks them against reference definitions.         *)
(***************************************************************************)
EXTENDS Naturals, Sequences

CONSTANTS
  MAX_ORDER,     \* MAX_ORDER of mm.h (11 in the source; small here)
  MemMapSize     \* number of descriptors in mem_map (PFNs 0 .. MemMapSize-1)

ASSUME MAX_ORDER \in Nat \ {0}
ASSUME MemMapSize \in Nat \ {0}

Pfn    == 0 .. MemMapSize - 1
Orders == 0 .. MAX_ORDER - 1

\* Zone indices and GFP bits of mm.h.
ZONE_DMA     == 0
ZONE_NORMAL  == 1
ZONE_HIGHMEM == 2
Zones        == {ZONE_DMA, ZONE_NORMAL, ZONE_HIGHMEM}
GFP_KERNEL   == 1
GFP_DMA      == 8
GFP_HIGHMEM  == 16
GfpMasks     == {GFP_KERNEL, GFP_DMA, GFP_HIGHMEM}

BlockPages(b) == b[1] .. (b[1] + 2^b[2] - 1)

\* __find_buddy_pfn: page_pfn ^ (1 << order), i.e. flip bit o of the PFN.
FindBuddyPfn(pfn, o) ==
  IF (pfn \div 2^o) % 2 = 0 THEN pfn + 2^o ELSE pfn - 2^o

\* (Mutant: the bounds check lets a block run one page past the range.)
RECURSIVE SeedOrderPastEnd(_, _, _)
SeedOrderPastEnd(pfn, e, o) ==
  IF o = 0 THEN 0
  ELSE IF pfn % 2^o # 0 THEN SeedOrderPastEnd(pfn, e, o - 1)
  ELSE IF pfn + 2^o - 1 > e THEN SeedOrderPastEnd(pfn, e, o - 1)
  ELSE o

\* The largest order the walk of free_area_init takes at pfn for [., e).
RECURSIVE SeedOrder(_, _, _)
SeedOrder(pfn, e, o) ==
  IF o = 0 THEN 0
  ELSE IF pfn % 2^o # 0 THEN SeedOrder(pfn, e, o - 1)
  ELSE IF pfn + 2^o > e THEN SeedOrder(pfn, e, o - 1)
  ELSE o

\* The blocks free_area_init inserts for [pfn, e), in walk order.
RECURSIVE SeedBlocks(_, _)
SeedBlocks(pfn, e) ==
  IF pfn >= e THEN << >>
  ELSE LET o == SeedOrder(pfn, e, MAX_ORDER - 1)
       IN  << <<pfn, o>> >> \o SeedBlocks(pfn + 2^o, e)

\* alloc_pages: the zone its GFP mask selects first.
GfpZone(g) ==
  IF (g \div GFP_DMA) % 2 = 1 THEN ZONE_DMA
  ELSE IF (g \div GFP_HIGHMEM) % 2 = 1 THEN ZONE_HIGHMEM
  ELSE ZONE_NORMAL

\* (Mutant: the loop runs once too often and re-lists the block itself.)
expandInclusive(page, low, high) == {<<page + 2^h, h>> : h \in low .. high}

\* expand: the halves split off a block of order high taken for a request
\* of order low; add_page_to_free_list puts page[2^h] on the list of order h.
expand(page, low, high) == {<<page + 2^h, h>> : h \in low .. high - 1}

=============================================================================
