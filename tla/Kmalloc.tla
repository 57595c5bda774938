------------------------------- MODULE Kmalloc -------------------------------
(***************************************************************************)
(* The byte allocator of buddy.c (kmalloc, kzalloc, kcalloc, krealloc,    *)
(* kfree) and the page-address wrappers (__get_free_pages,                *)
(* get_zeroed_page, free_pages_virt) on top of BuddyAllocator.            *)
(*                                                                         *)
(* A size is a size_t of SIZE_BITS bits, so ALIGN_UP and kcalloc's n *    *)
(* size wrap as they do at the top of the 64-bit range.  Bytes are counted *)
(* in units where a page holds PAGE_SIZE of them.  A kmalloc object is the *)
(* block alloc_pages returned together with the size the caller asked     *)
(* for; nothing else of its contents is modelled.                         *)
(***************************************************************************)
EXTENDS BuddyAllocator

CONSTANTS
  PAGE_SIZE,     \* bytes per page (4096 in mm.h; small here)
  SIZE_BITS,     \* width of size_t (64 in the source; small here)
  Sizes,         \* the byte sizes callers pass to kmalloc and krealloc
  CallocArgs,    \* the <<n, size>> pairs callers pass to kcalloc
  KGfp           \* the GFP masks byte-level and page-level callers pass

ASSUME KGfp \subseteq GfpMasks

\* PAGE_SIZE << order never overflows in the code (4096 << 11 < 2^64);
\* the small widths keep that true.
ASSUME PAGE_SIZE * 2^MAX_ORDER < 2^SIZE_BITS

GFP_ZERO == 32

VARIABLES
  objs,   \* objs[c]: the kmalloc objects c holds, [blk, size]
  kreq    \* kreq[c]: the byte-level call c has in progress

kvars == <<vars, objs, kreq>>

NoCall == [kind |-> "none", size |-> 0, old |-> NULL]

ObjBlocks(c) == {ob.blk : ob \in objs[c]}

-----------------------------------------------------------------------------
(* Size arithmetic of kmalloc.                                             *)

\* ALIGN_UP(x, PAGE_SIZE) of types.h in size_t: (x + a - 1) & ~(a - 1).
ALIGN_UP(x) ==
  LET y == (x + PAGE_SIZE - 1) % 2^SIZE_BITS IN y - (y % PAGE_SIZE)

\* The order loop of kmalloc: the least order whose PAGE_SIZE << order
\* covers size, stopping at MAX_ORDER.
KmallocOrder(size) ==
  CHOOSE o \in 0 .. MAX_ORDER :
    /\ (PAGE_SIZE * 2^o >= size \/ o = MAX_ORDER)
    /\ \A k \in 0 .. o - 1 : PAGE_SIZE * 2^k < size

-----------------------------------------------------------------------------
(* Operations.                                                             *)

KInit == Init /\ objs = [c \in Contexts |-> {}] /\ kreq = [c \in Contexts |-> NoCall]

\* The kmalloc body for a size_t argument arg (want is the size the caller
\* meant, which differs from arg only when kcalloc's product wrapped): a
\* zero size or an order past MAX_ORDER returns NULL with no state change;
\* otherwise the lock-held half of alloc_pages runs and the call waits for
\* prep_new_page.
KmallocCall(c, want, arg, g, kind, old) ==
  LET size == ALIGN_UP(arg)
      o    == KmallocOrder(size)
  IN
  /\ kreq[c].kind = "none"
  /\ arg # 0
  /\ o < MAX_ORDER
  /\ alloc_pages(c, o, g)
  /\ kreq' = [kreq EXCEPT ![c] = [kind |-> kind, size |-> want, old |-> old]]
  /\ UNCHANGED objs

kmalloc(c, size, g) == KmallocCall(c, size, size, g, "kmalloc", NULL)

\* kzalloc: kmalloc with GFP_ZERO; the memset is not modelled.
kzalloc(c, size, g) == kmalloc(c, size, g + GFP_ZERO)

\* kcalloc: kzalloc(n * size) with the product in size_t.
kcalloc(c, n, size, g) ==
  KmallocCall(c, n * size, (n * size) % 2^SIZE_BITS, g + GFP_ZERO, "kmalloc", NULL)

\* __get_free_pages / get_zeroed_page: alloc_pages, then page_to_virt.
get_free_pages(c, o, g) ==
  /\ kreq[c].kind = "none"
  /\ alloc_pages(c, o, g)
  /\ UNCHANGED <<objs, kreq>>

get_zeroed_page(c, g) == get_free_pages(c, 0, g + GFP_ZERO)

\* prep_new_page after the unlock; a kmalloc or krealloc now holds its
\* new object.
kprep_new_page(c) ==
  /\ prep_new_page(c)
  /\ IF kreq[c].kind = "none" THEN UNCHANGED <<objs, kreq>>
     ELSE /\ objs' = [objs EXCEPT ![c] = @ \cup
                        {[blk |-> <<req[c].page, req[c].order>>, size |-> kreq[c].size]}]
          /\ kreq' = IF kreq[c].kind = "kmalloc" THEN [kreq EXCEPT ![c] = NoCall]
                     ELSE kreq

\* alloc_pages returned NULL: so does kmalloc, and krealloc returns NULL
\* leaving the old object to the caller.
kalloc_null(c) ==
  /\ alloc_pages_null(c)
  /\ kreq' = [kreq EXCEPT ![c] = NoCall]
  /\ UNCHANGED objs

\* kfree(ptr): virt_to_page, then free_pages(page, 0) whatever the order
\* the object was allocated with.
KfreeBody(c, ob) ==
  /\ objs' = [objs EXCEPT ![c] = @ \ {ob}]
  /\ held' = [held EXCEPT ![c] = @ \ {ob.blk}]
  /\ FreePagesBody(ob.blk[1], 0)
  /\ UNCHANGED <<pc, req>>

kfree(c, ob) ==
  /\ pc[c] = "idle" /\ kreq[c].kind = "none"
  /\ ob \in objs[c]
  /\ KfreeBody(c, ob)
  /\ UNCHANGED kreq

\* krealloc(ptr, new_size): a zero size is kfree; otherwise kmalloc, and
\* once the new object is prepared, copy and kfree the old one.
krealloc(c, ob, size, g) ==
  /\ pc[c] = "idle"
  /\ ob \in objs[c]
  /\ IF size = 0 THEN kfree(c, ob)
     ELSE KmallocCall(c, size, size, g, "krealloc", ob)

krealloc_free_old(c) ==
  /\ pc[c] = "idle" /\ kreq[c].kind = "krealloc"
  /\ KfreeBody(c, kreq[c].old)
  /\ kreq' = [kreq EXCEPT ![c] = NoCall]

\* free_pages_virt(addr, order) on a block from __get_free_pages.
free_pages_virt(c, b) ==
  /\ kreq[c].kind = "none"
  /\ b \notin ObjBlocks(c)
  /\ free_pages(c, b)
  /\ UNCHANGED <<objs, kreq>>

KNext ==
  \/ \E r \in Ranges : free_area_init(r) /\ UNCHANGED <<objs, kreq>>
  \/ \E c \in Contexts, s \in Sizes, g \in KGfp : kmalloc(c, s, g)
  \/ \E c \in Contexts, s \in Sizes, g \in KGfp : kzalloc(c, s, g)
  \/ \E c \in Contexts, a \in CallocArgs, g \in KGfp : kcalloc(c, a[1], a[2], g)
  \/ \E c \in Contexts, o \in 0 .. MAX_ORDER, g \in KGfp : get_free_pages(c, o, g)
  \/ \E c \in Contexts, g \in KGfp : get_zeroed_page(c, g)
  \/ \E c \in Contexts : kprep_new_page(c)
  \/ \E c \in Contexts : kalloc_null(c)
  \/ \E c \in Contexts : \E ob \in objs[c] : kfree(c, ob)
  \/ \E c \in Contexts : \E ob \in objs[c], s \in Sizes \cup {0}, g \in KGfp :
        krealloc(c, ob, s, g)
  \/ \E c \in Contexts : krealloc_free_old(c)
  \/ \E c \in Contexts : \E b \in held[c] : free_pages_virt(c, b)

KSpec == KInit /\ [][KNext]_kvars

-----------------------------------------------------------------------------
(* Properties.                                                             *)

SeededPages == UNION {r[1] .. (r[2] - 1) : r \in seeded}
OwnedPages(c) == UNION {BlockPages(b) : b \in Owned(c)}

\* Every page of a seeded range is, at every moment, either on a free list
\* or inside a block exactly one context owns: kfree, krealloc and the
\* page-level wrappers neither leak pages nor hand one out twice.
PagesPartitioned ==
  \A p \in SeededPages :
    Cardinality({c \in Contexts : p \in OwnedPages(c)})
      + (IF p \in FreePages THEN 1 ELSE 0) = 1

\* Every object kmalloc, kzalloc, kcalloc or krealloc returned spans at
\* least the bytes the caller asked for (spec section 4.4: the order is
\* the minimal one covering the rounded size).
KmallocCoversRequest ==
  \A c \in Contexts : \A ob \in objs[c] : PAGE_SIZE * 2^ob.blk[2] >= ob.size

=============================================================================
