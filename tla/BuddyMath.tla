------------------------------ MODULE BuddyMath ------------------------------
(***************************************************************************)
(* Checks the arithmetic of BuddyArith against reference definitions on   *)
(* every block and range the allocator works with in a reachable state:   *)
(* the blocks on the free lists and the blocks callers hold, every request *)
(* order up to theirs, and the ranges already given to free_area_init.    *)
(***************************************************************************)
EXTENDS BuddyAllocator, Bitwise

\* The blocks <<pfn, order>> on a free list or owned by a caller.
LiveBlocks ==
  UNION {{<<p, o>> : p \in Range(freeList[z][o])} : z \in Zones, o \in Orders}
  \cup UNION {held[c] : c \in Contexts}

\* Each live block with every request order no larger than its own.
BlockInputs == UNION {{<<b[1], b[2], low>> : low \in 0 .. b[2]} : b \in LiveBlocks}

-----------------------------------------------------------------------------
(* Reference definitions, stated with the bit operations of the C code.    *)

Aligned(b) == (b[1] & (2^b[2] - 1)) = 0
Inside(b, s, e) == s <= b[1] /\ b[1] + 2^b[2] <= e
Parent(b) == <<b[1] - (b[1] & (2^(b[2] + 1) - 1)), b[2] + 1>>

\* The maximal aligned blocks of [s, e): aligned, inside the range, and
\* either of the top order or with a parent that leaves the range.
MaximalBlocks(s, e) ==
  {b \in Pfn \X Orders : Aligned(b) /\ Inside(b, s, e)
                         /\ (b[2] = MAX_ORDER - 1 \/ ~Inside(Parent(b), s, e))}

-----------------------------------------------------------------------------
(* Properties.                                                             *)

\* The walk of free_area_init over [lo, hi) inserts exactly the maximal
\* aligned blocks of the range, in increasing PFN order: every page of the
\* range is covered once and no block could have been larger.
SeedIsMaximalDecomposition ==
  \A r \in seeded :
    LET bs == SeedBlocks(r[1], r[2]) IN
    /\ {bs[i] : i \in DOMAIN bs} = MaximalBlocks(r[1], r[2])
    /\ \A i \in 1 .. Len(bs) - 1 : bs[i][1] + 2^bs[i][2] = bs[i + 1][1]

\* expand splits an aligned block of order ord into the block of order low
\* at its head and halves that, with it, tile the block exactly, each
\* aligned to its own order.
ExpandTilesBlock ==
  \A in \in BlockInputs :
    LET pfn   == in[1]
        ord   == in[2]
        parts == expand(pfn, in[3], ord) \cup {<<pfn, in[3]>>}
    IN Aligned(<<pfn, ord>>) =>
         /\ \A b \in parts : Aligned(b)
         /\ UNION {BlockPages(b) : b \in parts} = BlockPages(<<pfn, ord>>)
         /\ \A b1, b2 \in parts :
              b1 # b2 => b1[1] + 2^b1[2] <= b2[1] \/ b2[1] + 2^b2[2] <= b1[1]

=============================================================================
