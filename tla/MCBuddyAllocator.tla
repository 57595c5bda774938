------------------------- MODULE MCBuddyAllocator --------------------------
(***************************************************************************)
(* Model-checking instances of BuddyAllocator: up to 8 descriptors and   *)
(* orders 0..3, so the merge loop runs three levels deep.  Two contexts   *)
(* interleaving between the locked part of alloc_pages and prep_new_page *)
(* are checked through Kmalloc (MCKmalloc.cfg).  BuddyMath's checks run  *)
(* on the blocks and ranges of every reachable state.                    *)
(***************************************************************************)
EXTENDS BuddyAllocator, BuddyMath, TLC

CONSTANTS c1

\* A single caller.
MCContextsOne == {c1}

\* One range covering all of a four-page mem_map (spec section 8 layout).
MCRangesWhole == {<<0, 4>>}

\* Two adjacent ranges whose greedy walk yields blocks of orders 2, 0, 0, 1.
MCRangesSplit == {<<0, 5>>, <<5, 8>>}

\* A range that does not end on a boundary of the top order, with mem_map
\* sized to end where the range ends.
MCRangesShort == {<<0, 6>>}

=============================================================================
