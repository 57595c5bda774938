------------------------------ MODULE MCKmalloc ------------------------------
EXTENDS Kmalloc, TLC

CONSTANTS c1, c2

MCContexts    == {c1, c2}
MCContextsOne == {c1}
MCRangesWhole == {<<0, 4>>}

\* Requests that fit in one page, where kfree's order 0 is right.
MCSizesPage   == {4}
MCCallocPage  == {<<2, 2>>}

\* Requests of one to four pages, and one past MAX_ORDER.
MCSizesMulti  == {3, 5, 9, 17}
MCCallocMulti == {<<3, 2>>}

\* Requests whose size_t arithmetic wraps: ALIGN_UP(63) and 3 * 22 mod 64.
MCSizesWrap   == {63}
MCCallocWrap  == {<<3, 22>>}

MCGfp == {GFP_KERNEL, GFP_DMA}

ContextSymmetry == Permutations(MCContexts)
=============================================================================
