----------------------------- MODULE MCListHead -----------------------------
(* Two list heads and three entries, enough for a list of three, a swap of *)
(* neighbours and of entries on different lists, and a cut or splice that *)
(* leaves both lists non-empty.                                            *)
EXTENDS ListHead, TLC

CONSTANTS h1, h2, e1, e2, e3

MCHeads   == {h1, h2}
MCEntries == {e1, e2, e3}

ListSymmetry == Permutations(MCHeads) \cup Permutations(MCEntries)
=============================================================================
