--------------------------- MODULE PageAllocator ---------------------------
(***************************************************************************)
(* What the physical page allocator promises its callers, with no buddy   *)
(* lists at all: memory handed to it by free_area_init becomes available; *)
(* an allocation of order o hands a caller a block of 2^o available pages *)
(* that starts at a multiple of 2^o, or fails; freeing a block the caller *)
(* holds makes its pages available again.  No page is ever held by two    *)
(* callers, or held and available at once.                                *)
(***************************************************************************)
EXTENDS Naturals, FiniteSets

CONSTANTS
  MAX_ORDER,     \* orders 0 .. MAX_ORDER-1 are valid requests
  Ranges,        \* the [start, end) PFN ranges boot code may add
  Contexts       \* the callers (kernel thread, interrupt handlers)

Orders == 0 .. MAX_ORDER - 1

\* The pages of a block <<pfn, order>>.
BlockPages(b) == b[1] .. (b[1] + 2^b[2] - 1)

\* The pages of a range <<start, end>>.
RangePages(r) == r[1] .. (r[2] - 1)

VARIABLES
  avail,     \* pages currently available to allocation
  owned,     \* owned[c]: the blocks context c holds
  seeded     \* the ranges already added

vars == <<avail, owned, seeded>>

Init ==
  /\ avail = {}
  /\ owned = [c \in Contexts |-> {}]
  /\ seeded = {}

AddRange(r) ==
  /\ r \notin seeded
  /\ seeded' = seeded \cup {r}
  /\ avail' = avail \cup RangePages(r)
  /\ UNCHANGED owned

Alloc(c, o) ==
  \E p \in avail :
    /\ p % 2^o = 0
    /\ BlockPages(<<p, o>>) \subseteq avail
    /\ avail' = avail \ BlockPages(<<p, o>>)
    /\ owned' = [owned EXCEPT ![c] = @ \cup {<<p, o>>}]
    /\ UNCHANGED seeded

Release(c, b) ==
  /\ b \in owned[c]
  /\ avail' = avail \cup BlockPages(b)
  /\ owned' = [owned EXCEPT ![c] = @ \ {b}]
  /\ UNCHANGED seeded

Next ==
  \/ \E r \in Ranges : AddRange(r)
  \/ \E c \in Contexts, o \in Orders : Alloc(c, o)
  \/ \E c \in Contexts : \E b \in owned[c] : Release(c, b)

Spec == Init /\ [][Next]_vars

=============================================================================
