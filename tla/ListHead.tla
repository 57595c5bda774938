------------------------------ MODULE ListHead ------------------------------
(***************************************************************************)
(* The struct list_head operations of list.h at the level of their         *)
(* pointer stores.  Memory is the next and prev field of every node (list  *)
(* heads and entries); each inline function is an operator from memory to *)
(* memory that performs the function's stores in the order the code       *)
(* makes them, each load reading the memory left by the stores before it, *)
(* so aliasing between the arguments behaves as in C.  A caller keeps the *)
(* documented contract: it adds detached entries, deletes listed ones,    *)
(* splices between valid heads and cuts into a spare head.  What the      *)
(* lists hold is read off the pointers by walking next from each head.    *)
(***************************************************************************)
EXTENDS Naturals, FiniteSets, Sequences, SequencesExt

CONSTANTS Heads, Entries, UNDEF, LIST_POISON1, LIST_POISON2

VARIABLES
  next, prev,  \* the two fields of every struct list_head
  call         \* history: the last function called, with its arguments

lvars == <<next, prev, call>>

Nodes  == Heads \cup Entries
Poison == {LIST_POISON1, LIST_POISON2}
BROKEN == "BROKEN"

Mem == [next |-> next, prev |-> prev]
SetNext(m, x, v) == [m EXCEPT !.next[x] = v]
SetPrev(m, x, v) == [m EXCEPT !.prev[x] = v]
Commit(m, c) == next' = m.next /\ prev' = m.prev /\ call' = c

-----------------------------------------------------------------------------
(* What the pointers say: the list_for_each walk from a head.             *)

\* The entries met following next from x until back at h, ending in BROKEN
\* when the walk leaves the entries or does not close within k steps.
RECURSIVE Walk(_, _, _)
Walk(h, x, k) ==
  IF x = h THEN << >>
  ELSE IF k = 0 \/ x \notin Entries THEN <<BROKEN>>
  ELSE <<x>> \o Walk(h, next[x], k - 1)

ListOf(h) ==
  LET w == Walk(h, next[h], Cardinality(Entries))
  IN IF w # << >> /\ w[Len(w)] = BROKEN THEN UNDEF ELSE w

Abs == [h \in Heads |-> ListOf(h)]

A == INSTANCE ListAbs WITH lists <- Abs, call <- call

-----------------------------------------------------------------------------
(* list.h, one operator per inline function.                               *)

INIT_LIST_HEAD(m, l) == SetPrev(SetNext(m, l, l), l, l)

__list_add(m, new, p, n) ==
  SetNext(SetPrev(SetNext(SetPrev(m, n, new), new, n), new, p), p, new)

__list_del(m, p, n) == SetNext(SetPrev(m, n, p), p, n)

__list_del_entry(m, e) == __list_del(m, m.prev[e], m.next[e])

list_add(m, new, head)      == __list_add(m, new, head, m.next[head])
list_add_tail(m, new, head) == __list_add(m, new, m.prev[head], head)

\* (Mutant: the deleted entry's pointers are cleared to NULL, not poisoned.)
list_delNull(m, e) == SetPrev(SetNext(__list_del_entry(m, e), e, "NULL"), e, "NULL")

list_del(m, e) ==
  SetPrev(SetNext(__list_del_entry(m, e), e, LIST_POISON1), e, LIST_POISON2)

list_del_init(m, e) == INIT_LIST_HEAD(__list_del_entry(m, e), e)

\* new->next = old->next; new->next->prev = new; new->prev = old->prev;
\* new->prev->next = new.
list_replace(m, old, new) ==
  LET m1 == SetNext(m, new, m.next[old])
      m2 == SetPrev(m1, m1.next[new], new)
      m3 == SetPrev(m2, new, m2.prev[old])
  IN SetNext(m3, m3.prev[new], new)

list_replace_init(m, old, new) == INIT_LIST_HEAD(list_replace(m, old, new), old)

\* (Mutant: the re-aim of pos when entry1 was entry2's predecessor is lost.)
list_swapNoReaim(m, e1, e2) ==
  LET pos == m.prev[e2]
  IN list_add(list_replace(list_del(m, e2), e1, e2), e1, pos)

list_swap(m, e1, e2) ==
  LET pos == m.prev[e2]
  IN list_add(list_replace(list_del(m, e2), e1, e2), e1, IF pos = e1 THEN e2 ELSE pos)

list_move(m, l, head)      == list_add(__list_del_entry(m, l), l, head)
list_move_tail(m, l, head) == list_add_tail(__list_del_entry(m, l), l, head)

list_empty(m, head) == m.next[head] = head

list_rotate_left(m, head) ==
  IF list_empty(m, head) THEN m ELSE list_move_tail(m, m.next[head], head)

list_rotate_to_front(m, l, head) == list_move_tail(m, head, l)

__list_splice(m, l, p, n) ==
  LET first == m.next[l]
      last  == m.prev[l]
  IN SetPrev(SetNext(SetNext(SetPrev(m, first, p), p, first), last, n), n, last)

list_splice(m, l, head) ==
  IF list_empty(m, l) THEN m ELSE __list_splice(m, l, head, m.next[head])
list_splice_tail(m, l, head) ==
  IF list_empty(m, l) THEN m ELSE __list_splice(m, l, m.prev[head], head)

\* (Mutant: the source head is not re-initialised after the splice.)
list_splice_initNoInit(m, l, head) == list_splice(m, l, head)

list_splice_init(m, l, head) ==
  IF list_empty(m, l) THEN m ELSE INIT_LIST_HEAD(__list_splice(m, l, head, m.next[head]), l)
list_splice_tail_init(m, l, head) ==
  IF list_empty(m, l) THEN m ELSE INIT_LIST_HEAD(__list_splice(m, l, m.prev[head], head), l)

\* (Mutant: new_first->prev is not pointed back at head.)
__list_cut_positionNoBack(m, l, head, entry) ==
  LET new_first == m.next[entry]
      m1 == SetNext(m, l, m.next[head])
      m2 == SetPrev(m1, m1.next[l], l)
  IN SetNext(SetNext(SetPrev(m2, l, entry), entry, l), head, new_first)

__list_cut_position(m, l, head, entry) ==
  LET new_first == m.next[entry]
      m1 == SetNext(m, l, m.next[head])
      m2 == SetPrev(m1, m1.next[l], l)
      m3 == SetNext(SetNext(SetPrev(m2, l, entry), entry, l), head, new_first)
  IN SetPrev(m3, new_first, head)

list_is_singular(m, head) == ~list_empty(m, head) /\ m.next[head] = m.prev[head]

list_cut_position(m, l, head, entry) ==
  IF list_empty(m, head) THEN m
  ELSE IF list_is_singular(m, head) /\ entry # head /\ entry # m.next[head] THEN m
  ELSE IF entry = head THEN INIT_LIST_HEAD(m, l)
  ELSE __list_cut_position(m, l, head, entry)

list_cut_before(m, l, head, entry) ==
  IF m.next[head] = entry THEN INIT_LIST_HEAD(m, l)
  ELSE LET m1 == SetNext(m, l, m.next[head])
           m2 == SetPrev(m1, m1.next[l], l)
           m3 == SetPrev(m2, l, m2.prev[entry])
           m4 == SetNext(m3, m3.prev[l], l)
       IN SetPrev(SetNext(m4, head, entry), entry, head)

-----------------------------------------------------------------------------
(* The read-only helpers.                                                  *)

list_empty_careful(m, head) == m.next[head] = head /\ m.next[head] = m.prev[head]
list_is_last(m, l, head)  == m.next[l] = head
list_is_first(m, l, head) == m.prev[l] = head

\* list_for_each_prev(pos, head): the entries from head->prev backwards,
\* ending in BROKEN where the walk leaves the entries or exceeds k steps.
RECURSIVE ForEachPrev(_, _, _)
ForEachPrev(head, pos, k) ==
  IF pos = head THEN << >>
  ELSE IF k = 0 \/ pos \notin Entries THEN <<BROKEN>>
  ELSE <<pos>> \o ForEachPrev(head, prev[pos], k - 1)

RECURSIVE CountNodes(_, _, _)
CountNodes(head, pos, count) ==
  IF pos = head THEN count ELSE CountNodes(head, next[pos], count + 1)
list_count_nodes(head) == CountNodes(head, next[head], 0)

RECURSIVE ContainsFrom(_, _, _)
ContainsFrom(head, pos, node) ==
  IF pos = head THEN FALSE ELSE pos = node \/ ContainsFrom(head, next[pos], node)
list_contains(head, node) == ContainsFrom(head, next[head], node)

NULL == "NULL"

\* (Mutant: i is compared after it has been incremented.)
RECURSIVE GetNthLate(_, _, _, _)
GetNthLate(head, pos, i, n) ==
  IF pos = head THEN NULL ELSE IF i + 1 = n THEN pos ELSE GetNthLate(head, next[pos], i + 1, n)

RECURSIVE GetNth(_, _, _, _)
GetNth(head, pos, i, n) ==
  IF pos = head THEN NULL ELSE IF i = n THEN pos ELSE GetNth(head, next[pos], i + 1, n)
list_get_nth(head, n) == GetNth(head, next[head], 0, n)

list_first_entry_or_null(head) == IF next[head] # head THEN next[head] ELSE NULL

-----------------------------------------------------------------------------
(* Calls, each under the caller's side of the contract.                    *)

list_addOp(e, p) ==
  A!Detached(e) /\ A!Linked(p) /\ Commit(list_add(Mem, e, p), <<"list_add", e, p>>)
list_add_tailOp(e, p) ==
  A!Detached(e) /\ A!Linked(p) /\ Commit(list_add_tail(Mem, e, p), <<"list_add_tail", e, p>>)
list_delOp(e) == A!OnList(e) /\ Commit(list_del(Mem, e), <<"list_del", e>>)
list_del_initOp(e) == A!OnList(e) /\ Commit(list_del_init(Mem, e), <<"list_del_init", e>>)
list_replaceOp(o, n) ==
  A!OnList(o) /\ A!Detached(n) /\ Commit(list_replace(Mem, o, n), <<"list_replace", o, n>>)
list_replace_initOp(o, n) ==
  A!OnList(o) /\ A!Detached(n) /\ Commit(list_replace_init(Mem, o, n), <<"list_replace_init", o, n>>)
list_swapOp(a, b) ==
  a # b /\ A!OnList(a) /\ A!OnList(b) /\ Commit(list_swap(Mem, a, b), <<"list_swap", a, b>>)
list_moveOp(e, p) ==
  A!OnList(e) /\ A!Linked(p) /\ e # p /\ Commit(list_move(Mem, e, p), <<"list_move", e, p>>)
list_move_tailOp(e, p) ==
  A!OnList(e) /\ A!Linked(p) /\ e # p /\ Commit(list_move_tail(Mem, e, p), <<"list_move_tail", e, p>>)
list_rotate_leftOp(h) ==
  A!Linked(h) /\ Commit(list_rotate_left(Mem, h), <<"list_rotate_left", h>>)
list_rotate_to_frontOp(e, h) ==
  /\ A!Linked(h) /\ Contains(Abs[h], e)
  /\ Commit(list_rotate_to_front(Mem, e, h), <<"list_rotate_to_front", e, h>>)

\* Splice and cut take two distinct valid heads; a cut goes into a spare one.
Splicing(s, d) == s # d /\ A!Linked(s) /\ A!Linked(d)
Cutting(l, h, e) == l # h /\ A!Spare(l) /\ A!Linked(h) /\ (e = h \/ Contains(Abs[h], e))

list_spliceOp(s, d) ==
  Splicing(s, d) /\ Commit(list_splice(Mem, s, d), <<"list_splice", s, d>>)
list_splice_tailOp(s, d) ==
  Splicing(s, d) /\ Commit(list_splice_tail(Mem, s, d), <<"list_splice_tail", s, d>>)
list_splice_initOp(s, d) ==
  Splicing(s, d) /\ Commit(list_splice_init(Mem, s, d), <<"list_splice_init", s, d>>)
list_splice_tail_initOp(s, d) ==
  Splicing(s, d) /\ Commit(list_splice_tail_init(Mem, s, d), <<"list_splice_tail_init", s, d>>)
list_cut_positionOp(l, h, e) ==
  Cutting(l, h, e) /\ Commit(list_cut_position(Mem, l, h, e), <<"list_cut_position", l, h, e>>)
list_cut_beforeOp(l, h, e) ==
  Cutting(l, h, e) /\ Commit(list_cut_before(Mem, l, h, e), <<"list_cut_before", l, h, e>>)
INIT_LIST_HEADOp(h) == A!Spare(h) /\ Commit(INIT_LIST_HEAD(Mem, h), <<"INIT_LIST_HEAD", h>>)

\* LIST_HEAD(name) for every head; entries start initialised as well.
LInit == next = [x \in Nodes |-> x] /\ prev = [x \in Nodes |-> x] /\ call = <<"LIST_HEAD">>

LNext ==
  \/ \E e \in Entries, p \in Nodes :
       \/ list_addOp(e, p) \/ list_add_tailOp(e, p)
       \/ list_moveOp(e, p) \/ list_move_tailOp(e, p)
  \/ \E e \in Entries : list_delOp(e) \/ list_del_initOp(e)
  \/ \E a, b \in Entries :
       list_replaceOp(a, b) \/ list_replace_initOp(a, b) \/ list_swapOp(a, b)
  \/ \E h \in Heads :
       \/ list_rotate_leftOp(h) \/ INIT_LIST_HEADOp(h)
       \/ \E e \in Entries : list_rotate_to_frontOp(e, h)
  \/ \E s, d \in Heads :
       \/ list_spliceOp(s, d) \/ list_splice_tailOp(s, d)
       \/ list_splice_initOp(s, d) \/ list_splice_tail_initOp(s, d)
  \/ \E l, h \in Heads, e \in Nodes : list_cut_positionOp(l, h, e) \/ list_cut_beforeOp(l, h, e)

LSpec == LInit /\ [][LNext]_lvars

-----------------------------------------------------------------------------
(* Properties.                                                             *)

LTypeOK ==
  /\ next \in [Nodes -> Nodes \cup Poison]
  /\ prev \in [Nodes -> Nodes \cup Poison]
  /\ call \in Seq(STRING \cup Nodes)

\* Every list is doubly linked: walking prev from a valid head meets the
\* entries that walking next meets, in reverse, after any sequence of
\* operations, including a swap of neighbours, a cut and a splice.
ListsLinked ==
  \A h \in Heads : Abs[h] # UNDEF => ForEachPrev(h, prev[h], Cardinality(Entries)) = Reverse(Abs[h])

\* The read-only helpers of list.h, several of which read prev, say of every
\* valid list what its sequence of entries says.
QueriesAgree ==
  \A h \in Heads : Abs[h] # UNDEF =>
    /\ list_empty(Mem, h) = (Abs[h] = << >>)
    /\ list_empty_careful(Mem, h) = (Abs[h] = << >>)
    /\ list_is_singular(Mem, h) = (Len(Abs[h]) = 1)
    /\ list_count_nodes(h) = Len(Abs[h])
    /\ list_first_entry_or_null(h) = IF Abs[h] = << >> THEN NULL ELSE Abs[h][1]
    /\ \A e \in Entries :
         /\ list_contains(h, e) = Contains(Abs[h], e)
         /\ Contains(Abs[h], e) =>
              /\ list_is_first(Mem, e, h) = (Abs[h][1] = e)
              /\ list_is_last(Mem, e, h) = (Abs[h][Len(Abs[h])] = e)
    /\ \A n \in 0 .. Cardinality(Entries) :
         list_get_nth(h, n) = IF n < Len(Abs[h]) THEN Abs[h][n + 1] ELSE NULL

\* The pointer operations implement the abstract lists of ListAbs.
Refinement == A!AbsSpec

=============================================================================
