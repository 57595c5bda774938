------------------------------- MODULE ListAbs -------------------------------
(***************************************************************************)
(* What the circular doubly linked lists of list.h promise: each list head *)
(* holds a sequence of entries, an entry is on at most one list, and every *)
(* operation rearranges those sequences.  A head whose entries were        *)
(* spliced away without re-initialisation holds no list at all (UNDEF)     *)
(* until INIT_LIST_HEAD.  Positions are nodes: a head stands for the place *)
(* before its first entry, an entry for the place after itself.  call is  *)
(* the interface: the last function called and its arguments.            *)
(***************************************************************************)
EXTENDS Sequences, SequencesExt

CONSTANTS Heads, Entries, UNDEF

VARIABLES lists, call

Nodes == Heads \cup Entries

Valid(ls, h) == ls[h] # UNDEF

\* The head whose list holds entry e, and e's index there.
HeadIn(ls, p) ==
  IF p \in Heads THEN p ELSE CHOOSE h \in Heads : Valid(ls, h) /\ Contains(ls[h], p)
PosIn(ls, p) ==
  IF p \in Heads THEN 0 ELSE CHOOSE i \in 1 .. Len(ls[HeadIn(ls, p)]) : ls[HeadIn(ls, p)][i] = p

OnList(e) == \E h \in Heads : Valid(lists, h) /\ Contains(lists[h], e)
Detached(e) == ~OnList(e)
\* A node that marks a place in a list: a valid head or a listed entry.
Linked(p) == IF p \in Heads THEN Valid(lists, p) ELSE OnList(p)

-----------------------------------------------------------------------------
(* Sequence operations.                                                    *)

AddAfter(ls, e, p) == [ls EXCEPT ![HeadIn(ls, p)] = InsertAt(@, PosIn(ls, p) + 1, e)]

AddBefore(ls, e, p) ==
  IF p \in Heads THEN [ls EXCEPT ![p] = Append(@, e)]
  ELSE [ls EXCEPT ![HeadIn(ls, p)] = InsertAt(@, PosIn(ls, p), e)]

Del(ls, e) == [ls EXCEPT ![HeadIn(ls, e)] = RemoveAt(@, PosIn(ls, e))]

\* Every occurrence of a becomes b and every occurrence of b becomes a.
Exchange(ls, a, b) ==
  [h \in Heads |-> IF ~Valid(ls, h) THEN UNDEF
                   ELSE [i \in DOMAIN ls[h] |-> IF ls[h][i] = a THEN b
                                                ELSE IF ls[h][i] = b THEN a
                                                ELSE ls[h][i]]]

RotateFrom(s, i) == SubSeq(s, i, Len(s)) \o SubSeq(s, 1, i - 1)

-----------------------------------------------------------------------------
(* Operations.                                                             *)

Add(e, p) ==
  /\ Detached(e) /\ Linked(p) /\ lists' = AddAfter(lists, e, p)
  /\ call' = <<"list_add", e, p>>

AddTail(e, p) ==
  /\ Detached(e) /\ Linked(p) /\ lists' = AddBefore(lists, e, p)
  /\ call' = <<"list_add_tail", e, p>>

\* list_del and list_del_init.
Delete(f, e) == OnList(e) /\ lists' = Del(lists, e) /\ call' = <<f, e>>

\* list_replace and list_replace_init.
Replace(f, old, new) ==
  OnList(old) /\ Detached(new) /\ lists' = Exchange(lists, old, new) /\ call' = <<f, old, new>>

Swap(a, b) ==
  a # b /\ OnList(a) /\ OnList(b) /\ lists' = Exchange(lists, a, b) /\ call' = <<"list_swap", a, b>>

Move(e, p) ==
  /\ OnList(e) /\ Linked(p) /\ e # p /\ lists' = AddAfter(Del(lists, e), e, p)
  /\ call' = <<"list_move", e, p>>

MoveTail(e, p) ==
  /\ OnList(e) /\ Linked(p) /\ e # p /\ lists' = AddBefore(Del(lists, e), e, p)
  /\ call' = <<"list_move_tail", e, p>>

RotateLeft(h) ==
  /\ Valid(lists, h)
  /\ lists' = [lists EXCEPT ![h] = IF @ = << >> THEN @ ELSE RotateFrom(@, 2)]
  /\ call' = <<"list_rotate_left", h>>

RotateToFront(e, h) ==
  /\ Valid(lists, h) /\ Contains(lists[h], e)
  /\ lists' = [lists EXCEPT ![h] = RotateFrom(@, PosIn(lists, e))]
  /\ call' = <<"list_rotate_to_front", e, h>>

SpliceName == [t \in BOOLEAN, i \in BOOLEAN |->
  IF t THEN IF i THEN "list_splice_tail_init" ELSE "list_splice_tail"
       ELSE IF i THEN "list_splice_init" ELSE "list_splice"]

\* The entries of src go to the front (or the tail) of dst; src then holds
\* no list unless it is re-initialised.
Splice(src, dst, tail, init) ==
  /\ src # dst /\ Valid(lists, src) /\ Valid(lists, dst)
  /\ lists' = IF lists[src] = << >> THEN lists
              ELSE [lists EXCEPT ![dst] = IF tail THEN @ \o lists[src] ELSE lists[src] \o @,
                                 ![src] = IF init THEN << >> ELSE UNDEF]
  /\ call' = <<SpliceName[tail, init], src, dst>>

\* A head that may receive a cut: it holds nothing worth keeping.
Spare(l) == lists[l] \in {<< >>, UNDEF}

\* The entries of h up to and including e move to l.
CutPosition(l, h, e) ==
  /\ l # h /\ Spare(l) /\ Valid(lists, h) /\ (e = h \/ Contains(lists[h], e))
  /\ lists' = IF lists[h] = << >> THEN lists
              ELSE IF e = h THEN [lists EXCEPT ![l] = << >>]
              ELSE [lists EXCEPT ![l] = SubSeq(lists[h], 1, PosIn(lists, e)),
                                 ![h] = SubSeq(lists[h], PosIn(lists, e) + 1, Len(lists[h]))]
  /\ call' = <<"list_cut_position", l, h, e>>

\* The entries of h before e move to l (all of them when e is h).
CutBefore(l, h, e) ==
  /\ l # h /\ Spare(l) /\ Valid(lists, h) /\ (e = h \/ Contains(lists[h], e))
  /\ LET k == IF e = h THEN Len(lists[h]) ELSE PosIn(lists, e) - 1 IN
     lists' = [lists EXCEPT ![l] = SubSeq(lists[h], 1, k),
                            ![h] = SubSeq(lists[h], k + 1, Len(lists[h]))]
  /\ call' = <<"list_cut_before", l, h, e>>

InitHead(h) == Spare(h) /\ lists' = [lists EXCEPT ![h] = << >>] /\ call' = <<"INIT_LIST_HEAD", h>>

AbsInit == lists = [h \in Heads |-> << >>] /\ call = <<"LIST_HEAD">>

AbsNext ==
  \/ \E e \in Entries, p \in Nodes : Add(e, p) \/ AddTail(e, p) \/ Move(e, p) \/ MoveTail(e, p)
  \/ \E e \in Entries, f \in {"list_del", "list_del_init"} : Delete(f, e)
  \/ \E a, b \in Entries : Swap(a, b) \/
       \E f \in {"list_replace", "list_replace_init"} : Replace(f, a, b)
  \/ \E h \in Heads : RotateLeft(h) \/ InitHead(h) \/ \E e \in Entries : RotateToFront(e, h)
  \/ \E s, d \in Heads, tail, init \in BOOLEAN : Splice(s, d, tail, init)
  \/ \E l, h \in Heads, e \in Nodes : CutPosition(l, h, e) \/ CutBefore(l, h, e)

AbsSpec == AbsInit /\ [][AbsNext]_<<lists, call>>

=============================================================================
