------------------------------- MODULE MemOps -------------------------------
(***************************************************************************)
(* The byte helpers of mm.h: memcpy, memmove and memcmp, as operators    *)
(* over a memory, a sequence of byte values whose pointers are offsets   *)
(* from 0.  krealloc copies with memcpy; memmove and memcmp are the      *)
(* library's other two.                                                   *)
(* The cases come from Printk's input val, in turn.                      *)
(***************************************************************************)
EXTENDS Printk

\* while (n--) *d++ = *s++; each byte read after the earlier stores.
RECURSIVE CopyForward(_, _, _, _)
CopyForward(m, d, s, n) ==
  IF n = 0 THEN m ELSE CopyForward([m EXCEPT ![d + 1] = m[s + 1]], d + 1, s + 1, n - 1)

\* d += n; s += n; while (n--) *--d = *--s;
RECURSIVE CopyBackward(_, _, _, _)
CopyBackward(m, d, s, n) ==
  IF n = 0 THEN m ELSE CopyBackward([m EXCEPT ![d + n] = m[s + n]], d, s, n - 1)

memcpy(m, d, s, n) == CopyForward(m, d, s, n)

\* (Mutant: the direction test reversed.)
memmoveSwapped(m, d, s, n) ==
  IF d > s THEN CopyForward(m, d, s, n) ELSE CopyBackward(m, d, s, n)

\* memmove(d, s, n): forwards when d is below s, backwards otherwise.
memmove(m, d, s, n) ==
  IF d < s THEN CopyForward(m, d, s, n) ELSE CopyBackward(m, d, s, n)

\* (Mutant: the bytes compared as plain, signed char.)
SChar(b) == IF b >= 128 THEN b - 256 ELSE b
RECURSIVE memcmpSigned(_, _, _, _)
memcmpSigned(m, p1, p2, n) ==
  IF n = 0 THEN 0
  ELSE IF m[p1 + 1] # m[p2 + 1] THEN SChar(m[p1 + 1]) - SChar(m[p2 + 1])
  ELSE memcmpSigned(m, p1 + 1, p2 + 1, n - 1)

\* memcmp(p1, p2, n): *p1 - *p2 of unsigned chars at the first difference.
RECURSIVE memcmp(_, _, _, _)
memcmp(m, p1, p2, n) ==
  IF n = 0 THEN 0
  ELSE IF m[p1 + 1] # m[p2 + 1] THEN m[p1 + 1] - m[p2 + 1]
  ELSE memcmp(m, p1 + 1, p2 + 1, n - 1)

-----------------------------------------------------------------------------
(* Reference definitions.                                                  *)

\* The destination holds what the source held before the call.
RefMove(m, d, s, n) == [k \in DOMAIN m |-> IF k - 1 \in d .. d + n - 1 THEN m[s + k - d] ELSE m[k]]

\* -1, 0 or 1 as a comes before, with or after b in the byte order.
RefOrder(a, b) ==
  IF a = b THEN 0
  ELSE LET i == CHOOSE i \in DOMAIN a : a[i] # b[i] /\ \A j \in 1 .. i - 1 : a[j] = b[j]
       IN IF a[i] < b[i] THEN -1 ELSE 1

Sign(x) == IF x < 0 THEN -1 ELSE IF x > 0 THEN 1 ELSE 0

\* The cases of val: six distinct bytes with a destination, a source and
\* a length in 0 .. 3 each (every overlap); and two two-byte strings over
\* 1, 0x80 and 0xFF compared over 0 .. 2 bytes.
MoveMem == <<1, 2, 3, 4, 5, 6>>
MoveDst == ULong(val) % 4
MoveSrc == (ULong(val) \div 4) % 4
MoveLen == (ULong(val) \div 16) % 4
CmpByte == <<1, 128, 255>>
CmpMem  == [k \in 1 .. 4 |-> CmpByte[((ULong(val) \div 3^(k - 1)) % 3) + 1]]
CmpLen  == IF ULong(val) \div 81 > 2 THEN 2 ELSE ULong(val) \div 81

-----------------------------------------------------------------------------
(* Properties.                                                             *)

\* memmove, which picks its copy direction by comparing the destination
\* with the source, leaves in the destination what the source held before
\* the call for every overlap of the two ranges; memcpy does so for
\* disjoint ranges.
MemmoveFaithful ==
  /\ memmove(MoveMem, MoveDst, MoveSrc, MoveLen) = RefMove(MoveMem, MoveDst, MoveSrc, MoveLen)
  /\ (MoveDst + MoveLen <= MoveSrc \/ MoveSrc + MoveLen <= MoveDst)
       => memcpy(MoveMem, MoveDst, MoveSrc, MoveLen) = RefMove(MoveMem, MoveDst, MoveSrc, MoveLen)

\* memcmp's result has the sign of the order of the first differing bytes
\* taken as unsigned char, 0x80 and 0xFF above 1 included.
MemcmpOrders ==
  Sign(memcmp(CmpMem, 0, 2, CmpLen))
    = RefOrder(SubSeq(CmpMem, 1, CmpLen), SubSeq(CmpMem, 3, 2 + CmpLen))

=============================================================================
