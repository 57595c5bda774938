------------------------------- MODULE MCLocks -------------------------------
(***************************************************************************)
(* The two lock implementations of spinlock.h in one model-checking run: *)
(* buddy_lock's spin_lock_irqsave discipline on two CPUs (Spinlock) and   *)
(* an rwlock_t shared by two readers and two writers (RWLock).  No code   *)
(* holds an rwlock and buddy_lock together, so the run checks them side   *)
(* by side: each behaviour exercises one of the locks while the other     *)
(* stays in its initial state, and the state space is the sum of the two  *)
(* rather than their product.                                             *)
(***************************************************************************)
EXTENDS Spinlock, RWLock, TLC

CONSTANTS p1, p2, r1, r2, w1, w2

MCCPUs    == {p1, p2}
MCReaders == {r1, r2}
MCWriters == {w1, w2}

VARIABLE lockUnderTest   \* "spin" or "rw": the lock this behaviour exercises

lvars == <<lockUnderTest, svars, rwvars>>

LInit == lockUnderTest \in {"spin", "rw"} /\ SInit /\ RWInit

\* A step of the lock under test; the other lock's variables stay put.
OnSpin(A) == lockUnderTest = "spin" /\ A /\ UNCHANGED <<lockUnderTest, rwvars>>
OnRW(A)   == lockUnderTest = "rw" /\ A /\ UNCHANGED <<lockUnderTest, svars>>

LNext == OnSpin(SNext) \/ OnRW(RWNext)

\* The fairness of each module, restricted to the behaviours exercising
\* its lock.
LFairness ==
  /\ \A cpu \in CPUs : /\ WF_lvars(OnSpin(Step(cpu)))
                       /\ WF_lvars(OnSpin(return(cpu)))
                       /\ WF_lvars(OnSpin(iret(cpu)))
  /\ \A r \in Readers : WF_lvars(OnRW(ReaderStep(r)))
  /\ \A w \in Writers : WF_lvars(OnRW(WriterStep(w)))

LSpec == LInit /\ [][LNext]_lvars /\ LFairness

=============================================================================
