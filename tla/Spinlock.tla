------------------------------ MODULE Spinlock ------------------------------
(***************************************************************************)
(* The spinlock of spinlock.h with the interrupt-flag primitives of        *)
(* main.c, as buddy.c uses them for buddy_lock: every allocator entry      *)
(* point runs spin_lock_irqsave, its body, spin_unlock_irqrestore.         *)
(*                                                                         *)
(* Each CPU has two levels of execution: its thread, and an interrupt      *)
(* handler that may preempt the thread whenever the CPU's interrupt flag   *)
(* is set (spec section 5: the allocator is callable from interrupt        *)
(* context).  A level runs a program, a sequence of the primitive steps    *)
(* below; the CPU executes its handler if one is active, else its thread.  *)
(***************************************************************************)
EXTENDS Naturals, Sequences

CONSTANTS CPUs

Levels == {"thread", "irq"}
Ctx    == CPUs \X Levels

SPINLOCK_UNLOCKED == 0
SPINLOCK_LOCKED   == 1

VARIABLES
  lock,   \* buddy_lock.lock
  intr,   \* intr[cpu]: the interrupt-enable bit of the CPU's RFLAGS
  prog,   \* prog[x]: the program context x is running, << >> when none
  pc,     \* pc[x]: index of the next step of prog[x]
  flags,  \* flags[x]: the flags variable of spin_lock_irqsave's caller
  holds   \* holds[x]: x returned from spin_lock and has not unlocked

svars == <<lock, intr, prog, pc, flags, holds>>

-----------------------------------------------------------------------------
(* Programs.                                                               *)

\* (Mutant: spin_lock_irqsave takes the lock before disabling interrupts.)
SpinLockIrqsaveLate == <<"spin_lock", "local_irq_save">>

\* spin_lock_irqsave: *flags = local_irq_save(); spin_lock(lock).
SpinLockIrqsave == <<"local_irq_save", "spin_lock">>

\* (Mutant: interrupts come back on before the lock is released.)
SpinUnlockIrqrestoreEarly == <<"local_irq_restore", "spin_unlock">>

\* spin_unlock_irqrestore: spin_unlock(lock); local_irq_restore(flags).
SpinUnlockIrqrestore == <<"spin_unlock", "local_irq_restore">>

\* An allocator entry point: the lock is held over the whole body.
LockedCall == SpinLockIrqsave \o <<"body">> \o SpinUnlockIrqrestore

Programs == {LockedCall}

-----------------------------------------------------------------------------
(* Steps.                                                                  *)

\* The level the CPU is executing.
Active(cpu) == IF prog[<<cpu, "irq">>] # << >> THEN <<cpu, "irq">> ELSE <<cpu, "thread">>

Op(x) == prog[x][pc[x]]
Advance(x) == pc' = [pc EXCEPT ![x] = @ + 1]

\* local_irq_save: pushfq; popq flags; cli.
local_irq_save(x) ==
  /\ Op(x) = "local_irq_save"
  /\ flags' = [flags EXCEPT ![x] = intr[x[1]]]
  /\ intr' = [intr EXCEPT ![x[1]] = 0]
  /\ Advance(x)
  /\ UNCHANGED <<lock, prog, holds>>

\* local_irq_restore: pushq flags; popfq.
local_irq_restore(x) ==
  /\ Op(x) = "local_irq_restore"
  /\ intr' = [intr EXCEPT ![x[1]] = flags[x]]
  /\ Advance(x)
  /\ UNCHANGED <<lock, prog, flags, holds>>

\* spin_lock: the compare-and-swap from UNLOCKED to LOCKED; a failed one
\* and the inner read loop change nothing, so the CPU simply stays here
\* until it sees the lock free and its CAS wins.
spin_lock(x) ==
  /\ Op(x) = "spin_lock"
  /\ lock = SPINLOCK_UNLOCKED
  /\ lock' = SPINLOCK_LOCKED
  /\ holds' = [holds EXCEPT ![x] = TRUE]
  /\ Advance(x)
  /\ UNCHANGED <<intr, prog, flags>>

\* spin_unlock: a full barrier, then the store of UNLOCKED.
spin_unlock(x) ==
  /\ Op(x) = "spin_unlock"
  /\ lock' = SPINLOCK_UNLOCKED
  /\ holds' = [holds EXCEPT ![x] = FALSE]
  /\ Advance(x)
  /\ UNCHANGED <<intr, prog, flags>>

\* The allocator's work under the lock (BuddyAllocator's atomic bodies).
body(x) ==
  /\ Op(x) = "body"
  /\ Advance(x)
  /\ UNCHANGED <<lock, intr, prog, flags, holds>>

\* The thread calls an allocator entry point.
call(cpu) ==
  LET x == <<cpu, "thread">> IN
  /\ Active(cpu) = x
  /\ prog[x] = << >>
  /\ \E p \in Programs : prog' = [prog EXCEPT ![x] = p]
  /\ pc' = [pc EXCEPT ![x] = 1]
  /\ UNCHANGED <<lock, intr, flags, holds>>

\* The thread's call returns.
return(cpu) ==
  LET x == <<cpu, "thread">> IN
  /\ Active(cpu) = x
  /\ prog[x] # << >> /\ pc[x] > Len(prog[x])
  /\ prog' = [prog EXCEPT ![x] = << >>]
  /\ pc' = [pc EXCEPT ![x] = 0]
  /\ UNCHANGED <<lock, intr, flags, holds>>

\* An interrupt arrives while the CPU's interrupt flag is set: the gate
\* clears IF and the handler calls an allocator entry point.
interrupt(cpu) ==
  LET x == <<cpu, "irq">> IN
  /\ intr[cpu] = 1
  /\ prog[x] = << >>
  /\ \E p \in Programs : prog' = [prog EXCEPT ![x] = p]
  /\ pc' = [pc EXCEPT ![x] = 1]
  /\ intr' = [intr EXCEPT ![cpu] = 0]
  /\ UNCHANGED <<lock, flags, holds>>

\* The handler returns: iret restores the RFLAGS of the interrupted thread,
\* whose interrupt flag was set.
iret(cpu) ==
  LET x == <<cpu, "irq">> IN
  /\ prog[x] # << >> /\ pc[x] > Len(prog[x])
  /\ prog' = [prog EXCEPT ![x] = << >>]
  /\ pc' = [pc EXCEPT ![x] = 0]
  /\ intr' = [intr EXCEPT ![cpu] = 1]
  /\ UNCHANGED <<lock, flags, holds>>

\* One instruction of the level the CPU is executing.
Step(cpu) ==
  LET x == Active(cpu) IN
  /\ prog[x] # << >> /\ pc[x] <= Len(prog[x])
  /\ \/ local_irq_save(x)
     \/ local_irq_restore(x)
     \/ spin_lock(x)
     \/ spin_unlock(x)
     \/ body(x)

SInit ==
  /\ lock = SPINLOCK_UNLOCKED
  /\ intr = [cpu \in CPUs |-> 1]
  /\ prog = [x \in Ctx |-> << >>]
  /\ pc = [x \in Ctx |-> 0]
  /\ flags = [x \in Ctx |-> 0]
  /\ holds = [x \in Ctx |-> FALSE]

SNext ==
  \E cpu \in CPUs :
    \/ call(cpu)
    \/ Step(cpu)
    \/ return(cpu)
    \/ interrupt(cpu)
    \/ iret(cpu)

\* A CPU keeps executing the level it is on: its steps, returns and iret
\* are weakly fair.  Nothing forces a thread to call the allocator or an
\* interrupt to arrive, and spin_lock's compare-and-swap is not fair among
\* CPUs, so spin_lock only gets weak fairness too.
SFairness == \A cpu \in CPUs : WF_svars(Step(cpu)) /\ WF_svars(return(cpu)) /\ WF_svars(iret(cpu))

SSpec == SInit /\ [][SNext]_svars /\ SFairness

-----------------------------------------------------------------------------
(* Properties.                                                             *)

Waiting(x) == prog[x] # << >> /\ pc[x] <= Len(prog[x]) /\ Op(x) = "spin_lock"

\* Spec section 5: while a context holds buddy_lock its CPU's interrupts
\* are off, so no handler on that CPU can run the allocator against it.
InterruptsOffWhileHeld ==
  \A x \in Ctx : holds[x] => intr[x[1]] = 0

\* No interrupt handler spins on buddy_lock while the thread it preempted
\* on the same CPU holds it (the self-deadlock spin_lock_irqsave exists
\* to prevent).
NoSelfDeadlock ==
  \A cpu \in CPUs : ~(Waiting(<<cpu, "irq">>) /\ holds[<<cpu, "thread">>])

\* Every context that takes buddy_lock eventually releases it: no holder is
\* kept off its CPU forever by a handler spinning on the same lock, so the
\* contexts spinning in spin_lock are never all stuck.
LockReleased ==
  \A x \in Ctx : holds[x] ~> ~holds[x]

=============================================================================
