------------------------------- MODULE RWLock -------------------------------
(***************************************************************************)
(* The read-write lock of spinlock.h: read_lock, read_unlock, write_lock, *)
(* write_unlock, read_trylock and write_trylock, each broken into its     *)
(* atomic memory operations.  lock->lock is the writer bit, lock->readers  *)
(* the reader count; the __sync operations are locked instructions and    *)
(* full barriers on x86, so the steps interleave sequentially.  Every     *)
(* context calls the lock repeatedly; the *_irqsave forms only add the    *)
(* interrupt discipline that Spinlock models.                             *)
(***************************************************************************)
EXTENDS Naturals, FiniteSets

CONSTANTS Readers, Writers

VARIABLES
  wbit,     \* lock->lock
  readers,  \* lock->readers
  rpc,      \* rpc[r]: where reader r is
  wpc       \* wpc[w]: where writer w is

rwvars == <<wbit, readers, rpc, wpc>>

\* The reader positions at which r has incremented lock->readers and not
\* yet decremented it again.
Counted == {"check", "cs", "try_check", "try_undo", "undo"}

-----------------------------------------------------------------------------
(* Readers.                                                                *)

\* A reader calls read_lock or read_trylock.
read_lock(r)    == rpc[r] = "idle" /\ rpc' = [rpc EXCEPT ![r] = "wait"] /\ UNCHANGED <<wbit, readers, wpc>>
read_trylock(r) == rpc[r] = "idle" /\ rpc' = [rpc EXCEPT ![r] = "try"] /\ UNCHANGED <<wbit, readers, wpc>>

\* (Mutant: the first loop is dropped, readers increment at once.)
read_lock_waitNoSpin(r) ==
  /\ rpc[r] = "wait"
  /\ rpc' = [rpc EXCEPT ![r] = "inc"]
  /\ UNCHANGED <<wbit, readers, wpc>>

\* read_lock: while (lock->lock) cpu_relax(); then the increment.
read_lock_wait(r) ==
  /\ rpc[r] = "wait" /\ wbit = 0
  /\ rpc' = [rpc EXCEPT ![r] = "inc"]
  /\ UNCHANGED <<wbit, readers, wpc>>

read_lock_inc(r) ==
  /\ rpc[r] = "inc"
  /\ readers' = readers + 1
  /\ rpc' = [rpc EXCEPT ![r] = "check"]
  /\ UNCHANGED <<wbit, wpc>>

\* (Mutant: the reader enters without re-reading the writer bit.)
read_lock_checkNoRecheck(r) ==
  /\ rpc[r] = "check"
  /\ rpc' = [rpc EXCEPT ![r] = "cs"]
  /\ UNCHANGED <<wbit, readers, wpc>>

\* if (!lock->lock) break; otherwise back off.
read_lock_check(r) ==
  /\ rpc[r] = "check"
  /\ rpc' = [rpc EXCEPT ![r] = IF wbit = 0 THEN "cs" ELSE "undo"]
  /\ UNCHANGED <<wbit, readers, wpc>>

read_lock_undo(r) ==
  /\ rpc[r] = "undo"
  /\ readers' = readers - 1
  /\ rpc' = [rpc EXCEPT ![r] = "wait"]
  /\ UNCHANGED <<wbit, wpc>>

\* read_trylock: give up at once if a writer holds the bit, else
\* increment, re-check, and undo the increment on a late writer.
read_trylock_test(r) ==
  /\ rpc[r] = "try"
  /\ rpc' = [rpc EXCEPT ![r] = IF wbit # 0 THEN "idle" ELSE "try_inc"]
  /\ UNCHANGED <<wbit, readers, wpc>>

read_trylock_inc(r) ==
  /\ rpc[r] = "try_inc"
  /\ readers' = readers + 1
  /\ rpc' = [rpc EXCEPT ![r] = "try_check"]
  /\ UNCHANGED <<wbit, wpc>>

read_trylock_check(r) ==
  /\ rpc[r] = "try_check"
  /\ rpc' = [rpc EXCEPT ![r] = IF wbit # 0 THEN "try_undo" ELSE "cs"]
  /\ UNCHANGED <<wbit, readers, wpc>>

\* (Mutant: the failed trylock forgets to take its increment back.)
read_trylock_undoNoDec(r) ==
  /\ rpc[r] = "try_undo"
  /\ rpc' = [rpc EXCEPT ![r] = "idle"]
  /\ UNCHANGED <<wbit, readers, wpc>>

read_trylock_undo(r) ==
  /\ rpc[r] = "try_undo"
  /\ readers' = readers - 1
  /\ rpc' = [rpc EXCEPT ![r] = "idle"]
  /\ UNCHANGED <<wbit, wpc>>

\* read_unlock: the decrement.
read_unlock(r) ==
  /\ rpc[r] = "cs"
  /\ readers' = readers - 1
  /\ rpc' = [rpc EXCEPT ![r] = "idle"]
  /\ UNCHANGED <<wbit, wpc>>

-----------------------------------------------------------------------------
(* Writers.                                                                *)

write_lock(w)    == wpc[w] = "idle" /\ wpc' = [wpc EXCEPT ![w] = "cas"] /\ UNCHANGED <<wbit, readers, rpc>>
write_trylock(w) == wpc[w] = "idle" /\ wpc' = [wpc EXCEPT ![w] = "try"] /\ UNCHANGED <<wbit, readers, rpc>>

\* write_lock: spin until the compare-and-swap of the bit from 0 to 1 wins
\* (a failed one changes nothing), then wait for the readers to drain.
write_lock_cas(w) ==
  /\ wpc[w] = "cas" /\ wbit = 0
  /\ wbit' = 1
  /\ wpc' = [wpc EXCEPT ![w] = "drain"]
  /\ UNCHANGED <<readers, rpc>>

write_lock_drain(w) ==
  /\ wpc[w] = "drain" /\ readers = 0
  /\ wpc' = [wpc EXCEPT ![w] = "cs"]
  /\ UNCHANGED <<wbit, readers, rpc>>

\* write_trylock: one compare-and-swap; with readers present, put the bit
\* back and fail.
write_trylock_cas(w) ==
  /\ wpc[w] = "try"
  /\ IF wbit = 0 THEN wbit' = 1 /\ wpc' = [wpc EXCEPT ![w] = "try_check"]
                 ELSE wpc' = [wpc EXCEPT ![w] = "idle"] /\ UNCHANGED wbit
  /\ UNCHANGED <<readers, rpc>>

write_trylock_check(w) ==
  /\ wpc[w] = "try_check"
  /\ IF readers > 0 THEN wbit' = 0 /\ wpc' = [wpc EXCEPT ![w] = "idle"]
                    ELSE wpc' = [wpc EXCEPT ![w] = "cs"] /\ UNCHANGED wbit
  /\ UNCHANGED <<readers, rpc>>

\* write_unlock: a barrier, then the store of 0.
write_unlock(w) ==
  /\ wpc[w] = "cs"
  /\ wbit' = 0
  /\ wpc' = [wpc EXCEPT ![w] = "idle"]
  /\ UNCHANGED <<readers, rpc>>

-----------------------------------------------------------------------------

RWInit ==
  /\ wbit = 0 /\ readers = 0
  /\ rpc = [r \in Readers |-> "idle"]
  /\ wpc = [w \in Writers |-> "idle"]

\* The steps of a reader or writer inside a call; calling is its choice.
ReaderStep(r) ==
  \/ read_lock_wait(r) \/ read_lock_inc(r) \/ read_lock_check(r) \/ read_lock_undo(r)
  \/ read_trylock_test(r) \/ read_trylock_inc(r) \/ read_trylock_check(r)
  \/ read_trylock_undo(r) \/ read_unlock(r)

WriterStep(w) ==
  \/ write_lock_cas(w) \/ write_lock_drain(w)
  \/ write_trylock_cas(w) \/ write_trylock_check(w) \/ write_unlock(w)

RWNext ==
  \/ \E r \in Readers : read_lock(r) \/ read_trylock(r) \/ ReaderStep(r)
  \/ \E w \in Writers : write_lock(w) \/ write_trylock(w) \/ WriterStep(w)

\* Each CPU keeps executing its call: every step inside a call is weakly
\* fair.  Spinning compare-and-swaps and reads are not fair among CPUs.
RWFairness ==
  /\ \A r \in Readers : WF_rwvars(ReaderStep(r))
  /\ \A w \in Writers : WF_rwvars(WriterStep(w))

RWSpec == RWInit /\ [][RWNext]_rwvars /\ RWFairness

-----------------------------------------------------------------------------
(* Properties.                                                             *)

\* A writer inside its critical section excludes every reader and every
\* other writer, whatever the interleaving of the reader's increment and
\* re-check with the writer's compare-and-swap and drain loop.
RWExclusion ==
  \A w \in Writers :
    wpc[w] = "cs" =>
      /\ \A r \in Readers : rpc[r] # "cs"
      /\ \A v \in Writers \ {w} : wpc[v] # "cs"

\* lock->readers counts exactly the readers between their increment and
\* their decrement, on every path of read_lock and read_trylock.
ReadersCounted ==
  readers = Cardinality({r \in Readers : rpc[r] \in Counted})

\* A writer that owns the bit is never starved by readers: readers that
\* arrive later wait in read_lock's first loop, and those already counted
\* back off, so write_lock's drain loop eventually sees zero.
WriterNotStarvedByReaders ==
  \A w \in Writers : wpc[w] = "drain" ~> wpc[w] = "cs"

=============================================================================
