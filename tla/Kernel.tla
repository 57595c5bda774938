------------------------------- MODULE Kernel -------------------------------
(***************************************************************************)
(* The kernel's own control flow in main.c: kernel_main's boot sequence   *)
(* (kernel_init, create_init_process, then the shell), the interrupt and  *)
(* exception handlers, panic, and the system-call dispatcher.  One CPU    *)
(* runs the boot thread; the entry stubs that call handle_interrupt,      *)
(* handle_exception and do_syscall are not in the repository, so an       *)
(* interrupt arrives whenever the interrupt flag is set, an exception or  *)
(* a system call whenever the CPU is executing code.  The interrupt flag  *)
(* at kernel_main is left by the boot code, and is either value.          *)
(*                                                                         *)
(* printk output is kept as the sequence of lines printed, each line a    *)
(* tuple <<what, argument>>; the lines of one handler or boot step that   *)
(* the properties do not tell apart are one tuple.                        *)
(***************************************************************************)
EXTENDS Naturals, Integers, Sequences

CONSTANTS
  IRQs,         \* interrupt vectors that may arrive, e.g. {0, 1, 5}
  Exceptions,   \* exception vectors that may be raised, e.g. {13, 14}
  SyscallNrs,   \* system-call numbers that may be requested
  MaxJiffies,   \* bound on jiffies_counter (u64: the bound is never 2^64)
  MaxEvents,    \* bound on interrupts, exceptions and system calls taken
  NULL          \* a model value: the null pointer
ENOSYS == 38
TASK_RUNNING == 0
DEFAULT_PRIO == 120          \* MAX_RT_PRIO + NICE_WIDTH / 2

\* si_meminfo's sources.  Nothing in this kernel calls free_area_init or
\* sets mem_map, and buddy_init leaves both counters at their static 0.
total_pages == 0
free_page_count == 0

VARIABLES
  pc,                  \* where the boot thread is
  intr,                \* the interrupt-enable bit of RFLAGS
  jiffies_counter,
  task_allocated,      \* alloc_task_struct's static allocated
  mm_allocated,        \* mm_alloc's static allocated
  init_task,           \* NULL, or the fields of init_task_storage
  current_task,        \* NULL or "init" (points to init_task_storage)
  kernel_initialized,
  sysret,              \* the value the last do_syscall returned, or NULL
  console,             \* the lines printed so far
  events               \* interrupts, exceptions and system calls taken

kvars == <<pc, intr, jiffies_counter, task_allocated, mm_allocated, init_task,
           current_task, kernel_initialized, sysret, console, events>>

\* The boot thread is executing code (not halted in panic or do_exit).
Running == pc \notin {"halted", "exited"}

PrintLine(line) == console' = Append(console, line)

KInit ==
  /\ pc = "kernel_init"
  /\ intr \in {0, 1}
  /\ jiffies_counter = 0
  /\ task_allocated = FALSE /\ mm_allocated = FALSE
  /\ init_task = NULL /\ current_task = NULL
  /\ kernel_initialized = FALSE
  /\ sysret = NULL
  /\ console = << >>
  /\ events = 0

-----------------------------------------------------------------------------
(* panic: print the message, then local_irq_disable and halt forever.     *)

\* The first half of panic(msg), taken from wherever it is called.
Panic(msg) ==
  /\ PrintLine(<<"KERNEL PANIC", msg>>)
  /\ pc' = "panic"

\* (Mutant: panic halts without clearing the interrupt flag.)
panic_haltNoCli ==
  /\ pc = "panic"
  /\ pc' = "halted"
  /\ UNCHANGED <<intr, jiffies_counter, task_allocated, mm_allocated, init_task,
                 current_task, kernel_initialized, sysret, console, events>>

\* local_irq_disable(); for (;;) halt();
panic_halt ==
  /\ pc = "panic"
  /\ pc' = "halted" /\ intr' = 0
  /\ UNCHANGED <<jiffies_counter, task_allocated, mm_allocated, init_task,
                 current_task, kernel_initialized, sysret, console, events>>

-----------------------------------------------------------------------------
(* Boot: kernel_main -> kernel_init -> create_init_process -> shell_run.  *)

\* kernel_init up to mm_init(), which runs buddy_init; then buddy_init()
\* again.  Neither seeds the allocator.
kernel_init_mm ==
  /\ pc = "kernel_init"
  /\ PrintLine(<<"boot", "memory management initialized">>)
  /\ pc' = "buddy_init"
  /\ UNCHANGED <<intr, jiffies_counter, task_allocated, mm_allocated, init_task,
                 current_task, kernel_initialized, sysret, events>>

\* buddy_init() a second time, then sched_init .. driver_init (weak no-op
\* stubs) with their progress lines.
kernel_init_subsystems ==
  /\ pc = "buddy_init"
  /\ PrintLine(<<"boot", "creating init process">>)
  /\ pc' = "create_init_process"
  /\ UNCHANGED <<intr, jiffies_counter, task_allocated, mm_allocated, init_task,
                 current_task, kernel_initialized, sysret, events>>

\* (Mutant: the placeholder alloc_task_struct that always returns NULL.)
alloc_task_structNull == NULL

\* get_jiffies_64 and update_jiffies_internal: the reader and the
\* increment of jiffies_counter.
get_jiffies_64 == jiffies_counter
update_jiffies_internal == jiffies_counter' = jiffies_counter + 1

\* alloc_task_struct / mm_alloc: the static storage the first time, NULL
\* after.
alloc_task_struct == IF task_allocated THEN NULL ELSE "init_task_storage"
mm_alloc == IF mm_allocated THEN NULL ELSE "init_mm_storage"

\* The fields create_init_process sets on the zeroed storage (the uids,
\* gids, comm, priorities and CPU mask are constants and left out).
InitFields(mm) ==
  [pid |-> 1, tgid |-> 1, ppid |-> 0, pgrp |-> 1, session |-> 1,
   mm |-> mm, active_mm |-> mm, state |-> TASK_RUNNING, prio |-> DEFAULT_PRIO,
   real_parent |-> "init", parent |-> "init", group_leader |-> "init",
   start_time |-> get_jiffies_64, real_start_time |-> get_jiffies_64]

\* create_init_process: panics if either allocation fails, else fills in
\* the task; kernel_init stores it in init_task.
create_init_process ==
  /\ pc = "create_init_process"
  /\ task_allocated' = TRUE
  /\ IF alloc_task_struct = NULL
     THEN Panic("Cannot allocate init task") /\ UNCHANGED <<mm_allocated, init_task>>
     ELSE /\ mm_allocated' = TRUE
          /\ IF mm_alloc = NULL
             THEN Panic("Cannot allocate init mm") /\ UNCHANGED init_task
             ELSE /\ init_task' = InitFields(mm_alloc)
                  /\ pc' = "set_current"
                  /\ UNCHANGED console
  /\ UNCHANGED <<intr, jiffies_counter, current_task, kernel_initialized, sysret, events>>

\* The rest of kernel_init: set_current(init_task), wake_up_new_task (a
\* no-op stub), kernel_initialized = true.
kernel_init_done ==
  /\ pc = "set_current"
  /\ current_task' = "init"
  /\ kernel_initialized' = TRUE
  /\ PrintLine(<<"boot", "kernel initialization complete">>)
  /\ pc' = "shell"
  /\ UNCHANGED <<intr, jiffies_counter, task_allocated, mm_allocated, init_task,
                 sysret, events>>

\* In "shell" the thread runs shell_run -> shell_init's loop, which never
\* returns (Shell models it); kernel_main's panic after it is unreachable.

-----------------------------------------------------------------------------
(* Interrupts and exceptions.                                              *)

\* (Mutant: the tick is counted twice, once more by scheduler_tick.)
timer_interrupt_handlerTwice == jiffies_counter' = jiffies_counter + 2

\* timer_interrupt_handler: update_jiffies_internal; scheduler_tick and
\* run_timer_softirq are no-op stubs.
timer_interrupt_handler == update_jiffies_internal

\* keyboard_interrupt_handler: inb(0x60) and the no-op stub
\* handle_keyboard_input.
keyboard_interrupt_handler == UNCHANGED jiffies_counter

\* The lines handle_interrupt prints: the IRQ, and for a number its switch
\* has no case for, "Unknown interrupt".
IrqLines(irq) ==
  <<<<"IRQ", irq>>>> \o (IF irq \in {0, 1} THEN << >> ELSE <<<<"Unknown interrupt", irq>>>>)

\* handle_interrupt(irq), with interrupts off for the handler (interrupt
\* gate).  IRQ 0 runs the timer handler; IRQ 1 and any other number leave
\* the state alone (keyboard_interrupt_handler, or the default case).
handle_interrupt(irq) ==
  /\ intr = 1 /\ events < MaxEvents
  /\ irq = 0 => jiffies_counter < MaxJiffies
  /\ events' = events + 1
  /\ console' = console \o IrqLines(irq)
  /\ IF irq = 0 THEN timer_interrupt_handler ELSE keyboard_interrupt_handler
  /\ UNCHANGED <<pc, intr, task_allocated, mm_allocated, init_task, current_task,
                 kernel_initialized, sysret>>

\* handle_page_fault: prints the faulting address (CR2, abstracted to the
\* error code) and calls the no-op stub do_page_fault.
handle_page_fault(e) == <<"Page fault", e>>

\* The line of handle_exception's switch for a vector it does not send to
\* handle_page_fault.
ExceptionName(e) ==
  CASE e = 0  -> "Division by zero"
    [] e = 6  -> "Invalid instruction"
    [] e = 13 -> "General protection fault"
    [] OTHER  -> "Unknown exception"

\* handle_exception(exception, error_code): 14 goes to handle_page_fault
\* and returns; every other vector prints its line and panics.
handle_exception(e) ==
  /\ Running /\ pc # "panic" /\ events < MaxEvents
  /\ events' = events + 1
  /\ IF e = 14
     THEN console' = console \o <<<<"Exception", e>>, handle_page_fault(e)>> /\ UNCHANGED pc
     ELSE /\ console' = console \o <<<<"Exception", e>>, <<ExceptionName(e), e>>,
                                    <<"KERNEL PANIC", "Unhandled exception in kernel">>>>
          /\ pc' = "panic"
  /\ UNCHANGED <<intr, jiffies_counter, task_allocated, mm_allocated, init_task,
                 current_task, kernel_initialized, sysret>>

-----------------------------------------------------------------------------
(* System calls.                                                           *)

\* The numbers do_syscall's switch has a case for.
Dispatched == {0, 1, 2, 3, 9, 11, 12, 24, 39, 56, 57, 58, 59, 60, 61, 62, 63, 99}

\* The value do_syscall returns for nr: sys_getpid reads current_task;
\* sched_yield (yield is a no-op stub), sysinfo and uname succeed
\* (copy_to_user always returns 0); everything else, implemented as a
\* weak stub or not at all, is -ENOSYS.
SyscallResult(nr) ==
  CASE nr = 39 -> IF current_task = NULL THEN 0 ELSE init_task.pid
    [] nr \in {24, 63, 99} -> 0
    [] OTHER -> -ENOSYS

\* do_syscall(nr, ...) entered from the running code.  sys_exit calls
\* do_exit, which halts forever with the interrupt flag as it is.
do_syscall(nr) ==
  /\ Running /\ pc # "panic" /\ events < MaxEvents
  /\ events' = events + 1
  /\ IF nr = 60
     THEN pc' = "exited" /\ UNCHANGED <<sysret, console>>
     ELSE /\ sysret' = SyscallResult(nr)
          /\ CASE nr >= 256 -> PrintLine(<<"Invalid syscall number", nr>>)
               [] nr \in Dispatched -> UNCHANGED console
               [] OTHER -> PrintLine(<<"Unimplemented syscall", nr>>)
          /\ UNCHANGED pc
  /\ UNCHANGED <<intr, jiffies_counter, task_allocated, mm_allocated, init_task,
                 current_task, kernel_initialized>>

-----------------------------------------------------------------------------

KNext ==
  \/ kernel_init_mm \/ kernel_init_subsystems \/ create_init_process
  \/ kernel_init_done \/ panic_halt
  \/ \E irq \in IRQs : handle_interrupt(irq)
  \/ \E e \in Exceptions : handle_exception(e)
  \/ \E nr \in SyscallNrs : do_syscall(nr)

\* The boot thread keeps running: each of its steps is weakly fair.
\* Interrupts, exceptions and system calls come from outside and need not
\* happen.
BootThread == kernel_init_mm \/ kernel_init_subsystems \/ create_init_process
              \/ kernel_init_done \/ panic_halt

KSpec == KInit /\ [][KNext]_kvars /\ WF_kvars(BootThread)

-----------------------------------------------------------------------------
(* Properties.                                                             *)

Lines == {"boot", "KERNEL PANIC", "IRQ", "Unknown interrupt", "Exception", "Page fault",
          "Division by zero", "Invalid instruction", "General protection fault", "Unknown exception",
          "Invalid syscall number", "Unimplemented syscall"}

KTypeOK ==
  /\ pc \in {"kernel_init", "buddy_init", "create_init_process", "set_current",
             "shell", "panic", "halted", "exited"}
  /\ intr \in {0, 1}
  /\ jiffies_counter \in 0 .. MaxJiffies
  /\ task_allocated \in BOOLEAN /\ mm_allocated \in BOOLEAN
  /\ current_task \in {NULL, "init"}
  /\ kernel_initialized \in BOOLEAN
  /\ sysret \in {NULL} \cup Int
  /\ \A i \in DOMAIN console : console[i][1] \in Lines
  /\ events \in 0 .. MaxEvents

\* After panic has halted the CPU, nothing happens any more: no interrupt
\* handler runs, prints a line or advances jiffies_counter, because panic
\* cleared the interrupt flag before its halt loop.
PanicIsFinal == [][pc = "halted" => UNCHANGED kvars]_kvars

\* kernel_main eventually reaches the shell, unless an exception other
\* than a page fault panics the kernel or a system call exits first;
\* create_init_process's own panics never happen on this path.
BootCompletes ==
  <>(\/ kernel_initialized
     \/ pc = "exited"
     \/ \E i \in DOMAIN console : console[i] = <<"KERNEL PANIC", "Unhandled exception in kernel">>)

=============================================================================
