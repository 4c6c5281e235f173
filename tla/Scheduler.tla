------------------------------ MODULE Scheduler ------------------------------
(***************************************************************************)
(* The preemptive round-robin scheduler of the kernel (sched.rs), driven   *)
(* by the 1 kHz timer interrupt (interrupts.rs), on the one CPU it runs on.*)
(*                                                                         *)
(* Task code runs when phase = "none".  schedule() and the tail of         *)
(* terminate_current() run with interrupts off, so nothing interleaves     *)
(* with them; their loops are nevertheless modelled one iteration at a     *)
(* time (phases "wake", "pick" and "exit"), because the loops are where    *)
(* the queue discipline can go wrong.  Everything else is one atomic step  *)
(* per stretch of code between two points where an interrupt can be taken. *)
(***************************************************************************)
EXTENDS Naturals, Sequences, FiniteSets

CONSTANTS
  MaxTasks,       \* MAX_TASKS of sched.rs: the capacity of the task table
  SpawnRequests,  \* how many times kernel_main calls spawn() (2 in main.rs)
  MaxTicks,       \* bound: TICKS counts up to here, later ticks only schedule
  MaxSleep,       \* bound: the largest argument of sleep_ms()
  MaxRearms       \* bound: how often the watchdog of task 0 fires

ASSUME SchedulerConstants ==
  /\ MaxTasks \in Nat \ {0}
  /\ SpawnRequests \in Nat
  /\ MaxTicks \in Nat
  /\ MaxSleep \in Nat
  /\ MaxRearms \in Nat

Id == 0 .. MaxTasks - 1

\* SYS_KSTACK_TOP before the first switch: no task's stack.
NoStack == MaxTasks

VARIABLES
  \* struct SchedulerInner
  ntasks,     \* tasks.len(); 0 until init() has run (INIT_DONE)
  state,      \* tasks[id].state, its constructor
  wake,       \* the tick carried by Sleeping(tick)
  ready,      \* VecDeque of task ids
  sleepers,   \* Vec of (id, target)
  current,
  \* interrupts.rs, gdt.rs, syscall.rs
  ticks,      \* TICKS
  rsp0,       \* whose kernel stack TSS.rsp0 points at
  sysKstack,  \* whose kernel stack SYS_KSTACK_TOP points at
  \* the CPU and the contexts of the tasks
  phase,      \* "none", or the part of the scheduler that is running
  idx,        \* loop variable of the wake loop (1-based)
  pc,         \* where each task's own code is
  intr,       \* each task's interrupt flag (saved with its context)
  target,     \* sleep_until's argument, a local of the sleeping task
  requests,   \* spawn() calls made so far
  rearms      \* watchdog firings so far

tableVars == <<ntasks, requests>>
schedVars == <<state, wake, ready, sleepers, current>>
stackVars == <<rsp0, sysKstack>>
handlerVars == <<phase, idx>>
taskVars == <<pc, intr, target>>
clockVars == <<ticks, rearms>>
vars == <<tableVars, schedVars, stackVars, handlerVars, taskVars, clockVars>>

-----------------------------------------------------------------------------
(* Helpers *)

\* u64::max(ms, 1) of sleep_ms.
AtLeastOne(ms) == IF ms = 0 THEN 1 ELSE ms

SleeperEntry == [id : Id, tick : 0 .. MaxTicks]
Sleeper(id, tick) == [id |-> id, tick |-> tick]

\* Vec::swap_remove: the last element takes the place of the removed one.
SwapRemove(s, i) ==
  [k \in 1 .. Len(s) - 1 |-> IF k = i THEN s[Len(s)] ELSE s[k]]

Init ==
  /\ ntasks = 0
  /\ state = [id \in Id |-> "None"]
  /\ wake = [id \in Id |-> 0]
  /\ ready = << >>
  /\ sleepers = << >>
  /\ current = 0
  /\ ticks = 0
  /\ rsp0 = 0
  /\ sysKstack = NoStack
  /\ phase = "none"
  /\ idx = 1
  /\ pc = [id \in Id |-> IF id = 0 THEN "boot" ELSE "none"]
  /\ intr = [id \in Id |-> id = 0]
  /\ target = [id \in Id |-> 0]
  /\ requests = 0
  /\ rearms = 0

-----------------------------------------------------------------------------
(* Task 0: kernel_main after the drivers are up *)

\* init(): task 0 enters the table and, although it is running, the queue.
SchedInit ==
  /\ phase = "none" /\ current = 0 /\ pc[0] = "boot" /\ ntasks = 0
  /\ ntasks' = 1
  /\ state' = [state EXCEPT ![0] = "Ready"]
  /\ ready' = Append(ready, 0)
  /\ UNCHANGED <<wake, sleepers, current, requests, stackVars, handlerVars,
                 taskVars, clockVars>>

\* spawn() when the table is full returns u32::MAX; main.rs ignores it.
SpawnFull ==
  /\ phase = "none" /\ current = 0 /\ pc[0] = "boot"
  /\ ntasks >= MaxTasks /\ requests < SpawnRequests
  /\ requests' = requests + 1
  /\ UNCHANGED <<ntasks, schedVars, stackVars, handlerVars, taskVars, clockVars>>

\* Mutant of Spawn: the capacity test lets one task too many in.
SpawnOffByOne ==
  /\ phase = "none" /\ current = 0 /\ pc[0] = "boot"
  /\ ntasks \in 1 .. MaxTasks /\ requests < SpawnRequests
  /\ ntasks' = ntasks + 1
  /\ requests' = requests + 1
  /\ state' = [state EXCEPT ![ntasks] = "Ready"]
  /\ ready' = Append(ready, ntasks)
  /\ pc' = [pc EXCEPT ![ntasks] = "run"]
  /\ intr' = [intr EXCEPT ![ntasks] = FALSE]
  /\ UNCHANGED <<wake, sleepers, current, target, stackVars, handlerVars,
                 clockVars>>

\* spawn(): the new task starts, with interrupts still off, when the timer
\* interrupt of another task switches to it and context_switch returns to
\* its entry.
Spawn ==
  /\ phase = "none" /\ current = 0 /\ pc[0] = "boot"
  /\ ntasks \in 1 .. MaxTasks - 1 /\ requests < SpawnRequests
  /\ ntasks' = ntasks + 1
  /\ requests' = requests + 1
  /\ state' = [state EXCEPT ![ntasks] = "Ready"]
  /\ ready' = Append(ready, ntasks)
  /\ pc' = [pc EXCEPT ![ntasks] = "run"]
  /\ intr' = [intr EXCEPT ![ntasks] = FALSE]
  /\ UNCHANGED <<wake, sleepers, current, target, stackVars, handlerVars,
                 clockVars>>

\* The last spawn() is done: task 0 becomes the idle loop around sti; hlt.
EnterIdle ==
  /\ phase = "none" /\ current = 0 /\ pc[0] = "boot"
  /\ ntasks > 0 /\ requests = SpawnRequests
  /\ pc' = [pc EXCEPT ![0] = "idle"]
  /\ UNCHANGED <<tableVars, schedVars, stackVars, handlerVars, intr, target,
                 clockVars>>

\* The idle loop has seen no tick for 3e9 TSC cycles: rearm() reprograms the
\* timer and resets TICKS, whatever targets the sleepers wait for.
Rearm ==
  /\ phase = "none" /\ current = 0 /\ pc[0] = "idle"
  /\ rearms < MaxRearms
  /\ rearms' = rearms + 1
  /\ ticks' = 0
  /\ UNCHANGED <<tableVars, schedVars, stackVars, handlerVars, taskVars>>

-----------------------------------------------------------------------------
(* Spawned tasks: demo_count sleeps in a loop; the init task enters ring 3, *)
(* makes system calls and may exit.  Any spawned task may do either.        *)

\* The running task takes a step of its own code.
Runs(c) == phase = "none" /\ current = c /\ c # 0 /\ pc[c] = "run"

\* iretq into ring 3 (enter_user_mode) and sysretq set IF.
EnableInterrupts(c) ==
  /\ Runs(c) /\ ~intr[c]
  /\ intr' = [intr EXCEPT ![c] = TRUE]
  /\ UNCHANGED <<tableVars, schedVars, stackVars, handlerVars, pc, target,
                 clockVars>>

\* syscall: SFMASK clears IF, the kernel runs on the stack SYS_KSTACK_TOP.
SyscallEntry(c) ==
  /\ Runs(c) /\ intr[c]
  /\ intr' = [intr EXCEPT ![c] = FALSE]
  /\ UNCHANGED <<tableVars, schedVars, stackVars, handlerVars, pc, target,
                 clockVars>>

\* sleep_ms: reads TICKS; a timer interrupt can be taken before sleep_until.
SleepMs(c, ms) ==
  /\ Runs(c)
  /\ ticks + AtLeastOne(ms) <= MaxTicks
  /\ target' = [target EXCEPT ![c] = ticks + AtLeastOne(ms)]
  /\ pc' = [pc EXCEPT ![c] = "arm"]
  /\ UNCHANGED <<tableVars, schedVars, stackVars, handlerVars, intr, clockVars>>

\* Mutant of SleepUntil: hlt without sti.
SleepUntilNoSti(c) ==
  /\ phase = "none" /\ current = c /\ pc[c] = "arm"
  /\ state' = [state EXCEPT ![c] = "Sleeping"]
  /\ wake' = [wake EXCEPT ![c] = target[c]]
  /\ sleepers' = Append(sleepers, Sleeper(c, target[c]))
  /\ pc' = [pc EXCEPT ![c] = "halted"]
  /\ UNCHANGED <<tableVars, ready, current, intr, target, stackVars,
                 handlerVars, clockVars>>

\* sleep_until: the locked section, then enable_and_hlt.
SleepUntil(c) ==
  /\ phase = "none" /\ current = c /\ pc[c] = "arm"
  /\ state' = [state EXCEPT ![c] = "Sleeping"]
  /\ wake' = [wake EXCEPT ![c] = target[c]]
  /\ sleepers' = Append(sleepers, Sleeper(c, target[c]))
  /\ pc' = [pc EXCEPT ![c] = "halted"]
  /\ intr' = [intr EXCEPT ![c] = TRUE]
  /\ UNCHANGED <<tableVars, ready, current, target, stackVars, handlerVars,
                 clockVars>>

\* sleep_until after an interrupt ended the hlt: leave, or halt again.
Recheck(c) ==
  /\ phase = "none" /\ current = c /\ pc[c] = "check"
  /\ pc' = [pc EXCEPT ![c] = IF ticks >= target[c] THEN "run" ELSE "halted"]
  /\ UNCHANGED <<tableVars, schedVars, stackVars, handlerVars, intr, target,
                 clockVars>>

\* terminate_current, up to its loop over the ready queue (system call 2).
Exit(c) ==
  /\ Runs(c)
  /\ state' = [state EXCEPT ![c] = "Dead"]
  /\ pc' = [pc EXCEPT ![c] = "dead"]
  /\ phase' = "exit"
  /\ UNCHANGED <<tableVars, wake, ready, sleepers, current, stackVars, idx,
                 intr, target, clockVars>>

-----------------------------------------------------------------------------
(* Interrupts *)

\* An interrupt, once handled, resumes a halted CPU after its hlt.
Resumed == [pc EXCEPT ![current] = IF @ = "halted" THEN "check" ELSE @]

\* The keyboard's or the serial port's interrupt.
DeviceInterrupt ==
  /\ phase = "none" /\ intr[current] /\ pc[current] = "halted"
  /\ pc' = Resumed
  /\ UNCHANGED <<tableVars, schedVars, stackVars, handlerVars, intr, target,
                 clockVars>>

\* timer_interrupt_handler, up to the wake loop of schedule(); before init()
\* schedule() returns at once.
Timer ==
  /\ phase = "none" /\ intr[current]
  /\ ticks' = IF ticks < MaxTicks THEN ticks + 1 ELSE ticks
  /\ pc' = Resumed
  /\ IF ntasks > 0
       THEN phase' = "wake" /\ idx' = 1
       ELSE UNCHANGED handlerVars
  /\ UNCHANGED <<tableVars, schedVars, stackVars, intr, target, rearms>>

-----------------------------------------------------------------------------
(* schedule() and the tail of terminate_current(), interrupts off *)

\* Mutant of WakeDue: steps over the entry swap_remove moved into the hole.
WakeDueStepOver ==
  /\ phase = "wake" /\ idx <= Len(sleepers)
  /\ sleepers[idx].tick <= ticks
  /\ LET s == sleepers[idx] IN
       /\ sleepers' = SwapRemove(sleepers, idx)
       /\ IF state[s.id] = "Sleeping" /\ wake[s.id] = s.tick
            THEN /\ state' = [state EXCEPT ![s.id] = "Ready"]
                 /\ ready' = Append(ready, s.id)
            ELSE UNCHANGED <<state, ready>>
  /\ idx' = idx + 1
  /\ UNCHANGED <<tableVars, wake, current, stackVars, phase, taskVars,
                 clockVars>>

\* A sleeper whose tick has come is removed from the list; its task becomes
\* ready unless the entry is stale (the task died or sleeps for another tick).
WakeDue ==
  /\ phase = "wake" /\ idx <= Len(sleepers)
  /\ sleepers[idx].tick <= ticks
  /\ LET s == sleepers[idx] IN
       /\ sleepers' = SwapRemove(sleepers, idx)
       /\ IF state[s.id] = "Sleeping" /\ wake[s.id] = s.tick
            THEN /\ state' = [state EXCEPT ![s.id] = "Ready"]
                 /\ ready' = Append(ready, s.id)
            ELSE UNCHANGED <<state, ready>>
  /\ UNCHANGED <<tableVars, wake, current, stackVars, handlerVars, taskVars,
                 clockVars>>

WakeSkip ==
  /\ phase = "wake" /\ idx <= Len(sleepers)
  /\ sleepers[idx].tick > ticks
  /\ idx' = idx + 1
  /\ UNCHANGED <<tableVars, schedVars, stackVars, phase, taskVars, clockVars>>

\* Mutant of Requeue: the interrupted task is not put back.
RequeueForgotten ==
  /\ phase = "wake" /\ idx > Len(sleepers)
  /\ phase' = "pick"
  /\ UNCHANGED <<tableVars, schedVars, stackVars, idx, taskVars, clockVars>>

\* Mutant of Requeue: the interrupted task is put back whatever its state.
RequeueAlways ==
  /\ phase = "wake" /\ idx > Len(sleepers)
  /\ ready' = Append(ready, current)
  /\ phase' = "pick"
  /\ UNCHANGED <<tableVars, state, wake, sleepers, current, stackVars, idx,
                 taskVars, clockVars>>

\* The end of the wake loop: a current task still ready goes to the back.
Requeue ==
  /\ phase = "wake" /\ idx > Len(sleepers)
  /\ ready' = IF state[current] = "Ready" THEN Append(ready, current) ELSE ready
  /\ phase' = "pick"
  /\ UNCHANGED <<tableVars, state, wake, sleepers, current, stackVars, idx,
                 taskVars, clockVars>>

\* Mutant of Skipped: only sleepers are passed over, not the dead.
SkippedSleepers(id) == state[id] = "Sleeping"

\* What the pop loops of schedule() and terminate_current() pass over.
Skipped(id) == id = current \/ state[id] # "Ready"

PickSkip ==
  /\ phase \in {"pick", "exit"} /\ ready # << >>
  /\ Skipped(Head(ready))
  /\ ready' = Tail(ready)
  /\ UNCHANGED <<tableVars, state, wake, sleepers, current, stackVars,
                 handlerVars, taskVars, clockVars>>

\* Mutant of LoadStacks: the system call entry keeps the old task's stack.
LoadStacksRsp0Only(id) ==
  /\ rsp0' = id
  /\ UNCHANGED sysKstack

\* set_rsp0 and set_kstack_top for the task the CPU is given to.
LoadStacks(id) ==
  /\ rsp0' = id
  /\ sysKstack' = id

\* The switch: the first entry the loop does not pass over gets the CPU and
\* continues in its saved context, with its saved interrupt flag.
Dispatch ==
  /\ phase \in {"pick", "exit"} /\ ready # << >>
  /\ ~Skipped(Head(ready))
  /\ current' = Head(ready)
  /\ ready' = Tail(ready)
  /\ LoadStacks(Head(ready))
  /\ phase' = "none"
  /\ UNCHANGED <<tableVars, state, wake, sleepers, idx, taskVars, clockVars>>

\* The queue is empty.  schedule(): nobody else is ready, the interrupted task
\* continues.  terminate_current(): hlt for ever with interrupts off.
PickNone ==
  /\ phase \in {"pick", "exit"} /\ ready = << >>
  /\ phase' = IF phase = "pick" THEN "none" ELSE "stuck"
  /\ UNCHANGED <<tableVars, schedVars, stackVars, idx, taskVars, clockVars>>

-----------------------------------------------------------------------------
Boot == SchedInit \/ SpawnFull \/ Spawn \/ EnterIdle

TaskStep(c) ==
  \/ EnableInterrupts(c)
  \/ SyscallEntry(c)
  \/ \E ms \in 0 .. MaxSleep : SleepMs(c, ms)
  \/ SleepUntil(c)
  \/ Recheck(c)
  \/ Exit(c)

Handler == WakeDue \/ WakeSkip \/ Requeue \/ PickSkip \/ Dispatch \/ PickNone

Next ==
  \/ Boot
  \/ Rearm
  \/ \E c \in Id : TaskStep(c)
  \/ DeviceInterrupt
  \/ Timer
  \/ Handler

Spec == Init /\ [][Next]_vars

(***************************************************************************)
(* Interrupt-free kernel code is straight-line and ends: the boot code,    *)
(* the handler and a task that runs with IF = 0 are weakly fair.  No task  *)
(* need sleep, make a system call or exit, and no device need interrupt.   *)
(* Two strong fairness assumptions: the local APIC latches a timer         *)
(* interrupt that arrives while IF = 0 and delivers it when IF is set,     *)
(* however short a time that lasts; and a task that gets the CPU again and *)
(* again executes the few instructions of sleep_until at last, the timer   *)
(* period being 1 ms.                                                      *)
(***************************************************************************)
Fairness ==
  /\ WF_vars(Boot)
  /\ WF_vars(Handler)
  /\ SF_vars(Timer)
  /\ \A c \in Id :
       /\ WF_vars(EnableInterrupts(c))
       /\ SF_vars(SleepUntil(c))
       /\ SF_vars(Recheck(c))

FairSpec == Spec /\ Fairness

-----------------------------------------------------------------------------
(* Properties *)

TypeOK ==
  /\ ntasks \in 0 .. MaxTasks
  /\ requests \in 0 .. SpawnRequests
  /\ state \in [Id -> {"None", "Ready", "Sleeping", "Dead"}]
  /\ wake \in [Id -> 0 .. MaxTicks]
  /\ ready \in Seq(Id)
  /\ sleepers \in Seq(SleeperEntry)
  /\ current \in Id
  /\ rsp0 \in Id
  /\ sysKstack \in Id \cup {NoStack}
  /\ phase \in {"none", "wake", "pick", "exit", "stuck"}
  /\ idx \in 1 .. Len(sleepers) + 1
  /\ pc \in [Id -> {"none", "boot", "idle", "run", "arm", "halted", "check", "dead"}]
  /\ intr \in [Id -> BOOLEAN]
  /\ target \in [Id -> 0 .. MaxTicks]
  /\ ticks \in 0 .. MaxTicks
  /\ rearms \in 0 .. MaxRearms

Queued(id) == \E k \in 1 .. Len(ready) : ready[k] = id
Listed(id) == \E k \in 1 .. Len(sleepers) : sleepers[k] = Sleeper(id, wake[id])

(* A task the scheduler could forget would never run again: whenever task  *)
(* code runs, every ready task but the running one is in the ready queue   *)
(* and every sleeping task is in the sleeper list with its current target, *)
(* whatever stale and duplicate entries the two also hold.                 *)
NoLostTask ==
  phase = "none" =>
    \A id \in Id :
      /\ state[id] = "Ready" /\ id # current => Queued(id)
      /\ state[id] = "Sleeping" => Listed(id)

(* The system call that ends a task always finds another one to run: the   *)
(* "No runnable task after termination - halting" branch is never taken.   *)
NeverStuck == phase # "stuck"

(* "The dead task's stack and kernel stack slot are never resumed."        *)
DeadNeverRuns == phase = "none" => state[current] # "Dead"

(* The next interrupt from ring 3 (TSS.rsp0) and the next system call      *)
(* (SYS_KSTACK_TOP) both land on the kernel stack of the running task;     *)
(* task 0, which never enters ring 3, makes no system call.                *)
StacksOfCurrent ==
  phase = "none" =>
    /\ rsp0 = current
    /\ current # 0 => sysKstack = current

(* Each timer interrupt wakes every sleeper whose tick has come, although  *)
(* swap_remove moves an entry that was not looked at yet into the hole.    *)
NoOverdueSleeper ==
  phase = "pick" =>
    \A id \in Id : state[id] = "Sleeping" => wake[id] > ticks

(* Wake-ups and re-queueing may enter a task into the queue more than once *)
(* (a sleeper woken while it is still current is pushed by both), and only *)
(* what the pop loop passes over takes the duplicates out again.  With the *)
(* two tasks that kernel_main spawns the heap-backed queue stays bounded.  *)
(* With a third, another sleeper can be woken between the two entries of a *)
(* task and keep them apart, again and again, and the queue grows.         *)
Entries(id) == {k \in 1 .. Len(ready) : ready[k] = id}
QueueBounded == ntasks <= 3 => \A id \in Id : Cardinality(Entries(id)) <= 3

(* Round robin, within the same limit: while a ready task waits, no other  *)
(* task gets more than one turn.  A turn is a maximal block of entries, as *)
(* a task's own entries are passed over while it runs.                     *)
Line == <<current>> \o ready
Turns(o, id) ==
  {k \in 1 .. Len(Line) : /\ Line[k] = o
                          /\ k > 1 => Line[k - 1] # o
                          /\ \A j \in 1 .. k : Line[j] # id}
BoundedBypass ==
  phase = "none" /\ ntasks <= 3 =>
    \A id \in Id : state[id] = "Ready" /\ id # current =>
      \A o \in Id \ {id} : Cardinality(Turns(o, id)) <= 1

(* sleep_ms returns: a task waiting in sleep_until leaves its loop, also   *)
(* when the watchdog resets TICKS under it.                                *)
SleepReturns ==
  \A id \in Id : pc[id] \in {"halted", "check"} ~> pc[id] = "run"

(* The scheduler implements the abstract one: wake-ups never early, always *)
(* eventually; the CPU only to ready tasks, and to each of them eventually.*)
Abs == INSTANCE AbstractScheduler WITH
  Task <- Id, Idle <- 0, Time <- 0 .. MaxTicks,
  status <- state, deadline <- wake, holder <- current, now <- ticks
ImplementsAbstract == Abs!ASpec

=============================================================================
