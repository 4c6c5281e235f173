--------------------------- MODULE SchedulerProofs ---------------------------
(***************************************************************************)
(* Safety of the scheduler for every size of the task table, any number of *)
(* spawn() calls, any sleep and any number of ticks and watchdog firings,  *)
(* and the steps of its refinement of AbstractScheduler.                   *)
(***************************************************************************)
EXTENDS Scheduler, TLAPS, FiniteSetTheorems

-----------------------------------------------------------------------------
(* Sequences *)

(* Vec::swap_remove keeps every other element, and the elements before the *)
(* removed one stay where they are.                                        *)
LEMMA SwapRemoveKeeps ==
  ASSUME NEW S, NEW s \in Seq(S), NEW i \in 1 .. Len(s)
  PROVE  /\ SwapRemove(s, i) \in Seq(S)
         /\ Len(SwapRemove(s, i)) = Len(s) - 1
         /\ \A k \in 1 .. Len(s) : k # i =>
              \E m \in 1 .. Len(s) - 1 : SwapRemove(s, i)[m] = s[k]
         /\ \A m \in 1 .. Len(s) - 1 :
              SwapRemove(s, i)[m] = IF m = i THEN s[Len(s)] ELSE s[m]
<1> DEFINE r == SwapRemove(s, i)
<1>1. /\ Len(s) \in Nat \ {0}
      /\ \A k \in 1 .. Len(s) : s[k] \in S
  OBVIOUS
<1>2. r = [m \in 1 .. Len(s) - 1 |-> IF m = i THEN s[Len(s)] ELSE s[m]]
  BY DEF SwapRemove
<1>3. \A m \in 1 .. Len(s) - 1 : (IF m = i THEN s[Len(s)] ELSE s[m]) \in S
  BY <1>1
<1>4. r \in Seq(S) /\ Len(r) = Len(s) - 1
  BY <1>1, <1>2, <1>3
<1>5. \A m \in 1 .. Len(s) - 1 : r[m] = IF m = i THEN s[Len(s)] ELSE s[m]
  BY <1>2
<1>6. ASSUME NEW k \in 1 .. Len(s), k # i
      PROVE  \E m \in 1 .. Len(s) - 1 : r[m] = s[k]
  <2>1. CASE k = Len(s)
    <3>1. i \in 1 .. Len(s) - 1 /\ r[i] = s[k]
      BY <1>1, <1>5, <1>6, <2>1
    <3>2. QED  BY <3>1
  <2>2. CASE k # Len(s)
    <3>1. k \in 1 .. Len(s) - 1 /\ r[k] = s[k]
      BY <1>1, <1>5, <1>6, <2>2
    <3>2. QED  BY <3>1
  <2>3. QED  BY <2>1, <2>2
<1>7. QED  BY <1>4, <1>5, <1>6

LEMMA ElementType ==
  ASSUME NEW S, NEW s \in Seq(S), NEW i \in 1 .. Len(s)
  PROVE  s[i] \in S
OBVIOUS

(* push_back keeps what is queued and adds the new element.                *)
LEMMA AppendKeeps ==
  ASSUME NEW S, NEW s \in Seq(S), NEW e \in S
  PROVE  /\ Append(s, e) \in Seq(S)
         /\ Len(Append(s, e)) = Len(s) + 1
         /\ Append(s, e)[Len(s) + 1] = e
         /\ \A k \in 1 .. Len(s) : Append(s, e)[k] = s[k]
OBVIOUS

(* pop_front loses the head only.                                          *)
LEMMA TailKeeps ==
  ASSUME NEW S, NEW s \in Seq(S), s # << >>
  PROVE  /\ Head(s) \in S /\ Head(s) = s[1]
         /\ Tail(s) \in Seq(S)
         /\ Len(s) \in Nat \ {0}
         /\ Len(Tail(s)) = Len(s) - 1
         /\ \A k \in 2 .. Len(s) : k - 1 \in 1 .. Len(Tail(s)) /\ Tail(s)[k - 1] = s[k]
         /\ Len(s) = 1 => Tail(s) = << >>
<1>1. /\ Head(s) \in S /\ Head(s) = s[1]
      /\ Tail(s) \in Seq(S)
      /\ Len(s) \in Nat \ {0}
      /\ Len(Tail(s)) = Len(s) - 1
      /\ \A k \in 2 .. Len(s) : k - 1 \in 1 .. Len(Tail(s)) /\ Tail(s)[k - 1] = s[k]
  OBVIOUS
<1>2. ASSUME NEW r \in Seq(S), Len(r) = 0
      PROVE  r = << >>
  BY <1>2
<1>3. QED  BY <1>1, <1>2

-----------------------------------------------------------------------------
(* The type invariant *)

LEMMA IdFacts == 0 \in Id /\ NoStack \notin Id /\ \A id \in Id : id \in Nat
BY SchedulerConstants DEF Id, NoStack

LEMMA TypeInit == Init => TypeOK
BY SchedulerConstants, IdFacts DEF Init, TypeOK, NoStack

LEMMA BootType == ASSUME TypeOK, Boot PROVE TypeOK'
<1> USE SchedulerConstants, IdFacts
      DEF TypeOK, stackVars, handlerVars, taskVars, clockVars, schedVars
<1>1. CASE SchedInit
  BY <1>1 DEF SchedInit
<1>2. CASE SpawnFull
  <2>1. requests' \in 0 .. SpawnRequests
    BY ONLY SchedulerConstants, TypeOK, <1>2 DEF SpawnFull, TypeOK
  <2>2. UNCHANGED <<ntasks, schedVars, stackVars, handlerVars, taskVars, clockVars>>
    BY ONLY <1>2 DEF SpawnFull
  <2>3. /\ state' = state /\ wake' = wake /\ target' = target /\ intr' = intr
        /\ pc' = pc /\ ready' = ready /\ sleepers' = sleepers
        /\ UNCHANGED <<ntasks, current, rsp0, sysKstack, phase, idx, ticks, rearms>>
    BY ONLY <2>2 DEF schedVars, stackVars, handlerVars, taskVars, clockVars
  <2>4. QED  BY ONLY TypeOK, <2>1, <2>3 DEF TypeOK
<1>3. CASE Spawn
  <2>1. ntasks \in Id /\ ntasks' \in 0 .. MaxTasks /\ requests' \in 0 .. SpawnRequests
    BY <1>3 DEF Spawn, Id
  <2>2. ready' \in Seq(Id)
    BY <1>3, <2>1 DEF Spawn
  <2>3. /\ state' \in [Id -> {"None", "Ready", "Sleeping", "Dead"}]
        /\ pc' \in [Id -> {"none", "boot", "idle", "run", "arm", "halted", "check", "dead"}]
        /\ intr' \in [Id -> BOOLEAN]
    BY <1>3, <2>1 DEF Spawn
  <2>4. QED  BY <1>3, <2>1, <2>2, <2>3 DEF Spawn
<1>4. CASE EnterIdle
  BY <1>4 DEF EnterIdle, tableVars
<1>5. QED  BY <1>1, <1>2, <1>3, <1>4 DEF Boot

LEMMA TaskStepType == ASSUME TypeOK, NEW c \in Id, TaskStep(c) PROVE TypeOK'
<1> USE SchedulerConstants, IdFacts
      DEF TypeOK, tableVars, stackVars, handlerVars, clockVars, schedVars
<1>1. CASE EnableInterrupts(c)
  BY <1>1 DEF EnableInterrupts
<1>2. CASE SyscallEntry(c)
  BY <1>2 DEF SyscallEntry
<1>3. ASSUME NEW ms \in 0 .. MaxSleep, SleepMs(c, ms)
      PROVE  TypeOK'
  <2>1. ticks + AtLeastOne(ms) \in 0 .. MaxTicks
    BY <1>3 DEF SleepMs, AtLeastOne
  <2>2. QED  BY <1>3, <2>1 DEF SleepMs
<1>4. CASE SleepUntil(c)
  <2>1. Sleeper(c, target[c]) \in SleeperEntry
    BY DEF Sleeper, SleeperEntry
  <2>2. /\ sleepers' \in Seq(SleeperEntry)
        /\ Len(sleepers') = Len(sleepers) + 1
        /\ Len(sleepers) \in Nat
    BY <1>4, <2>1 DEF SleepUntil
  <2>3. idx' \in 1 .. Len(sleepers') + 1
    BY <1>4, <2>2 DEF SleepUntil
  <2>4. QED  BY <1>4, <2>2, <2>3 DEF SleepUntil
<1>5. CASE Recheck(c)
  BY <1>5 DEF Recheck
<1>6. CASE Exit(c)
  BY <1>6 DEF Exit
<1>7. QED  BY <1>1, <1>2, <1>3, <1>4, <1>5, <1>6 DEF TaskStep

LEMMA InterruptType == ASSUME TypeOK, DeviceInterrupt \/ Timer PROVE TypeOK'
<1> USE SchedulerConstants, IdFacts
      DEF TypeOK, tableVars, stackVars, handlerVars, schedVars, clockVars
<1>1. Resumed \in [Id -> {"none", "boot", "idle", "run", "arm", "halted", "check", "dead"}]
  BY DEF Resumed
<1>2. CASE DeviceInterrupt
  BY <1>1, <1>2 DEF DeviceInterrupt
<1>3. CASE Timer
  <2>1. ticks' \in 0 .. MaxTicks
    BY ONLY SchedulerConstants, TypeOK, <1>3 DEF Timer, TypeOK
  <2>2. phase' \in {"none", "wake", "pick", "exit", "stuck"} /\ idx' \in 1 .. Len(sleepers) + 1
    BY <1>3 DEF Timer
  <2>3. pc' = Resumed /\ UNCHANGED <<tableVars, schedVars, stackVars, intr, target, rearms>>
    BY ONLY <1>3 DEF Timer
  <2>4. /\ state' = state /\ wake' = wake /\ target' = target /\ intr' = intr
        /\ ready' = ready /\ sleepers' = sleepers
        /\ UNCHANGED <<ntasks, requests, current, rsp0, sysKstack, rearms>>
    BY ONLY <2>3 DEF tableVars, schedVars, stackVars
  <2>5. QED  BY ONLY TypeOK, <1>1, <2>1, <2>2, <2>3, <2>4 DEF TypeOK
<1>4. QED  BY <1>2, <1>3

LEMMA HandlerType == ASSUME TypeOK, Handler PROVE TypeOK'
<1> USE SchedulerConstants, IdFacts
      DEF TypeOK, tableVars, stackVars, handlerVars, schedVars, clockVars, taskVars
<1>1. CASE WakeDue
  <2>1. idx \in 1 .. Len(sleepers) /\ Len(sleepers) \in Nat
    BY <1>1 DEF WakeDue
  <2>2. /\ sleepers' = SwapRemove(sleepers, idx)
        /\ sleepers[idx].id \in Id
    <3>1. sleepers[idx] \in SleeperEntry
      BY <2>1, ElementType
    <3>2. sleepers[idx].id \in Id
      BY <3>1 DEF SleeperEntry
    <3>3. sleepers' = SwapRemove(sleepers, idx)
      BY <1>1, Zenon DEF WakeDue
    <3>4. QED  BY <3>2, <3>3
  <2>3. /\ sleepers' \in Seq(SleeperEntry)
        /\ Len(sleepers') = Len(sleepers) - 1
    BY <2>1, <2>2, SwapRemoveKeeps
  <2>4. idx' \in 1 .. Len(sleepers') + 1
    BY <1>1, <2>1, <2>3 DEF WakeDue
  <2>5. /\ state' \in [Id -> {"None", "Ready", "Sleeping", "Dead"}]
        /\ ready' \in Seq(Id)
    <3>1. Append(ready, sleepers[idx].id) \in Seq(Id)
      BY <2>2
    <3>2. [state EXCEPT ![sleepers[idx].id] = "Ready"]
            \in [Id -> {"None", "Ready", "Sleeping", "Dead"}]
      BY <2>2
    <3>3. QED  BY <1>1, <3>1, <3>2 DEF WakeDue
  <2>6. QED  BY <1>1, <2>3, <2>4, <2>5 DEF WakeDue
<1>2. CASE WakeSkip
  <2>1. idx' \in 1 .. Len(sleepers') + 1
    BY <1>2 DEF WakeSkip
  <2>2. QED  BY <1>2, <2>1 DEF WakeSkip
<1>3. CASE Requeue
  <2>1. Append(ready, current) \in Seq(Id)
    <3>1. ready \in Seq(Id) /\ current \in Id
      BY ONLY TypeOK DEF TypeOK
    <3>2. QED  BY ONLY <3>1, AppendKeeps
  <2>2. ready' = Append(ready, current) \/ ready' = ready
    BY ONLY <1>3 DEF Requeue
  <2>3. ready' \in Seq(Id)
    BY ONLY TypeOK, <2>1, <2>2 DEF TypeOK
  <2>4. /\ phase' = "pick"
        /\ UNCHANGED <<ntasks, requests, state, wake, sleepers, current, rsp0,
                       sysKstack, idx, pc, intr, target, ticks, rearms>>
    BY ONLY <1>3 DEF Requeue, tableVars, stackVars, taskVars, clockVars
  <2>5. QED  BY ONLY TypeOK, <2>3, <2>4 DEF TypeOK
<1>4. CASE PickSkip
  <2>1. ready' \in Seq(Id)
    BY <1>4 DEF PickSkip
  <2>2. QED  BY <1>4, <2>1 DEF PickSkip
<1>5. CASE Dispatch
  <2>1. Head(ready) \in Id /\ Tail(ready) \in Seq(Id)
    BY <1>5 DEF Dispatch
  <2>2. QED  BY <1>5, <2>1 DEF Dispatch, LoadStacks
<1>6. CASE PickNone
  BY <1>6 DEF PickNone
<1>7. QED  BY <1>1, <1>2, <1>3, <1>4, <1>5, <1>6 DEF Handler

LEMMA TypeStep == TypeOK /\ [Next]_vars => TypeOK'
<1> SUFFICES ASSUME TypeOK, [Next]_vars
             PROVE  TypeOK'
  OBVIOUS
<1>1. CASE Rearm
  <2>1. rearms' \in 0 .. MaxRearms /\ ticks' \in 0 .. MaxTicks
    BY <1>1, SchedulerConstants DEF TypeOK, Rearm
  <2>2. UNCHANGED <<ntasks, requests, state, wake, ready, sleepers, current, rsp0,
                    sysKstack, phase, idx, pc, intr, target>>
    BY <1>1 DEF Rearm, tableVars, schedVars, stackVars, handlerVars, taskVars
  <2>3. QED  BY <2>1, <2>2 DEF TypeOK
<1>2. CASE UNCHANGED vars
  BY <1>2 DEF TypeOK, vars, tableVars, schedVars, stackVars, handlerVars,
              taskVars, clockVars
<1>3. QED
  BY <1>1, <1>2, BootType, TaskStepType, InterruptType, HandlerType DEF Next

(* Every component keeps its type, so the handler never indexes a vector   *)
(* or the task table outside its bounds (a panic in the code).             *)
THEOREM TypeCorrect == Spec => []TypeOK
BY TypeInit, TypeStep, PTL DEF Spec

-----------------------------------------------------------------------------
(* The inductive invariant.  NoLostTask and the other safety properties    *)
(* speak of the states in which task code runs; to carry them across       *)
(* schedule() they are stated for every phase of its loops.                *)

\* The handler runs only once there is a table, and task 0 stays ready.
KernelTask ==
  /\ ntasks = 0 => phase = "none" /\ state[0] = "None" /\ current = 0
  /\ ntasks > 0 => state[0] = "Ready" /\ current < ntasks
  /\ pc[0] \in {"boot", "idle"}
  /\ phase = "exit" => current # 0
  /\ phase # "stuck"

\* Entries of the table that were not filled yet, and only those, are "None".
Unfilled ==
  \A id \in Id : id >= ntasks => state[id] = "None"

\* The current task is dead exactly while terminate_current() looks for another.
CurrentAlive ==
  /\ phase = "exit" => state[current] = "Dead"
  /\ phase # "exit" => state[current] # "Dead"

\* Every ready task but the current one is queued at all times.  While
\* schedule() pops entries, a ready current task is still at the very end.
QueueInv ==
  /\ \A id \in Id : state[id] = "Ready" /\ id # current => Queued(id)
  /\ phase = "pick" /\ state[current] = "Ready" =>
       ready = << >> \/ ready[Len(ready)] = current

\* Every sleeping task is listed; the wake loop has passed no due entry.
SleeperInv ==
  /\ \A id \in Id : state[id] = "Sleeping" => Listed(id)
  /\ phase = "wake" => \A k \in 1 .. idx - 1 : sleepers[k].tick > ticks
  /\ phase = "pick" => \A k \in 1 .. Len(sleepers) : sleepers[k].tick > ticks

StackInv ==
  /\ rsp0 = current
  /\ current # 0 => sysKstack = current

Inv == KernelTask /\ Unfilled /\ CurrentAlive /\ QueueInv /\ SleeperInv /\ StackInv

LEMMA InvInit == Init => Inv
BY SchedulerConstants, IdFacts
DEF Init, Inv, KernelTask, Unfilled, CurrentAlive, QueueInv, SleeperInv, StackInv,
    Queued, Listed

(* Steps that only move the program counter of a spawned task, its         *)
(* interrupt flag or its locals, or the boot code's counter.               *)
LEMMA FrameStep ==
  ASSUME Inv, pc'[0] \in {"boot", "idle"},
         UNCHANGED <<ntasks, state, wake, ready, sleepers, current, rsp0,
                     sysKstack, phase, idx, ticks>>
  PROVE  Inv'
BY DEF Inv, KernelTask, Unfilled, CurrentAlive, QueueInv, SleeperInv, StackInv,
       Queued, Listed

LEMMA BootInv == ASSUME TypeOK, Inv, Boot PROVE Inv'
<1> USE IdFacts
<1>1. CASE SchedInit
  <2>1. /\ state' = [state EXCEPT ![0] = "Ready"] /\ ntasks = 0 /\ ntasks' = 1
        /\ ready' = Append(ready, 0) /\ phase = "none" /\ current = 0
        /\ UNCHANGED <<wake, sleepers, current, rsp0, sysKstack, phase, idx, pc, ticks>>
    BY <1>1 DEF SchedInit, stackVars, handlerVars, taskVars, clockVars
  <2>2. /\ state \in [Id -> {"None", "Ready", "Sleeping", "Dead"}]
        /\ \A id \in Id : state[id] = "None"
    BY <2>1 DEF TypeOK, Inv, Unfilled, Id
  <2>3. state'[0] = "Ready" /\ \A id \in Id \ {0} : state'[id] = "None"
    BY <2>1, <2>2
  <2>4. KernelTask' /\ Unfilled' /\ CurrentAlive' /\ StackInv'
    BY <2>1, <2>3 DEF Inv, KernelTask, Unfilled, CurrentAlive, StackInv, Id
  <2>5. QueueInv' /\ SleeperInv'
    BY <2>1, <2>3 DEF QueueInv, SleeperInv
  <2>6. QED  BY <2>4, <2>5 DEF Inv
<1>2. CASE SpawnFull
  BY <1>2, FrameStep DEF SpawnFull, schedVars, stackVars, handlerVars, taskVars,
     clockVars, Inv, KernelTask
<1>3. CASE Spawn
  <2>1. /\ state' = [state EXCEPT ![ntasks] = "Ready"]
        /\ ntasks \in Id /\ ntasks # 0 /\ ntasks' = ntasks + 1
        /\ ready' = Append(ready, ntasks) /\ phase = "none" /\ current = 0
        /\ pc' = [pc EXCEPT ![ntasks] = "run"]
        /\ UNCHANGED <<wake, sleepers, current, rsp0, sysKstack, phase, idx, ticks>>
    BY <1>3, SchedulerConstants
    DEF Spawn, stackVars, handlerVars, clockVars, TypeOK, Id
  <2>2. /\ state'[ntasks] = "Ready"
        /\ \A id \in Id \ {ntasks} : state'[id] = state[id]
        /\ pc'[0] = pc[0]
    BY <2>1 DEF TypeOK
  <2>3. KernelTask' /\ Unfilled' /\ CurrentAlive' /\ StackInv'
    BY <2>1, <2>2 DEF TypeOK, Inv, KernelTask, Unfilled, CurrentAlive, StackInv, Id
  <2>4. QueueInv'
    <3>1. ASSUME NEW id \in Id, state'[id] = "Ready", id # current'
          PROVE  Queued(id)'
      <4>1. /\ Len(ready') = Len(ready) + 1 /\ Len(ready) \in Nat
            /\ ready'[Len(ready) + 1] = ntasks
            /\ \A k \in 1 .. Len(ready) : ready'[k] = ready[k]
        <5>1. ready \in Seq(Id) /\ ntasks \in Id /\ ready' = Append(ready, ntasks)
          BY <2>1 DEF TypeOK
        <5>2. QED  BY ONLY <5>1, AppendKeeps
      <4>2. CASE id = ntasks
        BY <4>1, <4>2 DEF Queued
      <4>3. CASE id # ntasks
        <5>1. Queued(id)
          BY <2>1, <2>2, <3>1, <4>3 DEF Inv, QueueInv
        <5>2. QED  BY <4>1, <5>1 DEF Queued
      <4>4. QED  BY <4>2, <4>3
    <3>2. QED  BY <2>1, <3>1 DEF QueueInv
  <2>5. SleeperInv'
    BY <2>1, <2>2 DEF Inv, SleeperInv, Listed
  <2>6. QED  BY <2>3, <2>4, <2>5 DEF Inv
<1>4. CASE EnterIdle
  <2>1. pc'[0] = "idle"
    BY <1>4 DEF EnterIdle, TypeOK
  <2>2. QED
    BY <1>4, <2>1, FrameStep DEF EnterIdle, tableVars, schedVars, stackVars,
       handlerVars, clockVars
<1>5. QED  BY <1>1, <1>2, <1>3, <1>4 DEF Boot

LEMMA RearmInv == ASSUME TypeOK, Inv, Rearm PROVE Inv'
BY DEF Rearm, tableVars, schedVars, stackVars, handlerVars, taskVars,
       Inv, KernelTask, Unfilled, CurrentAlive, QueueInv, SleeperInv, StackInv,
       Queued, Listed

LEMMA TaskStepInv == ASSUME TypeOK, Inv, NEW c \in Id, TaskStep(c) PROVE Inv'
<1> USE IdFacts
<1>1. pc[0] \in {"boot", "idle"}
  BY DEF Inv, KernelTask
<1>2. CASE EnableInterrupts(c)
  BY <1>1, <1>2, FrameStep DEF EnableInterrupts, tableVars, schedVars, stackVars,
     handlerVars, clockVars
<1>3. CASE SyscallEntry(c)
  BY <1>1, <1>3, FrameStep DEF SyscallEntry, tableVars, schedVars, stackVars,
     handlerVars, clockVars
<1>4. ASSUME NEW ms \in 0 .. MaxSleep, SleepMs(c, ms)
      PROVE  Inv'
  <2>1. pc'[0] = pc[0]
    BY <1>4 DEF SleepMs, Runs, TypeOK
  <2>2. QED
    BY <1>1, <1>4, <2>1, FrameStep DEF SleepMs, tableVars, schedVars, stackVars,
       handlerVars, clockVars
<1>5. CASE SleepUntil(c)
  <2>1. /\ phase = "none" /\ current = c /\ c # 0 /\ pc'[0] = pc[0]
        /\ state' = [state EXCEPT ![c] = "Sleeping"]
        /\ wake' = [wake EXCEPT ![c] = target[c]]
        /\ sleepers' = Append(sleepers, Sleeper(c, target[c]))
        /\ UNCHANGED <<ntasks, ready, current, rsp0, sysKstack, phase, idx, ticks>>
    BY <1>1, <1>5 DEF SleepUntil, tableVars, stackVars, handlerVars, clockVars, TypeOK
  <2>2. /\ state'[c] = "Sleeping" /\ wake'[c] = target[c]
        /\ \A id \in Id \ {c} : state'[id] = state[id] /\ wake'[id] = wake[id]
    BY <2>1 DEF TypeOK
  <2>3. KernelTask' /\ CurrentAlive' /\ StackInv'
    BY <1>1, <2>1, <2>2 DEF Inv, KernelTask, CurrentAlive, StackInv, Id
  <2>4. Unfilled'
    BY <2>1, <2>2, SchedulerConstants DEF TypeOK, Inv, KernelTask, Unfilled, Id
  <2>5. QueueInv'
    BY <2>1, <2>2 DEF Inv, QueueInv, Queued
  <2>6. SleeperInv'
    <3>1. Sleeper(c, target[c]) \in SleeperEntry
      BY DEF TypeOK, Sleeper, SleeperEntry
    <3>2. /\ Len(sleepers') = Len(sleepers) + 1 /\ Len(sleepers) \in Nat
          /\ sleepers'[Len(sleepers) + 1] = Sleeper(c, target[c])
          /\ \A k \in 1 .. Len(sleepers) : sleepers'[k] = sleepers[k]
      <4>1. sleepers \in Seq(SleeperEntry) /\ Len(sleepers) \in Nat
        BY DEF TypeOK
      <4>2. sleepers' = Append(sleepers, Sleeper(c, target[c]))
        BY <2>1
      <4>3. QED  BY ONLY <3>1, <4>1, <4>2, AppendKeeps
    <3>3. ASSUME NEW id \in Id, state'[id] = "Sleeping"
          PROVE  Listed(id)'
      <4>1. CASE id = c
        BY <2>2, <3>2, <4>1 DEF Listed
      <4>2. CASE id # c
        <5>1. Listed(id)
          BY <2>2, <3>3, <4>2 DEF Inv, SleeperInv
        <5>2. QED  BY <2>2, <3>2, <4>2, <5>1 DEF Listed
      <4>3. QED  BY <4>1, <4>2
    <3>4. QED  BY <2>1, <3>3 DEF SleeperInv
  <2>7. QED  BY <2>3, <2>4, <2>5, <2>6 DEF Inv
<1>6. CASE Recheck(c)
  <2>1. pc'[0] = pc[0]
    BY <1>1, <1>6 DEF Recheck, TypeOK
  <2>2. QED
    BY <1>1, <1>6, <2>1, FrameStep DEF Recheck, tableVars, schedVars, stackVars,
       handlerVars, clockVars
<1>7. CASE Exit(c)
  <2>1. /\ phase = "none" /\ phase' = "exit" /\ current = c /\ c # 0 /\ pc'[0] = pc[0]
        /\ state' = [state EXCEPT ![c] = "Dead"]
        /\ UNCHANGED <<ntasks, wake, ready, sleepers, current, rsp0, sysKstack, idx, ticks>>
    BY <1>7 DEF Exit, Runs, tableVars, stackVars, clockVars, TypeOK
  <2>2. state'[c] = "Dead" /\ \A id \in Id \ {c} : state'[id] = state[id]
    BY <2>1 DEF TypeOK
  <2>3. KernelTask' /\ CurrentAlive' /\ StackInv'
    BY <1>1, <2>1, <2>2 DEF Inv, KernelTask, CurrentAlive, StackInv, Id
  <2>4. Unfilled'
    BY <2>1, <2>2 DEF TypeOK, Inv, KernelTask, Unfilled, Id
  <2>5. QueueInv' /\ SleeperInv'
    BY <2>1, <2>2 DEF Inv, QueueInv, SleeperInv, Queued, Listed
  <2>6. QED  BY <2>3, <2>4, <2>5 DEF Inv
<1>8. QED  BY <1>2, <1>3, <1>4, <1>5, <1>6, <1>7 DEF TaskStep

LEMMA InterruptInv == ASSUME TypeOK, Inv, DeviceInterrupt \/ Timer PROVE Inv'
<1> USE IdFacts
<1>1. pc[0] \in {"boot", "idle"} /\ Resumed[0] = pc[0]
  BY DEF Inv, KernelTask, Resumed, TypeOK
<1>2. CASE DeviceInterrupt
  BY <1>1, <1>2, FrameStep DEF DeviceInterrupt, tableVars, schedVars, stackVars,
     handlerVars, clockVars
<1>3. CASE Timer
  <2>1. /\ phase = "none" /\ pc'[0] = pc[0]
        /\ UNCHANGED <<ntasks, state, wake, ready, sleepers, current, rsp0, sysKstack>>
        /\ \/ ntasks > 0 /\ phase' = "wake" /\ idx' = 1
           \/ ~(ntasks > 0) /\ UNCHANGED <<phase, idx>>
    BY <1>1, <1>3 DEF Timer, tableVars, schedVars, stackVars, handlerVars
  <2>2. KernelTask'
    BY <1>1, <2>1 DEF Inv, KernelTask, TypeOK
  <2>3. Unfilled' /\ CurrentAlive' /\ QueueInv' /\ StackInv'
    BY <2>1 DEF Inv, Unfilled, CurrentAlive, QueueInv, StackInv, Queued
  <2>4. SleeperInv'
    BY <2>1 DEF Inv, SleeperInv, Listed
  <2>5. QED  BY <2>2, <2>3, <2>4 DEF Inv
<1>4. QED  BY <1>2, <1>3

(* The wake loop removes an entry and may move the last one into its place.*)
LEMMA WakeDueInv == ASSUME TypeOK, Inv, WakeDue PROVE Inv'
<1> USE IdFacts
<1> DEFINE s == sleepers[idx]
<1>1. /\ phase = "wake" /\ idx \in 1 .. Len(sleepers) /\ Len(sleepers) \in Nat
      /\ s.tick <= ticks
      /\ UNCHANGED <<ntasks, wake, current, rsp0, sysKstack, phase, idx, pc, ticks>>
  BY DEF WakeDue, tableVars, stackVars, handlerVars, taskVars, clockVars, TypeOK
<1>2. sleepers' = SwapRemove(sleepers, idx)
  BY Zenon DEF WakeDue
<1>3. /\ Len(sleepers') = Len(sleepers) - 1
      /\ \A k \in 1 .. Len(sleepers) : k # idx =>
           \E m \in 1 .. Len(sleepers') : sleepers'[m] = sleepers[k]
      /\ \A m \in 1 .. Len(sleepers') : m < idx => sleepers'[m] = sleepers[m]
  <2>1. sleepers \in Seq(SleeperEntry)
    BY DEF TypeOK
  <2>2. /\ Len(sleepers') = Len(sleepers) - 1
        /\ \A k \in 1 .. Len(sleepers) : k # idx =>
             \E m \in 1 .. Len(sleepers) - 1 : sleepers'[m] = sleepers[k]
        /\ \A m \in 1 .. Len(sleepers) - 1 :
             sleepers'[m] = IF m = idx THEN sleepers[Len(sleepers)] ELSE sleepers[m]
    <3>1. idx \in 1 .. Len(sleepers)
      BY <1>1
    <3> DEFINE r == SwapRemove(sleepers, idx)
    <3>2. /\ Len(r) = Len(sleepers) - 1
          /\ \A k \in 1 .. Len(sleepers) : k # idx =>
               \E m \in 1 .. Len(sleepers) - 1 : r[m] = sleepers[k]
          /\ \A m \in 1 .. Len(sleepers) - 1 :
               r[m] = IF m = idx THEN sleepers[Len(sleepers)] ELSE sleepers[m]
      BY ONLY <2>1, <3>1, SwapRemoveKeeps, ZenonT(40)
    <3>3. sleepers' = r
      BY <1>2
    <3> HIDE DEF r
    <3>4. QED  BY ONLY <3>2, <3>3
  <2>3. QED  BY <1>1, <2>2
<1>4. s.id \in Id
  <2>1. s \in SleeperEntry
    BY <1>1, ElementType DEF TypeOK
  <2>2. QED  BY <2>1 DEF SleeperEntry
<1>5. SleeperInv'
  <2>1. ASSUME NEW id \in Id, state'[id] = "Sleeping"
        PROVE  Listed(id)'
    <3>1. state[id] = "Sleeping" /\ s # Sleeper(id, wake[id])
      <4>1. CASE state[s.id] = "Sleeping" /\ wake[s.id] = s.tick
        <5>1. state' = [state EXCEPT ![s.id] = "Ready"]
          BY <4>1, Zenon DEF WakeDue
        <5>2. id # s.id /\ state[id] = "Sleeping"
          BY <1>4, <2>1, <5>1 DEF TypeOK
        <5>3. QED  BY <5>2 DEF Sleeper
      <4>2. CASE ~(state[s.id] = "Sleeping" /\ wake[s.id] = s.tick)
        <5>1. state' = state
          BY <4>2, Zenon DEF WakeDue
        <5>2. QED  BY <2>1, <4>2, <5>1 DEF Sleeper
      <4>3. QED  BY <4>1, <4>2
    <3>2. PICK k \in 1 .. Len(sleepers) : sleepers[k] = Sleeper(id, wake[id])
      BY <3>1 DEF Inv, SleeperInv, Listed
    <3>3. k # idx
      BY <3>1, <3>2
    <3>4. QED  BY <1>1, <1>3, <3>2, <3>3 DEF Listed
  <2>2. \A k \in 1 .. idx' - 1 : sleepers'[k].tick > ticks'
    BY <1>1, <1>3 DEF Inv, SleeperInv
  <2>3. QED  BY <1>1, <2>1, <2>2 DEF SleeperInv
<1>6. CASE state[s.id] = "Sleeping" /\ wake[s.id] = s.tick
  <2>1. state' = [state EXCEPT ![s.id] = "Ready"] /\ ready' = Append(ready, s.id)
    BY <1>6, Zenon DEF WakeDue
  <2>2. state'[s.id] = "Ready" /\ \A id \in Id \ {s.id} : state'[id] = state[id]
    BY <1>4, <2>1 DEF TypeOK
  <2>3. /\ Len(ready') = Len(ready) + 1 /\ Len(ready) \in Nat
        /\ ready'[Len(ready) + 1] = s.id
        /\ \A k \in 1 .. Len(ready) : ready'[k] = ready[k]
    <3>1. ready \in Seq(Id)
      BY DEF TypeOK
    <3>2. QED  BY <1>4, <2>1, <3>1, AppendKeeps
  <2>4. KernelTask' /\ Unfilled' /\ CurrentAlive' /\ StackInv'
    <3>1. KernelTask' /\ StackInv'
      BY <1>1, <2>2 DEF TypeOK, Inv, KernelTask, StackInv
    <3>2. Unfilled'
      BY <1>1, <1>4, <1>6, <2>2 DEF TypeOK, Inv, Unfilled
    <3>3. CurrentAlive'
      BY <1>1, <2>2 DEF TypeOK, Inv, CurrentAlive
    <3>4. QED  BY <3>1, <3>2, <3>3
  <2>5. QueueInv'
    <3>1. ASSUME NEW id \in Id, state'[id] = "Ready", id # current'
          PROVE  Queued(id)'
      <4>1. CASE id = s.id
        BY <2>3, <4>1 DEF Queued
      <4>2. CASE id # s.id
        <5>1. Queued(id)
          BY <1>1, <2>2, <3>1, <4>2 DEF Inv, QueueInv
        <5>2. QED  BY <2>3, <5>1 DEF Queued
      <4>3. QED  BY <4>1, <4>2
    <3>2. QED  BY <1>1, <3>1 DEF QueueInv
  <2>6. QED  BY <1>5, <2>4, <2>5 DEF Inv
<1>7. CASE ~(state[s.id] = "Sleeping" /\ wake[s.id] = s.tick)
  <2>1. UNCHANGED <<state, ready>>
    BY <1>7, Zenon DEF WakeDue
  <2>2. KernelTask' /\ Unfilled' /\ CurrentAlive' /\ QueueInv' /\ StackInv'
    BY <1>1, <2>1
    DEF Inv, KernelTask, Unfilled, CurrentAlive, QueueInv, StackInv, Queued
  <2>3. QED  BY <1>5, <2>2 DEF Inv
<1>8. QED  BY <1>6, <1>7

LEMMA HandlerInv == ASSUME TypeOK, Inv, Handler PROVE Inv'
<1> USE IdFacts
    DEF tableVars, stackVars, handlerVars, schedVars, clockVars, taskVars
<1>1. CASE WakeDue
  BY <1>1, WakeDueInv
<1>2. CASE WakeSkip
  <2>1. SleeperInv'
    <3>1. /\ phase = "wake" /\ idx' = idx + 1 /\ sleepers[idx].tick > ticks
          /\ UNCHANGED <<state, wake, sleepers, phase, ticks>> /\ idx \in Nat
      BY <1>2 DEF WakeSkip, TypeOK
    <3>2. \A k \in 1 .. idx' - 1 : k = idx \/ k \in 1 .. idx - 1
      BY ONLY <3>1
    <3>3. QED  BY ONLY <3>1, <3>2, Inv DEF Inv, SleeperInv, Listed
  <2>2. KernelTask' /\ Unfilled' /\ CurrentAlive' /\ QueueInv' /\ StackInv'
    BY <1>2
    DEF WakeSkip, Inv, KernelTask, Unfilled, CurrentAlive, QueueInv, StackInv, Queued
  <2>3. QED  BY <2>1, <2>2 DEF Inv
<1>3. CASE Requeue
  <2>1. KernelTask' /\ Unfilled' /\ CurrentAlive' /\ StackInv'
    BY <1>3 DEF Requeue, Inv, KernelTask, Unfilled, CurrentAlive, StackInv
  <2>2. SleeperInv'
    BY <1>3 DEF Requeue, TypeOK, Inv, SleeperInv, Listed
  <2>3. QueueInv'
    <3>1. CASE state[current] = "Ready"
      <4>1. /\ Len(ready') = Len(ready) + 1 /\ Len(ready) \in Nat
            /\ ready'[Len(ready) + 1] = current
            /\ \A k \in 1 .. Len(ready) : ready'[k] = ready[k]
        <5>1. ready \in Seq(Id) /\ current \in Id /\ Len(ready) \in Nat
          BY ONLY TypeOK DEF TypeOK
        <5>2. ready' = Append(ready, current)
          BY ONLY <1>3, <3>1 DEF Requeue
        <5>3. QED  BY ONLY <5>1, <5>2, AppendKeeps
      <4>2. QED  BY <1>3, <4>1 DEF Requeue, Inv, QueueInv, Queued
    <3>2. CASE state[current] # "Ready"
      BY <1>3, <3>2 DEF Requeue, Inv, QueueInv, Queued
    <3>3. QED  BY <3>1, <3>2
  <2>4. QED  BY <2>1, <2>2, <2>3 DEF Inv
<1>4. CASE PickSkip
  <2>1. /\ phase \in {"pick", "exit"} /\ Skipped(Head(ready)) /\ ready # << >>
        /\ ready' = Tail(ready)
        /\ UNCHANGED <<ntasks, state, wake, sleepers, current, rsp0, sysKstack,
                       phase, idx, pc, ticks>>
    BY <1>4 DEF PickSkip
  <2>2. KernelTask' /\ Unfilled' /\ CurrentAlive' /\ StackInv' /\ SleeperInv'
    BY <2>1 DEF Inv, KernelTask, Unfilled, CurrentAlive, StackInv, SleeperInv, Listed
  <2>3. /\ Head(ready) = ready[1] /\ Len(ready) \in Nat \ {0}
        /\ Len(ready') = Len(ready) - 1
        /\ \A k \in 2 .. Len(ready) :
             k - 1 \in 1 .. Len(ready') /\ ready'[k - 1] = ready[k]
        /\ Len(ready) = 1 => ready' = << >>
    <3>1. ready \in Seq(Id)
      BY DEF TypeOK
    <3>2. QED  BY <2>1, <3>1, TailKeeps
  <2>4. ASSUME NEW id \in Id, state[id] = "Ready", id # current
        PROVE  Queued(id)'
    <3>1. PICK k \in 1 .. Len(ready) : ready[k] = id
      BY <2>4 DEF Inv, QueueInv, Queued
    <3>2. k # 1
      BY <2>1, <2>3, <2>4, <3>1 DEF Skipped
    <3>3. k \in 2 .. Len(ready)
      BY <2>3, <3>1, <3>2
    <3>4. QED  BY <2>3, <3>1, <3>3 DEF Queued
  <2>5. phase = "pick" /\ state[current] = "Ready" =>
          ready' = << >> \/ ready'[Len(ready')] = current
    <3>1. CASE Len(ready) = 1
      BY <2>3, <3>1
    <3>2. CASE Len(ready) # 1
      <4>1. Len(ready) \in 2 .. Len(ready) /\ ready'[Len(ready')] = ready[Len(ready)]
        BY <2>3, <3>2
      <4>2. QED  BY <2>1, <4>1 DEF Inv, QueueInv
    <3>3. QED  BY <3>1, <3>2
  <2>6. QED  BY <2>1, <2>2, <2>4, <2>5 DEF Inv, QueueInv
<1>5. CASE Dispatch
  <2> DEFINE h == Head(ready)
  <2>1. /\ phase \in {"pick", "exit"} /\ h # current /\ state[h] = "Ready"
        /\ ready # << >> /\ ready' = Tail(ready) /\ current' = h
        /\ rsp0' = h /\ sysKstack' = h /\ phase' = "none"
        /\ UNCHANGED <<ntasks, state, wake, sleepers, idx, pc, ticks>>
    BY <1>5 DEF Dispatch, Skipped, LoadStacks
  <2>2. /\ h \in Id /\ h = ready[1] /\ Len(ready) \in Nat \ {0}
        /\ Len(ready') = Len(ready) - 1
        /\ \A k \in 2 .. Len(ready) :
             k - 1 \in 1 .. Len(ready') /\ ready'[k - 1] = ready[k]
    BY <2>1, TailKeeps DEF TypeOK
  <2>3. KernelTask'
    <3>1. h < ntasks
      BY <2>1, <2>2 DEF Inv, Unfilled, TypeOK, Id
    <3>2. QED  BY <2>1, <2>2, <3>1 DEF Inv, KernelTask, TypeOK, Id
  <2>4. Unfilled' /\ CurrentAlive' /\ StackInv' /\ SleeperInv'
    BY <2>1 DEF Inv, Unfilled, CurrentAlive, StackInv, SleeperInv, Listed
  <2>5. ASSUME NEW id \in Id, state[id] = "Ready", id # h
        PROVE  Queued(id)'
    <3>1. \E k \in 1 .. Len(ready) : ready[k] = id
      <4>1. CASE id = current
        <5>1. phase = "pick" /\ ready[Len(ready)] = current
          BY <2>1, <2>5, <4>1 DEF Inv, QueueInv, CurrentAlive
        <5>2. QED  BY <2>2, <4>1, <5>1
      <4>2. CASE id # current
        BY <2>5, <4>2 DEF Inv, QueueInv, Queued
      <4>3. QED  BY <4>1, <4>2
    <3>2. PICK k \in 1 .. Len(ready) : ready[k] = id
      BY <3>1
    <3>3. k \in 2 .. Len(ready)
      BY <2>2, <2>5, <3>2
    <3>4. QED  BY <2>2, <3>2, <3>3 DEF Queued
  <2>6. QED  BY <2>1, <2>3, <2>4, <2>5 DEF Inv, QueueInv
<1>6. CASE PickNone
  <2>1. phase = "pick"
    <3>1. phase = "exit" => Queued(0)
      BY SchedulerConstants DEF TypeOK, Inv, KernelTask, QueueInv
    <3>2. ~Queued(0)
      BY <1>6 DEF PickNone, Queued
    <3>3. QED  BY <1>6, <3>1, <3>2 DEF PickNone
  <2>2. QED
    BY <1>6, <2>1
    DEF PickNone, Inv, KernelTask, Unfilled, CurrentAlive, QueueInv, SleeperInv,
        StackInv, Queued, Listed
<1>7. QED  BY <1>1, <1>2, <1>3, <1>4, <1>5, <1>6 DEF Handler

LEMMA InvStep == TypeOK /\ Inv /\ [Next]_vars => Inv'
<1> SUFFICES ASSUME TypeOK, Inv, [Next]_vars
             PROVE  Inv'
  OBVIOUS
<1>1. CASE UNCHANGED vars
  BY <1>1 DEF vars, tableVars, schedVars, stackVars, handlerVars, taskVars, clockVars,
     Inv, KernelTask, Unfilled, CurrentAlive, QueueInv, SleeperInv, StackInv,
     Queued, Listed
<1>2. QED
  BY <1>1, BootInv, RearmInv, TaskStepInv, InterruptInv, HandlerInv DEF Next

THEOREM InvCorrect == Spec => []Inv
BY TypeCorrect, InvInit, InvStep, PTL DEF Spec

-----------------------------------------------------------------------------
(* What the invariant gives *)

LEMMA InvSafety ==
  ASSUME TypeOK, Inv
  PROVE  NoLostTask /\ NeverStuck /\ DeadNeverRuns /\ StacksOfCurrent /\ NoOverdueSleeper
<1>1. NoLostTask /\ NeverStuck /\ DeadNeverRuns /\ StacksOfCurrent
  BY DEF Inv, KernelTask, CurrentAlive, QueueInv, SleeperInv, StackInv,
         NoLostTask, NeverStuck, DeadNeverRuns, StacksOfCurrent
<1>2. NoOverdueSleeper
  <2>1. SUFFICES ASSUME phase = "pick", NEW id \in Id, state[id] = "Sleeping"
                 PROVE  wake[id] > ticks
    BY DEF NoOverdueSleeper
  <2>2. PICK k \in 1 .. Len(sleepers) : sleepers[k] = Sleeper(id, wake[id])
    BY <2>1 DEF Inv, SleeperInv, Listed
  <2>3. sleepers[k].tick = wake[id]
    BY <2>2 DEF Sleeper
  <2>4. QED  BY <2>1, <2>2, <2>3 DEF Inv, SleeperInv
<1>3. QED  BY <1>1, <1>2

(* No task is ever forgotten, whatever the table holds and however the     *)
(* queue's stale and duplicate entries came about.                         *)
THEOREM NoTaskIsLost == Spec => []NoLostTask
BY TypeCorrect, InvCorrect, InvSafety, PTL

(* The halting branch of terminate_current is unreachable.                 *)
THEOREM ExitAlwaysSwitches == Spec => []NeverStuck
BY TypeCorrect, InvCorrect, InvSafety, PTL

(* No code runs in the context of a dead task.                             *)
THEOREM DeadTasksStayDown == Spec => []DeadNeverRuns
BY TypeCorrect, InvCorrect, InvSafety, PTL

(* Both copies of the kernel stack pointer are the running task's.         *)
THEOREM StacksFollowCurrent == Spec => []StacksOfCurrent
BY TypeCorrect, InvCorrect, InvSafety, PTL

(* One pass of the wake loop finds every due sleeper, swap_remove or not.  *)
THEOREM TimerWakesAllDue == Spec => []NoOverdueSleeper
BY TypeCorrect, InvCorrect, InvSafety, PTL

-----------------------------------------------------------------------------
(* The scheduler implements the abstract one, step by step                 *)

\* A task that sleeps waits in sleep_until, for the tick the table has.  Only the
\* running task may have left its loop, when the tick came before the handler
\* looked: then it is overdue.
SleepersWait ==
  /\ \A id \in Id : id < ntasks => state[id] # "None"
  /\ \A id \in Id : state[id] = "Sleeping" =>
       \/ pc[id] \in {"halted", "check"} /\ target[id] = wake[id]
       \/ id = current /\ phase \in {"none", "wake"} /\ wake[id] <= ticks

LEMMA SleepersWaitInit == Init => SleepersWait
BY IdFacts DEF Init, SleepersWait, Id

\* Boot code and the watchdog: task 0 runs and does not sleep.
LEMMA BootWait == ASSUME TypeOK, Inv, SleepersWait, Boot \/ Rearm PROVE SleepersWait'
<1> USE IdFacts
<1>1. CASE SchedInit
  <2>1. /\ state' = [state EXCEPT ![0] = "Ready"] /\ ntasks = 0 /\ ntasks' = 1
        /\ state \in [Id -> {"None", "Ready", "Sleeping", "Dead"}]
        /\ \A id \in Id : state[id] = "None"
    BY <1>1 DEF SchedInit, TypeOK, Inv, Unfilled, Id
  <2>2. state'[0] = "Ready" /\ \A id \in Id : id # 0 => state'[id] = "None"
    BY <2>1
  <2>3. \A id \in Id : id < 1 => id = 0
    BY DEF Id
  <2>4. QED  BY <2>1, <2>2, <2>3 DEF SleepersWait
<1>2. CASE SpawnFull \/ EnterIdle
  <2>1. UNCHANGED <<ntasks, state, wake, current, phase, target, ticks>>
    BY <1>2 DEF SpawnFull, EnterIdle, tableVars, schedVars, handlerVars, taskVars, clockVars
  <2>2. \A id \in Id : state[id] = "Sleeping" => id # 0
    BY DEF TypeOK, Inv, KernelTask
  <2>3. \A id \in Id : id # 0 => pc'[id] = pc[id]
    BY <1>2 DEF SpawnFull, EnterIdle, taskVars, TypeOK
  <2>4. QED  BY <2>1, <2>2, <2>3 DEF SleepersWait
<1>3. CASE Spawn
  <2>1. /\ state' = [state EXCEPT ![ntasks] = "Ready"] /\ ntasks \in Id /\ ntasks' = ntasks + 1
        /\ pc' = [pc EXCEPT ![ntasks] = "run"]
        /\ UNCHANGED <<wake, current, phase, target, ticks>>
    BY <1>3 DEF Spawn, handlerVars, clockVars, TypeOK, Id
  <2>2. /\ state'[ntasks] = "Ready"
        /\ \A id \in Id : id # ntasks => state'[id] = state[id] /\ pc'[id] = pc[id]
    BY <2>1 DEF TypeOK
  <2>3. \A id \in Id : id < ntasks + 1 => id = ntasks \/ id < ntasks
    BY <2>1 DEF Id
  <2>4. QED  BY <2>1, <2>2, <2>3 DEF SleepersWait
<1>4. CASE Rearm
  <2>1. UNCHANGED <<ntasks, state, wake, current, phase, target, pc>> /\ current = 0
    BY <1>4 DEF Rearm, tableVars, schedVars, handlerVars, taskVars
  <2>2. \A id \in Id : state[id] = "Sleeping" => id # 0
    BY DEF TypeOK, Inv, KernelTask
  <2>3. QED  BY <2>1, <2>2 DEF SleepersWait
<1>5. QED  BY <1>1, <1>2, <1>3, <1>4 DEF Boot

LEMMA TaskStepWait ==
  ASSUME TypeOK, Inv, SleepersWait, NEW c \in Id, TaskStep(c)
  PROVE  SleepersWait'
<1> USE IdFacts
<1>1. CASE EnableInterrupts(c) \/ SyscallEntry(c)
  BY <1>1 DEF EnableInterrupts, SyscallEntry, tableVars, schedVars, handlerVars, clockVars,
              SleepersWait
<1>2. ASSUME NEW ms \in 0 .. MaxSleep, SleepMs(c, ms)
      PROVE  SleepersWait'
  <2>1. /\ current = c /\ pc[c] = "run"
        /\ UNCHANGED <<ntasks, state, wake, current, phase, ticks>>
        /\ \A id \in Id : id # c => pc'[id] = pc[id] /\ target'[id] = target[id]
    BY <1>2 DEF SleepMs, Runs, tableVars, schedVars, handlerVars, clockVars, TypeOK
  <2>2. QED  BY <2>1 DEF SleepersWait
<1>3. CASE SleepUntil(c)
  <2>1. /\ current = c /\ phase = "none"
        /\ UNCHANGED <<ntasks, current, phase, target, ticks>>
        /\ state'[c] = "Sleeping" /\ wake'[c] = target[c] /\ pc'[c] = "halted"
        /\ \A id \in Id : id # c =>
             state'[id] = state[id] /\ pc'[id] = pc[id] /\ wake'[id] = wake[id]
    BY <1>3 DEF SleepUntil, tableVars, handlerVars, clockVars, TypeOK
  <2>2. \A id \in Id : id < ntasks' => state'[id] # "None"
    BY <2>1 DEF SleepersWait
  <2>3. ASSUME NEW id \in Id, state'[id] = "Sleeping"
        PROVE  \/ pc'[id] \in {"halted", "check"} /\ target'[id] = wake'[id]
               \/ id = current' /\ phase' \in {"none", "wake"} /\ wake'[id] <= ticks'
    BY <2>1, <2>3 DEF SleepersWait
  <2>4. QED  BY <2>2, <2>3 DEF SleepersWait
<1>4. CASE Recheck(c)
  <2>1. /\ current = c /\ phase = "none" /\ pc[c] = "check"
        /\ UNCHANGED <<ntasks, state, wake, current, phase, target, ticks>>
        /\ pc'[c] = (IF ticks >= target[c] THEN "run" ELSE "halted")
        /\ \A id \in Id : id # c => pc'[id] = pc[id]
    BY <1>4 DEF Recheck, tableVars, schedVars, handlerVars, clockVars, TypeOK
  <2>2. QED  BY <2>1 DEF SleepersWait, TypeOK
<1>5. CASE Exit(c)
  <2>1. /\ current = c
        /\ UNCHANGED <<ntasks, wake, current, target, ticks>>
        /\ state'[c] = "Dead"
        /\ \A id \in Id : id # c => state'[id] = state[id] /\ pc'[id] = pc[id]
    BY <1>5 DEF Exit, Runs, tableVars, clockVars, TypeOK
  <2>2. QED  BY <2>1 DEF SleepersWait
<1>6. QED  BY <1>1, <1>2, <1>3, <1>4, <1>5 DEF TaskStep

LEMMA InterruptWait ==
  ASSUME TypeOK, Inv, SleepersWait, DeviceInterrupt \/ Timer
  PROVE  SleepersWait'
<1>1. /\ UNCHANGED <<ntasks, state, wake, current, target>> /\ pc' = Resumed
      /\ phase = "none" /\ phase' \in {"none", "wake"}
  BY DEF DeviceInterrupt, Timer, tableVars, schedVars, handlerVars
<1>2. ticks \in Nat /\ ticks' \in Nat /\ ticks <= ticks'
  BY SchedulerConstants DEF DeviceInterrupt, Timer, clockVars, TypeOK
<1>3. \A id \in Id : pc[id] \in {"halted", "check"} => pc'[id] \in {"halted", "check"}
  BY <1>1 DEF Resumed, TypeOK
<1>4. \A id \in Id : wake[id] <= ticks => wake[id] <= ticks'
  BY <1>2 DEF TypeOK
<1>5. QED  BY <1>1, <1>3, <1>4 DEF SleepersWait

LEMMA HandlerWait == ASSUME TypeOK, Inv, SleepersWait, Handler PROVE SleepersWait'
<1>1. UNCHANGED <<ntasks, wake, pc, target, ticks>>
  BY DEF Handler, WakeDue, WakeSkip, Requeue, PickSkip, Dispatch, PickNone,
         tableVars, schedVars, taskVars, clockVars
<1>2. CASE WakeDue
  <2>1. sleepers[idx].id \in Id
    <3>1. sleepers[idx] \in SleeperEntry
      BY <1>2, ElementType DEF WakeDue, TypeOK
    <3>2. QED  BY <3>1 DEF SleeperEntry
  <2>2. \A id \in Id : state'[id] = state[id] \/ state'[id] = "Ready"
    BY <1>2, <2>1 DEF WakeDue, TypeOK
  <2>3. phase' = phase /\ current' = current
    BY <1>2 DEF WakeDue, handlerVars
  <2>4. QED  BY <1>1, <2>2, <2>3 DEF SleepersWait
<1>3. CASE WakeSkip \/ PickSkip
  BY <1>1, <1>3 DEF WakeSkip, PickSkip, schedVars, handlerVars, SleepersWait
<1>4. CASE Requeue
  <2>1. phase' = "pick" /\ current' = current /\ state' = state
    BY <1>4 DEF Requeue
  <2>2. ASSUME NEW id \in Id, state[id] = "Sleeping" PROVE wake[id] > ticks
    <3>1. PICK k \in 1 .. Len(sleepers) : sleepers[k] = Sleeper(id, wake[id])
      BY <2>2 DEF Inv, SleeperInv, Listed
    <3>2. k \in 1 .. idx - 1
      BY <1>4 DEF Requeue, TypeOK
    <3>3. sleepers[k].tick > ticks
      BY <1>4, <3>2 DEF Requeue, Inv, SleeperInv
    <3>4. QED  BY <3>1, <3>3 DEF Sleeper
  <2>3. \A id \in Id : ~(wake[id] > ticks /\ wake[id] <= ticks)
    BY SchedulerConstants DEF TypeOK
  <2>4. QED  BY <1>1, <2>1, <2>2, <2>3 DEF SleepersWait
<1>5. CASE Dispatch
  <2>1. phase \in {"pick", "exit"} /\ phase' = "none" /\ state' = state
    BY <1>5 DEF Dispatch
  <2>2. QED  BY <1>1, <2>1 DEF SleepersWait
<1>6. CASE PickNone
  <2>1. phase \in {"pick", "exit"} /\ state' = state /\ current' = current
    BY <1>6 DEF PickNone, schedVars
  <2>2. QED  BY <1>1, <2>1 DEF SleepersWait
<1>7. QED  BY <1>2, <1>3, <1>4, <1>5, <1>6 DEF Handler

LEMMA WaitStep == TypeOK /\ Inv /\ SleepersWait /\ [Next]_vars => SleepersWait'
<1> SUFFICES ASSUME TypeOK, Inv, SleepersWait, [Next]_vars
             PROVE  SleepersWait'
  OBVIOUS
<1>1. CASE UNCHANGED vars
  BY <1>1 DEF vars, tableVars, schedVars, handlerVars, taskVars, clockVars, SleepersWait
<1>2. QED
  BY <1>1, BootWait, TaskStepWait, InterruptWait, HandlerWait DEF Next

\* A step of the running task, or of the boot code, is one of the abstract
\* specification or none.
LEMMA CodeRefines ==
  ASSUME TypeOK, Inv, SleepersWait, Boot \/ \E c \in Id : TaskStep(c)
  PROVE  [Abs!ANext]_(Abs!absVars)
<1> USE IdFacts DEF Abs!absVars
<1>1. CASE SchedInit
  <2>1. state[0] = "None"
    BY <1>1 DEF SchedInit, Inv, Unfilled
  <2>2. Abs!Create(0)
    BY <1>1, <2>1 DEF SchedInit, clockVars, Abs!Create
  <2>3. QED  BY <2>2 DEF Abs!ANext
<1>2. CASE SpawnFull \/ EnterIdle
  BY <1>2 DEF SpawnFull, EnterIdle, schedVars, clockVars
<1>3. CASE Spawn
  <2>1. ntasks \in Id /\ state[ntasks] = "None"
    BY <1>3 DEF Spawn, TypeOK, Inv, Unfilled, Id
  <2>2. Abs!Create(ntasks)
    BY <1>3, <2>1 DEF Spawn, clockVars, Abs!Create
  <2>3. QED  BY <2>1, <2>2 DEF Abs!ANext
<1>4. ASSUME NEW c \in Id, TaskStep(c)
      PROVE  [Abs!ANext]_(Abs!absVars)
  <2>1. CASE EnableInterrupts(c) \/ SyscallEntry(c) \/ Recheck(c)
    BY <2>1 DEF EnableInterrupts, SyscallEntry, Recheck, schedVars, clockVars
  <2>2. ASSUME NEW ms \in 0 .. MaxSleep, SleepMs(c, ms)
        PROVE  UNCHANGED Abs!absVars
    BY <2>2 DEF SleepMs, schedVars, clockVars
  <2>3. current = c /\ c # 0 /\ phase = "none" => state[c] \in {"Ready", "Sleeping"}
    <3>1. state[c] \in {"None", "Ready", "Sleeping", "Dead"}
      BY DEF TypeOK
    <3>2. current = c /\ c # 0 => c < ntasks
      BY DEF Inv, KernelTask, TypeOK, Id
    <3>3. current = c /\ phase = "none" => state[c] # "Dead"
      BY DEF Inv, CurrentAlive
    <3>4. QED  BY <3>1, <3>2, <3>3 DEF SleepersWait
  <2>4. CASE SleepUntil(c)
    <3>1. current = c /\ c # 0 /\ phase = "none" /\ pc[c] = "arm"
      BY <2>4 DEF SleepUntil, Inv, KernelTask
    <3>2. state[c] = "Ready" \/ (state[c] = "Sleeping" /\ wake[c] <= ticks)
      BY <2>3, <3>1 DEF SleepersWait
    <3>3. target[c] \in 0 .. MaxTicks
      BY DEF TypeOK
    <3>4. Abs!Sleep
      BY <2>4, <3>1, <3>2, <3>3 DEF SleepUntil, clockVars, Abs!Sleep
    <3>5. QED  BY <3>4 DEF Abs!ANext
  <2>5. CASE Exit(c)
    <3>1. current = c /\ c # 0 /\ phase = "none"
      BY <2>5 DEF Exit, Runs
    <3>2. Abs!End
      BY <2>3, <2>5, <3>1 DEF Exit, clockVars, Abs!End
    <3>3. QED  BY <3>2 DEF Abs!ANext
  <2>6. QED  BY <1>4, <2>1, <2>2, <2>4, <2>5 DEF TaskStep
<1>5. QED  BY <1>1, <1>2, <1>3, <1>4 DEF Boot

\* So is a step of the clock, an interrupt or the handler.
LEMMA KernelRefines ==
  ASSUME TypeOK, Inv, Rearm \/ DeviceInterrupt \/ Timer \/ Handler
  PROVE  [Abs!ANext]_(Abs!absVars)
<1> USE DEF Abs!absVars
<1>1. CASE Rearm \/ Timer
  <2>1. UNCHANGED <<state, wake, current>>
    BY <1>1 DEF Rearm, Timer, schedVars
  <2>2. ticks' \in 0 .. MaxTicks /\ (ticks' = 0 \/ ticks' = ticks + 1 \/ ticks' = ticks)
    BY <1>1, SchedulerConstants DEF Rearm, Timer, TypeOK
  <2>3. CASE ticks' = ticks
    BY <2>1, <2>3
  <2>4. CASE ticks' # ticks
    <3>1. Abs!Clock
      BY <2>1, <2>2, <2>4 DEF Abs!Clock
    <3>2. QED  BY <3>1 DEF Abs!ANext
  <2>5. QED  BY <2>3, <2>4
<1>2. CASE DeviceInterrupt
  BY <1>2 DEF DeviceInterrupt, schedVars, clockVars
<1>3. CASE WakeDue
  <2> DEFINE s == sleepers[idx]
  <2>1. s.id \in Id
    <3>1. s \in SleeperEntry
      BY <1>3, ElementType DEF WakeDue, TypeOK
    <3>2. QED  BY <3>1 DEF SleeperEntry
  <2>2. UNCHANGED <<wake, current, ticks>>
    BY <1>3 DEF WakeDue, clockVars
  <2>3. CASE state[s.id] = "Sleeping" /\ wake[s.id] = s.tick
    <3>1. state' = [state EXCEPT ![s.id] = "Ready"] /\ s.tick <= ticks
      BY <1>3, <2>3, Zenon DEF WakeDue
    <3>2. Abs!Wake(s.id)
      BY <2>2, <2>3, <3>1 DEF Abs!Wake
    <3>3. QED  BY <2>1, <3>2 DEF Abs!ANext
  <2>4. CASE ~(state[s.id] = "Sleeping" /\ wake[s.id] = s.tick)
    <3>1. state' = state
      BY <1>3, <2>4, Zenon DEF WakeDue
    <3>2. QED  BY <2>2, <3>1
  <2>5. QED  BY <2>3, <2>4
<1>4. CASE WakeSkip \/ Requeue \/ PickSkip \/ PickNone
  BY <1>4 DEF WakeSkip, Requeue, PickSkip, PickNone, schedVars, clockVars
<1>5. CASE Dispatch
  <2>1. Head(ready) \in Id
    BY <1>5, TailKeeps DEF Dispatch, TypeOK
  <2>2. Abs!Give(Head(ready))
    BY <1>5 DEF Dispatch, Skipped, clockVars, Abs!Give
  <2>3. QED  BY <2>1, <2>2 DEF Abs!ANext
<1>6. QED  BY <1>1, <1>2, <1>3, <1>4, <1>5 DEF Handler

(* Every step of the scheduler is a step of the abstract one or leaves it  *)
(* alone: only the running task goes to sleep or ends, no sleeper wakes    *)
(* before its tick, and the CPU only goes to ready tasks.  With the        *)
(* fairness of the abstract specification, which TLC checks, this is       *)
(* ImplementsAbstract.                                                     *)
THEOREM StepsImplementAbstract == Spec => Abs!AInit /\ [][Abs!ANext]_(Abs!absVars)
<1>1. Init => Abs!AInit
  BY DEF Init, Abs!AInit
<1>2. Init => SleepersWait
  BY SleepersWaitInit
<1>3. TypeOK /\ Inv /\ SleepersWait /\ [Next]_vars => SleepersWait'
  BY WaitStep
<1>4. TypeOK /\ Inv /\ SleepersWait /\ [Next]_vars => [Abs!ANext]_(Abs!absVars)
  <2> SUFFICES ASSUME TypeOK, Inv, SleepersWait, [Next]_vars
               PROVE  [Abs!ANext]_(Abs!absVars)
    OBVIOUS
  <2>1. CASE UNCHANGED vars
    BY <2>1 DEF vars, schedVars, clockVars, Abs!absVars
  <2>2. QED  BY <2>1, CodeRefines, KernelRefines DEF Next
<1>5. QED  BY <1>1, <1>2, <1>3, <1>4, TypeCorrect, InvCorrect, PTL DEF Spec

-----------------------------------------------------------------------------
(* Round robin with at most three tasks.  QueueBounded and BoundedBypass   *)
(* speak of the ready queue alone; what keeps it in order is the order of  *)
(* the sleeper list, because one pass of the wake loop may push two tasks  *)
(* and the end of schedule() pushes the interrupted one once more.         *)

\* A sleeper entry whose tick is still to come, one of a live task, and one of
\* the running task.
Late(k) == sleepers[k].tick > ticks
Alive(k) == state[sleepers[k].id] # "Dead"
Own(k) == sleepers[k].id = current

\* The running task may have left any number of expired entries behind, but a
\* late one only while it waits in sleep_until, and then just that one.
OwnEntries ==
  \A k \in DOMAIN sleepers : Own(k) /\ Late(k) =>
    /\ state[current] = "Sleeping" /\ pc[current] \in {"halted", "check"}
    /\ sleepers[k].tick = wake[current] /\ target[current] = wake[current]
    /\ \A j \in DOMAIN sleepers : Own(j) /\ Late(j) => j = k

\* Any other live task has an entry only while it sleeps, one, and it stands
\* before all those of the running task: it was there first.  This is where
\* three tasks matter: swap_remove keeps the order of two tasks' entries.
OtherEntries ==
  \A k \in DOMAIN sleepers : ~Own(k) /\ Alive(k) =>
    /\ state[sleepers[k].id] = "Sleeping"
    /\ \A j \in DOMAIN sleepers : sleepers[j].id = sleepers[k].id => j = k
    /\ \A j \in DOMAIN sleepers : Own(j) => k < j

SleeperOrder ==
  /\ \A k \in DOMAIN sleepers : sleepers[k].id \in 1 .. ntasks - 1
  /\ OwnEntries /\ OtherEntries

\* In the first m entries of the queue a task occurs at most twice, and side by
\* side, the running task at the head only.
Close(m) ==
  /\ \A i, k \in 1 .. m : i < k /\ ready[i] = ready[k] => k = i + 1
  /\ \A k \in 1 .. m : ready[k] = current => k = 1

\* How often schedule() may have pushed the interrupted task so far: by its wake
\* loop, and at its end.
Pushed == CASE phase = "wake" -> 1 [] phase = "pick" -> 2 [] OTHER -> 0

\* Behind the first m there are only entries of the interrupted task pushed by
\* this run of schedule().  Once the wake loop has pushed it, no other live task
\* is left to be woken.
Behind(m) ==
  /\ \A k \in m + 1 .. Len(ready) : ready[k] = current
  /\ Len(ready) <= m + Pushed
  /\ m < Len(ready) => state[current] = "Ready"
  /\ m < Len(ready) /\ phase = "wake" =>
       \A k \in idx .. Len(sleepers) : Own(k) \/ ~Alive(k)

QueueOrder ==
  /\ \A k \in DOMAIN ready : ready[k] < ntasks
  /\ \A k \in DOMAIN ready : ready[k] # current => state[ready[k]] = "Ready"
  /\ \E m \in 0 .. Len(ready) : Close(m) /\ Behind(m)

Rounds == SleeperOrder /\ QueueOrder
RoundInv == ntasks <= 3 => Rounds

(* What the type invariant says of the two queues, entry by entry.         *)
LEMMA SleeperTypes ==
  ASSUME TypeOK
  PROVE  /\ DOMAIN sleepers = 1 .. Len(sleepers) /\ Len(sleepers) \in Nat
         /\ \A k \in DOMAIN sleepers : sleepers[k].tick \in Nat /\ sleepers[k].id \in Nat
         /\ DOMAIN ready = 1 .. Len(ready) /\ Len(ready) \in Nat
         /\ \A k \in DOMAIN ready : ready[k] \in Id
         /\ ticks \in Nat /\ ntasks \in Nat /\ current \in Id
<1>1. sleepers \in Seq(SleeperEntry) /\ ready \in Seq(Id)
  BY DEF TypeOK
<1>2. /\ DOMAIN sleepers = 1 .. Len(sleepers) /\ Len(sleepers) \in Nat
      /\ DOMAIN ready = 1 .. Len(ready) /\ Len(ready) \in Nat
      /\ \A k \in 1 .. Len(ready) : ready[k] \in Id
      /\ \A k \in 1 .. Len(sleepers) : sleepers[k] \in SleeperEntry
  BY ONLY <1>1
<1>3. \A e \in SleeperEntry : e.tick \in Nat /\ e.id \in Nat
  BY SchedulerConstants, IdFacts DEF SleeperEntry
<1> QED BY <1>2, <1>3, SchedulerConstants DEF TypeOK

(* A step of task code, or the start of a handler, leaves the queue as it  *)
(* is and takes no other task out of the ready state.                      *)
LEMMA QueueFrame ==
  ASSUME TypeOK, QueueOrder, phase = "none", UNCHANGED <<ready, current>>,
         ntasks' \in Nat, ntasks <= ntasks', phase' \in {"none", "exit", "wake"},
         \A id \in Id \ {current} : state[id] = "Ready" => state'[id] = "Ready"
  PROVE  QueueOrder'
<1>1. PICK m \in 0 .. Len(ready) : Close(m) /\ Behind(m)
  BY DEF QueueOrder
<1>2. m = Len(ready)
  BY <1>1, SleeperTypes DEF Behind, Pushed
<1>3. Close(m)' /\ Behind(m)'
  BY <1>1, <1>2, SleeperTypes DEF Close, Behind, Pushed
<1>4. \A k \in DOMAIN ready : ready[k] < ntasks'
  BY SleeperTypes, IdFacts DEF QueueOrder
<1> QED BY <1>1, <1>3, <1>4, SleeperTypes DEF QueueOrder

(* ... and one that leaves the sleeper list as it is owes only the clause  *)
(* about the running task's own entries.                                   *)
LEMMA SleeperFrame ==
  ASSUME TypeOK, SleeperOrder, UNCHANGED <<sleepers, current>>, ntasks' \in Nat,
                                           ntasks <= ntasks',
         \A id \in 1 .. ntasks - 1 : id # current => state'[id] = state[id],
         OwnEntries'
  PROVE  SleeperOrder'
<1>1. \A k \in DOMAIN sleepers : sleepers[k].id \in 1 .. ntasks - 1
  BY DEF SleeperOrder
<1>2. OtherEntries'
  BY <1>1 DEF SleeperOrder, OtherEntries, Own, Alive
<1> QED BY <1>1, <1>2, SleeperTypes DEF SleeperOrder

(* That clause holds on while the running task stays where it is, ...      *)
LEMMA OwnFrame ==
  ASSUME OwnEntries, UNCHANGED <<sleepers, current, ticks, wake, target>>,
         state'[current] = state[current],
         pc[current] \in {"halted", "check"} => pc'[current] \in {"halted", "check"}
  PROVE  OwnEntries'
BY DEF OwnEntries, Own, Late

(* ... all its entries have expired once it has left sleep_until, ...      *)
LEMMA NoneLate ==
  ASSUME OwnEntries, pc[current] \notin {"halted", "check"}
  PROVE  \A k \in DOMAIN sleepers : Own(k) => ~Late(k)
BY DEF OwnEntries

(* ... and expired entries of its own never disturb the clause.            *)
LEMMA ExpiredFrame ==
  ASSUME OwnEntries, pc[current] \notin {"halted", "check"}, UNCHANGED <<sleepers,
                                                                         current, ticks>>
  PROVE  OwnEntries'
<1>1. \A k \in DOMAIN sleepers : Own(k) => ~Late(k)
  BY NoneLate
<1> QED BY <1>1 DEF OwnEntries, Own, Late

(* Steps that move a program counter only.                                 *)
LEMMA FrameRounds ==
  ASSUME TypeOK, Rounds, phase = "none",
         UNCHANGED <<ntasks, state, wake, target, ready, sleepers, current, phase,
                     ticks>>,
         pc[current] \in {"halted", "check"} => pc'[current] \in {"halted", "check"}
  PROVE  Rounds'
<1>1. QueueOrder'
  BY QueueFrame, SleeperTypes DEF Rounds
<1>2. OwnEntries'
  BY OwnFrame DEF Rounds, SleeperOrder
<1>3. SleeperOrder'
  BY <1>2, SleeperFrame, SleeperTypes DEF Rounds
<1> QED BY <1>1, <1>3 DEF Rounds

(* init() and spawn() queue a task that is in neither queue.               *)
LEMMA BootRounds ==
  ASSUME TypeOK, Inv, Rounds, Boot, TypeOK'
  PROVE  Rounds'
<1>1. CASE SchedInit
  <2>1. /\ ntasks = 0 /\ ntasks' = 1 /\ current = 0 /\ phase = "none"
        /\ ready' = Append(ready, 0) /\ state' = [state EXCEPT ![0] = "Ready"]
        /\ UNCHANGED <<wake, target, sleepers, current, phase, pc, idx, ticks>>
    BY <1>1 DEF SchedInit, stackVars, handlerVars, taskVars, clockVars
  <2>2. \A id \in Id : state[id] = "None"
    BY <2>1, IdFacts DEF Inv, Unfilled, Id
  <2>3. DOMAIN sleepers = {}
    BY <2>1, SleeperTypes DEF Rounds, SleeperOrder
  <2>4. ready = << >>
    <3>1. DOMAIN ready = {}
      BY <2>1, SleeperTypes, IdFacts DEF Rounds, QueueOrder
    <3> QED BY <3>1 DEF TypeOK
  <2>5. ready' = <<0>>
    BY <2>1, <2>4
  <2>6. SleeperOrder'
    BY <2>1, <2>3 DEF SleeperOrder, OwnEntries, OtherEntries
  <2>7. Close(1)' /\ Behind(1)'
    BY <2>1, <2>5 DEF Close, Behind, Pushed
  <2> QED BY <2>1, <2>5, <2>6, <2>7 DEF Rounds, QueueOrder
<1>2. CASE SpawnFull
  BY <1>2, FrameRounds DEF SpawnFull, schedVars, stackVars, handlerVars, taskVars,
     clockVars
<1>3. CASE Spawn
  <2>1. /\ ntasks' = ntasks + 1 /\ current = 0 /\ phase = "none" /\ ntasks \in Id
        /\ ready' = Append(ready, ntasks) /\ state' = [state EXCEPT ![ntasks] = "Ready"]
        /\ pc' = [pc EXCEPT ![ntasks] = "run"] /\ ntasks # 0
        /\ UNCHANGED <<wake, target, sleepers, current, phase, idx, ticks>>
    BY <1>3, SchedulerConstants DEF Spawn, stackVars, handlerVars, clockVars, TypeOK, Id
  <2>2. /\ state'[ntasks] = "Ready" /\ \A id \in Id \ {ntasks} : state'[id] = state[id]
        /\ pc'[0] = pc[0] /\ state[ntasks] = "None"
    BY <2>1, IdFacts DEF TypeOK, Inv, Unfilled
  <2>3. SleeperOrder'
    <3>1. \A id \in 1 .. ntasks - 1 : id \in Id /\ id # ntasks
      BY <2>1, SchedulerConstants DEF Id
    <3>2. OwnEntries'
      BY <2>1, <2>2, OwnFrame, IdFacts DEF Rounds, SleeperOrder
    <3> QED BY <2>1, <2>2, <3>1, <3>2, SleeperFrame, SleeperTypes DEF Rounds
  <2>4. PICK m \in 0 .. Len(ready) : Close(m) /\ Behind(m)
    BY DEF Rounds, QueueOrder
  <2>5. m = Len(ready)
    BY <2>1, <2>4, SleeperTypes DEF Behind, Pushed
  <2>6. /\ Len(ready') = Len(ready) + 1 /\ Len(ready) \in Nat
        /\ DOMAIN ready' = 1 .. Len(ready) + 1
        /\ ready'[Len(ready) + 1] = ntasks
        /\ \A k \in 1 .. Len(ready) : ready'[k] = ready[k] /\ ready[k] < ntasks /\ ready[k] \in Nat
    <3>1. /\ Len(ready') = Len(ready) + 1 /\ Len(ready) \in Nat
          /\ DOMAIN ready' = 1 .. Len(ready) + 1
          /\ ready'[Len(ready) + 1] = ntasks
          /\ \A k \in 1 .. Len(ready) : ready'[k] = ready[k]
      <4>1. ready \in Seq(Id) BY DEF TypeOK
      <4>2. ready' = Append(ready, ntasks) /\ ntasks \in Id BY <2>1
      <4> QED BY ONLY <4>1, <4>2
    <3> QED BY <3>1, SleeperTypes, IdFacts DEF Rounds, QueueOrder
  <2>7. Close(m + 1)'
    BY <2>1, <2>4, <2>5, <2>6, SleeperTypes DEF Close
  <2>8. Behind(m + 1)'
    BY <2>1, <2>5, <2>6 DEF Behind, Pushed
  <2>9. \A k \in DOMAIN ready' : /\ ready'[k] < ntasks'
                                 /\ (ready'[k] # current' => state'[ready'[k]] = "Ready")
    <3> SUFFICES ASSUME NEW k \in 1 .. Len(ready) + 1
                 PROVE  /\ ready'[k] < ntasks'
                        /\ (ready'[k] # current' => state'[ready'[k]] = "Ready")
      BY <2>6
    <3>1. CASE k = Len(ready) + 1
      BY <2>1, <2>2, <2>6, <3>1, SleeperTypes
    <3>2. CASE k # Len(ready) + 1
      <4>1. k \in 1 .. Len(ready) /\ k \in DOMAIN ready BY <2>6, <3>2, SleeperTypes
      <4>2. ready[k] \in Id /\ ready'[k] = ready[k] /\ ready[k] < ntasks
                            /\ ready[k] \in Nat
        BY <2>6, <4>1, SleeperTypes
      <4>3. ready[k] # current => state[ready[k]] = "Ready" BY <4>1 DEF Rounds, QueueOrder
      <4>4. state'[ready[k]] = state[ready[k]] BY <2>2, <4>2, SleeperTypes
      <4> QED BY <2>1, <4>2, <4>3, <4>4, SleeperTypes
    <3> QED BY <3>1, <3>2
  <2> QED BY <2>3, <2>5, <2>6, <2>7, <2>8, <2>9 DEF Rounds, QueueOrder
<1>4. CASE EnterIdle
  <2>1. /\ phase = "none" /\ current = 0 /\ pc[0] = "boot"
        /\ UNCHANGED <<ntasks, state, wake, target, ready, sleepers, current, phase,
                       ticks>>
    BY <1>4 DEF EnterIdle, tableVars, schedVars, stackVars, handlerVars, clockVars
  <2> QED BY <2>1, FrameRounds
<1> QED BY <1>1, <1>2, <1>3, <1>4 DEF Boot

(* The watchdog resets TICKS, but task 0, which runs then, never sleeps.   *)
LEMMA RearmRounds ==
  ASSUME TypeOK, Inv, Rounds, Rearm
  PROVE  Rounds'
<1>1. /\ phase = "none" /\ current = 0
      /\ UNCHANGED <<ntasks, state, ready, sleepers, current, phase>>
  BY DEF Rearm, tableVars, schedVars, stackVars, handlerVars, taskVars
<1>2. \A k \in DOMAIN sleepers : ~Own(k)
  BY <1>1 DEF Rounds, SleeperOrder, Own
<1>3. OwnEntries'
  BY <1>1, <1>2 DEF OwnEntries, Own
<1>4. SleeperOrder'
  BY <1>1, <1>3, SleeperFrame, SleeperTypes DEF Rounds
<1> QED BY <1>1, <1>4, QueueFrame, SleeperTypes DEF Rounds

(* An interrupt ends the hlt of sleep_until; a tick only expires entries.  *)
LEMMA InterruptRounds ==
  ASSUME TypeOK, Inv, Rounds, DeviceInterrupt \/ Timer, TypeOK'
  PROVE  Rounds'
<1>1. pc[current] \in {"halted", "check"} => Resumed[current] \in {"halted", "check"}
  BY DEF Resumed, TypeOK
<1>2. CASE DeviceInterrupt
  BY <1>1, <1>2, FrameRounds DEF DeviceInterrupt, tableVars, schedVars, stackVars,
     handlerVars, clockVars
<1>3. CASE Timer
  <2>1. /\ phase = "none" /\ phase' \in {"none", "wake"} /\ pc' = Resumed
        /\ UNCHANGED <<ntasks, state, wake, target, ready, sleepers, current>>
        /\ ticks' \in Nat /\ ticks <= ticks'
    BY <1>3, SleeperTypes, SchedulerConstants
    DEF Timer, tableVars, schedVars, stackVars, handlerVars, TypeOK
  <2>2. OwnEntries'
    <3>1. \A k \in DOMAIN sleepers : Late(k)' => Late(k)
      BY <2>1, SleeperTypes DEF Late
    <3> QED BY <1>1, <2>1, <3>1 DEF Rounds, SleeperOrder, OwnEntries, Own
  <2>3. SleeperOrder'
    BY <2>1, <2>2, SleeperFrame, SleeperTypes DEF Rounds
  <2> QED BY <2>1, <2>3, QueueFrame, SleeperTypes DEF Rounds
<1> QED BY <1>2, <1>3

(* sleep_until appends the running task's entry, behind those of the       *)
(* others, when all its earlier ones have expired.                         *)
LEMMA SleepUntilRounds ==
  ASSUME TypeOK, Inv, Rounds, NEW c \in Id, SleepUntil(c), TypeOK'
  PROVE  Rounds'
<1> DEFINE e == Sleeper(c, target[c])
<1>1. /\ phase = "none" /\ current = c /\ pc[c] = "arm" /\ c # 0
      /\ state' = [state EXCEPT ![c] = "Sleeping"]
      /\ wake' = [wake EXCEPT ![c] = target[c]]
      /\ pc' = [pc EXCEPT ![c] = "halted"]
      /\ UNCHANGED <<ntasks, ready, current, target, phase, idx, ticks>>
  BY DEF SleepUntil, tableVars, stackVars, handlerVars, clockVars, Inv, KernelTask
<1>2. /\ state'[c] = "Sleeping" /\ wake'[c] = target[c] /\ pc'[c] = "halted"
      /\ \A id \in Id \ {c} : state'[id] = state[id]
  BY <1>1 DEF TypeOK
<1>3. c \in 1 .. ntasks - 1
  BY <1>1, SchedulerConstants, SleeperTypes DEF Inv, KernelTask, Unfilled,
     CurrentAlive, Id
<1>4. PICK n \in Nat : /\ Len(sleepers) = n /\ DOMAIN sleepers = 1 .. n
                       /\ DOMAIN sleepers' = 1 .. n + 1 /\ sleepers'[n + 1] = e
                       /\ \A k \in 1 .. n : sleepers'[k] = sleepers[k]
  <2>1. sleepers \in Seq(SleeperEntry) /\ e \in SleeperEntry
    BY DEF TypeOK, Sleeper, SleeperEntry
  <2>2. sleepers' = Append(sleepers, e)
    BY DEF SleepUntil
  <2> HIDE DEF e
  <2> QED BY ONLY <2>1, <2>2
<1>5. e.id = c /\ e.tick = target[c]
  BY DEF Sleeper
<1> HIDE DEF e
<1>6. \A k \in 1 .. n : Own(k) => ~Late(k)
  BY <1>1, <1>4, NoneLate DEF Rounds, SleeperOrder
<1>7. /\ \A k \in 1 .. n : (Own(k)' <=> Own(k)) /\ (Late(k)' <=> Late(k))
      /\ Own(n + 1)'
  BY <1>1, <1>4, <1>5 DEF Own, Late
<1>8. \A k \in 1 .. n + 1 : Own(k)' /\ Late(k)' => k = n + 1
  BY <1>4, <1>6, <1>7
<1>9. OwnEntries'
  <2> SUFFICES ASSUME NEW k \in 1 .. n + 1, Own(k)', Late(k)'
               PROVE  /\ state'[c] = "Sleeping" /\ pc'[c] \in {"halted", "check"}
                      /\ sleepers'[k].tick = wake'[c] /\ target'[c] = wake'[c]
                      /\ \A j \in 1 .. n + 1 : Own(j)' /\ Late(j)' => j = k
    BY <1>1, <1>4 DEF OwnEntries
  <2> QED BY <1>1, <1>2, <1>4, <1>5, <1>8
<1>10. \A k \in 1 .. n : sleepers[k].id \in 1 .. ntasks - 1 /\ sleepers[k].id \in Id
  <2>1. \A k \in 1 .. n : sleepers[k].id \in 1 .. ntasks - 1
    BY <1>4 DEF Rounds, SleeperOrder
  <2>2. \A id \in 1 .. ntasks - 1 : id \in Id
    BY SchedulerConstants DEF TypeOK, Id
  <2> QED BY <2>1, <2>2
<1>11. OtherEntries'
  <2> SUFFICES ASSUME NEW k \in 1 .. n + 1, ~Own(k)', Alive(k)'
               PROVE  /\ state'[sleepers'[k].id] = "Sleeping"
                      /\ \A j \in 1 .. n + 1 : sleepers'[j].id = sleepers'[k].id => j = k
                      /\ \A j \in 1 .. n + 1 : Own(j)' => k < j
    BY <1>4 DEF OtherEntries
  <2>1. k \in 1 .. n /\ ~Own(k) /\ sleepers[k].id # c /\ Alive(k)
    <3>1. k \in 1 .. n
      BY <1>7
    <3>2. ~Own(k) /\ sleepers[k].id # c
      BY <1>1, <1>7, <3>1 DEF Own
    <3>3. sleepers'[k] = sleepers[k] /\ sleepers[k].id \in Id \ {c}
      BY <1>4, <1>10, <3>1, <3>2
    <3> QED BY <1>2, <3>1, <3>2, <3>3 DEF Alive
  <2>2. /\ state[sleepers[k].id] = "Sleeping"
        /\ \A j \in 1 .. n : sleepers[j].id = sleepers[k].id => j = k
        /\ \A j \in 1 .. n : Own(j) => k < j
    BY <1>4, <2>1 DEF Rounds, SleeperOrder, OtherEntries
  <2>3. state'[sleepers[k].id] = "Sleeping" /\ sleepers'[k] = sleepers[k]
    BY <1>2, <1>4, <1>10, <2>1, <2>2
  <2>4. ASSUME NEW j \in 1 .. n + 1
        PROVE  /\ sleepers'[j].id = sleepers[k].id => j = k
               /\ Own(j)' => k < j
    <3>1. CASE j = n + 1
      BY <1>4, <1>5, <2>1, <3>1
    <3>2. CASE j # n + 1
      <4>1. j \in 1 .. n /\ sleepers'[j] = sleepers[j]
        BY <1>4, <3>2
      <4> QED BY <1>7, <2>2, <4>1
    <3> QED BY <3>1, <3>2
  <2> QED BY <2>3, <2>4
<1>12. SleeperOrder'
  BY <1>1, <1>3, <1>4, <1>5, <1>9, <1>10, <1>11 DEF SleeperOrder
<1>13. QueueOrder'
  BY <1>1, <1>2, QueueFrame, SleeperTypes DEF Rounds
<1> QED BY <1>12, <1>13 DEF Rounds

(* Task code: leaving the loop of sleep_until, or dying, with no late entry*)
(* of its own.                                                             *)
LEMMA TaskStepRounds ==
  ASSUME TypeOK, Inv, Rounds, NEW c \in Id, TaskStep(c), TypeOK'
  PROVE  Rounds'
<1>1. CASE EnableInterrupts(c) \/ SyscallEntry(c)
  <2>1. /\ phase = "none" /\ pc' = pc
        /\ UNCHANGED <<ntasks, state, wake, target, ready, sleepers, current, phase,
                       ticks>>
    BY <1>1 DEF EnableInterrupts, SyscallEntry, Runs, tableVars, schedVars, stackVars,
       handlerVars, clockVars
  <2> QED BY <2>1, FrameRounds
<1>2. ASSUME NEW ms \in 0 .. MaxSleep, SleepMs(c, ms)
      PROVE  Rounds'
  <2>1. /\ phase = "none" /\ pc[current] = "run"
        /\ UNCHANGED <<ntasks, state, wake, ready, sleepers, current, phase, ticks>>
    BY <1>2 DEF SleepMs, Runs, tableVars, schedVars, stackVars, handlerVars, clockVars
  <2>2. OwnEntries'
    BY <2>1, ExpiredFrame DEF Rounds, SleeperOrder
  <2>3. SleeperOrder'
    BY <2>1, <2>2, SleeperFrame, SleeperTypes DEF Rounds
  <2> QED BY <2>1, <2>3, QueueFrame, SleeperTypes DEF Rounds
<1>3. CASE SleepUntil(c)
  BY <1>3, SleepUntilRounds
<1>4. CASE Recheck(c)
  <2>1. /\ phase = "none" /\ current = c /\ pc[c] = "check"
        /\ pc' = [pc EXCEPT ![c] = IF ticks >= target[c] THEN "run" ELSE "halted"]
        /\ UNCHANGED <<ntasks, state, wake, target, ready, sleepers, current, phase,
                       ticks>>
    BY <1>4 DEF Recheck, tableVars, schedVars, stackVars, handlerVars, clockVars
  <2>2. OwnEntries'
    <3>1. CASE ticks >= target[c]
      <4>1. \A k \in DOMAIN sleepers : Own(k) => ~Late(k)
        <5>1. \A k \in DOMAIN sleepers : Own(k) /\ Late(k) =>
                sleepers[k].tick = wake[c] /\ target[c] = wake[c]
          BY <2>1 DEF Rounds, SleeperOrder, OwnEntries
        <5>2. target[c] \in Nat /\ ticks \in Nat
          BY SchedulerConstants, SleeperTypes DEF TypeOK
        <5> QED BY ONLY <3>1, <5>1, <5>2 DEF Late
      <4> QED BY <2>1, <4>1 DEF OwnEntries, Own, Late
    <3>2. CASE ~(ticks >= target[c])
      <4>1. pc'[current] = "halted"
        BY <2>1, <3>2 DEF TypeOK
      <4> QED BY <2>1, <4>1, OwnFrame DEF Rounds, SleeperOrder
    <3> QED BY <3>1, <3>2
  <2>3. SleeperOrder'
    BY <2>1, <2>2, SleeperFrame, SleeperTypes DEF Rounds
  <2> QED BY <2>1, <2>3, QueueFrame, SleeperTypes DEF Rounds
<1>5. CASE Exit(c)
  <2>1. /\ phase = "none" /\ phase' = "exit" /\ current = c /\ pc[current] = "run"
        /\ state' = [state EXCEPT ![c] = "Dead"]
        /\ UNCHANGED <<ntasks, wake, target, ready, sleepers, current, ticks>>
    BY <1>5 DEF Exit, Runs, tableVars, stackVars, clockVars
  <2>2. \A id \in Id \ {c} : state'[id] = state[id]
    BY <2>1 DEF TypeOK
  <2>3. OwnEntries'
    BY <2>1, ExpiredFrame DEF Rounds, SleeperOrder
  <2>4. \A id \in 1 .. ntasks - 1 : id \in Id
    BY SchedulerConstants DEF TypeOK, Id
  <2>5. SleeperOrder'
    BY <2>1, <2>2, <2>3, <2>4, SleeperFrame, SleeperTypes DEF Rounds
  <2> QED BY <2>1, <2>2, <2>5, QueueFrame, SleeperTypes DEF Rounds
<1> QED BY <1>1, <1>2, <1>3, <1>4, <1>5 DEF TaskStep

\* Where the entry at k comes from after swap_remove(idx), and whether the
\* entry wakes its task.
Source(k) == IF k = idx THEN Len(sleepers) ELSE k
Wakes(s) == state[s.id] = "Sleeping" /\ wake[s.id] = s.tick

(* One iteration of the wake loop that removes an entry: where each of the *)
(* remaining ones comes from.                                              *)
LEMMA WakeDueFrame ==
  ASSUME TypeOK, WakeDue
  PROVE  /\ phase = "wake" /\ idx \in 1 .. Len(sleepers) /\ Len(sleepers) \in Nat
         /\ sleepers[idx].tick <= ticks
         /\ UNCHANGED <<ntasks, wake, target, current, phase, idx, pc, ticks>>
         /\ DOMAIN sleepers' = 1 .. Len(sleepers) - 1
         /\ Len(sleepers') = Len(sleepers) - 1
         /\ \A k \in DOMAIN sleepers' : /\ sleepers'[k] = sleepers[Source(k)]
                                        /\ Source(k) \in DOMAIN sleepers
                                        /\ Source(k) # idx /\ Source(k) >= k
         /\ \A j, k \in DOMAIN sleepers' : Source(j) = Source(k) => j = k
<1>1. /\ phase = "wake" /\ idx \in 1 .. Len(sleepers) /\ Len(sleepers) \in Nat
      /\ sleepers[idx].tick <= ticks
      /\ UNCHANGED <<ntasks, wake, target, current, phase, idx, pc, ticks>>
  BY DEF WakeDue, tableVars, stackVars, handlerVars, taskVars, clockVars, TypeOK
<1>2. sleepers' = SwapRemove(sleepers, idx)
  BY Zenon DEF WakeDue
<1> DEFINE r == SwapRemove(sleepers, idx)
<1>3. /\ Len(r) = Len(sleepers) - 1 /\ r \in Seq(SleeperEntry)
      /\ \A k \in 1 .. Len(sleepers) - 1 :
           r[k] = IF k = idx THEN sleepers[Len(sleepers)] ELSE sleepers[k]
  <2>1. sleepers \in Seq(SleeperEntry) /\ idx \in 1 .. Len(sleepers)
    BY <1>1 DEF TypeOK
  <2> QED BY ONLY <2>1, SwapRemoveKeeps, ZenonT(40)
<1> HIDE DEF r
<1>4. Len(sleepers') = Len(sleepers) - 1 /\ DOMAIN sleepers' = 1 .. Len(sleepers) - 1
  <2>1. Len(r) = Len(sleepers) - 1 /\ DOMAIN r = 1 .. Len(r)
    BY <1>3
  <2> QED BY <1>2, <2>1 DEF r
<1>5. \A k \in 1 .. Len(sleepers) - 1 :
        sleepers'[k] = IF k = idx THEN sleepers[Len(sleepers)] ELSE sleepers[k]
  BY <1>2, <1>3 DEF r
<1>6. ASSUME NEW k \in 1 .. Len(sleepers) - 1
      PROVE  /\ sleepers'[k] = sleepers[Source(k)]
             /\ Source(k) \in DOMAIN sleepers /\ Source(k) # idx /\ Source(k) >= k
  <2>1. Source(k) \in 1 .. Len(sleepers) /\ Source(k) # idx /\ Source(k) >= k
    BY <1>1 DEF Source
  <2>2. sleepers'[k] = sleepers[Source(k)]
    BY <1>5 DEF Source
  <2> QED BY <2>1, <2>2, SleeperTypes
<1>7. ASSUME NEW j \in 1 .. Len(sleepers) - 1, NEW k \in 1 .. Len(sleepers) - 1,
             Source(j) = Source(k)
      PROVE  j = k
  BY <1>1, <1>7 DEF Source
<1> QED BY <1>1, <1>4, <1>6, <1>7

(* ... whose state it changes and what it pushes, ...                      *)
LEMMA WakeDueStates ==
  ASSUME TypeOK, Rounds, WakeDue
  PROVE  LET s == sleepers[idx] IN
         /\ s.id \in Id /\ s.id \in 1 .. ntasks - 1
         /\ Wakes(s) => /\ state[s.id] = "Sleeping" /\ state'[s.id] = "Ready"
                        /\ ready' = Append(ready, s.id)
         /\ ~Wakes(s) => UNCHANGED <<state, ready>>
         /\ \A id \in Id : id # s.id => state'[id] = state[id]
<1> DEFINE s == sleepers[idx]
<1>1. s.id \in 1 .. ntasks - 1 /\ s.id \in Id
  <2>1. s.id \in 1 .. ntasks - 1
    BY WakeDueFrame, SleeperTypes DEF Rounds, SleeperOrder
  <2>2. \A id \in 1 .. ntasks - 1 : id \in Id
    BY SchedulerConstants DEF TypeOK, Id
  <2> QED BY <2>1, <2>2
<1>2. CASE Wakes(s)
  <2>1. state' = [state EXCEPT ![s.id] = "Ready"] /\ ready' = Append(ready, s.id)
    BY <1>2, Zenon DEF WakeDue, Wakes
  <2>2. state'[s.id] = "Ready" /\ \A id \in Id : id # s.id => state'[id] = state[id]
    BY <1>1, <2>1 DEF TypeOK
  <2> QED BY <1>1, <1>2, <2>1, <2>2 DEF Wakes
<1>3. CASE ~Wakes(s)
  <2>1. UNCHANGED <<state, ready>>
    BY <1>3, Zenon DEF WakeDue, Wakes
  <2> QED BY <1>1, <1>3, <2>1
<1> QED BY <1>2, <1>3

(* ... why the running task's late entry stays sound, ...                  *)
LEMMA WakeDueOwn ==
  ASSUME TypeOK, Inv, Rounds, WakeDue
  PROVE  OwnEntries'
<1> DEFINE s == sleepers[idx]
<1>1. SUFFICES ASSUME NEW k \in DOMAIN sleepers', Own(k)', Late(k)'
      PROVE  /\ state'[current] = "Sleeping" /\ pc[current] \in {"halted", "check"}
             /\ sleepers'[k].tick = wake[current] /\ target[current] = wake[current]
             /\ \A j \in DOMAIN sleepers' : Own(j)' /\ Late(j)' => j = k
  BY WakeDueFrame DEF OwnEntries
<1>2. \A j \in DOMAIN sleepers' : Own(j)' /\ Late(j)' => Own(Source(j)) /\ Late(Source(j))
  BY WakeDueFrame DEF Own, Late
<1>3. /\ state[current] = "Sleeping" /\ pc[current] \in {"halted", "check"}
      /\ sleepers[Source(k)].tick = wake[current] /\ target[current] = wake[current]
      /\ \A j \in DOMAIN sleepers : Own(j) /\ Late(j) => j = Source(k)
  BY <1>1, <1>2, WakeDueFrame DEF Rounds, SleeperOrder, OwnEntries
<1>4. ~(s.id = current /\ Wakes(s))
  <2>1. wake[current] > ticks
    BY <1>1, <1>2, <1>3 DEF Late
  <2>2. s.tick <= ticks /\ s.tick \in Nat /\ ticks \in Nat
    BY WakeDueFrame, SleeperTypes
  <2>3. s.id = current /\ Wakes(s) => wake[current] = s.tick
    BY DEF Wakes
  <2> HIDE DEF s
  <2> QED BY ONLY <2>1, <2>2, <2>3
<1>5. state'[current] = "Sleeping"
  BY <1>3, <1>4, WakeDueStates, SleeperTypes
<1> QED BY <1>1, <1>2, <1>3, <1>5, WakeDueFrame

(* ... why swap_remove does not move an own entry before another task's:   *)
(* with three tasks the hole is the running task's or the other's own, ... *)
LEMMA WakeDueOther ==
  ASSUME TypeOK, Inv, Rounds, ntasks <= 3, WakeDue
  PROVE  OtherEntries'
<1> DEFINE s == sleepers[idx]
<1>1. SUFFICES ASSUME NEW k \in DOMAIN sleepers', ~Own(k)', Alive(k)'
      PROVE  /\ state'[sleepers'[k].id] = "Sleeping"
             /\ \A j \in DOMAIN sleepers' : sleepers'[j].id = sleepers'[k].id => j = k
             /\ \A j \in DOMAIN sleepers' : Own(j)' => k < j
  BY DEF OtherEntries
<1> DEFINE q == Source(k)
           x == sleepers[q].id
<1>2. /\ q \in DOMAIN sleepers /\ sleepers'[k] = sleepers[q] /\ q # idx /\ ~Own(q)
      /\ idx \in DOMAIN sleepers
  BY <1>1, WakeDueFrame, SleeperTypes DEF Own
<1>3. x \in Id /\ x \in 1 .. ntasks - 1
  <2>1. x \in 1 .. ntasks - 1
    BY <1>2 DEF Rounds, SleeperOrder
  <2>2. \A id \in 1 .. ntasks - 1 : id \in Id
    BY SchedulerConstants DEF TypeOK, Id
  <2> QED BY <2>1, <2>2
<1>4. Alive(q)
  <2>1. state'[x] # "Dead"
    BY <1>1, <1>2 DEF Alive
  <2>2. state'[x] = state[x] \/ state[x] = "Sleeping"
    BY <1>3, WakeDueStates DEF Wakes
  <2> QED BY <2>1, <2>2 DEF Alive
<1>5. /\ state[x] = "Sleeping"
      /\ \A j \in DOMAIN sleepers : sleepers[j].id = x => j = q
      /\ \A j \in DOMAIN sleepers : Own(j) => q < j
  BY <1>2, <1>4 DEF Rounds, SleeperOrder, OtherEntries
<1>6. s.id # x
  BY <1>2, <1>5
<1>7. state'[x] = "Sleeping"
  BY <1>3, <1>5, <1>6, WakeDueStates
<1>8. \A j \in DOMAIN sleepers' : sleepers'[j].id = x => j = k
  BY <1>1, <1>5, WakeDueFrame
<1>9. ASSUME NEW j \in DOMAIN sleepers', Own(j)'
      PROVE  k < j
  <2>1. Own(Source(j)) /\ Source(j) \in DOMAIN sleepers
    BY <1>9, WakeDueFrame DEF Own
  <2>2. q < Source(j)
    BY <1>5, <2>1
  <2>3. CASE k = idx
    BY <2>1, <2>2, <2>3, SleeperTypes DEF Source
  <2>4. CASE k # idx /\ j # idx
    BY <2>2, <2>4 DEF Source
  <2>5. CASE k # idx /\ j = idx
    <3>1. current \in 1 .. ntasks - 1 /\ x # current
      BY <1>2, <2>1 DEF Own, Rounds, SleeperOrder
    <3>2. s.id \in 1 .. ntasks - 1
      BY <1>2 DEF Rounds, SleeperOrder
    <3>3. s.id = current
      BY <1>3, <1>6, <3>1, <3>2, SleeperTypes
    <3>4. q < idx
      BY <1>2, <1>5, <3>3 DEF Own
    <3> QED BY <2>5, <3>4 DEF Source
  <2> QED BY <2>3, <2>4, <2>5
<1> QED BY <1>2, <1>7, <1>8, <1>9

(* ... and why what it pushes stands in order: another task is woken only  *)
(* before the running one, and the running one at most once.               *)
LEMMA WakeDueQueue ==
  ASSUME TypeOK, Inv, Rounds, ntasks <= 3, WakeDue
  PROVE  QueueOrder'
<1> DEFINE s == sleepers[idx]
           n == Len(ready)
<1>1. PICK m \in 0 .. n : Close(m) /\ Behind(m)
  BY DEF Rounds, QueueOrder
<1>2. n \in Nat /\ DOMAIN ready = 1 .. n
  BY SleeperTypes
<1>3. \A k \in 1 .. n : /\ ready[k] \in Id /\ ready[k] < ntasks
                        /\ (ready[k] # current => state[ready[k]] = "Ready")
  BY SleeperTypes DEF Rounds, QueueOrder
\* The entries of other live tasks that the loop has not looked at stay so.
<1>4. ASSUME \A k \in idx .. Len(sleepers) : Own(k) \/ ~Alive(k)
      PROVE  \A k \in idx' .. Len(sleepers') : Own(k)' \/ ~Alive(k)'
  <2> SUFFICES ASSUME NEW k \in idx' .. Len(sleepers')
               PROVE  Own(k)' \/ ~Alive(k)'
    OBVIOUS
  <2>1. /\ Source(k) \in idx .. Len(sleepers) /\ sleepers'[k] = sleepers[Source(k)]
        /\ sleepers[Source(k)].id \in Id /\ Source(k) \in DOMAIN sleepers
    <3>1. /\ idx \in 1 .. Len(sleepers) /\ Len(sleepers) \in Nat /\ idx' = idx
          /\ DOMAIN sleepers' = 1 .. Len(sleepers) - 1
          /\ Len(sleepers') = Len(sleepers) - 1
      BY WakeDueFrame
    <3>2. k \in DOMAIN sleepers' /\ k >= idx /\ k \in Nat
      BY <3>1
    <3>3. /\ sleepers'[k] = sleepers[Source(k)] /\ Source(k) \in DOMAIN sleepers
          /\ Source(k) >= k
      BY <3>2, WakeDueFrame
    <3>4. Source(k) \in idx .. Len(sleepers)
      BY <3>1, <3>2, <3>3, SleeperTypes
    <3>5. \A j \in DOMAIN sleepers : sleepers[j].id \in Id
      <4>1. \A j \in 1 .. Len(sleepers) : sleepers[j] \in SleeperEntry
        BY ElementType DEF TypeOK
      <4> QED BY <4>1, SleeperTypes DEF SleeperEntry
    <3> QED BY <3>3, <3>4, <3>5
  <2>2. CASE Own(Source(k))
    BY <2>1, <2>2, WakeDueFrame DEF Own
  <2>3. CASE ~Alive(Source(k))
    BY <2>1, <2>3, WakeDueStates DEF Alive
  <2> QED BY <1>4, <2>1, <2>2, <2>3
<1>5. CASE ~Wakes(s)
  <2>1. UNCHANGED <<state, ready, current, phase, ntasks>> /\ phase = "wake"
    BY <1>5, WakeDueFrame, WakeDueStates
  <2>2. Close(m)'
    BY <1>1, <2>1 DEF Close
  <2>3. Behind(m)'
    BY <1>1, <1>4, <2>1 DEF Behind, Pushed
  <2> QED BY <1>1, <1>3, <2>1, <2>2, <2>3 DEF Rounds, QueueOrder
<1>6. CASE Wakes(s)
  <2>1. /\ state[s.id] = "Sleeping" /\ state'[s.id] = "Ready"
        /\ ready' = Append(ready, s.id)
        /\ s.id \in Id /\ s.id < ntasks
        /\ \A id \in Id : id # s.id => state'[id] = state[id]
        /\ UNCHANGED <<current, phase, ntasks>> /\ phase = "wake"
    BY <1>6, WakeDueFrame, WakeDueStates, SleeperTypes
  <2>2. /\ Len(ready') = n + 1 /\ DOMAIN ready' = 1 .. n + 1 /\ ready'[n + 1] = s.id
        /\ \A k \in 1 .. n : ready'[k] = ready[k]
    <3>1. ready \in Seq(Id) /\ s.id \in Id /\ ready' = Append(ready, s.id)
      BY <2>1 DEF TypeOK
    <3> HIDE DEF s
    <3> QED BY ONLY <3>1
  <2>3. \A k \in 1 .. n + 1 : /\ ready'[k] < ntasks'
                              /\ (ready'[k] # current' => state'[ready'[k]] = "Ready")
    <3> SUFFICES ASSUME NEW k \in 1 .. n + 1
                 PROVE  /\ ready'[k] < ntasks'
                        /\ (ready'[k] # current' => state'[ready'[k]] = "Ready")
      OBVIOUS
    <3>1. CASE k = n + 1
      BY <2>1, <2>2, <3>1
    <3>2. CASE k # n + 1
      <4>1. k \in 1 .. n
        BY <1>2, <3>2
      <4> QED BY <1>3, <2>1, <2>2, <4>1
    <3> QED BY <3>1, <3>2
  <2>4. CASE s.id = current
    <3>1. m = n
      BY <1>1, <1>2, <2>1, <2>4 DEF Behind, Pushed
    <3>2. Close(m)'
      BY <1>1, <1>2, <2>1, <2>2 DEF Close
    <3>3. \A k \in idx .. Len(sleepers) : Own(k) \/ ~Alive(k)
      BY <2>4, WakeDueFrame, SleeperTypes DEF Own, Rounds, SleeperOrder, OtherEntries
    <3>4. Behind(m)'
      BY <1>2, <1>4, <2>1, <2>2, <2>4, <3>1, <3>3 DEF Behind, Pushed
    <3> QED BY <1>1, <1>2, <2>2, <2>3, <3>2, <3>4 DEF QueueOrder
  <2>5. CASE s.id # current
    <3>1. m = n
      <4>1. ~Own(idx) /\ Alive(idx)
        BY <2>1, <2>5 DEF Own, Alive
      <4>2. idx \in idx .. Len(sleepers)
        BY WakeDueFrame
      <4> QED BY <1>1, <1>2, <2>1, <4>1, <4>2 DEF Behind, Pushed
    <3>2. \A k \in 1 .. n : ready[k] # s.id
      BY <1>3, <2>1, <2>5
    <3>3. Close(m + 1)'
      BY <1>1, <1>2, <2>1, <2>2, <2>5, <3>1, <3>2 DEF Close
    <3>4. Behind(m + 1)'
      BY <1>2, <2>1, <2>2, <3>1 DEF Behind, Pushed
    <3> QED BY <1>2, <2>2, <2>3, <3>1, <3>3, <3>4 DEF QueueOrder
  <2> QED BY <2>4, <2>5
<1> QED BY <1>5, <1>6

(* The three together.                                                     *)
LEMMA WakeDueRounds ==
  ASSUME TypeOK, Inv, Rounds, ntasks <= 3, WakeDue
  PROVE  Rounds'
<1>1. \A k \in DOMAIN sleepers' : sleepers'[k].id \in 1 .. ntasks' - 1
  BY WakeDueFrame DEF Rounds, SleeperOrder
<1>2. SleeperOrder'
  BY <1>1, WakeDueOwn, WakeDueOther DEF SleeperOrder
<1> QED BY <1>2, WakeDueQueue DEF Rounds

(* An entry that is not due is stepped over.                               *)
LEMMA WakeSkipRounds ==
  ASSUME TypeOK, Inv, Rounds, WakeSkip
  PROVE  Rounds'
<1>1. /\ phase = "wake" /\ idx' = idx + 1 /\ idx \in Nat
      /\ UNCHANGED <<ntasks, state, wake, target, ready, sleepers, current, phase,
                     pc, ticks>>
  BY DEF WakeSkip, tableVars, schedVars, stackVars, taskVars, clockVars, TypeOK
<1>2. OwnEntries'
  BY <1>1, OwnFrame DEF Rounds, SleeperOrder
<1>3. SleeperOrder'
  BY <1>1, <1>2, SleeperFrame, SleeperTypes DEF Rounds
<1>4. PICK m \in 0 .. Len(ready) : Close(m) /\ Behind(m)
  BY DEF Rounds, QueueOrder
<1>5. Close(m)'
  BY <1>1, <1>4 DEF Close
<1>6. Behind(m)'
  <2>1. (\A k \in idx .. Len(sleepers) : Own(k) \/ ~Alive(k))
          => (\A k \in idx' .. Len(sleepers') : Own(k)' \/ ~Alive(k)')
    BY <1>1, SleeperTypes DEF Own, Alive
  <2> QED BY <1>1, <1>4, <2>1 DEF Behind, Pushed
<1> QED BY <1>1, <1>3, <1>4, <1>5, <1>6 DEF Rounds, QueueOrder

(* The end of the wake loop pushes a running task that is still ready.     *)
LEMMA RequeueRounds ==
  ASSUME TypeOK, Inv, Rounds, Requeue, TypeOK'
  PROVE  Rounds'
<1>1. /\ phase = "wake" /\ phase' = "pick"
      /\ ready' = IF state[current] = "Ready" THEN Append(ready, current) ELSE ready
      /\ UNCHANGED <<ntasks, state, wake, target, sleepers, current, idx, pc, ticks>>
  BY DEF Requeue, tableVars, stackVars, taskVars, clockVars
<1>2. OwnEntries'
  BY <1>1, OwnFrame DEF Rounds, SleeperOrder
<1>3. SleeperOrder'
  BY <1>1, <1>2, SleeperFrame, SleeperTypes DEF Rounds
<1>4. PICK m \in 0 .. Len(ready) : Close(m) /\ Behind(m)
  BY DEF Rounds, QueueOrder
<1> DEFINE n == Len(ready)
<1>5. /\ n \in Nat /\ DOMAIN ready = 1 .. n /\ m \in 0 .. n
      /\ \A k \in 1 .. n : /\ ready[k] < ntasks
                           /\ (ready[k] # current => state[ready[k]] = "Ready")
  BY <1>4, SleeperTypes DEF Rounds, QueueOrder
<1>6. n <= m + 1 /\ \A k \in m + 1 .. n : ready[k] = current
  BY <1>1, <1>4 DEF Behind, Pushed
<1>7. CASE state[current] # "Ready"
  <2>1. ready' = ready
    BY <1>1, <1>7
  <2>2. Close(m)'
    BY <1>1, <1>4, <2>1 DEF Close
  <2>3. n <= m + 2 /\ ~(m < n)
    BY <1>4, <1>5, <1>6, <1>7 DEF Behind, Pushed
  <2>4. Behind(m)'
    BY <1>1, <1>5, <1>6, <2>1, <2>3 DEF Behind, Pushed
  <2> QED BY <1>1, <1>3, <1>4, <1>5, <2>1, <2>2, <2>4 DEF Rounds, QueueOrder
<1>8. CASE state[current] = "Ready"
  <2>1. /\ Len(ready') = n + 1 /\ DOMAIN ready' = 1 .. n + 1 /\ ready'[n + 1] = current
        /\ \A k \in 1 .. n : ready'[k] = ready[k]
    <3>1. ready \in Seq(Id) /\ current \in Id /\ ready' = Append(ready, current)
      BY <1>1, <1>8 DEF TypeOK
    <3> QED BY ONLY <3>1
  <2>2. current < ntasks
    BY <1>1, SleeperTypes DEF Inv, KernelTask
  <2>3. Close(m)'
    BY <1>1, <1>4, <1>5, <2>1 DEF Close
  <2>4. Behind(m)'
    <3>1. \A k \in m + 1 .. n + 1 : ready'[k] = current
      BY <1>5, <1>6, <2>1
    <3> QED BY <1>1, <1>5, <1>6, <1>8, <2>1, <3>1 DEF Behind, Pushed
  <2>5. \A k \in 1 .. n + 1 : /\ ready'[k] < ntasks'
                              /\ (ready'[k] # current' => state'[ready'[k]] = "Ready")
    BY <1>1, <1>5, <2>1, <2>2
  <2> QED BY <1>3, <1>5, <2>1, <2>3, <2>4, <2>5 DEF Rounds, QueueOrder
<1> QED BY <1>7, <1>8

(* What the pop loop passes over is the head of the ordered part, or an    *)
(* entry of the interrupted task behind it.                                *)
LEMMA PickSkipRounds ==
  ASSUME TypeOK, Inv, Rounds, PickSkip
  PROVE  Rounds'
<1>1. /\ phase \in {"pick", "exit"} /\ Skipped(Head(ready)) /\ ready # << >>
      /\ ready' = Tail(ready)
      /\ UNCHANGED <<ntasks, state, wake, target, sleepers, current, phase, idx, pc,
                     ticks>>
  BY DEF PickSkip, tableVars, stackVars, handlerVars, taskVars, clockVars
<1>2. OwnEntries'
  BY <1>1, OwnFrame DEF Rounds, SleeperOrder
<1>3. SleeperOrder'
  BY <1>1, <1>2, SleeperFrame, SleeperTypes DEF Rounds
<1>4. PICK m \in 0 .. Len(ready) : Close(m) /\ Behind(m)
  BY DEF Rounds, QueueOrder
<1> DEFINE n == Len(ready)
<1>5. /\ n \in Nat \ {0} /\ DOMAIN ready = 1 .. n /\ Head(ready) = ready[1]
      /\ Len(ready') = n - 1 /\ DOMAIN ready' = 1 .. n - 1
      /\ \A k \in 1 .. n - 1 : ready'[k] = ready[k + 1]
  <2>1. ready \in Seq(Id) /\ ready # << >> /\ ready' = Tail(ready)
    BY <1>1 DEF TypeOK
  <2> QED BY ONLY <2>1
<1>6. \A k \in 1 .. n : /\ ready[k] < ntasks
                        /\ (ready[k] # current => state[ready[k]] = "Ready")
  BY <1>5 DEF Rounds, QueueOrder
<1>7. \A k \in 1 .. n - 1 : /\ ready'[k] < ntasks'
                            /\ (ready'[k] # current' => state'[ready'[k]] = "Ready")
  BY <1>1, <1>5, <1>6
<1> DEFINE l == IF m = 0 THEN 0 ELSE m - 1
<1>8. l \in 0 .. n - 1 /\ (m = 0 => l = 0) /\ (m # 0 => l = m - 1)
  BY <1>5
<1> HIDE DEF l
<1>9. Close(l)'
  <2>1. \A i, k \in 1 .. l : i < k /\ ready'[i] = ready'[k] => k = i + 1
    BY <1>4, <1>5, <1>8 DEF Close
  <2>2. \A k \in 1 .. l : ready'[k] = current => k = 1
    BY <1>4, <1>5, <1>8 DEF Close
  <2> QED BY <1>1, <2>1, <2>2 DEF Close
<1>10. Behind(l)'
  <2>1. \A k \in l + 1 .. n - 1 : ready'[k] = current
    BY <1>4, <1>5, <1>8 DEF Behind, Pushed
  <2>2. phase = "pick" => n <= m + 2
    BY <1>4 DEF Behind, Pushed
  <2>3. phase # "pick" => n <= m
    BY <1>1, <1>4 DEF Behind, Pushed
  <2>4. Len(ready') <= l + Pushed'
    BY <1>1, <1>5, <1>8, <2>2, <2>3 DEF Pushed
  <2>5. l < n - 1 => state[current] = "Ready"
    BY <1>4, <1>5, <1>8 DEF Behind, Pushed
  <2> QED BY <1>1, <1>5, <2>1, <2>4, <2>5 DEF Behind, Pushed
<1> QED BY <1>3, <1>5, <1>7, <1>8, <1>9, <1>10 DEF Rounds, QueueOrder

(* The switch: the new task's second entry, if any, is now the head, and   *)
(* the old task's at most two entries close the ordered part.              *)
LEMMA DispatchRounds ==
  ASSUME TypeOK, Inv, Rounds, Dispatch
  PROVE  Rounds'
<1> DEFINE b == Head(ready)
<1>0. PICK n \in Nat : n = Len(ready)
  BY SleeperTypes
<1>1. /\ phase \in {"pick", "exit"} /\ b # current /\ state[b] = "Ready" /\ ready # << >>
      /\ ready' = Tail(ready) /\ current' = b /\ phase' = "none"
      /\ UNCHANGED <<ntasks, state, wake, target, sleepers, idx, pc, ticks>>
  BY DEF Dispatch, Skipped, tableVars, taskVars, clockVars
<1>2. /\ n \in Nat \ {0} /\ DOMAIN ready = 1 .. n /\ b = ready[1]
      /\ Len(ready') = n - 1 /\ DOMAIN ready' = 1 .. n - 1
      /\ \A k \in 1 .. n - 1 : ready'[k] = ready[k + 1]
  <2>1. ready \in Seq(Id) /\ ready # << >> /\ ready' = Tail(ready)
    BY <1>1 DEF TypeOK
  <2> HIDE DEF b
  <2>2. /\ Len(ready) \in Nat \ {0} /\ DOMAIN ready = 1 .. Len(ready)
        /\ Head(ready) = ready[1]
        /\ Len(ready') = Len(ready) - 1 /\ DOMAIN ready' = 1 .. Len(ready) - 1
        /\ \A k \in 1 .. Len(ready) - 1 : ready'[k] = ready[k + 1]
    BY ONLY <2>1
  <2> QED BY <1>0, <2>2 DEF b
<1> HIDE DEF b
<1>3. PICK m \in 0 .. n : Close(m) /\ Behind(m)
  BY <1>0 DEF Rounds, QueueOrder
<1>4. /\ \A k \in 1 .. n : /\ ready[k] < ntasks
                           /\ (ready[k] # current => state[ready[k]] = "Ready")
      /\ \A k \in m + 1 .. n : ready[k] = current
      /\ n <= m + 2 /\ m # 0
      /\ m < n => state[current] = "Ready"
      /\ \A k \in 1 .. m : ready[k] # current
  <2>1. \A k \in 1 .. n : /\ ready[k] < ntasks
                          /\ (ready[k] # current => state[ready[k]] = "Ready")
    BY <1>2 DEF Rounds, QueueOrder
  <2>2. \A k \in m + 1 .. n : ready[k] = current
    BY <1>0, <1>3 DEF Behind, Pushed
  <2>3. n <= m + 2
    BY <1>0, <1>1, <1>3 DEF Behind, Pushed
  <2>4. m # 0
    BY <1>1, <1>2, <2>2
  <2>5. m < n => state[current] = "Ready"
    BY <1>0, <1>3 DEF Behind, Pushed
  <2>6. \A k \in 1 .. m : ready[k] # current
    BY <1>1, <1>2, <1>3 DEF Close
  <2> QED BY <2>1, <2>2, <2>3, <2>4, <2>5, <2>6
<1>5. \A k \in 1 .. n - 1 : /\ ready'[k] < ntasks'
                            /\ (ready'[k] # current' => state'[ready'[k]] = "Ready")
  <2> SUFFICES ASSUME NEW k \in 1 .. n - 1
               PROVE  ready[k + 1] < ntasks /\ state[ready[k + 1]] = "Ready"
    BY <1>1, <1>2
  <2>1. k + 1 \in 1 .. n
    BY <1>2
  <2> QED BY <1>2, <1>3, <1>4, <2>1
<1>6. Close(n - 1)'
  <2>1. ASSUME NEW i \in 1 .. n - 1, NEW k \in 1 .. n - 1, i < k,
               ready[i + 1] = ready[k + 1]
        PROVE  k = i + 1
    <3>1. CASE k + 1 <= m
      <4>1. PICK i2 \in 1 .. m, k2 \in 1 .. m : i2 = i + 1 /\ k2 = k + 1
        BY <1>2, <1>3, <2>1, <3>1
      <4>2. k2 = i2 + 1
        BY <1>3, <2>1, <4>1 DEF Close
      <4> QED BY <2>1, <4>1, <4>2
    <3>2. CASE ~(k + 1 <= m)
      <4>1. ready[i + 1] = current
        BY <1>2, <1>3, <1>4, <2>1, <3>2
      <4>2. ~(i + 1 <= m)
        BY <1>3, <1>4, <4>1
      <4> QED BY <1>2, <1>3, <1>4, <2>1, <4>2
    <3> QED BY <3>1, <3>2
  <2>2. ASSUME NEW k \in 1 .. n - 1, ready[k + 1] = b
        PROVE  k = 1
    <3>1. k + 1 <= m
      BY <1>1, <1>2, <1>3, <1>4, <2>2
    <3> QED BY <1>2, <1>3, <2>2, <3>1 DEF Close
  <2> QED BY <1>1, <1>2, <2>1, <2>2 DEF Close
<1>7. Behind(n - 1)'
  BY <1>1, <1>2 DEF Behind, Pushed
<1>8. QueueOrder'
  BY <1>2, <1>5, <1>6, <1>7 DEF QueueOrder
<1>9. \A k \in DOMAIN sleepers : sleepers[k].id # b
  BY <1>1 DEF Rounds, SleeperOrder, OtherEntries, Own, Alive
<1>10. OwnEntries'
  BY <1>1, <1>9 DEF OwnEntries, Own
<1>11. OtherEntries'
  <2> SUFFICES ASSUME NEW k \in DOMAIN sleepers, Alive(k)
               PROVE  /\ state[sleepers[k].id] = "Sleeping"
                      /\ \A j \in DOMAIN sleepers : sleepers[j].id = sleepers[k].id => j = k
    BY <1>1, <1>9 DEF OtherEntries, Own, Alive
  <2>1. CASE ~Own(k)
    BY <2>1 DEF Rounds, SleeperOrder, OtherEntries
  <2>2. CASE Own(k)
    <3>1. phase = "pick"
      BY <1>1, <2>2 DEF Own, Alive, Inv, CurrentAlive
    <3>2. \A j \in DOMAIN sleepers : Late(j)
      BY <3>1, SleeperTypes DEF Late, Inv, SleeperInv
    <3> QED BY <2>2, <3>2 DEF Own, Rounds, SleeperOrder, OwnEntries
  <2> QED BY <2>1, <2>2
<1> QED BY <1>1, <1>8, <1>10, <1>11 DEF Rounds, SleeperOrder

(* An empty queue is in order.                                             *)
LEMMA PickNoneRounds ==
  ASSUME TypeOK, Inv, Rounds, PickNone
  PROVE  Rounds'
<1>1. /\ phase \in {"pick", "exit"} /\ phase' \in {"none", "stuck"} /\ ready = << >>
      /\ UNCHANGED <<ntasks, state, wake, target, ready, sleepers, current, idx, pc,
                     ticks>>
  BY DEF PickNone, tableVars, schedVars, stackVars, taskVars, clockVars
<1>2. OwnEntries'
  BY <1>1, OwnFrame DEF Rounds, SleeperOrder
<1>3. SleeperOrder'
  BY <1>1, <1>2, SleeperFrame, SleeperTypes DEF Rounds
<1>4. DOMAIN ready' = {} /\ Len(ready') = 0
  BY <1>1
<1>5. Close(0)' /\ Behind(0)'
  BY <1>1, <1>4 DEF Close, Behind, Pushed
<1> QED BY <1>3, <1>4, <1>5 DEF Rounds, QueueOrder

(* Every step keeps the order; the table never shrinks, so what is asked   *)
(* of at most three tasks was asked before the step too.                   *)
LEMMA RoundStep == TypeOK /\ Inv /\ RoundInv /\ TypeOK' /\ [Next]_vars => RoundInv'
<1> SUFFICES ASSUME TypeOK, Inv, RoundInv, TypeOK', [Next]_vars, ntasks' <= 3
             PROVE  Rounds'
  BY DEF RoundInv, Rounds
<1>1. ntasks <= 3
  <2>1. ntasks' \in {ntasks, ntasks + 1} \/ (ntasks = 0)
    <3>1. CASE Boot
      BY <3>1 DEF Boot, SchedInit, SpawnFull, Spawn, EnterIdle, tableVars
    <3>2. CASE Handler
      BY <3>2 DEF Handler, WakeDue, WakeSkip, Requeue, PickSkip, Dispatch, PickNone,
         tableVars
    <3>3. ASSUME NEW c \in Id, TaskStep(c)
          PROVE  ntasks' = ntasks
      BY <3>3 DEF TaskStep, EnableInterrupts, SyscallEntry, SleepMs, SleepUntil,
         Recheck, Exit,
         tableVars
    <3>4. CASE Rearm \/ DeviceInterrupt \/ Timer \/ UNCHANGED vars
      BY <3>4 DEF Rearm, DeviceInterrupt, Timer, vars, tableVars
    <3> QED BY <3>1, <3>2, <3>3, <3>4 DEF Next
  <2> QED BY <2>1, SleeperTypes
<1>2. Rounds
  BY <1>1 DEF RoundInv, Rounds
<1>3. CASE UNCHANGED vars
  BY <1>2, <1>3 DEF vars, tableVars, schedVars, stackVars, handlerVars, taskVars,
     clockVars,
     Rounds, SleeperOrder, OwnEntries, OtherEntries, Own, Late, Alive, QueueOrder,
        Close, Behind, Pushed
<1>4. CASE Handler
  BY <1>1, <1>2, <1>4, WakeDueRounds, WakeSkipRounds, RequeueRounds, PickSkipRounds,
     DispatchRounds, PickNoneRounds DEF Handler
<1> QED
  BY <1>2, <1>3, <1>4, BootRounds, RearmRounds, InterruptRounds, TaskStepRounds DEF Next

(* The two queues stay in order in every reachable state, with up to three *)
(* tasks, any sleeps, exits, spurious interrupts and watchdog resets.      *)
THEOREM RoundsKept == Spec => []RoundInv
<1>1. Init => RoundInv
  BY SchedulerConstants, IdFacts DEF Init, RoundInv, Rounds, SleeperOrder,
     OwnEntries, OtherEntries,
     QueueOrder, Close, Behind, Pushed
<1> QED BY <1>1, RoundStep, TypeCorrect, InvCorrect, PTL DEF Spec

(* Counting entries: one element more counts one more at most, ...         *)
LEMMA OneMore ==
  ASSUME NEW S, IsFiniteSet(S), NEW x, NEW n \in Nat, Cardinality(S) <= n
  PROVE  IsFiniteSet(S \cup {x}) /\ Cardinality(S \cup {x}) <= n + 1
<1>1. Cardinality(S) \in Nat
  BY FS_CardinalityType
<1>2. /\ IsFiniteSet(S \cup {x})
      /\ Cardinality(S \cup {x}) = IF x \in S THEN Cardinality(S) ELSE Cardinality(S) + 1
  BY FS_AddElement
<1> QED BY <1>1, <1>2

(* ... three positions count three, ...                                    *)
LEMMA AtMostThree ==
  ASSUME NEW S, NEW a, NEW b, NEW c, S \subseteq {a, b, c}
  PROVE  Cardinality(S) <= 3
<1>1. IsFiniteSet({}) /\ Cardinality({}) <= 0
  BY FS_EmptySet
<1> DEFINE R == {} \cup {a}
           T == R \cup {b}
           U == T \cup {c}
<1>2. IsFiniteSet(R) /\ Cardinality(R) <= 1
  <2>1. 0 \in Nat
    OBVIOUS
  <2>2. IsFiniteSet(R) /\ Cardinality(R) <= 0 + 1
    BY ONLY <1>1, <2>1, OneMore, Zenon
  <2> HIDE DEF R
  <2> QED BY ONLY <2>2
<1> HIDE DEF R
<1>3. IsFiniteSet(T) /\ Cardinality(T) <= 2
  <2>1. 1 \in Nat
    OBVIOUS
  <2>2. IsFiniteSet(T) /\ Cardinality(T) <= 1 + 1
    BY ONLY <1>2, <2>1, OneMore, Zenon
  <2> HIDE DEF T
  <2> QED BY ONLY <2>2
<1> HIDE DEF T
<1>4. IsFiniteSet(U) /\ Cardinality(U) <= 3
  <2>1. 2 \in Nat
    OBVIOUS
  <2>2. IsFiniteSet(U) /\ Cardinality(U) <= 2 + 1
    BY ONLY <1>3, <2>1, OneMore, Zenon
  <2> HIDE DEF U
  <2> QED BY ONLY <2>2
<1>5. S \in SUBSET U
  BY DEF R, T
<1> HIDE DEF U
<1>6. /\ Cardinality(S) \in Nat /\ Cardinality(U) \in Nat
      /\ Cardinality(S) <= Cardinality(U)
  BY <1>4, <1>5, FS_Subset, FS_CardinalityType
<1> QED BY <1>4, <1>6

(* ... and elements that are all equal count one.                          *)
LEMMA AtMostOne ==
  ASSUME NEW S, \A x, y \in S : x = y
  PROVE  Cardinality(S) <= 1
<1>1. CASE S = {}
  BY <1>1, FS_EmptySet
<1>2. CASE S # {}
  <2>1. PICK x \in S : S = {x}
    BY <1>2
  <2> QED BY <2>1, FS_Singleton
<1> QED BY <1>1, <1>2

(* The order bounds the queue: a task is found at two adjacent places, or, *)
(* if it is the interrupted one, at the head and twice at the end.         *)
LEMMA RoundsBound ==
  ASSUME TypeOK, Rounds, NEW id \in Id
  PROVE  Cardinality(Entries(id)) <= 3
<1>1. PICK m \in 0 .. Len(ready) : Close(m) /\ Behind(m)
  BY DEF Rounds, QueueOrder
<1>2. PICK n \in Nat : Len(ready) = n
  BY SleeperTypes
<1>3. CASE id = current
  <2>1. n <= m + 2
    BY <1>1, <1>2 DEF Behind, Pushed
  <2>2. \A k \in 1 .. m : ready[k] = id => k = 1
    BY <1>1, <1>3 DEF Close
  <2>3. Entries(id) \subseteq {1, m + 1, m + 2}
    BY <1>1, <1>2, <2>1, <2>2 DEF Entries
  <2> QED BY <2>3, AtMostThree
<1>4. CASE id # current
  <2>1. \A k \in Entries(id) : k \in 1 .. m
    BY <1>1, <1>2, <1>4 DEF Entries, Behind, Pushed
  <2>2. CASE Entries(id) = {}
    BY <2>2, FS_EmptySet
  <2>3. ASSUME NEW a \in Entries(id)
        PROVE  Cardinality(Entries(id)) <= 3
    <3>1. ASSUME NEW k \in Entries(id)
          PROVE  k \in {a - 1, a, a + 1}
      <4>1. ready[k] = ready[a] /\ k \in 1 .. m /\ a \in 1 .. m
        BY <2>1 DEF Entries
      <4>2. (k < a => a = k + 1) /\ (a < k => k = a + 1)
        BY <1>1, <4>1 DEF Close
      <4> QED BY <4>1, <4>2
    <3>2. Entries(id) \subseteq {a - 1, a, a + 1}
      BY <3>1
    <3> QED BY <3>2, AtMostThree
  <2> QED BY <2>2, <2>3
<1> QED BY <1>3, <1>4

(* ... and it leaves every other task one turn: two turns would be two     *)
(* entries with another task in between.                                   *)
LEMMA RoundsBypass ==
  ASSUME TypeOK, Inv, Rounds, phase = "none", NEW id \in Id, state[id] = "Ready",
         id # current,
         NEW o \in Id \ {id}
  PROVE  Cardinality(Turns(o, id)) <= 1
<1>1. PICK m \in 0 .. Len(ready) : Close(m) /\ Behind(m)
  BY DEF Rounds, QueueOrder
<1>2. PICK n \in Nat : Len(ready) = n
  BY SleeperTypes
<1>3. m = n
  BY <1>1, <1>2 DEF Behind, Pushed
<1>4. /\ Len(Line) = n + 1 /\ Line[1] = current
      /\ \A k \in 2 .. n + 1 : Line[k] = ready[k - 1]
  <2>1. current \in Id /\ ready \in Seq(Id)
    BY DEF TypeOK
  <2>2. /\ Len(<<current>> \o ready) = n + 1 /\ (<<current>> \o ready)[1] = current
        /\ \A k \in 2 .. n + 1 : (<<current>> \o ready)[k] = ready[k - 1]
    BY ONLY <1>2, <2>1
  <2> QED BY <2>2 DEF Line
<1>5. \A i, k \in 2 .. n + 1 : i < k /\ Line[i] = Line[k] => k = i + 1
  <2> SUFFICES ASSUME NEW i \in 2 .. n + 1, NEW k \in 2 .. n + 1, i < k, Line[i] = Line[k]
               PROVE  k = i + 1
    OBVIOUS
  <2>1. PICK i2 \in 1 .. n, k2 \in 1 .. n : i2 = i - 1 /\ k2 = k - 1
    OBVIOUS
  <2>2. ready[i2] = ready[k2] /\ i2 < k2
    BY <1>4, <2>1
  <2>3. k2 = i2 + 1
    BY <1>1, <1>3, <2>2 DEF Close
  <2> QED BY <2>1, <2>3
<1>6. \A k \in 2 .. n + 1 : Line[k] = current => k = 2
  <2> SUFFICES ASSUME NEW k \in 2 .. n + 1, Line[k] = current
               PROVE  k = 2
    OBVIOUS
  <2>1. k - 1 \in 1 .. n /\ ready[k - 1] = current
    BY <1>4
  <2> QED BY <1>1, <1>3, <2>1 DEF Close
<1>7. ASSUME NEW i \in Turns(o, id), NEW k \in Turns(o, id), i < k
      PROVE  FALSE
  <2>1. /\ i \in 1 .. n + 1 /\ k \in 1 .. n + 1 /\ Line[i] = o /\ Line[k] = o
        /\ Line[k - 1] # o
    BY <1>4, <1>7 DEF Turns
  <2>2. CASE i = 1
    BY <1>4, <1>6, <1>7, <2>1, <2>2
  <2>3. CASE i # 1
    BY <1>5, <1>7, <2>1, <2>3
  <2> QED BY <2>2, <2>3
<1>8. \A i, k \in Turns(o, id) : i = k
  <2>1. \A k \in Turns(o, id) : k \in Nat
    BY <1>4 DEF Turns
  <2> QED BY <1>7, <2>1
<1> QED BY <1>8, AtMostOne

(* The ready queue of sched.rs holds at most three entries of a task, so   *)
(* the heap-backed VecDeque stays bounded with the tasks main.rs spawns.   *)
THEOREM QueueStaysBounded == Spec => []QueueBounded
<1>1. TypeOK /\ RoundInv => QueueBounded
  BY RoundsBound DEF RoundInv, Rounds, QueueBounded
<1> QED BY <1>1, TypeCorrect, RoundsKept, PTL

(* Round robin: between becoming ready and getting the CPU, a task sees    *)
(* every other task get at most one turn.                                  *)
THEOREM TurnsAreFair == Spec => []BoundedBypass
<1>1. TypeOK /\ Inv /\ RoundInv => BoundedBypass
  BY RoundsBypass DEF RoundInv, Rounds, BoundedBypass
<1> QED BY <1>1, TypeCorrect, InvCorrect, RoundsKept, PTL

=============================================================================
