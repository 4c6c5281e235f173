-------------------------- MODULE AbstractScheduler --------------------------
(***************************************************************************)
(* What the kernel promises its tasks about the CPU, without queues,       *)
(* interrupts or stacks: only the task that holds the CPU can go to sleep  *)
(* or end, a sleeper wakes no earlier than its deadline and is always      *)
(* woken after it, the CPU is only ever given to a ready task, and every   *)
(* ready task is given it.  Scheduler implements this specification.       *)
(***************************************************************************)
EXTENDS Naturals

CONSTANTS
  Task,   \* task identifiers
  Idle,   \* the kernel's own task, a member of Task
  Time    \* the values the clock can take: naturals, 0 among them

VARIABLES status, deadline, holder, now

absVars == <<status, deadline, holder, now>>

AInit ==
  /\ status = [t \in Task |-> "None"]
  /\ deadline = [t \in Task |-> 0]
  /\ holder = Idle
  /\ now = 0

Create(t) ==
  /\ status[t] = "None"
  /\ status' = [status EXCEPT ![t] = "Ready"]
  /\ UNCHANGED <<deadline, holder, now>>

\* The clock moves on, or is reset.
Clock ==
  /\ \E n \in Time : now' = n /\ (n = 0 \/ n = now + 1)
  /\ UNCHANGED <<status, deadline, holder>>

\* A task whose deadline has just passed may ask again before it is woken.
Sleep ==
  /\ holder # Idle
  /\ status[holder] = "Ready" \/ (status[holder] = "Sleeping" /\ deadline[holder] <= now)
  /\ \E d \in Time :
       /\ status' = [status EXCEPT ![holder] = "Sleeping"]
       /\ deadline' = [deadline EXCEPT ![holder] = d]
  /\ UNCHANGED <<holder, now>>

Wake(t) ==
  /\ status[t] = "Sleeping" /\ deadline[t] <= now
  /\ status' = [status EXCEPT ![t] = "Ready"]
  /\ UNCHANGED <<deadline, holder, now>>

End ==
  /\ holder # Idle
  /\ status[holder] \in {"Ready", "Sleeping"}
  /\ status' = [status EXCEPT ![holder] = "Dead"]
  /\ UNCHANGED <<deadline, holder, now>>

Give(t) ==
  /\ t # holder /\ status[t] = "Ready"
  /\ holder' = t
  /\ UNCHANGED <<status, deadline, now>>

ANext ==
  \/ Clock \/ Sleep \/ End
  \/ \E t \in Task : Create(t) \/ Wake(t) \/ Give(t)

ASpec ==
  /\ AInit /\ [][ANext]_absVars
  /\ \A t \in Task : WF_absVars(Wake(t)) /\ WF_absVars(Give(t))

=============================================================================
