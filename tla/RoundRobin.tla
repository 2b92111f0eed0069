----------------------------- MODULE RoundRobin -----------------------------
(***************************************************************************)
(* What src/scheduler.rs and src/process.rs promise together, without      *)
(* table, flag, slice or PIDs: the live tasks form a ring whose front has  *)
(* the CPU, an exited task waits as a zombie until it is reaped, and the   *)
(* machine may stop for good.                                              *)
(***************************************************************************)
EXTENDS Integers, Sequences

CONSTANTS
  Tasks,   \* names of tasks; a name is free again once its task is reaped
  First    \* the task that boot starts

VARIABLES
  ring,      \* live tasks in the order of their turns, the front is running
  zombies,   \* exited tasks that nobody has reaped
  stopped    \* the machine has stopped

vars == <<ring, zombies, stopped>>

Init ==
  /\ ring = <<First>>
  /\ zombies = {}
  /\ stopped = FALSE

Members == {ring[i] : i \in 1 .. Len(ring)}

Turned(r) == Append(Tail(r), Head(r))

Running == ~stopped /\ ring # <<>>

\* The front goes to the back.
Turn ==
  /\ Running
  /\ ring' = Turned(ring)
  /\ UNCHANGED <<zombies, stopped>>

\* The front starts a task, which takes its turn before the front's next one.
Spawn(t) ==
  /\ Running
  /\ t \in Tasks \ (Members \cup zombies)
  /\ ring' = Turned(Append(ring, t))
  /\ UNCHANGED <<zombies, stopped>>

\* The front ends, and the others keep their order.
Exit ==
  /\ Running
  /\ ring' = Tail(ring)
  /\ zombies' = zombies \cup {Head(ring)}
  /\ UNCHANGED stopped

\* The front reaps a zombie, and may have used up its turn by then.
Reap(t) ==
  /\ Running
  /\ t \in zombies
  /\ zombies' = zombies \ {t}
  /\ ring' \in {ring, Turned(ring)}
  /\ UNCHANGED stopped

Stop ==
  /\ ~stopped
  /\ stopped' = TRUE
  /\ UNCHANGED <<ring, zombies>>

Next == Turn \/ Exit \/ Stop \/ \E t \in Tasks : Spawn(t) \/ Reap(t)

Spec == Init /\ [][Next]_vars

\* The ring moves on: the front does not keep the CPU while others wait.
MoveOn ==
  /\ Running
  /\ Len(ring) > 1
  /\ \/ ring' \in {Turned(ring), Tail(ring)}
     \/ \E t \in Tasks : ring' = Turned(Append(ring, t))

Fairness == WF_ring(MoveOn)

FairSpec == Spec /\ Fairness

=============================================================================
