-------------------------- MODULE CommandLifecycle --------------------------
(***************************************************************************)
(* What the control plane promises about each command, without queues,     *)
(* leases, time or the database: it is delivered at most MaxAttempts times *)
(* and given up only after that many, a result is taken only from a bridge *)
(* that was given it, and once finished it is never delivered again.  No   *)
(* command can hold up or disturb another: any number of them may step     *)
(* together, each by its own rules.                                        *)
(***************************************************************************)
EXTENDS Integers

CONSTANTS
  Cmds,         \* the commands
  MaxAttempts   \* deliveries before a command is given up

VARIABLES
  durable,     \* TRUE iff the control plane never forgets a command
  phase,       \* "unknown", "pending", "in_progress", "done" or "failed"
  deliveries   \* how often each command was handed to a bridge

vars == <<durable, phase, deliveries>>

Phases == {"unknown", "pending", "in_progress", "done", "failed"}

Init ==
  /\ durable \in BOOLEAN
  /\ phase = [c \in Cmds |-> "unknown"]
  /\ deliveries = [c \in Cmds |-> 0]

Becomes(c, p, n) == phase'[c] = p /\ deliveries'[c] = n

Submit(c) ==
  /\ phase[c] = "unknown"
  /\ Becomes(c, "pending", deliveries[c])

\* A first delivery, or a redelivery once the lease has run out.
Deliver(c) ==
  /\ phase[c] \in {"pending", "in_progress"}
  /\ deliveries[c] < MaxAttempts
  /\ Becomes(c, "in_progress", deliveries[c] + 1)

\* The lease has run out and deliveries remain.
Return(c) ==
  /\ phase[c] = "in_progress"
  /\ deliveries[c] < MaxAttempts
  /\ Becomes(c, "pending", deliveries[c])

GiveUp(c) ==
  /\ phase[c] = "in_progress"
  /\ deliveries[c] = MaxAttempts
  /\ Becomes(c, "failed", deliveries[c])

\* A result, in time or late, of any delivery.
Answer(c) ==
  /\ phase[c] # "unknown"
  /\ deliveries[c] > 0
  /\ \E p \in {"done", "failed"} : Becomes(c, p, deliveries[c])

Forget(c) ==
  /\ ~durable
  /\ Becomes(c, "unknown", 0)

Keep(c) == Becomes(c, phase[c], deliveries[c])

Step(c) ==
  \/ Submit(c)
  \/ Deliver(c)
  \/ Return(c)
  \/ GiveUp(c)
  \/ Answer(c)
  \/ Forget(c)
  \/ Keep(c)

Next ==
  /\ phase' \in [Cmds -> Phases]
  /\ deliveries' \in [Cmds -> 0..MaxAttempts]
  /\ \A c \in Cmds : Step(c)
  /\ UNCHANGED durable

Spec == Init /\ [][Next]_vars
=============================================================================
