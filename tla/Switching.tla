----------------------------- MODULE Switching ------------------------------
(***************************************************************************)
(* What the apply machinery promises, without its parameters, timer and    *)
(* executions: one version serves; at most one later one waits to replace  *)
(* it; it either does so or is given up.  Versions are numbered in the     *)
(* order they were asked for, so one that was replaced never comes back.   *)
(***************************************************************************)
EXTENDS Naturals

CONSTANT Versions   \* positive numbers, in the order they were asked for

None == 0

VARIABLES serving, waiting

vars == <<serving, waiting>>

Init == serving = None /\ waiting = None

\* The first version after a bring-up, or, while the launch of an earlier
\* first one was not written down, the first that is.
First(v) ==
  /\ serving = None
  /\ serving' = v
  /\ UNCHANGED waiting

Accept(v) ==
  /\ serving # None /\ waiting = None
  /\ v > serving
  /\ waiting' = v
  /\ UNCHANGED serving

Switch ==
  /\ waiting # None
  /\ serving' = waiting
  /\ waiting' = None

GiveUp ==
  /\ waiting # None
  /\ waiting' = None
  /\ UNCHANGED serving

Next ==
  \/ \E v \in Versions : First(v) \/ Accept(v)
  \/ Switch \/ GiveUp

Spec == Init /\ [][Next]_vars
=============================================================================
