---- MODULE MCApplySwitch ----
(* Small instances of ApplySwitch for TLC. *)
EXTENDS ApplySwitch, TLC

\* Commits and check executions are interchangeable.
Symmetry == Permutations(Commits) \cup Permutations(Checks)

NoFaults == {}
\* Every failure but one: that of the delete that takes the timer down again.
AllButUnwindSchedule == ReceiveTasks \ {"UnwindSchedule"}
AllOfTheCheck == CheckTasks
\* What may take effect unnoticed: not a launch, which would be tried again,
\* nor the making of the timer, which nobody would take down again.
ReceiveMayLose == ReceiveTasks \ {"LaunchNew", "LaunchPreparer", "CreateSchedule"}
CheckMayLose == CheckTasks \ {"LaunchNew"}
LaunchAndUnwindFail == {"LaunchPreparer", "UnwindSchedule"}
StopPreparerFails == {"StopPreparer"}
====
