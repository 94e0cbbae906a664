--------------------------- MODULE ReceiveMachine ---------------------------
(***************************************************************************)
(* The receive machine (enclavize/logic/statemachine.py): one Express      *)
(* execution per request to the apply API.  It refuses when an apply is in *)
(* flight, launches the commit when nothing serves, and otherwise arranges *)
(* a preparer, a timer and a pending note for the check machine.           *)
(*                                                                         *)
(* An action is one Task state with the Pass and Choice states around it:  *)
(* those touch nothing but the execution's own data.  A Task is one AWS    *)
(* call, which is atomic; between two Tasks anything else may happen.      *)
(***************************************************************************)
EXTENDS ApplyState

CONSTANTS
  ReceiveFaults,  \* the Tasks of this machine that may fail, without effect
  ReceiveLost     \* those whose call may take effect, its answer being lost

VARIABLE sawTimer       \* per execution: AnyScheduled found the timer

receiveLocal == <<receive, sawTimer>>

ReceiveTasks ==
  {"AnyScheduled", "AnyCheckRunning", "AnyCurrent", "LaunchNew",
   "WriteCurrent", "ClearStaleReady", "WritePending", "CreateSchedule",
   "LaunchPreparer", "UnwindSchedule", "UnwindPending", "RecordApply"}
ReceiveStates == {"none"} \cup ReceiveTasks \cup ReceiveEnds

\* Mutant of ReceiveCatch: the preparer's Catch leaves the timer standing.
CatchKeepsTimer(task) ==
  IF task \in {"CreateSchedule", "LaunchPreparer"} THEN "UnwindPending" ELSE "Failed"

(***************************************************************************)
(* Where an execution goes when a Task fails for good: its Catch on        *)
(* States.ALL, or, for a Task with none, the end of the execution.         *)
(***************************************************************************)
ReceiveCatch(task) ==
  CASE task \in {"CreateSchedule", "UnwindSchedule"} -> "UnwindPending"
    [] task = "LaunchPreparer" -> "UnwindSchedule"
    [] task = "RecordApply"    -> "Answered"
    [] OTHER                   -> "Failed"

\* PROFILE_RETRY and PARAMETER_RETRY.  A retry of a call that had no effect is
\* not a step; one of a call whose answer was lost makes the call again.
ReceiveRetried == {"LaunchNew", "WriteCurrent", "WritePending"}

\* A second preparer of one apply has no place in `preparer`.
ASSUME ReceiveFaultsOK ==
  /\ ReceiveFaults \subseteq ReceiveTasks
  /\ ReceiveLost \subseteq ReceiveTasks \ {"LaunchPreparer"}

ReceiveMovesTo(a, state) == receive' = [receive EXCEPT ![a] = state]

\* The Task's call took effect: the next state, or, not knowing, its Catch.
GoesTo(a, state) ==
  \/ ReceiveMovesTo(a, state)
  \/ /\ receive[a] \in ReceiveLost
     /\ \/ ReceiveMovesTo(a, ReceiveCatch(receive[a]))
        \/ receive[a] \in ReceiveRetried /\ UNCHANGED receive

(***************************************************************************)
(* A request names a commit and is stamped.  Nothing in the API keeps two  *)
(* executions from overlapping; MaxReceiving says how many do.             *)
(***************************************************************************)
Stamp(a, commit) ==
  /\ receive[a] = "none"
  /\ \A b \in Applies : b < a => receive[b] # "none"
  /\ Cardinality({b \in Applies : Receiving(b)}) < MaxReceiving
  /\ commitOf' = [commitOf EXCEPT ![a] = commit]
  /\ ReceiveMovesTo(a, "AnyScheduled")
  /\ UNCHANGED <<account, machines, previousOf, check, expired, sawTimer>>

\* Mutant of AnyScheduled: the timer is not looked for.
LooksForNoTimer(a) ==
  /\ receive[a] = "AnyScheduled"
  /\ GoesTo(a, "AnyCheckRunning")
  /\ UNCHANGED <<account, machines, requests, check, expired, sawTimer>>

AnyScheduled(a) ==
  /\ receive[a] = "AnyScheduled"
  /\ sawTimer' = [sawTimer EXCEPT ![a] = timer]
  /\ GoesTo(a, "AnyCheckRunning")
  /\ UNCHANGED <<account, machines, requests, check, expired>>

\* Mutant of AnyCheckRunning: only the timer counts as an apply in flight.
BusyByTimerOnly(a) ==
  /\ receive[a] = "AnyCheckRunning"
  /\ GoesTo(a, IF sawTimer[a] THEN "Refused" ELSE "AnyCurrent")
  /\ UNCHANGED <<account, machines, requests, check, expired, sawTimer>>

\* With Busy?: what AnyScheduled saw, and whether a check runs now.
AnyCheckRunning(a) ==
  /\ receive[a] = "AnyCheckRunning"
  /\ GoesTo(a, IF sawTimer[a] \/ CheckRunning THEN "Refused" ELSE "AnyCurrent")
  /\ UNCHANGED <<account, machines, requests, check, expired, sawTimer>>

\* Mutant of AnyCurrent: the apply requested before is taken to be serving.
TakesTheLastRequested(a) ==
  /\ receive[a] = "AnyCurrent"
  /\ previousOf' = [previousOf EXCEPT ![a] = a - 1]
  /\ GoesTo(a, IF current = None THEN "LaunchNew" ELSE "ClearStaleReady")
  /\ UNCHANGED <<account, machines, commitOf, check, expired, sawTimer>>

\* With First? and, when something serves, Prepare: `previous` is this read.
AnyCurrent(a) ==
  /\ receive[a] = "AnyCurrent"
  /\ previousOf' = [previousOf EXCEPT ![a] = current]
  /\ GoesTo(a, IF current = None THEN "LaunchNew" ELSE "ClearStaleReady")
  /\ UNCHANGED <<account, machines, commitOf, check, expired, sawTimer>>

-----------------------------------------------------------------------------
(* Nothing serving: launch the commit and say so.                          *)

LaunchFirst(a) ==
  /\ receive[a] = "LaunchNew"
  /\ launches' = [launches EXCEPT ![a] = @ + 1]
  /\ GoesTo(a, "WriteCurrent")
  /\ UNCHANGED <<account, preparer, requests, check, expired, sawTimer>>

WriteFirst(a) ==
  /\ receive[a] = "WriteCurrent"
  /\ current' = a
  /\ GoesTo(a, "RecordApply")
  /\ UNCHANGED <<pending, ready, timer, record, machines, requests, check,
                 expired, sawTimer>>

-----------------------------------------------------------------------------
(* Something serving: arrange its preparer.                                *)

ClearOldReady(a) ==
  /\ receive[a] = "ClearStaleReady"
  /\ ready' = None
  /\ GoesTo(a, "WritePending")
  /\ UNCHANGED <<current, pending, timer, record, machines, requests, check,
                 expired, sawTimer>>

\* Overwrites whatever note is there.
WritePending(a) ==
  /\ receive[a] = "WritePending"
  /\ pending' = a
  /\ GoesTo(a, "CreateSchedule")
  /\ UNCHANGED <<current, ready, timer, record, machines, requests, check,
                 expired, sawTimer>>

\* The name is taken while a timer stands: a conflict, caught like any error.
CreateSchedule(a) ==
  /\ receive[a] = "CreateSchedule"
  /\ timer' = TRUE
  /\ GoesTo(a, IF timer THEN "UnwindPending" ELSE "LaunchPreparer")
  /\ UNCHANGED <<current, pending, ready, record, machines, requests, check,
                 expired, sawTimer>>

LaunchPreparer(a) ==
  /\ receive[a] = "LaunchPreparer"
  /\ preparer' = [preparer EXCEPT ![a] = "running"]
  /\ GoesTo(a, "RecordApply")
  /\ UNCHANGED <<account, launches, requests, check, expired, sawTimer>>

UnwindSchedule(a) ==
  /\ receive[a] = "UnwindSchedule"
  /\ timer' = FALSE
  /\ GoesTo(a, "UnwindPending")
  /\ UNCHANGED <<current, pending, ready, record, machines, requests, check,
                 expired, sawTimer>>

\* Deletes the parameter, whichever apply's note it holds by now.
UnwindPending(a) ==
  /\ receive[a] = "UnwindPending"
  /\ pending' = None
  /\ GoesTo(a, "Failed")
  /\ UNCHANGED <<current, ready, timer, record, machines, requests, check,
                 expired, sawTimer>>

-----------------------------------------------------------------------------
(* RecordLaunched or RecordPreparing, then RecordApply.  The index the     *)
(* states after it write is ApplyIndex's subject; they touch nothing here. *)

RecordApply(a) ==
  /\ receive[a] = "RecordApply"
  /\ record' = [record EXCEPT ![a] = IF previousOf[a] = None THEN "launched"
                                                             ELSE "preparing"]
  /\ GoesTo(a, "Answered")
  /\ UNCHANGED <<current, pending, ready, timer, machines, requests, check,
                 expired, sawTimer>>

ReceiveFails(a) ==
  /\ receive[a] \in ReceiveFaults
  /\ ReceiveMovesTo(a, ReceiveCatch(receive[a]))
  /\ UNCHANGED <<account, machines, requests, check, expired, sawTimer>>

ReceiveStep(a) ==
  \/ AnyScheduled(a) \/ AnyCheckRunning(a) \/ AnyCurrent(a)
  \/ LaunchFirst(a) \/ WriteFirst(a)
  \/ ClearOldReady(a) \/ WritePending(a) \/ CreateSchedule(a)
  \/ LaunchPreparer(a) \/ UnwindSchedule(a) \/ UnwindPending(a)
  \/ RecordApply(a) \/ ReceiveFails(a)
=============================================================================
