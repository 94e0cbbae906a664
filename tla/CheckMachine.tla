---------------------------- MODULE CheckMachine ----------------------------
(***************************************************************************)
(* The check machine (enclavize/logic/checkmachine.py): a Standard         *)
(* execution the timer starts every few minutes, with no input.  Each one  *)
(* reads pending and ready, and then does nothing, clears a word that is   *)
(* not for this commit, or claims the switch by deleting the timer and     *)
(* carries it out.  As in ReceiveMachine, an action is one Task with the   *)
(* Pass and Choice states around it.                                       *)
(***************************************************************************)
EXTENDS ApplyState

CONSTANTS
  CheckFaults,    \* the Tasks of this machine that may fail, without effect
  CheckLost       \* those whose call may take effect, its answer being lost

VARIABLES
  held,    \* per execution: the pending it read
  heard,   \* per execution: the ready it read
  found    \* per execution: the preparer it found up

checkLocal == <<check, held, heard, found>>

CheckTasks ==
  {"ReadPending", "ReadReady", "ClearStaleReady", "ClaimIt", "FindPreparer",
   "StopPreparer", "ClearReady", "LaunchNew", "WriteCurrent", "ClearPending",
   "RetireOldRecord", "UpdateRecord", "ClearPendingAfterFailure",
   "RecordFailure"}
CheckStates == {"idle", "Decide"} \cup CheckTasks

CheckRetried == {"LaunchNew", "WriteCurrent"}

ASSUME CheckFaultsOK ==
  CheckFaults \subseteq CheckTasks /\ CheckLost \subseteq CheckTasks

\* Mutant of CheckCatch: a Catch names a state the machine does not have.
CatchNamesNoState(task) ==
  IF task = "LaunchNew" THEN "ClearPendingAfter" ELSE "idle"

\* The Catch on States.ALL of a Task; "idle" is the end of the execution.
CheckCatch(task) ==
  CASE task = "LaunchNew"                -> "ClearPendingAfterFailure"
    [] task = "ClearPending"             -> "RetireOldRecord"
    [] task = "RetireOldRecord"          -> "UpdateRecord"
    [] task = "ClearPendingAfterFailure" -> "RecordFailure"
    [] OTHER                             -> "idle"

\* An execution moves on; one that ends forgets what it read.
CheckMovesTo(c, state) ==
  /\ check' = [check EXCEPT ![c] = state]
  /\ held'  = IF state = "idle" THEN [held  EXCEPT ![c] = None] ELSE held
  /\ heard' = IF state = "idle" THEN [heard EXCEPT ![c] = None] ELSE heard
  /\ found' = IF state = "idle" THEN [found EXCEPT ![c] = None] ELSE found

\* The Task's call took effect: the next state, or, not knowing, its Catch.
Goes(c, state) ==
  \/ CheckMovesTo(c, state)
  \/ /\ check[c] \in CheckLost
     /\ \/ CheckMovesTo(c, CheckCatch(check[c]))
        \/ check[c] \in CheckRetried /\ UNCHANGED <<check, held, heard, found>>

ReadPending(c) ==
  /\ check[c] = "ReadPending"
  /\ IF pending = None
     THEN CheckMovesTo(c, "idle")
     ELSE /\ check' = [check EXCEPT ![c] = "ReadReady"]
          /\ held'  = [held EXCEPT ![c] = pending]
          /\ UNCHANGED <<heard, found>>
  /\ UNCHANGED <<account, machines, requests, receive, expired>>

ReadReady(c) ==
  /\ check[c] = "ReadReady"
  /\ check' = [check EXCEPT ![c] = "Decide"]
  /\ heard' = [heard EXCEPT ![c] = ready]
  /\ UNCHANGED <<account, machines, requests, receive, expired, held, found>>

\* Mutant of ReadyForIt: any word will do.
AnyWord(c) == heard[c] # None

\* Is the word read the pending commit's?
ReadyForIt(c) == heard[c] # None /\ Word(heard[c]) = commitOf[held[c]]

\* Mutants of OutOfTime: a wait cut short, and one without end.
OutOfTimeEarly(c) == held[c] <= expired + 1
NeverOutOfTime(c) == held[c] = None

\* pending.at + timeout <= now
OutOfTime(c) == held[c] <= expired

\* Mutant of Decide: the word counts only once the wait is up.
DecideOnBoth(c) ==
  /\ check[c] = "Decide"
  /\ CheckMovesTo(c, IF ReadyForIt(c) /\ OutOfTime(c) THEN "ClaimIt" ELSE "idle")
  /\ UNCHANGED <<account, machines, requests, receive, expired>>

Decide(c) ==
  /\ check[c] = "Decide"
  /\ CheckMovesTo(c, IF ReadyForIt(c) \/ OutOfTime(c) THEN "ClaimIt"
             ELSE IF heard[c] # None THEN "ClearStaleReady" ELSE "idle")
  /\ UNCHANGED <<account, machines, requests, receive, expired>>

\* Deletes the parameter, whatever word it holds by now; then NotYet.
ClearOthersReady(c) ==
  /\ check[c] = "ClearStaleReady"
  /\ ready' = None
  /\ Goes(c, "idle")
  /\ UNCHANGED <<current, pending, timer, record, machines, requests, receive,
                 expired>>

-----------------------------------------------------------------------------
(* The switch.  Deleting the timer is the lock: NotFound means another run *)
(* has it.                                                                 *)

\* Mutant of ClaimIt: NotFound is taken for success.
ClaimWithoutLock(c) ==
  /\ check[c] = "ClaimIt"
  /\ timer' = FALSE
  /\ Goes(c, "FindPreparer")
  /\ UNCHANGED <<current, pending, ready, record, machines, requests, receive,
                 expired>>

ClaimIt(c) ==
  /\ check[c] = "ClaimIt"
  /\ timer' = FALSE
  /\ Goes(c, IF timer THEN "FindPreparer" ELSE "idle")
  /\ UNCHANGED <<current, pending, ready, record, machines, requests, receive,
                 expired>>

\* Mutant of FindPreparer: a tag no preparer carries is looked for.
FindByWrongTag(c) ==
  /\ check[c] = "FindPreparer"
  /\ Goes(c, "ClearReady")
  /\ UNCHANGED <<account, machines, requests, receive, expired>>

\* By tag, so by commit; and only the first of those it finds is stopped.
FindPreparer(c) ==
  /\ check[c] = "FindPreparer"
  /\ LET tagged == {a \in Applies : Up(a) /\ commitOf[a] = commitOf[held[c]]}
     IN  \/ /\ tagged = {}
            /\ check' = [check EXCEPT ![c] = "ClearReady"]
            /\ UNCHANGED found
         \/ \E a \in tagged :
              /\ check' = [check EXCEPT ![c] = "StopPreparer"]
              /\ found' = [found EXCEPT ![c] = a]
  /\ UNCHANGED <<account, machines, requests, receive, expired, held, heard>>

StopPreparer(c) ==
  /\ check[c] = "StopPreparer"
  /\ preparer' = [preparer EXCEPT ![found[c]] =
                    IF @ \in {"running", "stopped"} THEN "stopped" ELSE "left"]
  /\ Goes(c, "ClearReady")
  /\ UNCHANGED <<account, launches, requests, receive, expired>>

ClearReady(c) ==
  /\ check[c] = "ClearReady"
  /\ ready' = None
  /\ Goes(c, "LaunchNew")
  /\ UNCHANGED <<current, pending, timer, record, machines, requests, receive,
                 expired>>

LaunchNew(c) ==
  /\ check[c] = "LaunchNew"
  /\ launches' = [launches EXCEPT ![held[c]] = @ + 1]
  /\ Goes(c, "WriteCurrent")
  /\ UNCHANGED <<account, preparer, requests, receive, expired>>

WriteCurrent(c) ==
  /\ check[c] = "WriteCurrent"
  /\ current' = held[c]
  /\ Goes(c, "ClearPending")
  /\ UNCHANGED <<pending, ready, timer, record, machines, requests, receive,
                 expired>>

ClearPending(c) ==
  /\ check[c] = "ClearPending"
  /\ pending' = None
  /\ Goes(c, "RetireOldRecord")
  /\ UNCHANGED <<current, ready, timer, record, machines, requests, receive,
                 expired>>

\* Mutant of RetireOldRecord: the record key is the new version's.
RetireNewRecord(c) ==
  /\ check[c] = "RetireOldRecord"
  /\ record' = [record EXCEPT ![held[c]] = "retired"]
  /\ Goes(c, "UpdateRecord")
  /\ UNCHANGED <<current, pending, ready, timer, machines, requests, receive,
                 expired>>

RetireOldRecord(c) ==
  /\ check[c] = "RetireOldRecord"
  /\ record' = [record EXCEPT ![previousOf[held[c]]] = "retired"]
  /\ Goes(c, "UpdateRecord")
  /\ UNCHANGED <<current, pending, ready, timer, machines, requests, receive,
                 expired>>

UpdateRecord(c) ==
  /\ check[c] = "UpdateRecord"
  /\ record' = [record EXCEPT ![held[c]] = "launched"]
  /\ Goes(c, "idle")
  /\ UNCHANGED <<current, pending, ready, timer, machines, requests, receive,
                 expired>>

-----------------------------------------------------------------------------
(* The launch failed: the serving version stays.                           *)

ClearPendingAfterFailure(c) ==
  /\ check[c] = "ClearPendingAfterFailure"
  /\ pending' = None
  /\ Goes(c, "RecordFailure")
  /\ UNCHANGED <<current, ready, timer, record, machines, requests, receive,
                 expired>>

RecordFailure(c) ==
  /\ check[c] = "RecordFailure"
  /\ record' = [record EXCEPT ![held[c]] = "failed"]
  /\ Goes(c, "idle")
  /\ UNCHANGED <<current, pending, ready, timer, machines, requests, receive,
                 expired>>

CheckFails(c) ==
  /\ check[c] \in CheckFaults
  /\ CheckMovesTo(c, CheckCatch(check[c]))
  /\ UNCHANGED <<account, machines, requests, receive, expired>>

CheckStep(c) ==
  \/ ReadPending(c) \/ ReadReady(c) \/ Decide(c) \/ ClearOthersReady(c)
  \/ ClaimIt(c) \/ FindPreparer(c) \/ StopPreparer(c) \/ ClearReady(c)
  \/ LaunchNew(c) \/ WriteCurrent(c) \/ ClearPending(c)
  \/ RetireOldRecord(c) \/ UpdateRecord(c)
  \/ ClearPendingAfterFailure(c) \/ RecordFailure(c) \/ CheckFails(c)
=============================================================================
