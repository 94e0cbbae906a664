----------------------------- MODULE ApplySwitch -----------------------------
(***************************************************************************)
(* The apply machinery: the receive machine and the check machine at work  *)
(* on one account, with the preparing instances, the timer that starts     *)
(* check executions, and the passing of time.                              *)
(***************************************************************************)
EXTENDS ReceiveMachine, CheckMachine

CONSTANTS
  EagerPreparer,   \* may a preparer speak before its receive has answered
  MaxLateStarts    \* bound: check runs a timer starts after it was deleted

ASSUME EnvironmentOK ==
  /\ EagerPreparer \in BOOLEAN
  /\ MaxLateStarts \in Nat

VARIABLE lateStarts

vars == <<account, machines, requests, check, expired, receiveLocal, held,
          heard, found, lateStarts>>

TypeOK ==
  /\ current \in NoneOr /\ pending \in NoneOr /\ ready \in NoneOr
  /\ timer \in BOOLEAN
  /\ record \in [Applies -> Statuses]
  /\ preparer \in [Applies -> Preparers]
  /\ launches \in [Applies -> Nat]
  /\ commitOf \in [Applies -> Commits \cup {NoCommit}]
  /\ previousOf \in [Applies -> NoneOr]
  /\ receive \in [Applies -> ReceiveStates]
  /\ sawTimer \in [Applies -> BOOLEAN]
  /\ check \in [Checks -> CheckStates]
  /\ held \in [Checks -> NoneOr]
  /\ heard \in [Checks -> NoneOr]
  /\ found \in [Checks -> NoneOr]
  /\ expired \in NoneOr
  /\ lateStarts \in Nat

\* A bring-up leaves no parameter, no timer and no record (setup/apply.py).
Init ==
  /\ current = None /\ pending = None /\ ready = None /\ timer = FALSE
  /\ record = [a \in Applies |-> "none"]
  /\ preparer = [a \in Applies |-> "none"]
  /\ launches = [a \in Applies |-> 0]
  /\ commitOf = [a \in Applies |-> NoCommit]
  /\ previousOf = [a \in Applies |-> None]
  /\ receive = [a \in Applies |-> "none"]
  /\ sawTimer = [a \in Applies |-> FALSE]
  /\ check = [c \in Checks |-> "idle"]
  /\ held = [c \in Checks |-> None]
  /\ heard = [c \in Checks |-> None]
  /\ found = [c \in Checks |-> None]
  /\ expired = None
  /\ lateStarts = 0

-----------------------------------------------------------------------------
(* The timer: rate(interval), target the check machine.  Runs overlap when *)
(* one is slow or a firing is delivered twice; a firing on its way when    *)
(* the timer is deleted still starts a run.                                *)

Starts(c) ==
  /\ check[c] = "idle"
  /\ check' = [check EXCEPT ![c] = "ReadPending"]
  /\ UNCHANGED <<account, machines, requests, receiveLocal, held, heard, found,
                 expired>>

TimerFires(c) ==
  /\ timer
  /\ Starts(c)
  /\ UNCHANGED lateStarts

StartsLate(c) ==
  /\ ~timer
  /\ \E a \in Applies : preparer[a] # "none"
  /\ lateStarts < MaxLateStarts
  /\ lateStarts' = lateStarts + 1
  /\ Starts(c)

-----------------------------------------------------------------------------
(* The preparing instance: the application's own setup.sh in UPDATE mode.  *)
(* It may say ready once, naming the commit it was told is coming, and     *)
(* then shuts down; it may stop without a word; it may run on for ever.    *)

SayReady(a) ==
  /\ preparer[a] = "running"
  /\ EagerPreparer \/ ~Receiving(a)
  /\ ready' = a
  /\ preparer' = [preparer EXCEPT ![a] = "spoke"]
  /\ UNCHANGED <<current, pending, timer, record, launches, requests, check,
                 expired, receiveLocal, held, heard, found, lateStarts>>

ShutDown(a) ==
  /\ Up(a)
  /\ preparer' = [preparer EXCEPT ![a] =
                    IF @ = "running" THEN "stopped" ELSE "left"]
  /\ UNCHANGED <<account, launches, requests, check, expired, receiveLocal,
                 held, heard, found, lateStarts>>

\* The wait (a week) is longer than an Express execution can last (5 min).
TimePasses ==
  /\ expired < MaxApplies
  /\ receive[expired + 1] \in ReceiveEnds
  /\ expired' = expired + 1
  /\ UNCHANGED <<account, machines, requests, check, receiveLocal, held, heard,
                 found, lateStarts>>

-----------------------------------------------------------------------------
Request(a) == \E commit \in Commits : Stamp(a, commit)

Receive(a) ==
  /\ Request(a) \/ ReceiveStep(a)
  /\ UNCHANGED <<held, heard, found, lateStarts>>

Check(c) == CheckStep(c) /\ UNCHANGED <<sawTimer, lateStarts>>

Next ==
  \/ \E a \in Applies : Receive(a) \/ SayReady(a) \/ ShutDown(a)
  \/ \E c \in Checks : Check(c) \/ TimerFires(c) \/ StartsLate(c)
  \/ TimePasses

Spec == Init /\ [][Next]_vars

(***************************************************************************)
(* An execution that started carries on to its end (Step Functions runs    *)
(* it), a standing timer keeps firing, and time passes.  Nothing is        *)
(* promised of requests or of preparers.                                   *)
(***************************************************************************)
Fairness ==
  /\ \A a \in Applies : WF_vars(ReceiveStep(a) /\ UNCHANGED <<held, heard, found, lateStarts>>)
  /\ \A c \in Checks : WF_vars(Check(c)) /\ WF_vars(TimerFires(c))
  /\ WF_vars(TimePasses)

FairSpec == Spec /\ Fairness

-----------------------------------------------------------------------------
(* Safety                                                                  *)

\* A commit is launched to serve once per apply, however many checks overlap
\* (checkmachine.py's claim: the delete of the timer is the lock).
LaunchedOnce == \A a \in Applies : launches[a] <= 1

\* From the claim of the timer until current is written, and until the end.
BeforeCurrent(c) == check[c] \in
  {"FindPreparer", "StopPreparer", "ClearReady", "LaunchNew", "WriteCurrent"}
Switching(c) == BeforeCurrent(c) \/ check[c] \in
  {"ClearPending", "RetireOldRecord", "UpdateRecord",
   "ClearPendingAfterFailure", "RecordFailure"}

HasSpoken(a) == preparer[a] \in {"spoke", "left"}

\* A switch begins only when the preparer of that very apply has said ready,
\* or the apply has waited the timeout out (checkmachine.py _decision).
OwnWordOrTimeout ==
  \A c \in Checks : Switching(c) => HasSpoken(held[c]) \/ held[c] <= expired

\* Whatever fails, a switch begins only on the timeout or on the word of a
\* preparer told this very commit: a word about another commit that arrives
\* late is cleared, not counted (checkmachine.py _decision, ClearStaleReady).
CommitsWordOrTimeout ==
  \A c \in Checks : Switching(c) =>
    \/ \E a \in Applies : HasSpoken(a) /\ commitOf[a] = commitOf[held[c]]
    \/ held[c] <= expired

\* When the new version is launched no preparer is up any more, so none acts
\* for the old version beside it (checkmachine.py FindPreparer, StopPreparer).
NoPreparerBesideTheNew ==
  \A c \in Checks :
    check[c] \in {"LaunchNew", "WriteCurrent"} => \A a \in Applies : ~Up(a)

\* A standing timer always has a pending apply for its checks to act on.  One
\* without would refuse every apply for good: no check would ever delete it
\* (statemachine.py Busy? against UnwindSchedule and UnwindPending).
TimerHasPending == timer => pending # None

\* While the timer stands for an apply, no other apply's note replaces its
\* own (the reason statemachine.py gives for Busy?).
NotOverwritten == [][timer => pending' \in {pending, None}]_pending

\* A switch replaces exactly the version its preparer was launched from, so
\* the preparer prepared what was serving, and the record it retires is the
\* one of the version replaced (pending.previous, read before everything).
SwitchReplacesPrevious ==
  [][current # None /\ current' # current => previousOf[current'] = current]_current

Quiet == ~timer /\ ~CheckRunning /\ \A a \in Applies : ~Receiving(a)

\* Between applies the records tell what happened: the serving apply is the
\* one "launched", those it followed are "retired", and none is "preparing"
\* (checkmachine.py RetireOldRecord, UpdateRecord; statemachine.py RecordApply).
RecordsTellTheTruth ==
  Quiet => \A a \in Applies :
    /\ record[a] = "launched" <=> current = a
    /\ record[a] = "retired" <=> launches[a] > 0 /\ current # a
    /\ record[a] # "preparing"

\* A check that claimed the apply and has not yet written it down as serving.
Owes(c) == BeforeCurrent(c) /\ held[c] # current

\* The apply that waits: its timer stands, or a check owes the switch to it.
Waiting ==
  IF timer THEN pending
  ELSE IF \E c \in Checks : Owes(c) THEN held[CHOOSE c \in Checks : Owes(c)]
       ELSE None

Promise == INSTANCE Switching
             WITH Versions <- Applies, serving <- current, waiting <- Waiting

\* The two machines together do what Switching promises: one version serves,
\* at most one later one waits, a replaced version never comes back
\* (statemachine.py and checkmachine.py, through every failure they handle).
KeepsThePromise == Promise!Spec

-----------------------------------------------------------------------------
(* Liveness, under FairSpec                                                *)

\* An apply the API accepted is launched and written down: a preparer that
\* never speaks delays it by the timeout and no more (checkmachine.py).
AcceptedIsServed ==
  \A a \in Applies :
    receive[a] = "Answered" ~> launches[a] > 0 /\ record[a] \in {"launched", "retired"}

\* A timer never stands for ever, so applies are never refused for good
\* (statemachine.py's claim of what reading the timer itself gains).
TimerGoes == timer ~> ~timer
=============================================================================
