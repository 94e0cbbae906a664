------------------------- MODULE ApplySwitchProofs --------------------------
(***************************************************************************)
(* Theorems about ApplySwitch, for every number of applies, commits and    *)
(* check executions and whatever Tasks may fail.  Type correctness needs   *)
(* no assumption.  The others are about receive executions that do not     *)
(* overlap and firings that are not late (Serial), which the code does not *)
(* enforce: two_receives.cfg shows a note overwritten without the first.   *)
(* What a launch whose answer is lost breaks is LaunchedOnce, and no more. *)
(***************************************************************************)
EXTENDS ApplySwitch, FiniteSetTheorems, TLAPS

(***************************************************************************)
(* The inductive invariant.  Its core is Alone: a receive that has passed  *)
(* Busy? and has not made the timer yet has the account to itself, because *)
(* no check runs, none can start without a timer, and only it makes one.   *)
(***************************************************************************)
Serial == MaxReceiving = 1 /\ MaxLateStarts = 0

\* run_instances names no client token, so a launch not known of is repeated.
LaunchesAnswered == "LaunchNew" \notin ReceiveLost \cup CheckLost

Arranging(a) == receive[a] \in {"AnyCurrent", "LaunchNew", "WriteCurrent",
                                "ClearStaleReady", "WritePending", "CreateSchedule"}
Arranged(a) == receive[a] \in {"LaunchPreparer", "UnwindSchedule",
                               "UnwindPending", "RecordApply"} \cup ReceiveEnds

\* Never launched, and accepted over the version that serves now.
Fresh(a) == launches[a] = 0 /\ previousOf[a] = current

\* Express executions one at a time: what Serial assumes.
OneReceiving == \A a, b \in Applies : Receiving(a) /\ Receiving(b) => a = b

\* AnyScheduled still tells the truth when AnyCheckRunning acts on it.
SawNoTimer ==
  \A a \in Applies : receive[a] = "AnyCheckRunning" /\ ~sawTimer[a] => ~timer

\* Past Busy? and before the timer: no timer, no check.
Alone ==
  \A a \in Applies : Arranging(a) => ~timer /\ \A c \in Checks : check[c] = "idle"

\* What AnyCurrent read is still so.
PreviousIsCurrent ==
  \A a \in Applies :
    /\ receive[a] \in {"ClearStaleReady", "WritePending", "CreateSchedule"}
         => previousOf[a] = current
    /\ receive[a] = "LaunchNew" => current = None
    /\ receive[a] = "WriteCurrent" => current \in {None, a}

\* Nothing launches an apply that has not been arranged.
NotYetLaunched ==
  \A a \in Applies :
    ~Arranged(a) /\ receive[a] # "WriteCurrent" =>
      launches[a] = 0 \/ (receive[a] = "LaunchNew" /\ ~LaunchesAnswered)

\* The note is of an apply whose arrangement came as far as the timer.
PendingIsArranged ==
  /\ pending # None => \/ Arranged(pending)
                       \/ receive[pending] \in {"WritePending", "CreateSchedule"}
  /\ \A a \in Applies : receive[a] = "CreateSchedule" => pending = a

\* And so is what a check holds from it.
HeldIsArranged ==
  \A c \in Checks :
    /\ check[c] \in {"idle", "ReadPending"} <=> held[c] = None
    /\ held[c] # None => Arranged(held[c])

\* While the timer stands, its note and every check's are of a fresh apply.
TimerIsForFresh ==
  timer => /\ pending # None => Fresh(pending)
           /\ \A c \in Checks : held[c] # None => Fresh(held[c])

\* A check that found the timer holds such an apply, and nobody has the timer.
SwitchersHoldTheLock ==
  \A c \in Checks :
    /\ Switching(c) => ~timer
    /\ BeforeCurrent(c) /\ check[c] # "WriteCurrent" =>
         /\ previousOf[held[c]] = current
         /\ launches[held[c]] = 0 \/ (check[c] = "LaunchNew" /\ ~LaunchesAnswered)
    /\ check[c] = "WriteCurrent" => current \in {previousOf[held[c]], held[c]}

\* The delete of the timer lets one check through.
OneSwitcher ==
  \A c, d \in Checks : BeforeCurrent(c) /\ BeforeCurrent(d) => c = d

OncePerApply == LaunchesAnswered => LaunchedOnce

IInv ==
  /\ TypeOK
  /\ lateStarts = 0
  /\ OneReceiving /\ SawNoTimer /\ Alone
  /\ PreviousIsCurrent /\ NotYetLaunched
  /\ PendingIsArranged /\ HeldIsArranged
  /\ TimerIsForFresh /\ SwitchersHoldTheLock /\ OneSwitcher
  /\ OncePerApply

-----------------------------------------------------------------------------
(* Type correctness                                                        *)

\* None is a legal value wherever an apply may be absent, and any other is an apply.
LEMMA Numbers == /\ None \in NoneOr
                 /\ Applies \subseteq NoneOr
                 /\ None \notin Applies
                 /\ \A a \in NoneOr : a # None => a \in Applies
  BY ConstantsOK DEF None, NoneOr, Applies

\* Every value stays in its range: a step of a receive execution.
LEMMA ReceiveKeepsTypes ==
  ASSUME TypeOK, NEW a \in Applies, Receive(a)
  PROVE  TypeOK'
<1> USE Numbers DEF TypeOK, account, machines, requests, GoesTo, ReceiveMovesTo,
        ReceiveCatch, ReceiveStates,
        ReceiveTasks, ReceiveEnds, Statuses, Preparers
<1>1. CASE Request(a)
  BY <1>1 DEF Receive, Request, Stamp
<1>2. CASE ReceiveStep(a)
  <2>1. CASE AnyScheduled(a)    BY <2>1, <1>2 DEF Receive, AnyScheduled
  <2>2. CASE AnyCheckRunning(a) BY <2>2 DEF Receive, AnyCheckRunning
  <2>3. CASE AnyCurrent(a)      BY <2>3 DEF Receive, AnyCurrent
  <2>4. CASE LaunchFirst(a)     BY <2>4 DEF Receive, LaunchFirst
  <2>5. CASE WriteFirst(a)      BY <2>5 DEF Receive, WriteFirst
  <2>6. CASE ClearOldReady(a)   BY <2>6 DEF Receive, ClearOldReady
  <2>7. CASE WritePending(a)    BY <2>7 DEF Receive, WritePending
  <2>8. CASE CreateSchedule(a)  BY <2>8 DEF Receive, CreateSchedule
  <2>9. CASE LaunchPreparer(a)  BY <2>9 DEF Receive, LaunchPreparer
  <2>10. CASE UnwindSchedule(a) BY <2>10 DEF Receive, UnwindSchedule
  <2>11. CASE UnwindPending(a)  BY <2>11 DEF Receive, UnwindPending
  <2>12. CASE RecordApply(a)    BY <2>12 DEF Receive, RecordApply
  <2>13. CASE ReceiveFails(a)   BY <2>13 DEF Receive, ReceiveFails, ReceiveCatch
  <2> QED BY <1>2, <2>1, <2>2, <2>3, <2>4, <2>5, <2>6, <2>7, <2>8, <2>9,
             <2>10, <2>11, <2>12, <2>13 DEF ReceiveStep
<1> QED BY <1>1, <1>2 DEF Receive

\* A check stays in its states, and what it read in range, wherever it goes.
LEMMA GoesKeepsTypes ==
  ASSUME TypeOK, NEW c \in Checks, NEW state \in CheckStates, Goes(c, state)
  PROVE  /\ check' \in [Checks -> CheckStates]
         /\ held' \in [Checks -> NoneOr]
         /\ heard' \in [Checks -> NoneOr]
         /\ found' \in [Checks -> NoneOr]
<1>1. ASSUME NEW s \in CheckStates, CheckMovesTo(c, s)
      PROVE  /\ check' \in [Checks -> CheckStates]
             /\ held' \in [Checks -> NoneOr]
             /\ heard' \in [Checks -> NoneOr]
             /\ found' \in [Checks -> NoneOr]
  BY <1>1, Numbers DEF CheckMovesTo, TypeOK
<1>2. CheckCatch(check[c]) \in CheckStates
  BY DEF CheckCatch, CheckStates, CheckTasks
<1> QED BY <1>1, <1>2 DEF Goes, TypeOK

\* Every value stays in its range: a step of a check execution.
LEMMA CheckKeepsTypes ==
  ASSUME TypeOK, NEW c \in Checks, Check(c)
  PROVE  TypeOK'
<1> USE Numbers DEF TypeOK, account, machines, requests, CheckStates, CheckTasks,
        Statuses, Preparers
<1>1. CASE ReadPending(c)      BY <1>1 DEF Check, ReadPending, CheckMovesTo
<1>2. CASE ReadReady(c)        BY <1>2 DEF Check, ReadReady
<1>3. CASE Decide(c)           BY <1>3 DEF Check, Decide, CheckMovesTo
<1>4. CASE ClearOthersReady(c) BY <1>4, GoesKeepsTypes DEF Check, ClearOthersReady
<1>5. CASE ClaimIt(c)          BY <1>5, GoesKeepsTypes DEF Check, ClaimIt
<1>6. CASE FindPreparer(c)     BY <1>6 DEF Check, FindPreparer
<1>7. CASE StopPreparer(c)     BY <1>7, GoesKeepsTypes DEF Check, StopPreparer
<1>8. CASE ClearReady(c)       BY <1>8, GoesKeepsTypes DEF Check, ClearReady
<1>9. CASE LaunchNew(c)
  <2>1. launches' \in [Applies -> Nat]
    <3>1. CASE held[c] \in Applies    BY <1>9, <3>1 DEF LaunchNew
    <3>2. CASE held[c] \notin Applies BY <1>9, <3>2, Zenon DEF LaunchNew
    <3> QED BY <3>1, <3>2
  <2> QED BY <1>9, <2>1, GoesKeepsTypes DEF Check, LaunchNew
<1>10. CASE WriteCurrent(c)    BY <1>10, GoesKeepsTypes DEF Check, WriteCurrent
<1>11. CASE ClearPending(c)    BY <1>11, GoesKeepsTypes DEF Check, ClearPending
<1>12. CASE RetireOldRecord(c) BY <1>12, GoesKeepsTypes DEF Check, RetireOldRecord
<1>13. CASE UpdateRecord(c)    BY <1>13, GoesKeepsTypes DEF Check, UpdateRecord
<1>14. CASE ClearPendingAfterFailure(c)
  BY <1>14, GoesKeepsTypes DEF Check, ClearPendingAfterFailure
<1>15. CASE RecordFailure(c)   BY <1>15, GoesKeepsTypes DEF Check, RecordFailure
<1>16. CASE CheckFails(c)      BY <1>16 DEF Check, CheckFails, CheckMovesTo, CheckCatch
<1> QED BY <1>1, <1>2, <1>3, <1>4, <1>5, <1>6, <1>7, <1>8, <1>9, <1>10,
           <1>11, <1>12, <1>13, <1>14, <1>15, <1>16 DEF Check, CheckStep

\* Every value stays in its range: the timer, the preparers and time.
LEMMA OthersKeepTypes ==
  ASSUME TypeOK,
         \/ \E a \in Applies : SayReady(a) \/ ShutDown(a)
         \/ \E c \in Checks : TimerFires(c) \/ StartsLate(c)
         \/ TimePasses
  PROVE  TypeOK'
<1> USE Numbers DEF TypeOK, account, machines, requests, receiveLocal,
        CheckStates, CheckTasks, Preparers
<1>1. ASSUME NEW a \in Applies, SayReady(a) PROVE TypeOK'
  BY <1>1 DEF SayReady
<1>2. ASSUME NEW a \in Applies, ShutDown(a) PROVE TypeOK'
  BY <1>2 DEF ShutDown
<1>3. ASSUME NEW c \in Checks, TimerFires(c) \/ StartsLate(c) PROVE TypeOK'
  BY <1>3 DEF TimerFires, StartsLate, Starts
<1>4. CASE TimePasses
  BY <1>4, ConstantsOK DEF TimePasses, NoneOr
<1> QED BY <1>1, <1>2, <1>3, <1>4

\* The account as the bring-up leaves it is well typed.
LEMMA InitIsTyped == Init => TypeOK
<1> SUFFICES ASSUME Init PROVE TypeOK
  OBVIOUS
<1>1. 0 \in Nat /\ None \in NoneOr
  BY Numbers
<1> QED
  BY <1>1 DEF Init, TypeOK, Statuses, Preparers, ReceiveStates, CheckStates

\* Every variable keeps its type, whatever overlaps and whatever fails.
THEOREM TypeCorrect == Spec => []TypeOK
<1>1. Init => TypeOK
  BY InitIsTyped
<1>2. TypeOK /\ [Next]_vars => TypeOK'
  <2> SUFFICES ASSUME TypeOK, [Next]_vars PROVE TypeOK'
    OBVIOUS
  <2>1. CASE Next
    BY <2>1, ReceiveKeepsTypes, CheckKeepsTypes, OthersKeepTypes DEF Next
  <2>2. CASE UNCHANGED vars
    BY <2>2 DEF vars, account, machines, requests, receiveLocal, TypeOK
  <2> QED BY <2>1, <2>2
<1> QED BY <1>1, <1>2, PTL DEF Spec

-----------------------------------------------------------------------------
(* One switch at a time, when receive executions do not overlap            *)

\* A request is stamped while no other execution receives.
LEMMA StampsAlone ==
  ASSUME Serial, NEW a \in Applies, NEW commit \in Commits, Stamp(a, commit)
  PROVE  \A b \in Applies : ~Receiving(b)
<1> DEFINE S == {b \in Applies : Receiving(b)}
<1>1. IsFiniteSet(S)
  <2>1. IsFiniteSet(Applies)
    BY FS_Interval, ConstantsOK DEF Applies
  <2>2. S \subseteq Applies
    OBVIOUS
  <2> QED BY <2>1, <2>2, FS_Subset
<1>2. Cardinality(S) < 1
  BY DEF Stamp, Serial
<1>3. S = {}
  <2> HIDE DEF S
  <2>1. Cardinality(S) \in Nat
    BY <1>1, FS_CardinalityType
  <2>2. Cardinality(S) = 0
    BY <1>2, <2>1
  <2> QED BY <1>1, <2>2, FS_EmptySet
<1> QED BY <1>3

\* A step of a receive execution preserves the inductive invariant.
LEMMA ReceiveKeepsIInv ==
  ASSUME Serial, IInv, NEW a \in Applies, Receive(a)
  PROVE  IInv'
<1>t. TypeOK'
  BY ReceiveKeepsTypes DEF IInv
<1> USE <1>t, Numbers DEF IInv, TypeOK, OneReceiving, SawNoTimer, Alone,
        PreviousIsCurrent, NotYetLaunched, PendingIsArranged, HeldIsArranged,
        TimerIsForFresh, SwitchersHoldTheLock, OneSwitcher, OncePerApply,
        LaunchesAnswered, LaunchedOnce,
        Receiving, Arranging, Arranged, Fresh, Switching, BeforeCurrent,
        ReceiveEnds, account, machines, requests, GoesTo, ReceiveMovesTo,
        ReceiveCatch, ReceiveRetried, Serial
<1>1. CASE AnyScheduled(a) BY <1>1, SMTT(30) DEF Receive, AnyScheduled, CheckRunning
<1>2. CASE AnyCheckRunning(a) BY <1>2, SMTT(30) DEF Receive, AnyCheckRunning, CheckRunning
<1>3. CASE AnyCurrent(a) BY <1>3, SMTT(30) DEF Receive, AnyCurrent, CheckRunning
<1>4. CASE LaunchFirst(a) BY <1>4, SMTT(30) DEF Receive, LaunchFirst, CheckRunning
<1>5. CASE WriteFirst(a) BY <1>5, SMTT(30) DEF Receive, WriteFirst, CheckRunning
<1>6. CASE ClearOldReady(a) BY <1>6, SMTT(30) DEF Receive, ClearOldReady, CheckRunning
<1>7. CASE WritePending(a) BY <1>7, SMTT(30) DEF Receive, WritePending, CheckRunning
<1>8. CASE CreateSchedule(a)
  <2>1. /\ ~timer /\ pending = a
        /\ \A c \in Checks : check[c] = "idle" /\ held[c] = None
    BY <1>8 DEF CreateSchedule
  <2>2. PICK s \in {"LaunchPreparer", "UnwindPending"} :
          receive' = [receive EXCEPT ![a] = s]
    BY <1>8, <2>1 DEF CreateSchedule
  <2>3. \A b \in Applies : b # a => ~Receiving(b) /\ receive'[b] = receive[b]
    BY <2>2, <1>8 DEF CreateSchedule
  <2>4. TimerIsForFresh'
    BY <1>8, <2>1 DEF Receive, CreateSchedule
  <2>5. (OneReceiving /\ SawNoTimer /\ Alone)'
    BY <1>8, <2>1, <2>2, <2>3, SMTT(30) DEF Receive, CreateSchedule
  <2>6. (PreviousIsCurrent /\ NotYetLaunched)'
    BY <1>8, <2>1, <2>2, <2>3, SMTT(30) DEF Receive, CreateSchedule
  <2>7. (PendingIsArranged /\ HeldIsArranged)'
    BY <1>8, <2>1, <2>2, <2>3, SMTT(30) DEF Receive, CreateSchedule
  <2>8. (SwitchersHoldTheLock /\ OneSwitcher /\ OncePerApply)'
    BY <1>8, <2>1 DEF Receive, CreateSchedule
  <2> QED BY <2>4, <2>5, <2>6, <2>7, <2>8, <1>8 DEF Receive
<1>9. CASE LaunchPreparer(a) BY <1>9, SMTT(30) DEF Receive, LaunchPreparer, CheckRunning
<1>10. CASE UnwindSchedule(a) BY <1>10, SMTT(30) DEF Receive, UnwindSchedule, CheckRunning
<1>11. CASE UnwindPending(a) BY <1>11, SMTT(30) DEF Receive, UnwindPending, CheckRunning
<1>12. CASE RecordApply(a) BY <1>12, SMTT(30) DEF Receive, RecordApply, CheckRunning
<1>13. CASE ReceiveFails(a)
  BY <1>13, ReceiveFaultsOK, SMTT(30) DEF Receive, ReceiveFails, ReceiveCatch, ReceiveTasks
<1>14. CASE Request(a)
  <2>1. PICK commit \in Commits : Stamp(a, commit)
    BY <1>14 DEF Request
  <2>2. \A b \in Applies : ~Receiving(b)
    BY <2>1, StampsAlone
  <2> QED BY <2>1, <2>2, <1>14 DEF Receive, Stamp
<1> QED BY <1>1, <1>2, <1>3, <1>4, <1>5, <1>6, <1>7, <1>8, <1>9, <1>10, <1>11,
           <1>12, <1>13, <1>14 DEF Receive, ReceiveStep

\* A step of a check execution preserves it.
LEMMA CheckKeepsIInv ==
  ASSUME Serial, IInv, NEW c \in Checks, Check(c)
  PROVE  IInv'
<1>t. TypeOK'
  BY CheckKeepsTypes DEF IInv
<1> USE <1>t, Numbers DEF IInv, TypeOK, OneReceiving, SawNoTimer, Alone,
        PreviousIsCurrent, NotYetLaunched, PendingIsArranged, HeldIsArranged,
        TimerIsForFresh, SwitchersHoldTheLock, OneSwitcher, OncePerApply,
        LaunchesAnswered, LaunchedOnce,
        Receiving, Arranging, Arranged, Fresh, Switching, BeforeCurrent,
        ReceiveEnds, account, machines, requests, Goes, CheckMovesTo,
        CheckCatch, CheckRetried, Serial
<1>e. ASSUME CheckMovesTo(c, "idle"),
             UNCHANGED <<current, pending, timer, machines, requests, receive,
                         sawTimer, lateStarts>>
      PROVE  IInv'
  <2>1. check' = [check EXCEPT ![c] = "idle"] /\ held' = [held EXCEPT ![c] = None]
    BY <1>e
  <2>2. (SawNoTimer /\ Alone /\ HeldIsArranged /\ TimerIsForFresh)'
    BY <1>e, <2>1
  <2>3. (SwitchersHoldTheLock /\ OneSwitcher)'
    BY <1>e, <2>1
  <2> QED BY <1>e, <2>2, <2>3
<1>1. CASE ReadPending(c) BY <1>1, SMTT(30) DEF Check, ReadPending
<1>2. CASE ReadReady(c) BY <1>2, SMTT(30) DEF Check, ReadReady
<1>3. CASE Decide(c) BY <1>3, SMTT(30) DEF Check, Decide
<1>4. CASE ClearOthersReady(c) BY <1>4, SMTT(30) DEF Check, ClearOthersReady
<1>5. CASE ClaimIt(c) BY <1>5, SMTT(30) DEF Check, ClaimIt
<1>6. CASE FindPreparer(c) BY <1>6, SMTT(30) DEF Check, FindPreparer
<1>7. CASE StopPreparer(c) BY <1>7, SMTT(30) DEF Check, StopPreparer
<1>8. CASE ClearReady(c) BY <1>8, SMTT(30) DEF Check, ClearReady
<1>9. CASE LaunchNew(c) BY <1>9, SMTT(30) DEF Check, LaunchNew
<1>10. CASE WriteCurrent(c) BY <1>10, SMTT(30) DEF Check, WriteCurrent
<1>11. CASE ClearPending(c) BY <1>11, SMTT(30) DEF Check, ClearPending
<1>12. CASE RetireOldRecord(c) BY <1>12, SMTT(30) DEF Check, RetireOldRecord
<1>13. CASE UpdateRecord(c)
  <2>1. CheckMovesTo(c, "idle")
    BY <1>13 DEF UpdateRecord
  <2> QED BY <1>13, <2>1, <1>e DEF Check, UpdateRecord
<1>14. CASE ClearPendingAfterFailure(c) BY <1>14, SMTT(30) DEF Check, ClearPendingAfterFailure
<1>15. CASE RecordFailure(c)
  <2>1. CheckMovesTo(c, "idle")
    BY <1>15 DEF RecordFailure
  <2> QED BY <1>15, <2>1, <1>e DEF Check, RecordFailure
<1>16. CASE CheckFails(c)
  BY <1>16, CheckFaultsOK, SMTT(30) DEF Check, CheckFails, CheckCatch, CheckTasks
<1> QED BY <1>1, <1>2, <1>3, <1>4, <1>5, <1>6, <1>7, <1>8, <1>9, <1>10, <1>11,
           <1>12, <1>13, <1>14, <1>15, <1>16 DEF Check, CheckStep

\* The timer, the preparers and time preserve it.
LEMMA OthersKeepIInv ==
  ASSUME Serial, IInv,
         \/ \E a \in Applies : SayReady(a) \/ ShutDown(a)
         \/ \E c \in Checks : TimerFires(c) \/ StartsLate(c)
         \/ TimePasses
  PROVE  IInv'
<1>t. TypeOK'
  BY OthersKeepTypes DEF IInv
<1> USE <1>t, Numbers DEF IInv, OneReceiving, SawNoTimer, Alone,
        PreviousIsCurrent, NotYetLaunched, PendingIsArranged, HeldIsArranged,
        TimerIsForFresh, SwitchersHoldTheLock, OneSwitcher, OncePerApply,
        LaunchesAnswered, LaunchedOnce,
        Receiving, Arranging, Arranged, Fresh, Switching, BeforeCurrent,
        account, machines, requests, receiveLocal
<1>1. ASSUME NEW a \in Applies, SayReady(a) \/ ShutDown(a) PROVE IInv'
  BY <1>1 DEF SayReady, ShutDown
<1>2. ASSUME NEW c \in Checks, TimerFires(c) PROVE IInv'
  BY <1>2 DEF TimerFires, Starts, TypeOK
<1>3. ASSUME NEW c \in Checks, StartsLate(c) PROVE FALSE
  BY <1>3 DEF StartsLate, Serial
<1>4. CASE TimePasses
  BY <1>4 DEF TimePasses
<1> QED BY <1>1, <1>2, <1>3, <1>4

\* So it holds throughout, as long as receives do not overlap.
LEMMA IInvHolds ==
  ASSUME Serial
  PROVE  Spec => []IInv
<1>1. Init => IInv
  <2> SUFFICES ASSUME Init PROVE IInv
    OBVIOUS
  <2>1. TypeOK
    BY InitIsTyped
  <2> QED
    BY <2>1, Numbers
       DEF Init, IInv, OneReceiving, SawNoTimer, Alone, PreviousIsCurrent,
           NotYetLaunched, PendingIsArranged, HeldIsArranged, TimerIsForFresh,
           SwitchersHoldTheLock, OneSwitcher, OncePerApply, LaunchesAnswered,
           LaunchedOnce, Receiving, Arranging, Arranged, Switching, BeforeCurrent, ReceiveEnds
<1>2. IInv /\ [Next]_vars => IInv'
  <2> SUFFICES ASSUME IInv, [Next]_vars PROVE IInv'
    OBVIOUS
  <2>1. CASE Next
    BY <2>1, ReceiveKeepsIInv, CheckKeepsIInv, OthersKeepIInv DEF Next
  <2>2. CASE UNCHANGED vars
    BY <2>2
       DEF vars, account, machines, requests, receiveLocal, IInv, TypeOK,
           OneReceiving, SawNoTimer, Alone, PreviousIsCurrent, NotYetLaunched,
           PendingIsArranged, HeldIsArranged, TimerIsForFresh,
           SwitchersHoldTheLock, OneSwitcher, OncePerApply, LaunchesAnswered,
           LaunchedOnce, Receiving, Arranging, Arranged, Fresh, Switching, BeforeCurrent
  <2> QED BY <2>1, <2>2
<1> QED BY <1>1, <1>2, PTL DEF Spec

\* checkmachine.py: a commit is launched once, however many checks overlap and
\* whichever Task of either machine fails, as long as receives do not overlap
\* and the answer of no launch is lost.
THEOREM SerialLaunchesOnce ==
  ASSUME Serial, LaunchesAnswered
  PROVE  Spec => []LaunchedOnce
<1>1. IInv => LaunchedOnce
  BY DEF IInv, OncePerApply
<1> QED BY <1>1, IInvHolds, PTL

\* WritePending runs only while no timer stands, so a step under a standing
\* timer keeps the note or deletes it.
LEMMA PendingIsWrittenAlone ==
  ASSUME IInv, [Next]_vars, timer
  PROVE  pending' \in {pending, None}
<1>1. ASSUME NEW a \in Applies, Receive(a) PROVE pending' \in {pending, None}
  BY <1>1 DEF Receive, Request, Stamp, ReceiveStep, AnyScheduled,
     AnyCheckRunning, AnyCurrent, LaunchFirst, WriteFirst, ClearOldReady,
     WritePending, CreateSchedule, LaunchPreparer, UnwindSchedule,
     UnwindPending, RecordApply, ReceiveFails, account, IInv, Alone, Arranging
<1>2. ASSUME NEW c \in Checks, Check(c) PROVE pending' \in {pending, None}
  BY <1>2 DEF Check, CheckStep, ReadPending, ReadReady, Decide,
     ClearOthersReady, ClaimIt, FindPreparer, StopPreparer, ClearReady,
     LaunchNew, WriteCurrent, ClearPending, RetireOldRecord, UpdateRecord,
     ClearPendingAfterFailure, RecordFailure, CheckFails, account
<1> QED BY <1>1, <1>2 DEF Next, SayReady, ShutDown, TimerFires, StartsLate,
           Starts, TimePasses, vars, account

\* statemachine.py Busy?: while a timer stands for an apply, no other apply's
\* note takes the place of its own.
THEOREM SerialNeverOverwrites ==
  ASSUME Serial
  PROVE  Spec => NotOverwritten
<1>1. IInv /\ [Next]_vars => [timer => pending' \in {pending, None}]_pending
  BY PendingIsWrittenAlone
<1> QED BY <1>1, IInvHolds, PTL DEF Spec, NotOverwritten

\* A step that replaces the serving version is a check's WriteCurrent, and
\* what the check holds was accepted over the version that serves.
LEMMA SwitchStep ==
  ASSUME IInv, [Next]_vars, current # None, current' # current
  PROVE  previousOf[current'] = current
<1>1. ASSUME NEW a \in Applies, Receive(a) PROVE current' = current
  BY <1>1 DEF Receive, Request, Stamp, ReceiveStep, AnyScheduled,
     AnyCheckRunning, AnyCurrent, LaunchFirst, WriteFirst, ClearOldReady,
     WritePending, CreateSchedule, LaunchPreparer, UnwindSchedule,
     UnwindPending, RecordApply, ReceiveFails, account, IInv, PreviousIsCurrent
<1>2. ASSUME NEW c \in Checks, Check(c)
      PROVE  current' = current \/ previousOf[current'] = current
  <2>1. CASE WriteCurrent(c)
    BY <2>1 DEF WriteCurrent, IInv, SwitchersHoldTheLock, BeforeCurrent
  <2>2. CASE ~WriteCurrent(c)
    BY <1>2, <2>2 DEF Check, CheckStep, ReadPending, ReadReady, Decide,
       ClearOthersReady, ClaimIt, FindPreparer, StopPreparer, ClearReady,
       LaunchNew, ClearPending, RetireOldRecord, UpdateRecord,
       ClearPendingAfterFailure, RecordFailure, CheckFails, account
  <2> QED BY <2>1, <2>2
<1> QED BY <1>1, <1>2 DEF Next, SayReady, ShutDown, TimerFires, StartsLate,
           Starts, TimePasses, vars, account

\* A switch replaces exactly the version its preparer was launched from.
THEOREM SerialReplacesPrevious ==
  ASSUME Serial
  PROVE  Spec => SwitchReplacesPrevious
<1>1. IInv /\ [Next]_vars =>
        [current # None /\ current' # current => previousOf[current'] = current]_current
  BY SwitchStep
<1> QED BY <1>1, IInvHolds, PTL DEF Spec, SwitchReplacesPrevious

-----------------------------------------------------------------------------
(* A timer always has its pending, when the machine knows of the timer it  *)
(* made and the delete that unwinds it does not fail.                      *)

UnwindsTheTimer == /\ "CreateSchedule" \notin ReceiveLost
                   /\ "UnwindSchedule" \notin ReceiveFaults

UnwindingIsBare == \A a \in Applies : receive[a] = "UnwindPending" => ~timer

\* Unless UnwindSchedule fails, or the timer was made and not known of, a step
\* keeps a note under every standing timer.
LEMMA TimerStep ==
  ASSUME Serial, UnwindsTheTimer,
         IInv, UnwindingIsBare, TimerHasPending, [Next]_vars
  PROVE  UnwindingIsBare' /\ TimerHasPending'
<1> USE Numbers DEF UnwindingIsBare, TimerHasPending
<1>1. ASSUME NEW a \in Applies, Receive(a)
      PROVE  UnwindingIsBare' /\ TimerHasPending'
  <2> USE <1>1 DEF Receive, GoesTo, ReceiveMovesTo, ReceiveCatch, ReceiveRetried,
          UnwindsTheTimer, account, IInv, TypeOK
  <2>1. CASE CreateSchedule(a)
    <3>1. ~timer /\ pending = a /\ receive' = [receive EXCEPT ![a] = "LaunchPreparer"]
      BY <2>1 DEF CreateSchedule, Alone, Arranging, PendingIsArranged
    <3>2. \A b \in Applies : receive[b] = "UnwindPending" => b = a
      BY <2>1 DEF CreateSchedule, OneReceiving, Receiving, ReceiveEnds
    <3> QED BY <2>1, <3>1, <3>2 DEF CreateSchedule
  <2>2. CASE ReceiveFails(a)
    BY <2>2, SMTT(30) DEF ReceiveFails, ReceiveCatch, Alone, Arranging
  <2>3. CASE UnwindPending(a) \/ UnwindSchedule(a) \/ WritePending(a)
    BY <2>3 DEF UnwindPending, UnwindSchedule, WritePending
  <2>4. CASE Request(a)
    BY <2>4, SMTT(30) DEF Request, Stamp
  <2>6. CASE AnyScheduled(a)
    BY <2>6, SMTT(30) DEF AnyScheduled
  <2>7. CASE AnyCheckRunning(a)
    BY <2>7, SMTT(30) DEF AnyCheckRunning
  <2>8. CASE AnyCurrent(a)
    BY <2>8, SMTT(30) DEF AnyCurrent
  <2>5. CASE LaunchFirst(a) \/ WriteFirst(a) \/ ClearOldReady(a)
             \/ LaunchPreparer(a) \/ RecordApply(a)
    BY <2>5 DEF LaunchFirst, WriteFirst, ClearOldReady, LaunchPreparer, RecordApply
  <2> QED BY <2>1, <2>2, <2>3, <2>4, <2>5, <2>6, <2>7, <2>8 DEF ReceiveStep
<1>2. ASSUME NEW c \in Checks, Check(c)
      PROVE  UnwindingIsBare' /\ TimerHasPending'
  BY <1>2 DEF Check, CheckStep, ReadPending, ReadReady, Decide,
     ClearOthersReady, ClaimIt, FindPreparer, StopPreparer, ClearReady,
     LaunchNew, WriteCurrent, ClearPending, RetireOldRecord, UpdateRecord,
     ClearPendingAfterFailure, RecordFailure, CheckFails, account, IInv,
     SwitchersHoldTheLock, Switching
<1> QED BY <1>1, <1>2 DEF Next, SayReady, ShutDown, TimerFires, StartsLate,
           Starts, TimePasses, vars, account, receiveLocal

\* statemachine.py UnwindSchedule: as long as that one delete does not fail, nor
\* the answer to CreateSchedule is lost, no failure leaves a timer behind that
\* no check would ever take down.
THEOREM SerialTimerHasPending ==
  ASSUME Serial, UnwindsTheTimer
  PROVE  Spec => []TimerHasPending
<1>1. Init => UnwindingIsBare /\ TimerHasPending
  BY DEF Init, UnwindingIsBare, TimerHasPending
<1>2. IInv /\ UnwindingIsBare /\ TimerHasPending /\ [Next]_vars
        => UnwindingIsBare' /\ TimerHasPending'
  BY TimerStep
<1> QED BY <1>1, <1>2, IInvHolds, PTL DEF Spec
=============================================================================
