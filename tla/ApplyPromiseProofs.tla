------------------------ MODULE ApplyPromiseProofs -------------------------
(***************************************************************************)
(* The receive machine and the check machine implement Switching, for      *)
(* every number of applies, commits and check executions, when receives do *)
(* not overlap.  Beside IInv it takes the order of the numbers: what waits *)
(* is later than what serves, since only the latest request can be         *)
(* receiving, and all that the checks and the note name is one apply.      *)
(***************************************************************************)
EXTENDS ApplySwitchProofs

StampedInOrder ==
  \A a, b \in Applies : b < a /\ receive[a] # "none" => receive[b] # "none"

ReceivesTheLatest ==
  \A a, b \in Applies : Receiving(a) /\ receive[b] # "none" => b <= a

\* Whatever is, or is about to be, written down as serving was launched.
ServesWhatWasLaunched ==
  /\ current # None => launches[current] > 0
  /\ \A a \in Applies : launches[a] > 0 => receive[a] # "none"
  /\ \A a \in Applies : receive[a] = "WriteCurrent" => launches[a] > 0
  /\ \A c \in Checks : check[c] = "WriteCurrent" => launches[held[c]] > 0

PreviousIsEarlier == \A a \in Applies : previousOf[a] < a

\* Nothing is arranged, noted or held while nothing serves.
SomethingServes ==
  /\ timer \/ pending # None => current # None
  /\ \A c \in Checks : held[c] # None => current # None
  /\ \A a \in Applies :
       receive[a] \in {"ClearStaleReady", "WritePending", "CreateSchedule"} => current # None

\* No two checks hold different notes, nor one that is not the note there is.
OneNote ==
  /\ \A c \in Checks : held[c] # None /\ pending # None => held[c] = pending
  /\ \A c, d \in Checks : held[c] # None /\ held[d] # None => held[c] = held[d]

OrderInv == /\ IInv
            /\ StampedInOrder /\ ReceivesTheLatest /\ ServesWhatWasLaunched
            /\ PreviousIsEarlier /\ SomethingServes /\ OneNote

\* A step of a receive execution preserves the order.
LEMMA ReceiveKeepsOrder ==
  ASSUME Serial, OrderInv, NEW a \in Applies, Receive(a)
  PROVE  OrderInv'
<1>i. IInv'
  BY ReceiveKeepsIInv DEF OrderInv
<1> USE <1>i, Numbers, ConstantsOK DEF OrderInv, IInv, TypeOK, StampedInOrder,
        ReceivesTheLatest, ServesWhatWasLaunched, PreviousIsEarlier,
        SomethingServes, OneNote, Receiving, ReceiveEnds, account, machines,
        requests, GoesTo, ReceiveMovesTo, ReceiveCatch, ReceiveRetried, Serial
<1>1. CASE AnyScheduled(a)    BY <1>1, SMTT(30) DEF Receive, AnyScheduled
<1>2. CASE AnyCheckRunning(a) BY <1>2, SMTT(30) DEF Receive, AnyCheckRunning
<1>3. CASE AnyCurrent(a)
  <2>1. current < a
    <3>1. launches[a] = 0
      BY <1>3 DEF AnyCurrent, NotYetLaunched, Arranged
    <3>2. CASE current = None
      BY <3>2 DEF Applies, None
    <3>3. CASE current # None
      <4>1. current \in Applies /\ current # a /\ receive[current] # "none"
        BY <3>1, <3>3
      <4>2. current <= a
        BY <4>1, <1>3 DEF AnyCurrent
      <4> QED BY <4>1, <4>2 DEF Applies
    <3> QED BY <3>2, <3>3
  <2>2. PICK s \in {"LaunchNew", "ClearStaleReady", "Failed"} :
          /\ receive' = [receive EXCEPT ![a] = s]
          /\ s = "ClearStaleReady" => current # None
    BY <1>3 DEF AnyCurrent
  <2>3. PreviousIsEarlier'
    BY <1>3, <2>1 DEF AnyCurrent
  <2> QED BY <1>3, <2>2, <2>3 DEF Receive, AnyCurrent
<1>4. CASE LaunchFirst(a)     BY <1>4, SMTT(30) DEF Receive, LaunchFirst
<1>5. CASE WriteFirst(a)      BY <1>5, SMTT(30) DEF Receive, WriteFirst
<1>6. CASE ClearOldReady(a)   BY <1>6, SMTT(30) DEF Receive, ClearOldReady
<1>7. CASE WritePending(a)    BY <1>7, SMTT(30) DEF Receive, WritePending, Alone, Arranging, HeldIsArranged
<1>8. CASE CreateSchedule(a)  BY <1>8, SMTT(30) DEF Receive, CreateSchedule
<1>9. CASE LaunchPreparer(a)  BY <1>9, SMTT(30) DEF Receive, LaunchPreparer
<1>10. CASE UnwindSchedule(a) BY <1>10, SMTT(30) DEF Receive, UnwindSchedule
<1>11. CASE UnwindPending(a)  BY <1>11, SMTT(30) DEF Receive, UnwindPending
<1>12. CASE RecordApply(a)    BY <1>12, SMTT(30) DEF Receive, RecordApply
<1>13. CASE ReceiveFails(a)
  BY <1>13, ReceiveFaultsOK, SMTT(30) DEF Receive, ReceiveFails, ReceiveTasks
<1>14. CASE Request(a)
  <2>1. PICK commit \in Commits : Stamp(a, commit)
    BY <1>14 DEF Request
  <2>2. \A b \in Applies : ~Receiving(b)
    BY <2>1, StampsAlone
  <2>3. \A b \in Applies : receive[b] # "none" => b < a
    BY <2>1 DEF Stamp, Applies
  <2> QED BY <1>14, <2>1, <2>2, <2>3 DEF Receive, Stamp, Applies
<1> QED BY <1>1, <1>2, <1>3, <1>4, <1>5, <1>6, <1>7, <1>8, <1>9, <1>10, <1>11,
           <1>12, <1>13, <1>14 DEF Receive, ReceiveStep

\* A step of a check execution preserves it.
LEMMA CheckKeepsOrder ==
  ASSUME Serial, OrderInv, NEW c \in Checks, Check(c)
  PROVE  OrderInv'
<1>i. IInv'
  BY CheckKeepsIInv DEF OrderInv
<1> USE <1>i, Numbers DEF OrderInv, IInv, TypeOK, StampedInOrder,
        ReceivesTheLatest, ServesWhatWasLaunched, PreviousIsEarlier,
        SomethingServes, OneNote, Receiving, account, machines, requests,
        Goes, CheckMovesTo, CheckCatch, CheckRetried, Serial
<1>1. CASE ReadPending(c)      BY <1>1, SMTT(30) DEF Check, ReadPending
<1>2. CASE ReadReady(c)        BY <1>2, SMTT(30) DEF Check, ReadReady
<1>3. CASE Decide(c)           BY <1>3, SMTT(30) DEF Check, Decide
<1>4. CASE ClearOthersReady(c) BY <1>4, SMTT(30) DEF Check, ClearOthersReady
<1>5. CASE ClaimIt(c)          BY <1>5, SMTT(30) DEF Check, ClaimIt
<1>6. CASE FindPreparer(c)     BY <1>6, SMTT(30) DEF Check, FindPreparer
<1>7. CASE StopPreparer(c)     BY <1>7, SMTT(30) DEF Check, StopPreparer
<1>8. CASE ClearReady(c)       BY <1>8, SMTT(30) DEF Check, ClearReady
<1>9. CASE LaunchNew(c)
  BY <1>9, SMTT(30) DEF Check, LaunchNew, HeldIsArranged, Arranged, ReceiveEnds
<1>10. CASE WriteCurrent(c)
  BY <1>10, SMTT(30) DEF Check, WriteCurrent, HeldIsArranged
<1>11. CASE ClearPending(c)    BY <1>11, SMTT(30) DEF Check, ClearPending
<1>12. CASE RetireOldRecord(c) BY <1>12, SMTT(30) DEF Check, RetireOldRecord
<1>13. CASE UpdateRecord(c)    BY <1>13, SMTT(30) DEF Check, UpdateRecord
<1>14. CASE ClearPendingAfterFailure(c) BY <1>14, SMTT(30) DEF Check, ClearPendingAfterFailure
<1>15. CASE RecordFailure(c)
  <2>1. CheckMovesTo(c, "idle")
    BY <1>15 DEF RecordFailure
  <2> QED BY <1>15, <2>1 DEF Check, RecordFailure
<1>16. CASE CheckFails(c)      BY <1>16, CheckFaultsOK, SMTT(30) DEF Check, CheckFails, CheckTasks
<1> QED BY <1>1, <1>2, <1>3, <1>4, <1>5, <1>6, <1>7, <1>8, <1>9, <1>10, <1>11,
           <1>12, <1>13, <1>14, <1>15, <1>16 DEF Check, CheckStep

\* The timer, the preparers and time preserve it.
LEMMA OthersKeepOrder ==
  ASSUME Serial, OrderInv,
         \/ \E a \in Applies : SayReady(a) \/ ShutDown(a)
         \/ \E c \in Checks : TimerFires(c) \/ StartsLate(c)
         \/ TimePasses
  PROVE  OrderInv'
<1>i. IInv'
  BY OthersKeepIInv DEF OrderInv
<1> USE <1>i, Numbers DEF OrderInv, IInv, TypeOK, StampedInOrder,
        ReceivesTheLatest, ServesWhatWasLaunched, PreviousIsEarlier,
        SomethingServes, OneNote, Receiving, account, machines, requests, receiveLocal
<1>1. ASSUME NEW a \in Applies, SayReady(a) \/ ShutDown(a) PROVE OrderInv'
  BY <1>1 DEF SayReady, ShutDown
<1>2. ASSUME NEW c \in Checks, TimerFires(c) \/ StartsLate(c) PROVE OrderInv'
  BY <1>2 DEF TimerFires, StartsLate, Starts
<1>3. CASE TimePasses
  BY <1>3 DEF TimePasses
<1> QED BY <1>1, <1>2, <1>3

\* So it holds throughout.
LEMMA OrderInvHolds ==
  ASSUME Serial
  PROVE  Spec => []OrderInv
<1>1. Init => StampedInOrder /\ ReceivesTheLatest /\ ServesWhatWasLaunched
              /\ PreviousIsEarlier /\ SomethingServes /\ OneNote
  BY Numbers, ConstantsOK
     DEF Init, StampedInOrder, ReceivesTheLatest, ServesWhatWasLaunched,
         PreviousIsEarlier, SomethingServes, OneNote, Receiving, Applies, None
<1>2. OrderInv /\ [Next]_vars /\ IInv' => OrderInv'
  <2> SUFFICES ASSUME OrderInv, [Next]_vars, IInv' PROVE OrderInv'
    OBVIOUS
  <2>1. CASE Next
    BY <2>1, ReceiveKeepsOrder, CheckKeepsOrder, OthersKeepOrder DEF Next
  <2>2. CASE UNCHANGED vars
    BY <2>2 DEF vars, account, machines, requests, receiveLocal, OrderInv,
       StampedInOrder, ReceivesTheLatest, ServesWhatWasLaunched,
       PreviousIsEarlier, SomethingServes, OneNote, Receiving
  <2> QED BY <2>1, <2>2
<1> QED BY <1>1, <1>2, IInvHolds, PTL DEF Spec, OrderInv

(***************************************************************************)
(* The mapping, without its CHOOSE: at most one check owes a switch, and   *)
(* none does while the timer stands.                                       *)
(***************************************************************************)
WaitingReads ==
  /\ timer => Waiting = pending
  /\ \A c \in Checks : Owes(c) => Waiting = held[c] /\ held[c] \in Applies /\ ~timer
  /\ ~timer /\ (\A c \in Checks : ~Owes(c)) => Waiting = None

\* Which apply waits can be read off the state.
LEMMA WhoWaits == IInv => WaitingReads
<1> SUFFICES ASSUME IInv PROVE WaitingReads
  OBVIOUS
<1>1. timer => Waiting = pending
  BY DEF Waiting
<1>2. ASSUME NEW c \in Checks, Owes(c)
      PROVE  Waiting = held[c] /\ held[c] \in Applies /\ ~timer
  <2>1. ~timer
    BY <1>2 DEF Owes, IInv, SwitchersHoldTheLock, Switching
  <2>2. \A d \in Checks : Owes(d) => d = c
    BY <1>2 DEF Owes, IInv, OneSwitcher
  <2>3. (CHOOSE d \in Checks : Owes(d)) = c
    BY <1>2, <2>2
  <2>4. held[c] \in Applies
    BY <1>2, Numbers DEF Owes, BeforeCurrent, IInv, TypeOK, HeldIsArranged
  <2> QED BY <1>2, <2>1, <2>3, <2>4 DEF Waiting
<1>3. ~timer /\ (\A c \in Checks : ~Owes(c)) => Waiting = None
  BY DEF Waiting
<1> QED BY <1>1, <1>2, <1>3 DEF WaitingReads

\* And so it can after the step.
LEMMA WhoWaitsNext == IInv' => WaitingReads'
  BY WhoWaits, PTL

\* A step that moves neither the timer, its note nor any owed switch.
LEMMA LeavesItWaiting ==
  ASSUME WaitingReads, WaitingReads', UNCHANGED <<current, timer>>,
         timer => pending' = pending,
         \A c \in Checks : /\ BeforeCurrent(c)' <=> BeforeCurrent(c)
                           /\ BeforeCurrent(c) => held'[c] = held[c]
  PROVE  UNCHANGED Promise!vars
<1>1. \A c \in Checks : /\ Owes(c)' <=> Owes(c)
                        /\ Owes(c) => held'[c] = held[c]
  BY DEF Owes
<1>2. CASE timer
  BY <1>2 DEF WaitingReads, Promise!vars
<1>3. CASE ~timer /\ \E c \in Checks : Owes(c)
  BY <1>1, <1>3 DEF WaitingReads, Promise!vars
<1>4. CASE ~timer /\ \A c \in Checks : ~Owes(c)
  BY <1>1, <1>4 DEF WaitingReads, Promise!vars
<1> QED BY <1>2, <1>3, <1>4

\* A step after which no timer stands and no check owes a switch, and that
\* wrote nothing down as serving: what waited, if anything, is given up.
LEMMA LeavesNoneWaiting ==
  ASSUME WaitingReads', UNCHANGED current, ~timer',
         \A c \in Checks : ~Owes(c)'
  PROVE  [Promise!Next]_Promise!vars
<1>1. Waiting' = None
  BY DEF WaitingReads, None
<1> QED BY <1>1, Numbers DEF Promise!Next, Promise!GiveUp, Promise!vars, Promise!None, None

\* A step of a receive execution is First, Accept, GiveUp or nothing.
LEMMA ReceiveKeepsPromise ==
  ASSUME OrderInv, WaitingReads, WaitingReads', NEW a \in Applies, Receive(a)
  PROVE  [Promise!Next]_Promise!vars
<1> USE Numbers DEF OrderInv, IInv, account, machines, requests
<1>n. \A c \in Checks : Owes(c) => ~timer /\ check[c] # "idle"
  BY DEF Owes, BeforeCurrent, SwitchersHoldTheLock, Switching
<1>1. CASE WriteFirst(a)
  <2>1. ~timer /\ \A c \in Checks : check[c] = "idle"
    BY <1>1 DEF WriteFirst, Alone, Arranging
  <2>2. Waiting = None /\ Waiting' = None
    BY <1>1, <2>1 DEF WriteFirst, WaitingReads, Owes, BeforeCurrent
  <2>3. current \in {None, a} /\ current' = a
    BY <1>1 DEF WriteFirst, PreviousIsCurrent
  <2>4. CASE current = a
    BY <2>2, <2>3, <2>4 DEF Promise!vars
  <2>5. CASE current = None
    <3>1. Promise!First(a)
      BY <2>2, <2>3, <2>5 DEF Promise!First, Promise!None, None
    <3> QED BY <3>1 DEF Promise!Next
  <2> QED BY <2>3, <2>4, <2>5
<1>2. CASE CreateSchedule(a)
  <2>1. ~timer /\ timer' /\ pending = a /\ \A c \in Checks : check[c] = "idle"
    BY <1>2 DEF CreateSchedule, Alone, Arranging, PendingIsArranged
  <2>2. Waiting = None /\ Waiting' = a
    BY <1>2, <2>1 DEF CreateSchedule, WaitingReads, Owes, BeforeCurrent
  <2>3. current # None /\ current < a
    BY <1>2 DEF CreateSchedule, SomethingServes, PreviousIsEarlier, PreviousIsCurrent
  <2>4. Promise!Accept(a)
    BY <1>2, <2>2, <2>3 DEF CreateSchedule, Promise!Accept, Promise!None, None,
       Applies, NoneOr, TypeOK
  <2> QED BY <2>4 DEF Promise!Next
<1>3. CASE UnwindSchedule(a)
  <2>1. CASE timer
    <3>1. \A c \in Checks : ~Owes(c)'
      BY <1>3, <1>n, <2>1 DEF Receive, UnwindSchedule, Owes, BeforeCurrent
    <3> QED BY <1>3, <3>1, LeavesNoneWaiting DEF UnwindSchedule
  <2>2. CASE ~timer
    <3>1. UNCHANGED Promise!vars
      BY <1>3, <2>2, LeavesItWaiting DEF Receive, UnwindSchedule, BeforeCurrent, TypeOK
    <3> QED BY <3>1
  <2> QED BY <2>1, <2>2
<1>4. CASE UnwindPending(a)
  <2>1. CASE timer
    <3>1. Waiting' = None
      BY <1>4, <2>1 DEF UnwindPending, WaitingReads
    <3> QED BY <1>4, <3>1 DEF UnwindPending, Promise!Next, Promise!GiveUp,
            Promise!vars, Promise!None, None
  <2>2. CASE ~timer
    <3>1. UNCHANGED Promise!vars
      BY <1>4, <2>2, LeavesItWaiting DEF Receive, UnwindPending, BeforeCurrent
    <3> QED BY <3>1
  <2> QED BY <2>1, <2>2
<1>5. CASE \/ Request(a) \/ AnyScheduled(a) \/ AnyCheckRunning(a) \/ AnyCurrent(a)
           \/ LaunchFirst(a) \/ ClearOldReady(a) \/ WritePending(a)
           \/ LaunchPreparer(a) \/ RecordApply(a) \/ ReceiveFails(a)
  <2>1. UNCHANGED <<current, timer, check, held>> /\ (timer => pending' = pending)
    BY <1>5 DEF Receive, Request, Stamp, AnyScheduled, AnyCheckRunning, AnyCurrent,
       LaunchFirst, ClearOldReady, WritePending, LaunchPreparer, RecordApply,
       ReceiveFails, Alone, Arranging
  <2>2. UNCHANGED Promise!vars
    BY <2>1, LeavesItWaiting DEF BeforeCurrent
  <2> QED BY <2>2
<1> QED BY <1>1, <1>2, <1>3, <1>4, <1>5 DEF Receive, ReceiveStep

\* A step of a check execution is Accept, Switch, GiveUp or nothing.
LEMMA CheckKeepsPromise ==
  ASSUME Serial, OrderInv, WaitingReads, WaitingReads', NEW c \in Checks, Check(c)
  PROVE  [Promise!Next]_Promise!vars
<1> USE Numbers DEF OrderInv, IInv, TypeOK, account, machines, requests
<1>1. \A d \in Checks : BeforeCurrent(d) => ~timer
  BY DEF BeforeCurrent, SwitchersHoldTheLock, Switching
<1>2. ASSUME UNCHANGED <<current, timer>>, timer => pending' = pending,
             BeforeCurrent(c)' <=> BeforeCurrent(c),
             BeforeCurrent(c) => held'[c] = held[c],
             \A d \in Checks \ {c} : check'[d] = check[d] /\ held'[d] = held[d]
      PROVE  UNCHANGED Promise!vars
  <2>1. \A d \in Checks : /\ BeforeCurrent(d)' <=> BeforeCurrent(d)
                          /\ BeforeCurrent(d) => held'[d] = held[d]
    BY <1>2 DEF BeforeCurrent
  <2> QED BY <1>2, <2>1, LeavesItWaiting
<1>3. ASSUME UNCHANGED <<current, timer>>, BeforeCurrent(c), ~BeforeCurrent(c)',
             \A d \in Checks \ {c} : check'[d] = check[d] /\ held'[d] = held[d]
      PROVE  [Promise!Next]_Promise!vars
  <2>1. \A d \in Checks : ~Owes(d)'
    BY <1>3 DEF Owes, BeforeCurrent, OneSwitcher
  <2> QED BY <1>1, <1>3, <2>1, LeavesNoneWaiting
<1>4. CASE ClaimIt(c)
  <2>1. CASE timer /\ BeforeCurrent(c)'
    <3>1. /\ check' = [check EXCEPT ![c] = "FindPreparer"]
          /\ UNCHANGED <<held, current>>
      BY <1>4, <2>1 DEF ClaimIt, Goes, CheckMovesTo, CheckCatch, CheckRetried, BeforeCurrent
    <3>2. held[c] \in Applies /\ launches[held[c]] = 0 /\ previousOf[held[c]] = current
      BY <1>4, <2>1 DEF ClaimIt, HeldIsArranged, TimerIsForFresh, Fresh
    <3>3. current # None /\ current < held[c]
      BY <3>2, <2>1 DEF SomethingServes, PreviousIsEarlier
    <3>4. Waiting' = held[c] /\ Waiting = pending
      BY <2>1, <3>1, <3>3, <3>2 DEF WaitingReads, Owes, Applies, NoneOr
    <3>5. CASE pending = None
      <4>1. Promise!Accept(held[c])
        BY <3>1, <3>2, <3>3, <3>4, <3>5 DEF Promise!Accept, Promise!None, None,
           Applies, NoneOr
      <4> QED BY <3>2, <4>1 DEF Promise!Next
    <3>6. CASE pending # None
      BY <3>1, <3>2, <3>4, <3>6 DEF OneNote, Promise!vars
    <3> QED BY <3>5, <3>6
  <2>2. CASE timer /\ ~BeforeCurrent(c)'
    <3>1. \A d \in Checks : ~BeforeCurrent(d)'
      BY <1>1, <1>4, <2>2 DEF ClaimIt, Goes, CheckMovesTo, BeforeCurrent
    <3> QED BY <1>4, <3>1, LeavesNoneWaiting DEF ClaimIt, Owes
  <2>3. CASE ~timer
    BY <1>2, <1>4, <2>3 DEF ClaimIt, Goes, CheckMovesTo, CheckCatch, CheckRetried,
       BeforeCurrent
  <2> QED BY <2>1, <2>2, <2>3
<1>5. CASE WriteCurrent(c)
  <2>1. /\ ~timer /\ ~timer' /\ held[c] \in Applies /\ current' = held[c]
        /\ \A d \in Checks : BeforeCurrent(d) => d = c
    BY <1>1, <1>5 DEF WriteCurrent, BeforeCurrent, OneSwitcher, HeldIsArranged
  <2>2. \A d \in Checks : BeforeCurrent(d)' => d = c /\ held'[c] = held[c]
    BY <1>5, <2>1 DEF WriteCurrent, Goes, CheckMovesTo, BeforeCurrent
  <2>3. Waiting' = None
    BY <2>1, <2>2 DEF WaitingReads, Owes
  <2>4. CASE held[c] # current
    <3>1. Waiting = held[c]
      BY <1>5, <2>4 DEF WriteCurrent, WaitingReads, Owes, BeforeCurrent
    <3> QED BY <2>1, <2>3, <3>1 DEF Promise!Next, Promise!Switch, Promise!None, None
  <2>5. CASE held[c] = current
    <3>1. Waiting = None
      BY <2>1, <2>5 DEF WaitingReads, Owes
    <3> QED BY <2>1, <2>3, <2>5, <3>1 DEF Promise!vars
  <2> QED BY <2>4, <2>5
<1>6. CASE CheckFails(c)
  <2>1. UNCHANGED <<current, timer, pending>>
    BY <1>6 DEF CheckFails
  <2>2. ~BeforeCurrent(c)'
    BY <1>6, CheckFaultsOK DEF CheckFails, CheckMovesTo, CheckCatch, BeforeCurrent
  <2>3. \A d \in Checks \ {c} : check'[d] = check[d] /\ held'[d] = held[d]
    BY <1>6 DEF CheckFails, CheckMovesTo
  <2> QED BY <1>2, <1>3, <2>1, <2>2, <2>3
<1>7. CASE \/ FindPreparer(c) \/ StopPreparer(c) \/ ClearReady(c) \/ LaunchNew(c)
  <2>1. UNCHANGED <<current, timer, pending>> /\ BeforeCurrent(c)
    BY <1>7 DEF FindPreparer, StopPreparer, ClearReady, LaunchNew, BeforeCurrent
  <2>2. /\ BeforeCurrent(c)' => held'[c] = held[c]
        /\ \A d \in Checks \ {c} : check'[d] = check[d] /\ held'[d] = held[d]
    BY <1>7 DEF FindPreparer, StopPreparer, ClearReady, LaunchNew, Goes,
       CheckMovesTo, BeforeCurrent
  <2> QED BY <1>2, <1>3, <2>1, <2>2
<1>8. CASE \/ ReadPending(c) \/ ReadReady(c) \/ Decide(c) \/ ClearOthersReady(c)
  BY <1>2, <1>8 DEF ReadPending, ReadReady, Decide, ClearOthersReady, Goes,
     CheckMovesTo, CheckCatch, CheckRetried, BeforeCurrent
<1>9. CASE \/ ClearPending(c) \/ RetireOldRecord(c) \/ UpdateRecord(c)
           \/ ClearPendingAfterFailure(c) \/ RecordFailure(c)
  <2>1. UNCHANGED <<current, timer>> /\ ~timer /\ ~BeforeCurrent(c)
    BY <1>9 DEF ClearPending, RetireOldRecord, UpdateRecord, ClearPendingAfterFailure,
       RecordFailure, SwitchersHoldTheLock, Switching, BeforeCurrent
  <2>2. /\ ~BeforeCurrent(c)'
        /\ \A d \in Checks \ {c} : check'[d] = check[d] /\ held'[d] = held[d]
    BY <1>9 DEF ClearPending, RetireOldRecord, UpdateRecord, ClearPendingAfterFailure,
       RecordFailure, Goes, CheckMovesTo, CheckCatch, CheckRetried, BeforeCurrent
  <2> QED BY <1>2, <2>1, <2>2
<1> QED BY <1>4, <1>5, <1>6, <1>7, <1>8, <1>9 DEF Check, CheckStep

\* The timer, the preparers and time move nothing of it.
LEMMA OthersKeepPromise ==
  ASSUME TypeOK, WaitingReads, WaitingReads',
         \/ \E a \in Applies : SayReady(a) \/ ShutDown(a)
         \/ \E c \in Checks : TimerFires(c) \/ StartsLate(c)
         \/ TimePasses
  PROVE  UNCHANGED Promise!vars
<1>1. UNCHANGED <<current, timer, pending, held>>
  BY DEF SayReady, ShutDown, TimerFires, StartsLate, Starts, TimePasses, account
<1>2. \A c \in Checks : BeforeCurrent(c)' <=> BeforeCurrent(c)
  BY DEF SayReady, ShutDown, TimerFires, StartsLate, Starts, TimePasses,
         BeforeCurrent, TypeOK
<1> QED BY <1>1, <1>2, LeavesItWaiting

\* statemachine.py and checkmachine.py together: one version serves, at most
\* one later one waits, and it replaces what serves or is given up, through
\* every failure and every lost answer, with receives one at a time.
THEOREM SerialKeepsThePromise ==
  ASSUME Serial
  PROVE  Spec => KeepsThePromise
<1>1. Init => Promise!Init
  BY DEF Init, Promise!Init, Promise!None, Waiting, Owes, BeforeCurrent, None
<1>2. OrderInv /\ OrderInv' /\ [Next]_vars => [Promise!Next]_Promise!vars
  <2> SUFFICES ASSUME OrderInv, OrderInv', [Next]_vars PROVE [Promise!Next]_Promise!vars
    OBVIOUS
  <2>1. WaitingReads /\ WaitingReads'
    BY WhoWaits, WhoWaitsNext DEF OrderInv
  <2>2. CASE Next
    BY <2>1, <2>2, ReceiveKeepsPromise, CheckKeepsPromise, OthersKeepPromise
       DEF Next, OrderInv, IInv
  <2>3. CASE UNCHANGED vars
    <3>1. UNCHANGED <<current, timer, pending, check, held>>
      BY <2>3 DEF vars, account
    <3> QED BY <2>1, <3>1, LeavesItWaiting DEF BeforeCurrent
  <2> QED BY <2>2, <2>3
<1> QED BY <1>1, <1>2, OrderInvHolds, PTL DEF Spec, KeepsThePromise, Promise!Spec
=============================================================================
