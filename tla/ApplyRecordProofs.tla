------------------------- MODULE ApplyRecordProofs -------------------------
(***************************************************************************)
(* Between applies the dashboard's records tell what happened, for every   *)
(* number of applies, commits and check executions.  What may go wrong     *)
(* meanwhile is anything but what SwitchIsFinished excludes: beyond the    *)
(* claim a check has no way back, so a Task that ends it leaves the        *)
(* records as they were.                                                   *)
(***************************************************************************)
EXTENDS ApplyWordProofs

(***************************************************************************)
(* A failure that leaves a record behind: of a Task whose Catch is the end *)
(* of the execution, once a version was launched or a timer taken.  And a  *)
(* preparer that speaks before its receive has answered lets a check write *)
(* "launched" before that receive writes "preparing".                      *)
(***************************************************************************)
SwitchIsFinished ==
  /\ LaunchesAnswered
  /\ {"WriteCurrent", "RecordApply"} \cap ReceiveFaults = {}
  /\ "WriteCurrent" \notin ReceiveLost
  /\ {"FindPreparer", "StopPreparer", "ClearReady", "WriteCurrent", "RetireOldRecord",
      "UpdateRecord", "RecordFailure"} \cap CheckFaults = {}
  /\ {"ClaimIt", "StopPreparer", "ClearReady", "WriteCurrent"} \cap CheckLost = {}
  /\ ~EagerPreparer

Finishing(c) == check[c] \in {"ClearPending", "RetireOldRecord", "UpdateRecord"}
Failing(c) == check[c] \in {"ClearPendingAfterFailure", "RecordFailure"}

\* OneSwitcher, to the end of the execution.
OneAtATime == \A c, d \in Checks : Switching(c) /\ Switching(d) => c = d

\* Whether an apply replaces something was settled when it read current; until
\* it has answered, nothing is decided about it.
FirstOrNot ==
  \A a \in Applies :
    /\ receive[a] \in {"LaunchNew", "WriteCurrent"} => previousOf[a] = None
    /\ receive[a] \in {"ClearStaleReady", "WritePending", "CreateSchedule", "LaunchPreparer"}
         => previousOf[a] # None
    /\ receive[a] = "RecordApply" =>
         IF previousOf[a] = None THEN current = a ELSE timer /\ pending = a /\ Unheard

\* How far a switch has come.
SwitchStands ==
  \A c \in Checks :
    /\ Switching(c) => previousOf[held[c]] # None /\ launches[previousOf[held[c]]] > 0
    /\ check[c] = "WriteCurrent" =>
         current = previousOf[held[c]] /\ record[held[c]] # "retired"
    /\ Finishing(c) => current = held[c]
    /\ Failing(c) => launches[held[c]] = 0

\* What each record says, and who is about to correct it.
RecordsFollow ==
  \A a \in Applies :
    /\ record[a] = "launched" =>
         \/ current = a
         \/ \E c \in Checks :
              check[c] \in {"ClearPending", "RetireOldRecord"} /\ previousOf[held[c]] = a
    /\ current = a =>
         \/ record[a] = "launched" \/ receive[a] = "RecordApply"
         \/ \E c \in Checks : Finishing(c) /\ held[c] = a
    /\ record[a] = "retired" => launches[a] > 0 /\ current # a
    /\ launches[a] > 0 /\ current # a =>
         \/ record[a] = "retired" \/ receive[a] = "WriteCurrent"
         \/ \E c \in Checks :
              \/ check[c] = "WriteCurrent" /\ held[c] = a
              \/ check[c] \in {"ClearPending", "RetireOldRecord"} /\ previousOf[held[c]] = a
    /\ record[a] = "preparing" =>
         /\ receive[a] \in ReceiveEnds
         /\ (timer /\ pending = a) \/ \E c \in Checks : Switching(c) /\ held[c] = a
    /\ receive[a] \notin {"RecordApply"} \cup ReceiveEnds => record[a] = "none"

RecordInv == /\ OwnInv
             /\ OneAtATime /\ FirstOrNot /\ SwitchStands /\ RecordsFollow

\* A check that switches holds an apply later than the one it replaces, and the
\* receives of both are over; no receive is at work on the account meanwhile.
LEMMA SwitchersAreLater ==
  ASSUME RecordInv, NEW c \in Checks, Switching(c)
  PROVE  /\ held[c] \in Applies /\ previousOf[held[c]] \in Applies
         /\ previousOf[held[c]] # held[c] /\ ~timer
         /\ receive[held[c]] \in ReceiveEnds /\ receive[previousOf[held[c]]] \in ReceiveEnds
         /\ \A a \in Applies : ~Arranging(a)
<1> USE DEF RecordInv, OwnInv, OrderInv, IInv
<1>1. held[c] \in Applies /\ ~timer
  BY Numbers DEF WordInv, TypeOK, NotesAreStamped, SwitchersHoldTheLock, Switching, BeforeCurrent
<1>2. previousOf[held[c]] \in Applies
  BY <1>1, Numbers DEF SwitchStands, TypeOK
<1>3. previousOf[held[c]] # held[c]
  BY <1>1, <1>2 DEF PreviousIsEarlier, Applies
<1>4. \A a \in Applies : ~Arranging(a)
  BY DEF Alone, Switching, BeforeCurrent
<1>5. receive[held[c]] \in ReceiveEnds
  <2>1. held[c] <= expired \/ HasSpoken(held[c])
    <3>1. ReadyForIt(c) \/ OutOfTime(c)
      BY DEF WordInv, DecidedOnWordOrTimeout, Committed
    <3>2. ReadyForIt(c) => heard[c] = held[c] /\ HasSpoken(heard[c])
      BY <1>1, Numbers DEF ReadyForIt, WordInv, WordsWereSpoken, WordIsForIt
    <3> QED BY <3>1, <3>2 DEF OutOfTime
  <2>2. receive[held[c]] \in {"RecordApply"} \cup ReceiveEnds
    BY <1>1, <2>1 DEF ExpiredHasEnded, WordInv, LaunchedLast, HasSpoken
  <2>3. receive[held[c]] # "RecordApply"
    BY <1>1 DEF FirstOrNot, SwitchStands, Unheard, Committed
  <2> QED BY <2>2, <2>3
<1>6. receive[previousOf[held[c]]] \in ReceiveEnds
  <2>1. receive[previousOf[held[c]]] # "none" /\ receive[held[c]] # "none"
    BY <1>1, <1>2, <1>5 DEF SwitchStands, ServesWhatWasLaunched, ReceiveEnds
  <2>2. ~(held[c] <= previousOf[held[c]])
    BY <1>1, <1>2 DEF PreviousIsEarlier, Applies
  <2> QED BY <1>1, <1>2, <2>1, <2>2 DEF ReceivesTheLatest, Receiving
<1> QED BY <1>1, <1>2, <1>3, <1>4, <1>5, <1>6

\* A step of a receive execution preserves the invariant.
LEMMA ReceiveKeepsRecords ==
  ASSUME Serial, SwitchIsFinished, RecordInv, NEW a \in Applies, Receive(a), OwnInv'
  PROVE  RecordInv'
<1>a. OneReceiving /\ Alone /\ TypeOK /\ TypeOK' /\ NotYetLaunched /\ PreviousIsCurrent
  BY DEF RecordInv, OwnInv, OrderInv, IInv
<1>b. \A c \in Checks : Switching(c) => ~Arranging(a)
  BY SwitchersAreLater
<1>c. /\ receive[a] = "LaunchPreparer" => timer /\ pending = a /\ Unheard
      /\ receive[a] \in {"UnwindSchedule", "UnwindPending"} => pending \in {None, a}
  BY DEF RecordInv, OwnInv, UnheardBefore
<1>d. Arranging(a) => ~timer /\ \A c \in Checks : check[c] = "idle"
  BY <1>a DEF Alone
<1>e. /\ receive[a] = "WriteCurrent" => current \in {None, a} /\ record[a] = "none"
      /\ receive[a] = "WritePending" => record[a] = "none"
  BY <1>a DEF PreviousIsCurrent, RecordInv, RecordsFollow, ReceiveEnds
<1>f. ASSUME Arranging(a), ~timer, \A c \in Checks : check[c] = "idle"
      PROVE  \A b \in Applies : record[b] # "preparing"
  BY <1>f DEF RecordInv, RecordsFollow, Switching, BeforeCurrent
<1> USE <1>a, <1>b, <1>c, Numbers DEF RecordInv, TypeOK, OneReceiving, OneAtATime,
        FirstOrNot, SwitchStands, RecordsFollow, Unheard, Finishing, Failing,
        Committed, Switching, BeforeCurrent, Receiving, ReceiveEnds, Arranging,
        account, machines, requests, GoesTo, ReceiveMovesTo, ReceiveCatch,
        ReceiveRetried, SwitchIsFinished, LaunchesAnswered
<1>1. CASE AnyScheduled(a)    BY <1>1, SMTT(30) DEF Receive, AnyScheduled
<1>2. CASE AnyCheckRunning(a) BY <1>2, SMTT(30) DEF Receive, AnyCheckRunning
<1>3. CASE AnyCurrent(a)      BY <1>3, SMTT(30) DEF Receive, AnyCurrent
<1>4. CASE LaunchFirst(a)
  <2>1. (OneAtATime /\ FirstOrNot)'
    BY <1>4 DEF Receive, LaunchFirst
  <2>2. SwitchStands'
    BY <1>4 DEF Receive, LaunchFirst
  <2>3. RecordsFollow'
    BY <1>4 DEF Receive, LaunchFirst
  <2> QED BY <2>1, <2>2, <2>3
<1>5. CASE WriteFirst(a)
  <2>1. (OneAtATime /\ FirstOrNot)'
    BY <1>5 DEF Receive, WriteFirst
  <2>2. SwitchStands'
    BY <1>5 DEF Receive, WriteFirst
  <2>3. current \in {None, a} /\ current' = a /\ record[a] = "none" /\ UNCHANGED record
    BY <1>5, <1>e DEF WriteFirst
  <2>4. receive' = [receive EXCEPT ![a] = "RecordApply"]
    BY <1>5 DEF WriteFirst
  <2>5. \A c \in Checks : check[c] = "idle" /\ check'[c] = "idle"
    BY <1>5, <1>d DEF WriteFirst
  <2>6. RecordsFollow'
    BY <1>5, <2>3, <2>4, <2>5 DEF Receive, WriteFirst
  <2> QED BY <2>1, <2>2, <2>6
<1>6. CASE ClearOldReady(a)
  <2>1. (OneAtATime /\ FirstOrNot)'
    BY <1>6 DEF Receive, ClearOldReady
  <2>2. SwitchStands'
    BY <1>6 DEF Receive, ClearOldReady
  <2>3. RecordsFollow'
    BY <1>6 DEF Receive, ClearOldReady
  <2> QED BY <2>1, <2>2, <2>3
<1>7. CASE WritePending(a)
  <2>1. (OneAtATime /\ FirstOrNot)'
    BY <1>7 DEF Receive, WritePending
  <2>2. SwitchStands'
    BY <1>7 DEF Receive, WritePending
  <2>3. ~timer /\ ~timer' /\ \A c \in Checks : check[c] = "idle" /\ check'[c] = "idle"
    BY <1>7, <1>d DEF WritePending
  <2>4. PICK s \in {"CreateSchedule", "WritePending", "Failed"} :
          receive' = [receive EXCEPT ![a] = s]
    BY <1>7 DEF WritePending
  <2>5. \A b \in Applies : record[b] # "preparing" /\ record'[b] = record[b]
    BY <1>7, <1>f, <2>3 DEF WritePending
  <2>6. RecordsFollow'
    BY <1>7, <2>3, <2>4, <2>5 DEF Receive, WritePending
  <2> QED BY <2>1, <2>2, <2>6
<1>8. CASE CreateSchedule(a)
  <2>1. (OneAtATime /\ FirstOrNot)'
    BY <1>8 DEF Receive, CreateSchedule
  <2>2. SwitchStands'
    BY <1>8 DEF Receive, CreateSchedule
  <2>3. RecordsFollow'
    BY <1>8 DEF Receive, CreateSchedule
  <2> QED BY <2>1, <2>2, <2>3
<1>9. CASE LaunchPreparer(a)
  <2>1. (OneAtATime /\ FirstOrNot)'
    BY <1>9 DEF Receive, LaunchPreparer
  <2>2. SwitchStands'
    BY <1>9 DEF Receive, LaunchPreparer
  <2>3. RecordsFollow'
    BY <1>9 DEF Receive, LaunchPreparer
  <2> QED BY <2>1, <2>2, <2>3
<1>10. CASE UnwindSchedule(a)
  <2>1. (OneAtATime /\ FirstOrNot)'
    BY <1>10 DEF Receive, UnwindSchedule
  <2>2. SwitchStands'
    BY <1>10 DEF Receive, UnwindSchedule
  <2>3. RecordsFollow'
    BY <1>10 DEF Receive, UnwindSchedule
  <2> QED BY <2>1, <2>2, <2>3
<1>11. CASE UnwindPending(a)
  <2>1. (OneAtATime /\ FirstOrNot)'
    BY <1>11 DEF Receive, UnwindPending
  <2>2. SwitchStands'
    BY <1>11 DEF Receive, UnwindPending
  <2>3. RecordsFollow'
    BY <1>11 DEF Receive, UnwindPending
  <2> QED BY <2>1, <2>2, <2>3
<1>12. CASE RecordApply(a)
  <2>1. (OneAtATime /\ FirstOrNot)'
    BY <1>12 DEF Receive, RecordApply
  <2>2. SwitchStands'
    BY <1>12 DEF Receive, RecordApply
  <2>3. receive' = [receive EXCEPT ![a] = "Answered"]
    BY <1>12 DEF RecordApply
  <2>4. CASE previousOf[a] = None
    BY <1>12, <2>3, <2>4 DEF Receive, RecordApply
  <2>5. CASE previousOf[a] # None
    <3>1. launches[a] = 0 /\ current # a
      BY <1>12, <2>5 DEF RecordApply, OwnInv, OrderInv, IInv, TimerIsForFresh, Fresh,
         ServesWhatWasLaunched
    <3> QED BY <1>12, <2>3, <2>5, <3>1 DEF Receive, RecordApply
  <2>6. RecordsFollow'
    BY <2>4, <2>5
  <2> QED BY <2>1, <2>2, <2>6
<1>13. CASE ReceiveFails(a)
  BY <1>13, ReceiveFaultsOK, SMTT(30) DEF Receive, ReceiveFails, ReceiveTasks
<1>14. CASE Request(a)        BY <1>14, SMTT(30) DEF Receive, Request, Stamp
<1> QED BY <1>1, <1>2, <1>3, <1>4, <1>5, <1>6, <1>7, <1>8, <1>9, <1>10, <1>11,
           <1>12, <1>13, <1>14 DEF Receive, ReceiveStep

\* A step of a check execution preserves it.
LEMMA CheckKeepsRecords ==
  ASSUME Serial, SwitchIsFinished, RecordInv, NEW c \in Checks, Check(c), OwnInv'
  PROVE  RecordInv'
<1>a. /\ TypeOK /\ TypeOK' /\ SwitchersHoldTheLock /\ ServesWhatWasLaunched
      /\ ServesWhatWasLaunched'
  BY DEF RecordInv, OwnInv, OrderInv, IInv
<1>b. ASSUME NEW a \in Applies, receive[a] = "RecordApply", previousOf[a] # None,
             check[c] = "Decide"
      PROVE  ~ReadyForIt(c) /\ ~OutOfTime(c)
  <2>1. pending = a /\ heard[c] = None /\ ~(a <= expired)
    BY <1>b DEF RecordInv, FirstOrNot, Unheard, OwnInv, ExpiredHasEnded, ReceiveEnds
  <2>2. held[c] # None
    BY <1>b DEF RecordInv, OwnInv, WordInv, NotesAreStamped
  <2>3. held[c] = a
    BY <2>1, <2>2, Numbers DEF RecordInv, OwnInv, OrderInv, OneNote
  <2> QED BY <2>1, <2>3 DEF ReadyForIt, OutOfTime
<1>c. \A d \in Checks : Switching(d) =>
        /\ held[d] \in Applies /\ previousOf[held[d]] \in Applies
        /\ previousOf[held[d]] # held[d] /\ ~timer
        /\ receive[held[d]] \in ReceiveEnds /\ receive[previousOf[held[d]]] \in ReceiveEnds
  BY SwitchersAreLater
<1>d. ASSUME Decide(c)
      PROVE  /\ ~Switching(c)
             /\ \A d \in Checks : d # c => held'[d] = held[d]
             /\ UNCHANGED <<current, pending, timer, record, machines, requests, receive>>
             /\ \E s \in {"idle", "ClearStaleReady", "ClaimIt"} : check' = [check EXCEPT ![c] = s]
  <2>1. PICK s \in {"idle", "ClearStaleReady", "ClaimIt"} : CheckMovesTo(c, s)
    BY <1>d DEF Decide
  <2>2. check' = [check EXCEPT ![c] = s] /\ \A d \in Checks : d # c => held'[d] = held[d]
    BY <1>a, <2>1 DEF CheckMovesTo, TypeOK
  <2> QED BY <1>d, <2>2 DEF Decide, Switching, BeforeCurrent, account
<1> USE <1>a, <1>c, Numbers DEF RecordInv, TypeOK, OneAtATime,
        FirstOrNot, SwitchStands, RecordsFollow, Unheard, Finishing, Failing,
        Committed, Switching, BeforeCurrent, ReceiveEnds,
        account, machines, requests, Goes, CheckMovesTo, CheckCatch,
        CheckRetried, SwitchIsFinished, LaunchesAnswered
<1>n. ASSUME NEW s \in {"idle", "ReadReady", "Decide", "ClearStaleReady", "ClaimIt"},
             ~Switching(c), check' = [check EXCEPT ![c] = s],
             \A d \in Checks : d # c => held'[d] = held[d],
             UNCHANGED <<current, pending, timer, record, machines, requests, receive>>
      PROVE  (OneAtATime /\ SwitchStands /\ RecordsFollow)'
  <2>1. \A d \in Checks :
          IF d = c THEN check'[c] = s ELSE check'[d] = check[d] /\ held'[d] = held[d]
    BY <1>n
  <2>2. OneAtATime' /\ SwitchStands'
    BY <1>n, <2>1
  <2>3. RecordsFollow'
    BY <1>n, <2>1, SMTT(30)
  <2> QED BY <2>2, <2>3
<1>1. CASE ReadPending(c)
  <2>1. PICK s \in {"idle", "ReadReady"} : check' = [check EXCEPT ![c] = s]
    BY <1>1 DEF ReadPending
  <2>2. /\ \A d \in Checks : d # c => held'[d] = held[d] /\ heard'[d] = heard[d]
        /\ heard'[c] \in {None, heard[c]}
    BY <1>1 DEF ReadPending
  <2>3. FirstOrNot'
    BY <1>1, <2>1, <2>2 DEF Check, ReadPending
  <2> QED BY <1>1, <1>n, <2>1, <2>2, <2>3 DEF ReadPending
<1>2. CASE ReadReady(c)
  <2>1. FirstOrNot'
    BY <1>2 DEF Check, ReadReady
  <2> QED BY <1>2, <1>n, <2>1 DEF ReadReady
<1>3. CASE Decide(c)
  <2>1. FirstOrNot'
    BY <1>b, <1>3, SMTT(30) DEF Check, Decide
  <2>2. (OneAtATime /\ SwitchStands /\ RecordsFollow)'
    BY <1>3, <1>d, <1>n
  <2> QED BY <2>1, <2>2
<1>4. CASE ClearOthersReady(c)
  <2>1. check' = [check EXCEPT ![c] = "idle"]
    BY <1>4 DEF ClearOthersReady
  <2>2. /\ \A d \in Checks : d # c => held'[d] = held[d] /\ heard'[d] = heard[d]
        /\ heard'[c] = None
    BY <1>4 DEF ClearOthersReady
  <2>3. FirstOrNot'
    BY <1>4, <2>1, <2>2 DEF Check, ClearOthersReady
  <2> QED BY <1>4, <1>n, <2>1, <2>2, <2>3 DEF ClearOthersReady
<1>5. CASE ClaimIt(c)
  <2>1. CASE timer
    <3>1. held[c] \in Applies /\ Fresh(held[c]) /\ current # None /\ launches[current] > 0
      BY <1>5, <2>1 DEF ClaimIt, OwnInv, WordInv, NotesAreStamped, OrderInv, IInv,
         TimerIsForFresh, SomethingServes, ServesWhatWasLaunched
    <3>2. \A a \in Applies : pending = a => held[c] = a
      BY <1>5 DEF ClaimIt, OwnInv, OrderInv, OneNote, WordInv, NotesAreStamped
    <3>3. /\ check' = [check EXCEPT ![c] = "FindPreparer"] /\ held' = held /\ heard' = heard
          /\ timer' = FALSE
      BY <1>5, <2>1 DEF ClaimIt
    <3>4. \A d \in Checks : ~Switching(d)
      BY <2>1
    <3>5. (OneAtATime /\ FirstOrNot)'
      BY <1>5, <3>3, <3>4 DEF Check, ClaimIt
    <3>6. SwitchStands'
      BY <1>5, <3>1, <3>3, <3>4 DEF Check, ClaimIt, Fresh
    <3>7. RecordsFollow'
      BY <1>5, <3>2, <3>3, <3>4 DEF Check, ClaimIt
    <3> QED BY <3>5, <3>6, <3>7
  <2>2. CASE ~timer
    <3>1. check' = [check EXCEPT ![c] = "idle"] /\ timer' = timer
      BY <1>5, <2>2 DEF ClaimIt
    <3>2. /\ \A d \in Checks : d # c => held'[d] = held[d] /\ heard'[d] = heard[d]
          /\ heard'[c] = None
      BY <1>5, <2>2 DEF ClaimIt
    <3>3. FirstOrNot'
      BY <1>5, <3>1, <3>2 DEF Check, ClaimIt
    <3> QED BY <1>5, <1>n, <3>1, <3>2, <3>3 DEF ClaimIt
  <2> QED BY <2>1, <2>2
<1>6. CASE FindPreparer(c)     BY <1>6, SMTT(30) DEF Check, FindPreparer
<1>7. CASE StopPreparer(c)     BY <1>7, SMTT(30) DEF Check, StopPreparer
<1>8. CASE ClearReady(c)       BY <1>8, SMTT(30) DEF Check, ClearReady
<1>9. CASE LaunchNew(c)
  <2>1. /\ check' = [check EXCEPT ![c] = "WriteCurrent"] /\ held' = held
        /\ launches' = [launches EXCEPT ![held[c]] = @ + 1]
    BY <1>9 DEF LaunchNew
  <2>2. current = previousOf[held[c]] /\ launches[held[c]] = 0
    BY <1>9 DEF LaunchNew, SwitchersHoldTheLock
  <2>3. (OneAtATime /\ FirstOrNot)'
    BY <1>9, <2>1 DEF Check, LaunchNew
  <2>4. SwitchStands'
    BY <1>9, <2>1, <2>2 DEF Check, LaunchNew
  <2>5. RecordsFollow'
    BY <1>9, <2>1, <2>2 DEF Check, LaunchNew
  <2> QED BY <2>3, <2>4, <2>5
<1>10. CASE WriteCurrent(c)
  <2>1. /\ check' = [check EXCEPT ![c] = "ClearPending"] /\ held' = held
        /\ current' = held[c]
    BY <1>10 DEF WriteCurrent
  <2>2. current = previousOf[held[c]]
    BY <1>10 DEF WriteCurrent
  <2>3. (OneAtATime /\ FirstOrNot)'
    BY <1>10, <2>1, <2>2 DEF Check, WriteCurrent
  <2>4. SwitchStands'
    BY <1>10, <2>1, <2>2 DEF Check, WriteCurrent
  <2>5. RecordsFollow'
    BY <1>10, <2>1, <2>2 DEF Check, WriteCurrent
  <2> QED BY <2>3, <2>4, <2>5
<1>11. CASE ClearPending(c)    BY <1>11, SMTT(30) DEF Check, ClearPending
<1>12. CASE RetireOldRecord(c) BY <1>12, SMTT(30) DEF Check, RetireOldRecord
<1>13. CASE UpdateRecord(c)    BY <1>13, SMTT(30) DEF Check, UpdateRecord
<1>14. CASE ClearPendingAfterFailure(c)
  BY <1>14, SMTT(30) DEF Check, ClearPendingAfterFailure
<1>15. CASE RecordFailure(c)
  <2>1. current # held[c] /\ launches[held[c]] = 0
    BY <1>15 DEF RecordFailure, ServesWhatWasLaunched
  <2>2. (OneAtATime /\ FirstOrNot /\ SwitchStands)'
    BY <1>15 DEF Check, RecordFailure
  <2>3. RecordsFollow'
    BY <1>15, <2>1 DEF Check, RecordFailure
  <2> QED BY <2>2, <2>3
<1>16. CASE CheckFails(c)
  BY <1>16, CheckFaultsOK, SMTT(30) DEF Check, CheckFails, CheckTasks, SwitchersHoldTheLock
<1> QED BY <1>1, <1>2, <1>3, <1>4, <1>5, <1>6, <1>7, <1>8, <1>9, <1>10, <1>11,
           <1>12, <1>13, <1>14, <1>15, <1>16 DEF Check, CheckStep

\* The timer, the preparers and time preserve it.
LEMMA OthersKeepRecords ==
  ASSUME Serial, SwitchIsFinished, RecordInv, OwnInv',
         \/ \E a \in Applies : SayReady(a) \/ ShutDown(a)
         \/ \E c \in Checks : TimerFires(c) \/ StartsLate(c)
         \/ TimePasses
  PROVE  RecordInv'
<1> USE Numbers DEF RecordInv, OwnInv, WordInv, TypeOK, OneAtATime, FirstOrNot,
        SwitchStands, RecordsFollow, Unheard, Finishing, Failing, Committed,
        Switching, BeforeCurrent, account, machines, requests, receiveLocal
<1>1. ASSUME NEW a \in Applies, SayReady(a) PROVE RecordInv'
  <2>1. \A b \in Applies : receive[b] = "RecordApply" => previousOf[b] = None
    <3>1. ~Receiving(a)
      BY <1>1 DEF SayReady, SwitchIsFinished
    <3>2. Up(a)
      BY <1>1 DEF SayReady, Up
    <3>3. (timer /\ pending = a) \/ \E c \in Checks : Switching(c)
      BY <3>2 DEF UpIsTheOne
    <3>4. ASSUME NEW b \in Applies, receive[b] = "RecordApply", previousOf[b] # None
          PROVE  FALSE
      <4>1. timer /\ pending = b /\ \A c \in Checks : ~Switching(c)
        BY <3>4
      <4>2. b = a
        BY <3>3, <4>1
      <4> QED BY <3>1, <3>4, <4>2 DEF Receiving, ReceiveEnds
    <3> QED BY <3>4
  <2> QED BY <1>1, <2>1 DEF SayReady
<1>2. ASSUME NEW a \in Applies, ShutDown(a) PROVE RecordInv'
  BY <1>2 DEF ShutDown
<1>3. ASSUME NEW c \in Checks, TimerFires(c) \/ StartsLate(c) PROVE RecordInv'
  BY <1>3, SMTT(30) DEF TimerFires, StartsLate, Starts
<1>4. CASE TimePasses
  BY <1>4 DEF TimePasses
<1> QED BY <1>1, <1>2, <1>3, <1>4

\* So it holds throughout.
LEMMA RecordInvHolds ==
  ASSUME Serial, SwitchIsFinished
  PROVE  Spec => []RecordInv
<1>1. Init => OneAtATime /\ FirstOrNot /\ SwitchStands /\ RecordsFollow
  BY Numbers DEF Init, OneAtATime, FirstOrNot, SwitchStands, RecordsFollow, Finishing,
     Failing, Switching, BeforeCurrent
<1>2. RecordInv /\ [Next]_vars /\ OwnInv' => RecordInv'
  <2> SUFFICES ASSUME RecordInv, [Next]_vars, OwnInv' PROVE RecordInv'
    OBVIOUS
  <2>1. CASE Next
    BY <2>1, ReceiveKeepsRecords, CheckKeepsRecords, OthersKeepRecords DEF Next
  <2>2. CASE UNCHANGED vars
    BY <2>2 DEF vars, account, machines, requests, receiveLocal, RecordInv,
       OneAtATime, FirstOrNot, SwitchStands, RecordsFollow, Unheard, Finishing,
       Failing, Committed, Switching, BeforeCurrent
  <2> QED BY <2>1, <2>2
<1>3. StopsThePreparer
  BY DEF SwitchIsFinished, StopsThePreparer
<1> QED BY <1>1, <1>2, <1>3, OwnInvHolds, PTL DEF Spec, RecordInv

\* checkmachine.py RetireOldRecord, UpdateRecord and statemachine.py RecordApply:
\* when receives do not overlap and every switch is finished, then whenever no
\* apply is in flight the serving one is "launched", those it followed are
\* "retired" and none is left "preparing".
THEOREM SerialRecordsTellTheTruth ==
  ASSUME Serial, SwitchIsFinished
  PROVE  Spec => []RecordsTellTheTruth
<1>1. RecordInv => RecordsTellTheTruth
  <2> SUFFICES ASSUME RecordInv, Quiet, NEW a \in Applies
               PROVE  /\ record[a] = "launched" <=> current = a
                      /\ record[a] = "retired" <=> launches[a] > 0 /\ current # a
                      /\ record[a] # "preparing"
    BY DEF RecordsTellTheTruth
  <2>1. /\ ~timer /\ receive[a] \notin {"RecordApply", "WriteCurrent"}
        /\ \A c \in Checks : check[c] = "idle"
    BY DEF Quiet, CheckRunning, Receiving, ReceiveEnds
  <2> QED BY <2>1 DEF RecordInv, RecordsFollow, Finishing, Switching, BeforeCurrent
<1> QED BY <1>1, RecordInvHolds, PTL
=============================================================================
