-------------------------- MODULE ApplyWordProofs ---------------------------
(***************************************************************************)
(* Whose word a switch begins on, for every number of applies, commits and *)
(* check executions.  That it is a word about the commit, or the timeout,  *)
(* is so whatever overlaps and whatever fails.  That it is the word of     *)
(* that very apply's preparer, and that no preparer is up beside the new   *)
(* version, takes receives one at a time (Serial) and a check that knows   *)
(* it stopped the preparer: stale_word.cfg shows what becomes of it else.  *)
(***************************************************************************)
EXTENDS ApplyPromiseProofs

(***************************************************************************)
(* The word and the commit.  Nothing is assumed: the word that counts was  *)
(* read by the check itself, and neither who spoke nor what commit an      *)
(* apply names ever changes.                                               *)
(***************************************************************************)
Committed(c) == check[c] = "ClaimIt" \/ Switching(c)

\* Launched last of all, a preparer is launched once; a check finds only such.
LaunchedLast ==
  /\ \A a \in Applies : preparer[a] # "none" => receive[a] \in {"RecordApply"} \cup ReceiveEnds
  /\ \A c \in Checks :
       check[c] = "StopPreparer" => found[c] \in Applies /\ preparer[found[c]] # "none"

\* Where a word was written or read, its preparer has spoken.
WordsWereSpoken ==
  /\ ready # None => HasSpoken(ready)
  /\ \A c \in Checks : heard[c] # None => HasSpoken(heard[c])

\* A note, and what a check holds from one, is of a request that came in.
NotesAreStamped ==
  /\ pending # None => receive[pending] # "none"
  /\ \A c \in Checks :
       /\ held[c] # None => receive[held[c]] # "none"
       /\ check[c] \notin {"idle", "ReadPending"} => held[c] # None

\* A check that goes for the switch heard its commit, or was out of time.
DecidedOnWordOrTimeout ==
  \A c \in Checks : Committed(c) => ReadyForIt(c) \/ OutOfTime(c)

WordInv == TypeOK /\ LaunchedLast /\ WordsWereSpoken /\ NotesAreStamped
           /\ DecidedOnWordOrTimeout

\* A step of a receive execution preserves the invariant.
LEMMA ReceiveKeepsWord ==
  ASSUME WordInv, NEW a \in Applies, Receive(a)
  PROVE  WordInv'
<1>t. TypeOK'
  BY ReceiveKeepsTypes DEF WordInv
<1> USE <1>t, Numbers DEF WordInv, TypeOK, LaunchedLast, WordsWereSpoken,
        NotesAreStamped, DecidedOnWordOrTimeout, Committed, Switching,
        BeforeCurrent, HasSpoken, ReadyForIt, OutOfTime, Word, ReceiveEnds,
        account, machines, requests, GoesTo, ReceiveMovesTo, ReceiveCatch,
        ReceiveRetried
<1>1. CASE AnyScheduled(a)    BY <1>1, SMTT(30) DEF Receive, AnyScheduled
<1>2. CASE AnyCheckRunning(a) BY <1>2, SMTT(30) DEF Receive, AnyCheckRunning
<1>3. CASE AnyCurrent(a)      BY <1>3, SMTT(30) DEF Receive, AnyCurrent
<1>4. CASE LaunchFirst(a)     BY <1>4, SMTT(30) DEF Receive, LaunchFirst
<1>5. CASE WriteFirst(a)      BY <1>5, SMTT(30) DEF Receive, WriteFirst
<1>6. CASE ClearOldReady(a)   BY <1>6, SMTT(30) DEF Receive, ClearOldReady
<1>7. CASE WritePending(a)    BY <1>7, SMTT(30) DEF Receive, WritePending
<1>8. CASE CreateSchedule(a)  BY <1>8, SMTT(30) DEF Receive, CreateSchedule
<1>9. CASE LaunchPreparer(a)  BY <1>9, ReceiveFaultsOK, SMTT(30) DEF Receive, LaunchPreparer
<1>10. CASE UnwindSchedule(a) BY <1>10, SMTT(30) DEF Receive, UnwindSchedule
<1>11. CASE UnwindPending(a)  BY <1>11, SMTT(30) DEF Receive, UnwindPending
<1>12. CASE RecordApply(a)    BY <1>12, SMTT(30) DEF Receive, RecordApply
<1>13. CASE ReceiveFails(a)   BY <1>13, ReceiveFaultsOK, SMTT(30) DEF Receive, ReceiveFails, ReceiveTasks
<1>14. CASE Request(a)        BY <1>14, SMTT(30) DEF Receive, Request, Stamp
<1> QED BY <1>1, <1>2, <1>3, <1>4, <1>5, <1>6, <1>7, <1>8, <1>9, <1>10, <1>11,
           <1>12, <1>13, <1>14 DEF Receive, ReceiveStep

\* A step of a check execution preserves it.
LEMMA CheckKeepsWord ==
  ASSUME WordInv, NEW c \in Checks, Check(c)
  PROVE  WordInv'
<1>t. TypeOK'
  BY CheckKeepsTypes DEF WordInv
<1> USE <1>t, Numbers DEF WordInv, TypeOK, LaunchedLast, WordsWereSpoken,
        NotesAreStamped, DecidedOnWordOrTimeout, Committed, Switching,
        BeforeCurrent, HasSpoken, ReadyForIt, OutOfTime, Word, ReceiveEnds,
        account, machines, requests, Goes, CheckMovesTo, CheckCatch, CheckRetried
<1>1. CASE ReadPending(c)      BY <1>1, SMTT(30) DEF Check, ReadPending
<1>2. CASE ReadReady(c)        BY <1>2, SMTT(30) DEF Check, ReadReady
<1>3. CASE Decide(c)           BY <1>3, SMTT(30) DEF Check, Decide
<1>4. CASE ClearOthersReady(c) BY <1>4, SMTT(30) DEF Check, ClearOthersReady
<1>5. CASE ClaimIt(c)          BY <1>5, SMTT(30) DEF Check, ClaimIt
<1>6. CASE FindPreparer(c)     BY <1>6, SMTT(30) DEF Check, FindPreparer, Up
<1>7. CASE StopPreparer(c)
  <2>1. \A a \in Applies : /\ HasSpoken(a) => HasSpoken(a)'
                          /\ (preparer[a] # "none") <=> (preparer'[a] # "none")
    BY <1>7 DEF StopPreparer
  <2>2. (LaunchedLast /\ WordsWereSpoken)'
    BY <1>7, <2>1 DEF Check, StopPreparer
  <2> QED BY <1>7, <2>2 DEF Check, StopPreparer
<1>8. CASE ClearReady(c)       BY <1>8, SMTT(30) DEF Check, ClearReady
<1>9. CASE LaunchNew(c)        BY <1>9, SMTT(30) DEF Check, LaunchNew
<1>10. CASE WriteCurrent(c)    BY <1>10, SMTT(30) DEF Check, WriteCurrent
<1>11. CASE ClearPending(c)    BY <1>11, SMTT(30) DEF Check, ClearPending
<1>12. CASE RetireOldRecord(c) BY <1>12, SMTT(30) DEF Check, RetireOldRecord
<1>13. CASE UpdateRecord(c)    BY <1>13, SMTT(30) DEF Check, UpdateRecord
<1>14. CASE ClearPendingAfterFailure(c) BY <1>14, SMTT(30) DEF Check, ClearPendingAfterFailure
<1>15. CASE RecordFailure(c)   BY <1>15, SMTT(30) DEF Check, RecordFailure
<1>16. CASE CheckFails(c)      BY <1>16, CheckFaultsOK, SMTT(30) DEF Check, CheckFails, CheckTasks
<1> QED BY <1>1, <1>2, <1>3, <1>4, <1>5, <1>6, <1>7, <1>8, <1>9, <1>10, <1>11,
           <1>12, <1>13, <1>14, <1>15, <1>16 DEF Check, CheckStep

\* The timer, the preparers and time preserve it.
LEMMA OthersKeepWord ==
  ASSUME WordInv,
         \/ \E a \in Applies : SayReady(a) \/ ShutDown(a)
         \/ \E c \in Checks : TimerFires(c) \/ StartsLate(c)
         \/ TimePasses
  PROVE  WordInv'
<1>t. TypeOK'
  BY OthersKeepTypes DEF WordInv
<1> USE <1>t, Numbers DEF WordInv, TypeOK, LaunchedLast, WordsWereSpoken,
        NotesAreStamped, DecidedOnWordOrTimeout, Committed, Switching,
        BeforeCurrent, HasSpoken, ReadyForIt, OutOfTime, Word, ReceiveEnds,
        account, machines, requests, receiveLocal
<1>1. ASSUME NEW a \in Applies, SayReady(a) PROVE WordInv'
  BY <1>1 DEF SayReady
<1>2. ASSUME NEW a \in Applies, ShutDown(a) PROVE WordInv'
  BY <1>2 DEF ShutDown, Up
<1>3. ASSUME NEW c \in Checks, TimerFires(c) \/ StartsLate(c) PROVE WordInv'
  BY <1>3 DEF TimerFires, StartsLate, Starts
<1>4. CASE TimePasses
  BY <1>4 DEF TimePasses, NoneOr
<1> QED BY <1>1, <1>2, <1>3, <1>4

\* So it holds throughout, whatever overlaps and whatever fails.
LEMMA WordInvHolds == Spec => []WordInv
<1>1. Init => WordInv
  <2> SUFFICES ASSUME Init PROVE WordInv
    OBVIOUS
  <2>1. TypeOK
    BY InitIsTyped
  <2> QED
    BY <2>1, Numbers
       DEF Init, WordInv, LaunchedLast, WordsWereSpoken, NotesAreStamped,
           DecidedOnWordOrTimeout, Committed, Switching, BeforeCurrent
<1>2. WordInv /\ [Next]_vars => WordInv'
  <2> SUFFICES ASSUME WordInv, [Next]_vars PROVE WordInv'
    OBVIOUS
  <2>1. CASE Next
    BY <2>1, ReceiveKeepsWord, CheckKeepsWord, OthersKeepWord DEF Next
  <2>2. CASE UNCHANGED vars
    BY <2>2
       DEF vars, account, machines, requests, receiveLocal, WordInv, TypeOK,
           LaunchedLast, WordsWereSpoken, NotesAreStamped, HasSpoken,
           DecidedOnWordOrTimeout, Committed, Switching, BeforeCurrent,
           ReadyForIt, OutOfTime, Word
  <2> QED BY <2>1, <2>2
<1> QED BY <1>1, <1>2, PTL DEF Spec

\* checkmachine.py _decision: whatever overlaps, fails or loses its answer, a
\* switch begins only when the apply's time is up or a preparer told its very
\* commit has said that it is ready.
THEOREM WordOrTimeout == Spec => []CommitsWordOrTimeout
<1>1. WordInv => CommitsWordOrTimeout
  <2> SUFFICES ASSUME WordInv, NEW c \in Checks, Switching(c), ~(held[c] <= expired)
               PROVE  \E a \in Applies : HasSpoken(a) /\ commitOf[a] = commitOf[held[c]]
    BY DEF CommitsWordOrTimeout
  <2>1. heard[c] # None /\ commitOf[heard[c]] = commitOf[held[c]]
    BY DEF WordInv, DecidedOnWordOrTimeout, Committed, ReadyForIt, OutOfTime, Word
  <2>2. heard[c] \in Applies /\ HasSpoken(heard[c])
    BY <2>1, Numbers DEF WordInv, TypeOK, WordsWereSpoken
  <2> QED BY <2>1, <2>2
<1> QED BY <1>1, WordInvHolds, PTL

-----------------------------------------------------------------------------
(***************************************************************************)
(* The word and the apply.  At most one preparer is up, that of the apply  *)
(* in flight, from the timer to the check that stops it; so no word but    *)
(* its own can be about.                                                   *)
(***************************************************************************)
StopsThePreparer ==
  /\ "FindPreparer" \notin CheckFaults /\ "StopPreparer" \notin CheckFaults
  /\ "ClaimIt" \notin CheckLost

\* Time runs out only for an apply whose receive execution is over.
ExpiredHasEnded == \A a \in Applies : a <= expired => receive[a] \in ReceiveEnds

\* Between ClearStaleReady and the preparer nobody says or hears a word, so no
\* check touches the timer.
Unheard == ready = None /\ \A c \in Checks : heard[c] = None /\ ~Committed(c)

UnheardBefore ==
  \A a \in Applies :
    /\ receive[a] \in {"WritePending", "CreateSchedule"} => Unheard
    /\ receive[a] = "LaunchPreparer" => Unheard /\ timer /\ pending = a
    /\ receive[a] \in {"UnwindSchedule", "UnwindPending"} => pending \in {None, a}

UpIsTheOne ==
  /\ \A a \in Applies : Up(a) =>
       \/ timer /\ pending = a
       \/ \E c \in Checks : check[c] \in {"FindPreparer", "StopPreparer"} /\ held[c] = a
  /\ \A c \in Checks : check[c] = "StopPreparer" => found[c] = held[c]

WordIsForIt ==
  /\ timer \/ pending # None => ready \in {None, pending}
  /\ \A c \in Checks :
       /\ held[c] # None => ready \in {None, held[c]} /\ heard[c] \in {None, held[c]}
       /\ held[c] = None => heard[c] = None

OwnInv == /\ OrderInv /\ WordInv
          /\ ExpiredHasEnded /\ UnheardBefore /\ UpIsTheOne /\ WordIsForIt

\* While a receive arranges, no preparer is up; and it has none itself before it
\* launches one.
LEMMA NoneUpBefore ==
  ASSUME OwnInv, NEW a \in Applies
  PROVE  /\ Arranging(a) => \A b \in Applies : ~Up(b)
         /\ receive[a] \in {"LaunchPreparer", "UnwindSchedule", "UnwindPending"}
              => ~Up(a) /\ ready # a
<1>1. Arranging(a) => \A b \in Applies : ~Up(b)
  BY DEF OwnInv, OrderInv, IInv, Alone, UpIsTheOne
<1>2. receive[a] \in {"LaunchPreparer", "UnwindSchedule", "UnwindPending"}
        => preparer[a] = "none"
  BY DEF OwnInv, WordInv, LaunchedLast, ReceiveEnds
<1>3. preparer[a] = "none" => ~Up(a) /\ ready # a
  BY Numbers DEF OwnInv, WordInv, WordsWereSpoken, HasSpoken, Up
<1> QED BY <1>1, <1>2, <1>3

\* A step of a receive execution preserves the invariant.
LEMMA ReceiveKeepsOwn ==
  ASSUME Serial, OwnInv, NEW a \in Applies, Receive(a), OrderInv', WordInv'
  PROVE  OwnInv'
<1>a. OneReceiving /\ Alone
  BY DEF OwnInv, OrderInv, IInv
<1> USE <1>a, NoneUpBefore, Numbers DEF OwnInv, WordInv, TypeOK, OneReceiving,
        ExpiredHasEnded, Unheard, UnheardBefore, UpIsTheOne, WordIsForIt,
        Committed, Switching, BeforeCurrent, Receiving, ReceiveEnds, Up,
        account, machines, requests, GoesTo, ReceiveMovesTo, ReceiveCatch, ReceiveRetried
<1>1. CASE AnyScheduled(a)    BY <1>1, SMTT(30) DEF Receive, AnyScheduled
<1>2. CASE AnyCheckRunning(a) BY <1>2, SMTT(30) DEF Receive, AnyCheckRunning
<1>3. CASE AnyCurrent(a)      BY <1>3, SMTT(30) DEF Receive, AnyCurrent
<1>4. CASE LaunchFirst(a)     BY <1>4, SMTT(30) DEF Receive, LaunchFirst
<1>5. CASE WriteFirst(a)      BY <1>5, SMTT(30) DEF Receive, WriteFirst
<1>6. CASE ClearOldReady(a)
  BY <1>6, SMTT(30) DEF Receive, ClearOldReady, Alone, Arranging, OrderInv, IInv, HeldIsArranged
<1>7. CASE WritePending(a)    BY <1>7, SMTT(30) DEF Receive, WritePending, Alone, Arranging
<1>8. CASE CreateSchedule(a)
  BY <1>8, SMTT(30) DEF Receive, CreateSchedule, Alone, Arranging, OrderInv, IInv, PendingIsArranged
<1>9. CASE LaunchPreparer(a)
  <2>1. receive' = [receive EXCEPT ![a] = "RecordApply"]
    BY <1>9, ReceiveFaultsOK DEF LaunchPreparer
  <2>2. timer /\ pending = a /\ \A b \in Applies : Up(b)' => Up(b) \/ b = a
    BY <1>9 DEF LaunchPreparer
  <2>3. (ExpiredHasEnded /\ UnheardBefore)'
    BY <1>9, <2>1 DEF Receive, LaunchPreparer
  <2>4. UpIsTheOne'
    BY <1>9, <2>2 DEF Receive, LaunchPreparer
  <2>5. WordIsForIt'
    BY <1>9 DEF Receive, LaunchPreparer
  <2> QED BY <2>3, <2>4, <2>5
<1>10. CASE UnwindSchedule(a) BY <1>10, SMTT(30) DEF Receive, UnwindSchedule
<1>11. CASE UnwindPending(a)  BY <1>11, SMTT(30) DEF Receive, UnwindPending
<1>12. CASE RecordApply(a)    BY <1>12, SMTT(30) DEF Receive, RecordApply
<1>13. CASE ReceiveFails(a)
  BY <1>13, ReceiveFaultsOK, SMTT(30) DEF Receive, ReceiveFails, ReceiveTasks, OrderInv, IInv,
     PendingIsArranged
<1>14. CASE Request(a)        BY <1>14, SMTT(30) DEF Receive, Request, Stamp
<1> QED BY <1>1, <1>2, <1>3, <1>4, <1>5, <1>6, <1>7, <1>8, <1>9, <1>10, <1>11,
           <1>12, <1>13, <1>14 DEF Receive, ReceiveStep

\* A step of a check execution preserves it.
LEMMA CheckKeepsOwn ==
  ASSUME Serial, StopsThePreparer, OwnInv, NEW c \in Checks, Check(c), OrderInv', WordInv'
  PROVE  OwnInv'
<1>a. /\ SwitchersHoldTheLock /\ OneSwitcher /\ HeldIsArranged /\ OneNote
      /\ HeldIsArranged' /\ OneNote'
  BY DEF OwnInv, OrderInv, IInv
<1>b. ASSUME NEW a \in Applies, check[c] = "Decide",
             receive[a] \in {"WritePending", "CreateSchedule", "LaunchPreparer"}
      PROVE  ~ReadyForIt(c) /\ ~OutOfTime(c)
  <2>1. receive[a] = "LaunchPreparer"
    BY <1>b DEF OwnInv, OrderInv, IInv, Alone, Arranging
  <2>2. pending = a /\ heard[c] = None /\ ~(a <= expired)
    BY <2>1 DEF OwnInv, ExpiredHasEnded, UnheardBefore, Unheard, ReceiveEnds
  <2>3. held[c] = a
    BY <1>a, <1>b, <2>2, Numbers DEF OneNote, HeldIsArranged
  <2> QED BY <2>2, <2>3 DEF ReadyForIt, OutOfTime
<1> USE Numbers DEF OwnInv, WordInv, TypeOK,
        ExpiredHasEnded, Unheard, UnheardBefore, UpIsTheOne, WordIsForIt,
        Committed, Switching, BeforeCurrent, Up, SwitchersHoldTheLock,
        account, machines, requests, Goes, CheckMovesTo, CheckCatch, CheckRetried
<1>1. CASE ReadPending(c)      BY <1>a, <1>1, SMTT(30) DEF Check, ReadPending, HeldIsArranged, OneNote
<1>2. CASE ReadReady(c)        BY <1>a, <1>2, SMTT(30) DEF Check, ReadReady, HeldIsArranged
<1>3. CASE Decide(c)           BY <1>b, <1>3, SMTT(30) DEF Check, Decide
<1>4. CASE ClearOthersReady(c) BY <1>4, SMTT(30) DEF Check, ClearOthersReady
<1>5. CASE ClaimIt(c)
  BY <1>a, <1>5, SMTT(30) DEF Check, ClaimIt, StopsThePreparer, OneNote, HeldIsArranged
<1>6. CASE FindPreparer(c)     BY <1>a, <1>6, SMTT(30) DEF Check, FindPreparer, OneSwitcher
<1>7. CASE StopPreparer(c)     BY <1>a, <1>7, SMTT(30) DEF Check, StopPreparer, OneSwitcher
<1>8. CASE ClearReady(c)       BY <1>8, SMTT(30) DEF Check, ClearReady
<1>9. CASE LaunchNew(c)        BY <1>9, SMTT(30) DEF Check, LaunchNew
<1>10. CASE WriteCurrent(c)    BY <1>10, SMTT(30) DEF Check, WriteCurrent
<1>11. CASE ClearPending(c)    BY <1>a, <1>11, SMTT(30) DEF Check, ClearPending
<1>12. CASE RetireOldRecord(c) BY <1>12, SMTT(30) DEF Check, RetireOldRecord
<1>13. CASE UpdateRecord(c)    BY <1>13, SMTT(30) DEF Check, UpdateRecord
<1>14. CASE ClearPendingAfterFailure(c) BY <1>a, <1>14, SMTT(30) DEF Check, ClearPendingAfterFailure
<1>15. CASE RecordFailure(c)   BY <1>15, SMTT(30) DEF Check, RecordFailure
<1>16. CASE CheckFails(c)
  BY <1>16, CheckFaultsOK, SMTT(30) DEF Check, CheckFails, CheckTasks, StopsThePreparer
<1> QED BY <1>1, <1>2, <1>3, <1>4, <1>5, <1>6, <1>7, <1>8, <1>9, <1>10, <1>11,
           <1>12, <1>13, <1>14, <1>15, <1>16 DEF Check, CheckStep

\* The timer, the preparers and time preserve it: whoever says ready is the one.
LEMMA OthersKeepOwn ==
  ASSUME Serial, OwnInv, OrderInv', WordInv',
         \/ \E a \in Applies : SayReady(a) \/ ShutDown(a)
         \/ \E c \in Checks : TimerFires(c) \/ StartsLate(c)
         \/ TimePasses
  PROVE  OwnInv'
<1> USE NoneUpBefore, Numbers DEF OwnInv, WordInv, TypeOK,
        ExpiredHasEnded, Unheard, UnheardBefore, UpIsTheOne, WordIsForIt,
        Committed, Switching, BeforeCurrent, account, machines, requests, receiveLocal
<1>1. ASSUME NEW a \in Applies, SayReady(a) PROVE OwnInv'
  BY <1>1 DEF SayReady, Up, Arranging, OrderInv, OneNote, IInv, HeldIsArranged, SwitchersHoldTheLock
<1>2. ASSUME NEW a \in Applies, ShutDown(a) PROVE OwnInv'
  BY <1>2 DEF ShutDown, Up
<1>3. ASSUME NEW c \in Checks, TimerFires(c) \/ StartsLate(c) PROVE OwnInv'
  BY <1>3 DEF TimerFires, StartsLate, Starts, Up
<1>4. CASE TimePasses
  BY <1>4 DEF TimePasses, NoneOr, Applies, Up
<1> QED BY <1>1, <1>2, <1>3, <1>4

\* So it holds throughout.
LEMMA OwnInvHolds ==
  ASSUME Serial, StopsThePreparer
  PROVE  Spec => []OwnInv
<1>1. Init => ExpiredHasEnded /\ UnheardBefore /\ UpIsTheOne /\ WordIsForIt
  BY Numbers DEF Init, ExpiredHasEnded, UnheardBefore, UpIsTheOne, WordIsForIt, Up,
     None, Applies
<1>2. OwnInv /\ [Next]_vars /\ OrderInv' /\ WordInv' => OwnInv'
  <2> SUFFICES ASSUME OwnInv, [Next]_vars, OrderInv', WordInv' PROVE OwnInv'
    OBVIOUS
  <2>1. CASE Next
    BY <2>1, ReceiveKeepsOwn, CheckKeepsOwn, OthersKeepOwn DEF Next
  <2>2. CASE UNCHANGED vars
    BY <2>2 DEF vars, account, machines, requests, receiveLocal, OwnInv,
       ExpiredHasEnded, UnheardBefore, Unheard, UpIsTheOne, WordIsForIt, Up,
       Committed, Switching, BeforeCurrent
  <2> QED BY <2>1, <2>2
<1> QED BY <1>1, <1>2, OrderInvHolds, WordInvHolds, PTL DEF Spec, OwnInv

\* checkmachine.py _decision: with receives one at a time and a check that knows
\* it stopped the preparer, the word a switch begins on is that of the apply's
\* own preparer, not one of an earlier apply of the same commit.
THEOREM SerialOwnWord ==
  ASSUME Serial, StopsThePreparer
  PROVE  Spec => []OwnWordOrTimeout
<1>1. OwnInv => OwnWordOrTimeout
  <2> SUFFICES ASSUME OwnInv, NEW c \in Checks, Switching(c)
               PROVE  HasSpoken(held[c]) \/ held[c] <= expired
    BY DEF OwnWordOrTimeout
  <2>1. ReadyForIt(c) \/ OutOfTime(c)
    BY DEF OwnInv, WordInv, DecidedOnWordOrTimeout, Committed
  <2>2. ReadyForIt(c) => heard[c] = held[c] /\ HasSpoken(heard[c])
    BY DEF ReadyForIt, OwnInv, WordInv, WordsWereSpoken, WordIsForIt
  <2> QED BY <2>1, <2>2 DEF OutOfTime
<1> QED BY <1>1, OwnInvHolds, PTL

\* checkmachine.py FindPreparer, StopPreparer: under the same assumptions, no
\* preparer is up by the time the new version is launched.
THEOREM SerialNoPreparerBeside ==
  ASSUME Serial, StopsThePreparer
  PROVE  Spec => []NoPreparerBesideTheNew
<1>1. OwnInv => NoPreparerBesideTheNew
  <2> SUFFICES ASSUME OwnInv, NEW c \in Checks, check[c] \in {"LaunchNew", "WriteCurrent"},
                      NEW a \in Applies, Up(a)
               PROVE  FALSE
    BY DEF NoPreparerBesideTheNew
  <2>1. PICK d \in Checks : check[d] \in {"FindPreparer", "StopPreparer"}
    BY DEF OwnInv, UpIsTheOne, OrderInv, IInv, SwitchersHoldTheLock, Switching, BeforeCurrent
  <2>2. d = c
    BY <2>1 DEF OwnInv, OrderInv, IInv, OneSwitcher, BeforeCurrent
  <2> QED BY <2>1, <2>2
<1> QED BY <1>1, OwnInvHolds, PTL
=============================================================================
