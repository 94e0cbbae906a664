---------------------------- MODULE SealRunProofs ----------------------------
(***************************************************************************)
(* Theorems about SealRun, for every number of runs, of things a person    *)
(* does and of attempts: a released account is clean and the statement is  *)
(* true, whatever fails and whatever the person does meanwhile.  What      *)
(* holds of the first run alone is stated so: an account that an earlier   *)
(* run left half sealed is not as the second run's checks suppose it.      *)
(***************************************************************************)
EXTENDS SealRun, FiniteSetTheorems, TLAPS

\* The history is a log: one event per time, none later than its length, and
\* the sign-up is the only one there is.
HistoryInv ==
    /\ IsFiniteSet(history)
    /\ Preparation \subseteq history
    /\ \A e \in history : e.at <= Cardinality(history)
    /\ \A e, f \in history : e.at = f.at => e = f
    /\ \A e \in history : e.aws <=> e.by = "aws"
    /\ \A e \in history : e.by # "person" \/ e.what = "Billing" => e.home
    /\ \A e \in history \ Preparation : e.what \notin {"SetAccountPlan", "CreateAccount"}
    /\ \A i \in own : \E e \in history : e.at = i /\ e.by = "run"
    /\ IsFiniteSet(unanswered)

LogInv == TypeOK /\ HistoryInv

-----------------------------------------------------------------------------
(* The history                                                             *)

\* One more event, dated by the length of the log.
LEMMA Appended ==
    ASSUME NEW log, IsFiniteSet(log),
           \A f \in log : f.at \in Nat /\ f.at <= Cardinality(log),
           NEW e, e.at = Cardinality(log) + 1
    PROVE  /\ IsFiniteSet(log \cup {e})
           /\ Cardinality(log \cup {e}) = Cardinality(log) + 1
           /\ \A f \in log \cup {e} :
                f.at \in Nat /\ f.at <= Cardinality(log \cup {e})
<1>1. Cardinality(log) \in Nat
  BY FS_CardinalityType
<1>2. e \notin log
  BY <1>1
<1>3. IsFiniteSet(log \cup {e}) /\ Cardinality(log \cup {e}) = Cardinality(log) + 1
  BY <1>2, FS_AddElement
<1>4. ASSUME NEW f \in log PROVE f.at \in Nat /\ f.at <= Cardinality(log) + 1
  <2>1. f.at \in Nat /\ f.at <= Cardinality(log)
    OBVIOUS
  <2> QED BY <1>1, <2>1
<1> QED BY <1>1, <1>3, <1>4

\* The next event comes after every other, and after the preparation.
LEMMA NowIsNew ==
    ASSUME LogInv
    PROVE  Now \in Nat \ {0} /\ Now > 3 /\ \A e \in history : e.at < Now
<1>1. Cardinality(history) \in Nat
  BY FS_CardinalityType DEF LogInv, HistoryInv
<1>2. \A e \in history : e.at \in Nat /\ e.at <= Cardinality(history)
  BY DEF LogInv, TypeOK, Event, HistoryInv
<1>3. \E e \in history : e.at = 3
  <2> DEFINE key == Logged("CreateAccessKey", "person", TRUE, TRUE, 3)
  <2>1. key \in history /\ key.at = 3
    BY DEF LogInv, HistoryInv, Preparation, Logged
  <2> QED BY <2>1
<1>4. Now \in Nat \ {0} /\ \A e \in history : e.at < Now
  BY <1>1, <1>2 DEF Now
<1> QED BY <1>2, <1>3, <1>4

\* What a step may do to the log and to the ids the run keeps: the id of an
\* attempt of the run's is kept, or the attempt went unanswered.
Silent == history' = history /\ own' \subseteq own /\ UNCHANGED unanswered
Kept ==
    \/ own' = own \cup {Now} /\ UNCHANGED unanswered
    \/ own' = own /\ unanswered' = unanswered \cup {Now}
Entry(e) ==
    /\ e \in Event /\ e.at = Now
    /\ e.what \notin {"SetAccountPlan", "CreateAccount"}
    /\ e.aws <=> e.by = "aws"
    /\ e.by # "person" \/ e.what = "Billing" => e.home
Enters(e) ==
    /\ history' = history \cup {e}
    /\ IF e.by = "run" THEN Kept ELSE UNCHANGED <<own, unanswered>>
Echoes == WithAwsEcho("CreateOrganization") /\ Kept

\* A person's step enters one event, of a person.
LEMMA PersonEnters ==
    ASSUME LogInv, Person
    PROVE  \E e : Entry(e) /\ Enters(e) /\ e.by = "person"
<1> USE NowIsNew
<1>1. ASSUME NEW what \in EventNames \ {"SetAccountPlan", "CreateAccount"},
             NEW root \in BOOLEAN, NEW home \in BOOLEAN, what = "Billing" => home,
             history' = history \cup {Logged(what, "person", root, home, Now)},
             UNCHANGED <<own, unanswered>>
      PROVE  \E e : Entry(e) /\ Enters(e) /\ e.by = "person"
  <2> DEFINE e == Logged(what, "person", root, home, Now)
  <2>1. Entry(e) /\ e.by = "person"
    BY <1>1 DEF Entry, Logged, Event, Actors
  <2>2. Enters(e)
    BY <1>1, <2>1 DEF Enters
  <2> QED BY <2>1, <2>2
<1>2. CASE ChangeBilling   BY <1>1, <1>2 DEF ChangeBilling, PersonActs, EventNames
<1>3. CASE ActElsewhere
  <2>1. PICK home \in BOOLEAN : PersonActs("Other", home)
    BY <1>3 DEF ActElsewhere
  <2>2. /\ history' = history \cup {Logged("Other", "person", TRUE, home, Now)}
        /\ UNCHANGED <<own, unanswered>>
    BY <2>1 DEF PersonActs
  <2>3. "Other" \in EventNames \ {"SetAccountPlan", "CreateAccount"} /\ "Other" # "Billing"
    BY DEF EventNames
  <2> QED BY <1>1, <2>2, <2>3
<1>4. CASE MintSecondKey   BY <1>1, <1>4 DEF MintSecondKey, PersonActs, EventNames
<1>5. CASE DeleteSecondKey BY <1>1, <1>5 DEF DeleteSecondKey, PersonActs, EventNames
<1>6. CASE OrganizeByHand  BY <1>1, <1>6 DEF OrganizeByHand, PersonActs, EventNames
<1>7. CASE ChangeConsolePassword
  BY <1>1, <1>7 DEF ChangeConsolePassword, EventNames
<1> QED BY <1>2, <1>3, <1>4, <1>5, <1>6, <1>7 DEF Person

\* A call of the run enters one event, of the run, as root and at home.
LEMMA CallEnters ==
    ASSUME LogInv, NEW what \in EventNames \ {"SetAccountPlan", "CreateAccount"},
           NEW succeeded, Call(what, succeeded)
    PROVE  \E e : Entry(e) /\ Enters(e) /\ e.by = "run" /\ e.root /\ e.what = what
<1> DEFINE e == Logged(what, "run", TRUE, TRUE, Now)
<1>1. Entry(e) /\ e.by = "run" /\ e.root /\ e.what = what
  BY NowIsNew DEF Entry, Logged, Event, Actors
<1>2. Enters(e)
  BY <1>1 DEF Call, Recorded, Enters, Kept
<1> QED BY <1>1, <1>2

\* So does an attempt whose answer is lost, and CreateOrganization's may have
\* had its echo.
LEMMA LostEnters ==
    ASSUME LogInv, AnswerLost
    PROVE  \/ \E e : Entry(e) /\ Enters(e) /\ e.by = "run" /\ e.root
           \/ pc = "create_org" /\ Echoes
<1>1. Kept
  BY DEF AnswerLost, Kept
<1>2. CASE history' = history \cup {Logged(Asks[pc], "run", TRUE, TRUE, Now)}
  <2> DEFINE e == Logged(Asks[pc], "run", TRUE, TRUE, Now)
  <2>1. Asks[pc] \in EventNames \ {"SetAccountPlan", "CreateAccount"}
    BY DEF AnswerLost, Asks, EventNames
  <2>2. Entry(e) /\ e.by = "run" /\ e.root
    BY <2>1, NowIsNew DEF Entry, Logged, Event, Actors
  <2>3. Enters(e)
    BY <1>1, <1>2, <2>2 DEF Enters
  <2> QED BY <2>2, <2>3
<1>3. CASE pc = "create_org" /\ WithAwsEcho(Asks[pc])
  BY <1>1, <1>3 DEF Asks, Echoes
<1> QED BY <1>2, <1>3 DEF AnswerLost

\* A step of the run enters nothing, one event of its own, or, for the
\* organization, one of its own and one that AWS makes for it.
LEMMA RunEnters ==
    ASSUME LogInv, Run
    PROVE  \/ Silent
           \/ \E e : Entry(e) /\ Enters(e) /\ e.by = "run" /\ e.root
           \/ pc = "create_org" /\ Echoes
<1> USE CallEnters DEF Silent, Stops, CallInVain, EventNames
<1>1. CASE ResolveRepo             BY <1>1 DEF ResolveRepo
<1>2. CASE OpenSession             BY <1>2 DEF OpenSession
<1>3. CASE CreateOrganization
  BY <1>3 DEF CreateOrganization, CallWithAwsEcho, Recorded, Echoes, Kept
<1>4. CASE RemoveOrganization      BY <1>4 DEF RemoveOrganization
<1>5. CASE RemoveOrganizationFails BY <1>5 DEF RemoveOrganizationFails
<1>6. CASE CreateIdentities        BY <1>6 DEF CreateIdentities
<1>7. CASE WriteConsoleCredentials BY <1>7 DEF WriteConsoleCredentials
<1>8. CASE AcceptTransfer          BY <1>8 DEF AcceptTransfer
<1>9. CASE SkipTransfer            BY <1>9 DEF SkipTransfer
<1>10. CASE DescribeLock           BY <1>10 DEF DescribeLock
<1>11. CASE EnforceLock            BY <1>11 DEF EnforceLock
<1>12. CASE LaunchInstance         BY <1>12 DEF LaunchInstance
<1>13. CASE DeleteRootKey          BY <1>13 DEF DeleteRootKey
<1>14. CASE Hold                   BY <1>14 DEF Hold
<1>15. CASE Audit                  BY <1>15 DEF Audit
<1>16. CASE SkipAudit              BY <1>16 DEF SkipAudit
<1>17. CASE Release                BY <1>17 DEF Release
<1>18. CASE WriteStatement         BY <1>18 DEF WriteStatement
<1>19. CASE AnswerLost             BY <1>19, LostEnters
<1> QED BY <1>1, <1>2, <1>3, <1>4, <1>5, <1>6, <1>7, <1>8, <1>9, <1>10, <1>11,
           <1>12, <1>13, <1>14, <1>15, <1>16, <1>17, <1>18, <1>19 DEF Run

\* The log stays a log with one event entered.
LEMMA EnteringKeepsHistory ==
    ASSUME LogInv, NEW e, Entry(e), Enters(e)
    PROVE  /\ HistoryInv' /\ history' \subseteq Event
           /\ own' \subseteq Nat /\ unanswered' \subseteq Nat
<1>1. IsFiniteSet(history') /\ \A f \in history' : f.at <= Cardinality(history')
  BY Appended DEF LogInv, HistoryInv, TypeOK, Event, Entry, Enters, Now
<1>2. \A f, g \in history' : f.at = g.at => f = g
  <2>1. \A f \in history : f.at # Now
    BY NowIsNew DEF LogInv, TypeOK, Event
  <2> QED BY <2>1 DEF LogInv, HistoryInv, Entry, Enters
<1>3. \A i \in own' : \E f \in history' : f.at = i /\ f.by = "run"
  BY DEF LogInv, HistoryInv, Entry, Enters, Kept
<1>4. history' \subseteq Event /\ own' \subseteq Nat /\ unanswered' \subseteq Nat
  BY NowIsNew DEF LogInv, TypeOK, Entry, Enters, Kept
<1>6. IsFiniteSet(unanswered')
  BY FS_AddElement DEF LogInv, HistoryInv, Enters, Kept
<1>5. Preparation' = Preparation
  BY DEF Preparation, Logged
<1> QED BY <1>1, <1>2, <1>3, <1>4, <1>5, <1>6 DEF LogInv, HistoryInv, Entry, Enters

\* And with a call and the one AWS made for it.
LEMMA EchoKeepsHistory ==
    ASSUME LogInv, Echoes
    PROVE  /\ HistoryInv' /\ history' \subseteq Event
           /\ own' \subseteq Nat /\ unanswered' \subseteq Nat
<1> DEFINE e == Logged("CreateOrganization", "run", TRUE, TRUE, Now)
           f == Logged("Other", "aws", TRUE, TRUE, Now + 1)
<1>1. /\ e \in Event /\ e.at = Now /\ e.by = "run" /\ e.home /\ ~e.aws
      /\ e.what = "CreateOrganization"
  BY NowIsNew DEF Logged, Event, EventNames, Actors
<1>f. /\ f \in Event /\ f.at = Now + 1 /\ f.by = "aws" /\ f.home /\ f.aws
      /\ f.what = "Other"
  <2>1. Now + 1 \in Nat \ {0}
    BY NowIsNew
  <2>2. f = [what |-> "Other", at |-> Now + 1, by |-> "aws", root |-> TRUE, home |-> TRUE,
             aws |-> TRUE]
    BY DEF Logged
  <2> HIDE DEF f
  <2> QED BY <2>1, <2>2, SMTT(30) DEF Event, EventNames, Actors
<1>2. history' = (history \cup {e}) \cup {f} /\ Kept
  BY DEF Echoes, WithAwsEcho
<1> HIDE DEF e, f
<1>3. /\ IsFiniteSet(history \cup {e}) /\ Cardinality(history \cup {e}) = Now
      /\ \A g \in history \cup {e} :
           g.at \in Nat /\ g.at <= Cardinality(history \cup {e})
  BY <1>1, <1>f, Appended DEF LogInv, HistoryInv, TypeOK, Event, Now
<1>4. IsFiniteSet(history') /\ \A g \in history' : g.at <= Cardinality(history')
  BY <1>1, <1>f, <1>2, <1>3, Appended
<1>5. \A g, h \in history' : g.at = h.at => g = h
  <2>1. \A g \in history : g.at < Now /\ g.at \in Nat
    BY NowIsNew DEF LogInv, TypeOK, Event
  <2>2. Now \in Nat /\ e.at = Now /\ f.at = Now + 1
    BY <1>1, <1>f, NowIsNew
  <2>3. \A g, h \in history : g.at = h.at => g = h
    BY DEF LogInv, HistoryInv
  <2> QED BY <1>2, <2>1, <2>2, <2>3
<1>6. \A i \in own' : \E g \in history' : g.at = i /\ g.by = "run"
  BY <1>1, <1>f, <1>2 DEF LogInv, HistoryInv, Kept
<1>7. history' \subseteq Event /\ own' \subseteq Nat /\ unanswered' \subseteq Nat
  BY <1>1, <1>f, <1>2, NowIsNew DEF LogInv, TypeOK, Kept
<1>8. Preparation' = Preparation
  BY DEF Preparation, Logged
<1>9. IsFiniteSet(unanswered')
  BY <1>2, FS_AddElement DEF LogInv, HistoryInv, Kept
<1> QED BY <1>1, <1>f, <1>2, <1>4, <1>5, <1>6, <1>7, <1>8, <1>9 DEF LogInv, HistoryInv

\* Nothing is ever taken out of the history.
LEMMA NextKeepsHistory ==
    ASSUME LogInv, [Next]_vars
    PROVE  /\ HistoryInv' /\ history \subseteq history'
           /\ history' \subseteq Event
           /\ own' \subseteq Nat /\ unanswered' \subseteq Nat
<1>1. CASE Silent
  <2>1. Preparation' = Preparation
    BY DEF Preparation, Logged
  <2> QED BY <1>1, <2>1 DEF Silent, LogInv, TypeOK, HistoryInv
<1>2. CASE \E e : Entry(e) /\ Enters(e)
  BY <1>2, EnteringKeepsHistory DEF Enters
<1>3. CASE Echoes
  BY <1>3, EchoKeepsHistory DEF Echoes, WithAwsEcho
<1>4. Dispatch \/ UNCHANGED vars => Silent
  BY DEF Dispatch, vars, Silent
<1> QED BY <1>1, <1>2, <1>3, <1>4, RunEnters, PersonEnters DEF Next

-----------------------------------------------------------------------------
(* Type correctness                                                        *)

\* What the assumption says of the bounds, one by one.
LEMMA Bounds ==
    /\ MaxRuns \in Nat /\ MaxUnforeseen \in Nat /\ MaxUnanswered \in Nat
    /\ RemoveAttempts \in Nat \ {0} /\ LaunchAttempts \in Nat \ {0}
    /\ SplitInSecond \in BOOLEAN
  BY SealAssumption

\* Every value stays in its range: the run, the person, and a new dispatch.
LEMMA NextKeepsTypes == ASSUME LogInv, [Next]_vars PROVE TypeOK'
<1>1. /\ history' \subseteq Event /\ history \subseteq history'
      /\ own' \subseteq Nat /\ unanswered' \subseteq Nat
  BY NextKeepsHistory
<1>2. settled' \subseteq history' /\ startedAt' \in Nat
  <2>1. settled \subseteq history' /\ history \subseteq history' /\ Now \in Nat /\ Now + 1 \in Nat
    BY <1>1, NowIsNew DEF LogInv, TypeOK
  <2>2. CASE OpenSession
    <3>1. PICK late \in {0, 1} : startedAt' = Now + late
      BY <2>2 DEF OpenSession
    <3> QED BY <2>1, <2>2, <3>1 DEF OpenSession
  <2>3. CASE Hold
    BY <2>1, <2>3 DEF Hold, LogInv, TypeOK
  <2>4. CASE UNCHANGED <<settled, startedAt>>
    BY <2>1, <2>4 DEF LogInv, TypeOK
  <2>5. Run => OpenSession \/ Hold \/ UNCHANGED <<settled, startedAt>>
    BY DEF Run, ResolveRepo, CreateOrganization, RemoveOrganization,
       RemoveOrganizationFails, CreateIdentities, WriteConsoleCredentials,
       AcceptTransfer, SkipTransfer, DescribeLock, EnforceLock, LaunchInstance,
       DeleteRootKey, Audit, SkipAudit, Release, WriteStatement, Stops, Goto, AnswerLost
  <2>6. Person \/ Dispatch \/ UNCHANGED vars => UNCHANGED <<settled, startedAt>>
    BY DEF Person, ChangeBilling, ActElsewhere, MintSecondKey, DeleteSecondKey,
       OrganizeByHand, ChangeConsolePassword, PersonActs, Dispatch, vars
  <2> QED BY <2>2, <2>3, <2>4, <2>5, <2>6 DEF Next
<1>a. 1 \in 0..RemoveAttempts /\ 1 \in 0..LaunchAttempts
  BY Bounds
<1>b. tries < LaunchAttempts /\ tries \in Nat => tries + 1 \in 0..LaunchAttempts
  BY Bounds
<1>c. tries \in Nat
  BY Bounds DEF LogInv, TypeOK
<1>d. Unforeseen < MaxUnforeseen => personEvents + 1 \in 0..MaxUnforeseen
  <2>1. Cardinality(unanswered) \in Nat /\ personEvents \in 0..MaxUnforeseen
    BY FS_CardinalityType DEF LogInv, HistoryInv, TypeOK
  <2> QED BY <2>1, Bounds DEF Unforeseen
<1> USE <1>1, <1>2 DEF LogInv, TypeOK, account, output, Steps, Goto, Stops
<1>3. CASE Dispatch                 BY <1>3, Bounds DEF Dispatch
<1>4. CASE ResolveRepo              BY <1>4 DEF ResolveRepo
<1>5. CASE OpenSession              BY <1>5 DEF OpenSession
<1>6. CASE CreateOrganization       BY <1>6, <1>a DEF CreateOrganization
<1>7. CASE RemoveOrganization       BY <1>7, <1>a, <1>b, <1>c, Bounds DEF RemoveOrganization
<1>8. CASE RemoveOrganizationFails  BY <1>8, Bounds DEF RemoveOrganizationFails
<1>9. CASE CreateIdentities         BY <1>9 DEF CreateIdentities
<1>10. CASE WriteConsoleCredentials BY <1>10 DEF WriteConsoleCredentials
<1>11. CASE AcceptTransfer          BY <1>11 DEF AcceptTransfer
<1>12. CASE SkipTransfer            BY <1>12 DEF SkipTransfer
<1>13. CASE DescribeLock            BY <1>13 DEF DescribeLock
<1>14. CASE EnforceLock             BY <1>14, <1>a, <1>b, <1>c, Bounds DEF EnforceLock
<1>15. CASE LaunchInstance
  <2>1. /\ UNCHANGED <<cfg, runs, org, identities, consoleFile, domainHere, lock, rootKeys,
                       audit, go, statement, personEvents>>
        /\ pc' \in {"launch", "delete_key", "ended"}
    BY <1>15 DEF LaunchInstance
  <2>3. {consoleFile, domainHere, instance, go}' \subseteq BOOLEAN
    <3>1. CASE instance' = TRUE
      BY <2>1, <3>1
    <3>2. CASE UNCHANGED instance
      BY <2>1, <3>2
    <3> QED BY <1>15, <3>1, <3>2 DEF LaunchInstance
  <2>2. tries' \in (0..RemoveAttempts) \cup (0..LaunchAttempts)
    <3>1. tries' = 0 \/ tries' = tries \/ (tries < LaunchAttempts /\ tries' = tries + 1)
      BY <1>15 DEF LaunchInstance
    <3> QED BY <3>1, <1>b, <1>c, Bounds
  <2> QED BY <2>1, <2>2, <2>3
<1>16. CASE DeleteRootKey           BY <1>16 DEF DeleteRootKey
<1>17. CASE Hold
  <2>1. pc' = "audit" /\ UNCHANGED <<cfg, runs, tries, account, output, personEvents>>
    BY <1>17 DEF Hold
  <2> QED BY <2>1
<1>18. CASE Audit
  <2>1. \/ audit' = "passed" /\ pc' = "release"
        \/ audit' = "refused" /\ pc' = "ended"
    BY <1>18 DEF Audit, Goto
  <2>2. UNCHANGED <<cfg, runs, tries, account, go, statement, personEvents>>
    BY <1>18 DEF Audit, Goto
  <2> QED BY <2>1, <2>2
<1>19. CASE SkipAudit
  <2>1. pc' = "release" /\ UNCHANGED <<cfg, runs, tries, account, output, personEvents>>
    BY <1>19 DEF SkipAudit
  <2> QED BY <2>1
<1>20. CASE Release
  <2>1. /\ pc' \in {"write_statement", "ended"} /\ go' \in {TRUE, go}
        /\ UNCHANGED <<cfg, runs, tries, account, audit, statement, personEvents>>
    BY <1>20 DEF Release
  <2>2. {consoleFile, domainHere, instance, go}' \subseteq BOOLEAN
    <3>1. CASE go' = TRUE
      BY <2>1, <3>1
    <3>2. CASE UNCHANGED go
      BY <2>1, <3>2
    <3> QED BY <2>1, <3>1, <3>2
  <2> QED BY <2>1, <2>2
<1>21. CASE WriteStatement
  <2>1. cfg.bypassEventCheck \in BOOLEAN /\ cfg.bypassDomainTransfer \in BOOLEAN
    BY DEF Config
  <2>2. /\ pc' = "ended"
        /\ statement' = [written |-> TRUE, debug |-> Debug, held |-> HoldTaken]
        /\ UNCHANGED <<cfg, runs, tries, account, audit, go, personEvents>>
    BY <1>21 DEF WriteStatement
  <2>3. statement' \in [written : BOOLEAN, debug : BOOLEAN, held : BOOLEAN]
    BY <2>1, <2>2 DEF Debug, HoldTaken
  <2> QED BY <2>2, <2>3
<1>22. CASE Person
  <2>1. /\ UNCHANGED <<cfg, pc, runs, tries, identities, consoleFile, domainHere, lock,
                       instance, audit, go, statement>>
        /\ Unforeseen < MaxUnforeseen /\ personEvents' = personEvents + 1
    BY <1>22 DEF Person, ChangeBilling, ActElsewhere, MintSecondKey, DeleteSecondKey,
       OrganizeByHand, ChangeConsolePassword, PersonActs
  <2>2. org' \in {"none", "managing"} /\ rootKeys' \subseteq {"given", "second"}
    BY <1>22 DEF Person, ChangeBilling, ActElsewhere, MintSecondKey, DeleteSecondKey,
       OrganizeByHand, ChangeConsolePassword
  <2> QED BY <1>d, <2>1, <2>2
<1>23. CASE UNCHANGED vars          BY <1>23 DEF vars
<1>24. CASE AnswerLost
  <2>1. UNCHANGED <<cfg, pc, runs, tries, audit, go, statement, personEvents>>
    BY <1>24 DEF AnswerLost
  <2>2. /\ org' \in {"none", "managing"} /\ identities' \in {"none", "some", "all"}
        /\ lock' \in {"open", "described", "enforced"}
        /\ rootKeys' \subseteq {"given", "second"}
        /\ UNCHANGED consoleFile
    BY <1>24 DEF AnswerLost, Unseen
  <2>3. domainHere' \in {TRUE, domainHere} /\ instance' \in {TRUE, instance}
    BY <1>24 DEF AnswerLost, Unseen
  <2>4. {consoleFile, domainHere, instance, go}' \subseteq BOOLEAN
    BY <2>1, <2>2, <2>3
  <2> QED BY <2>1, <2>2, <2>4
<1> QED BY <1>3, <1>4, <1>5, <1>6, <1>7, <1>8, <1>9, <1>10, <1>11, <1>12, <1>13,
           <1>14, <1>15, <1>16, <1>17, <1>18, <1>19, <1>20, <1>21, <1>22, <1>23, <1>24
        DEF Next, Run

\* The account as it is handed over: three events of signing up.
LEMMA InitIsLogged == Init => LogInv
<1> SUFFICES ASSUME Init PROVE LogInv
  OBVIOUS
<1> DEFINE plan == Logged("SetAccountPlan", "person", TRUE, TRUE, 1)
           open == Logged("CreateAccount", "person", TRUE, TRUE, 2)
           key  == Logged("CreateAccessKey", "person", TRUE, TRUE, 3)
<1>1. /\ plan \in Event /\ plan.at = 1 /\ plan.by = "person" /\ plan.home /\ ~plan.aws
      /\ open \in Event /\ open.at = 2 /\ open.by = "person" /\ open.home /\ ~open.aws
      /\ key \in Event /\ key.at = 3 /\ key.by = "person" /\ key.home /\ ~key.aws
  <2>1. ASSUME NEW what \in EventNames, NEW at \in Nat \ {0}
        PROVE  LET e == Logged(what, "person", TRUE, TRUE, at)
               IN  e \in Event /\ e.at = at /\ e.by = "person" /\ e.home /\ ~e.aws
    BY DEF Logged, Event, Actors
  <2>3. 1 \in Nat \ {0} /\ 2 \in Nat \ {0} /\ 3 \in Nat \ {0}
    OBVIOUS
  <2>2. {"SetAccountPlan", "CreateAccount", "CreateAccessKey"} \subseteq EventNames
    BY DEF EventNames
  <2> QED BY <2>1, <2>2, <2>3
<1>2. history = {plan, open, key} /\ history = Preparation
  BY DEF Init, Preparation
<1> HIDE DEF plan, open, key
<1>3. IsFiniteSet(history) /\ Cardinality(history) = 3
  <2>1. IsFiniteSet({plan}) /\ Cardinality({plan}) = 1
    BY FS_Singleton
  <2>2. IsFiniteSet({plan} \cup {open}) /\ Cardinality({plan} \cup {open}) = 2
    <3>1. open \notin {plan}
      BY <1>1
    <3> QED BY <2>1, <3>1, FS_AddElement
  <2>3. /\ IsFiniteSet(({plan} \cup {open}) \cup {key})
        /\ Cardinality(({plan} \cup {open}) \cup {key}) = 3
    <3>1. key \notin {plan} \cup {open}
      BY <1>1
    <3> QED BY <2>2, <3>1, FS_AddElement
  <2>4. history = ({plan} \cup {open}) \cup {key}
    BY <1>2
  <2> QED BY <2>3, <2>4
<1>4. HistoryInv
  BY <1>1, <1>2, <1>3, FS_EmptySet DEF HistoryInv, Init
<1>5. TypeOK
  <2>1. history \subseteq Event /\ settled = {} /\ own = {} /\ unanswered = {}
    BY <1>1, <1>2 DEF Init
  <2>2. 0 \in 0..MaxRuns /\ 0 \in 0..RemoveAttempts /\ 0 \in 0..MaxUnforeseen
    BY Bounds
  <2>3. {consoleFile, domainHere, instance, go} \subseteq BOOLEAN
    BY DEF Init
  <2> QED BY <2>1, <2>2, <2>3 DEF Init, TypeOK, Steps, NoStatement
<1> QED BY <1>4, <1>5 DEF LogInv

\* So every value is in its range, and the history a log, throughout.
LEMMA LogHolds == Spec => []LogInv
<1>1. LogInv /\ [Next]_vars => LogInv'
  BY NextKeepsHistory, NextKeepsTypes DEF LogInv
<1> QED BY <1>1, InitIsLogged, PTL DEF Spec

\* Every variable keeps its type, whatever fails and whatever a person does.
THEOREM SealTypeCorrect == Spec => []TypeOK
<1>1. LogInv => TypeOK
  BY DEF LogInv
<1> QED BY <1>1, LogHolds, PTL

-----------------------------------------------------------------------------
(* The order of the steps                                                  *)

Cleared == {"release", "write_statement"}
Held == {"audit"} \cup Cleared
KeyGone == {"hold"} \cup Held
Locked == {"launch", "delete_key"} \cup KeyGone
Sealing == {"statement_of_lock", "enforce_lock"} \cup Locked
AfterOrg == {"identities", "console_file", "transfer"} \cup Sealing

\* What has had its say before the lock is touched.
Ready ==
    /\ cfg.emailHere
    /\ domainHere \/ cfg.bypassDomainTransfer
    /\ identities = "all" /\ consoleFile

Irreversible == lock # "open" \/ instance \/ "given" \notin rootKeys

\* How far a run has come tells what stands in the account; and what has been
\* released, or signed, is past the last step.
StepsInv ==
    /\ pc \in AfterOrg => cfg.emailHere
    /\ pc \in {"console_file", "transfer"} => identities = "all"
    /\ pc = "transfer" => consoleFile
    /\ pc \in Sealing \/ Irreversible => Ready
    /\ pc \in Locked => lock = "enforced"
    /\ pc \in KeyGone => "given" \notin rootKeys
    /\ cfg.bypassEventCheck => audit = "none"
    /\ pc \in Cleared /\ ~cfg.bypassEventCheck => audit = "passed"
    /\ pc = "write_statement" => go
    /\ go => /\ pc = "write_statement" \/ (pc = "ended" /\ statement.written)
             /\ lock = "enforced" /\ "given" \notin rootKeys
             /\ cfg.bypassEventCheck \/ audit = "passed"
    /\ statement.written =>
         /\ go
         /\ statement.held <=> ~cfg.bypassEventCheck
         /\ statement.debug <=> cfg.bypassEventCheck \/ cfg.bypassDomainTransfer

\* A person has no part in the order: what they change is root's own.
LEMMA PersonKeepsSteps ==
    ASSUME StepsInv, Person
    PROVE  StepsInv'
<1>1. UNCHANGED <<cfg, pc, identities, consoleFile, domainHere, lock, instance,
                  audit, go, statement>>
  BY DEF Person, ChangeBilling, ActElsewhere, MintSecondKey, DeleteSecondKey,
     OrganizeByHand, ChangeConsolePassword, PersonActs, account, output
<1>2. ("given" \in rootKeys') <=> ("given" \in rootKeys)
  BY DEF Person, ChangeBilling, ActElsewhere, MintSecondKey, DeleteSecondKey,
     OrganizeByHand, ChangeConsolePassword, account
<1> QED BY <1>1, <1>2 DEF StepsInv, Ready, Irreversible

\* The steps of the run, one by one.
LEMMA RunKeepsSteps ==
    ASSUME StepsInv, Run
    PROVE  StepsInv'
<1> USE DEF StepsInv, Ready, Irreversible, Cleared, Held, KeyGone, Locked, Sealing,
        AfterOrg, account, output, Goto
<1>s. ASSUME NEW what, Stops(what), pc # "write_statement" PROVE StepsInv'
  <2>1. pc' = "ended" /\ UNCHANGED <<cfg, account, output>>
    BY <1>s DEF Stops
  <2>2. pc' \notin AfterOrg \cup {"write_statement"}
    BY <2>1
  <2>3. UNCHANGED <<cfg, identities, consoleFile, domainHere, lock, instance, rootKeys,
                    audit, go, statement>>
    BY <2>1
  <2> HIDE DEF AfterOrg, Sealing, Locked, KeyGone, Held, Cleared
  <2>4. pc' \notin Sealing \cup Locked \cup KeyGone \cup Cleared
    BY <2>2 DEF AfterOrg, Sealing, Locked, KeyGone, Held, Cleared
  <2>5. pc' \notin {"console_file", "transfer"}
    BY <2>1
  <2> QED BY <1>s, <2>1, <2>2, <2>3, <2>4, <2>5
<1>1. CASE ResolveRepo             BY <1>1 DEF ResolveRepo
<1>2. CASE OpenSession             BY <1>2 DEF OpenSession
<1>3. CASE CreateOrganization      BY <1>3, <1>s DEF CreateOrganization
<1>4. CASE RemoveOrganization      BY <1>4 DEF RemoveOrganization
<1>5. CASE RemoveOrganizationFails BY <1>5 DEF RemoveOrganizationFails
<1>6. CASE CreateIdentities
  <2>1. CASE ~Stops("Other")
    <3>1. /\ pc = "identities" /\ identities = "none"
          /\ UNCHANGED <<cfg, consoleFile, domainHere, lock, rootKeys, instance, output>>
          /\ \/ identities' = "all" /\ pc' = "console_file"
             \/ identities' = "some" /\ pc' = "ended"
      BY <1>6, <2>1 DEF CreateIdentities
    <3> QED BY <3>1
  <2> QED BY <1>6, <1>s, <2>1 DEF CreateIdentities
<1>7. CASE WriteConsoleCredentials BY <1>7 DEF WriteConsoleCredentials
<1>8. CASE AcceptTransfer
  <2>1. CASE ~Stops("Other")
    <3>1. /\ pc = "transfer" /\ pc' = "statement_of_lock" /\ domainHere' = TRUE
          /\ UNCHANGED <<cfg, identities, consoleFile, lock, rootKeys, instance, output>>
      BY <1>8, <2>1 DEF AcceptTransfer
    <3> QED BY <3>1
  <2> QED BY <1>8, <1>s, <2>1 DEF AcceptTransfer
<1>9. CASE SkipTransfer            BY <1>9 DEF SkipTransfer
<1>10. CASE DescribeLock
  <2>1. CASE ~Stops("Other")
    <3>1. /\ pc = "statement_of_lock" /\ pc' = "enforce_lock"
          /\ UNCHANGED <<cfg, identities, consoleFile, domainHere, rootKeys, instance, output>>
          /\ lock' = IF lock = "open" THEN "described" ELSE lock
      BY <1>10, <2>1 DEF DescribeLock
    <3> QED BY <3>1
  <2> QED BY <1>10, <1>s, <2>1 DEF DescribeLock
<1>11. CASE EnforceLock
  <2>1. CASE ~Stops("Other")
    <3>1. /\ pc = "enforce_lock" /\ pc' = "launch" /\ lock' = "enforced"
          /\ UNCHANGED <<cfg, identities, consoleFile, domainHere, rootKeys, instance, output>>
      BY <1>11, <2>1 DEF EnforceLock
    <3> QED BY <3>1
  <2> QED BY <1>11, <1>s, <2>1 DEF EnforceLock
<1>12. CASE LaunchInstance
  <2>1. CASE ~Stops("Other")
    <3>1. /\ pc = "launch" /\ pc' \in {"launch", "delete_key"}
          /\ UNCHANGED <<cfg, identities, consoleFile, domainHere, lock, rootKeys, output>>
      BY <1>12, <2>1 DEF LaunchInstance
    <3> QED BY <3>1
  <2> QED BY <1>12, <1>s, <2>1 DEF LaunchInstance
<1>13. CASE DeleteRootKey
  <2>1. CASE ~Stops("DeleteAccessKey")
    <3>1. /\ pc = "delete_key" /\ pc' = "hold" /\ rootKeys' = rootKeys \ {"given"}
          /\ UNCHANGED <<cfg, identities, consoleFile, domainHere, lock, instance, output>>
      BY <1>13, <2>1 DEF DeleteRootKey
    <3> QED BY <3>1
  <2> QED BY <1>13, <1>s, <2>1 DEF DeleteRootKey
<1>14. CASE Hold                   BY <1>14 DEF Hold
<1>15. CASE Audit                  BY <1>15 DEF Audit
<1>16. CASE SkipAudit              BY <1>16 DEF SkipAudit
<1>17. CASE Release                BY <1>17 DEF Release
<1>18. CASE WriteStatement         BY <1>18 DEF WriteStatement, Debug, HoldTaken
<1>19. CASE AnswerLost
  <2>1. UNCHANGED <<cfg, pc, audit, go, statement>> /\ pc \in DOMAIN Asks
    BY <1>19 DEF AnswerLost
  <2>2. CASE UNCHANGED account
    BY <2>1, <2>2
  <2>3. CASE Unseen
    BY <2>1, <2>3 DEF Unseen, Asks
  <2> QED BY <1>19, <2>2, <2>3 DEF AnswerLost
<1> QED BY <1>1, <1>2, <1>3, <1>4, <1>5, <1>6, <1>7, <1>8, <1>9, <1>10, <1>11,
           <1>12, <1>13, <1>14, <1>15, <1>16, <1>17, <1>18, <1>19 DEF Run

\* So it holds throughout.
LEMMA StepsHold == Spec => []StepsInv
<1>1. Init => StepsInv
  BY DEF Init, StepsInv, Irreversible, Cleared, Held, KeyGone, Locked, Sealing, AfterOrg,
     NoStatement
<1>2. StepsInv /\ [Next]_vars => StepsInv'
  <2> SUFFICES ASSUME StepsInv, [Next]_vars PROVE StepsInv'
    OBVIOUS
  <2>1. CASE Dispatch
    BY <2>1 DEF Dispatch, StepsInv, Ready, Irreversible, Cleared, Held, KeyGone, Locked,
       Sealing, AfterOrg, account, output
  <2>2. CASE UNCHANGED vars
    BY <2>2 DEF vars, StepsInv, Ready, Irreversible, account, output
  <2> QED BY <2>1, <2>2, RunKeepsSteps, PersonKeepsSteps DEF Next
<1> QED BY <1>1, <1>2, PTL DEF Spec

-----------------------------------------------------------------------------
(* What the audit can tell                                                 *)

Did(what) == \E e \in ByHand : e.what = what

\* Whatever a person did as root left an event; and once nobody but a second
\* key can reach root any more, such an event is among those the audit reads.
EvidenceInv ==
    /\ "second" \in rootKeys => Did("CreateAccessKey")
    /\ (pc \in AfterOrg \/ go) /\ org = "managing" => Did("CreateOrganization")
    /\ pc \in Held /\ ~cfg.bypassEventCheck =>
         /\ Preparation \subseteq settled
         /\ ByHand \subseteq settled \/ \E e \in ByHand \cap settled : e.what = "CreateAccessKey"
    /\ (pc \in Cleared \/ go) /\ ~cfg.bypassEventCheck =>
         \A e \in ByHand : e.what = "Billing" /\ e.at < startedAt

SealInv == LogInv /\ StepsInv /\ EvidenceInv

\* What the preparation is: three events, of which one is the key.
LEMMA Prepared ==
    /\ Preparation' = Preparation
    /\ \A e \in Preparation : /\ e.by = "person" /\ e.at <= 3
                              /\ e.what = "SetAccountPlan" => e.at = 1
    /\ \E k \in Preparation : k.what = "CreateAccessKey" /\ k.root /\ k.home
<1> DEFINE k == Logged("CreateAccessKey", "person", TRUE, TRUE, 3)
<1>1. k \in Preparation /\ k.what = "CreateAccessKey" /\ k.root /\ k.home
  BY DEF Preparation, Logged
<1>2. \E j \in Preparation : j.what = "CreateAccessKey" /\ j.root /\ j.home
  BY <1>1
<1> QED BY <1>2 DEF Preparation, Logged

\* A judgement that lets the run pass finds nothing by hand among the events
\* it surely read but billing before the run: a call by hand is not the run's,
\* and the run's key is the one key there may be.
LEMMA JudgedIsClean ==
    ASSUME LogInv, Preparation \subseteq settled,
           NEW since \in SUBSET (history \ settled),
           NEW seen, seen = {e \in settled \cup since : e.at > cfg.start},
           Judge(seen, own, startedAt)
    PROVE  \A e \in ByHand \cap settled : e.what = "Billing" /\ e.at < startedAt
<1> DEFINE ordered == RootEvents({e \in seen : e.home})
           before  == {e \in ordered : e.at < startedAt}
<1>1. /\ OpensTheAccount(ordered) /\ PreflightOnly(before)
      /\ AllAttributed({e \in ordered : e.at >= startedAt}, own)
      /\ RootEvents({e \in seen : ~e.home}) = {}
  BY DEF Judge
<1>2. /\ \A e \in history : e.at \in Nat \ {0}
      /\ startedAt \in Nat /\ cfg.start \in {0, 2} /\ settled \subseteq history
  BY DEF LogInv, TypeOK, Event, Config
<1>3. cfg.start = 0
  <2>1. PICK plan \in ordered : plan.what = "SetAccountPlan"
    BY <1>1 DEF OpensTheAccount
  <2>2. plan \in history /\ plan.at > cfg.start
    BY <1>2 DEF RootEvents
  <2>3. plan \in Preparation
    BY <2>1, <2>2 DEF LogInv, HistoryInv
  <2>4. plan.at = 1
    BY <2>1, <2>3, Prepared
  <2> QED BY <1>2, <2>2, <2>4
<1>4. settled \subseteq seen
  BY <1>2, <1>3
<1>5. ASSUME NEW e \in settled, e.root, e.by = "person"
      PROVE  e \in before
  <2>1. e \in ordered
    BY <1>1, <1>4, <1>5 DEF RootEvents
  <2>2. ~(e.at \in own) /\ ~e.aws
    BY <1>2, <1>5 DEF LogInv, HistoryInv
  <2>3. ~(e.at >= startedAt)
    BY <1>1, <2>1, <2>2 DEF AllAttributed, MadeByAws
  <2> QED BY <1>2, <2>1, <2>3
<1> SUFFICES ASSUME NEW e \in ByHand, e \in settled
             PROVE  e.what = "Billing" /\ e.at < startedAt
  OBVIOUS
<1>6. e \in before /\ e \notin Preparation /\ e \in history
  BY <1>5 DEF ByHand
<1>7. e.what \in {"Billing", "CreateAccessKey"}
  BY <1>1, <1>6 DEF PreflightOnly, TrustedNames, PreflightNames, LogInv, HistoryInv
<1>8. e.what # "CreateAccessKey"
  <2> SUFFICES ASSUME e.what = "CreateAccessKey" PROVE FALSE
    OBVIOUS
  <2> DEFINE keys == {f \in before : f.what = "CreateAccessKey"}
  <2>1. PICK k \in Preparation : k.what = "CreateAccessKey" /\ k.root
    BY Prepared
  <2>2. k \in before
    BY <1>5, <2>1, Prepared
  <2>3. IsFiniteSet(keys)
    <3>1. keys \subseteq history
      BY <1>2 DEF RootEvents
    <3> QED BY <3>1, FS_Subset DEF LogInv, HistoryInv
  <2>4. Cardinality(keys) = 1
    BY <1>1 DEF PreflightOnly
  <2>5. PICK x : keys = {x}
    BY <2>3, <2>4, FS_Singleton
  <2>6. e \in keys /\ k \in keys
    BY <1>6, <2>1, <2>2
  <2> QED BY <1>6, <2>1, <2>5, <2>6
<1> QED BY <1>6, <1>7, <1>8

\* The run and AWS do nothing by hand.
LEMMA RunLeavesByHand ==
    ASSUME LogInv, Run \/ Dispatch \/ UNCHANGED vars
    PROVE  ByHand' = ByHand
<1>1. CASE Silent
  BY <1>1, Prepared DEF Silent, ByHand
<1>2. CASE \E e : Enters(e) /\ e.by = "run"
  BY <1>2, Prepared DEF Enters, ByHand
<1>3. CASE Echoes
  BY <1>3, Prepared DEF Echoes, WithAwsEcho, Logged, ByHand
<1>4. Dispatch \/ UNCHANGED vars => Silent
  BY DEF Dispatch, vars, Silent
<1> QED BY <1>1, <1>2, <1>3, <1>4, RunEnters

\* Nothing done by hand is ever undone.
LEMMA ByHandGrows ==
    ASSUME LogInv, [Next]_vars
    PROVE  ByHand \subseteq ByHand'
  BY NextKeepsHistory, Prepared DEF ByHand

\* What a person does as root is done by hand.
LEMMA PersonDid ==
    ASSUME LogInv, NEW what, NEW home, PersonActs(what, home)
    PROVE  Did(what)'
<1> DEFINE e == Logged(what, "person", TRUE, home, Now)
<1>1. e \in history' /\ e.at = Now /\ e.by = "person" /\ e.root /\ e.what = what
  BY DEF PersonActs, Logged
<1> HIDE DEF e
<1>2. e \notin Preparation
  <2>1. Now \in Nat /\ Now > 3
    BY NowIsNew
  <2> QED BY <1>1, <2>1, Prepared
<1>3. e \in ByHand'
  BY <1>1, <1>2, Prepared DEF ByHand
<1> QED BY <1>1, <1>3 DEF Did

\* A step of the run preserves the evidence.
LEMMA RunKeepsEvidence ==
    ASSUME SealInv, Run
    PROVE  EvidenceInv'
<1>1. ByHand' = ByHand /\ Preparation' = Preparation /\ Preparation \subseteq history
  BY RunLeavesByHand, Prepared DEF SealInv, LogInv, HistoryInv
<1>2. rootKeys' \subseteq rootKeys /\ cfg' = cfg
  BY DEF Run, ResolveRepo, OpenSession, CreateOrganization, RemoveOrganization,
     RemoveOrganizationFails, CreateIdentities, WriteConsoleCredentials,
     AcceptTransfer, SkipTransfer, DescribeLock, EnforceLock, LaunchInstance,
     DeleteRootKey, Hold, Audit, SkipAudit, Release, WriteStatement, Stops, Goto, account,
     AnswerLost, Unseen
<1>3. ("second" \in rootKeys => Did("CreateAccessKey"))'
  BY <1>1, <1>2 DEF SealInv, EvidenceInv, Did
<1>4. (pc' \in AfterOrg \/ go') /\ org' = "managing"
        => (pc \in AfterOrg \/ go) /\ org = "managing"
  <2> USE DEF Cleared, Held, KeyGone, Locked, Sealing, AfterOrg, account, output, Goto, Stops
  <2>1. CASE ResolveRepo \/ OpenSession
    BY <2>1 DEF ResolveRepo, OpenSession
  <2>2. CASE CreateOrganization
    BY <2>2 DEF CreateOrganization, SealInv, StepsInv
  <2>3. CASE RemoveOrganization \/ RemoveOrganizationFails
    BY <2>3 DEF RemoveOrganization, RemoveOrganizationFails
  <2>4. CASE CreateIdentities
    BY <2>4 DEF CreateIdentities
  <2>5. CASE WriteConsoleCredentials \/ SkipTransfer
    BY <2>5 DEF WriteConsoleCredentials, SkipTransfer
  <2>6. CASE AcceptTransfer
    BY <2>6 DEF AcceptTransfer
  <2>7. CASE DescribeLock
    BY <2>7 DEF DescribeLock
  <2>8. CASE EnforceLock
    BY <2>8 DEF EnforceLock
  <2>9. CASE LaunchInstance
    BY <2>9 DEF LaunchInstance
  <2>10. CASE DeleteRootKey
    BY <2>10 DEF DeleteRootKey
  <2>11. CASE Hold \/ SkipAudit \/ Audit
    BY <2>11 DEF Hold, SkipAudit, Audit
  <2>12. CASE Release \/ WriteStatement
    BY <2>12 DEF Release, WriteStatement
  <2>13. CASE AnswerLost
    <3>1. pc' = pc /\ go' = go
      BY <2>13 DEF AnswerLost
    <3>2. org' = "managing" => org = "managing" \/ pc = "create_org"
      BY <2>13 DEF AnswerLost, Unseen
    <3> QED BY <3>1, <3>2 DEF SealInv, StepsInv
  <2> QED BY <2>1, <2>2, <2>3, <2>4, <2>5, <2>6, <2>7, <2>8, <2>9, <2>10, <2>11,
             <2>12, <2>13 DEF Run
<1>5. ((pc \in AfterOrg \/ go) /\ org = "managing" => Did("CreateOrganization"))'
  BY <1>1, <1>4 DEF SealInv, EvidenceInv, Did
<1>6. pc' \in Held => Hold \/ (pc \in Held /\ settled' = settled)
  BY DEF Held, Cleared, Run, ResolveRepo, OpenSession, CreateOrganization, RemoveOrganization,
     RemoveOrganizationFails, CreateIdentities, WriteConsoleCredentials,
     AcceptTransfer, SkipTransfer, DescribeLock, EnforceLock, LaunchInstance,
     DeleteRootKey, Audit, SkipAudit, Release, WriteStatement, Stops, Goto, AnswerLost
<1>7. (pc \in Held /\ ~cfg.bypassEventCheck =>
         /\ Preparation \subseteq settled
         /\ ByHand \subseteq settled \/ \E e \in ByHand \cap settled : e.what = "CreateAccessKey")'
  <2>1. ByHand \subseteq history
    BY DEF ByHand
  <2>2. CASE Hold
    BY <1>1, <1>2, <2>1, <2>2 DEF Hold, HoldTaken
  <2>3. CASE pc \in Held /\ settled' = settled
    BY <1>1, <1>2, <2>3 DEF SealInv, EvidenceInv
  <2> QED BY <1>6, <2>2, <2>3
<1>8. pc' \in Cleared \/ go' =>
        \/ (Audit /\ audit' = "passed") \/ cfg.bypassEventCheck
        \/ (pc \in Cleared \/ go) /\ startedAt' = startedAt
  BY DEF Cleared, SealInv, StepsInv, Run, ResolveRepo, OpenSession, CreateOrganization,
     RemoveOrganization,
     RemoveOrganizationFails, CreateIdentities, WriteConsoleCredentials,
     AcceptTransfer, SkipTransfer, DescribeLock, EnforceLock, LaunchInstance,
     DeleteRootKey, Hold, Audit, SkipAudit, Release, WriteStatement, Stops, Goto, output,
     AnswerLost
<1>9. ((pc \in Cleared \/ go) /\ ~cfg.bypassEventCheck =>
         \A e \in ByHand : e.what = "Billing" /\ e.at < startedAt)'
  <2>1. ASSUME Audit, audit' = "passed"
        PROVE  \A e \in ByHand : e.what = "Billing" /\ e.at < startedAt'
    <3>1. pc \in Held /\ ~cfg.bypassEventCheck /\ startedAt' = startedAt
      BY <2>1 DEF Audit, Held, Goto
    <3>2. PICK since \in SUBSET (history \ settled) :
            Judge({e \in settled \cup since : e.at > cfg.start}, own, startedAt)
      BY <2>1 DEF Audit
    <3>3. Preparation \subseteq settled
      BY <3>1 DEF SealInv, EvidenceInv
    <3>4. \A e \in ByHand \cap settled : e.what = "Billing" /\ e.at < startedAt
      BY <3>2, <3>3, JudgedIsClean DEF SealInv
    <3>5. ByHand \subseteq settled
      BY <3>1, <3>4 DEF SealInv, EvidenceInv
    <3> QED BY <3>1, <3>4, <3>5
  <2> QED BY <1>1, <1>2, <1>8, <2>1 DEF SealInv, EvidenceInv
<1> QED BY <1>3, <1>5, <1>7, <1>9 DEF EvidenceInv

\* So does a person's.
LEMMA PersonKeepsEvidence ==
    ASSUME SealInv, Person
    PROVE  EvidenceInv'
<1>1. /\ ByHand \subseteq ByHand' /\ Preparation' = Preparation
      /\ UNCHANGED <<cfg, pc, go, startedAt, settled, lock>>
  <2>1. ByHand \subseteq ByHand'
    BY ByHandGrows DEF SealInv, Next
  <2>2. UNCHANGED <<cfg, pc, go, startedAt, settled, lock>>
    BY DEF Person, ChangeBilling, ActElsewhere, MintSecondKey, DeleteSecondKey,
       OrganizeByHand, ChangeConsolePassword, PersonActs, account, output
  <2> QED BY <2>1, <2>2, Prepared
<1>2. ("second" \in rootKeys => Did("CreateAccessKey"))'
  <2>1. CASE MintSecondKey
    BY <2>1, PersonDid DEF MintSecondKey, SealInv
  <2>2. CASE rootKeys' \subseteq rootKeys
    BY <1>1, <2>2 DEF SealInv, EvidenceInv, Did
  <2> QED BY <2>1, <2>2 DEF Person, ChangeBilling, ActElsewhere, DeleteSecondKey,
     OrganizeByHand, ChangeConsolePassword, account
<1>3. ((pc \in AfterOrg \/ go) /\ org = "managing" => Did("CreateOrganization"))'
  <2>1. CASE OrganizeByHand
    BY <2>1, PersonDid DEF OrganizeByHand, SealInv
  <2>2. CASE org' = org
    BY <1>1, <2>2 DEF SealInv, EvidenceInv, Did
  <2> QED BY <2>1, <2>2 DEF Person, ChangeBilling, ActElsewhere, MintSecondKey, DeleteSecondKey,
     ChangeConsolePassword, account
<1>4. ASSUME pc \in Held \/ go, ~cfg.bypassEventCheck, ByHand' # ByHand
      PROVE  Did("CreateAccessKey")
  <2>1. lock = "enforced" /\ "given" \notin rootKeys
    BY <1>4 DEF SealInv, StepsInv, Held, KeyGone, Locked
  <2>2. RootReachable
    <3>1. CASE ChangeConsolePassword
      <4>1. ByHand' = ByHand
        BY <3>1, Prepared DEF ChangeConsolePassword, Logged, ByHand
      <4> QED BY <1>4, <4>1
    <3> QED BY <3>1 DEF Person, ChangeBilling, ActElsewhere, MintSecondKey, DeleteSecondKey,
       OrganizeByHand, PersonActs
  <2>3. "second" \in rootKeys
    BY <2>1, <2>2 DEF RootReachable, SealInv, LogInv, TypeOK
  <2> QED BY <2>3 DEF SealInv, EvidenceInv
<1>5. (pc \in Held /\ ~cfg.bypassEventCheck =>
         /\ Preparation \subseteq settled
         /\ ByHand \subseteq settled \/ \E e \in ByHand \cap settled : e.what = "CreateAccessKey")'
  <2> SUFFICES ASSUME pc \in Held, ~cfg.bypassEventCheck
               PROVE  /\ Preparation \subseteq settled
                      /\ \/ ByHand' \subseteq settled
                         \/ \E e \in ByHand' \cap settled : e.what = "CreateAccessKey"
    BY <1>1
  <2>1. CASE ByHand' = ByHand
    BY <2>1 DEF SealInv, EvidenceInv
  <2>2. CASE ByHand' # ByHand
    BY <1>1, <1>4, <2>2 DEF SealInv, EvidenceInv, Did
  <2> QED BY <2>1, <2>2
<1>6. ((pc \in Cleared \/ go) /\ ~cfg.bypassEventCheck =>
         \A e \in ByHand : e.what = "Billing" /\ e.at < startedAt)'
  <2> SUFFICES ASSUME pc \in Cleared \/ go, ~cfg.bypassEventCheck
               PROVE  \A e \in ByHand' : e.what = "Billing" /\ e.at < startedAt
    BY <1>1
  <2>1. CASE ByHand' = ByHand
    BY <2>1 DEF SealInv, EvidenceInv
  <2>2. CASE ByHand' # ByHand
    BY <1>4, <2>2 DEF SealInv, EvidenceInv, Did, Held
  <2> QED BY <2>1, <2>2
<1> QED BY <1>2, <1>3, <1>5, <1>6 DEF EvidenceInv

\* So the evidence holds throughout.
LEMMA SealHolds == Spec => []SealInv
<1>1. Init => EvidenceInv
  BY DEF Init, EvidenceInv, Cleared, Held, KeyGone, Locked, Sealing, AfterOrg
<1>2. SealInv /\ [Next]_vars => EvidenceInv'
  <2> SUFFICES ASSUME SealInv, [Next]_vars PROVE EvidenceInv'
    OBVIOUS
  <2>1. CASE Dispatch \/ UNCHANGED vars
    <3>1. ByHand' = ByHand /\ Preparation' = Preparation
      BY <2>1, RunLeavesByHand, Prepared DEF SealInv
    <3>2. UNCHANGED <<cfg, rootKeys, org, settled, startedAt, go>>
      BY <2>1 DEF Dispatch, vars, account, output
    <3>3. pc' = pc \/ pc' = "resolve"
      BY <2>1 DEF Dispatch, vars
    <3> QED BY <3>1, <3>2, <3>3 DEF SealInv, EvidenceInv, Did, Cleared, Held, KeyGone,
       Locked, Sealing, AfterOrg
  <2> QED BY <2>1, RunKeepsEvidence, PersonKeepsEvidence DEF Next
<1> QED BY <1>1, <1>2, LogHolds, StepsHold, PTL DEF Spec, SealInv

\* What the invariant says of an account that was audited and released.
LEMMA SealInvIsClean == SealInv => ReleasedIsClean
<1> SUFFICES ASSUME SealInv, go, ~cfg.bypassEventCheck
             PROVE  /\ rootKeys = {} /\ lock = "enforced" /\ org = "none" /\ cfg.emailHere
                    /\ \A e \in ByHand : e.what = "Billing" /\ e.at < startedAt
  BY DEF ReleasedIsClean
<1>1. \A e \in ByHand : e.what = "Billing" /\ e.at < startedAt
  BY DEF SealInv, EvidenceInv
<1>2. ~Did("CreateAccessKey") /\ ~Did("CreateOrganization")
  BY <1>1 DEF Did
<1>3. lock = "enforced" /\ "given" \notin rootKeys /\ cfg.emailHere
  BY DEF SealInv, StepsInv, Irreversible, Ready
<1> QED BY <1>1, <1>2, <1>3 DEF SealInv, EvidenceInv, LogInv, TypeOK

\* verdict.py judge over workflow/__main__.py: whatever a person does meanwhile,
\* whatever fails, however many runs and wherever in a second one starts, an
\* audited account is released only with root over: no key, no console, no
\* organization, and nothing done by hand but billing before the run.
THEOREM ReleaseIsClean == Spec => []ReleasedIsClean
BY SealInvIsClean, SealHolds, PTL

\* workflow/steps s8: the signed statement says of the run what the run did:
\* what it says it held and audited it did, and without a debug mark the
\* account it speaks of has its domain and is clean.
THEOREM StatementIsTrue == Spec => []StatementTellsTheTruth
<1>1. SealInv => StatementTellsTheTruth
  <2> SUFFICES ASSUME SealInv, statement.written
               PROVE  /\ go
                      /\ statement.held <=> audit = "passed"
                      /\ ~statement.debug => domainHere /\ audit = "passed" /\ ReleasedIsClean
    BY DEF StatementTellsTheTruth
  <2>1. /\ go
        /\ statement.held <=> ~cfg.bypassEventCheck
        /\ statement.debug <=> cfg.bypassEventCheck \/ cfg.bypassDomainTransfer
    BY DEF SealInv, StepsInv
  <2>2. audit = "passed" <=> ~cfg.bypassEventCheck
    BY <2>1 DEF SealInv, StepsInv
  <2>3. domainHere \/ cfg.bypassDomainTransfer
    BY <2>1 DEF SealInv, StepsInv, Irreversible, Ready
  <2> QED BY <2>1, <2>2, <2>3, SealInvIsClean
<1> QED BY <1>1, SealHolds, PTL

-----------------------------------------------------------------------------
(* The first run                                                           *)

BeforeLock == {"idle", "resolve", "session", "create_org", "remove_org"}

\* Up to the end of the first run nothing final stands before that run has
\* its own organization out of the way; an organization beside something
\* final was made by hand.
FirstRunInv ==
    runs <= 1 =>
        /\ runs = 0 => pc = "idle"
        /\ pc \in BeforeLock => ~Irreversible
        /\ Irreversible /\ org = "managing" => Did("CreateOrganization")

\* A step of the run that makes something final is one of the sealing steps,
\* and none of them makes an organization.
LEMMA RunIsFinalLate ==
    ASSUME Run
    PROVE  /\ Irreversible' => Irreversible \/ pc \in Sealing
           /\ org' = "managing" => org = "managing" \/ pc = "create_org"
           /\ pc = "create_org" => (Irreversible' <=> Irreversible)
           /\ pc' \in BeforeLock => pc \in BeforeLock
           /\ runs' = runs /\ pc # "idle"
<1> USE DEF Irreversible, BeforeLock, Sealing, Locked, KeyGone, Held, Cleared, account, output,
            Goto, Stops
<1>1. CASE ResolveRepo             BY <1>1 DEF ResolveRepo
<1>2. CASE OpenSession             BY <1>2 DEF OpenSession
<1>3. CASE CreateOrganization      BY <1>3 DEF CreateOrganization
<1>4. CASE RemoveOrganization      BY <1>4 DEF RemoveOrganization
<1>5. CASE RemoveOrganizationFails BY <1>5 DEF RemoveOrganizationFails
<1>6. CASE CreateIdentities
  <2>1. /\ pc = "identities" /\ pc' \in {"console_file", "ended"}
        /\ UNCHANGED <<org, runs, lock, instance, rootKeys>>
    BY <1>6 DEF CreateIdentities
  <2> QED BY <2>1
<1>7. CASE WriteConsoleCredentials BY <1>7 DEF WriteConsoleCredentials
<1>8. CASE AcceptTransfer
  <2>1. /\ pc = "transfer" /\ pc' \in {"statement_of_lock", "ended"}
        /\ UNCHANGED <<org, runs, lock, instance, rootKeys>>
    BY <1>8 DEF AcceptTransfer
  <2> QED BY <2>1
<1>9. CASE SkipTransfer            BY <1>9 DEF SkipTransfer
<1>10. CASE DescribeLock           BY <1>10 DEF DescribeLock
<1>11. CASE EnforceLock            BY <1>11 DEF EnforceLock
<1>12. CASE LaunchInstance         BY <1>12 DEF LaunchInstance
<1>13. CASE DeleteRootKey          BY <1>13 DEF DeleteRootKey
<1>14. CASE Hold                   BY <1>14 DEF Hold
<1>15. CASE Audit                  BY <1>15 DEF Audit
<1>16. CASE SkipAudit              BY <1>16 DEF SkipAudit
<1>17. CASE Release                BY <1>17 DEF Release
<1>18. CASE WriteStatement         BY <1>18 DEF WriteStatement
<1>19. CASE AnswerLost
  <2>1. UNCHANGED <<runs, pc>> /\ pc \in DOMAIN Asks
    BY <1>19 DEF AnswerLost
  <2>2. CASE UNCHANGED account
    BY <2>1, <2>2 DEF Asks
  <2>3. CASE Unseen
    BY <2>1, <2>3 DEF Unseen, Asks
  <2> QED BY <1>19, <2>2, <2>3 DEF AnswerLost
<1> QED BY <1>1, <1>2, <1>3, <1>4, <1>5, <1>6, <1>7, <1>8, <1>9, <1>10, <1>11,
           <1>12, <1>13, <1>14, <1>15, <1>16, <1>17, <1>18, <1>19 DEF Run

\* A person changes neither the lock, the instance nor the key in hand.
LEMMA PersonIsNeverFinal ==
    ASSUME Person
    PROVE  (Irreversible' <=> Irreversible) /\ UNCHANGED <<runs, pc>>
<1>1. UNCHANGED <<runs, pc, lock, instance>>
  BY DEF Person, ChangeBilling, ActElsewhere, MintSecondKey, DeleteSecondKey,
     OrganizeByHand, ChangeConsolePassword, PersonActs, account
<1>2. ("given" \in rootKeys') <=> ("given" \in rootKeys)
  BY DEF Person, ChangeBilling, ActElsewhere, MintSecondKey, DeleteSecondKey,
     OrganizeByHand, ChangeConsolePassword, account
<1> QED BY <1>1, <1>2 DEF Irreversible

\* So it holds throughout.
LEMMA FirstRunHolds == Spec => [](SealInv /\ FirstRunInv)
<1>1. Init => FirstRunInv
  BY DEF Init, FirstRunInv, Irreversible
<1>2. SealInv /\ FirstRunInv /\ [Next]_vars => FirstRunInv'
  <2> SUFFICES ASSUME SealInv, FirstRunInv, [Next]_vars PROVE FirstRunInv'
    OBVIOUS
  <2>1. CASE Dispatch
    <3>1. runs \in Nat /\ runs' = runs + 1 /\ pc' = "resolve" /\ UNCHANGED <<lock, instance, rootKeys>>
      BY <2>1, Bounds DEF Dispatch, account, SealInv, LogInv, TypeOK
    <3>2. runs' <= 1 => runs = 0 /\ ~Irreversible
      BY <3>1 DEF FirstRunInv, BeforeLock
    <3> QED BY <3>1, <3>2 DEF FirstRunInv, Irreversible
  <2>2. CASE Run
    <3>1. Did("CreateOrganization") => Did("CreateOrganization")'
      BY <2>2, RunLeavesByHand DEF Did, SealInv
    <3>2. ASSUME runs <= 1, Irreversible', org' = "managing" PROVE Did("CreateOrganization")
      <4>1. pc # "create_org" /\ org = "managing"
        BY <2>2, <3>2, RunIsFinalLate DEF FirstRunInv, BeforeLock
      <4> QED BY <2>2, <3>2, <4>1, RunIsFinalLate
              DEF FirstRunInv, SealInv, EvidenceInv, AfterOrg
    <3>3. pc' \in BeforeLock /\ runs <= 1 => ~Irreversible'
      <4>1. Sealing \cap BeforeLock = {}
        BY DEF Sealing, Locked, KeyGone, Held, Cleared, BeforeLock
      <4> QED BY <2>2, <4>1, RunIsFinalLate DEF FirstRunInv
    <3> QED BY <2>2, <3>1, <3>2, <3>3, RunIsFinalLate DEF FirstRunInv
  <2>3. CASE Person
    <3>1. Did("CreateOrganization") => Did("CreateOrganization")'
      BY <2>3, ByHandGrows DEF Did, SealInv, Next
    <3>2. org' = "managing" => org = "managing" \/ Did("CreateOrganization")'
      <4>1. CASE OrganizeByHand
        BY <4>1, PersonDid DEF OrganizeByHand, SealInv
      <4> QED BY <2>3, <4>1 DEF Person, ChangeBilling, ActElsewhere, MintSecondKey,
         DeleteSecondKey, ChangeConsolePassword, account
    <3> QED BY <2>3, <3>1, <3>2, PersonIsNeverFinal DEF FirstRunInv
  <2>4. CASE UNCHANGED vars
    <3>1. ByHand' = ByHand
      BY <2>4, RunLeavesByHand DEF SealInv
    <3> QED BY <2>4, <3>1 DEF vars, account, FirstRunInv, Irreversible, Did
  <2> QED BY <2>1, <2>2, <2>3, <2>4 DEF Next
<1> QED BY <1>1, <1>2, SealHolds, PTL DEF Spec

\* workflow/__main__.py run: in every run, nothing final stands in the account
\* but after the address was seen at the domain, the domain is in, and the
\* operator has a console user and knows its password.
THEOREM ReadyBeforeTheLock == Spec => [](Irreversible => Ready)
<1>1. SealInv => (Irreversible => Ready)
  BY DEF SealInv, StepsInv
<1> QED BY <1>1, SealHolds, PTL

\* And in the first run the probe organization is gone too, so an organization
\* beside something final is a person's.
THEOREM RefusesInTime == Spec => [](runs <= 1 => RefusesWhileItIsFree)
<1>1. SealInv /\ FirstRunInv => (runs <= 1 => RefusesWhileItIsFree)
  BY DEF SealInv, StepsInv, FirstRunInv, RefusesWhileItIsFree, Irreversible, Ready, Did, LogInv,
     TypeOK
<1> QED BY <1>1, FirstRunHolds, PTL

-----------------------------------------------------------------------------
(* Why the audit refuses                                                   *)

InRun == {"create_org", "remove_org"} \cup AfterOrg

\* The call that deleted the run's key: nothing any run did came after.
SealedLast(seal) ==
    /\ seal.what = "DeleteAccessKey" /\ seal.by = "run"
    /\ \A e \in history : e.by # "person" => e.at <= seal.at

\* The runs' part of the history: what this run did since it started has its
\* id kept, or went unanswered.
OwnPartInv ==
    /\ \A e \in history : e.by # "person" => e.root
    /\ pc \in InRun =>
         /\ startedAt > 3
         /\ \A e \in history :
              e.by = "run" /\ e.at >= startedAt => e.at \in own \cup unanswered
    /\ pc \in KeyGone => \E seal \in history :
         /\ SealedLast(seal)
         /\ pc \in Held /\ ~cfg.bypassEventCheck => seal \in settled

\* A cause for a refusal, in the history.
Cause(e) ==
    \/ e \in ByHand /\ (e.what = "Billing" => e.at >= startedAt)
    \/ e.at \in unanswered
    \/ e.by # "person" /\ e.at < startedAt

\* A refusal keeps its cause when the next run starts: that run has one of
\* this run's calls before it.
RefusedInv ==
    /\ audit # "none" => \E e \in history : e.by = "run"
    /\ audit = "refused" /\ cfg.start = 0 => \E e \in history : Cause(e)

CauseInv == SealInv /\ OwnPartInv /\ RefusedInv

\* What a step of the run adds is the run's, or AWS's for it: as root, new,
\* and, if it is the run's, with its id kept unless it went unanswered.
LEMMA RunAdds ==
    ASSUME LogInv, Run
    PROVE  /\ \A e \in history' \ history :
                /\ e.by # "person" /\ e.root /\ e.at \in Nat /\ e.at >= Now
                /\ e.by = "run" => e.at \in own' \cup unanswered'
           /\ history \subseteq history' /\ own \subseteq own' /\ unanswered \subseteq unanswered'
<1>1. own \subseteq own' /\ unanswered \subseteq unanswered'
  BY DEF Run, ResolveRepo, OpenSession, CreateOrganization, RemoveOrganization,
     RemoveOrganizationFails, CreateIdentities, WriteConsoleCredentials,
     AcceptTransfer, SkipTransfer, DescribeLock, EnforceLock, LaunchInstance, DeleteRootKey,
     Hold, Audit, SkipAudit, Release, WriteStatement, Stops, CallInVain, Call, CallWithAwsEcho,
     Recorded, AnswerLost
<1>2. Now \in Nat /\ history \subseteq history'
  BY NowIsNew, NextKeepsHistory DEF Next
<1>3. CASE Silent
  BY <1>1, <1>2, <1>3 DEF Silent
<1>4. CASE \E e : Entry(e) /\ Enters(e) /\ e.by = "run" /\ e.root
  BY <1>1, <1>2, <1>4 DEF Entry, Enters, Kept
<1>5. CASE Echoes
  BY <1>1, <1>2, <1>5 DEF Echoes, WithAwsEcho, Kept, Logged
<1> QED BY <1>3, <1>4, <1>5, RunEnters

\* Where a step of the run leads, as far as the history is concerned.
LEMMA RunLeads ==
    ASSUME Run
    PROVE  /\ pc' \in InRun => OpenSession \/ (pc \in InRun /\ startedAt' = startedAt)
           /\ OpenSession \/ startedAt' = startedAt
           /\ audit' # audit => Audit
           /\ cfg' = cfg
           /\ OpenSession => UNCHANGED <<history, audit>>
<1> USE DEF InRun, AfterOrg, Sealing, Locked, KeyGone, Held, Cleared, account, output, Goto, Stops
<1>1. CASE ResolveRepo             BY <1>1 DEF ResolveRepo
<1>2. CASE OpenSession             BY <1>2 DEF OpenSession
<1>3. CASE CreateOrganization
  <2>1. /\ pc = "create_org" /\ pc' \in {"remove_org", "ended"}
        /\ UNCHANGED <<cfg, startedAt, audit>>
    BY <1>3 DEF CreateOrganization
  <2> QED BY <2>1 DEF OpenSession
<1>4. CASE RemoveOrganization
  <2>1. /\ pc = "remove_org" /\ pc' \in {"identities", "ended"}
        /\ UNCHANGED <<cfg, startedAt, audit>>
    BY <1>4 DEF RemoveOrganization
  <2> QED BY <2>1 DEF OpenSession
<1>5. CASE RemoveOrganizationFails
  <2>1. /\ pc = "remove_org" /\ pc' \in {"remove_org", "ended"}
        /\ UNCHANGED <<cfg, startedAt, audit>>
    BY <1>5 DEF RemoveOrganizationFails
  <2> QED BY <2>1 DEF OpenSession
<1>6. CASE CreateIdentities
  <2>1. /\ pc = "identities" /\ pc' \in {"console_file", "ended"}
        /\ UNCHANGED <<cfg, startedAt, audit>>
    BY <1>6 DEF CreateIdentities
  <2> QED BY <2>1 DEF OpenSession
<1>7. CASE WriteConsoleCredentials BY <1>7 DEF WriteConsoleCredentials
<1>8. CASE AcceptTransfer
  <2>1. /\ pc = "transfer" /\ pc' \in {"statement_of_lock", "ended"}
        /\ UNCHANGED <<cfg, startedAt, audit>>
    BY <1>8 DEF AcceptTransfer
  <2> QED BY <2>1 DEF OpenSession
<1>9. CASE SkipTransfer            BY <1>9 DEF SkipTransfer
<1>10. CASE DescribeLock
  <2>1. /\ pc = "statement_of_lock" /\ pc' \in {"enforce_lock", "ended"}
        /\ UNCHANGED <<cfg, startedAt, audit>>
    BY <1>10 DEF DescribeLock
  <2> QED BY <2>1 DEF OpenSession
<1>11. CASE EnforceLock
  <2>1. /\ pc = "enforce_lock" /\ pc' \in {"launch", "ended"}
        /\ UNCHANGED <<cfg, startedAt, audit>>
    BY <1>11 DEF EnforceLock
  <2> QED BY <2>1 DEF OpenSession
<1>12. CASE LaunchInstance
  <2>1. /\ pc = "launch" /\ pc' \in {"launch", "delete_key", "ended"}
        /\ UNCHANGED <<cfg, startedAt, audit>>
    BY <1>12 DEF LaunchInstance
  <2> QED BY <2>1 DEF OpenSession
<1>13. CASE DeleteRootKey
  <2>1. /\ pc = "delete_key" /\ pc' \in {"hold", "ended"}
        /\ UNCHANGED <<cfg, startedAt, audit>>
    BY <1>13 DEF DeleteRootKey
  <2> QED BY <2>1 DEF OpenSession
<1>14. CASE Hold                   BY <1>14 DEF Hold
<1>15. CASE Audit
  <2>1. pc = "audit" /\ pc' \in {"release", "ended"} /\ UNCHANGED <<cfg, startedAt>>
    BY <1>15 DEF Audit
  <2> QED BY <1>15, <2>1 DEF OpenSession
<1>16. CASE SkipAudit              BY <1>16 DEF SkipAudit
<1>17. CASE Release                BY <1>17 DEF Release
<1>18. CASE WriteStatement         BY <1>18 DEF WriteStatement
<1>19. CASE AnswerLost
  <2>1. UNCHANGED <<cfg, pc, startedAt, audit>> /\ pc \in DOMAIN Asks
    BY <1>19 DEF AnswerLost
  <2> QED BY <2>1 DEF OpenSession, Asks
<1> QED BY <1>1, <1>2, <1>3, <1>4, <1>5, <1>6, <1>7, <1>8, <1>9, <1>10, <1>11,
           <1>12, <1>13, <1>14, <1>15, <1>16, <1>17, <1>18, <1>19 DEF Run

\* verdict.py judge: when the history holds no cause, the window is the whole
\* of it, and what is settled holds the sign-up and the deletion of the key,
\* any part of the rest makes the run pass.
LEMMA CauselessIsJudgedSo ==
    ASSUME LogInv, OwnPartInv, pc = "audit", ~cfg.bypassEventCheck, cfg.start = 0,
           Preparation \subseteq settled,
           \A e \in history : ~Cause(e),
           NEW since \in SUBSET (history \ settled)
    PROVE  Judge({e \in settled \cup since : e.at > cfg.start}, own, startedAt)
<1> DEFINE seen == {e \in settled \cup since : e.at > cfg.start}
           ordered == RootEvents({e \in seen : e.home})
           before  == {e \in ordered : e.at < startedAt}
           plan == Logged("SetAccountPlan", "person", TRUE, TRUE, 1)
           open == Logged("CreateAccount", "person", TRUE, TRUE, 2)
           key  == Logged("CreateAccessKey", "person", TRUE, TRUE, 3)
<1>1. /\ \A e \in history : e.at \in Nat \ {0} /\ e.root \in BOOLEAN
      /\ startedAt \in Nat /\ settled \subseteq history
  BY DEF LogInv, TypeOK, Event
<1>2. seen = settled \cup since /\ seen \subseteq history /\ Preparation \subseteq seen
  BY <1>1
<1>3. /\ Preparation = {plan, open, key}
      /\ plan.what = "SetAccountPlan" /\ plan.at = 1 /\ plan.root /\ plan.home
      /\ open.what = "CreateAccount" /\ open.at = 2 /\ open.root /\ open.home
      /\ key.what = "CreateAccessKey" /\ key.at = 3 /\ key.root /\ key.home
  BY DEF Preparation, Logged
<1> HIDE DEF plan, open, key, seen
<1>4. startedAt > 3
  BY DEF OwnPartInv, InRun, AfterOrg, Sealing, Locked, KeyGone, Held
<1>t. \A e \in history : e.by # "person" => e.at >= startedAt
  BY <1>1 DEF Cause
<1>5. /\ plan \in ordered /\ open \in ordered /\ key \in before
      /\ ordered \subseteq history /\ before \subseteq ordered
  BY <1>1, <1>2, <1>3, <1>4 DEF RootEvents
<1>6. ASSUME NEW e \in history, e.root
      PROVE  \/ e \in Preparation
             \/ e.what = "Billing" /\ e.at < startedAt /\ e.home
             \/ e.by # "person" /\ e.at >= startedAt /\ e.home
  <2>1. CASE e.by = "person" /\ e \notin Preparation
    <3>1. e \in ByHand
      BY <1>6, <2>1 DEF ByHand
    <3>2. e.what = "Billing" /\ ~(e.at >= startedAt)
      BY <3>1 DEF Cause
    <3> QED BY <1>1, <3>2 DEF LogInv, HistoryInv
  <2>2. CASE e.by # "person"
    BY <1>t, <2>2 DEF LogInv, HistoryInv
  <2> QED BY <2>1, <2>2
<1>7. OpensTheAccount(ordered)
  <2>1. ASSUME NEW e \in ordered PROVE e.at >= 1 /\ (e.at = 1 => e = plan)
    BY <1>1, <1>3, <1>5 DEF LogInv, HistoryInv
  <2>2. IsFirst(plan, ordered)
    BY <1>3, <1>5, <2>1 DEF IsFirst
  <2>3. open # plan
    BY <1>3
  <2>4. \A e \in ordered \ {plan} : e.at >= 2
    BY <1>1, <1>5, <2>1
  <2>5. IsFirst(open, ordered \ {plan})
    BY <1>3, <1>5, <2>3, <2>4 DEF IsFirst
  <2> QED BY <1>3, <1>5, <2>2, <2>5 DEF OpensTheAccount
<1>8. PreflightOnly(before)
  <2>1. ASSUME NEW e \in before PROVE e \in Preparation \/ e.what = "Billing"
    BY <1>1, <1>5, <1>6 DEF RootEvents
  <2>2. \A e \in before : e.what \in TrustedNames \cup PreflightNames
    BY <1>3, <2>1 DEF TrustedNames, PreflightNames
  <2>3. {e \in before : e.what = "CreateAccessKey"} = {key}
    BY <1>3, <1>5, <2>1
  <2>4. Cardinality({key}) = 1
    BY FS_Singleton
  <2> HIDE DEF before
  <2> QED BY <2>2, <2>3, <2>4 DEF PreflightOnly
<1>9. AllAttributed({e \in ordered : e.at >= startedAt}, own)
  <2> SUFFICES ASSUME NEW e \in ordered, e.at >= startedAt
               PROVE  e.at \in own \/ e.aws
    BY DEF AllAttributed, MadeByAws
  <2>1. e \in history /\ e.root
    BY <1>5 DEF RootEvents
  <2>2. e.by # "person"
    <3>1. e \notin Preparation
      BY <1>3, <1>4, <1>1
    <3>2. ~(e.at < startedAt)
      BY <1>1, <2>1
    <3> QED BY <1>6, <2>1, <3>1, <3>2
  <2>3. e.by \in {"person", "run", "aws"}
    BY <2>1 DEF LogInv, TypeOK, Event, Actors
  <2>4. e.at \notin unanswered
    BY <2>1 DEF Cause
  <2>5. e.by = "run" => e.at \in own
    BY <2>1, <2>4 DEF OwnPartInv, InRun, AfterOrg, Sealing, Locked, KeyGone, Held
  <2> QED BY <2>1, <2>2, <2>3, <2>5 DEF LogInv, HistoryInv
<1>10. RootEndedWithItsKey(ordered)
  <2>1. PICK seal \in history : SealedLast(seal) /\ seal \in settled
    BY DEF OwnPartInv, KeyGone, Held
  <2>2. seal \in ordered /\ seal.at >= startedAt
    <3>1. seal.root /\ seal.home /\ seal.by = "run"
      BY <2>1 DEF SealedLast, OwnPartInv, LogInv, HistoryInv
    <3> QED BY <1>2, <1>t, <2>1, <3>1 DEF RootEvents
  <2>3. ASSUME NEW e \in ordered PROVE e.at <= seal.at
    <3>1. e \in history /\ e.root
      BY <1>5 DEF RootEvents
    <3>2. CASE e.by # "person"
      BY <2>1, <3>1, <3>2 DEF SealedLast
    <3>3. CASE e.at < startedAt
      BY <1>1, <2>1, <2>2, <3>1, <3>3
    <3>4. e \in Preparation => e.at < startedAt
      BY <1>1, <1>3, <1>4
    <3> QED BY <1>6, <3>1, <3>2, <3>3, <3>4
  <2> QED BY <2>1, <2>2, <2>3 DEF SealedLast, RootEndedWithItsKey
<1>11. RootEvents({e \in seen : ~e.home}) = {}
  <2>1. \A e \in Preparation : e.home
    BY <1>3
  <2> QED BY <1>2, <1>6, <2>1 DEF RootEvents
<1>12. Judge(seen, own, startedAt)
  BY <1>7, <1>8, <1>9, <1>10, <1>11 DEF Judge
<1> QED BY <1>12 DEF seen

\* The run keeps its part of the history.
LEMMA RunKeepsOwnPart ==
    ASSUME CauseInv, Run
    PROVE  OwnPartInv'
<1>1. /\ LogInv /\ OwnPartInv /\ Now \in Nat /\ Now > 3
      /\ \A e \in history : e.at \in Nat /\ e.at < Now
  BY NowIsNew DEF CauseInv, SealInv, LogInv, TypeOK, Event
<1>2. (\A e \in history : e.by # "person" => e.root)'
  BY <1>1, RunAdds DEF OwnPartInv
<1>3. (pc \in InRun =>
         /\ startedAt > 3
         /\ \A e \in history :
              e.by = "run" /\ e.at >= startedAt => e.at \in own \cup unanswered)'
  <2>1. CASE OpenSession
    <3>1. PICK late \in {0, 1} : startedAt' = Now + late
      BY <2>1 DEF OpenSession
    <3>2. \A e \in history' : ~(e.at >= startedAt')
      BY <1>1, <2>1, <3>1, RunLeads
    <3> QED BY <1>1, <3>1, <3>2
  <2>2. CASE pc \in InRun /\ startedAt' = startedAt
    BY <1>1, <2>2, RunAdds DEF OwnPartInv
  <2> HIDE DEF InRun
  <2> QED BY <2>1, <2>2, RunLeads
<1>4. (pc \in KeyGone => \E seal \in history :
         /\ SealedLast(seal)
         /\ pc \in Held /\ ~cfg.bypassEventCheck => seal \in settled)'
  <2>1. CASE DeleteRootKey /\ pc' # "ended"
    <3>0. PICK seal : seal = Logged("DeleteAccessKey", "run", TRUE, TRUE, Now)
      OBVIOUS
    <3>1. history' = history \cup {seal} /\ pc' = "hold"
      BY <2>1, <3>0 DEF DeleteRootKey, Call, Goto, Stops
    <3>2. seal.what = "DeleteAccessKey" /\ seal.by = "run" /\ seal.at = Now
      BY <3>0 DEF Logged
    <3>3. SealedLast(seal)'
      BY <1>1, <3>1, <3>2 DEF SealedLast
    <3> QED BY <3>1, <3>3 DEF Held, Cleared
  <2>2. pc' \in KeyGone =>
          \/ DeleteRootKey /\ pc' # "ended"
          \/ pc \in KeyGone /\ history' = history /\ ((settled' = settled /\ pc \in Held) \/ Hold)
    <3> USE DEF KeyGone, Held, Cleared, Goto, Stops
    <3>1. CASE ResolveRepo \/ OpenSession
      BY <3>1 DEF ResolveRepo, OpenSession
    <3>2. CASE CreateOrganization \/ RemoveOrganization \/ RemoveOrganizationFails
      BY <3>2 DEF CreateOrganization, RemoveOrganization, RemoveOrganizationFails
    <3>3. CASE CreateIdentities \/ AcceptTransfer
      <4>1. pc' \in {"console_file", "statement_of_lock", "ended"}
        BY <3>3 DEF CreateIdentities, AcceptTransfer
      <4> QED BY <4>1
    <3>9. CASE WriteConsoleCredentials \/ SkipTransfer
      BY <3>9 DEF WriteConsoleCredentials, SkipTransfer
    <3>4. CASE DescribeLock \/ EnforceLock \/ LaunchInstance
      <4>1. pc' \in {"enforce_lock", "launch", "delete_key", "ended"}
        BY <3>4 DEF DescribeLock, EnforceLock, LaunchInstance
      <4> QED BY <4>1
    <3>5. CASE DeleteRootKey
      BY <3>5 DEF DeleteRootKey
    <3>6. CASE Hold
      BY <3>6 DEF Hold
    <3>7. CASE Audit
      BY <3>7 DEF Audit
    <3>8. CASE SkipAudit \/ Release \/ WriteStatement
      BY <3>8 DEF SkipAudit, Release, WriteStatement
    <3>10. CASE AnswerLost
      BY <3>10 DEF AnswerLost, Asks
    <3> QED BY <3>1, <3>2, <3>3, <3>4, <3>5, <3>6, <3>7, <3>8, <3>9, <3>10 DEF Run
  <2>3. CASE pc \in KeyGone /\ history' = history /\ settled' = settled /\ pc \in Held
    BY <1>1, <2>3, RunLeads DEF OwnPartInv, SealedLast
  <2>4. CASE pc \in KeyGone /\ history' = history /\ Hold
    <3>1. PICK seal \in history : SealedLast(seal)
      BY <1>1, <2>4 DEF OwnPartInv
    <3>2. SealedLast(seal)' /\ cfg' = cfg
      BY <2>4, <3>1, RunLeads DEF SealedLast
    <3>3. ~cfg.bypassEventCheck => seal \in settled'
      BY <2>4, <3>1 DEF Hold, HoldTaken
    <3> QED BY <2>4, <3>1, <3>2, <3>3
  <2> HIDE DEF KeyGone, Held
  <2> QED BY <2>1, <2>2, <2>3, <2>4
<1> QED BY <1>2, <1>3, <1>4 DEF OwnPartInv

\* A cause stays one as long as the run it was found against is the last.
LEMMA CauseStays ==
    ASSUME LogInv, [Next]_vars, startedAt' = startedAt, unanswered \subseteq unanswered',
           NEW e \in history, Cause(e)
    PROVE  e \in history' /\ Cause(e)'
<1>1. ByHand \subseteq ByHand' /\ history \subseteq history'
  BY ByHandGrows, NextKeepsHistory
<1> QED BY <1>1 DEF Cause

\* A run that refuses its account has a cause to name.
LEMMA RunRefusesWithCause ==
    ASSUME CauseInv, Run
    PROVE  RefusedInv'
<1>1. /\ LogInv /\ StepsInv /\ EvidenceInv /\ OwnPartInv /\ RefusedInv
      /\ history \subseteq history' /\ unanswered \subseteq unanswered'
      /\ cfg' = cfg /\ [Next]_vars
  BY RunAdds, RunLeads DEF CauseInv, SealInv, Next
<1>2. CASE OpenSession
  <2>1. PICK late \in {0, 1} : startedAt' = Now + late
    BY <1>2 DEF OpenSession
  <2>2. \A e \in history : e.at < startedAt'
    <3>1. Now \in Nat /\ \A e \in history : e.at \in Nat /\ e.at < Now
      BY <1>1, NowIsNew DEF LogInv, TypeOK, Event
    <3> QED BY <2>1, <3>1
  <2>3. audit' = audit /\ history' = history
    BY <1>2, RunLeads
  <2>4. audit # "none" => \E e \in history' : e.by = "run" /\ e.at < startedAt'
    BY <1>1, <2>2, <2>3 DEF RefusedInv
  <2> QED BY <2>3, <2>4 DEF RefusedInv, Cause
<1>3. CASE Audit
  <2>1. /\ UNCHANGED <<history, own, unanswered, startedAt, cfg>>
        /\ pc = "audit" /\ ~cfg.bypassEventCheck
    BY <1>3 DEF Audit, Goto
  <2>2. \E e \in history : e.by = "run"
    BY <1>1, <2>1 DEF OwnPartInv, KeyGone, Held, SealedLast
  <2>3. ASSUME audit' = "refused", cfg.start = 0, \A e \in history : ~Cause(e)
        PROVE  FALSE
    <3>1. Preparation \subseteq settled
      BY <1>1, <2>1 DEF EvidenceInv, Held
    <3>2. \A since \in SUBSET (history \ settled) :
            Judge({e \in settled \cup since : e.at > cfg.start}, own, startedAt)
      BY <1>1, <2>1, <2>3, <3>1, CauselessIsJudgedSo
    <3>3. audit' = "passed"
      BY <1>3, <3>2 DEF Audit
    <3> QED BY <2>3, <3>3
  <2>4. \A e \in history : Cause(e) => e \in history' /\ Cause(e)'
    BY <1>1, <2>1, CauseStays
  <2> QED BY <2>1, <2>2, <2>3, <2>4 DEF RefusedInv
<1>4. CASE ~OpenSession /\ ~Audit
  <2>1. audit' = audit /\ startedAt' = startedAt
    BY <1>4, RunLeads
  <2>2. \A e \in history : Cause(e) => e \in history' /\ Cause(e)'
    BY <1>1, <2>1, CauseStays
  <2> QED BY <1>1, <2>1, <2>2 DEF RefusedInv
<1> QED BY <1>2, <1>3, <1>4

\* A person adds nothing to the runs' part of the history, and what is in it
\* stays; a dispatch only forgets the ids.
LEMMA OthersKeepCause ==
    ASSUME CauseInv, Person \/ Dispatch \/ UNCHANGED vars
    PROVE  OwnPartInv' /\ RefusedInv'
<1>1. /\ LogInv /\ OwnPartInv /\ RefusedInv /\ [Next]_vars
      /\ history \subseteq history'
  BY NextKeepsHistory DEF CauseInv, SealInv, Next
<1>2. UNCHANGED <<cfg, startedAt, settled, audit, unanswered>>
  BY DEF Person, ChangeBilling, ActElsewhere, MintSecondKey, DeleteSecondKey,
     OrganizeByHand, ChangeConsolePassword, PersonActs, Dispatch, vars, output
<1>3. \A e \in history' \ history : e.by = "person"
  <2>1. CASE Person
    <3>1. PICK e : Enters(e) /\ e.by = "person"
      BY <1>1, <2>1, PersonEnters
    <3> QED BY <3>1 DEF Enters
  <2> QED BY <2>1 DEF Dispatch, vars
<1>4. \/ pc' = pc /\ own' = own
      \/ pc' = "resolve"
  BY DEF Person, ChangeBilling, ActElsewhere, MintSecondKey, DeleteSecondKey,
     OrganizeByHand, ChangeConsolePassword, PersonActs, Dispatch, vars
<1>5. OwnPartInv'
  <2>1. "resolve" \notin InRun /\ "resolve" \notin KeyGone
    BY DEF InRun, AfterOrg, Sealing, Locked, KeyGone, Held, Cleared
  <2>2. (\A e \in history : e.by # "person" => e.root)'
    BY <1>1, <1>3 DEF OwnPartInv
  <2>3. CASE pc' = pc /\ own' = own
    BY <1>1, <1>2, <1>3, <2>2, <2>3 DEF OwnPartInv, SealedLast
  <2>4. CASE pc' = "resolve"
    BY <2>1, <2>2, <2>4 DEF OwnPartInv
  <2> QED BY <1>4, <2>3, <2>4
<1>6. RefusedInv'
  <2>1. \A e \in history : Cause(e) => e \in history' /\ Cause(e)'
    BY <1>1, <1>2, CauseStays
  <2> QED BY <1>1, <1>2, <2>1 DEF RefusedInv
<1> QED BY <1>5, <1>6

\* So it holds throughout.
LEMMA CauseHolds == Spec => []CauseInv
<1>1. Init => OwnPartInv /\ RefusedInv
  <2> SUFFICES ASSUME Init PROVE OwnPartInv /\ RefusedInv
    OBVIOUS
  <2>1. \A e \in history : e.by = "person"
    BY Prepared DEF Init
  <2> QED BY <2>1 DEF Init, OwnPartInv, RefusedInv,
     InRun, AfterOrg, Sealing, Locked, KeyGone, Held, Cleared
<1>2. CauseInv /\ [Next]_vars => OwnPartInv' /\ RefusedInv'
  BY RunKeepsOwnPart, RunRefusesWithCause, OthersKeepCause DEF Next
<1> QED BY <1>1, <1>2, SealHolds, PTL DEF Spec, CauseInv

\* verdict.py judge, for any number of runs, wherever in a second they start
\* and whatever answers are lost: a refusal over the whole history has a cause
\* in it, and there are no others than the three that RefusalHasACause names.
THEOREM RefusalsHaveACause == Spec => []RefusalHasACause
<1>1. CauseInv => RefusalHasACause
  BY DEF CauseInv, RefusedInv, Cause, RefusalHasACause
<1> QED BY <1>1, CauseHolds, PTL
=============================================================================
