------------------------------ MODULE SealRun ------------------------------
(***************************************************************************)
(* Phase A, workflow/__main__.py: one sealing run after another against    *)
(* one account, the steps of workflow/steps in the order run() calls them, *)
(* each of which may fail, beside the person the account was opened by,    *)
(* who may act in it as root for as long as root can be reached.           *)
(*                                                                         *)
(* Every write call leaves an event in the account's history; the run      *)
(* keeps the request ids of its own.  The audit reads that history as far  *)
(* as it has been delivered and hands it to Verdict.                       *)
(***************************************************************************)
EXTENDS Verdict

CONSTANTS
    MaxRuns,         \* runs dispatched against the account
    MaxUnforeseen,   \* bound: what a person does beside the prescribed
                     \* preparation, and attempts whose answer is lost
    RemoveAttempts,  \* config.ORGANIZATION_DELETE_ATTEMPTS
    LaunchAttempts,  \* tries at RunInstances before the deadline passes
    MaxUnanswered,   \* bound: those attempts alone
    SplitInSecond    \* whether a run may start inside a second: event times
                     \* have whole seconds, the run's own clock microseconds

ASSUME SealAssumption ==
    /\ {MaxRuns, MaxUnforeseen, MaxUnanswered} \subseteq Nat
    /\ {RemoveAttempts, LaunchAttempts} \subseteq Nat \ {0}
    /\ SplitInSecond \in BOOLEAN

VARIABLES
    cfg,         \* the inputs of the dispatch, and where the root email is
    pc,          \* the step the run takes next
    runs,        \* runs dispatched so far
    tries,       \* attempts at the call being retried
    startedAt,   \* workflow_started_at
    own,         \* own_request_ids
    unanswered,  \* the runs' attempts that were logged and never answered
    org,         \* "none", or that the account manages an organization
    identities,  \* "none", "some" or "all" of what s1 creates
    consoleFile, \* console.json holds the console credentials
    domainHere,  \* the domain was transferred into this account
    lock,        \* "open", "described" (a statement) or "enforced"
    rootKeys,    \* root access keys that work
    instance,    \* the setup instance waits on the go flag
    history,     \* every write event of the account
    settled,     \* those certain to be delivered by the time of the audit
    audit,       \* "none", "passed" or "refused"
    go,          \* the go flag
    statement,   \* what statement.json says
    personEvents

\* What the steps of the run change in the account, beside the history.
account == <<org, identities, consoleFile, domainHere, lock, rootKeys, instance>>
output  == <<audit, go, statement>>
vars == <<cfg, pc, runs, tries, startedAt, own, unanswered, account, history,
          settled, output, personEvents>>

Steps == {"idle", "resolve", "session", "create_org", "remove_org",
          "identities", "console_file", "transfer", "statement_of_lock",
          "enforce_lock", "launch", "delete_key", "hold", "audit", "release",
          "write_statement", "ended"}

NoStatement == [written |-> FALSE, debug |-> FALSE, held |-> FALSE]

Config == [emailHere : BOOLEAN, bypassEventCheck : BOOLEAN,
           bypassDomainTransfer : BOOLEAN, start : {0, 2}]

TypeOK ==
    /\ cfg \in Config
    /\ pc \in Steps
    /\ runs \in 0..MaxRuns
    /\ tries \in (0..RemoveAttempts) \cup (0..LaunchAttempts)
    /\ startedAt \in Nat
    /\ own \subseteq Nat /\ unanswered \subseteq Nat
    /\ org \in {"none", "managing"}
    /\ identities \in {"none", "some", "all"}
    /\ {consoleFile, domainHere, instance, go} \subseteq BOOLEAN
    /\ lock \in {"open", "described", "enforced"}
    /\ rootKeys \subseteq {"given", "second"}
    /\ history \subseteq Event
    /\ settled \subseteq history
    /\ audit \in {"none", "passed", "refused"}
    /\ statement \in [written : BOOLEAN, debug : BOOLEAN, held : BOOLEAN]
    /\ personEvents \in 0..MaxUnforeseen

-----------------------------------------------------------------------------
(* Event history, and the ids the run keeps. *)

Now == Cardinality(history) + 1

Unforeseen == personEvents + Cardinality(unanswered)

Logged(what, by, root, home, at) ==
    [what |-> what, at |-> at, by |-> by, root |-> root, home |-> home,
     aws |-> by = "aws"]

\* Signing up, and minting the key the run is handed.
Preparation ==
    {Logged("SetAccountPlan", "person", TRUE, TRUE, 1),
     Logged("CreateAccount", "person", TRUE, TRUE, 2),
     Logged("CreateAccessKey", "person", TRUE, TRUE, 3)}

\* As it would be on after-call: only the attempt that ended the call.
RecordedOnSuccess(ids, at, succeeded) == IF succeeded THEN ids \cup {at} ELSE ids

\* _recorder: the id of every attempt that was answered, refused ones too.
\* One whose answer never comes has no response to read an id from.
Recorded(ids, at, succeeded) == ids \cup {at}

\* An attempt of the run's as root that AWS answered, one way or the other.
\* What botocore had tried before, within the same call, is AnswerLost.
Call(what, succeeded) ==
    /\ history' = history \cup {Logged(what, "run", TRUE, TRUE, Now)}
    /\ own' = Recorded(own, Now, succeeded)
    /\ UNCHANGED unanswered

\* AWS answers CreateOrganization with calls of its own, made as root.
WithAwsEcho(what) ==
    history' = history \cup {Logged(what, "run", TRUE, TRUE, Now),
                             Logged("Other", "aws", TRUE, TRUE, Now + 1)}

CallWithAwsEcho(what) ==
    /\ WithAwsEcho(what)
    /\ own' = Recorded(own, Now, TRUE)
    /\ UNCHANGED unanswered

\* A call that ends in an error: refused by AWS, or its last attempt not
\* answered or never arrived.  A key that is gone is nobody's, so what is
\* tried with it is not in this account's history.
CallInVain(what) ==
    \/ "given" \in rootKeys /\ Call(what, FALSE)
    \/ UNCHANGED <<history, own, unanswered>>

Goto(step) == pc' = step /\ UNCHANGED <<cfg, runs, startedAt, settled, personEvents>>

\* An exception nobody catches ends the run: nothing is undone.
Stops(what) ==
    /\ CallInVain(what)
    /\ Goto("ended")
    /\ UNCHANGED <<tries, account, output>>
-----------------------------------------------------------------------------
(* The run, step by step. *)

\* The operator dispatches the workflow, the first time or once more.
Dispatch ==
    /\ pc = "idle" \/ (pc = "ended" /\ ~statement.written)
    /\ runs < MaxRuns
    /\ runs' = runs + 1
    /\ pc' = "resolve"
    /\ own' = {}
    /\ tries' = 0
    /\ UNCHANGED <<cfg, startedAt, unanswered, account, history, settled, output,
                   personEvents>>

\* A bad pin fails before anything touches the account.
ResolveRepo ==
    /\ pc = "resolve"
    /\ Goto("session") \/ Goto("ended")
    /\ UNCHANGED <<tries, own, unanswered, history, account, output>>

\* The root session, the moment the history is split at, and GetCallerIdentity,
\* which needs the key and is a read.  A run that starts inside a second dates
\* itself later than an event of that same second.
OpenSession ==
    /\ pc = "session"
    /\ \E late \in IF SplitInSecond THEN {0, 1} ELSE {0} : startedAt' = Now + late
    /\ pc' \in {"ended"} \cup (IF "given" \in rootKeys THEN {"create_org"} ELSE {})
    /\ UNCHANGED <<cfg, runs, tries, own, unanswered, history, settled, account, output, personEvents>>

\* s0: an account in an organization is refused; one that is not makes its own.
CreateOrganization ==
    /\ pc = "create_org"
    /\ \/ /\ org = "none" /\ "given" \in rootKeys
          /\ CallWithAwsEcho("CreateOrganization")
          /\ org' = "managing"
          /\ tries' = 1
          /\ Goto("remove_org")
          /\ UNCHANGED <<identities, consoleFile, domainHere, lock, rootKeys, instance, output>>
       \/ Stops("CreateOrganization")

\* Removed before either answer is given.
RemoveOrganization ==
    /\ pc = "remove_org"
    /\ "given" \in rootKeys /\ org = "managing"
    /\ Call("DeleteOrganization", TRUE)
    /\ org' = "none"
    /\ tries' = 0
    /\ Goto(IF cfg.emailHere THEN "identities" ELSE "ended")
    /\ UNCHANGED <<identities, consoleFile, domainHere, lock, rootKeys, instance, output>>

\* As it would be if a leftover were only warned about.
CarriesOnWithTheLeftover ==
    /\ pc = "remove_org"
    /\ CallInVain("DeleteOrganization")
    /\ \/ tries < RemoveAttempts /\ tries' = tries + 1 /\ Goto("remove_org")
       \/ tries = RemoveAttempts /\ tries' = 0 /\ Goto("identities")
    /\ UNCHANGED <<account, output>>

\* As it would be with one attempt too many.
RemovesOnceTooOften ==
    /\ pc = "remove_org"
    /\ CallInVain("DeleteOrganization")
    /\ \/ tries <= RemoveAttempts /\ tries' = tries + 1 /\ Goto("remove_org")
       \/ tries > RemoveAttempts /\ tries' = 0 /\ Goto("ended")
    /\ UNCHANGED <<account, output>>

\* _remove asks again; out of attempts, _left_behind stops the run.
RemoveOrganizationFails ==
    /\ pc = "remove_org"
    /\ CallInVain("DeleteOrganization")
    /\ \/ tries < RemoveAttempts /\ tries' = tries + 1 /\ Goto("remove_org")
       \/ tries = RemoveAttempts /\ tries' = 0 /\ Goto("ended")
    /\ UNCHANGED <<account, output>>

\* s1: create_role refuses a name that is taken, so leftovers stop a run.
CreateIdentities ==
    /\ pc = "identities"
    /\ \/ /\ identities = "none" /\ "given" \in rootKeys
          /\ Call("CreateAccessKey", TRUE)
          /\ \/ identities' = "all" /\ Goto("console_file")
             \/ identities' = "some" /\ Goto("ended")
          /\ UNCHANGED <<tries, org, consoleFile, domainHere, lock, rootKeys, instance, output>>
       \/ Stops("Other")

WriteConsoleCredentials ==
    /\ pc = "console_file"
    /\ consoleFile' = TRUE
    /\ Goto("transfer")
    /\ UNCHANGED <<tries, own, unanswered, history, org, identities, domainHere, lock, rootKeys,
                   instance, output>>

\* s3: accepted and polled to SUCCESSFUL, or a failure that stops the run.
AcceptTransfer ==
    /\ pc = "transfer"
    /\ ~cfg.bypassDomainTransfer
    /\ \/ /\ "given" \in rootKeys
          /\ Call("Other", TRUE)
          /\ domainHere' = TRUE
          /\ Goto("statement_of_lock")
          /\ UNCHANGED <<tries, org, identities, consoleFile, lock, rootKeys, instance, output>>
       \/ Stops("Other")

SkipTransfer ==
    /\ pc = "transfer"
    /\ cfg.bypassDomainTransfer
    /\ Goto("statement_of_lock")
    /\ UNCHANGED <<tries, own, unanswered, history, account, output>>

\* s4, the first of two calls: a statement alone locks nothing.
DescribeLock ==
    /\ pc = "statement_of_lock"
    /\ \/ /\ "given" \in rootKeys
          /\ Call("Other", TRUE)
          /\ lock' = IF lock = "open" THEN "described" ELSE lock
          /\ Goto("enforce_lock")
          /\ UNCHANGED <<tries, org, identities, consoleFile, domainHere, rootKeys, instance,
                         output>>
       \/ Stops("Other")

EnforceLock ==
    /\ pc = "enforce_lock"
    /\ \/ /\ "given" \in rootKeys
          /\ Call("Other", TRUE)
          /\ lock' = "enforced"
          /\ tries' = 1
          /\ Goto("launch")
          /\ UNCHANGED <<org, identities, consoleFile, domainHere, rootKeys, instance, output>>
       \/ Stops("Other")

\* s2: RunInstances, again while the instance profile is not yet visible.
LaunchInstance ==
    /\ pc = "launch"
    /\ \/ /\ "given" \in rootKeys
          /\ Call("Other", TRUE)
          /\ instance' = TRUE
          /\ tries' = 0
          /\ Goto("delete_key")
          /\ UNCHANGED <<org, identities, consoleFile, domainHere, lock, rootKeys, output>>
       \/ /\ tries < LaunchAttempts
          /\ Call("Other", FALSE)
          /\ tries' = tries + 1
          /\ Goto("launch")
          /\ UNCHANGED <<account, output>>
       \/ Stops("Other")

\* s5: only the key the run was given.
DeleteRootKey ==
    /\ pc = "delete_key"
    /\ \/ /\ "given" \in rootKeys
          /\ Call("DeleteAccessKey", TRUE)
          /\ rootKeys' = rootKeys \ {"given"}
          /\ Goto("hold")
          /\ UNCHANGED <<tries, org, identities, consoleFile, domainHere, lock, instance, output>>
       \/ Stops("DeleteAccessKey")

\* An attempt at a call reaches AWS, is logged, and its answer is lost: nothing
\* records it, and botocore makes the call again (workflow/clients.py).  AWS may
\* have done what was asked, or some of it, which the next attempt then finds
\* done.
Asks == [create_org        |-> "CreateOrganization",
         remove_org        |-> "DeleteOrganization",
         identities        |-> "CreateAccessKey",
         transfer          |-> "Other",
         statement_of_lock |-> "Other",
         enforce_lock      |-> "Other",
         launch            |-> "Other",
         delete_key        |-> "DeleteAccessKey"]

\* What such an attempt may have changed, if it changed anything.
Unseen ==
    \/ /\ pc = "create_org" /\ org = "none" /\ org' = "managing"
       /\ UNCHANGED <<identities, consoleFile, domainHere, lock, rootKeys, instance>>
    \/ /\ pc = "remove_org" /\ org' = "none"
       /\ UNCHANGED <<identities, consoleFile, domainHere, lock, rootKeys, instance>>
    \/ /\ pc = "identities" /\ identities = "none" /\ identities' = "some"
       /\ UNCHANGED <<org, consoleFile, domainHere, lock, rootKeys, instance>>
    \/ /\ pc = "transfer" /\ domainHere' = TRUE
       /\ UNCHANGED <<org, identities, consoleFile, lock, rootKeys, instance>>
    \/ /\ \/ pc = "statement_of_lock" /\ lock' = IF lock = "open" THEN "described" ELSE lock
          \/ pc = "enforce_lock" /\ lock' = "enforced"
       /\ UNCHANGED <<org, identities, consoleFile, domainHere, rootKeys, instance>>
    \/ /\ pc = "launch" /\ instance' = TRUE
       /\ UNCHANGED <<org, identities, consoleFile, domainHere, lock, rootKeys>>
    \/ /\ pc = "delete_key" /\ rootKeys' = rootKeys \ {"given"}
       /\ UNCHANGED <<org, identities, consoleFile, domainHere, lock, instance>>

AnswerLost ==
    /\ pc \in DOMAIN Asks /\ "given" \in rootKeys
    /\ pc = "transfer" => ~cfg.bypassDomainTransfer
    /\ Cardinality(unanswered) < MaxUnanswered /\ Unforeseen < MaxUnforeseen
    /\ unanswered' = unanswered \cup {Now}
    /\ \/ /\ history' = history \cup {Logged(Asks[pc], "run", TRUE, TRUE, Now)}
          /\ UNCHANGED account \/ (pc # "create_org" /\ Unseen)
       \/ pc = "create_org" /\ WithAwsEcho(Asks[pc]) /\ Unseen
    /\ UNCHANGED <<cfg, pc, runs, tries, startedAt, own, settled, output, personEvents>>

HoldTaken == ~cfg.bypassEventCheck

\* s6: the hold is longer than delivery takes, so what came before it is
\* delivered by its end; a run that will not audit holds for nothing.
Hold ==
    /\ pc = "hold"
    /\ settled' = IF HoldTaken THEN history ELSE settled
    /\ pc' = "audit"
    /\ UNCHANGED <<cfg, runs, tries, startedAt, own, unanswered, history, account, output, personEvents>>

\* s7: what is settled is read, and any part of what came since.
Audit ==
    /\ pc = "audit"
    /\ ~cfg.bypassEventCheck
    /\ \E since \in SUBSET (history \ settled) :
         LET seen == {e \in settled \cup since : e.at > cfg.start}
         IN  IF Judge(seen, own, startedAt)
             THEN audit' = "passed" /\ Goto("release")
             ELSE audit' = "refused" /\ Goto("ended")
    /\ UNCHANGED <<tries, own, unanswered, history, account, go, statement>>

SkipAudit ==
    /\ pc = "audit"
    /\ cfg.bypassEventCheck
    /\ Goto("release")
    /\ UNCHANGED <<tries, own, unanswered, history, account, output>>

\* s8: with the starter's key, so no root event.
Release ==
    /\ pc = "release"
    /\ \/ go' = TRUE /\ Goto("write_statement")
       \/ go' = go /\ Goto("ended")
    /\ UNCHANGED <<tries, own, unanswered, history, account, audit, statement>>

\* As it would be with a bypass that does not flip debug.
DebugOnAuditOnly == cfg.bypassEventCheck

\* debug is derived from the bypasses, holdSeconds from the hold taken.
Debug == cfg.bypassEventCheck \/ cfg.bypassDomainTransfer

WriteStatement ==
    /\ pc = "write_statement"
    /\ statement' = [written |-> TRUE, debug |-> Debug, held |-> HoldTaken]
    /\ Goto("ended")
    /\ UNCHANGED <<tries, own, unanswered, history, account, audit, go>>
-----------------------------------------------------------------------------
(* The person, for as long as root answers to one. *)

RootReachable == rootKeys # {} \/ lock # "enforced"

PersonActs(what, home) ==
    /\ RootReachable
    /\ Unforeseen < MaxUnforeseen
    /\ history' = history \cup {Logged(what, "person", TRUE, home, Now)}
    /\ personEvents' = personEvents + 1
    /\ UNCHANGED <<cfg, pc, runs, tries, startedAt, own, unanswered, settled, output>>

ChangeBilling ==
    /\ lock # "enforced"
    /\ PersonActs("Billing", TRUE)
    /\ UNCHANGED account

ActElsewhere ==
    /\ \E home \in BOOLEAN : PersonActs("Other", home)
    /\ UNCHANGED account

MintSecondKey ==
    /\ PersonActs("CreateAccessKey", TRUE)
    /\ rootKeys' = rootKeys \cup {"second"}
    /\ UNCHANGED <<org, identities, consoleFile, domainHere, lock, instance>>

DeleteSecondKey ==
    /\ "second" \in rootKeys
    /\ PersonActs("DeleteAccessKey", TRUE)
    /\ rootKeys' = rootKeys \ {"second"}
    /\ UNCHANGED <<org, identities, consoleFile, domainHere, lock, instance>>

\* By hand: made before the run, or deleted as the run's refusal asks for.
OrganizeByHand ==
    /\ \/ org = "none" /\ org' = "managing" /\ PersonActs("CreateOrganization", TRUE)
       \/ org = "managing" /\ org' = "none" /\ PersonActs("DeleteOrganization", TRUE)
    /\ UNCHANGED <<identities, consoleFile, domainHere, lock, rootKeys, instance>>

\* The console user may change its own password; that is not root acting.
ChangeConsolePassword ==
    /\ identities = "all" /\ consoleFile
    /\ Unforeseen < MaxUnforeseen
    /\ history' = history \cup {Logged("Other", "person", FALSE, TRUE, Now)}
    /\ personEvents' = personEvents + 1
    /\ UNCHANGED <<cfg, pc, runs, tries, startedAt, own, unanswered, account, settled, output>>

-----------------------------------------------------------------------------
Init ==
    /\ cfg \in Config
    /\ pc = "idle" /\ runs = 0 /\ tries = 0 /\ startedAt = 0
    /\ own = {} /\ unanswered = {}
    /\ org = "none" /\ identities = "none" /\ lock = "open"
    /\ rootKeys = {"given"}
    /\ consoleFile = FALSE /\ domainHere = FALSE /\ instance = FALSE /\ go = FALSE
    /\ history = Preparation /\ settled = {}
    /\ audit = "none" /\ statement = NoStatement
    /\ personEvents = 0

Run ==
    \/ ResolveRepo \/ OpenSession
    \/ CreateOrganization \/ RemoveOrganization \/ RemoveOrganizationFails
    \/ CreateIdentities \/ WriteConsoleCredentials
    \/ AcceptTransfer \/ SkipTransfer
    \/ DescribeLock \/ EnforceLock \/ LaunchInstance \/ DeleteRootKey
    \/ AnswerLost
    \/ Hold \/ Audit \/ SkipAudit \/ Release \/ WriteStatement

Person ==
    \/ ChangeBilling \/ ActElsewhere \/ MintSecondKey \/ DeleteSecondKey
    \/ OrganizeByHand \/ ChangeConsolePassword

Next == Dispatch \/ Run \/ Person

Spec == Init /\ [][Next]_vars

-----------------------------------------------------------------------------
(* What sealing promises. *)

ByHand == {e \in history \ Preparation : e.by = "person" /\ e.root}

\* An account is released to run itself only when root is over -- no key
\* works, the console is shut, no organization reaches in, the mailbox is at
\* the domain -- and nobody used root for anything but signing up, billing and
\* minting the one key.  It is the audit, not the order of the steps, that
\* notices the second key or the organization a person made meanwhile.
ReleasedIsClean ==
    go /\ ~cfg.bypassEventCheck =>
        /\ rootKeys = {} /\ lock = "enforced" /\ org = "none" /\ cfg.emailHere
        /\ \A e \in ByHand : e.what = "Billing" /\ e.at < startedAt

\* A refusal with the whole history in its window, and by then with the root
\* key gone, is never without a cause in that history: what a person did by
\* hand beyond signing up and early billing; an attempt of a run's that AWS
\* logged and never answered; or an event of a run's, or of AWS's for it, that
\* is dated before this run started -- an earlier run's, or its own when it
\* started inside the second of its first call (workflow/clients.py _recorder,
\* workflow/__main__.py workflow_started_at, verdict.py judge).
RefusalHasACause ==
    audit = "refused" /\ cfg.start = 0 =>
        \E e \in history :
            \/ e \in ByHand /\ (e.what = "Billing" => e.at >= startedAt)
            \/ e.at \in unanswered
            \/ e.by # "person" /\ e.at < startedAt

\* s0_verify_email.py: of a run that stopped before the lock, that "the account
\* can simply be put right and the run dispatched again".  So where no answer
\* is lost and no run starts inside a second, a run that is audited is refused
\* only for what a person did beyond what the procedure asks for.
AuditBlamesOnlyOthers ==
    audit = "refused" /\ cfg.start = 0 =>
        \E e \in ByHand : /\ e.what # "DeleteOrganization"
                          /\ e.what = "Billing" => runs > 1 \/ e.at >= startedAt

\* Everything that can refuse has had its say before the first step that
\* cannot be taken back: the address is at the domain, the run's own
\* organization is gone again, the domain is here, and the operator has a way
\* to look at the account.
RefusesWhileItIsFree ==
    lock # "open" \/ instance \/ "given" \notin rootKeys =>
        /\ cfg.emailHere
        /\ domainHere \/ cfg.bypassDomainTransfer
        /\ identities = "all" /\ consoleFile
        /\ org = "none" \/ \E e \in ByHand : e.what = "CreateOrganization"

\* What the signed statement says of the run is what the run did.
StatementTellsTheTruth ==
    statement.written =>
        /\ go
        /\ statement.held <=> audit = "passed"
        /\ ~statement.debug => domainHere /\ audit = "passed" /\ ReleasedIsClean
=============================================================================
