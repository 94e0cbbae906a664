# A verification of enclavize in TLA+

enclavize takes an AWS account out of human control. A GitHub workflow (phase A)
seals the account: it removes what could still reach in, launches one instance,
deletes the root key, waits, audits the account's own event history and signs a
statement. The instance (phase B) then builds the account's services. Afterwards
two state machines apply new versions of one application, for good, with nobody
left to repair anything. Beside them stands a teardown, which empties the account of
a rehearsal again. The modules here model these four, TLC checks them on small
instances, and TLAPS proves the main properties for every size.

## The system

| Part | State it keeps | Operations | Talks to |
|---|---|---|---|
| receive machine (`enclavize/logic/statemachine.py`) | parameters `current`, `pending`, `ready`; the timer; the apply record and index in S3 | one Express execution per request: refuse, launch the first version, or arrange a preparer, a note and a timer | check machine through those; preparing instance by launching it |
| check machine (`enclavize/logic/checkmachine.py`) | the same parameters, timer and records | one Standard execution per firing: nothing, clear a stale word, or claim the timer and switch | receive machine; preparer through `ready` and `StopInstances` |
| preparing instance (the application's own) | whether it has spoken | write `ready` once, shut down, hang | check machine |
| dashboard (`setup/assets/dashboard/app.js`) | the manifest, month and records on show | load, open the next month, name what serves | reads what both machines write |
| sealing run (`workflow/__main__.py`, `workflow/steps`) | the request ids of its calls, the statement | organization probe, identities, domain transfer, console lock, launch, root key deletion, hold, audit, release | the account; the person who still holds root; the instance through the go flag |
| audit verdict (`enclavize/logic/verdict.py`) | none | judge an event history | sealing run |
| publication (`workflow/publish_proof.py`) | none | wait for the bucket, put two objects | setup program, through the bucket |
| setup program (`setup/__main__.py`) | what it has built, the policy boundary, `status.json` | the bring-up in order, five waits with deadlines, retire the starter, terminate itself | publication; AWS in its own time; the dashboard |
| teardown (`scripts/dismantle.py`, repeated by `scripts/cleanup.py`) | none: each pass goes by what the account lists | deletes in an order AWS imposes, carrying on after a failure; then a survey of what still stands | AWS, which refuses; the setup instance and the machines, while they still run |
| policies, names, GitHub lookup, adapters | none | pure functions or single calls | the rest |

What is hard about it:

* **Executions overlap.** Nothing in the API keeps two requests apart, the timer
  can start a check while one runs, and every AWS call is a step of its own. The
  only lock in the system is the delete of the timer.
* **Memory is a few parameters.** Each is read in one Task and relied on in
  another, sometimes a week later, and deletes take whatever is there by then.
* **Any Task may fail**, and its Catch leads somewhere; nobody can log in and fix
  what that leaves behind.
* **Words and time race.** A preparer may say ready before, during or after the
  timeout that gives up on it, or be an old one of the same commit.
* **The run cannot be taken back.** Past the console lock and the root key, a
  refusal costs the account, so everything that can refuse should have done so.
* **Evidence is late and coarse.** Event history is delivered out of order, in
  whole seconds, and retries leave ids of their own.
* **Two programs meet in a bucket** and never talk; each waits with a deadline,
  and one of them revokes the other's key.
* **A call may take effect and count as failed**, its answer being lost. A retry
  then makes it again, a Catch unwinds from a state the machine does not know of.
* **The teardown works against a moving account.** What it deletes is in use by
  something else, or being made again behind it, and it knows only what listings
  show it, by a domain it works out anew each pass.

`PROJECT.json` lists each of these at the line where it bites, under `hazards`.

## Modules

| Module | Models | Correspondence |
|---|---|---|
| `ApplyState` | what both machines share | a variable per parameter, the timer, the record statuses, the instances; an apply is numbered by its stamp, which is its `at` and its `recordKey` |
| `ReceiveMachine` | `statemachine.py` up to `RecordApply` | an action per Task with the Pass and Choice states around it; `ReceiveCatch` is the table of Catches; `receive[a]` is the state the execution is in |
| `CheckMachine` | `checkmachine.py` | likewise; `held`, `heard`, `found` are what an execution has read; `ClaimIt` deletes the timer or finds it gone |
| `ApplySwitch` | the two composed, with the timer's firings, preparers and time | `Next` interleaves any number of executions; properties and fairness are here |
| `Switching` | abstract: one version serves, at most one later one waits | `ApplySwitch` implements it: `serving` is `current`, `waiting` is the apply the timer stands for or the one a check holds between its claim and writing `current` |
| `MCApplySwitch` | TLC's sets of faults and the symmetry | |
| `ApplySwitchProofs` | theorems about `ApplySwitch`: types, one launch, one note | |
| `ApplyPromiseProofs` | extends it: `ApplySwitch` implements `Switching` | |
| `ApplyWordProofs` | extends that: whose word a switch begins on | |
| `ApplyRecordProofs` | extends that: the dashboard's records | |
| `ApplyIndex` | `RecordApply` to `Done`, the check machine's `WriteCurrent` and its writes over the records, `app.js` | a month is a number, a shard a set of applies, a listing its first `PageSize` keys; `switching` is the record a switch writes next; the page reads its records one by one |
| `ApplyIndexProofs` | theorems about `ApplyIndex` | |
| `Verdict` | `verdict.py` | `Judge` and its rules over a set of events |
| `SealRun` | `workflow/__main__.py` and its steps, run after run, with a person beside | `pc` is the next step; each step succeeds, fails before its effect or half-way; every attempt AWS answers leaves an event and its id, one whose answer is lost an event only (`AnswerLost`) |
| `SealRunProofs` | theorems about `SealRun` | |
| `BringUp` | `publish_proof.py` against `setup/__main__.py` | `wpc` and `spc` are the next steps; deadlines count down in ticks |
| `BringUpProofs` | theorems about `BringUp` | |
| `Teardown` | `dismantle.py`, `cleanup.py`, with the setup program, the machines and the application still at work | `standing` is the set of what exists, `at` the next step of `After`; `Targets` is what a step deletes, `Protects` what AWS refuses, `MadeFrom` what a create call needs |
| `TeardownProofs` | theorems about `Teardown` | |

`PROJECT.json` maps every definition to its source lines. Definitions that
begin "Mutant of" or "As it would be" are what a plausible mistake in the code
would make of the definition they stand before; no specification uses them. They show
that each checked property can fail.

## What is checked

A run that passes:

| Run | Instance | Shows |
|---|---|---|
| `switch` | 3 applies of one commit, 2 checks at once, one late firing, no failing call, fairness | every accepted apply is served (`AcceptedIsServed`), the timer always goes (`TimerGoes`), a switch begins only on the own preparer's word or the timeout (`OwnWordOrTimeout`), no preparer is up when the new version starts, the records tell the truth |
| `switch_faults` | 3 applies of 2 commits, 2 checks, every Task may fail but `UnwindSchedule`, every call may lose its answer but the launches and the making of the timer, a preparer may speak before its receive has answered | launched once, no note overwritten, each switch replaces what its preparer was launched from, a timer always has a note, and the machines implement `Switching` (`KeepsThePromise`) |
| `index` | 3 applies over 2 months, 2 keys a listing, two executions at their bookkeeping side by side, a page reading record by record, and one failure: of a bookkeeping Task, of a check before or at one of its writes, or of a read | an execution that has the bookkeeping to itself heals the index (`HealedByTheLast`) and drops nothing out of the history unseen (`HistoryStaysReachable`), a page nothing was switched under names what serves when the newest month holds it marked launched (`NamesTheServing`) |
| `seal` | one run, started on a second or inside one, 2 attempts at each retried call, 2 events nobody asked for: acts of a person, or one of them an attempt that is not answered | what is released is clean (`ReleasedIsClean`), no refusal of the audit is without a cause in the history (`RefusalHasACause`), refusals come while they are free, the statement is true |
| `bring_up` | ticks of 900 s: signing 3, bucket wait 1, delegation 2, certificate 3, distributions 4, proof wait 4; any call may fail | no upload is turned away, the word about the proof stays true, "complete" is final, both programs end |
| `teardown` | a seal or bring-up stopped after any step, with its instance or without, before, between or during applies; one thing goes wrong: a call that fails or comes too late, an instance somebody stops, a resource that others of its kind keep off a listing's first page | a clean report leaves nothing but what its listings could not show, whoever was at work (`CleanMeansGone`), one pass is enough when nothing fails and nobody builds (`QuietPassIsEnough`), two are enough whoever builds (`SecondPassIsEnough`), the lock never enforces what is gone (`NeverEnforcesNothing`), and repeating comes to a clean report (`EndsClean`) |

`OwnWordOrTimeout` needs that no call fails (`stale_word`): with failures the
weaker `CommitsWordOrTimeout` is what holds, and is what `switch_faults` checks.

A run that finds the code at odds with its own words (each is quoted in
`PROJECT.json`, `findings`):

| Run | What happens |
|---|---|
| `two_receives` | two overlapping requests both pass `Busy?`; the second overwrites the first one's note while its timer stands |
| `unwind_fails` | the preparer's launch fails, then the delete of the timer fails: the note goes, the timer stays, every later apply is refused |
| `stale_word` | a preparer `StopPreparer` failed to stop speaks late, for a newer apply of the same commit |
| `index_serving` | the version serving was applied in an earlier month than the one preparing: the page says "nothing yet" |
| `seal_again` | a run stops before anything irreversible with a call as root behind it, a refused `CreateOrganization` or the organization it could not remove; the run is dispatched again, and its audit refuses the account for the first run's own calls |
| `failed_bring_up` | a wait for AWS runs out: the instance destroys itself and the starter's key stays |

### Bounds

Three applies are a first one, one that replaces it and one that replaces that:
enough for an apply to meet what is left of the last. Two checks overlap in every
pair of Tasks; a third would find the same timer and the same parameters. Two
commits tell "another apply of this commit" from "of another". `MaxReceiving` and
`MaxLateStarts` are 1 and 0 or 1 where the properties need it, which is what the
violation run `two_receives` and the theorems' assumption `Serial` say. In
`ApplyIndex` a month can hold more records than a listing returns (3 against 2),
and an apply can straddle the month's end. Two executions are at their
bookkeeping at once (`MaxWriting`): an older listing is then written over a newer
one, and the properties are about what an execution that had the bookkeeping to
itself (`alone`) leaves; a third would only repeat what the second does. In `SealRun` two attempts tell a first from a last
one, and two events let a person make a second key or an organization and remove
it again, or do one thing beside an attempt whose answer is lost. In `BringUp` a tick is the greatest common unit of the configured
deadlines; theorems remove the bounds there. In `Teardown` one thing
goes wrong over all passes (`MaxFailures`), which is every single failure at every step of every
pass; the theorems are about any number, and so about an unseen role that goes on making
things, which takes two. In `ApplyIndex` one call fails, at every point where one can;
its theorems are about any number too. What is made, used and removed in pairs (two users, two
machines, two distributions and so on) is one resource, so one of a pair failing
is the pair failing.

`CHECK_DEADLOCK` is off in every run: each of these systems may come to rest, with no
request, no run or nothing left to build.

### What the models assume

* In the two machines a Task that fails had no effect, or had its effect and lost
  its answer (`ReceiveLost`, `CheckLost`). Elsewhere a failed call had none, but for
  `delete_user`, which may fail after the keys are gone, and the identities of a
  sealing run, which may be made in part. Reads of `listExecutions` and `getSchedule` are consistent.
* `TimePasses` waits for the receive execution of that apply: the timeout is a
  week, an Express execution lasts at most five minutes.
* `EagerPreparer` says whether a preparer may speak before its receive execution
  answered, minutes later; `RecordsTellTheTruth` needs that it does not, because
  that execution writes its record last. `NoPreparerBesideTheNew` needs that no call fails.
* `SealRun`: the hold is at least as long as delivery takes. The order of an
  event stands for its time and its request id. An attempt whose answer is lost is
  logged and not recorded; AWS may have done what it asked, and the call is made again. The window starts before the
  account's first event or after it (`start`). A person can act as root while a root
  key works or the lock is not enforced. CloudTrail's whole seconds are not in the
  repository. Membership in someone else's organization and the lock's
  replication delay are left out.
* A preparer that `StopPreparer` terminates is gone with the call, though EC2 answers
  while the instance is still shutting down: `NoPreparerBesideTheNew` says that the
  call has succeeded before the launch, not that the machine is down by then.
* Launches are answered, and so is the making of the timer. `run_instances` names no
  client token and is retried, so a launch whose answer is lost is made again: TLC
  finds `LaunchedOnce` and `RecordsTellTheTruth` violated with `LaunchNew` in `CheckLost`
  or `ReceiveLost`, and the theorems show that nothing else of the machines' safety
  depends on it. (`LaunchPreparer` is in neither: an apply has one preparer.) With
  `CreateSchedule` in `ReceiveLost`, `TimerHasPending` and `TimerGoes` are violated:
  its Catch goes to `UnwindPending`, past `UnwindSchedule`. With `ClaimIt` in `CheckLost`,
  `AcceptedIsServed` is: the timer is gone, the check ends, and nobody serves the
  apply. The liveness properties are checked with no failing call.
* A firing that starts after the timer's delete (`MaxLateStarts`) is harmless while no
  call fails: `switch` has one. Together with a check that ended after its claim
  and left the note, it is not: the late check reads the old note, a new
  request is arranged meanwhile, the check takes the new timer and launches the old
  apply again. TLC finds `LaunchedOnce` and `KeepsThePromise` violated with one
  late start and `WriteCurrent` in `CheckFaults`, hence the second part of `Serial`.
* `ApplyIndex` follows the page to the newest month it opens; the earlier months a
  visitor clicks open add rows and leave what serves as it is. A switch read in its
  middle, a record of what serves that cannot be read, or an `UpdateRecord` that failed
  makes the page say "nothing yet" (or name what was replaced, if that was not retired):
  `NamesTheServing` is about the pages that were spared these. A record the check
  machine makes after the last listing of its month is in no shard until an apply of
  that month comes: `HealedByTheLast` is about those there when the apply was accepted.
* `BringUp`: a poll looks many times a tick and an upload takes no time worth
  counting; signing takes less than the instance waits for the proof
  (`SignMax < ProofPollMax`). That is the margin `setup/proof.py` speaks of, and
  the one assumption about time.
* `Teardown`: a distribution not redeployed, or a certificate not released, in time
  counts as a failure. The survey is one step; it lists the identities first, and
  from then on nobody can make what it lists later but with an identity it could not
  show. A pass that goes by another
  domain, which it may once the zone that names the enclave's is gone, counts as
  one in which something failed; so does one that finds an instance stopping, and one
  that deletes by a listing whose first page does not show all of the enclave's
  (`beyond`; `OnePageDeletes` and `OnePageSurvey` are the listings nobody pages). An
  instance that was stopped may be started again, but does not run the setup program
  again. With the API beyond its page the plan is refused in every pass, so
  `EndsClean` is about the other cases. A role the application made carries the
  enclave's boundary and is not the teardown's to remove; the operator may, before
  a pass. An execution in flight outlives its machine, not its role.

### Fairness

`ApplySwitch`: weak fairness on each Task of an execution that has started (Step
Functions runs it on), on the timer's firings while it stands (EventBridge), and
on time. Nothing is assumed of requests, nor of preparers: a preparer may hang.
`BringUp`: weak fairness on the steps of the runner and the instance that are not
failures, and on the clock; no failure is ever forced. Nothing is assumed of AWS,
which may never finish a delegation, a certificate or a distribution. `Init`
starts before the go flag, which is why `BothEnd` is conditional on it.
`Teardown`: weak fairness on the steps of a pass, strong fairness on the operator
beginning one by the right domain with the application's role removed: he repeats
it until its survey finds nothing, for nothing can be sealed before (`report`). Nothing is assumed of
those who build and launch meanwhile; `EndsClean` holds because their identities go.

## What is proved

Every safety property that a passing run checks is also a theorem, for every value
of the constants, under the assumptions named here. There are three kinds. A named
predicate on the bounds and the sets of faults (`Serial`, `LaunchesAnswered`,
`UnwindsTheTimer`, `StopsThePreparer`, `SwitchIsFinished`) is one the code does not enforce; a violation run or "What the
models assume" shows what is lost without it. The `ASSUME`s of the modules are types of
constants and, in `BringUp`, the margin `SignMax < ProofPollMax`. And a condition in
the theorem itself (`runs <= 1`, `Timely`) is a state it speaks of.

### The apply machinery

For every number of applies, commits and check executions, whatever set of Tasks
may fail and whatever set may lose its answer. The modules build on one another.

* `ApplySwitchProofs`. `TypeCorrect`, with no assumption. Under `Serial` (receive
  executions do not overlap and no firing comes after the timer's delete):
  `SerialNeverOverwrites` and `SerialReplacesPrevious`, and, if moreover no answer to a
  launch of a version is lost (`LaunchesAnswered`), `SerialLaunchesOnce`; `two_receives`
  shows what is lost without the first part of `Serial`. And, if the delete in `UnwindSchedule` does not fail and the answer to
  `CreateSchedule` is not lost (`UnwindsTheTimer`), `SerialTimerHasPending`; `unwind_fails`
  shows the other case.
* `ApplyPromiseProofs`. Under `Serial`, `SerialKeepsThePromise`: the two machines
  implement `Switching`.
* `ApplyWordProofs`. `WordOrTimeout` (`CommitsWordOrTimeout`), with no assumption.
  Under `Serial` and `StopsThePreparer` (the Tasks that find and stop the preparer do
  not fail, the answer of the claim is not lost): `SerialOwnWord` (`OwnWordOrTimeout`)
  and `SerialNoPreparerBeside`. `stale_word` shows what one failed stop does.
* `ApplyRecordProofs`. Under `Serial` and `SwitchIsFinished`: `SerialRecordsTellTheTruth`.
  A check has no way back beyond its claim, so a Task that ends it there leaves the
  records as they were, for good; `SwitchIsFinished` names those Tasks. Of the
  others any may fail. With any one of the things that `StopsThePreparer` or
  `SwitchIsFinished` excludes put back, alone, TLC finds a property violated that is
  proved under it.

The invariant of the first is `IInv`. Its core is `Alone`: a receive execution that has
passed `Busy?` and has not yet made the timer has the account to itself. It saw no
timer (`SawNoTimer`) and then no check; no check starts without a timer; and only it
makes one (`OneReceiving`). From there `TimerIsForFresh` says that the note under
a standing timer is of an apply never launched, accepted over what serves now;
`SwitchersHoldTheLock` hands that to the one check whose delete found the timer,
and `OneSwitcher` says there is only one. `LaunchedOnce` alone is not inductive: a
second claimant of an older note would launch again.

The refinement adds `OrderInv`: applies are stamped in order and only the latest can
be receiving (`ReceivesTheLatest`), so what waits is later than what serves; and
all the notes the checks hold are of one apply, the one `pending` names (`OneNote`).
Without that, `Waiting` would jump from one apply to another when a timer goes.
`WordInv` follows a word from who spoke it to who heard it: nobody's commit changes,
and a check decides by what it read itself. `OwnInv` says that at most one preparer is up,
that of the apply in flight (`UpIsTheOne`), and so no word but its own is about
(`WordIsForIt`). `RecordInv` says of each record that is not yet right who is about to
correct it (`RecordsFollow`). One step of each proof treats one action.

### The index

`ApplyIndexProofs`, for every number of applies, months and keys a listing, any
number of executions side by side, and any number of failures: `IndexTypeCorrect`,
`IndexHeals` (`HealedByTheLast`), and the action properties `HistoryStays` and
`PageNamesTheServing`. Beside the types the invariant says that what a listing holds,
and what an execution found, is stored (`ListingInv`), and of an execution alone at its
bookkeeping what it has in hand, state by state, of all it owes the index: its own
record and those it found (`AloneOK`, `Due`). One that was not alone owes nothing: it may
write an older listing, and `HealedByTheLast` speaks of the next. Nothing later than
what serves is marked launched (`ServesInv`), and what serves only moves on to a later
apply (`ServingMovesOn`); so a page that finds the same version serving as when it
opened the month has read what that version's record said all along (`PageInv`).

### The sealing run

`SealRunProofs`, for every number of runs, attempts and acts of a person:
`SealTypeCorrect`, `ReleaseIsClean`, `StatementIsTrue`, and `ReadyBeforeTheLock`, the
part of `RefusesWhileItIsFree` that also repeated runs keep. The invariant has three
parts. `HistoryInv` says that the history is a log, its length the latest time in it.
`StepsInv` says what stands in the account when a run has come to each step.
`EvidenceInv` ties the account to the history: whatever a person left in it, a second
key or an organization, left an event. Once the console is locked and the given key
gone, only a second key can still act as root. That is why the audit is sound although it
reads the past and the person goes on acting: either it reads all that was done by
hand, or it reads the making of that key, and refuses.

`RefusalsHaveACause` (`RefusalHasACause`) lists everything an audit that reads the
whole history can hold against an account: what a person did by hand, an attempt no
answer came to, an event of a run dated before the one audited started. The proof
goes by `OwnPartInv`, that a run's later events are recorded or unanswered, and that
the deletion of the key is the last of them. The last two causes are the run's own doing,
with the root key gone: a call that reached AWS without an answer, an earlier run's
calls (`seal_again`), or a start inside the second of the first call.

Of an account's first run (`runs <= 1`), `RefusesInTime` (`RefusesWhileItIsFree`). A
repeated run may find the console locked by the one before, and an organization
that that one had left.

### The bring-up

`BringUpProofs`, for every choice of the deadlines under `SignMax < ProofPollMax`:
`TypeCorrect`, `NothingTurnedAway`, `WordStaysTrue`. The core of the
invariant is `WaitOutlasts`: the instance cannot wait for the proof before the go
flag, the workflow begins to sign with it, and both count the same ticks, so what
the instance has left exceeds what signing needs; and the bucket exists by then
(`GoFirst`), so the uploads follow before the next tick. `CompleteMeansFinal`
and `ReadyIsShownReady` rest on another invariant, `BuiltInOrder`, of what each step
of the instance finds built; the margin is not used in it.

### The teardown

`TeardownProofs`, for every number of failures: `TypeCorrect`, `LockStaysWhole`
(`NeverEnforcesNothing`) and `CleanReportIsTrue` (`CleanMeansGone`). The survey does not
list the mapping, the plan's keys or the lock's enforcement, so what it did not see
can include them only with what they hang on: `PartsHaveWholes` and
`NeverEnforcesNothing` say so, with `EnforcementFirst` for the two calls of the lock.
Everything was built in `BuildOrder`, so whatever prefix was reached is whole; a pass
takes no whole before its part. After the survey, who makes something again needs an
identity that stood and was not listed (`NobodyLeft`, `MakersAreUnseen`), and what he
can make is `Offspring`. So what a clean report may be wrong about is what its listings
could not show (`unseen`: a failed listing, a first page, another domain, an instance
that was stopping) and nothing beyond.

`QuietPassSuffices` and `SecondPassSuffices` are about passes in which nothing fails,
after any number in which much did. `Rank` is the place of a step, `TakenAt` the step
that takes a resource. What AWS protects another thing with is taken at an earlier
step (`ProtectorsFirst`, over every pair of `Protects`), so by `Swept` (what
belongs to an earlier step is gone) nothing but an application's role
can make AWS refuse (`Unrefused`). While somebody else builds, `Swept` is not true of
all there is, only of the identities to build with (`Core`): they are taken, and whoever has
lost his makes none anew. So after a first calm pass no maker is left
(`CalmHasNoMakers`), and in the second `Swept` is about everything (`Taken`).

### Only model-checked

The liveness properties `AcceptedIsServed`, `TimerGoes`, `BothEnd` and `EndsClean`:
TLAPS proves neither liveness under fairness nor facts about ENABLED. And the six
violation runs, which are counterexamples. No module declares a RECURSIVE operator.

## Not modelled

* Policy documents (`policies.py`): what they allow is AWS's to evaluate, and
  `tests/test_policies_are_accepted.py` asks it. The models use only who may
  write which parameter or bucket.
* Names, user-data text, rendering, links, console output: formatting.
* The adapters in `enclavize/aws` that make one call; those that wait, retry or make
  several are in the step that uses them.
* The end-to-end harness: it drives a real account.
* Of the teardown, the check that the credentials are the right account's, and the
  questions to the operator.

Where prose and code part without a run to show it:

* `tests/test_checkmachine.py:210-212` fears that a leftover `pending` "would
  refuse every later apply for good"; `Busy?` never looks at `pending`.
* `setup/apply.py:61-63` says nothing can be applied until setup has finished;
  the API answers before `tighten_boundary` (`setup/__main__.py:164-200`).
* `setup/__main__.py:227-229` recovers a failed bring-up by running the workflow
  again; by then the root key is deleted.
* `README.md:428` has the account check the published statement against its
  bundle; `setup/proof.py` says the pair is not inspected there.
* `workflow/__main__.py:5-7` lists the steps in another order than `run()`.
* `app.js` says of a month cut short that its oldest applies are not shown; S3
  lists in ascending order, so it is the newest.
* `events.await_event` returns once `CreateAccount` is delivered, and later
  events may still be missing; the hold before it is what the audit relies on.
* `workflow/__main__.py:124-126` splits the history at a time with microseconds: if
  CloudTrail's times are whole seconds, which is outside the repository, a call of
  the run's own in the second it started is judged as done by hand (`SplitInSecond`).
* `workflow/clients.py:8` says a session can record "the request id of every request
  it sends". It records those that were answered: an attempt AWS logs and whose answer
  is lost, and which botocore makes again, is a stranger's to the audit (`AnswerLost`).
* `_safe` (`scripts/dismantle.py:78`) makes nothing of a listing that failed, and the
  report then says "nothing. The account is ready for another run." all the same;
  the same is said where the enclave's is not on the first page of a listing
  (`OnePageSurvey`), where an instance is stopping, and where the pass went by another
  domain. `CleanMeansGone` says what can then be left (`unseen`), and that nothing else can.
* `scripts/dismantle.py:11-12` says a run that died "can simply be run again"; once the
  zone is gone and another domain is registered, the pass goes by that one, unless
  `--domain` says otherwise.
* `scripts/cleanup.py:126` and `tests/e2e/unseal.py:151` say that the sign-in lock is
  gone whether or not the calls that remove it succeeded.
* A boundary policy that an application's role still carries cannot be deleted;
  the pass reports the failure, and not what is in the way.

## Plan

Done: `ApplyState`, `ReceiveMachine`, `CheckMachine`, `ApplySwitch`, `Switching`, with
failed calls and lost answers; `ApplyIndex`, with executions side by side; `Verdict`,
`SealRun`, `BringUp`, `Teardown`, and the theorems above. Next, in this order:

1. That a late firing is harmless while no call fails, for every number of checks:
   `switch` shows it for two, and `Serial` leaves late firings out.
