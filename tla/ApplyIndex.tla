----------------------------- MODULE ApplyIndex ------------------------------
(***************************************************************************)
(* The dashboard's history: the index that every apply rebuilds at the end *)
(* of its receive execution (enclavize/logic/statemachine.py, RecordApply  *)
(* to Done), the statuses the check machine writes over it, and the page   *)
(* that reads both (setup/assets/dashboard/app.js).                        *)
(*                                                                         *)
(* An apply's number is its timestamp, so keys sort by number.  Which      *)
(* applies are accepted and when they switch is ApplySwitch's subject;     *)
(* here an accepted one is recorded, listed, and later switched or failed. *)
(* What serves is what the parameter `current' says.                       *)
(***************************************************************************)
EXTENDS Integers, FiniteSets

CONSTANTS
  MaxApplies,    \* bound: how many applies are accepted
  LastMonth,     \* bound: how many months pass
  PageSize,      \* keys one S3 listing returns (1000)
  MaxWriting,    \* bound: how many executions are at their bookkeeping
  MaxFailures    \* bound: how many Tasks and reads of the page fail in all

ASSUME ApplyIndexOK ==
  /\ MaxApplies \in Nat /\ LastMonth \in Nat \ {0} /\ PageSize \in Nat \ {0}
  /\ MaxWriting \in Nat \ {0}
  /\ MaxFailures \in Nat

Applies == 1 .. MaxApplies
Months  == 1 .. LastMonth
None    == 0

VARIABLES
  month,      \* the month it is
  monthOf,    \* the month each apply was stamped in; None before
  status,     \* the status in each record; "none" when there is no object
  serving,    \* the apply named in current, the last that was switched to
  waiting,    \* the accepted apply that has not switched or failed yet
  switching,  \* the record a switch writes next: "retire", "update" or "none"
  replaced,   \* the apply whose record the switch retires
  shard,      \* applies/index/{month}.json
  manifest,   \* applies.json: the months it names
  writer,     \* the state each bookkeeping execution is in
  page,       \* per execution: the listing it holds, of records
  listed,     \* per execution: the listing it holds, of shards
  alone,      \* executions that have had the bookkeeping to themselves so far
  found,      \* per execution: the records of its month when it was accepted
  failures,   \* how many have failed so far
  view        \* the page in someone's browser

index  == <<shard, manifest>>
writers == <<writer, page, listed, alone, found>>
switch == <<serving, waiting, switching, replaced>>
others == <<alone, found, failures, view>>
vars == <<month, monthOf, status, switch, index, writers, failures, view>>

NoShard == [exists |-> FALSE, applies |-> {}, truncated |-> FALSE]
NoView  == [months |-> {}, opening |-> None, keys |-> {}, unread |-> {},
            launched |-> {}, since |-> None, shown |-> FALSE, serving |-> None]

Stored(m) == {a \in Applies : status[a] # "none" /\ monthOf[a] = m}

\* The first page of a listing: S3 lists in ascending order of key.
FirstPage(keys) == {a \in keys : Cardinality({b \in keys : b < a}) < PageSize}

Fails == failures < MaxFailures /\ failures' = failures + 1

Init ==
  /\ month = 1
  /\ monthOf = [a \in Applies |-> None]
  /\ status = [a \in Applies |-> "none"]
  /\ serving = None /\ waiting = None /\ switching = "none" /\ replaced = None
  /\ shard = [m \in Months |-> NoShard]
  /\ manifest = {}
  /\ writer = [a \in Applies |-> "none"]
  /\ page = [a \in Applies |-> NoShard]
  /\ listed = [a \in Applies |-> {}]
  /\ alone = {}
  /\ found = [a \in Applies |-> {}]
  /\ view = NoView /\ failures = 0

Ends == {"Done", "GaveUp"}
Writing(a) == writer[a] \notin {"none"} \cup Ends

MonthPasses ==
  /\ month < LastMonth
  /\ month' = month + 1
  /\ UNCHANGED <<monthOf, status, switch, index, writers, failures, view>>

-----------------------------------------------------------------------------
(* Bookkeeping: from the launch on.  Any of its Tasks may fail, and then   *)
(* the execution answers all the same (_KEEP_GOING).                       *)

\* Stamped once; the month never changes, however late the writing is.  Busy?
\* asks for the timer and for running checks, never for a receive execution
\* that is still at its bookkeeping: the two then write side by side.
Accept(a) ==
  /\ monthOf[a] = None
  /\ \A b \in Applies : b < a => monthOf[b] # None
  /\ waiting = None
  /\ LET beside == {b \in Applies : Writing(b)}
     IN  /\ Cardinality(beside) < MaxWriting
         /\ alone' = IF beside = {} THEN alone \cup {a} ELSE alone \ beside
  /\ monthOf' = [monthOf EXCEPT ![a] = month]
  /\ found' = [found EXCEPT ![a] = Stored(month)]
  /\ writer' = [writer EXCEPT ![a] = "RecordApply"]
  /\ IF serving = None THEN serving' = a /\ UNCHANGED waiting
                       ELSE waiting' = a /\ UNCHANGED serving
  /\ UNCHANGED <<month, status, switching, replaced, index, page, listed, failures, view>>

RecordApply(a) ==
  /\ writer[a] = "RecordApply"
  /\ status' = [status EXCEPT ![a] = IF waiting = a THEN "preparing" ELSE "launched"]
  /\ writer' = [writer EXCEPT ![a] = "ListMonth"]
  /\ UNCHANGED <<month, monthOf, switch, index, page, listed, others>>

\* Mutant of ListMonth: no prefix, so every month is listed.
ListEverything(a) ==
  /\ writer[a] = "ListMonth"
  /\ page' = [page EXCEPT ![a] =
       [exists |-> TRUE, applies |-> {b \in Applies : status[b] # "none"},
        truncated |-> FALSE]]
  /\ writer' = [writer EXCEPT ![a] = "WriteMonthIndex"]
  /\ UNCHANGED <<month, monthOf, status, switch, index, listed, others>>

\* Mutant of ListMonth: the month is read off the clock, not off the stamp.
ListThisMonth(a) ==
  /\ writer[a] = "ListMonth"
  /\ LET keys == Stored(month)
     IN  page' = [page EXCEPT ![a] =
           [exists |-> TRUE, applies |-> FirstPage(keys),
            truncated |-> keys # FirstPage(keys)]]
  /\ writer' = [writer EXCEPT ![a] = "WriteMonthIndex"]
  /\ UNCHANGED <<month, monthOf, status, switch, index, listed, others>>

\* With WhichMonth: one listing by the prefix of the month stamped.
ListMonth(a) ==
  /\ writer[a] = "ListMonth"
  /\ LET keys == Stored(monthOf[a])
     IN  page' = [page EXCEPT ![a] =
           [exists |-> TRUE, applies |-> FirstPage(keys),
            truncated |-> keys # FirstPage(keys)]]
  /\ writer' = [writer EXCEPT ![a] = "WriteMonthIndex"]
  /\ UNCHANGED <<month, monthOf, status, switch, index, listed, others>>

WriteMonthIndex(a) ==
  /\ writer[a] = "WriteMonthIndex"
  /\ shard' = [shard EXCEPT ![monthOf[a]] = page[a]]
  /\ page' = [page EXCEPT ![a] = NoShard]
  /\ writer' = [writer EXCEPT ![a] = "ListMonths"]
  /\ UNCHANGED <<month, monthOf, status, switch, manifest, listed, others>>

\* Mutant of ListMonths: only the apply's own month is looked for.
ListOwnMonth(a) ==
  /\ writer[a] = "ListMonths"
  /\ listed' = [listed EXCEPT ![a] = {monthOf[a]}]
  /\ writer' = [writer EXCEPT ![a] = "WriteManifest"]
  /\ UNCHANGED <<month, monthOf, status, switch, index, page, others>>

ListMonths(a) ==
  /\ writer[a] = "ListMonths"
  /\ listed' = [listed EXCEPT ![a] = {m \in Months : shard[m].exists}]
  /\ writer' = [writer EXCEPT ![a] = "WriteManifest"]
  /\ UNCHANGED <<month, monthOf, status, switch, index, page, others>>

WriteManifest(a) ==
  /\ writer[a] = "WriteManifest"
  /\ manifest' = listed[a]
  /\ listed' = [listed EXCEPT ![a] = {}]
  /\ writer' = [writer EXCEPT ![a] = "Done"]
  /\ UNCHANGED <<month, monthOf, status, switch, shard, page, others>>

GiveUp(a) ==
  /\ Fails
  /\ Writing(a)
  /\ writer' = [writer EXCEPT ![a] = "GaveUp"]
  /\ page' = [page EXCEPT ![a] = NoShard] /\ listed' = [listed EXCEPT ![a] = {}]
  /\ alone' = alone \ {a} /\ found' = [found EXCEPT ![a] = {}]
  /\ UNCHANGED <<month, monthOf, status, switch, index, view>>

-----------------------------------------------------------------------------
(* The check machine's writes.  They put whole objects, so they create a   *)
(* record whose own execution failed to.                                   *)

\* A check has claimed the apply that waits, days after it was recorded.
Claimed == waiting # None /\ switching = "none" /\ writer[waiting] # "RecordApply"

\* From here the new version is what the account says is serving.
WriteCurrent ==
  /\ Claimed
  /\ serving' = waiting
  /\ replaced' = serving
  /\ switching' = "retire"
  /\ UNCHANGED <<month, monthOf, status, waiting, index, writers, failures, view>>

\* Each record is written, or not: the machine goes on all the same (_tidy).
Puts(a, word) ==
  \/ status' = [status EXCEPT ![a] = word] /\ UNCHANGED failures
  \/ Fails /\ UNCHANGED status

RetireOldRecord ==
  /\ switching = "retire"
  /\ Puts(replaced, "retired")
  /\ switching' = "update" /\ replaced' = None
  /\ UNCHANGED <<month, monthOf, serving, waiting, index, writers, view>>

UpdateRecord ==
  /\ switching = "update"
  /\ Puts(serving, "launched")
  /\ waiting' = None
  /\ switching' = "none"
  /\ UNCHANGED <<month, monthOf, serving, replaced, index, writers, view>>

\* LaunchNew failed.
RecordFailure ==
  /\ Claimed
  /\ Puts(waiting, "failed")
  /\ waiting' = None
  /\ UNCHANGED <<month, monthOf, serving, switching, replaced, index, writers, view>>

\* Up to WriteCurrent nothing catches: the check ends with the claim taken and
\* no record written, whether or not current was.
CheckEnds ==
  /\ Fails
  /\ Claimed
  /\ serving' \in {serving, waiting}
  /\ waiting' = None
  /\ UNCHANGED <<month, monthOf, status, switching, replaced, index, writers, view>>

-----------------------------------------------------------------------------
(* The page: it takes the manifest as it loads and opens the newest month  *)
(* at once.  A month is its shard's keys, and then their records, each     *)
(* read by itself.  An earlier month, opened by a click, adds rows and     *)
(* leaves what serves as it is: it is left out.                            *)

Load ==
  /\ view' = [NoView EXCEPT !.months = manifest]
  /\ UNCHANGED <<month, monthOf, status, switch, index, writers, failures>>

\* `since' is what serves as the month is opened, unless a switch is under way.
OpenNextMonth ==
  /\ view.opening = None /\ ~view.shown
  /\ \E m \in view.months :
       /\ \A n \in view.months : n <= m
       /\ view' = [view EXCEPT
            !.opening = m, !.keys = shard[m].applies, !.unread = shard[m].applies,
            !.since = IF switching = "none" THEN serving ELSE None,
            !.months = {}]
  /\ UNCHANGED <<month, monthOf, status, switch, index, writers, failures>>

\* withOutcomes, one of its reads.
ReadRecord ==
  /\ \E a \in view.unread :
       view' = [view EXCEPT
         !.unread = @ \ {a},
         !.launched = IF status[a] = "launched" THEN @ \cup {a} ELSE @]
  /\ UNCHANGED <<month, monthOf, status, switch, index, writers, failures>>

\* A record that cannot be read keeps its row, without a status.
ReadFails ==
  /\ Fails
  /\ \E a \in view.unread :
       view' = [view EXCEPT !.unread = @ \ {a}, !.keys = @ \ {a}]
  /\ UNCHANGED <<month, monthOf, status, switch, index, writers>>

\* Mutant of ShowVersions: the rows are sorted the other way round.
ShowOldest(launched) ==
  IF launched = {} THEN None
  ELSE CHOOSE a \in launched : \A b \in launched : a <= b

\* The newest record that was marked launched when it was read, if any.
ShowVersions(launched) ==
  IF launched = {} THEN None
  ELSE CHOOSE a \in launched : \A b \in launched : b <= a

\* All are read: what serves.
ShowMonth ==
  /\ view.opening # None /\ view.unread = {}
  /\ view' = [NoView EXCEPT !.shown = TRUE, !.serving = ShowVersions(view.launched)]
  /\ UNCHANGED <<month, monthOf, status, switch, index, writers, failures>>

-----------------------------------------------------------------------------
Next ==
  \/ MonthPasses
  \/ \E a \in Applies :
       \/ Accept(a) \/ RecordApply(a) \/ ListMonth(a) \/ WriteMonthIndex(a)
       \/ ListMonths(a) \/ WriteManifest(a) \/ GiveUp(a)
  \/ WriteCurrent \/ RetireOldRecord \/ UpdateRecord \/ RecordFailure \/ CheckEnds
  \/ Load \/ OpenNextMonth \/ ReadRecord \/ ReadFails \/ ShowMonth

Spec == Init /\ [][Next]_vars

-----------------------------------------------------------------------------
(* Properties                                                              *)

Shards == [exists : BOOLEAN, applies : SUBSET Applies, truncated : BOOLEAN]

\* Types, and that a shard lists only records stamped in its own month.
TypeOK ==
  /\ month \in Months
  /\ monthOf \in [Applies -> Months \cup {None}]
  /\ status \in [Applies -> {"none", "launched", "preparing", "retired", "failed"}]
  /\ serving \in Applies \cup {None} /\ waiting \in Applies \cup {None}
  /\ switching \in {"none", "retire", "update"} /\ replaced \in Applies \cup {None}
  /\ shard \in [Months -> Shards]
  /\ manifest \subseteq Months
  /\ writer \in [Applies -> {"none", "RecordApply", "ListMonth", "WriteMonthIndex",
                             "ListMonths", "WriteManifest"} \cup Ends]
  /\ page \in [Applies -> Shards]
  /\ listed \in [Applies -> SUBSET Months]
  /\ alone \subseteq Applies
  /\ found \in [Applies -> SUBSET Applies]
  /\ failures \in 0 .. MaxFailures
  /\ \A m \in Months : \A a \in shard[m].applies : monthOf[a] = m

\* The index heals itself: whatever failed before, and whatever two executions
\* side by side wrote over one another, once the last apply of a month has had
\* the bookkeeping to itself, the month's shard lists its own record and every
\* one that was there when it was accepted, or says it is truncated, and the
\* manifest names it.  That is so of records whose own execution failed to list
\* them and of those the check machine made (statemachine.py, why the index is
\* rebuilt rather than appended to).
HealedByTheLast ==
  \A a \in alone :
    /\ writer[a] = "Done"
    /\ \A b \in Applies : b > a => monthOf[b] # monthOf[a]
    => LET s == shard[monthOf[a]]
       IN  /\ monthOf[a] \in manifest
           /\ s.applies \subseteq Stored(monthOf[a])
           /\ found[a] \cup {a} \subseteq s.applies \/ s.truncated

\* What a visitor can walk to: a record in a shard in the manifest.
Reachable(a) == \E m \in manifest : a \in shard[m].applies

\* Once in the dashboard's history, always in it, unless the page says that
\* the month is cut short (README, The dashboard).  Only an execution that did
\* not have the bookkeeping to itself may write a listing older than the one it
\* replaces; what that loses, HealedByTheLast brings back.
HistoryStaysReachable ==
  [][(\A w \in Applies : writer'[w] # writer[w] => w \in alone)
       => \A a \in Applies :
            Reachable(a) => Reachable(a)' \/ shard'[monthOf[a]].truncated]_<<shard, manifest>>

\* The page names what serves, if nothing was switched while it read: what serves
\* is in the newest month it opened, was so from its opening on, and is marked
\* launched.  That is so although each record is read at its own moment, later
\* applies come and fail meanwhile, and a record that could not be retired still
\* says launched (app.js withOutcomes, showVersions).
NamesTheServing ==
  [][/\ ~view.shown /\ view'.shown
     /\ switching = "none" /\ view.since = serving
     /\ serving \in view.keys /\ status[serving] = "launched"
     => view'.serving = serving]_view

\* README, The dashboard: the page reads the records of the month on show, "which
\* is how it says what is serving" (and app.js showVersions: the versions and the
\* log "cannot disagree").  Asked only when nothing is switched while it reads, all
\* bookkeeping is done and what serves is in the history the page can walk to.
AlwaysNamesTheServing ==
  [][/\ ~view.shown /\ view'.shown
     /\ switching = "none" /\ view.since = serving
     /\ \A a \in Applies : ~Writing(a)
     /\ view.keys = shard[view.opening].applies
     /\ serving # None /\ Reachable(serving)
     => view'.serving = serving]_view
=============================================================================
