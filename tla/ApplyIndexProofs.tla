-------------------------- MODULE ApplyIndexProofs --------------------------
(***************************************************************************)
(* Theorems about ApplyIndex, for every number of applies and of months,   *)
(* every length of a listing, any number of executions writing side by     *)
(* side, and any number of failures: the index heals, what is in the        *)
(* history stays in it, and the page names what serves.                    *)
(***************************************************************************)
EXTENDS ApplyIndex, TLAPS

Existing == {m \in Months : shard[m].exists}

\* The types without the months a shard's records were stamped in.
Shapes ==
    /\ month \in Months
    /\ monthOf \in [Applies -> Months \cup {None}]
    /\ status \in [Applies -> {"none", "launched", "preparing", "retired", "failed"}]
    /\ serving \in Applies \cup {None} /\ waiting \in Applies \cup {None}
    /\ switching \in {"none", "retire", "update"} /\ replaced \in Applies \cup {None}
    /\ shard \in [Months -> Shards]
    /\ manifest \subseteq Months
    /\ writer \in [Applies -> {"none", "RecordApply", "ListMonth", "WriteMonthIndex",
                               "ListMonths", "WriteManifest"} \cup Ends]
    /\ page \in [Applies -> Shards]
    /\ listed \in [Applies -> SUBSET Months]
    /\ alone \subseteq Applies
    /\ found \in [Applies -> SUBSET Applies]
    /\ failures \in 0 .. MaxFailures

\* The page's own state is a record with the fields it starts with.
ViewOK ==
    /\ view = [months |-> view.months, opening |-> view.opening, keys |-> view.keys,
               unread |-> view.unread, launched |-> view.launched, since |-> view.since,
               shown |-> view.shown, serving |-> view.serving]
    /\ view.months \subseteq Months /\ view.opening \in Months \cup {None}
    /\ view.keys \subseteq Applies /\ view.unread \subseteq view.keys
    /\ view.launched \subseteq Applies /\ view.since \in Applies \cup {None}

\* Applies are accepted in their order, one at a time: a record, a switch and
\* a bookkeeping execution are an accepted one's.
AcceptedInv ==
    /\ \A a \in Applies : writer[a] # "none" <=> monthOf[a] # None
    /\ \A a, b \in Applies : b < a /\ monthOf[a] # None => monthOf[b] # None
    /\ \A a \in Applies : status[a] # "none" => monthOf[a] # None
    /\ serving # None => monthOf[serving] # None
    /\ waiting # None => monthOf[waiting] # None /\ serving # None
    /\ waiting # None /\ switching = "none" => serving < waiting
    /\ switching # "none" =>
         waiting # None /\ serving = waiting /\ writer[waiting] # "RecordApply"
    /\ switching = "retire" => replaced # None /\ monthOf[replaced] # None

\* Nothing later than what serves is marked launched, or can still be.
ServesInv ==
    /\ \A a \in Applies : status[a] = "launched" => a <= serving
    /\ \A a \in Applies : writer[a] = "RecordApply" => a <= serving \/ a = waiting
    /\ serving # None /\ writer[serving] = "RecordApply" => status[serving] = "none"

\* What the page has read as launched is no later than what serves, nor is what
\* served when it opened the month, and as long as no switch came since, what
\* serves is among the launched once it has been read.
PageInv ==
    /\ \A a \in view.keys : status[a] # "none"
    /\ \A a \in view.launched : a <= serving
    /\ view.since <= serving
    /\ switching # "none" => view.since < serving
    /\ /\ view.since = serving /\ serving # None /\ status[serving] = "launched"
       /\ serving \in view.keys \ view.unread
       => serving \in view.launched

\* What a listing holds is there, when it was read and ever after.
ListingInv ==
    /\ \A a \in Applies : found[a] \subseteq Stored(monthOf[a])
    /\ \A a \in Applies : writer[a] = "WriteMonthIndex" =>
         page[a].exists /\ page[a].applies \subseteq Stored(monthOf[a])
    /\ \A m \in Months : shard[m].applies \subseteq Stored(m)
    /\ \A a \in Applies : writer[a] = "WriteManifest" => listed[a] \subseteq Existing
    /\ manifest \subseteq Existing
    /\ \A a \in Applies : writer[a] \notin {"none", "RecordApply", "GaveUp"} => status[a] # "none"

\* What the index owes to an apply's execution: its own record, and those it
\* found.
Due(a) == found[a] \cup {a}

Last(a) == \A b \in Applies : b > a => monthOf[b] # monthOf[a]

\* An execution that has had the bookkeeping to itself has, state by state, in
\* hand and then in the index, all that it owes.
AloneOK(a) ==
    /\ writer[a] # "none"
    /\ \A b \in Applies : b < a \/ (Writing(a) /\ b # a) => ~Writing(b)
    /\ writer[a] = "WriteMonthIndex" =>
         page[a].truncated \/ shard[monthOf[a]].applies \cup Due(a) \subseteq page[a].applies
    /\ writer[a] \in {"ListMonths", "WriteManifest", "Done"} =>
         /\ shard[monthOf[a]].exists
         /\ Last(a) => shard[monthOf[a]].truncated \/ Due(a) \subseteq shard[monthOf[a]].applies
    /\ writer[a] = "WriteManifest" => Existing \subseteq listed[a]
    /\ writer[a] = "Done" =>
         /\ monthOf[a] \in manifest
         /\ \A b \in Applies : writer[b] = "WriteManifest" => monthOf[a] \in listed[b]

AloneInv == \A a \in alone : AloneOK(a)

IndexInv ==
    Shapes /\ ViewOK /\ AcceptedInv /\ ServesInv /\ PageInv /\ ListingInv /\ AloneInv

\* What the assumption says of the bounds, and what follows of the sets.
LEMMA Bounds ==
    /\ MaxApplies \in Nat /\ LastMonth \in Nat \ {0}
    /\ MaxFailures \in Nat
    /\ Applies \subseteq Nat \ {None} /\ Months \subseteq Nat \ {None}
    /\ 1 \in Months
  BY ApplyIndexOK DEF Applies, Months, None

-----------------------------------------------------------------------------
(* Types, and the page                                                     *)

\* Every value stays in its range.
LEMMA NextKeepsShapes == ASSUME Shapes, [Next]_vars PROVE Shapes'
<1> USE DEF Shapes, switch, index, writers, others, Ends
<1>1. CASE MonthPasses
  BY <1>1, ApplyIndexOK DEF MonthPasses, Months
<1>2. ASSUME NEW a \in Applies, Accept(a) PROVE Shapes'
  BY <1>2 DEF Accept, Stored
<1>3. ASSUME NEW a \in Applies, RecordApply(a) PROVE Shapes'
  BY <1>3 DEF RecordApply
<1>4. ASSUME NEW a \in Applies, ListMonth(a) PROVE Shapes'
  <2>1. /\ UNCHANGED <<month, monthOf, status, switch, index, listed, others>>
        /\ writer' = [writer EXCEPT ![a] = "WriteMonthIndex"]
        /\ page' = [page EXCEPT ![a] = [exists |-> TRUE, applies |-> FirstPage(Stored(monthOf[a])),
                       truncated |-> Stored(monthOf[a]) # FirstPage(Stored(monthOf[a]))]]
    BY <1>4 DEF ListMonth
  <2>2. FirstPage(Stored(monthOf[a])) \in SUBSET Applies
    BY DEF FirstPage, Stored
  <2>3. [exists |-> TRUE, applies |-> FirstPage(Stored(monthOf[a])),
         truncated |-> Stored(monthOf[a]) # FirstPage(Stored(monthOf[a]))] \in Shards
    BY <2>2 DEF Shards
  <2> QED BY <2>1, <2>3
<1>5. ASSUME NEW a \in Applies, WriteMonthIndex(a) PROVE Shapes'
  BY <1>5 DEF WriteMonthIndex, NoShard, Shards
<1>6. ASSUME NEW a \in Applies, ListMonths(a) PROVE Shapes'
  BY <1>6 DEF ListMonths
<1>7. ASSUME NEW a \in Applies, WriteManifest(a) PROVE Shapes'
  BY <1>7 DEF WriteManifest
<1>f. Fails => failures' \in 0 .. MaxFailures
  BY Bounds DEF Fails
<1>8. ASSUME NEW a \in Applies, GiveUp(a) PROVE Shapes'
  BY <1>8, <1>f DEF GiveUp, NoShard, Shards
<1>9. CASE RetireOldRecord
  BY <1>9, <1>f DEF RetireOldRecord, Puts
<1>10. CASE UpdateRecord
  BY <1>10, <1>f DEF UpdateRecord, Puts
<1>11. CASE RecordFailure
  BY <1>11, <1>f DEF RecordFailure, Puts
<1>12. CASE WriteCurrent
  BY <1>12 DEF WriteCurrent
<1>13. CASE CheckEnds
  BY <1>13, <1>f DEF CheckEnds
<1>14. CASE Load \/ OpenNextMonth \/ ReadRecord \/ ReadFails \/ ShowMonth
  BY <1>14, <1>f DEF Load, OpenNextMonth, ReadRecord, ReadFails, ShowMonth
<1>15. CASE UNCHANGED vars
  BY <1>15 DEF vars
<1> QED BY <1>1, <1>2, <1>3, <1>4, <1>5, <1>6, <1>7, <1>8, <1>9, <1>10, <1>11,
           <1>12, <1>13, <1>14, <1>15 DEF Next

\* The check machine's steps, and the page's.
CheckStep == WriteCurrent \/ RetireOldRecord \/ UpdateRecord \/ RecordFailure \/ CheckEnds
PageStep  == Load \/ OpenNextMonth \/ ReadRecord \/ ReadFails \/ ShowMonth

\* The page's own state keeps its form.
LEMMA NextKeepsView == ASSUME Shapes, ViewOK, [Next]_vars PROVE ViewOK'
<1>1. CASE Load
  BY <1>1 DEF Load, NoView, ViewOK, Shapes
<1>2. CASE OpenNextMonth
  <2>1. PICK m \in view.months :
          view' = [view EXCEPT
            !.opening = m, !.keys = shard[m].applies, !.unread = shard[m].applies,
            !.since = IF switching = "none" THEN serving ELSE None,
            !.months = {}]
    BY <1>2 DEF OpenNextMonth
  <2>2. /\ m \in Months /\ shard[m].applies \subseteq Applies
        /\ serving \in Applies \cup {None}
    BY DEF ViewOK, Shapes, Shards
  <2> QED BY <2>1, <2>2 DEF ViewOK
<1>3. CASE ReadRecord
  <2>1. PICK a \in view.unread :
          view' = [view EXCEPT
            !.unread = @ \ {a},
            !.launched = IF status[a] = "launched" THEN @ \cup {a} ELSE @]
    BY <1>3 DEF ReadRecord
  <2> QED BY <2>1 DEF ViewOK
<1>4. CASE ReadFails
  <2>1. PICK a \in view.unread : view' = [view EXCEPT !.unread = @ \ {a}, !.keys = @ \ {a}]
    BY <1>4 DEF ReadFails
  <2> QED BY <2>1 DEF ViewOK
<1>5. CASE ShowMonth
  BY <1>5 DEF ShowMonth, NoView, ViewOK
<1>6. CASE UNCHANGED view
  BY <1>6 DEF ViewOK
<1>7. Load \/ OpenNextMonth \/ ReadRecord \/ ReadFails \/ ShowMonth \/ UNCHANGED view
  BY DEF Next, MonthPasses, Accept, RecordApply, ListMonth, WriteMonthIndex, ListMonths,
     WriteManifest, GiveUp, WriteCurrent, RetireOldRecord, UpdateRecord, RecordFailure,
     CheckEnds, others, vars
<1> QED BY <1>1, <1>2, <1>3, <1>4, <1>5, <1>6, <1>7

-----------------------------------------------------------------------------
(* Acceptance, and what serves                                             *)

\* A step of one execution's bookkeeping moves that execution alone.
Bookkeeping(a) ==
    \/ RecordApply(a) \/ ListMonth(a) \/ WriteMonthIndex(a)
    \/ ListMonths(a) \/ WriteManifest(a) \/ GiveUp(a)

LEMMA OneWriterMoves ==
    ASSUME Shapes, NEW a \in Applies, Bookkeeping(a)
    PROVE  /\ writer[a] # "none" /\ writer'[a] \notin {"none", "RecordApply"}
           /\ Writing(a)
           /\ \A b \in Applies : b # a => writer'[b] = writer[b]
           /\ UNCHANGED <<month, monthOf, switch, view>>
           /\ RecordApply(a) \/ UNCHANGED status
           /\ alone' \subseteq alone
           /\ \A b \in Applies : b # a => found'[b] = found[b]
           /\ GiveUp(a) \/ UNCHANGED <<alone, found>>
<1> USE DEF Shapes, Writing, Ends, others
<1>1. CASE RecordApply(a)     BY <1>1 DEF RecordApply
<1>2. CASE ListMonth(a)       BY <1>2 DEF ListMonth
<1>3. CASE WriteMonthIndex(a) BY <1>3 DEF WriteMonthIndex
<1>4. CASE ListMonths(a)      BY <1>4 DEF ListMonths
<1>5. CASE WriteManifest(a)   BY <1>5 DEF WriteManifest
<1>6. CASE GiveUp(a)          BY <1>6 DEF GiveUp
<1> QED BY <1>1, <1>2, <1>3, <1>4, <1>5, <1>6 DEF Bookkeeping

\* The next step: an acceptance, a step of one execution, a step of the check
\* machine, or one that leaves executions and records alone.
LEMMA NextIs ==
    ASSUME [Next]_vars
    PROVE  \/ \E a \in Applies : Accept(a) \/ Bookkeeping(a)
           \/ CheckStep
           \/ UNCHANGED <<monthOf, status, switch, index, writers>>
  BY DEF Next, Bookkeeping, CheckStep, MonthPasses, Load, OpenNextMonth, ReadRecord, ReadFails,
     ShowMonth, vars

\* A step of the check machine removes no record, and writes no index.
LEMMA CheckStepWrites ==
    ASSUME Shapes, CheckStep
    PROVE  /\ UNCHANGED <<month, monthOf, index, writers, view>>
           /\ \A a \in Applies : status[a] # "none" => status'[a] # "none"
<1> USE DEF Shapes
<1>p. ASSUME NEW a, NEW word \in {"retired", "launched", "failed"}, Puts(a, word)
      PROVE  \A b \in Applies : status[b] # "none" => status'[b] # "none"
  BY <1>p DEF Puts
<1>1. CASE WriteCurrent    BY <1>1 DEF WriteCurrent
<1>2. CASE RetireOldRecord BY <1>2, <1>p DEF RetireOldRecord
<1>3. CASE UpdateRecord    BY <1>3, <1>p DEF UpdateRecord
<1>4. CASE RecordFailure   BY <1>4, <1>p DEF RecordFailure
<1>5. CASE CheckEnds       BY <1>5 DEF CheckEnds
<1> QED BY <1>1, <1>2, <1>3, <1>4, <1>5 DEF CheckStep

\* Acceptance keeps to its order.
LEMMA NextKeepsAccepted == ASSUME Shapes, AcceptedInv, [Next]_vars PROVE AcceptedInv'
<1> USE Bounds
<1>1. ASSUME NEW a \in Applies, Accept(a) PROVE AcceptedInv'
  <2>1. /\ monthOf[a] = None /\ \A b \in Applies : b < a => monthOf[b] # None
        /\ waiting = None
        /\ monthOf' = [monthOf EXCEPT ![a] = month] /\ month # None
        /\ writer' = [writer EXCEPT ![a] = "RecordApply"]
        /\ UNCHANGED <<status, switching, replaced>>
        /\ \/ serving = None /\ serving' = a /\ waiting' = None
           \/ serving # None /\ waiting' = a /\ serving' = serving
    BY <1>1 DEF Accept, Shapes
  <2>2. \A b \in Applies : monthOf[b] # None => b < a
    BY <2>1 DEF AcceptedInv
  <2>3. \A b \in Applies : b # a => monthOf'[b] = monthOf[b] /\ writer'[b] = writer[b]
    BY <2>1 DEF Shapes
  <2>4. monthOf'[a] # None /\ writer'[a] = "RecordApply"
    BY <2>1 DEF Shapes
  <2>5. (\A b, c \in Applies : c < b /\ monthOf[b] # None => monthOf[c] # None)'
    BY <2>1, <2>2, <2>3, <2>4 DEF AcceptedInv
  <2>6. (serving # None => monthOf[serving] # None)'
    BY <2>1, <2>3, <2>4 DEF AcceptedInv, Shapes
  <2>7. (waiting # None => monthOf[waiting] # None /\ serving # None /\ serving < waiting)'
    BY <2>1, <2>2, <2>4 DEF AcceptedInv, Shapes
  <2>8. switching = "none"
    BY <2>1 DEF AcceptedInv
  <2>9. (\A b \in Applies : writer[b] # "none" <=> monthOf[b] # None)'
    BY <2>3, <2>4 DEF AcceptedInv
  <2>10. (\A b \in Applies : status[b] # "none" => monthOf[b] # None)'
    BY <2>1, <2>3, <2>4 DEF AcceptedInv
  <2> QED BY <2>1, <2>5, <2>6, <2>7, <2>8, <2>9, <2>10 DEF AcceptedInv
<1>2. ASSUME NEW a \in Applies, Bookkeeping(a) PROVE AcceptedInv'
  <2>1. /\ writer[a] # "none" /\ writer'[a] \notin {"none", "RecordApply"}
        /\ \A b \in Applies : b # a => writer'[b] = writer[b]
        /\ UNCHANGED <<monthOf, serving, waiting, switching, replaced>>
    BY <1>2, OneWriterMoves DEF switch
  <2>2. \A b \in Applies : status'[b] # "none" => b = a \/ status[b] # "none"
    BY <1>2, OneWriterMoves DEF RecordApply, Shapes
  <2> QED BY <2>1, <2>2 DEF AcceptedInv, Shapes
<1>3. CASE WriteCurrent
  BY <1>3 DEF WriteCurrent, Claimed, AcceptedInv, Shapes, writers
<1>4. CASE RetireOldRecord
  BY <1>4 DEF RetireOldRecord, Puts, AcceptedInv, Shapes, writers
<1>5. CASE UpdateRecord
  BY <1>5 DEF UpdateRecord, Puts, AcceptedInv, Shapes, writers
<1>6. CASE RecordFailure
  BY <1>6 DEF RecordFailure, Claimed, Puts, AcceptedInv, Shapes, writers
<1>7. CASE CheckEnds
  BY <1>7 DEF CheckEnds, Claimed, AcceptedInv, Shapes, writers
<1>8. CASE UNCHANGED <<monthOf, status, switch, index, writers>>
  BY <1>8 DEF AcceptedInv, switch, writers
<1> QED BY <1>1, <1>2, <1>3, <1>4, <1>5, <1>6, <1>7, <1>8, NextIs DEF CheckStep

\* What is marked launched is never later than what serves.
LEMMA NextKeepsServing ==
    ASSUME Shapes, AcceptedInv, ServesInv, [Next]_vars
    PROVE  ServesInv'
<1> USE Bounds DEF Shapes
<1>1. ASSUME NEW a \in Applies, Accept(a) PROVE ServesInv'
  <2>1. /\ monthOf[a] = None /\ writer[a] = "none" /\ status[a] = "none"
        /\ waiting = None
        /\ writer' = [writer EXCEPT ![a] = "RecordApply"]
        /\ UNCHANGED <<status, switching, replaced>>
        /\ \/ serving = None /\ serving' = a /\ waiting' = None
           \/ serving # None /\ waiting' = a /\ serving' = serving
    BY <1>1 DEF Accept, AcceptedInv
  <2>2. \A b \in Applies : writer'[b] = "RecordApply" => b = a \/ writer[b] = "RecordApply"
    BY <2>1
  <2>3. serving = None => \A b \in Applies : status[b] # "launched" /\ writer[b] # "RecordApply"
    BY <2>1 DEF ServesInv, None
  <2> QED BY <2>1, <2>2, <2>3 DEF ServesInv
<1>2. ASSUME NEW a \in Applies, Bookkeeping(a) PROVE ServesInv'
  <2>1. /\ writer'[a] \notin {"none", "RecordApply"}
        /\ \A b \in Applies : b # a => writer'[b] = writer[b]
        /\ UNCHANGED <<serving, waiting, switching, replaced>>
    BY <1>2, OneWriterMoves DEF switch
  <2>2. CASE UNCHANGED status
    BY <2>1, <2>2 DEF ServesInv
  <2>3. CASE RecordApply(a)
    <3>1. /\ writer[a] = "RecordApply"
          /\ status' = [status EXCEPT ![a] = IF waiting = a THEN "preparing" ELSE "launched"]
      BY <2>3 DEF RecordApply
    <3>2. \A b \in Applies : status'[b] = "launched" => b <= serving
      BY <3>1 DEF ServesInv
    <3>3. serving # None /\ writer'[serving] = "RecordApply" => status'[serving] = "none"
      BY <2>1, <3>1 DEF ServesInv
    <3>4. \A b \in Applies : writer'[b] = "RecordApply" => b <= serving \/ b = waiting
      BY <2>1 DEF ServesInv
    <3> QED BY <2>1, <3>2, <3>3, <3>4 DEF ServesInv
  <2> QED BY <1>2, <2>2, <2>3, OneWriterMoves
<1>3. CASE WriteCurrent \/ CheckEnds
  <2>1. /\ waiting \in Applies /\ serving < waiting /\ writer[waiting] # "RecordApply"
        /\ serving' \in {serving, waiting} /\ waiting' \in {waiting, None}
        /\ UNCHANGED <<status, writer>>
    BY <1>3 DEF WriteCurrent, CheckEnds, Claimed, AcceptedInv, writers
  <2> QED BY <2>1 DEF ServesInv
<1>4. CASE RetireOldRecord
  <2>1. /\ replaced \in Applies /\ writer[serving] # "RecordApply"
        /\ UNCHANGED <<serving, waiting, writer>>
        /\ status' \in {status, [status EXCEPT ![replaced] = "retired"]}
    BY <1>4 DEF RetireOldRecord, Puts, AcceptedInv, writers
  <2> QED BY <2>1 DEF ServesInv
<1>5. CASE UpdateRecord
  <2>1. /\ serving \in Applies /\ writer[serving] # "RecordApply"
        /\ waiting = serving /\ waiting' = None /\ UNCHANGED <<serving, writer>>
        /\ status' \in {status, [status EXCEPT ![serving] = "launched"]}
    BY <1>5 DEF UpdateRecord, Puts, AcceptedInv, writers
  <2> QED BY <2>1 DEF ServesInv
<1>6. CASE RecordFailure
  <2>1. /\ waiting \in Applies /\ serving < waiting /\ writer[waiting] # "RecordApply"
        /\ waiting' = None /\ UNCHANGED <<serving, writer>>
        /\ status' \in {status, [status EXCEPT ![waiting] = "failed"]}
    BY <1>6 DEF RecordFailure, Claimed, Puts, AcceptedInv, writers
  <2> QED BY <2>1 DEF ServesInv
<1>7. CASE UNCHANGED <<monthOf, status, switch, index, writers>>
  BY <1>7 DEF ServesInv, switch, writers
<1> QED BY <1>1, <1>2, <1>3, <1>4, <1>5, <1>6, <1>7, NextIs DEF CheckStep

-----------------------------------------------------------------------------
(* Listings                                                                *)

\* A stamp stays, and so does a record: whatever its status becomes.
LEMMA RecordsStay ==
    ASSUME Shapes, AcceptedInv, [Next]_vars
    PROVE  /\ \A a \in Applies : monthOf[a] # None => monthOf'[a] = monthOf[a]
           /\ \A a \in Applies : status[a] # "none" => status'[a] # "none"
           /\ \A m \in Months : Stored(m) \subseteq Stored(m)'
<1> USE DEF Shapes
<1>1. \A a \in Applies : monthOf[a] # None => monthOf'[a] = monthOf[a]
  <2>1. ASSUME NEW a \in Applies, Accept(a)
        PROVE  \A b \in Applies : monthOf[b] # None => monthOf'[b] = monthOf[b]
    BY <2>1 DEF Accept
  <2>2. ASSUME NEW a \in Applies, Bookkeeping(a) PROVE monthOf' = monthOf
    BY <2>2, OneWriterMoves
  <2>3. CheckStep => monthOf' = monthOf
    BY CheckStepWrites
  <2> QED BY <2>1, <2>2, <2>3, NextIs
<1>2. \A a \in Applies : status[a] # "none" => status'[a] # "none"
  <2>1. ASSUME NEW a \in Applies, Accept(a) PROVE status' = status
    BY <2>1 DEF Accept
  <2>2. ASSUME NEW a \in Applies, Bookkeeping(a)
        PROVE  \A b \in Applies : status[b] # "none" => status'[b] # "none"
    BY <2>2, OneWriterMoves DEF RecordApply
  <2>3. CheckStep => \A b \in Applies : status[b] # "none" => status'[b] # "none"
    BY CheckStepWrites
  <2> QED BY <2>1, <2>2, <2>3, NextIs
<1>3. \A m \in Months : Stored(m) \subseteq Stored(m)'
  BY <1>1, <1>2 DEF Stored, AcceptedInv
<1> QED BY <1>1, <1>2, <1>3

\* What a step that touches neither listings nor shards leaves of them.
LEMMA ListingsLast ==
    ASSUME Shapes, AcceptedInv, ListingInv, [Next]_vars,
           UNCHANGED <<shard, manifest>>,
           \A a \in Applies : writer'[a] \in {"WriteMonthIndex", "WriteManifest"} =>
             writer'[a] = writer[a] /\ page'[a] = page[a] /\ listed'[a] = listed[a]
    PROVE  /\ \A a \in Applies : writer'[a] = "WriteMonthIndex" =>
                page'[a].exists /\ page'[a].applies \subseteq Stored(monthOf[a])'
           /\ \A m \in Months : shard'[m].applies \subseteq Stored(m)'
           /\ \A a \in Applies : writer'[a] = "WriteManifest" => listed'[a] \subseteq Existing'
           /\ manifest' \subseteq Existing'
<1>1. \A m \in Months : Stored(m) \subseteq Stored(m)'
  BY RecordsStay
<1>2. ASSUME NEW a \in Applies, writer'[a] = "WriteMonthIndex"
      PROVE  page'[a].exists /\ page'[a].applies \subseteq Stored(monthOf[a])'
  <2>1. writer[a] = "WriteMonthIndex" /\ monthOf[a] # None /\ monthOf'[a] = monthOf[a]
    BY <1>2, RecordsStay DEF AcceptedInv
  <2>2. monthOf[a] \in Months
    BY <2>1 DEF Shapes
  <2>3. Stored(monthOf[a]) \subseteq Stored(monthOf[a])'
    <3>1. PICK m \in Months : m = monthOf[a]
      BY <2>2
    <3>2. Stored(m) \subseteq Stored(m)' /\ monthOf'[a] = m
      BY <1>1, <2>1, <3>1
    <3> QED BY <3>1, <3>2 DEF Stored
  <2> QED BY <1>2, <2>1, <2>3 DEF ListingInv
<1>3. Existing' = Existing
  BY DEF Existing
<1>4. \A a \in Applies : writer'[a] = "WriteManifest" => listed'[a] \subseteq Existing'
  BY <1>3 DEF ListingInv
<1> QED BY <1>1, <1>2, <1>3, <1>4 DEF ListingInv

\* What an execution found is still there.
LEMMA FoundStays ==
    ASSUME Shapes, AcceptedInv, ListingInv, [Next]_vars
    PROVE  \A a \in Applies : found'[a] \subseteq Stored(monthOf[a])'
<1> SUFFICES ASSUME NEW b \in Applies PROVE found'[b] \subseteq Stored(monthOf[b])'
  OBVIOUS
<1>1. CASE found'[b] = found[b]
  <2>1. CASE monthOf[b] = None
    BY <1>1, <2>1 DEF ListingInv, Stored, AcceptedInv
  <2>2. CASE monthOf[b] # None
    <3>1. PICK m \in Months : m = monthOf[b]
      BY <2>2 DEF Shapes
    <3>2. found[b] \subseteq Stored(m) /\ Stored(m) \subseteq Stored(m)' /\ monthOf'[b] = m
      BY <2>2, <3>1, RecordsStay DEF ListingInv
    <3> QED BY <1>1, <3>2 DEF Stored
  <2> QED BY <2>1, <2>2
<1>2. CASE Accept(b)
  <2>1. /\ found'[b] = Stored(month) /\ monthOf'[b] = month /\ month \in Months
        /\ status' = status
    BY <1>2 DEF Accept, Shapes
  <2>2. Stored(month) \subseteq {c \in Applies : status'[c] # "none" /\ monthOf'[c] = month}
    <3>1. PICK m \in Months : m = month
      BY <2>1
    <3>2. \A c \in Stored(m) : monthOf[c] # None
      BY Bounds DEF Stored
    <3>3. \A c \in Stored(m) : monthOf'[c] = m
      BY <3>2, RecordsStay DEF Stored
    <3>4. Stored(m) \subseteq {c \in Applies : status'[c] # "none" /\ monthOf'[c] = m}
      BY <2>1, <3>3 DEF Stored
    <3> QED BY <3>1, <3>4
  <2> QED BY <2>1, <2>2 DEF Stored
<1>3. CASE found'[b] = {}
  BY <1>3
<1>4. ASSUME NEW a \in Applies, Accept(a) PROVE found'[b] = found[b] \/ Accept(b)
  BY <1>4 DEF Accept, Shapes
<1>5. ASSUME NEW a \in Applies, Bookkeeping(a) PROVE found'[b] = found[b] \/ found'[b] = {}
  BY <1>5, OneWriterMoves DEF GiveUp, Shapes
<1>6. CheckStep \/ UNCHANGED <<monthOf, status, switch, index, writers>> => found' = found
  BY CheckStepWrites DEF writers
<1> QED BY <1>1, <1>2, <1>3, <1>4, <1>5, <1>6, NextIs

\* An execution past its first write has written its record.
LEMMA NextKeepsWritten ==
    ASSUME Shapes, AcceptedInv, ListingInv, [Next]_vars
    PROVE  \A a \in Applies : writer'[a] \notin {"none", "RecordApply", "GaveUp"}
                             => status'[a] # "none"
<1> SUFFICES ASSUME NEW b \in Applies, writer'[b] \notin {"none", "RecordApply", "GaveUp"}
             PROVE  status'[b] # "none"
  OBVIOUS
<1>1. CASE writer'[b] = writer[b]
  BY <1>1, RecordsStay DEF ListingInv
<1>2. ASSUME NEW a \in Applies, Accept(a) PROVE writer'[b] = writer[b]
  BY <1>2 DEF Accept, Shapes
<1>3. ASSUME NEW a \in Applies, Bookkeeping(a), writer'[b] # writer[b]
      PROVE  status'[b] # "none"
  <2>1. a = b
    BY <1>3, OneWriterMoves
  <2>2. CASE RecordApply(a)
    BY <2>1, <2>2 DEF RecordApply, Shapes
  <2>3. CASE writer[b] \notin {"none", "RecordApply", "GaveUp"}
    BY <2>3, RecordsStay DEF ListingInv
  <2> QED BY <1>3, <2>1, <2>2, <2>3 DEF Bookkeeping, ListMonth, WriteMonthIndex, ListMonths,
             WriteManifest, GiveUp, Shapes
<1>4. CheckStep => writer' = writer
  BY CheckStepWrites DEF writers
<1>5. UNCHANGED <<monthOf, status, switch, index, writers>> => writer' = writer
  BY DEF writers
<1> QED BY <1>1, <1>2, <1>3, <1>4, <1>5, NextIs

\* Listings and shards hold records that are there.
LEMMA NextKeepsListings ==
    ASSUME Shapes, AcceptedInv, ListingInv, [Next]_vars
    PROVE  ListingInv'
<1>w. \A a \in Applies : writer'[a] \notin {"none", "RecordApply", "GaveUp"} => status'[a] # "none"
  BY NextKeepsWritten
<1>f. \A a \in Applies : found'[a] \subseteq Stored(monthOf[a])'
  BY FoundStays
<1>s. \A m \in Months : Stored(m) \subseteq Stored(m)'
  BY RecordsStay
<1>l. ASSUME UNCHANGED <<shard, manifest>>,
             \A a \in Applies : writer'[a] \in {"WriteMonthIndex", "WriteManifest"} =>
               writer'[a] = writer[a] /\ page'[a] = page[a] /\ listed'[a] = listed[a]
      PROVE  ListingInv'
  BY <1>f, <1>l, <1>w, ListingsLast DEF ListingInv
<1>1. ASSUME NEW a \in Applies, Accept(a) PROVE ListingInv'
  BY <1>1, <1>l DEF Accept, Shapes, index
<1>2. ASSUME NEW a \in Applies, RecordApply(a) PROVE ListingInv'
  BY <1>2, <1>l DEF RecordApply, Shapes, index
<1>3. ASSUME NEW a \in Applies, GiveUp(a) PROVE ListingInv'
  BY <1>3, <1>l DEF GiveUp, Shapes, index
<1>4. ASSUME NEW a \in Applies, ListMonth(a) PROVE ListingInv'
  <2> DEFINE keys == Stored(monthOf[a])
  <2>1. /\ writer' = [writer EXCEPT ![a] = "WriteMonthIndex"]
        /\ page' = [page EXCEPT ![a] = [exists |-> TRUE, applies |-> FirstPage(keys),
                                        truncated |-> keys # FirstPage(keys)]]
        /\ UNCHANGED <<monthOf, status, shard, manifest, listed>>
    BY <1>4 DEF ListMonth, index
  <2>2. FirstPage(keys) \subseteq keys
    BY DEF FirstPage
  <2>3. \A m : Stored(m)' = Stored(m)
    BY <2>1 DEF Stored
  <2>4. Existing' = Existing
    BY <2>1 DEF Existing
  <2>5. page'[a].exists /\ page'[a].applies \subseteq Stored(monthOf[a])
    BY <2>1, <2>2 DEF Shapes
  <2>6. \A b \in Applies : writer'[b] = "WriteMonthIndex" =>
          page'[b].exists /\ page'[b].applies \subseteq Stored(monthOf[b])
    BY <2>1, <2>5 DEF Shapes, ListingInv
  <2>7. \A b \in Applies : writer'[b] = "WriteManifest" => listed'[b] \subseteq Existing'
    BY <2>1, <2>4 DEF Shapes, ListingInv
  <2>8. (\A b \in Applies : writer[b] = "WriteMonthIndex" =>
          page[b].exists /\ page[b].applies \subseteq Stored(monthOf[b]))'
    BY <2>1, <2>6 DEF Stored
  <2> QED BY <1>w, <1>f, <2>1, <2>3, <2>4, <2>7, <2>8 DEF ListingInv
<1>5. ASSUME NEW a \in Applies, WriteMonthIndex(a) PROVE ListingInv'
  <2>1. /\ writer[a] = "WriteMonthIndex" /\ writer' = [writer EXCEPT ![a] = "ListMonths"]
        /\ shard' = [shard EXCEPT ![monthOf[a]] = page[a]]
        /\ page' = [page EXCEPT ![a] = NoShard]
        /\ UNCHANGED <<monthOf, status, manifest, listed>>
    BY <1>5 DEF WriteMonthIndex
  <2>2. page[a].exists /\ page[a].applies \subseteq Stored(monthOf[a])
    BY <2>1 DEF ListingInv
  <2>3. \A m : Stored(m)' = Stored(m)
    BY <2>1 DEF Stored
  <2>4. Existing \subseteq Existing'
    BY <2>1, <2>2 DEF Existing, Shapes
  <2>5. \A m \in Months : shard'[m].applies \subseteq Stored(m)
    BY <2>1, <2>2 DEF ListingInv, Shapes
  <2>6. (\A b \in Applies : writer[b] = "WriteMonthIndex" =>
          page[b].exists /\ page[b].applies \subseteq Stored(monthOf[b]))'
    BY <2>1 DEF ListingInv, Shapes, Stored
  <2>7. \A b \in Applies : writer'[b] = "WriteManifest" => listed'[b] \subseteq Existing'
    BY <2>1, <2>4 DEF Shapes, ListingInv
  <2> QED BY <1>w, <1>f, <2>1, <2>3, <2>4, <2>5, <2>6, <2>7 DEF ListingInv
<1>6. ASSUME NEW a \in Applies, ListMonths(a) PROVE ListingInv'
  <2>1. /\ writer' = [writer EXCEPT ![a] = "WriteManifest"]
        /\ listed' = [listed EXCEPT ![a] = Existing]
        /\ UNCHANGED <<monthOf, status, shard, manifest, page>>
    BY <1>6 DEF ListMonths, index, Existing
  <2>2. Existing' = Existing /\ \A m : Stored(m)' = Stored(m)
    BY <2>1 DEF Existing, Stored
  <2>3. \A b \in Applies : writer'[b] = "WriteManifest" => listed'[b] \subseteq Existing
    BY <2>1 DEF ListingInv, Shapes
  <2>4. (\A b \in Applies : writer[b] = "WriteMonthIndex" =>
          page[b].exists /\ page[b].applies \subseteq Stored(monthOf[b]))'
    BY <2>1 DEF ListingInv, Shapes, Stored
  <2> QED BY <1>w, <1>f, <2>1, <2>2, <2>3, <2>4 DEF ListingInv
<1>7. ASSUME NEW a \in Applies, WriteManifest(a) PROVE ListingInv'
  <2>1. /\ writer[a] = "WriteManifest" /\ writer' = [writer EXCEPT ![a] = "Done"]
        /\ manifest' = listed[a]
        /\ listed' = [listed EXCEPT ![a] = {}]
        /\ UNCHANGED <<monthOf, status, shard, page>>
    BY <1>7 DEF WriteManifest
  <2>2. Existing' = Existing /\ \A m : Stored(m)' = Stored(m)
    BY <2>1 DEF Existing, Stored
  <2>3. \A b \in Applies : writer'[b] = "WriteManifest" => listed'[b] \subseteq Existing
    BY <2>1 DEF ListingInv, Shapes
  <2>4. (\A b \in Applies : writer[b] = "WriteMonthIndex" =>
          page[b].exists /\ page[b].applies \subseteq Stored(monthOf[b]))'
    BY <2>1 DEF ListingInv, Shapes, Stored
  <2> QED BY <1>w, <1>f, <2>1, <2>2, <2>3, <2>4 DEF ListingInv
<1>8. CASE CheckStep
  BY <1>8, <1>l, CheckStepWrites DEF index, writers
<1>9. CASE UNCHANGED <<monthOf, status, switch, index, writers>>
  BY <1>9, <1>l DEF index, writers
<1> QED BY <1>1, <1>2, <1>3, <1>4, <1>5, <1>6, <1>7, <1>8, <1>9, NextIs DEF Bookkeeping

-----------------------------------------------------------------------------
(* The page, as what serves moves on                                       *)

\* What serves only ever moves on to a later apply, and a step that leaves it
\* and no switch under way marks it launched only before it is in any listing.
LEMMA ServingMovesOn ==
    ASSUME Shapes, AcceptedInv, ServesInv, [Next]_vars
    PROVE  /\ serving <= serving'
           /\ switching' # "none" => serving < serving' \/ (serving' = serving /\ switching # "none")
           /\ switching # "none" => serving' = serving
           /\ (/\ serving' = serving /\ serving # None /\ switching = "none"
               /\ status'[serving] = "launched" /\ status[serving] # "none")
               => status[serving] = "launched"
<1> USE Bounds DEF Shapes
<1>1. ASSUME NEW a \in Applies, Accept(a)
      PROVE  /\ switching = "none" /\ switching' = switching /\ status' = status
             /\ serving' = serving \/ (serving = None /\ serving' = a)
  BY <1>1 DEF Accept, AcceptedInv
<1>2. ASSUME NEW a \in Applies, Bookkeeping(a)
      PROVE  /\ serving' = serving /\ switching' = switching
             /\ status' # status => RecordApply(a)
  BY <1>2, OneWriterMoves DEF switch
<1>3. ASSUME NEW a \in Applies, RecordApply(a), serving # None,
             status'[serving] = "launched", status[serving] # "none"
      PROVE  status[serving] = "launched"
  BY <1>3 DEF RecordApply, ServesInv
<1>4. CASE WriteCurrent
  BY <1>4 DEF WriteCurrent, Claimed, AcceptedInv
<1>5. CASE RetireOldRecord
  BY <1>5 DEF RetireOldRecord
<1>6. CASE UpdateRecord
  BY <1>6 DEF UpdateRecord
<1>7. CASE RecordFailure
  <2>1. /\ serving' = serving /\ switching = "none" /\ switching' = "none"
        /\ waiting # serving /\ status' \in {status, [status EXCEPT ![waiting] = "failed"]}
    BY <1>7 DEF RecordFailure, Claimed, Puts, AcceptedInv
  <2> QED BY <2>1
<1>8. CASE CheckEnds
  BY <1>8 DEF CheckEnds, Claimed, AcceptedInv
<1>9. CASE UNCHANGED <<monthOf, status, switch, index, writers>>
  BY <1>9 DEF switch
<1>10. ASSUME NEW a \in Applies, Accept(a) \/ Bookkeeping(a)
       PROVE  /\ serving <= serving' /\ switching' = switching
              /\ switching # "none" => serving' = serving
              /\ (/\ serving' = serving /\ serving # None
                  /\ status'[serving] = "launched" /\ status[serving] # "none")
                  => status[serving] = "launched"
  BY <1>1, <1>2, <1>3, <1>10 DEF None
<1> QED BY <1>4, <1>5, <1>6, <1>7, <1>8, <1>9, <1>10, NextIs DEF CheckStep

\* The page stays true to what served when it opened the month.
LEMMA NextKeepsPage ==
    ASSUME Shapes, ViewOK, AcceptedInv, ServesInv, ListingInv, PageInv, [Next]_vars
    PROVE  PageInv'
<1> USE Bounds
<1>1. \A a \in Applies : status[a] # "none" => status'[a] # "none"
  BY RecordsStay
<1>2. serving \in Nat /\ serving' \in Nat /\ view.since \in Nat
  BY NextKeepsShapes DEF Shapes, ViewOK, None
<1>3. CASE view' = view
  <2>1. (\A a \in view.keys : status[a] # "none")'
    BY <1>1, <1>3 DEF PageInv, ViewOK
  <2>2. (\A a \in view.launched : a <= serving)' /\ (view.since <= serving)'
    <3>1. \A a \in view.launched : a \in Nat /\ a <= serving
      BY DEF PageInv, ViewOK
    <3> QED BY <1>2, <1>3, <3>1, ServingMovesOn DEF PageInv
  <2>3. (switching # "none" => view.since < serving)'
    BY <1>2, <1>3, ServingMovesOn DEF PageInv
  <2>4. ASSUME view.since = serving', serving' # None, status'[serving'] = "launched",
               serving' \in view.keys \ view.unread
        PROVE  serving' \in view.launched
    <3>1. serving' = serving /\ switching = "none"
      BY <1>2, <2>4, ServingMovesOn DEF PageInv
    <3>2. status[serving] # "none"
      BY <2>4, <3>1 DEF PageInv
    <3> QED BY <2>4, <3>1, <3>2, ServingMovesOn DEF PageInv
  <2> QED BY <1>3, <2>1, <2>2, <2>3, <2>4 DEF PageInv
<1>4. CASE PageStep
  <2>1. UNCHANGED <<status, serving, switching>>
    BY <1>4 DEF PageStep, Load, OpenNextMonth, ReadRecord, ReadFails, ShowMonth, switch
  <2>2. CASE Load \/ ShowMonth
    <3>1. view'.keys = {} /\ view'.launched = {} /\ view'.since = None
      BY <2>2 DEF Load, ShowMonth, NoView
    <3>2. switching # "none" => 0 < serving
      BY <1>2 DEF AcceptedInv, None
    <3> QED BY <1>2, <2>1, <3>1, <3>2 DEF PageInv, None
  <2>3. CASE OpenNextMonth
    <3>1. PICK m \in view.months :
            view' = [view EXCEPT
              !.opening = m, !.keys = shard[m].applies, !.unread = shard[m].applies,
              !.since = IF switching = "none" THEN serving ELSE None,
              !.months = {}]
      BY <2>3 DEF OpenNextMonth
    <3>2. m \in Months
      BY DEF ViewOK
    <3>3. /\ view'.keys = shard[m].applies /\ view'.unread = shard[m].applies
          /\ view'.launched = view.launched
          /\ view'.since = IF switching = "none" THEN serving ELSE None
      BY <3>1 DEF ViewOK
    <3>4. \A a \in view'.keys : status[a] # "none"
      BY <3>2, <3>3 DEF ListingInv, Stored
    <3>5. switching # "none" => None < serving
      BY <1>2 DEF AcceptedInv, None
    <3> QED BY <1>2, <2>1, <3>3, <3>4, <3>5 DEF PageInv, None
  <2>4. CASE ReadRecord
    <3>1. PICK a \in view.unread :
            view' = [view EXCEPT
              !.unread = @ \ {a},
              !.launched = IF status[a] = "launched" THEN @ \cup {a} ELSE @]
      BY <2>4 DEF ReadRecord
    <3>2. /\ view'.keys = view.keys /\ view'.unread = view.unread \ {a}
          /\ view'.launched = IF status[a] = "launched" THEN view.launched \cup {a}
                                                       ELSE view.launched
          /\ view'.since = view.since /\ a \in Applies
      BY <3>1 DEF ViewOK
    <3>3. status[a] = "launched" => a <= serving
      BY <3>2 DEF ServesInv
    <3> QED BY <2>1, <3>2, <3>3 DEF PageInv
  <2>5. CASE ReadFails
    <3>1. PICK a \in view.unread : view' = [view EXCEPT !.unread = @ \ {a}, !.keys = @ \ {a}]
      BY <2>5 DEF ReadFails
    <3>2. /\ view'.keys = view.keys \ {a} /\ view'.unread = view.unread \ {a}
          /\ view'.launched = view.launched /\ view'.since = view.since
      BY <3>1 DEF ViewOK
    <3> QED BY <2>1, <3>2 DEF PageInv
  <2> QED BY <1>4, <2>2, <2>3, <2>4, <2>5 DEF PageStep
<1>5. view' = view \/ PageStep
  <2>1. \A a \in Applies : Accept(a) \/ Bookkeeping(a) => view' = view
    BY OneWriterMoves DEF Accept
  <2>2. CheckStep => view' = view
    BY CheckStepWrites
  <2> QED BY <2>1, <2>2 DEF Next, Bookkeeping, CheckStep, PageStep, MonthPasses, vars
<1> QED BY <1>3, <1>4, <1>5

-----------------------------------------------------------------------------
(* An execution with the bookkeeping to itself                             *)

\* A step beside one that is alone is a later execution's: it finds the month
\* in place and, unless it is of the same month, leaves the shard as it is.
LEMMA OthersLeaveItDone ==
    ASSUME Shapes, AcceptedInv, ListingInv, NEW a \in alone, AloneOK(a),
           NEW c \in Applies, c # a, Bookkeeping(c)
    PROVE  AloneOK(a)'
<1> USE Bounds DEF Shapes
<1>1. /\ Writing(c) /\ writer[c] # "none" /\ writer'[c] \notin {"none", "RecordApply"}
      /\ \A b \in Applies : b # c => writer'[b] = writer[b]
      /\ UNCHANGED monthOf /\ found'[a] = found[a]
  BY OneWriterMoves
<1>2. a \in Applies /\ a < c /\ ~Writing(a) /\ \A b \in Applies : b < a => ~Writing(b)
  BY <1>1 DEF AloneOK
<1>3. writer'[a] = writer[a] /\ writer[a] \in {"Done", "GaveUp"}
  BY <1>1, <1>2 DEF AloneOK, Writing, Ends
<1>4. \A b \in Applies : b < a => ~Writing(b)'
  <2>1. \A b \in Applies : b < a => b # c /\ writer'[b] = writer[b]
    BY <1>1, <1>2
  <2> QED BY <1>2, <2>1 DEF Writing
<1>5. ~Writing(a)'
  BY <1>2, <1>3 DEF Writing
<1>6. Due(a)' = Due(a)
  BY <1>1 DEF Due
<1>7. Last(a)' <=> Last(a)
  BY <1>1 DEF Last
<1>8. CASE writer[a] = "Done"
  <2>1. /\ shard[monthOf[a]].exists /\ monthOf[a] \in Months
        /\ Last(a) => shard[monthOf[a]].truncated \/ Due(a) \subseteq shard[monthOf[a]].applies
        /\ monthOf[a] \in manifest
        /\ \A b \in Applies : writer[b] = "WriteManifest" => monthOf[a] \in listed[b]
    BY <1>2, <1>8 DEF AloneOK
  <2>2. /\ shard'[monthOf[a]].exists
        /\ Last(a) => shard'[monthOf[a]] = shard[monthOf[a]]
    <3>1. CASE WriteMonthIndex(c)
      <4>1. shard' = [shard EXCEPT ![monthOf[c]] = page[c]] /\ page[c].exists
        BY <3>1 DEF WriteMonthIndex, ListingInv
      <4>2. Last(a) => monthOf[c] # monthOf[a]
        BY <1>2 DEF Last
      <4> QED BY <2>1, <4>1, <4>2
    <3>2. CASE shard' = shard
      BY <2>1, <3>2
    <3> QED BY <3>1, <3>2 DEF Bookkeeping, RecordApply, ListMonth, ListMonths, WriteManifest,
               GiveUp, index
  <2>3. monthOf[a] \in manifest'
    BY <2>1 DEF Bookkeeping, RecordApply, ListMonth, WriteMonthIndex, ListMonths, WriteManifest,
       GiveUp, index
  <2>4. \A b \in Applies : writer'[b] = "WriteManifest" => monthOf[a] \in listed'[b]
    <3>1. CASE ListMonths(c)
      <4>1. /\ writer' = [writer EXCEPT ![c] = "WriteManifest"]
            /\ listed' = [listed EXCEPT ![c] = {m \in Months : shard[m].exists}]
        BY <3>1 DEF ListMonths
      <4>2. monthOf[a] \in {m \in Months : shard[m].exists}
        BY <2>1
      <4> QED BY <2>1, <4>1, <4>2
    <3>2. CASE ~ListMonths(c)
      <4>1. /\ writer'[c] # "WriteManifest"
            /\ \A b \in Applies : b # c => listed'[b] = listed[b]
        BY <3>2 DEF Bookkeeping, RecordApply, ListMonth, WriteMonthIndex, WriteManifest, GiveUp
      <4> QED BY <1>1, <2>1, <4>1
    <3> QED BY <3>1, <3>2
  <2>5. /\ shard'[monthOf'[a]].exists /\ monthOf'[a] \in manifest'
        /\ Last(a)' => shard'[monthOf'[a]].truncated \/ Due(a)' \subseteq shard'[monthOf'[a]].applies
        /\ \A b \in Applies : writer'[b] = "WriteManifest" => monthOf'[a] \in listed'[b]
    BY <1>1, <1>6, <1>7, <2>1, <2>2, <2>3, <2>4
  <2> HIDE DEF Shapes
  <2> QED BY <1>3, <1>4, <1>5, <1>8, <2>5 DEF AloneOK
<1>9. CASE writer[a] = "GaveUp"
  BY <1>3, <1>4, <1>5, <1>9 DEF AloneOK
<1> QED BY <1>3, <1>8, <1>9

\* Its own steps: it lists what it owes, writes that, lists the months and
\* writes those, and nobody else writes meanwhile.
LEMMA ItDoesItsPart ==
    ASSUME Shapes, AcceptedInv, ListingInv, NEW a \in alone, AloneOK(a), Bookkeeping(a)
    PROVE  AloneOK(a)'
<1> USE Bounds
<1>1. /\ a \in Applies /\ Writing(a) /\ writer'[a] # "none"
      /\ \A b \in Applies : b # a => writer'[b] = writer[b]
      /\ UNCHANGED monthOf /\ monthOf[a] \in Months
      /\ GiveUp(a) \/ found' = found
  BY OneWriterMoves DEF Shapes, AcceptedInv
<1>2. \A b \in Applies : b # a => ~Writing(b) /\ ~Writing(b)'
  <2>1. \A b \in Applies : b # a => ~Writing(b)
    BY <1>1 DEF AloneOK
  <2> QED BY <1>1, <2>1 DEF Writing
<1>3. \A b \in Applies : b < a => b # a
  BY <1>1
<1>4. \A b \in Applies : b < a \/ (Writing(a)' /\ b # a) => ~Writing(b)'
  BY <1>2, <1>3
<1>5. Last(a)' = Last(a) /\ (GiveUp(a) \/ Due(a)' = Due(a))
  BY <1>1 DEF Due, Last
<1>6. CASE RecordApply(a) \/ GiveUp(a)
  <2>1. writer'[a] \in {"ListMonth", "GaveUp"}
    BY <1>1, <1>6 DEF RecordApply, GiveUp, Shapes
  <2> QED BY <1>4, <2>1 DEF AloneOK
<1>7. CASE ListMonth(a)
  <2> DEFINE keys == Stored(monthOf[a])
  <2>1. /\ writer[a] = "ListMonth" /\ writer'[a] = "WriteMonthIndex"
        /\ page'[a] = [exists |-> TRUE, applies |-> FirstPage(keys),
                       truncated |-> keys # FirstPage(keys)]
        /\ shard' = shard
    BY <1>1, <1>7 DEF ListMonth, Shapes, index
  <2>2. shard[monthOf[a]].applies \subseteq keys
    BY <1>1 DEF ListingInv
  <2>3. Due(a) \subseteq keys /\ Due(a)' = Due(a)
    <3>1. found' = found
      BY <1>7 DEF ListMonth, others
    <3>2. a \in keys
      BY <1>1, <2>1 DEF Stored, ListingInv
    <3> QED BY <1>1, <3>1, <3>2 DEF Due, ListingInv
  <2>4. page'[a].truncated \/ shard'[monthOf'[a]].applies \cup Due(a)' \subseteq page'[a].applies
    <3>1. page'[a].truncated = (keys # FirstPage(keys)) /\ page'[a].applies = FirstPage(keys)
      BY <2>1
    <3>2. shard'[monthOf'[a]].applies = shard[monthOf[a]].applies
      BY <1>1, <2>1
    <3> HIDE DEF keys
    <3> QED BY <2>2, <2>3, <3>1, <3>2
  <2> QED BY <1>4, <2>1, <2>4 DEF AloneOK
<1>8. CASE WriteMonthIndex(a)
  <2>1. /\ writer[a] = "WriteMonthIndex" /\ writer'[a] = "ListMonths"
        /\ shard'[monthOf[a]] = page[a] /\ Due(a)' = Due(a)
    BY <1>1, <1>8 DEF WriteMonthIndex, Shapes, others, Due
  <2>2. page[a].exists /\ (page[a].truncated \/ Due(a) \subseteq page[a].applies)
    BY <1>1, <2>1 DEF AloneOK, ListingInv
  <2> QED BY <1>1, <1>4, <1>5, <2>1, <2>2 DEF AloneOK
<1>9. CASE ListMonths(a)
  <2>1. /\ writer[a] = "ListMonths" /\ writer'[a] = "WriteManifest"
        /\ listed'[a] = Existing /\ shard' = shard /\ Existing' = Existing
        /\ Due(a)' = Due(a)
    BY <1>1, <1>9 DEF ListMonths, Shapes, index, Existing, others, Due
  <2>2. /\ shard[monthOf[a]].exists
        /\ Last(a) => shard[monthOf[a]].truncated \/ Due(a) \subseteq shard[monthOf[a]].applies
    BY <2>1 DEF AloneOK
  <2> QED BY <1>1, <1>4, <1>5, <2>1, <2>2 DEF AloneOK
<1>10. CASE WriteManifest(a)
  <2>1. /\ writer[a] = "WriteManifest" /\ writer'[a] = "Done"
        /\ manifest' = listed[a] /\ shard' = shard /\ Due(a)' = Due(a)
    BY <1>1, <1>10 DEF WriteManifest, Shapes, others, Due
  <2>2. /\ shard[monthOf[a]].exists
        /\ Last(a) => shard[monthOf[a]].truncated \/ Due(a) \subseteq shard[monthOf[a]].applies
        /\ Existing \subseteq listed[a]
    BY <2>1 DEF AloneOK
  <2>3. monthOf[a] \in manifest'
    BY <1>1, <2>1, <2>2 DEF Existing
  <2>4. \A b \in Applies : writer'[b] # "WriteManifest"
    BY <1>2, <2>1 DEF Writing, Ends
  <2> QED BY <1>1, <1>4, <1>5, <2>1, <2>2, <2>3, <2>4 DEF AloneOK
<1> QED BY <1>6, <1>7, <1>8, <1>9, <1>10 DEF Bookkeeping

\* One that starts beside others is not alone, and neither are they any more.
LEMMA AcceptKeepsAlone ==
    ASSUME Shapes, AcceptedInv, AloneInv, NEW c \in Applies, Accept(c)
    PROVE  AloneInv'
<1> USE Bounds
<1> DEFINE beside == {b \in Applies : Writing(b)}
<1>1. /\ monthOf[c] = None /\ writer[c] = "none"
      /\ writer'[c] = "RecordApply"
      /\ \A b \in Applies : b # c => writer'[b] = writer[b] /\ monthOf'[b] = monthOf[b]
      /\ \A b \in Applies : b # c => found'[b] = found[b]
      /\ alone' = IF beside = {} THEN alone \cup {c} ELSE alone \ beside
      /\ UNCHANGED <<shard, manifest, page, listed>>
  BY DEF Accept, Shapes, AcceptedInv, index
<1>2. \A b \in Applies : b # c => (Writing(b)' <=> Writing(b))
  BY <1>1 DEF Writing
<1>3. ASSUME NEW a \in alone, ~Writing(a) PROVE AloneOK(a)'
  <2>1. /\ a \in Applies /\ AloneOK(a) /\ monthOf[a] # None /\ a # c
        /\ writer'[a] = writer[a] /\ monthOf'[a] = monthOf[a]
    BY <1>1 DEF AloneInv, AloneOK, AcceptedInv, Shapes
  <2>2. a < c
    BY <1>1, <2>1 DEF AcceptedInv
  <2>3. writer[a] \in {"Done", "GaveUp"} /\ ~Writing(a)'
    BY <1>2, <1>3, <2>1 DEF AloneOK, Writing, Ends
  <2>4. \A b \in Applies : b < a => ~Writing(b)'
    <3>1. \A b \in Applies : b < a => b # c
      BY <2>1, <2>2
    <3> QED BY <1>2, <2>1, <3>1 DEF AloneOK
  <2>5. Due(a)' = Due(a)
    BY <1>1, <2>1 DEF Due
  <2>6. Last(a)' => Last(a)
    BY <1>1, <2>1 DEF Last
  <2>7. \A b \in Applies : writer'[b] = "WriteManifest" => writer[b] = "WriteManifest"
    BY <1>1
  <2> QED BY <1>1, <2>1, <2>3, <2>4, <2>5, <2>6, <2>7 DEF AloneOK
<1>4. CASE beside = {}
  <2>1. \A b \in Applies : b < c \/ b # c => ~Writing(b)'
    BY <1>2, <1>4
  <2>2. AloneOK(c)'
    BY <1>1, <2>1 DEF AloneOK
  <2>3. \A a \in alone : ~Writing(a)
    BY <1>4 DEF Shapes
  <2> QED BY <1>1, <1>3, <1>4, <2>2, <2>3 DEF AloneInv
<1>5. CASE beside # {}
  <2>1. \A a \in alone' : a \in alone /\ ~Writing(a)
    BY <1>1, <1>5 DEF Shapes
  <2> QED BY <1>3, <2>1 DEF AloneInv
<1> QED BY <1>4, <1>5

\* Whoever is alone has done its part so far, whatever the next step is.
LEMMA NextKeepsAlone ==
    ASSUME Shapes, AcceptedInv, ListingInv, AloneInv, [Next]_vars
    PROVE  AloneInv'
<1>1. ASSUME NEW c \in Applies, Bookkeeping(c) PROVE AloneInv'
  <2>1. alone' \subseteq alone
    BY <1>1, OneWriterMoves
  <2>2. ASSUME NEW a \in alone PROVE AloneOK(a)'
    BY <1>1, <2>2, ItDoesItsPart, OthersLeaveItDone DEF AloneInv
  <2> QED BY <2>1, <2>2 DEF AloneInv
<1>2. CASE UNCHANGED <<monthOf, shard, manifest, writer, page, listed, alone, found>>
  BY <1>2 DEF AloneInv, AloneOK, Writing, Due, Last, Existing
<1>3. CheckStep => UNCHANGED <<monthOf, shard, manifest, writer, page, listed, alone, found>>
  BY CheckStepWrites DEF index, writers
<1>4. UNCHANGED <<monthOf, status, switch, index, writers>>
        => UNCHANGED <<monthOf, shard, manifest, writer, page, listed, alone, found>>
  BY DEF index, writers
<1> QED BY <1>1, <1>2, <1>3, <1>4, AcceptKeepsAlone, NextIs

-----------------------------------------------------------------------------
(* The theorems                                                            *)

\* An empty history is in order.
LEMMA InitIsInOrder == Init => IndexInv
<1> SUFFICES ASSUME Init PROVE IndexInv
  OBVIOUS
<1> USE Bounds DEF Init
<1>1. Shapes
  <2>1. NoShard \in Shards
    BY DEF NoShard, Shards
  <2> QED BY <2>1 DEF Shapes
<1>2. ViewOK
  BY DEF ViewOK, NoView
<1>3. AcceptedInv /\ ServesInv /\ PageInv
  BY DEF AcceptedInv, ServesInv, PageInv, NoView, None
<1>4. ListingInv /\ AloneInv
  BY DEF ListingInv, AloneInv, NoShard, Existing
<1> QED BY <1>1, <1>2, <1>3, <1>4 DEF IndexInv

\* So everything said of the index holds throughout.
LEMMA IndexHolds == Spec => []IndexInv
<1>1. IndexInv /\ [Next]_vars => IndexInv'
  BY NextKeepsShapes, NextKeepsView, NextKeepsAccepted, NextKeepsServing, NextKeepsPage,
     NextKeepsListings, NextKeepsAlone DEF IndexInv
<1> QED BY <1>1, InitIsInOrder, PTL DEF Spec

\* Every variable keeps its type, and a shard lists records stamped in its own
\* month alone.
THEOREM IndexTypeCorrect == Spec => []TypeOK
<1>1. IndexInv => TypeOK
  BY DEF IndexInv, Shapes, ListingInv, Stored, TypeOK
<1> QED BY <1>1, IndexHolds, PTL

\* statemachine.py, the rebuilt index: whatever failed before and whatever two
\* executions side by side wrote over one another, the last execution of a
\* month that has the bookkeeping to itself leaves in the month's shard its own
\* record and every one it found, or the shard marked truncated, and the month
\* in the manifest.
THEOREM IndexHeals == Spec => []HealedByTheLast
<1>1. IndexInv => HealedByTheLast
  <2> SUFFICES ASSUME IndexInv, NEW a \in alone, writer[a] = "Done",
                      \A b \in Applies : b > a => monthOf[b] # monthOf[a]
               PROVE  LET s == shard[monthOf[a]]
                      IN  /\ monthOf[a] \in manifest
                          /\ s.applies \subseteq Stored(monthOf[a])
                          /\ found[a] \cup {a} \subseteq s.applies \/ s.truncated
    BY DEF HealedByTheLast
  <2>1. monthOf[a] \in manifest /\ monthOf[a] \in Months
    BY DEF IndexInv, AloneInv, AloneOK, Shapes
  <2>2. shard[monthOf[a]].truncated \/ Due(a) \subseteq shard[monthOf[a]].applies
    BY DEF IndexInv, AloneInv, AloneOK, Last
  <2> QED BY <2>1, <2>2 DEF IndexInv, ListingInv, Due
<1> QED BY <1>1, IndexHolds, PTL

\* README, The dashboard: what a visitor could walk to stays within reach,
\* unless its month says that it is cut short, as long as only executions that
\* have the bookkeeping to themselves write.
THEOREM HistoryStays == Spec => HistoryStaysReachable
<1> DEFINE Keeps ==
      (\A w \in Applies : writer'[w] # writer[w] => w \in alone)
        => \A a \in Applies :
             Reachable(a) => Reachable(a)' \/ shard'[monthOf[a]].truncated
<1>1. IndexInv /\ [Next]_vars => Keeps \/ UNCHANGED <<shard, manifest>>
  <2> SUFFICES ASSUME IndexInv, [Next]_vars, ~ UNCHANGED <<shard, manifest>>,
                      \A w \in Applies : writer'[w] # writer[w] => w \in alone,
                      NEW a \in Applies, Reachable(a)
               PROVE  Reachable(a)' \/ shard'[monthOf[a]].truncated
    OBVIOUS
  <2>1. PICK m \in manifest : a \in shard[m].applies
    BY DEF Reachable
  <2>2. m \in Months /\ monthOf[a] = m
    BY <2>1 DEF IndexInv, Shapes, ListingInv, Stored
  <2>3. PICK w \in Applies : WriteMonthIndex(w) \/ WriteManifest(w)
    <3>1. \A c \in Applies : ~Accept(c)
      BY DEF Accept, index
    <3>2. ~CheckStep
      BY CheckStepWrites DEF IndexInv, index
    <3>3. \A c \in Applies :
            Bookkeeping(c) => WriteMonthIndex(c) \/ WriteManifest(c)
      BY DEF Bookkeeping, RecordApply, ListMonth, ListMonths, GiveUp, index
    <3> QED BY <3>1, <3>2, <3>3, NextIs DEF index
  <2>4. w \in alone /\ AloneOK(w)
    <3>1. writer'[w] # writer[w]
      BY <2>3 DEF WriteMonthIndex, WriteManifest, IndexInv, Shapes
    <3> QED BY <3>1 DEF IndexInv, AloneInv
  <2>5. CASE WriteMonthIndex(w)
    <3>1. /\ shard' = [shard EXCEPT ![monthOf[w]] = page[w]] /\ manifest' = manifest
          /\ page[w].truncated \/ shard[monthOf[w]].applies \subseteq page[w].applies
      BY <2>4, <2>5 DEF WriteMonthIndex, AloneOK
    <3>2. shard'[m].truncated \/ a \in shard'[m].applies
      BY <2>1, <2>2, <3>1 DEF IndexInv, Shapes
    <3> QED BY <2>1, <2>2, <3>1, <3>2 DEF Reachable
  <2>6. CASE WriteManifest(w)
    <3>1. manifest' = listed[w] /\ shard' = shard /\ Existing \subseteq listed[w]
      BY <2>4, <2>6 DEF WriteManifest, AloneOK
    <3>2. m \in manifest'
      BY <2>1, <3>1 DEF IndexInv, ListingInv
    <3> QED BY <2>1, <3>1, <3>2 DEF Reachable
  <2> QED BY <2>3, <2>5, <2>6
<1>2. Spec => [][Keeps]_<<shard, manifest>>
  BY <1>1, IndexHolds, PTL DEF Spec
<1> QED BY <1>2 DEF HistoryStaysReachable

\* app.js withOutcomes, showVersions: if nothing was switched while the page
\* read, it names what serves, when that is in the newest month it opened and
\* is marked launched, whatever else is marked launched.
THEOREM PageNamesTheServing == Spec => NamesTheServing
<1> DEFINE Names ==
      (/\ ~view.shown /\ view'.shown
       /\ switching = "none" /\ view.since = serving
       /\ serving \in view.keys /\ status[serving] = "launched")
        => view'.serving = serving
<1>1. IndexInv /\ [Next]_vars => Names \/ UNCHANGED view
  <2> SUFFICES ASSUME IndexInv, [Next]_vars, view' # view,
                      ~view.shown, view'.shown,
                      switching = "none", view.since = serving,
                      serving \in view.keys, status[serving] = "launched"
               PROVE  view'.serving = serving
    OBVIOUS
  <2>1. ViewOK
    BY DEF IndexInv
  <2>2. ~Load
    BY DEF Load, NoView
  <2>3. ~OpenNextMonth /\ ~ReadRecord /\ ~ReadFails
    BY <2>1 DEF OpenNextMonth, ReadRecord, ReadFails, ViewOK
  <2>4. ShowMonth
    <3>1. \A c \in Applies : ~Accept(c) /\ ~Bookkeeping(c)
      BY OneWriterMoves DEF Accept, IndexInv
    <3>2. ~CheckStep
      BY CheckStepWrites DEF IndexInv
    <3> QED BY <2>2, <2>3, <3>1, <3>2
         DEF Next, Bookkeeping, CheckStep, MonthPasses, vars
  <2>5. view'.serving = ShowVersions(view.launched) /\ view.unread = {}
    BY <2>4 DEF ShowMonth, NoView
  <2>6. /\ serving \in Applies /\ serving \in view.launched
        /\ \A b \in view.launched : b \in Applies /\ b <= serving
    BY <2>1, <2>5, Bounds DEF IndexInv, PageInv, ViewOK
  <2>7. \A a \in view.launched : (\A b \in view.launched : b <= a) => a = serving
    <3>1. \A a \in view.launched : a \in Nat /\ a <= serving /\ serving \in Nat
      BY <2>6, Bounds
    <3> QED BY <2>6, <3>1
  <2>8. (CHOOSE a \in view.launched : \A b \in view.launched : b <= a) = serving
    BY <2>6, <2>7
  <2>9. view.launched # {}
    BY <2>6
  <2> QED BY <2>5, <2>8, <2>9 DEF ShowVersions
<1>2. Spec => [][Names]_view
  BY <1>1, IndexHolds, PTL DEF Spec
<1> QED BY <1>2 DEF NamesTheServing
=============================================================================
