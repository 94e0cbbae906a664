----------------------------- MODULE ApplyState -----------------------------
(***************************************************************************)
(* What the receive machine and the check machine share: the three         *)
(* Parameter Store values (current, pending, ready), the one timer, the    *)
(* apply records in the dashboard bucket, and the instances they launch.   *)
(* Both machines hold all of their memory here (enclavize/logic/           *)
(* statemachine.py and checkmachine.py); neither has any of its own that   *)
(* outlives one execution.                                                 *)
(*                                                                         *)
(* An apply is numbered in the order its request was stamped, so its       *)
(* number stands for its `at` and its `recordKey`.  Number 0 is "none".    *)
(***************************************************************************)
EXTENDS Integers, FiniteSets

CONSTANTS
  Commits,        \* the commits requests may name
  NoCommit,       \* the commit of a request that has not arrived
  MaxApplies,     \* bound: how many requests arrive
  MaxReceiving,   \* bound: how many receive executions overlap
  Checks          \* bound: check executions that may run at once

ASSUME ConstantsOK ==
  /\ MaxApplies \in Nat \ {0}
  /\ MaxReceiving \in Nat \ {0}
  /\ NoCommit \notin Commits
  /\ IsFiniteSet(Checks)

Applies == 1 .. MaxApplies
None    == 0
NoneOr  == 0 .. MaxApplies

VARIABLES
  current,     \* parameter: the apply whose commit the account says serves
  pending,     \* parameter: the apply in flight, with its `previous`
  ready,       \* parameter: the apply whose preparer wrote it; a reader
               \*   sees only that apply's commit
  timer,       \* does the check timer stand
  record,      \* S3: status in each apply's dashboard record
  preparer,    \* EC2: what became of each apply's preparing instance
  launches,    \* EC2: how often each apply's commit was launched to serve
  commitOf,    \* the commit each request named
  previousOf,  \* what each apply read as serving: pending.previous
  receive,     \* the state each apply's receive execution is in
  check,       \* the state each check execution is in
  expired      \* applies up to this one are older than the wait allows

account == <<current, pending, ready, timer, record>>
machines == <<preparer, launches>>
requests == <<commitOf, previousOf>>

Statuses  == {"none", "preparing", "launched", "retired", "failed"}
Preparers == {"none", "running", "spoke", "left", "stopped"}

(***************************************************************************)
(* `describe-instances` with state pending or running: an instance that    *)
(* has said ready is still up until its own shutdown takes effect.         *)
(***************************************************************************)
Up(a) == preparer[a] \in {"running", "spoke"}

(***************************************************************************)
(* Word(a): the value the parameter `ready` holds when a's preparer wrote  *)
(* it.  Two applies of one commit write the same word.                     *)
(***************************************************************************)
Word(a) == commitOf[a]

ReceiveEnds == {"Refused", "Failed", "Answered"}
Receiving(a) == receive[a] \notin {"none"} \cup ReceiveEnds
CheckRunning == \E c \in Checks : check[c] # "idle"
=============================================================================
