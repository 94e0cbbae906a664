------------------------------ MODULE Verdict ------------------------------
(***************************************************************************)
(* The judgement the sealing run passes on the account's event history     *)
(* (enclavize/logic/verdict.py): did anyone but the run act as root?       *)
(*                                                                         *)
(* An event is a record.  `what' is the pair (eventSource, eventName)      *)
(* reduced to the names the rules tell apart; `at' is eventTime and        *)
(* doubles as the request id, since both single an event out; `root',      *)
(* `home' and `aws' are isRoot, "in the home region" and invokedBy.  `by'  *)
(* is who really made the call: it is not in the history the code reads,   *)
(* and no rule below looks at it.                                          *)
(***************************************************************************)
EXTENDS Integers, FiniteSets

\* Names the rules tell apart; "Other" is any write they have no rule for.
EventNames == {"SetAccountPlan", "CreateAccount", "Billing", "CreateAccessKey",
               "DeleteAccessKey", "CreateOrganization", "DeleteOrganization",
               "Other"}

Actors == {"person", "run", "aws"}

Event == [what : EventNames, at : Nat \ {0}, by : Actors,
          root : BOOLEAN, home : BOOLEAN, aws : BOOLEAN]

\* Sources reachable only through sign-up and the billing console.
TrustedNames == {"SetAccountPlan", "CreateAccount", "Billing"}

PreflightNames == {"CreateAccessKey"}

\* Only what root did is evidence.
RootEvents(events) == {e \in events : e.root}

IsFirst(e, events) == e \in events /\ \A f \in events : e.at <= f.at

\* The window must reach back to the account's first moments.
OpensTheAccount(events) ==
    \E plan, account \in events :
        /\ plan.what = "SetAccountPlan"
        /\ account.what = "CreateAccount"
        /\ IsFirst(plan, events)
        /\ IsFirst(account, events \ {plan})

\* As it would be if a second key were no matter.
PreflightNamesOnly(before) ==
    \A e \in before : e.what \in TrustedNames \cup PreflightNames

\* By hand, before the run: signing up, and minting exactly one root key.
PreflightOnly(before) ==
    /\ \A e \in before : e.what \in TrustedNames \cup PreflightNames
    /\ Cardinality({e \in before : e.what = "CreateAccessKey"}) = 1

MadeByAws(e) == e.aws

\* During the run: a request id the run recorded, or a call AWS made for it.
AllAttributed(during, ownRequestIds) ==
    \A e \in during : e.at \in ownRequestIds \/ MadeByAws(e)

\* Root deleted its key, and the last time it did was the last it ever acted.
RootEndedWithItsKey(events) ==
    \E seal \in events :
        /\ seal.what = "DeleteAccessKey"
        /\ \A e \in events : e.at <= seal.at

Judge(events, ownRequestIds, startedAt) ==
    LET ordered == RootEvents({e \in events : e.home})
    IN  /\ OpensTheAccount(ordered)
        /\ PreflightOnly({e \in ordered : e.at < startedAt})
        /\ AllAttributed({e \in ordered : e.at >= startedAt}, ownRequestIds)
        /\ RootEndedWithItsKey(ordered)
        /\ RootEvents({e \in events : ~e.home}) = {}
=============================================================================
