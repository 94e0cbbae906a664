--------------------------- MODULE TeardownProofs ---------------------------
(***************************************************************************)
(* What the teardown promises however much goes wrong, and in every pass:  *)
(* the lock is never enforced without its statement, and a clean report    *)
(* leaves nothing but what its listings could not show, with what belongs  *)
(* to that or is made by it.  The survey lists no parts of other things,   *)
(* so the second rests on no part ever outliving its whole.  And, of a     *)
(* pass in which nothing fails:  one is enough where nobody else builds,   *)
(* and two are enough whoever does.                                        *)
(***************************************************************************)
EXTENDS Teardown, TLAPS

\* What no listing of the survey shows stands only with what one does show.
PartsHaveWholes ==
    /\ "mapping" \in standing => "endpoint" \in standing
    /\ "plan_key" \in standing => "plan" \in standing

\* The statement is tried only once its enforcement is off.
EnforcementFirst == at = "statement" => "enforcement" \notin standing

IInv ==
    /\ TypeOK
    /\ PartsHaveWholes
    /\ NeverEnforcesNothing
    /\ EnforcementFirst
    /\ CleanMeansGone

-----------------------------------------------------------------------------
(* The tables. *)

\* Where in the order of building the parts and their wholes are.
LEMMA Places ==
    /\ Len(BuildOrder) = 25
    /\ \A i \in 1..25 : /\ BuildOrder[i] = "enforcement" => i = 6
                        /\ BuildOrder[i] = "mapping" => i = 23
                        /\ BuildOrder[i] = "plan_key" => i = 21
                        /\ BuildOrder[i] = "go_flag" => i = 8
    /\ BuildOrder[5] = "statement" /\ BuildOrder[22] = "endpoint" /\ BuildOrder[20] = "plan"
  BY DEF BuildOrder

\* Whatever was stopped, what stood then was a prefix of that order: its parts
\* have their wholes.
LEMMA PrefixesAreWhole ==
    ASSUME NEW n \in 0..Len(BuildOrder)
    PROVE  /\ Built(n) \subseteq Enclaves
           /\ "enforcement" \in Built(n) => "statement" \in Built(n)
           /\ "mapping" \in Built(n) => "endpoint" \in Built(n)
           /\ "plan_key" \in Built(n) => "plan" \in Built(n)
  BY Places DEF Built, Enclaves

\* What the setup program builds comes after the go flag, so it is no lock.
LEMMA BuilderLeavesTheLock ==
    ASSUME NEW n \in 0..Len(BuildOrder), n < Len(BuildOrder), "go_flag" \in Built(n)
    PROVE  BuildOrder[n + 1] # "enforcement" /\ BuildOrder[n + 1] \in Enclaves
  BY Places DEF Built, Enclaves

\* The survey is the last step, the enforcement goes right before the statement.
LEMMA Steps ==
    /\ \A s \in DOMAIN After : After[s] \in DOMAIN After \cup {"reported"}
    /\ \A s \in DOMAIN After : After[s] = "reported" => s = "survey"
    /\ \A s \in DOMAIN After : After[s] = "statement" => s = "lock"
    /\ \A s \in DOMAIN Targets : s \in DOMAIN After /\ s # "survey" /\ s # "lock"
    /\ \A s \in DOMAIN Targets : "endpoint" \notin Targets[s]
    /\ \A s \in DOMAIN Targets : "statement" \in Targets[s] => s = "statement"
    /\ {"instances", "endpoint", "disable", "deployed", "distributions", "buckets", "zone",
        "policies", "lock", "vpc", "certificate", "survey"} \subseteq DOMAIN After
    /\ "idle" \notin DOMAIN After /\ "aborted" \notin DOMAIN After
    /\ "reported" \notin DOMAIN After
    /\ After["lock"] = "statement"
  BY DEF After, Targets, Roles

\* The resources that the proofs name.
LEMMA Names ==
    /\ Applied \subseteq Enclaves
    /\ "app_role" \notin Enclaves
    /\ \A r \in Enclaves : r \in Surveyed \cup {"mapping", "plan_key", "enforcement"}
    /\ {"plan", "endpoint", "statement"} \subseteq Surveyed
    /\ Surveyed \subseteq Enclaves
<1>1. \A r : r \in Built(25) <=> \E i \in 1..25 : r = BuildOrder[i]
  BY DEF Built
<1>2. \A r : r \in Surveyed <=> \E l \in Listings : r \in l
  BY DEF Surveyed
<1> QED
  BY <1>1, <1>2, Places DEF Enclaves, Applied, BuildOrder, Listings, Roles, Instances

\* No listing to delete by hides one of these but by a first page of others.
LEMMA Pages ==
    /\ OnePageSurvey \subseteq Enclaves /\ ByDomain \subseteq Enclaves
    /\ Instances \subseteq Enclaves
<1>1. \A r : r \in Built(25) <=> \E i \in 1..25 : r = BuildOrder[i]
  BY DEF Built
<1> QED
  BY <1>1, Places DEF Enclaves, Applied, BuildOrder, OnePageSurvey, OnePageDeletes,
     ByDomain, Instances

\* A listing shows only what stands.
LEMMA ListingsAreTrue ==
    ASSUME NEW S PROVE Listed(S) \subseteq S \cap standing
  BY DEF Listed

-----------------------------------------------------------------------------
(* Types. *)

LEMMA TypeInit == Init => TypeOK
<1>1. SUFFICES ASSUME Init PROVE TypeOK
  OBVIOUS
<1>2. PICK n \in 0..Len(BuildOrder), gone \in SUBSET {"setup_instance"} :
        /\ \E left \in Leftovers(n) : standing = (Built(n) \ gone) \cup left
        /\ built = IF "setup_instance" \in standing THEN n ELSE 0
  BY <1>1 DEF Init
<1>3. \A left \in Leftovers(n) : left \subseteq Applied \cup {"app_role"}
  BY DEF Leftovers, Applied
<1>4. standing \subseteq Enclaves \cup {"app_role"}
  BY <1>2, <1>3, PrefixesAreWhole, Names
<1>5. built \in 0..Len(BuildOrder)
  BY <1>2, Places
<1>6. /\ failures \in 0..MaxFailures /\ calm \in 0..2
      /\ found \subseteq Enclaves /\ unseen \subseteq Enclaves
      /\ stopping \subseteq Instances /\ beyond \subseteq OnePageSurvey
  BY <1>1, TeardownAssumption DEF Init
<1>7. /\ at = "idle" /\ domain = "ours"
      /\ off = FALSE /\ deployed = FALSE /\ executing = FALSE
      /\ failed = FALSE /\ busy = FALSE
  BY <1>1 DEF Init
<1> QED
  BY <1>4, <1>5, <1>6, <1>7, Zenon DEF TypeOK

\* One unit of the budget, or none.
LEMMA Budget ==
    ASSUME TypeOK, NEW trouble \in BOOLEAN, trouble => failures > 0, Note(trouble)
    PROVE  failures' \in 0..MaxFailures /\ failed' \in BOOLEAN /\ (failed => failed')
  BY TeardownAssumption DEF TypeOK, Note

LEMMA FailuresSpend ==
    ASSUME NEW S, NEW f \in Failures(S) PROVE f # {} => failures > 0
  BY DEF Failures

LEMMA TypeOthers ==
    ASSUME TypeOK, Build \/ BuilderEnds \/ Machinery \/ Application \/ Stopping
    PROVE  TypeOK'
<1>1. CASE Build
  <2>1. BuildOrder[built + 1] \in Enclaves
    BY <1>1, BuilderLeavesTheLock DEF Build, BuilderAlive, TypeOK
  <2> QED
    BY <1>1, <2>1, Places DEF Build, TypeOK, cdn, hidden, report
<1>2. CASE BuilderEnds
  BY <1>2, Places DEF BuilderEnds, TypeOK, cdn, hidden, report
<1>3. CASE Machinery
  <2>1. CASE Starts
    BY <2>1 DEF Starts, TypeOK, cdn, hidden, report
  <2>2. CASE Ends
    BY <2>2 DEF Ends, TypeOK, cdn, hidden, report
  <2>3. CASE \E r \in Applied : Creates(r)
    BY <2>3, Names DEF Creates, TypeOK, others, cdn, hidden, report
  <2>4. CASE \E r \in {"timer", "words"} : TakesDown(r)
    BY <2>4 DEF TakesDown, TypeOK, others, cdn, hidden, report
  <2> QED
    BY <1>3, <2>1, <2>2, <2>3, <2>4 DEF Machinery
<1>4. CASE Application
  BY <1>4, Names DEF Application, SaysReady, AppMakesRole, TypeOK, others, cdn, hidden, report, Applied
<1>5. CASE Stopping
  <2>1. PICK i \in Instances : Stops(i) \/ Stopped(i)
    BY <1>5 DEF Stopping
  <2>2. /\ stopping' \subseteq Instances /\ built' \in {built, 0}
        /\ failures' \in 0..MaxFailures
    BY <2>1, TeardownAssumption DEF Stops, Stopped, TypeOK, others
  <2>3. UNCHANGED <<at, domain, beyond, standing, executing, cdn, report, failed, busy>>
    BY <2>1 DEF Stops, Stopped, others
  <2> QED
    BY <2>2, <2>3, Places DEF TypeOK, cdn, report
<1> QED
  BY <1>1, <1>2, <1>3, <1>4, <1>5

\* What the steps of a pass other than the survey have in common: they go on,
\* they only take away, and their failures come out of the budget.
Removes ==
    /\ at \in DOMAIN After \ {"survey"}
    /\ at' \in DOMAIN After
    /\ at' = "statement" => at = "lock"
    /\ standing' \subseteq standing
    /\ built' \in {built, 0}
    /\ failures' \in 0..MaxFailures
    /\ off' \in BOOLEAN /\ deployed' \in BOOLEAN
    /\ failed' \in BOOLEAN /\ (failed => failed')
    /\ UNCHANGED <<domain, hidden, executing, busy, report>>

LEMMA Onward ==
    ASSUME NEW s \in DOMAIN After \ {"survey"}, Step(s)
    PROVE  /\ at \in DOMAIN After \ {"survey"}
           /\ at' \in DOMAIN After
           /\ at' = "statement" => at = "lock"
  BY Steps DEF Step

\* The steps of a pass that are plain attempts, and those that are not.
LEMMA PassSteps ==
    Pass <=>
      \/ TerminateInstances
      \/ \E s \in DOMAIN Targets : Attempt(s)
      \/ DeleteEndpoint \/ DisableDistributions \/ AwaitDeployed \/ DeleteDistributions
      \/ DeleteBuckets \/ DeleteZone \/ DeletePolicies \/ DisableLock
      \/ DeleteCertificate \/ Survey
<1>1. DOMAIN Targets = {"mapping", "api", "plan_key", "plan", "key", "machines", "timer",
        "oacs", "profiles", "roles", "users", "statement", "vpc", "parameters"}
  BY DEF Targets
<1> QED
  BY <1>1
  DEF Pass, DeleteMappings, DeleteApis, DeletePlanKeys, DeletePlans, DeleteKeys,
      DeleteStateMachines, DeleteSchedules, DeleteOriginControls, DeleteProfiles,
      DeleteRoles, DeleteUsers, DeleteStatement, DeleteAnchorVpcs, DeleteParameters

LEMMA AttemptRemoves ==
    ASSUME TypeOK, NEW s \in DOMAIN Targets, Attempt(s) PROVE Removes
<1>1. s \in DOMAIN After \ {"survey"} /\ Step(s)
  BY Steps DEF Attempt
<1>2. PICK failing \in Failures(Listed(Targets[s])) :
        /\ standing' = standing \ {r \in Listed(Targets[s]) \ failing : ~Refused(r)}
        /\ Note(failing # {})
  BY DEF Attempt
<1>3. failures' \in 0..MaxFailures /\ failed' \in BOOLEAN /\ (failed => failed')
  BY <1>2, FailuresSpend, Budget
<1>4. UNCHANGED <<domain, hidden, others, cdn, report, busy>>
  BY DEF Attempt
<1> QED
  BY <1>1, <1>2, <1>3, <1>4, Onward DEF Removes, others, cdn, TypeOK

LEMMA EmptyAndDeleteRemoves ==
    ASSUME TypeOK, NEW s \in DOMAIN After \ {"survey"}, NEW S, EmptyAndDelete(s, S)
    PROVE  Removes
<1>1. PICK failing \in Failures(Listed(S)),
          refilled \in SUBSET {r \in Listed(S) : Refills(r)} :
        /\ standing' = standing \ (Listed(S) \ (failing \cup refilled))
        /\ Note(failing # {})
  BY DEF EmptyAndDelete
<1>2. failures' \in 0..MaxFailures /\ failed' \in BOOLEAN /\ (failed => failed')
  BY <1>1, FailuresSpend, Budget
<1>3. UNCHANGED <<domain, hidden, others, cdn, report, busy>> /\ Step(s)
  BY DEF EmptyAndDelete
<1> QED
  BY <1>1, <1>2, <1>3, Onward DEF Removes, others, cdn, TypeOK

LEMMA PassRemoves ==
    ASSUME TypeOK, Pass, ~Survey PROVE Removes
<1>1. CASE TerminateInstances
  <2>1. PICK trouble \in BOOLEAN :
          /\ trouble => failures > 0
          /\ standing' \subseteq standing
          /\ failures' = IF trouble THEN failures - 1 ELSE failures
          /\ failed' = (failed \/ trouble \/ stopping \cap standing # {})
    BY <1>1 DEF TerminateInstances
  <2>2. failures' \in 0..MaxFailures /\ failed' \in BOOLEAN /\ (failed => failed')
    BY <2>1, TeardownAssumption DEF TypeOK
  <2>3. /\ built' \in {built, 0} /\ Step("instances")
        /\ UNCHANGED <<domain, hidden, executing, cdn, report, busy>>
    BY <1>1 DEF TerminateInstances
  <2> QED
    BY <2>1, <2>2, <2>3, Onward, Steps DEF Removes, cdn, TypeOK
<1>2. CASE \E s \in DOMAIN Targets : Attempt(s)
  BY <1>2, AttemptRemoves
<1>3. CASE DeleteEndpoint
  <2>1. PICK failing \in Failures({"endpoint"} \cap Listed(ByDomain)) :
          standing' \subseteq standing /\ Note(failing # {})
    BY <1>3 DEF DeleteEndpoint
  <2>2. failures' \in 0..MaxFailures /\ failed' \in BOOLEAN /\ (failed => failed')
    BY <2>1, FailuresSpend, Budget
  <2>3. Step("endpoint") /\ UNCHANGED <<domain, hidden, others, cdn, report, busy>>
    BY <1>3 DEF DeleteEndpoint
  <2> QED
    BY <2>1, <2>2, <2>3, Onward, Steps DEF Removes, others, cdn, TypeOK
<1>4. CASE DisableDistributions
  <2>1. PICK failing \in Failures(Listed({"cdn"})) :
          /\ off' = (off \/ "cdn" \in Listed({"cdn"}) \ failing)
          /\ Note(failing # {})
    BY <1>4 DEF DisableDistributions
  <2>2. failures' \in 0..MaxFailures /\ failed' \in BOOLEAN /\ (failed => failed')
    BY <2>1, FailuresSpend, Budget
  <2>3. off' \in BOOLEAN
    BY <2>1
  <2>4. Step("disable") /\ UNCHANGED <<domain, hidden, standing, others, deployed, report, busy>>
    BY <1>4 DEF DisableDistributions
  <2> QED
    BY <2>2, <2>3, <2>4, Onward, Steps DEF Removes, others, TypeOK
<1>5. CASE AwaitDeployed
  <2>1. PICK late \in BOOLEAN :
          /\ late => failures > 0
          /\ deployed' = (off /\ (deployed \/ (Listed({"cdn"}) # {} /\ ~late)))
          /\ Note(late)
    BY <1>5 DEF AwaitDeployed
  <2>2. failures' \in 0..MaxFailures /\ failed' \in BOOLEAN /\ (failed => failed')
    BY <2>1, Budget
  <2>3. deployed' \in BOOLEAN
    BY <2>1
  <2>4. Step("deployed") /\ UNCHANGED <<domain, hidden, standing, others, off, report, busy>>
    BY <1>5 DEF AwaitDeployed
  <2> QED
    BY <2>2, <2>3, <2>4, Onward, Steps DEF Removes, others, TypeOK
<1>6. CASE DeleteDistributions
  <2>1. PICK failing \in Failures(Listed({"cdn"})) :
          standing' \subseteq standing /\ Note(failing # {})
    BY <1>6 DEF DeleteDistributions
  <2>2. failures' \in 0..MaxFailures /\ failed' \in BOOLEAN /\ (failed => failed')
    BY <2>1, FailuresSpend, Budget
  <2>3. off' \in BOOLEAN /\ deployed' \in BOOLEAN
    BY <1>6 DEF DeleteDistributions
  <2>4. Step("distributions") /\ UNCHANGED <<domain, hidden, others, report, busy>>
    BY <1>6 DEF DeleteDistributions
  <2> QED
    BY <2>1, <2>2, <2>3, <2>4, Onward, Steps DEF Removes, others, TypeOK
<1>7. CASE DeleteBuckets \/ DeleteZone
  BY <1>7, EmptyAndDeleteRemoves, Steps DEF DeleteBuckets, DeleteZone
<1>8. CASE DeletePolicies
  <2>1. /\ standing' \subseteq standing
        /\ failures' \in 0..MaxFailures /\ failed' \in BOOLEAN /\ (failed => failed')
    BY <1>8, TeardownAssumption DEF DeletePolicies, TypeOK
  <2>2. Step("policies") /\ UNCHANGED <<domain, hidden, others, cdn, report, busy>>
    BY <1>8 DEF DeletePolicies
  <2> QED
    BY <2>1, <2>2, Onward, Steps DEF Removes, others, cdn, TypeOK
<1>9. CASE DisableLock
  <2>1. PICK trouble \in BOOLEAN :
          /\ trouble => failures > 0
          /\ standing' \subseteq standing /\ at' \in {"vpc", "statement"}
          /\ Note(trouble)
    BY <1>9, Steps DEF DisableLock
  <2>2. failures' \in 0..MaxFailures /\ failed' \in BOOLEAN /\ (failed => failed')
    BY <2>1, Budget
  <2>3. at = "lock" /\ UNCHANGED <<domain, hidden, others, cdn, report, busy>>
    BY <1>9 DEF DisableLock
  <2>4. {"lock", "vpc", "statement"} \subseteq DOMAIN After \ {"survey"}
    BY DEF After
  <2> QED
    BY <2>1, <2>2, <2>3, <2>4 DEF Removes, others, cdn, TypeOK
<1>10. CASE DeleteCertificate
  <2>1. PICK trouble \in BOOLEAN :
          /\ trouble => failures > 0
          /\ standing' \subseteq standing
          /\ Note(trouble)
    BY <1>10 DEF DeleteCertificate
  <2>2. failures' \in 0..MaxFailures /\ failed' \in BOOLEAN /\ (failed => failed')
    BY <2>1, Budget
  <2>3. Step("certificate") /\ UNCHANGED <<domain, hidden, others, cdn, report, busy>>
    BY <1>10 DEF DeleteCertificate
  <2> QED
    BY <2>1, <2>2, <2>3, Onward, Steps DEF Removes, others, cdn, TypeOK
<1> QED
  BY <1>1, <1>2, <1>3, <1>4, <1>5, <1>6, <1>7, <1>8, <1>9, <1>10, PassSteps

LEMMA SurveyShape ==
    ASSUME TypeOK, Survey
    PROVE  /\ at = "survey" /\ at' = "reported"
           /\ found' \subseteq Enclaves /\ unseen' \subseteq Enclaves /\ calm' \in 0..2
           /\ failures' \in 0..MaxFailures /\ failed' \in BOOLEAN /\ (failed => failed')
           /\ Surveyed \cap standing \subseteq found' \cup unseen'
           /\ found' \subseteq Surveyed \cap standing
           /\ UNCHANGED <<domain, hidden, standing, others, cdn, busy>>
<1>1. PICK lost \in {{}} \cup
              {l \in Listings : failures > 0 /\ (l \cap standing) \ Unshown # {}} :
        /\ found' = (Surveyed \cap standing) \ (Unshown \cup lost)
        /\ unseen' = (Unshown \cup lost) \cap standing
        /\ Note(lost # {})
  BY DEF Survey
<1>2. lost # {} => failures > 0
  BY <1>1
<1>3. failures' \in 0..MaxFailures /\ failed' \in BOOLEAN /\ (failed => failed')
  BY <1>1, <1>2, Budget
<1>4. found' \subseteq Enclaves /\ unseen' \subseteq Enclaves
  <2>1. lost \subseteq Surveyed
    BY <1>1 DEF Surveyed
  <2>2. Unshown \subseteq Enclaves
    BY Pages DEF Unshown, TypeOK
  <2> QED
    BY <1>1, <2>1, <2>2, Names
<1>5. at = "survey" /\ at' = "reported" /\ calm' \in 0..2
  BY DEF Survey, Step, After, TypeOK
<1> QED
  BY <1>1, <1>3, <1>4, <1>5 DEF Survey

\* Every step keeps every variable in its range.
LEMMA TypeStep == TypeOK /\ [Next]_vars => TypeOK'
<1>1. SUFFICES ASSUME TypeOK, [Next]_vars PROVE TypeOK'
  OBVIOUS
<1>2. CASE Begin
  <2>1. domain' \in {"ours", "other"} /\ at' \in DOMAIN After
    BY <1>2, Steps DEF Begin, Discovered
  <2>2. /\ standing' \subseteq Enclaves \cup {"app_role"}
        /\ found' \subseteq Enclaves /\ unseen' \subseteq Enclaves
    BY <1>1, <1>2 DEF Begin, TypeOK
  <2>3. failed' \in BOOLEAN /\ busy' \in BOOLEAN
    BY <1>1, <1>2 DEF Begin, TypeOK
  <2>4. UNCHANGED <<stopping, beyond, built, executing, off, deployed, calm, failures>>
    BY <1>2 DEF Begin, others, cdn, hidden
  <2> QED
    BY <1>1, <2>1, <2>2, <2>3, <2>4 DEF TypeOK
<1>3. CASE Pass /\ ~Survey
  <2>1. Removes
    BY <1>1, <1>3, PassRemoves
  <2> QED
    BY <1>1, <2>1, Places DEF Removes, TypeOK, report, hidden
<1>4. CASE Survey
  BY <1>1, <1>4, SurveyShape DEF TypeOK, others, cdn, hidden
<1>5. CASE Abort
  <2>1. failures' \in 0..MaxFailures /\ failed' \in BOOLEAN /\ calm' \in 0..2
    BY <1>1, <1>5, TeardownAssumption DEF Abort, TypeOK
  <2>2. at' = "aborted" /\ UNCHANGED <<domain, hidden, standing, others, cdn, found, unseen, busy>>
    BY <1>5 DEF Abort
  <2> QED
    BY <1>1, <2>1, <2>2 DEF TypeOK, others, cdn, hidden
<1>6. CASE Build \/ BuilderEnds \/ Machinery \/ Application \/ Stopping
  BY <1>1, <1>6, TypeOthers
<1>7. CASE UNCHANGED vars
  BY <1>1, <1>7 DEF TypeOK, vars, others, cdn, report, hidden
<1> QED
  BY <1>1, <1>2, <1>3, <1>4, <1>5, <1>6, <1>7 DEF Next

\* The invariant TypeOK of the run `teardown`: the teardown and everybody beside
\* it stay within the steps, resources and budget the module names.
THEOREM TypeCorrect == Spec => []TypeOK
<1>1. Init => TypeOK
  BY TypeInit
<1>2. TypeOK /\ [Next]_vars => TypeOK'
  BY TypeStep
<1> QED
  BY <1>1, <1>2, PTL DEF Spec

-----------------------------------------------------------------------------
(* Parts and wholes. *)

Wholes == PartsHaveWholes /\ NeverEnforcesNothing /\ EnforcementFirst

LEMMA WholesInit == Init => Wholes
<1>1. SUFFICES ASSUME Init PROVE Wholes
  OBVIOUS
<1>2. PICK n \in 0..Len(BuildOrder), gone \in SUBSET {"setup_instance"} :
        \E left \in Leftovers(n) : standing = (Built(n) \ gone) \cup left
  BY <1>1 DEF Init
<1>3. \A left \in Leftovers(n) :
        left \cap {"mapping", "endpoint", "plan_key", "plan", "enforcement", "statement"} = {}
  BY DEF Leftovers
<1>4. at = "idle"
  BY <1>1 DEF Init
<1> QED
  BY <1>2, <1>3, <1>4, PrefixesAreWhole
  DEF Wholes, PartsHaveWholes, NeverEnforcesNothing, EnforcementFirst

\* The builder and the machinery make a part only from its whole, and no lock.
LEMMA WholesBeside ==
    ASSUME TypeOK, Wholes, Build \/ BuilderEnds \/ Machinery \/ Application \/ Stopping
    PROVE  Wholes'
<1> USE DEF Wholes, PartsHaveWholes, NeverEnforcesNothing, EnforcementFirst
<1>1. CASE Build
  <2>1. BuildOrder[built + 1] # "enforcement"
    BY <1>1, BuilderLeavesTheLock DEF Build, BuilderAlive, TypeOK
  <2>2. /\ CanBeMade("mapping") => "endpoint" \in standing
        /\ CanBeMade("plan_key") => "plan" \in standing
    BY PrefixesAreWhole, Names DEF CanBeMade, MadeFrom
  <2> QED
    BY <1>1, <2>1, <2>2 DEF Build
<1>2. CASE BuilderEnds
  BY <1>2 DEF BuilderEnds
<1>3. CASE Machinery
  BY <1>3 DEF Machinery, Starts, Ends, Creates, TakesDown, Applied
<1>4. CASE Application
  BY <1>4 DEF Application, SaysReady, AppMakesRole
<1>5. CASE Stopping
  BY <1>5 DEF Stopping, Stops, Stopped
<1> QED
  BY <1>1, <1>2, <1>3, <1>4, <1>5

\* A pass never takes the whole before the part: AWS refuses the plan, a domain
\* takes its mappings along, and the statement waits for its enforcement.
LEMMA WholesInPass ==
    ASSUME TypeOK, Wholes, Pass
    PROVE  Wholes'
<1> USE DEF Wholes, PartsHaveWholes, NeverEnforcesNothing, EnforcementFirst
<1>1. CASE \E s \in DOMAIN Targets : Attempt(s)
  <2>1. PICK s \in DOMAIN Targets : Attempt(s)
    BY <1>1
  <2>2. PICK failing \in Failures(Listed(Targets[s])) :
          standing' = standing \ {r \in Listed(Targets[s]) \ failing : ~Refused(r)}
    BY <2>1 DEF Attempt
  <2>3. at = s /\ at' # "statement"
    BY <2>1, Steps DEF Attempt, Step
  <2>4. "endpoint" \in standing => "endpoint" \in standing'
    BY <2>2, Steps, ListingsAreTrue
  <2>5. "plan" \in standing /\ "plan_key" \in standing => "plan" \in standing'
    BY <2>2 DEF Refused, Protects
  <2>6. "statement" \in standing /\ "statement" \notin standing' => at = "statement"
    BY <2>2, <2>3, Steps, ListingsAreTrue
  <2> QED
    BY <2>2, <2>3, <2>4, <2>5, <2>6
<1>2. CASE DeleteEndpoint
  BY <1>2, Steps DEF DeleteEndpoint, Step, After
<1>3. CASE DisableLock
  BY <1>3, Steps DEF DisableLock
<1>4. CASE Survey
  BY <1>4, SurveyShape
<1>5. CASE \/ TerminateInstances \/ DisableDistributions \/ AwaitDeployed
           \/ DeleteDistributions \/ DeleteBuckets \/ DeleteZone \/ DeletePolicies
           \/ DeleteCertificate
  <2>1. standing' \subseteq standing /\ at # "lock"
    BY <1>5 DEF TerminateInstances, DisableDistributions, AwaitDeployed,
         DeleteDistributions, DeleteBuckets, DeleteZone, DeletePolicies,
         DeleteCertificate, EmptyAndDelete, Step
  <2>2. at \in DOMAIN After /\ at' = After[at]
    BY <1>5, Steps DEF TerminateInstances, DisableDistributions, AwaitDeployed,
         DeleteDistributions, DeleteBuckets, DeleteZone, DeletePolicies,
         DeleteCertificate, EmptyAndDelete, Step
  <2>3. standing \ standing' \subseteq
          Instances \cup {"cdn", "buckets", "zone", "boundary", "certificate"}
    BY <1>5, ListingsAreTrue DEF TerminateInstances, DisableDistributions, AwaitDeployed,
         DeleteDistributions, DeleteBuckets, DeleteZone, DeletePolicies,
         DeleteCertificate, EmptyAndDelete
  <2> QED
    BY <2>1, <2>2, <2>3, Steps DEF Instances
<1> QED
  BY <1>1, <1>2, <1>3, <1>4, <1>5, PassSteps

LEMMA WholesStep == TypeOK /\ Wholes /\ [Next]_vars => Wholes'
<1>1. SUFFICES ASSUME TypeOK, Wholes, [Next]_vars PROVE Wholes'
  OBVIOUS
<1>2. CASE Begin
  BY <1>1, <1>2 DEF Begin, Wholes, PartsHaveWholes, NeverEnforcesNothing, EnforcementFirst
<1>3. CASE Abort
  BY <1>1, <1>3 DEF Abort, Wholes, PartsHaveWholes, NeverEnforcesNothing, EnforcementFirst
<1>4. CASE UNCHANGED vars
  BY <1>1, <1>4
  DEF vars, Wholes, PartsHaveWholes, NeverEnforcesNothing, EnforcementFirst
<1> QED
  BY <1>1, <1>2, <1>3, <1>4, WholesInPass, WholesBeside DEF Next

\* The account is never left enforcing a sign-in statement that has gone
\* (signin.py, disable_lock), however many calls of however many passes fail.
THEOREM LockStaysWhole == Spec => []NeverEnforcesNothing
<1>1. Init => TypeOK /\ Wholes
  BY TypeInit, WholesInit
<1>2. TypeOK /\ Wholes /\ [Next]_vars => (TypeOK /\ Wholes)'
  BY TypeStep, WholesStep
<1>3. Wholes => NeverEnforcesNothing
  BY DEF Wholes
<1> QED
  BY <1>1, <1>2, <1>3, PTL DEF Spec

-----------------------------------------------------------------------------
(* A clean report. *)

Clean == at = "reported" /\ found = {}

\* What a clean report leaves.
Left == unseen \cup Parts(unseen) \cup Offspring(unseen)

\* Whoever can make something with what is left is himself unseen, and what he
\* makes counts as left.
LEMMA MakersAreUnseen ==
    /\ {"setup_instance", "admin"} \subseteq Left => Enclaves \subseteq Left
    /\ "sfn" \in Left => Applied \subseteq Left
    /\ {"apply_instance", "apply"} \subseteq Left => "words" \in Left
<1>1. /\ {"setup_instance", "admin", "sfn", "apply"} \cap (Applied \cup Parts(unseen)) = {}
      /\ {"apply_instance", "words"} \cap Parts(unseen) = {} /\ "words" \in Applied
  BY DEF Applied, Parts
<1>2. {"setup_instance", "admin", "sfn", "apply", "apply_instance"} \subseteq Enclaves
  BY Names, Pages DEF OnePageSurvey, OnePageDeletes, Instances
<1>3. CASE {"setup_instance", "admin"} \subseteq unseen
  <2>1. Enclaves \subseteq Left
    BY <1>3 DEF Left, Offspring
  <2> QED
    BY <2>1, Names, <1>1
<1>4. CASE ~({"setup_instance", "admin"} \subseteq unseen)
  <2>1. Offspring(unseen) \subseteq Applied /\ ("sfn" \in unseen => Applied \subseteq Left)
    BY <1>1, <1>4 DEF Offspring, Left
  <2>2. ~({"setup_instance", "admin"} \subseteq Left) /\ ("sfn" \in Left => "sfn" \in unseen)
    BY <1>1, <1>4, <2>1 DEF Left
  <2>3. ASSUME {"apply_instance", "apply"} \subseteq Left PROVE "words" \in Left
    <3>1. "apply" \in unseen
      BY <1>1, <2>1, <2>3 DEF Left
    <3>2. CASE "sfn" \in unseen
      BY <1>1, <2>1, <3>2
    <3>3. CASE "sfn" \notin unseen
      <4>1. "apply_instance" \notin Offspring(unseen)
        BY <1>4, <3>3 DEF Offspring
      <4>2. "apply_instance" \in unseen
        BY <1>1, <2>3, <4>1 DEF Left
      <4> QED
        BY <3>1, <4>2 DEF Left, Offspring
    <3> QED
      BY <3>2, <3>3
  <2> QED
    BY <2>1, <2>2, <2>3
<1> QED
  BY <1>3, <1>4

\* A survey that finds nothing has listed all that stands but what is unseen:
\* what it does not list has a whole that it does.
LEMMA CleanSurvey ==
    ASSUME TypeOK, Wholes, Survey PROVE CleanMeansGone'
<1>1. SUFFICES ASSUME found' = {}
              PROVE  standing' \cap Enclaves \subseteq unseen' \cup Parts(unseen')
  BY DEF CleanMeansGone
<1>2. standing' = standing /\ Surveyed \cap standing \subseteq unseen'
  BY <1>1, SurveyShape
<1>3. /\ "plan_key" \in standing => "plan" \in unseen'
      /\ "mapping" \in standing => "endpoint" \in unseen'
      /\ "enforcement" \in standing => "statement" \in unseen'
  BY <1>2, Names DEF Wholes, PartsHaveWholes, NeverEnforcesNothing
<1>4. {"plan_key", "mapping", "enforcement"} \cap standing \subseteq Parts(unseen')
  BY <1>3 DEF Parts
<1> QED
  BY <1>2, <1>4, Names

\* After it nobody makes anything but with what was unseen.
LEMMA NobodyLeft ==
    ASSUME TypeOK, CleanMeansGone, Clean, UNCHANGED <<at, report>>,
           Build \/ BuilderEnds \/ Machinery \/ Application \/ Stopping
    PROVE  CleanMeansGone'
<1>1. standing \cap Enclaves \subseteq Left
  BY DEF CleanMeansGone, Clean, Left
<1>2. SUFFICES standing' \cap Enclaves \subseteq Left
  BY DEF CleanMeansGone, Left, report, Offspring, Parts
<1>3. {"setup_instance", "admin", "sfn", "apply", "apply_instance"} \subseteq Enclaves
  BY Pages DEF OnePageSurvey, OnePageDeletes, Instances
<1>4. CASE Build
  <2>1. {"setup_instance", "admin"} \subseteq standing
    BY <1>4 DEF Build, BuilderAlive
  <2> QED
    BY <1>1, <1>3, <2>1, MakersAreUnseen
<1>5. CASE BuilderEnds \/ Stopping \/ Starts \/ Ends \/ \E r \in {"timer", "words"} : TakesDown(r)
  <2>1. standing' \subseteq standing
    BY <1>5 DEF BuilderEnds, Stopping, Stops, Stopped, Starts, Ends, TakesDown
  <2> QED
    BY <1>1, <2>1
<1>6. CASE \E r \in Applied : Creates(r)
  <2>1. "sfn" \in standing /\ standing' \subseteq standing \cup Applied
    BY <1>6 DEF Creates
  <2> QED
    BY <1>1, <1>3, <2>1, MakersAreUnseen
<1>7. CASE Application
  <2>1. /\ {"apply_instance", "apply"} \subseteq standing
        /\ standing' \subseteq standing \cup {"words", "app_role"}
    BY <1>7 DEF Application, SaysReady, AppMakesRole, ApplicationRuns
  <2> QED
    BY <1>1, <1>3, <2>1, MakersAreUnseen, Names
<1> QED
  BY <1>4, <1>5, <1>6, <1>7 DEF Machinery

LEMMA CleanStep == TypeOK /\ Wholes /\ CleanMeansGone /\ [Next]_vars => CleanMeansGone'
<1>1. SUFFICES ASSUME TypeOK, Wholes, CleanMeansGone, [Next]_vars PROVE CleanMeansGone'
  OBVIOUS
<1>2. CASE Begin \/ Abort
  BY <1>2 DEF Begin, Abort, CleanMeansGone
<1>3. CASE Pass /\ ~Survey
  BY <1>1, <1>3, PassRemoves, Steps DEF Removes, CleanMeansGone
<1>4. CASE Survey
  BY <1>1, <1>4, CleanSurvey
<1>5. CASE Build \/ BuilderEnds \/ Machinery \/ Application \/ Stopping
  <2>1. UNCHANGED <<at, report>>
    BY <1>5 DEF Build, BuilderEnds, Machinery, Application, Starts, Ends, Creates,
         TakesDown, SaysReady, AppMakesRole, Stopping, Stops, Stopped
  <2>2. CASE Clean
    BY <1>1, <1>5, <2>1, <2>2, NobodyLeft
  <2>3. CASE ~Clean
    BY <2>1, <2>3 DEF Clean, CleanMeansGone, report
  <2> QED
    BY <2>2, <2>3
<1>6. CASE UNCHANGED vars
  BY <1>1, <1>6 DEF vars, CleanMeansGone, report, Parts, Offspring
<1> QED
  BY <1>1, <1>2, <1>3, <1>4, <1>5, <1>6 DEF Next

\* report's "nothing. The account is ready for another run" is true of all but
\* what the survey's listings could not show (one that failed, a first page, an
\* instance that was stopping, a name by another domain), what is a part of that
\* and what that can still make, and stays so whoever was at work.
THEOREM CleanReportIsTrue == Spec => []CleanMeansGone
<1>1. Init => IInv
  BY TypeInit, WholesInit DEF IInv, Wholes, CleanMeansGone, Init
<1>2. IInv /\ [Next]_vars => IInv'
  BY TypeStep, WholesStep, CleanStep DEF IInv, Wholes
<1>3. IInv => CleanMeansGone
  BY DEF IInv
<1> QED
  BY <1>1, <1>2, <1>3, PTL DEF Spec

-----------------------------------------------------------------------------
(* Passes in which nothing fails.                                          *)

\* The place of each step in a pass.
Rank == [
    instances |-> 1, mapping |-> 2, endpoint |-> 3, api |-> 4, plan_key |-> 5, plan |-> 6,
    key |-> 7, machines |-> 8, timer |-> 9, disable |-> 10, deployed |-> 11,
    distributions |-> 12, oacs |-> 13, buckets |-> 14, zone |-> 15, profiles |-> 16,
    roles |-> 17, users |-> 18, policies |-> 19, lock |-> 20, statement |-> 21, vpc |-> 22,
    certificate |-> 23, parameters |-> 24, survey |-> 25, reported |-> 26 ]

\* The step of a pass that takes each resource.
TakenAt == [
    setup_instance |-> "instances", apply_instance |-> "instances",
    mapping |-> "mapping", endpoint |-> "endpoint", api |-> "api",
    plan_key |-> "plan_key", plan |-> "plan", key |-> "key",
    machines |-> "machines", timer |-> "timer",
    cdn |-> "distributions", oac |-> "oacs", buckets |-> "buckets", zone |-> "zone",
    admin_profile |-> "profiles", apply_profile |-> "profiles",
    admin |-> "roles", apply |-> "roles", sfn |-> "roles", callers |-> "roles",
    users |-> "users", boundary |-> "policies", statement |-> "statement",
    vpc |-> "vpc", certificate |-> "certificate",
    go_flag |-> "parameters", words |-> "parameters" ]

\* What makes anything while a pass runs does so with one of these, and what
\* makes none of these is not able to make them anew once they are gone.
Makers == {"setup_instance", "sfn", "apply"}
Core == Makers \cup {"apply_profile"}

\* Nobody else has made anything during this pass, or could have.
Undisturbed == ~busy \/ calm >= 1

\* What is gone for good once its step has gone by; in a disturbed pass, only
\* the identities of those who disturb it.
Taken == IF Undisturbed THEN DOMAIN TakenAt ELSE Core

Sweeping == at \in DOMAIN After /\ ~failed

Swept == Sweeping => \A r \in Taken : Rank[TakenAt[r]] < Rank[at] => r \notin standing

CdnReady ==
    Sweeping /\ Undisturbed /\ "cdn" \in standing =>
        /\ at = "deployed" => off
        /\ at = "distributions" => deployed

\* A pass that has not failed goes by the enclave's domain and sees all of it.
SeesUnlessFailed ==
    at \in DOMAIN After \cup {"reported"} /\ ~failed => domain = "ours" /\ Unpaged = {}

RunsAreBusy == executing => busy

CalmHasNoMakers == calm >= 1 => Makers \cap standing = {}

NothingFound == at = "reported" /\ (calm = 2 \/ (~failed /\ ~busy)) => found = {}

SweepInv ==
    Swept /\ CdnReady /\ SeesUnlessFailed /\ RunsAreBusy /\ CalmHasNoMakers /\ NothingFound

\* The steps follow one another by their place.
LEMMA StepPlaces ==
    /\ \A s \in DOMAIN After : Rank[s] \in 1..25 /\ Rank[After[s]] = Rank[s] + 1
    /\ \A s, t \in DOMAIN After : Rank[s] = Rank[t] => s = t
    /\ Rank["instances"] = 1 /\ Rank["lock"] = 20 /\ Rank["statement"] = 21
    /\ Rank["vpc"] = 22 /\ Rank["survey"] = 25
<1> DEFINE nth == << "instances", "mapping", "endpoint", "api", "plan_key", "plan", "key",
         "machines", "timer", "disable", "deployed", "distributions", "oacs", "buckets",
         "zone", "profiles", "roles", "users", "policies", "lock", "statement", "vpc",
         "certificate", "parameters", "survey" >>
<1>1. \A s \in DOMAIN After : Rank[s] \in 1..25 /\ Rank[After[s]] = Rank[s] + 1
  BY DEF After, Rank
<1>2. \A s \in DOMAIN After : nth[Rank[s]] = s
  BY DEF After, Rank
<1>3. /\ Rank["instances"] = 1 /\ Rank["lock"] = 20 /\ Rank["statement"] = 21
      /\ Rank["vpc"] = 22 /\ Rank["survey"] = 25
  BY DEF Rank
<1> HIDE DEF nth
<1> QED BY <1>1, <1>2, <1>3

\* Each resource is taken by one step, and what the survey lists is among them.
LEMMA Takings ==
    /\ \A r \in DOMAIN TakenAt : TakenAt[r] \in DOMAIN After \ {"survey"}
    /\ \A r \in DOMAIN TakenAt :
         TakenAt[r] \in DOMAIN Targets => r \in Targets[TakenAt[r]]
    /\ Surveyed \subseteq DOMAIN TakenAt /\ Core \subseteq DOMAIN TakenAt
    /\ "mapping" \in DOMAIN TakenAt
    /\ TakenAt["setup_instance"] = "instances" /\ TakenAt["apply_instance"] = "instances"
    /\ TakenAt["statement"] = "statement"
<1>1. DOMAIN TakenAt = {"setup_instance", "apply_instance", "mapping", "endpoint", "api",
        "plan_key", "plan", "key", "machines", "timer", "cdn", "oac", "buckets", "zone",
        "admin_profile", "apply_profile", "admin", "apply", "sfn", "callers", "users",
        "boundary", "statement", "vpc", "certificate", "go_flag", "words"}
  BY DEF TakenAt
<1>2. \A r \in DOMAIN TakenAt : TakenAt[r] \in DOMAIN After \ {"survey"}
  BY DEF TakenAt, After
<1>3. \A r \in DOMAIN TakenAt :
        TakenAt[r] \in DOMAIN Targets => r \in Targets[TakenAt[r]]
  BY DEF TakenAt, Targets, Roles
<1>4. Surveyed \subseteq DOMAIN TakenAt /\ Core \subseteq DOMAIN TakenAt
  <2>1. \A r : r \in Surveyed <=> \E l \in Listings : r \in l
    BY DEF Surveyed
  <2> QED BY <1>1, <2>1 DEF Listings, Roles, Instances, Core, Makers
<1> QED BY <1>1, <1>2, <1>3, <1>4 DEF TakenAt

\* The steps that are no plain attempts take these.
LEMMA OddTakings ==
    \A r \in DOMAIN TakenAt :
        /\ TakenAt[r] = "instances" => r \in Instances
        /\ TakenAt[r] = "endpoint" => r = "endpoint"
        /\ TakenAt[r] = "distributions" => r = "cdn"
        /\ TakenAt[r] = "buckets" => r = "buckets"
        /\ TakenAt[r] = "zone" => r = "zone"
        /\ TakenAt[r] = "policies" => r = "boundary"
        /\ TakenAt[r] = "certificate" => r = "certificate"
        /\ TakenAt[r] \notin {"disable", "deployed", "lock"}
  BY DEF TakenAt, Instances

\* dismantle.py, "the order the dependencies allow": what AWS protects another
\* with is taken at an earlier step, but for the application's role.
LEMMA ProtectorsFirst ==
    ASSUME NEW p, NEW r, <<p, r>> \in Protects
    PROVE  \/ p = "app_role" /\ r = "boundary"
           \/ /\ p \in DOMAIN TakenAt /\ r \in DOMAIN TakenAt
              /\ Rank[TakenAt[p]] < Rank[TakenAt[r]]
              /\ r \in Core => p \in Core
<1>1. CASE p = "app_role"
  BY <1>1 DEF Protects
<1>2. CASE p # "app_role"
  BY <1>2 DEF Protects, TakenAt, Rank, Core, Makers
<1> QED BY <1>1, <1>2

\* So where the pass has come without a failure, AWS refuses it nothing but the
\* boundary that the application's role carries.
LEMMA Unrefused ==
    ASSUME Swept, Sweeping, NEW r \in Taken, TakenAt[r] = at, r # "boundary"
    PROVE  ~Refused(r)
<1> SUFFICES ASSUME NEW p \in standing, <<p, r>> \in Protects PROVE FALSE
  BY DEF Refused
<1>1. p \in DOMAIN TakenAt /\ Rank[TakenAt[p]] < Rank[at] /\ (r \in Core => p \in Core)
  BY ProtectorsFirst
<1>2. p \in Taken
  BY <1>1 DEF Taken
<1> QED BY <1>1, <1>2 DEF Swept

\* What a listing shows in a pass in which nothing has failed is all there is.
LEMMA AllListed ==
    ASSUME SeesUnlessFailed, Sweeping, NEW S
    PROVE  Listed(S) = S \cap standing
  BY DEF SeesUnlessFailed, Sweeping, Listed

\* A step that takes what is its to take keeps what was swept so far.
LEMMA StepSweeps ==
    ASSUME TypeOK, Swept, at \in DOMAIN After, at' \in DOMAIN After,
           standing' \subseteq standing, UNCHANGED <<busy, calm>>,
           failed => failed',
           \A r \in Taken :
             ~failed' /\ Rank[at] <= Rank[TakenAt[r]] /\ Rank[TakenAt[r]] < Rank[at']
               => r \notin standing'
    PROVE  Swept'
<1> SUFFICES ASSUME Sweeping', NEW r \in Taken', Rank[TakenAt[r]] < Rank[at']
             PROVE  r \notin standing'
  BY DEF Swept
<1>1. Sweeping /\ ~failed' /\ r \in Taken
  BY DEF Sweeping, Taken, Undisturbed
<1>2. r \in DOMAIN TakenAt
  BY <1>1, Takings DEF Taken
<1>3. Rank[TakenAt[r]] \in 1..25 /\ Rank[at] \in 1..25
  BY <1>2, Takings, StepPlaces
<1>4. CASE Rank[TakenAt[r]] < Rank[at]
  BY <1>1, <1>4 DEF Swept
<1>5. CASE Rank[at] <= Rank[TakenAt[r]]
  BY <1>1, <1>5
<1> QED BY <1>3, <1>4, <1>5

\* Most steps go on to the next, and so have their own to take.
LEMMA PlainStepSweeps ==
    ASSUME TypeOK, Swept, NEW s \in DOMAIN After \ {"survey"}, Step(s),
           standing' \subseteq standing, UNCHANGED <<busy, calm>>,
           failed => failed',
           ~failed' => \A r \in Taken : TakenAt[r] = s => r \notin standing'
    PROVE  Swept'
<1>1. at = s /\ at' = After[s] /\ at' \in DOMAIN After /\ Rank[at'] = Rank[s] + 1
  BY Steps, StepPlaces DEF Step
<1>2. ASSUME NEW r \in Taken, Rank[at] <= Rank[TakenAt[r]], Rank[TakenAt[r]] < Rank[at']
      PROVE  TakenAt[r] = s
  <2>1. r \in DOMAIN TakenAt
    BY Takings DEF Taken
  <2>2. TakenAt[r] \in DOMAIN After /\ Rank[TakenAt[r]] \in 1..25 /\ Rank[s] \in 1..25
    BY <2>1, Takings, StepPlaces
  <2>3. Rank[TakenAt[r]] = Rank[s]
    BY <1>1, <1>2, <2>2
  <2> QED BY <2>2, <2>3, StepPlaces
<1> QED BY <1>1, <1>2, StepSweeps

\* An attempt at what nothing protects any more takes it, unless a call fails.
LEMMA AttemptSweeps ==
    ASSUME TypeOK, SweepInv, NEW s \in DOMAIN Targets, Attempt(s)
    PROVE  Swept'
<1>1. PICK failing \in Failures(Listed(Targets[s])) :
        /\ standing' = standing \ {r \in Listed(Targets[s]) \ failing : ~Refused(r)}
        /\ Note(failing # {})
  BY DEF Attempt
<1>2. Step(s) /\ UNCHANGED <<busy, calm>> /\ s \in DOMAIN After \ {"survey"}
  BY Steps DEF Attempt, report
<1>3. failed' = (failed \/ failing # {})
  BY <1>1 DEF Note
<1>4. ASSUME ~failed', NEW r \in Taken, TakenAt[r] = s PROVE r \notin standing'
  <2>1. Sweeping /\ failing = {} /\ at = s
    BY <1>2, <1>3, <1>4 DEF Sweeping, Step
  <2>2. r \in Targets[s] /\ r # "boundary"
    BY <1>4, Takings, OddTakings DEF Taken, TakenAt, Targets
  <2>3. ~Refused(r)
    BY <1>4, <2>1, <2>2, Unrefused DEF SweepInv
  <2>4. Listed(Targets[s]) = Targets[s] \cap standing
    BY <2>1, AllListed DEF SweepInv
  <2> QED BY <1>1, <2>1, <2>2, <2>3, <2>4
<1> QED BY <1>1, <1>2, <1>3, <1>4, PlainStepSweeps DEF SweepInv

\* So does an emptying nobody fills up again.
LEMMA EmptyAndDeleteSweeps ==
    ASSUME TypeOK, SweepInv, NEW s \in {"buckets", "zone"}, EmptyAndDelete(s, {s})
    PROVE  Swept'
<1>1. PICK failing \in Failures(Listed({s})),
           refilled \in SUBSET {r \in Listed({s}) : Refills(r)} :
        /\ standing' = standing \ (Listed({s}) \ (failing \cup refilled))
        /\ Note(failing # {})
  BY DEF EmptyAndDelete
<1>2. /\ Step(s) /\ UNCHANGED <<busy, calm>> /\ s \in DOMAIN After \ {"survey"}
  BY Steps DEF EmptyAndDelete, report, After
<1>3. failed' = (failed \/ failing # {})
  BY <1>1 DEF Note
<1>4. ASSUME ~failed', NEW r \in Taken, TakenAt[r] = s PROVE r \notin standing'
  <2>1. Sweeping /\ failing = {} /\ at = s
    BY <1>2, <1>3, <1>4 DEF Sweeping, Step
  <2>2. r = s
    BY <1>4, Takings, OddTakings DEF Taken
  <2>3. s \notin Core /\ Rank["instances"] < Rank[s]
    BY DEF Core, Makers, Rank
  <2>4. Undisturbed /\ {"setup_instance", "apply_instance"} \subseteq Taken
    <3>1. Undisturbed
      BY <1>4, <2>2, <2>3 DEF Taken
    <3> QED BY <3>1 DEF Taken, TakenAt
  <2>5. "setup_instance" \notin standing /\ "apply_instance" \notin standing
    BY <2>1, <2>3, <2>4, Takings DEF SweepInv, Swept
  <2>6. ~executing \/ {"sfn", "apply"} \cap standing = {}
    BY <2>4 DEF Undisturbed, SweepInv, RunsAreBusy, CalmHasNoMakers, Makers
  <2>7. ~Refills(s)
    BY <2>5, <2>6 DEF Refills, BuilderAlive, ApplicationRuns
  <2>8. Listed({s}) = {s} \cap standing
    BY <2>1, AllListed DEF SweepInv
  <2>9. refilled = {}
    BY <1>1, <2>7, <2>8
  <2> QED BY <1>1, <2>1, <2>2, <2>8, <2>9
<1> QED BY <1>1, <1>2, <1>3, <1>4, PlainStepSweeps DEF SweepInv

\* So do the other steps; the distributions go where they were disabled in time.
LEMMA OddStepSweeps ==
    ASSUME TypeOK, SweepInv,
           \/ TerminateInstances \/ DeleteEndpoint \/ DisableDistributions \/ AwaitDeployed
           \/ DeleteDistributions \/ DeletePolicies \/ DeleteCertificate
    PROVE  Swept'
<1> USE DEF SweepInv
<1>1. CASE TerminateInstances
  <2>1. PICK trouble \in BOOLEAN :
          /\ standing' = IF trouble THEN standing ELSE standing \ Listed(Instances \ stopping)
          /\ failed' = (failed \/ trouble \/ stopping \cap standing # {})
    BY <1>1 DEF TerminateInstances
  <2>2. /\ Step("instances") /\ UNCHANGED <<busy, calm>>
        /\ "instances" \in DOMAIN After \ {"survey"}
    BY <1>1, Steps DEF TerminateInstances, report
  <2>3. ASSUME ~failed', NEW r \in Taken, TakenAt[r] = "instances" PROVE r \notin standing'
    <3>1. Sweeping /\ ~trouble /\ stopping \cap standing = {}
      BY <2>1, <2>2, <2>3 DEF Sweeping, Step
    <3>2. Listed(Instances \ stopping) = (Instances \ stopping) \cap standing
      BY <3>1, AllListed
    <3>3. r \in Instances
      BY <2>3, OddTakings, Takings DEF Taken
    <3> QED BY <2>1, <3>1, <3>2, <3>3
  <2>4. standing' \subseteq standing /\ (failed => failed')
    BY <2>1
  <2> QED BY <2>2, <2>3, <2>4, PlainStepSweeps
<1>2. CASE DeleteEndpoint
  <2>1. PICK failing \in Failures({"endpoint"} \cap Listed(ByDomain)) :
          /\ standing' = IF failing # {} \/ domain # "ours" THEN standing
                         ELSE standing \ {"endpoint", "mapping"}
          /\ Note(failing # {})
    BY <1>2 DEF DeleteEndpoint
  <2>2. /\ Step("endpoint") /\ UNCHANGED <<busy, calm>>
        /\ "endpoint" \in DOMAIN After \ {"survey"}
    BY <1>2, Steps DEF DeleteEndpoint, report, After
  <2>3. ASSUME ~failed', NEW r \in Taken, TakenAt[r] = "endpoint" PROVE r \notin standing'
    <3>1. domain = "ours" /\ failing = {}
      BY <2>1, <2>2, <2>3 DEF SeesUnlessFailed, Step, Note
    <3>2. r = "endpoint"
      BY <2>3, OddTakings, Takings DEF Taken
    <3> QED BY <2>1, <3>1, <3>2
  <2>4. standing' \subseteq standing /\ (failed => failed')
    BY <2>1 DEF Note
  <2> QED BY <2>2, <2>3, <2>4, PlainStepSweeps
<1>3. CASE DisableDistributions \/ AwaitDeployed
  <2>1. PICK s \in {"disable", "deployed"} : Step(s)
    BY <1>3 DEF DisableDistributions, AwaitDeployed
  <2>2. UNCHANGED <<standing, busy, calm>> /\ (failed => failed')
    BY <1>3 DEF DisableDistributions, AwaitDeployed, report, Note
  <2>3. s \in DOMAIN After \ {"survey"}
    BY Steps DEF After
  <2>4. \A r \in Taken : TakenAt[r] # s
    BY OddTakings, Takings DEF Taken
  <2> QED BY <2>1, <2>2, <2>3, <2>4, PlainStepSweeps
<1>4. CASE DeleteDistributions
  <2>1. PICK failing \in Failures(Listed({"cdn"})) :
          /\ standing' = standing \ {r \in Listed({"cdn"}) \ failing : deployed}
          /\ Note(failing # {})
    BY <1>4 DEF DeleteDistributions
  <2>2. /\ Step("distributions") /\ UNCHANGED <<busy, calm>>
        /\ "distributions" \in DOMAIN After \ {"survey"}
    BY <1>4, Steps DEF DeleteDistributions, report, After
  <2>3. ASSUME ~failed', NEW r \in Taken, TakenAt[r] = "distributions"
        PROVE  r \notin standing'
    <3>1. Sweeping /\ failing = {} /\ at = "distributions"
      BY <2>1, <2>2, <2>3 DEF Sweeping, Step, Note
    <3>2. r = "cdn" /\ "cdn" \notin Core
      BY <2>3, OddTakings, Takings DEF Taken, Core, Makers
    <3>3. Undisturbed
      BY <2>3, <3>2 DEF Taken
    <3>4. "cdn" \in standing => deployed
      BY <3>1, <3>3 DEF CdnReady
    <3>5. Listed({"cdn"}) = {"cdn"} \cap standing
      BY <3>1, AllListed
    <3> QED BY <2>1, <3>1, <3>2, <3>4, <3>5
  <2>4. standing' \subseteq standing /\ (failed => failed')
    BY <2>1 DEF Note
  <2> QED BY <2>2, <2>3, <2>4, PlainStepSweeps
<1>5. CASE DeletePolicies
  <2>1. PICK trouble \in BOOLEAN :
          /\ standing' = IF trouble \/ Refused("boundary") THEN standing
                         ELSE standing \ Listed({"boundary"})
          /\ failed' = (failed \/ trouble \/ "app_role" \in standing)
    BY <1>5 DEF DeletePolicies
  <2>2. /\ Step("policies") /\ UNCHANGED <<busy, calm>>
        /\ "policies" \in DOMAIN After \ {"survey"}
    BY <1>5, Steps DEF DeletePolicies, report, After
  <2>3. ASSUME ~failed', NEW r \in Taken, TakenAt[r] = "policies" PROVE r \notin standing'
    <3>1. Sweeping /\ ~trouble /\ "app_role" \notin standing /\ at = "policies"
      BY <2>1, <2>2, <2>3 DEF Sweeping, Step
    <3>2. r = "boundary"
      BY <2>3, OddTakings, Takings DEF Taken
    <3>3. ~Refused("boundary")
      <4>1. SUFFICES ASSUME NEW p \in standing, <<p, "boundary">> \in Protects PROVE FALSE
        BY DEF Refused
      <4>2. p \in DOMAIN TakenAt /\ Rank[TakenAt[p]] < Rank[at]
        BY <2>3, <3>1, <3>2, <4>1, ProtectorsFirst
      <4>3. "boundary" \notin Core
        BY DEF Core, Makers
      <4>4. p \in Taken
        BY <2>3, <3>2, <4>2, <4>3 DEF Taken
      <4> QED BY <3>1, <4>1, <4>2, <4>4 DEF Swept
    <3>4. Listed({"boundary"}) = {"boundary"} \cap standing
      BY <3>1, AllListed
    <3> QED BY <2>1, <3>1, <3>2, <3>3, <3>4
  <2>4. standing' \subseteq standing /\ (failed => failed')
    BY <2>1
  <2> QED BY <2>2, <2>3, <2>4, PlainStepSweeps
<1>6. CASE DeleteCertificate
  <2>1. PICK trouble \in BOOLEAN :
          /\ standing' = IF trouble \/ Refused("certificate") THEN standing
                         ELSE standing \ Listed({"certificate"})
          /\ Note(trouble)
    BY <1>6 DEF DeleteCertificate
  <2>2. /\ Step("certificate") /\ UNCHANGED <<busy, calm>>
        /\ "certificate" \in DOMAIN After \ {"survey"}
    BY <1>6, Steps DEF DeleteCertificate, report, After
  <2>3. ASSUME ~failed', NEW r \in Taken, TakenAt[r] = "certificate" PROVE r \notin standing'
    <3>1. Sweeping /\ ~trouble /\ at = "certificate"
      BY <2>1, <2>2, <2>3 DEF Sweeping, Step, Note
    <3>2. r = "certificate"
      BY <2>3, OddTakings, Takings DEF Taken
    <3>3. ~Refused("certificate")
      BY <2>3, <3>1, <3>2, Unrefused
    <3>4. Listed({"certificate"}) = {"certificate"} \cap standing
      BY <3>1, AllListed
    <3> QED BY <2>1, <3>1, <3>2, <3>3, <3>4
  <2>4. standing' \subseteq standing /\ (failed => failed')
    BY <2>1 DEF Note
  <2> QED BY <2>2, <2>3, <2>4, PlainStepSweeps
<1> QED BY <1>1, <1>2, <1>3, <1>4, <1>5, <1>6

\* And where no statement is listed its enforcement is left, but so is nothing.
LEMMA LockSweeps ==
    ASSUME TypeOK, SweepInv, DisableLock PROVE Swept'
<1>1. PICK trouble \in BOOLEAN :
        /\ IF Listed({"statement"}) = {} \/ trouble
           THEN at' = "vpc" /\ UNCHANGED standing
           ELSE at' = After["lock"] /\ standing' = standing \ {"enforcement"}
        /\ Note(trouble)
  BY DEF DisableLock
<1>2. at = "lock" /\ UNCHANGED <<busy, calm>> /\ at' \in {"vpc", "statement"}
  BY <1>1, Steps DEF DisableLock, report
<1>3. {"lock", "vpc", "statement"} \subseteq DOMAIN After
  BY DEF After
<1>4. standing' \subseteq standing /\ failed' = (failed \/ trouble)
  BY <1>1 DEF Note
<1>5. ASSUME NEW r \in Taken, ~failed', Rank[at] <= Rank[TakenAt[r]],
             Rank[TakenAt[r]] < Rank[at']
      PROVE  r \notin standing'
  <2>1. r \in DOMAIN TakenAt /\ TakenAt[r] \in DOMAIN After
    BY Takings DEF Taken
  <2>2. Rank[TakenAt[r]] \in 1..25
    BY <2>1, StepPlaces
  <2>3. TakenAt[r] # "lock"
    BY <2>1, OddTakings
  <2>4. Rank[TakenAt[r]] # 20
    BY <1>3, <2>1, <2>3, StepPlaces
  <2>5. Rank[TakenAt[r]] = 21 /\ at' = "vpc"
    BY <1>2, <1>5, <2>2, <2>4, StepPlaces
  <2>6. TakenAt[r] = "statement"
    BY <1>3, <2>1, <2>5, StepPlaces
  <2>7. r = "statement"
    BY <2>1, <2>6, Takings, Steps DEF Targets
  <2>8. Sweeping /\ ~trouble
    BY <1>2, <1>3, <1>4, <1>5 DEF Sweeping
  <2>9. Listed({"statement"}) = {}
    BY <1>1, <2>5, <2>8, Steps
  <2>10. Listed({"statement"}) = {"statement"} \cap standing
    BY <2>8, AllListed DEF SweepInv
  <2> QED BY <1>4, <2>7, <2>9, <2>10
<1> QED BY <1>2, <1>3, <1>4, <1>5, StepSweeps DEF SweepInv

LEMMA PassSweeps ==
    ASSUME TypeOK, SweepInv, Pass, ~Survey PROVE Swept'
<1>1. CASE \E s \in DOMAIN Targets : Attempt(s)
  BY <1>1, AttemptSweeps
<1>2. CASE DeleteBuckets
  BY <1>2, EmptyAndDeleteSweeps DEF DeleteBuckets
<1>3. CASE DeleteZone
  BY <1>3, EmptyAndDeleteSweeps DEF DeleteZone
<1> QED BY <1>1, <1>2, <1>3, OddStepSweeps, LockSweeps, PassSteps

\* Unless a call fails, the distributions are off when their redeployment is
\* waited for, and redeployed when they are deleted.
LEMMA PassReadiesCdn ==
    ASSUME TypeOK, SweepInv, Pass, ~Survey PROVE CdnReady'
<1>1. Removes
  BY PassRemoves
<1>2. SUFFICES ASSUME Sweeping', Undisturbed', "cdn" \in standing'
               PROVE  /\ at' = "deployed" => off'
                      /\ at' = "distributions" => deployed'
  BY DEF CdnReady
<1>3. Sweeping /\ Undisturbed /\ "cdn" \in standing
  BY <1>1, <1>2 DEF Removes, Sweeping, Undisturbed, report
<1>4. Listed({"cdn"}) = {"cdn"}
  BY <1>3, AllListed DEF SweepInv
<1>5. \A s \in DOMAIN After : /\ After[s] = "deployed" => s = "disable"
                              /\ After[s] = "distributions" => s = "deployed"
  BY DEF After
<1>6. at' = After[at] \/ at' \in {"vpc", "statement"}
  BY PassSteps, Steps
  DEF Attempt, TerminateInstances, DeleteEndpoint, DisableDistributions, AwaitDeployed,
      DeleteDistributions, DeleteBuckets, DeleteZone, EmptyAndDelete, DeletePolicies,
      DisableLock, DeleteCertificate, Step
<1>7. ASSUME at' = "deployed" PROVE off'
  <2>1. at = "disable" /\ "disable" \notin DOMAIN Targets
    BY <1>1, <1>5, <1>6, <1>7 DEF Removes, Targets
  <2>2. DisableDistributions
    BY <2>1, PassSteps
    DEF Attempt, TerminateInstances, DeleteEndpoint, AwaitDeployed, DeleteDistributions,
        DeleteBuckets, DeleteZone, EmptyAndDelete, DeletePolicies, DisableLock,
        DeleteCertificate, Step
  <2> QED BY <1>2, <1>4, <2>2 DEF DisableDistributions, Note, Sweeping
<1>8. ASSUME at' = "distributions" PROVE deployed'
  <2>1. at = "deployed" /\ "deployed" \notin DOMAIN Targets
    BY <1>1, <1>5, <1>6, <1>8 DEF Removes, Targets
  <2>2. AwaitDeployed
    BY <2>1, PassSteps
    DEF Attempt, TerminateInstances, DeleteEndpoint, DisableDistributions,
        DeleteDistributions, DeleteBuckets, DeleteZone, EmptyAndDelete, DeletePolicies,
        DisableLock, DeleteCertificate, Step
  <2>3. off
    BY <1>3, <2>1 DEF SweepInv, CdnReady
  <2> QED BY <1>2, <1>4, <2>2, <2>3 DEF AwaitDeployed, Note, Sweeping
<1> QED BY <1>7, <1>8

\* A step of a pass before its survey changes nothing else of the invariant.
LEMMA PassKeepsSweep ==
    ASSUME TypeOK, SweepInv, Pass, ~Survey PROVE SweepInv'
<1>1. Removes
  BY PassRemoves
<1>2. Swept' /\ CdnReady'
  BY PassSweeps, PassReadiesCdn
<1>3. SeesUnlessFailed'
  BY <1>1 DEF Removes, SweepInv, SeesUnlessFailed, Unpaged, hidden
<1>4. RunsAreBusy' /\ CalmHasNoMakers'
  BY <1>1 DEF Removes, SweepInv, RunsAreBusy, CalmHasNoMakers, report
<1>5. NothingFound'
  BY <1>1, Steps DEF Removes, NothingFound
<1> QED BY <1>2, <1>3, <1>4, <1>5 DEF SweepInv

\* When a pass in which nothing failed comes to its survey, no identity is left
\* to make anything with; if nobody else made anything, nothing is left at all.
LEMMA SurveyKeepsSweep ==
    ASSUME TypeOK, SweepInv, Survey PROVE SweepInv'
<1>1. found' \subseteq Surveyed \cap standing
  BY SurveyShape
<1>2. /\ at = "survey" /\ at' = "reported"
      /\ UNCHANGED <<domain, hidden, standing, executing, off, deployed, busy>>
      /\ failed => failed'
      /\ calm' = IF failed' THEN 0 ELSE IF calm < 2 THEN calm + 1 ELSE 2
  BY SurveyShape DEF Survey, others, cdn
<1>3. at \in DOMAIN After /\ at' \notin DOMAIN After
  BY <1>2, Steps
<1>4. Swept' /\ CdnReady'
  BY <1>3 DEF Swept, CdnReady, Sweeping
<1>5. SeesUnlessFailed'
  BY <1>2, <1>3 DEF SweepInv, SeesUnlessFailed, Unpaged, hidden
<1>6. RunsAreBusy'
  BY <1>2 DEF SweepInv, RunsAreBusy
<1>7. ASSUME ~failed', NEW r \in Taken PROVE r \notin standing
  <2>1. r \in DOMAIN TakenAt
    BY Takings DEF Taken
  <2>2. TakenAt[r] \in DOMAIN After /\ TakenAt[r] # "survey"
    BY <2>1, Takings
  <2>3. Rank[TakenAt[r]] \in 1..25 /\ Rank[TakenAt[r]] # 25
    BY <1>2, <1>3, <2>2, StepPlaces
  <2>4. Rank[TakenAt[r]] < Rank[at]
    BY <1>2, <2>3, StepPlaces
  <2> QED BY <1>2, <1>3, <1>7, <2>4 DEF SweepInv, Swept, Sweeping
<1>8. CalmHasNoMakers'
  <2>1. calm' >= 1 => ~failed'
    BY <1>2
  <2>2. Core \subseteq Taken
    BY Takings DEF Taken
  <2> QED BY <1>2, <1>7, <2>1, <2>2 DEF CalmHasNoMakers, Core
<1>9. NothingFound'
  <2>1. SUFFICES ASSUME calm' = 2 \/ (~failed' /\ ~busy') PROVE found' = {}
    BY DEF NothingFound
  <2>2. ~failed' /\ Undisturbed
    BY <1>2, <2>1 DEF Undisturbed, TypeOK
  <2>3. Surveyed \cap standing = {}
    BY <1>7, <2>2, Takings DEF Taken
  <2> QED BY <1>1, <2>3
<1> QED BY <1>4, <1>5, <1>6, <1>8, <1>9 DEF SweepInv

\* A pass starts with everything still to take.
LEMMA BeginKeepsSweep ==
    ASSUME TypeOK, SweepInv, Begin PROVE SweepInv'
<1>1. /\ at' = "instances"
      /\ domain' \in {"ours", "other"}
      /\ failed' = (domain' # "ours" \/ Unpaged # {}) /\ busy' = executing
      /\ standing' \subseteq standing
      /\ UNCHANGED <<hidden, executing, calm>>
  BY DEF Begin, Discovered, others
<1>2. Swept'
  <2>1. ASSUME NEW r \in Taken' PROVE ~(Rank[TakenAt[r]] < Rank["instances"])
    <3>1. r \in DOMAIN TakenAt
      BY Takings DEF Taken
    <3>2. Rank[TakenAt[r]] \in 1..25
      BY <3>1, Takings, StepPlaces
    <3> QED BY <3>2, StepPlaces
  <2> QED BY <1>1, <2>1 DEF Swept
<1>3. CdnReady' /\ NothingFound'
  BY <1>1 DEF CdnReady, NothingFound
<1>4. SeesUnlessFailed' /\ RunsAreBusy' /\ CalmHasNoMakers'
  BY <1>1 DEF SweepInv, SeesUnlessFailed, RunsAreBusy, CalmHasNoMakers, Unpaged, hidden
<1> QED BY <1>2, <1>3, <1>4 DEF SweepInv

\* Whoever makes something acts with an identity that no calm pass leaves, and
\* makes none of those a pass takes for good, until its first step has gone by.
LEMMA MakersKeepSweep ==
    ASSUME TypeOK, SweepInv, NEW m \in Makers \cap standing, NEW r,
           r \in Core => m = "setup_instance",
           standing' = standing \cup {r}, busy' = TRUE,
           UNCHANGED <<at, domain, beyond, executing, cdn, report, failed>>
    PROVE  SweepInv'
<1>1. calm = 0 /\ calm' = 0
  BY DEF SweepInv, CalmHasNoMakers, TypeOK, report
<1>2. Taken' = Core /\ ~Undisturbed'
  BY <1>1 DEF Taken, Undisturbed
<1>3. m \in Taken
  BY Takings DEF Taken, Core
<1>4. Swept'
  <2>1. SUFFICES ASSUME Sweeping, NEW q \in Core, Rank[TakenAt[q]] < Rank[at]
                 PROVE  q \notin standing'
    BY <1>2 DEF Swept, Sweeping
  <2>2. q \in DOMAIN TakenAt /\ q \in Taken
    BY Takings DEF Taken
  <2>3. q \notin standing
    BY <2>1, <2>2 DEF SweepInv, Swept
  <2>4. CASE r \in Core
    <3>1. Rank[TakenAt[m]] = 1
      BY <2>4, Takings, StepPlaces
    <3>2. ~(1 < Rank[at])
      BY <1>3, <2>1, <3>1 DEF SweepInv, Swept
    <3>3. Rank[TakenAt[q]] \in 1..25 /\ Rank[at] \in 1..25
      BY <2>1, <2>2, Takings, StepPlaces DEF Sweeping
    <3> QED BY <2>1, <3>2, <3>3
  <2>5. CASE r \notin Core
    BY <2>3, <2>5
  <2> QED BY <2>4, <2>5
<1>5. CdnReady'
  BY <1>2 DEF CdnReady
<1>6. SeesUnlessFailed'
  BY DEF SweepInv, SeesUnlessFailed, Unpaged
<1>7. RunsAreBusy' /\ CalmHasNoMakers' /\ NothingFound'
  BY <1>1 DEF RunsAreBusy, CalmHasNoMakers, NothingFound
<1> QED BY <1>4, <1>5, <1>6, <1>7 DEF SweepInv

\* What only ends, starts or takes down disturbs nothing of it either.
LEMMA TakersKeepSweep ==
    ASSUME TypeOK, SweepInv, standing' \subseteq standing, busy => busy',
           executing' => busy',
           UNCHANGED <<at, domain, beyond, cdn, report, failed>>
    PROVE  SweepInv'
<1>1. /\ Undisturbed' => Undisturbed
      /\ Taken' \subseteq Taken
      /\ Sweeping' => Sweeping
  BY Takings DEF Undisturbed, Taken, Sweeping, report
<1>2. Swept'
  BY <1>1 DEF SweepInv, Swept
<1>3. CdnReady'
  BY <1>1 DEF SweepInv, CdnReady, cdn
<1>4. SeesUnlessFailed' /\ RunsAreBusy' /\ CalmHasNoMakers' /\ NothingFound'
  BY DEF SweepInv, SeesUnlessFailed, RunsAreBusy, CalmHasNoMakers, NothingFound, report,
     Unpaged
<1> QED BY <1>2, <1>3, <1>4 DEF SweepInv

LEMMA OthersKeepSweep ==
    ASSUME TypeOK, SweepInv, Build \/ BuilderEnds \/ Machinery \/ Application \/ Stopping
    PROVE  SweepInv'
<1>1. Applied \cap Core = {} /\ "app_role" \notin Core
  BY DEF Applied, Core, Makers
<1>2. CASE Build
  <2>1. "setup_instance" \in Makers \cap standing
    BY <1>2 DEF Build, BuilderAlive, Makers
  <2>2. PICK r : r = BuildOrder[built + 1]
    OBVIOUS
  <2>3. /\ standing' = standing \cup {r} /\ busy' = TRUE
        /\ UNCHANGED <<at, domain, beyond, executing, cdn, report, failed>>
    BY <1>2, <2>2 DEF Build, hidden
  <2> QED BY <2>1, <2>3, MakersKeepSweep
<1>3. CASE \E r \in Applied : Creates(r)
  <2>1. PICK r \in Applied : Creates(r)
    BY <1>3
  <2>2. "sfn" \in Makers \cap standing
    BY <2>1 DEF Creates, Makers
  <2>3. /\ standing' = standing \cup {r} /\ busy' = TRUE
        /\ UNCHANGED <<at, domain, beyond, executing, cdn, report, failed>>
    BY <2>1 DEF Creates, others, hidden
  <2> QED BY <1>1, <2>1, <2>2, <2>3, MakersKeepSweep
<1>4. CASE Application
  <2>1. "apply" \in Makers \cap standing
    BY <1>4 DEF Application, SaysReady, AppMakesRole, ApplicationRuns, Makers
  <2>2. PICK r \in {"words", "app_role"} : standing' = standing \cup {r}
    BY <1>4 DEF Application, SaysReady, AppMakesRole
  <2>3. busy' = TRUE /\ UNCHANGED <<at, domain, beyond, executing, cdn, report, failed>>
    BY <1>4 DEF Application, SaysReady, AppMakesRole, others, hidden
  <2>4. r \notin Core
    BY DEF Core, Makers
  <2> QED BY <2>1, <2>2, <2>3, <2>4, MakersKeepSweep
<1>5. CASE \/ BuilderEnds \/ Stopping \/ Starts \/ Ends
           \/ \E r \in {"timer", "words"} : TakesDown(r)
  <2>1. standing' \subseteq standing /\ UNCHANGED <<at, domain, beyond, cdn, report, failed>>
    BY <1>5 DEF BuilderEnds, Starts, Ends, TakesDown, Stopping, Stops, Stopped, others,
       hidden
  <2>2. (busy => busy') /\ (executing' => busy')
    BY <1>5 DEF BuilderEnds, Starts, Ends, TakesDown, Stopping, Stops, Stopped, others,
       SweepInv, RunsAreBusy
  <2> QED BY <2>1, <2>2, TakersKeepSweep
<1> QED BY <1>2, <1>3, <1>4, <1>5 DEF Machinery

LEMMA SweepInit == Init => SweepInv
<1>1. SUFFICES ASSUME Init PROVE SweepInv
  OBVIOUS
<1>2. at = "idle" /\ executing = FALSE /\ calm = 0
  BY <1>1 DEF Init
<1>3. at \notin DOMAIN After /\ at # "reported"
  BY <1>2, Steps
<1> QED
  BY <1>2, <1>3
  DEF SweepInv, Swept, Sweeping, CdnReady, SeesUnlessFailed, RunsAreBusy,
      CalmHasNoMakers, NothingFound

LEMMA SweepStep == TypeOK /\ SweepInv /\ [Next]_vars => SweepInv'
<1>1. SUFFICES ASSUME TypeOK, SweepInv, [Next]_vars PROVE SweepInv'
  OBVIOUS
<1>2. CASE Begin
  BY <1>1, <1>2, BeginKeepsSweep
<1>3. CASE Pass /\ ~Survey
  BY <1>1, <1>3, PassKeepsSweep
<1>4. CASE Survey
  BY <1>1, <1>4, SurveyKeepsSweep
<1>5. CASE Abort
  <2>1. /\ at' = "aborted" /\ failed' = TRUE /\ calm' = 0
        /\ UNCHANGED <<executing, busy>>
    BY <1>5 DEF Abort, others
  <2>2. at' \notin DOMAIN After
    BY <2>1, Steps
  <2> QED
    BY <1>1, <2>1, <2>2
    DEF SweepInv, Swept, Sweeping, CdnReady, SeesUnlessFailed, RunsAreBusy,
        CalmHasNoMakers, NothingFound
<1>6. CASE Build \/ BuilderEnds \/ Machinery \/ Application \/ Stopping
  BY <1>1, <1>6, OthersKeepSweep
<1>7. CASE UNCHANGED vars
  <2>1. UNCHANGED <<at, domain, beyond, standing, busy, executing, cdn, report, failed>>
    BY <1>7 DEF vars, others, hidden
  <2> QED BY <1>1, <2>1, TakersKeepSweep DEF SweepInv, RunsAreBusy
<1> QED BY <1>1, <1>2, <1>3, <1>4, <1>5, <1>6, <1>7 DEF Next

\* everything(), "the order the dependencies allow": one pass leaves nothing
\* that its survey lists, when none of its calls failed or came too late and
\* nobody else built or launched anything meanwhile; wherever the bring-up had
\* stopped, and whatever earlier passes had left.
THEOREM QuietPassSuffices == Spec => []QuietPassIsEnough
<1>1. Init => TypeOK /\ SweepInv
  BY TypeInit, SweepInit
<1>2. TypeOK /\ SweepInv /\ [Next]_vars => (TypeOK /\ SweepInv)'
  BY TypeStep, SweepStep
<1>3. SweepInv => QuietPassIsEnough
  BY DEF SweepInv, NothingFound, QuietPassIsEnough
<1> QED
  BY <1>1, <1>2, <1>3, PTL DEF Spec

\* cleanup.py, "a bring-up that died halfway": whoever builds or launches beside
\* it, the second of two passes in which nothing fails leaves nothing, for the
\* first has taken the identity of everyone who could build.
THEOREM SecondPassSuffices == Spec => []SecondPassIsEnough
<1>1. Init => TypeOK /\ SweepInv
  BY TypeInit, SweepInit
<1>2. TypeOK /\ SweepInv /\ [Next]_vars => (TypeOK /\ SweepInv)'
  BY TypeStep, SweepStep
<1>3. SweepInv => SecondPassIsEnough
  BY DEF SweepInv, NothingFound, SecondPassIsEnough
<1> QED
  BY <1>1, <1>2, <1>3, PTL DEF Spec
=============================================================================
