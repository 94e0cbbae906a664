------------------------------ MODULE Teardown ------------------------------
(***************************************************************************)
(* scripts/dismantle.py, run by scripts/cleanup.py (or the end-to-end      *)
(* suite's unseal.py) until its survey finds nothing: it takes apart what  *)
(* the sealing run and the setup program built, in an order AWS's own      *)
(* refusals impose, and carries on after a failure.  Beside it an instance *)
(* it could not terminate may go on building, and the apply machinery may  *)
(* go on launching, until the identities they act with are gone.           *)
(***************************************************************************)
EXTENDS Integers, FiniteSets, Sequences

CONSTANT MaxFailures  \* what may go wrong in all: calls of the teardown that
                      \* fail or come too late, over all its passes, instances
                      \* somebody stops, and resources beyond a first page

\* What the two phases create, in the order they do.  What is made, used and
\* removed in pairs is one: "users", "buckets", "machines", "oac" and "cdn" (the
\* origin access controls and the distributions), "callers" (the roles the API
\* and the timer start a machine with).  "sfn" is the machines' own role.
BuildOrder == <<
    "admin", "admin_profile", "users", "vpc", "statement", "enforcement",
    "setup_instance", "go_flag",
    "buckets", "zone", "certificate",
    "boundary", "apply", "apply_profile", "sfn", "callers",
    "machines", "api", "key", "plan", "plan_key", "endpoint", "mapping",
    "oac", "cdn" >>

Built(n) == {BuildOrder[i] : i \in 1..n}

\* What an accepted apply adds; "words" are its three parameters.
Applied == {"apply_instance", "words", "timer"}

Enclaves == Built(Len(BuildOrder)) \cup Applied

\* Found by a name derived from the domain, the rest by prefix, tag or stamp.
ByDomain == {"endpoint", "mapping", "certificate", "zone", "cdn"}

\* Listed by the first page alone: by the step that deletes them, which shows no
\* key of a plan it does not show, and by the survey.
OnePageDeletes == {"api", "plan", "key", "machines", "zone"}
OnePageSurvey  == OnePageDeletes \cup
    {"admin", "apply", "sfn", "callers", "users", "admin_profile", "apply_profile",
     "boundary", "endpoint"}

ASSUME TeardownAssumption == MaxFailures \in Nat

VARIABLES
    at,         \* the teardown's next step
    domain,     \* the domain this pass goes by
    standing,   \* what stands of the enclave, and "app_role": a role of the
                \* application's, which carries the enclave's boundary
    off,        \* the distributions are disabled
    deployed,   \* and redeployed since
    built,      \* how far the setup program has got in BuildOrder, while its
                \* instance runs; otherwise 0
    executing,  \* an execution of either machine is in flight
    stopping,   \* the instances on their way from running to stopped
    beyond,     \* what the account's other resources keep off the first page
    found,      \* the list of this pass's survey
    unseen,     \* what stood at that survey and its listings could not show
    failures,   \* what may still go wrong
    failed,     \* something failed or came too late in this pass, or it goes
                \* by another domain, or a first page hides what it deletes
    busy,       \* somebody else created something during this pass
    calm        \* the last passes in which nothing failed, up to two

others == <<built, executing>>
cdn    == <<off, deployed>>
hidden == <<stopping, beyond>>
report == <<found, unseen, calm>>
vars == <<at, domain, standing, others, cdn, hidden, report, failures, failed,
          busy>>

\* Mutant of After: the plan before the api that holds it, as it once was
\* (tests/e2e/test_teardown.py).
AfterPlanFirst == [
    instances |-> "mapping",    mapping |-> "endpoint",   endpoint |-> "plan_key",
    plan_key |-> "plan",        plan |-> "api",           api |-> "key",
    key |-> "machines",         machines |-> "timer",     timer |-> "disable",
    disable |-> "deployed",     deployed |-> "distributions",
    distributions |-> "oacs",   oacs |-> "buckets",       buckets |-> "zone",
    zone |-> "profiles",        profiles |-> "roles",     roles |-> "users",
    users |-> "policies",       policies |-> "lock",      lock |-> "statement",
    statement |-> "vpc",        vpc |-> "certificate",
    certificate |-> "parameters", parameters |-> "survey", survey |-> "reported" ]

\* The order of the steps in everything(), and of the calls within them.
After == [
    instances |-> "mapping",    mapping |-> "endpoint",   endpoint |-> "api",
    api |-> "plan_key",         plan_key |-> "plan",      plan |-> "key",
    key |-> "machines",         machines |-> "timer",     timer |-> "disable",
    disable |-> "deployed",     deployed |-> "distributions",
    distributions |-> "oacs",   oacs |-> "buckets",       buckets |-> "zone",
    zone |-> "profiles",        profiles |-> "roles",     roles |-> "users",
    users |-> "policies",       policies |-> "lock",      lock |-> "statement",
    statement |-> "vpc",        vpc |-> "certificate",
    certificate |-> "parameters", parameters |-> "survey", survey |-> "reported" ]

Instances == {"setup_instance", "apply_instance"}
Roles     == {"admin", "apply", "sfn", "callers"}

\* What each of the plain steps deletes, one call after the other.
Targets == [
    mapping  |-> {"mapping"},   api   |-> {"api"},   plan_key |-> {"plan_key"},
    plan     |-> {"plan"},      key   |-> {"key"},   machines |-> {"machines"},
    timer    |-> {"timer"},     oacs  |-> {"oac"},
    profiles |-> {"admin_profile", "apply_profile"}, roles |-> Roles,
    users    |-> {"users"},     statement |-> {"statement"},
    vpc      |-> {"vpc"},
    parameters |-> {"go_flag", "words"} ]

TypeOK ==
    /\ at \in DOMAIN After \cup {"idle", "aborted", "reported"}
    /\ domain \in {"ours", "other"}
    /\ standing \subseteq Enclaves \cup {"app_role"}
    /\ built \in 0..Len(BuildOrder)
    /\ stopping \subseteq Instances /\ beyond \subseteq OnePageSurvey
    /\ found \subseteq Enclaves /\ unseen \subseteq Enclaves
    /\ failures \in 0..MaxFailures
    /\ off \in BOOLEAN /\ deployed \in BOOLEAN /\ executing \in BOOLEAN
    /\ failed \in BOOLEAN /\ busy \in BOOLEAN
    /\ calm \in 0..2

-----------------------------------------------------------------------------
(* What AWS refuses. *)

\* As long as the first stands, the second is not deleted.
Protects == {
    <<"mapping", "api">>, <<"api", "plan">>, <<"plan_key", "plan">>,
    <<"cdn", "oac">>, <<"admin_profile", "admin">>, <<"apply_profile", "apply">>,
    <<"apply", "boundary">>, <<"app_role", "boundary">>,
    <<"cdn", "certificate">>, <<"endpoint", "certificate">> }

Refused(r) == \E p \in standing : <<p, r>> \in Protects

\* The first is made from the second, which must stand.
MadeFrom == {
    <<"admin_profile", "admin">>, <<"apply_profile", "apply">>,
    <<"apply", "boundary">>, <<"machines", "sfn">>,
    <<"plan", "api">>, <<"plan_key", "plan">>, <<"plan_key", "key">>,
    <<"endpoint", "certificate">>, <<"mapping", "endpoint">>, <<"mapping", "api">>,
    <<"cdn", "certificate">>, <<"cdn", "oac">>, <<"cdn", "buckets">>,
    <<"timer", "callers">>, <<"apply_instance", "apply_profile">> }

CanBeMade(r) == \A u \in Enclaves : <<r, u>> \in MadeFrom => u \in standing

-----------------------------------------------------------------------------
(* Everybody else. *)

BuilderAlive ==
    /\ "go_flag" \in Built(built)
    /\ {"setup_instance", "admin"} \subseteq standing

\* The setup program goes on with what it was building.
Build ==
    /\ BuilderAlive /\ built < Len(BuildOrder)
    /\ LET r == BuildOrder[built + 1] IN
       /\ CanBeMade(r)
       /\ standing' = standing \cup {r}
    /\ built' = built + 1
    /\ busy' = TRUE
    /\ UNCHANGED <<at, domain, hidden, executing, cdn, report, failures, failed>>

\* It is done, or a call of it failed: either way it terminates itself.
BuilderEnds ==
    /\ BuilderAlive
    /\ standing' = standing \ {"setup_instance"}
    /\ built' = 0
    /\ UNCHANGED <<at, domain, hidden, executing, cdn, report, failures, failed, busy>>

\* A request or the timer starts a machine.
Starts ==
    /\ ~executing /\ {"machines", "callers"} \subseteq standing
    /\ {"api", "plan", "plan_key", "key"} \subseteq standing \/ "timer" \in standing
    /\ executing' = TRUE
    /\ busy' = TRUE
    /\ UNCHANGED <<at, domain, hidden, standing, built, cdn, report, failures, failed>>

\* An execution makes one of its calls, with the machines' own role, whether
\* or not its machine still stands.
Creates(r) ==
    /\ executing /\ "sfn" \in standing /\ CanBeMade(r)
    /\ standing' = standing \cup {r}
    /\ busy' = TRUE
    /\ UNCHANGED <<at, domain, hidden, others, cdn, report, failures, failed>>

\* The check takes the timer and the words down; so does an unwinding receive.
TakesDown(r) ==
    /\ executing /\ "sfn" \in standing
    /\ standing' = standing \ {r}
    /\ UNCHANGED <<at, domain, hidden, others, cdn, report, failures, failed, busy>>

Ends ==
    /\ executing' = FALSE
    /\ UNCHANGED <<at, domain, hidden, standing, built, cdn, report, failures, failed, busy>>

\* The application runs, with its role.
ApplicationRuns ==
    /\ {"apply_instance", "apply"} \subseteq standing
    /\ "apply_instance" \notin stopping

\* The application's setup.sh, in update mode, writes its word.
SaysReady ==
    /\ ApplicationRuns
    /\ standing' = standing \cup {"words"}
    /\ busy' = TRUE
    /\ UNCHANGED <<at, domain, hidden, others, cdn, report, failures, failed>>

\* So may setup.sh make a role, which has to carry the enclave's boundary.
AppMakesRole ==
    /\ ApplicationRuns /\ "boundary" \in standing
    /\ standing' = standing \cup {"app_role"}
    /\ busy' = TRUE
    /\ UNCHANGED <<at, domain, hidden, others, cdn, report, failures, failed>>

\* Whether somebody may put something back between the emptying of a bucket,
\* or of the zone, and its deletion.
Refills(r) ==
    \/ BuilderAlive
    \/ r = "buckets" /\ executing /\ "sfn" \in standing
    \/ r = "zone" /\ ApplicationRuns

\* An instance is stopped, by somebody or from within, which ends what the setup
\* program was doing on it.
Stops(i) ==
    /\ i \in standing \ stopping /\ failures > 0
    /\ stopping' = stopping \cup {i}
    /\ failures' = failures - 1
    /\ built' = IF i = "setup_instance" THEN 0 ELSE built
    /\ UNCHANGED <<at, domain, beyond, standing, executing, cdn, report, failed, busy>>

\* It has stopped, and may be started again.
Stopped(i) ==
    /\ i \in stopping
    /\ stopping' = stopping \ {i}
    /\ UNCHANGED <<at, domain, beyond, standing, others, cdn, report, failures, failed, busy>>

-----------------------------------------------------------------------------
(* One pass. *)

Step(step) == at = step /\ at' = After[step]

Unpaged == beyond \cap OnePageDeletes

\* What a listing to delete by shows of a set.
Listed(targets) ==
    {r \in (targets \cap standing) \ Unpaged :
        /\ r \in ByDomain => domain = "ours"
        /\ r = "plan_key" => "plan" \notin Unpaged}

\* The calls that fail: none, one of them, or the listing they go by.
Failures(targets) ==
    {{}} \cup IF failures > 0 THEN {{r} : r \in targets} \cup {targets} ELSE {}

Note(trouble) ==
    /\ failures' = IF trouble THEN failures - 1 ELSE failures
    /\ failed' = (failed \/ trouble)

Steady == UNCHANGED <<failures, failed>>

\* The domain a run is for, as the account tells it: the zone with the
\* enclave's stamp first, if the first page shows it, then the only one
\* registered, which may be another; where neither says, --domain does.
Discovered == IF "zone" \in standing \ beyond THEN {"ours"} ELSE {"ours", "other"}

\* The operator runs it, again and again until the survey finds nothing, and
\* may first remove what is the application's.
Begin ==
    /\ \/ at \in {"idle", "aborted"}
       \/ at = "reported" /\ found # {}
    /\ at' = "instances"
    /\ domain' \in Discovered
    /\ failed' = (domain' # "ours" \/ Unpaged # {}) /\ busy' = executing
    /\ found' = {} /\ unseen' = {}
    /\ standing' \in {standing, standing \ {"app_role"}}
    /\ UNCHANGED <<hidden, others, cdn, calm, failures>>

\* A listing nothing guards, or a poll, raises: the pass is over.
Abort ==
    /\ at \in {"instances", "disable", "deployed", "profiles", "roles", "users",
               "policies", "certificate"}
    /\ failures > 0
    /\ at' = "aborted"
    /\ failures' = failures - 1 /\ failed' = TRUE
    /\ calm' = 0
    /\ UNCHANGED <<domain, hidden, standing, others, cdn, found, unseen, busy>>

\* Mutant of TerminateInstances: by the setup instance's name, not by prefix.
TerminateSetupOnly ==
    /\ Step("instances")
    /\ standing' = standing \ {"setup_instance"} /\ built' = 0
    /\ Steady
    /\ UNCHANGED <<domain, hidden, executing, cdn, report, busy>>

\* One call for all of them, and waited for; if it fails, the pass goes on.  One
\* that is stopping is left out.
TerminateInstances ==
    /\ Step("instances")
    /\ \E trouble \in BOOLEAN :
        /\ trouble => failures > 0 /\ Listed(Instances \ stopping) # {}
        /\ standing' = IF trouble THEN standing
                       ELSE standing \ Listed(Instances \ stopping)
        /\ built' = IF "setup_instance" \in standing' THEN built ELSE 0
        /\ failures' = IF trouble THEN failures - 1 ELSE failures
        /\ failed' = (failed \/ trouble \/ stopping \cap standing # {})
    /\ UNCHANGED <<domain, hidden, executing, cdn, report, busy>>

\* Each delete is attempted; AWS may refuse it, or it may fail.
Attempt(step) ==
    /\ Step(step)
    /\ \E failing \in Failures(Listed(Targets[step])) :
        /\ standing' = standing \ {r \in Listed(Targets[step]) \ failing : ~Refused(r)}
        /\ Note(failing # {})
    /\ UNCHANGED <<domain, hidden, others, cdn, report, busy>>

DeleteMappings       == Attempt("mapping")
DeleteApis           == Attempt("api")
DeletePlanKeys       == Attempt("plan_key")
DeletePlans          == Attempt("plan")
DeleteKeys           == Attempt("key")
DeleteStateMachines  == Attempt("machines")
DeleteSchedules      == Attempt("timer")
DeleteOriginControls == Attempt("oacs")
DeleteProfiles       == Attempt("profiles")
DeleteRoles          == Attempt("roles")
DeleteUsers          == Attempt("users")
DeleteStatement      == Attempt("statement")
DeleteAnchorVpcs     == Attempt("vpc")
DeleteParameters     == Attempt("parameters")

\* A custom domain takes what is left of its mappings along.  The call is made
\* without a listing.
DeleteEndpoint ==
    /\ Step("endpoint")
    /\ \E failing \in Failures({"endpoint"} \cap Listed(ByDomain)) :
        /\ standing' = IF failing # {} \/ domain # "ours" THEN standing
                       ELSE standing \ {"endpoint", "mapping"}
        /\ Note(failing # {})
    /\ UNCHANGED <<domain, hidden, others, cdn, report, busy>>

\* Mutant of DisableDistributions: where there are none the step returns, and
\* the origin access controls are part of it.
DisableOrReturn ==
    /\ at = "disable"
    /\ IF Listed({"cdn"}) = {} THEN at' = "buckets" ELSE at' = After["disable"]
    /\ off' = (off \/ Listed({"cdn"}) # {})
    /\ Steady
    /\ UNCHANGED <<domain, hidden, standing, others, deployed, report, busy>>

DisableDistributions ==
    /\ Step("disable")
    /\ \E failing \in Failures(Listed({"cdn"})) :
        /\ off' = (off \/ "cdn" \in Listed({"cdn"}) \ failing)
        /\ Note(failing # {})
    /\ UNCHANGED <<domain, hidden, standing, others, deployed, report, busy>>

\* One that has not finished in time is left to the next pass.
AwaitDeployed ==
    /\ Step("deployed")
    /\ \E late \in BOOLEAN :
        /\ late => failures > 0 /\ Listed({"cdn"}) # {}
        /\ deployed' = (off /\ (deployed \/ (Listed({"cdn"}) # {} /\ ~late)))
        /\ Note(late)
    /\ UNCHANGED <<domain, hidden, standing, others, off, report, busy>>

DeleteDistributions ==
    /\ Step("distributions")
    /\ \E failing \in Failures(Listed({"cdn"})) :
        /\ standing' = standing \ {r \in Listed({"cdn"}) \ failing : deployed}
        /\ Note(failing # {})
    /\ off' = (off /\ "cdn" \in standing') /\ deployed' = (deployed /\ "cdn" \in standing')
    /\ UNCHANGED <<domain, hidden, others, report, busy>>

\* Emptied, then deleted: refused if something was put back between the two.
EmptyAndDelete(step, targets) ==
    /\ Step(step)
    /\ \E failing \in Failures(Listed(targets)),
          refilled \in SUBSET {r \in Listed(targets) : Refills(r)} :
        /\ standing' = standing \ (Listed(targets) \ (failing \cup refilled))
        /\ Note(failing # {})
    /\ UNCHANGED <<domain, hidden, others, cdn, report, busy>>

DeleteBuckets == EmptyAndDelete("buckets", {"buckets"})
DeleteZone    == EmptyAndDelete("zone", {"zone"})

\* Refused while a role carries the boundary: that of the application's is not
\* for this program to remove.
DeletePolicies ==
    /\ Step("policies")
    /\ \E trouble \in BOOLEAN :
        /\ trouble => failures > 0 /\ Listed({"boundary"}) # {}
        /\ standing' = IF trouble \/ Refused("boundary") THEN standing
                       ELSE standing \ Listed({"boundary"})
        /\ failures' = IF trouble THEN failures - 1 ELSE failures
        /\ failed' = (failed \/ trouble \/ "app_role" \in standing)
    /\ UNCHANGED <<domain, hidden, others, cdn, report, busy>>

\* Mutant of DisableLock: the statement first, then its enforcement.
StatementFirst ==
    /\ at = "lock"
    /\ \E trouble \in BOOLEAN :
        /\ trouble => failures > 0 /\ Listed({"statement"}) # {}
        /\ at' = "vpc"
        /\ standing' = standing \ IF trouble THEN {"statement"} ELSE {"statement", "enforcement"}
        /\ Note(trouble)
    /\ UNCHANGED <<domain, hidden, others, cdn, report, busy>>

\* disable_lock: enforcement first; if that fails the statement is not tried.
DisableLock ==
    /\ at = "lock"
    /\ \E trouble \in BOOLEAN :
        /\ trouble => failures > 0 /\ Listed({"statement"}) # {}
        /\ IF Listed({"statement"}) = {} \/ trouble
           THEN at' = "vpc" /\ UNCHANGED standing
           ELSE at' = After["lock"] /\ standing' = standing \ {"enforcement"}
        /\ Note(trouble)
    /\ UNCHANGED <<domain, hidden, others, cdn, report, busy>>

\* Retried while ACM finds it in use, which it may long after its last user is
\* gone, and then left to the next pass.
DeleteCertificate ==
    /\ Step("certificate")
    /\ \E trouble \in BOOLEAN :
        /\ trouble => failures > 0 /\ Listed({"certificate"}) # {}
        /\ standing' = IF trouble \/ Refused("certificate") THEN standing
                       ELSE standing \ Listed({"certificate"})
        /\ Note(trouble)
    /\ UNCHANGED <<domain, hidden, others, cdn, report, busy>>

\* The listings of still_standing.  What is a part of something else has none.
Listings ==
    {{"statement"}, Roles, {"users"}, {"admin_profile", "apply_profile"}, {"boundary"},
     {"buckets"}, {"certificate"}, {"cdn"}, {"oac"}, {"zone"}, {"api"}, {"endpoint"}, {"plan"}, {"key"},
     {"machines"}, {"timer"}, Instances, {"vpc"}, {"go_flag"}, {"words"}}

\* Mutant of Surveyed: before plans and keys were looked at.
SurveyedBefore == UNION Listings \ {"plan", "key"}

\* Mutant of Surveyed: whatever role carries the boundary, whoever made it.
SurveyedByBoundary == UNION Listings \cup {"app_role"}

Surveyed == UNION Listings

\* What its listings do not show: what another domain than the enclave's does
\* not find, what is not on a first page, the instances that are stopping.
Unshown ==
    beyond \cup stopping \cup IF domain = "ours" THEN {} ELSE ByDomain

\* One that fails counts as empty, which makes a difference where it is not.
Survey ==
    /\ Step("survey")
    /\ \E lost \in {{}} \cup
            {l \in Listings : failures > 0 /\ (l \cap standing) \ Unshown # {}} :
        /\ found' = (Surveyed \cap standing) \ (Unshown \cup lost)
        /\ unseen' = (Unshown \cup lost) \cap standing
        /\ Note(lost # {})
    /\ calm' = IF failed' THEN 0 ELSE IF calm < 2 THEN calm + 1 ELSE 2
    /\ UNCHANGED <<domain, hidden, standing, others, cdn, busy>>

-----------------------------------------------------------------------------

\* What an account is left with: a seal or a bring-up stopped anywhere, the
\* machinery before, between and during applies.
Leftovers(n) ==
    IF n < Len(BuildOrder) THEN {{}}
    ELSE {{}, {"apply_instance", "words", "timer"}, {"apply_instance", "words", "app_role"}}

Init ==
    /\ beyond \in SUBSET OnePageSurvey
    /\ failures \in {f \in 0..MaxFailures : Cardinality(beyond) + f = MaxFailures}
    /\ \E n \in 0..Len(BuildOrder), gone \in SUBSET {"setup_instance"} :
        /\ \E left \in Leftovers(n) : standing = (Built(n) \ gone) \cup left
        /\ built = IF "setup_instance" \in standing THEN n ELSE 0
    /\ stopping = {}
    /\ at = "idle" /\ domain = "ours"
    /\ off = FALSE /\ deployed = FALSE
    /\ executing = FALSE
    /\ found = {} /\ unseen = {} /\ calm = 0
    /\ failed = FALSE /\ busy = FALSE

\* One step of the pass.
Pass ==
    \/ TerminateInstances
    \/ DeleteMappings \/ DeleteEndpoint \/ DeleteApis
    \/ DeletePlanKeys \/ DeletePlans \/ DeleteKeys
    \/ DeleteStateMachines \/ DeleteSchedules
    \/ DisableDistributions \/ AwaitDeployed \/ DeleteDistributions
    \/ DeleteOriginControls \/ DeleteBuckets \/ DeleteZone
    \/ DeleteProfiles \/ DeleteRoles \/ DeleteUsers \/ DeletePolicies
    \/ DisableLock \/ DeleteStatement \/ DeleteAnchorVpcs
    \/ DeleteCertificate \/ DeleteParameters \/ Survey

Machinery ==
    \/ Starts \/ Ends
    \/ \E r \in Applied : Creates(r)
    \/ \E r \in {"timer", "words"} : TakesDown(r)

Application == SaysReady \/ AppMakesRole

Stopping == \E i \in Instances : Stops(i) \/ Stopped(i)

Next ==
    \/ Begin \/ Pass \/ Abort
    \/ Build \/ BuilderEnds
    \/ Machinery \/ Application \/ Stopping

\* Every pass ends, and the operator repeats it until its survey finds nothing;
\* if it keeps going by another domain or is kept from finishing by what is the
\* application's, he gives --domain and removes that.  Nobody has to stop
\* building or applying by himself, and what fails or is late MaxFailures times
\* is not so once more.
Fairness ==
    /\ WF_vars(Pass)
    /\ SF_vars(Begin /\ domain' = "ours" /\ "app_role" \notin standing')

Spec == Init /\ [][Next]_vars /\ Fairness

-----------------------------------------------------------------------------
(* Properties. *)

\* What stands with one of a set, but in no listing of the survey.
Parts(s) ==
    {p \in {"enforcement", "plan_key", "mapping"} :
        [enforcement |-> "statement", plan_key |-> "plan", mapping |-> "endpoint"][p] \in s}

\* What one of a set can still make.
Offspring(s) ==
    (IF {"setup_instance", "admin"} \subseteq s THEN Enclaves ELSE {})
    \cup (IF "sfn" \in s THEN Applied ELSE {})
    \cup (IF {"apply_instance", "apply"} \subseteq s THEN {"words"} ELSE {})

\* report: "nothing. The account is ready for another run."  When the survey
\* says so, nothing of the enclave's stands but what a failed listing, a first
\* page, another domain or a stop kept from it, with what belongs to that or is
\* still made by it; nothing else comes back, whoever was at work.
CleanMeansGone ==
    at = "reported" /\ found = {} =>
        standing \cap Enclaves \subseteq unseen \cup Parts(unseen) \cup Offspring(unseen)

\* everything(): "the order the dependencies allow".  One pass is enough when
\* none of its calls failed or came too late, and nobody else built meanwhile.
QuietPassIsEnough == at = "reported" /\ ~failed /\ ~busy => found = {}

\* cleanup.py on "a bring-up that died halfway": whatever is building or
\* launching beside it, the second pass in which nothing fails leaves nothing,
\* for the first has taken every creator's identity.
SecondPassIsEnough == at = "reported" /\ calm = 2 => found = {}

\* disable_lock: "the account is never left enforcing a statement that has
\* gone", wherever it fails and however often it is repeated.
NeverEnforcesNothing == "enforcement" \in standing => "statement" \in standing

\* "a half-finished teardown must be re-runnable": repeated, it comes to a
\* clean report, wherever the seal or the bring-up had stopped; unless the API is
\* beyond the first page, which leaves its plan refused for ever.
EndsClean == "api" \notin beyond => <>(at = "reported" /\ found = {})
=============================================================================
