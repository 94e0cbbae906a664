------------------------------ MODULE BringUp ------------------------------
(***************************************************************************)
(* Phase B and the end of phase A, which run in parallel and never talk:   *)
(* the setup instance (setup/__main__.py) builds the account in order,     *)
(* while the workflow signs its statement and publishes it                 *)
(* (workflow/publish_proof.py).  They meet in the proof bucket: the        *)
(* workflow waits for it to exist, the instance for what is put into it,   *)
(* and then retires the starter user, the only writer.                     *)
(*                                                                         *)
(* Every wait of either side is a poll with a deadline.  Deadlines are     *)
(* counted in Ticks (900 seconds); a poll looks many times a tick, so a    *)
(* tick never passes over something a poll would have seen.                *)
(***************************************************************************)
EXTENDS Integers

CONSTANTS
    SignMax,        \* ticks from the go flag to the signed bundle
    BucketPollMax,  \* PROOF_BUCKET_POLL_MAX_SECONDS, the workflow's wait
    ProofPollMax,   \* PROOF_OBJECT_POLL_MAX_SECONDS, the instance's wait
    NsPollMax, CertPollMax, DistPollMax,
    MayFail         \* whether a call of either side may fail

ASSUME BringUpAssumption ==
    /\ {SignMax, BucketPollMax, ProofPollMax} \subseteq Nat
    /\ {NsPollMax, CertPollMax, DistPollMax} \subseteq Nat
    /\ MayFail \in BOOLEAN
    /\ SignMax < ProofPollMax   \* "outlasts the workflow's own wait"

VARIABLES
    go,       \* the go flag, which the instance blocks on in its user-data
    wpc,      \* the workflow's next step
    wleft,    \* ticks left of what the workflow is waiting for
    spc,      \* the instance's next step
    sleft,    \* ticks left of what the instance is waiting for
    built,    \* what the instance has built
    settled,  \* what AWS has finished of it in its own time
    boundary, \* "none", "service-wide" or "narrow"
    objects,  \* what the proof bucket holds
    writer,   \* the starter's key works
    status    \* status.json on the dashboard

vars == <<go, wpc, wleft, spc, sleft, built, settled, boundary, objects, writer, status>>
workflow == <<go, wpc, wleft>>
setup == <<spc, sleft, built, boundary, status>>

Proof == {"statement", "bundle"}

WorkflowSteps == {"release", "sign", "await_bucket", "put_statement", "put_bundle",
                  "published", "warned", "denied", "failed"}

SetupSteps == {"boot", "bucket", "dashboard", "zone", "certificate", "delegate", "roles",
               "machines", "await_certificate", "endpoint", "distributions",
               "await_deployed", "tighten", "await_proof", "retire_published",
               "retire_missing", "mark_published", "mark_missing", "terminate", "gone",
               "not_terminated"}

Statuses == [state : {"none", "starting", "apply-ready", "complete"},
             proof : {"pending", "published", "missing"}]

TypeOK ==
    /\ go \in BOOLEAN /\ writer \in BOOLEAN
    /\ wpc \in WorkflowSteps /\ spc \in SetupSteps
    /\ wleft \in 0..(SignMax + BucketPollMax)
    /\ sleft \in 0..(NsPollMax + CertPollMax + DistPollMax + ProofPollMax)
    /\ built \subseteq {"bucket", "dashboard", "zone", "certificate", "delegation",
                        "machines", "endpoint", "distributions"}
    /\ settled \subseteq {"delegation", "certificate", "distributions"}
    /\ boundary \in {"none", "service-wide", "narrow"}
    /\ objects \subseteq Proof
    /\ status \in Statuses

-----------------------------------------------------------------------------
(* The workflow after the audit. *)

Workflow(step) == wpc = step /\ UNCHANGED <<setup, settled>>

\* s8: the go flag, with the starter's key.
Release ==
    /\ Workflow("release")
    /\ go' = TRUE
    /\ wpc' = "sign"
    /\ wleft' = SignMax
    /\ UNCHANGED <<objects, writer>>

\* Write the statement, encrypt the console's credentials, sign.
Sign ==
    /\ Workflow("sign")
    /\ wpc' = "await_bucket"
    /\ wleft' = BucketPollMax
    /\ UNCHANGED <<go, objects, writer>>

BucketAppears ==
    /\ Workflow("await_bucket")
    /\ "bucket" \in built
    /\ wpc' = "put_statement"
    /\ UNCHANGED <<go, wleft, objects, writer>>

\* Timing out is a warning, not a failure.
BucketNeverAppears ==
    /\ Workflow("await_bucket")
    /\ "bucket" \notin built /\ wleft = 0
    /\ wpc' = "warned"
    /\ UNCHANGED <<go, wleft, objects, writer>>

Put(step, object, next) ==
    /\ Workflow(step)
    /\ IF writer
       THEN wpc' = next /\ objects' = objects \cup {object}
       ELSE wpc' = "denied" /\ UNCHANGED objects
    /\ UNCHANGED <<go, wleft, writer>>

PutStatement == Put("put_statement", "statement", "put_bundle")
PutBundle    == Put("put_bundle", "bundle", "published")

\* Any step of the job may raise; the steps after it do not run.
WorkflowFails ==
    /\ MayFail
    /\ wpc \in {"release", "sign", "await_bucket", "put_statement", "put_bundle"}
    /\ wpc' = "failed"
    /\ UNCHANGED <<go, wleft, setup, settled, objects, writer>>

-----------------------------------------------------------------------------
(* The setup instance, under the admin role. *)

Setup(step, next) ==
    /\ spc = step
    /\ spc' = next
    /\ UNCHANGED <<workflow, settled, objects>>

Builds(step, what, next) ==
    /\ Setup(step, next)
    /\ built' = built \cup {what}
    /\ UNCHANGED <<boundary, writer>>

\* The wait is in the user-data, before the program's first instruction.
Boot ==
    /\ go
    /\ Setup("boot", "bucket")
    /\ UNCHANGED <<sleft, built, boundary, writer, status>>

CreateProofBucket ==
    /\ Builds("bucket", "bucket", "dashboard")
    /\ UNCHANGED <<sleft, status>>

CreateDashboard ==
    /\ Builds("dashboard", "dashboard", "zone")
    /\ status' = [state |-> "starting", proof |-> "pending"]
    /\ UNCHANGED sleft

\* The zone comes with the null MX, which counts once the delegation lands.
CreateZone ==
    /\ Builds("zone", "zone", "certificate")
    /\ UNCHANGED <<sleft, status>>

RequestCertificate ==
    /\ Builds("certificate", "certificate", "delegate")
    /\ sleft' = NsPollMax
    /\ UNCHANGED status

\* update_nameservers_and_wait: the call, then polling its operation.
Delegate ==
    /\ Setup("delegate", IF "delegation" \in built THEN "roles" ELSE "delegate")
    /\ "delegation" \in built => "delegation" \in settled
    /\ built' = built \cup {"delegation"}
    /\ UNCHANGED <<sleft, boundary, writer, status>>

CreateRoles ==
    /\ Setup("roles", "machines")
    /\ boundary' = "service-wide"
    /\ UNCHANGED <<sleft, built, writer, status>>

CreateMachines ==
    /\ Builds("machines", "machines", "await_certificate")
    /\ status' = [state |-> "apply-ready", proof |-> "pending"]
    /\ sleft' = CertPollMax

\* As it would be if the public name came after the distributions, or never.
AwaitCertificateOnly ==
    /\ "certificate" \in settled
    /\ Setup("await_certificate", "distributions")
    /\ UNCHANGED <<sleft, built, boundary, writer, status>>

AwaitCertificate ==
    /\ "certificate" \in settled
    /\ Setup("await_certificate", "endpoint")
    /\ UNCHANGED <<sleft, built, boundary, writer, status>>

\* As it would be without deadlines.
NeverGivesUp == FALSE

\* A wait that raises when its deadline passes ends the bring-up.
GivesUp ==
    /\ \/ spc = "delegate" /\ "delegation" \in built \ settled
       \/ spc = "await_certificate" /\ "certificate" \notin settled
    /\ sleft = 0
    /\ spc' = "terminate"
    /\ UNCHANGED <<workflow, sleft, built, settled, boundary, objects, writer, status>>

AttachEndpoint ==
    /\ Builds("endpoint", "endpoint", "distributions")
    /\ UNCHANGED <<sleft, status>>

CreateDistributions ==
    /\ Builds("distributions", "distributions", "await_deployed")
    /\ sleft' = DistPollMax
    /\ UNCHANGED status

\* Not deployed in time is a warning.
AwaitDeployed ==
    /\ "distributions" \in settled \/ sleft = 0
    /\ Setup("await_deployed", "tighten")
    /\ UNCHANGED <<sleft, built, boundary, writer, status>>

\* As it would be with the workflow's own wait, or less.
TightenWithTheOtherWait ==
    /\ Setup("tighten", "await_proof")
    /\ boundary' = "narrow"
    /\ sleft' = BucketPollMax
    /\ UNCHANGED <<built, writer, status>>

TightenBoundary ==
    /\ Setup("tighten", "await_proof")
    /\ boundary' = "narrow"
    /\ sleft' = ProofPollMax
    /\ UNCHANGED <<built, writer, status>>

\* As it would be if the first object stood for both.
StatementLanded == "statement" \in objects

ProofLanded == objects = Proof

AwaitProof ==
    /\ \/ ProofLanded /\ Setup("await_proof", "retire_published")
       \/ ~ProofLanded /\ sleft = 0 /\ Setup("await_proof", "retire_missing")
    /\ UNCHANGED <<sleft, built, boundary, writer, status>>

\* As it would be if the writer were kept for a proof that may still come.
RetireOnceLanded ==
    /\ \/ Setup("retire_published", "mark_published") /\ writer' = FALSE
       \/ Setup("retire_missing", "mark_missing") /\ UNCHANGED writer
    /\ UNCHANGED <<sleft, built, boundary, status>>

\* The writer goes either way; its keys are the first thing delete_user deletes.
RetireWriter ==
    /\ \/ Setup("retire_published", "mark_published")
       \/ Setup("retire_missing", "mark_missing")
    /\ writer' = FALSE
    /\ UNCHANGED <<sleft, built, boundary, status>>

MarkComplete ==
    /\ \/ /\ Setup("mark_published", "terminate")
          /\ status' = [state |-> "complete", proof |-> "published"]
       \/ /\ Setup("mark_missing", "terminate")
          /\ status' = [state |-> "complete", proof |-> "missing"]
    /\ UNCHANGED <<sleft, built, boundary, writer>>

\* Any call may raise; whatever happened, the instance goes on to destroy
\* itself.  delete_user may raise after the keys are gone.
SetupFails ==
    /\ MayFail
    /\ spc \notin {"boot", "terminate", "gone", "not_terminated"}
    /\ spc' = "terminate"
    /\ \/ UNCHANGED writer
       \/ spc \in {"retire_published", "retire_missing"} /\ writer' = FALSE
    /\ UNCHANGED <<workflow, sleft, built, settled, boundary, objects, status>>

\* main's finally: a failure here is a warning, too.
Terminate ==
    /\ \/ Setup("terminate", "gone")
       \/ MayFail /\ Setup("terminate", "not_terminated")
    /\ UNCHANGED <<sleft, built, boundary, writer, status>>

-----------------------------------------------------------------------------
(* What AWS finishes in its own time, or never. *)

AwsFinishes ==
    /\ \/ "delegation" \in built \ settled /\ settled' = settled \cup {"delegation"}
       \/ /\ "certificate" \in built \ settled /\ "delegation" \in settled
          /\ settled' = settled \cup {"certificate"}
       \/ "distributions" \in built \ settled /\ settled' = settled \cup {"distributions"}
    /\ UNCHANGED <<workflow, setup, objects, writer>>

\* A poll that has something to see, or whose deadline is up, takes its step
\* before time goes on; an upload takes no time worth counting.
SomethingIsDue ==
    \/ wpc = "sign" /\ wleft = 0
    \/ wpc = "await_bucket" /\ ("bucket" \in built \/ wleft = 0)
    \/ wpc \in {"put_statement", "put_bundle"}
    \/ spc = "delegate" /\ ("delegation" \in settled \/ sleft = 0)
    \/ spc = "await_certificate" /\ ("certificate" \in settled \/ sleft = 0)
    \/ spc = "await_deployed" /\ ("distributions" \in settled \/ sleft = 0)
    \/ spc = "await_proof" /\ (ProofLanded \/ sleft = 0)

Waiting == wpc \in {"sign", "await_bucket"}
           \/ spc \in {"delegate", "await_certificate", "await_deployed", "await_proof"}

\* As it would be if a deadline could be overslept.
LessPastZero(n) == n - 1

Less(n) == IF n = 0 THEN 0 ELSE n - 1

Tick ==
    /\ Waiting /\ ~SomethingIsDue
    /\ wleft' = IF wpc \in {"sign", "await_bucket"} THEN Less(wleft) ELSE wleft
    /\ sleft' = Less(sleft)
    /\ UNCHANGED <<go, wpc, spc, built, settled, boundary, objects, writer, status>>

-----------------------------------------------------------------------------
Init ==
    /\ go = FALSE /\ wpc = "release" /\ wleft = 0
    /\ spc = "boot" /\ sleft = 0
    /\ built = {} /\ settled = {} /\ boundary = "none" /\ objects = {}
    /\ writer = TRUE
    /\ status = [state |-> "none", proof |-> "pending"]

WorkflowGoesOn ==
    \/ Release \/ Sign \/ BucketAppears \/ BucketNeverAppears
    \/ PutStatement \/ PutBundle

SetupGoesOn ==
    \/ Boot \/ CreateProofBucket \/ CreateDashboard \/ CreateZone \/ RequestCertificate
    \/ Delegate \/ CreateRoles \/ CreateMachines \/ AwaitCertificate \/ GivesUp
    \/ AttachEndpoint \/ CreateDistributions \/ AwaitDeployed \/ TightenBoundary
    \/ AwaitProof \/ RetireWriter \/ MarkComplete \/ Terminate

WorkflowNext == WorkflowGoesOn \/ WorkflowFails
SetupNext == SetupGoesOn \/ SetupFails

Next == WorkflowNext \/ SetupNext \/ AwsFinishes \/ Tick

\* Both programs go on running and time goes on; no call ever has to fail, and
\* AWS owes nobody an answer.
Fairness == WF_vars(WorkflowGoesOn) /\ WF_vars(SetupGoesOn) /\ WF_vars(Tick)

Spec == Init /\ [][Next]_vars /\ Fairness

-----------------------------------------------------------------------------
(* What the handover promises. *)

\* The dashboard's last word about the proof stays true: "published" with both
\* objects there, "missing" only if the pair never comes to be there later.
ProofFieldStaysTrue ==
    status.state = "complete" => (status.proof = "published" <=> objects = Proof)

\* The instance's wait outlasts the workflow's: when it retires the writer no
\* upload is still coming, so none is ever turned away.
NoUploadTurnedAway == wpc # "denied"

\* "complete" is said only of an account in its final shape: no writer left,
\* the boundary narrowed, the endpoint in place.
CompleteIsFinal ==
    status.state = "complete" => ~writer /\ boundary = "narrow" /\ "endpoint" \in built

\* Nobody is shown "apply-ready" before the endpoint has its public name, though
\* the status is written long before: the dashboard itself is not yet reachable.
ShownReadyIsReady ==
    "distributions" \in built /\ status.state = "apply-ready" => "endpoint" \in built

\* Nothing in either program waits for ever: once released, the instance ends,
\* whatever AWS never finishes, and so does the job that publishes.
BothEnd == go ~> /\ spc \in {"gone", "not_terminated"}
                 /\ wpc \in {"published", "warned", "denied", "failed"}

\* The starter is the only credential that outlives root, and the setup program
\* deletes it: an instance that is gone has left no writer behind.
GoneLeavesNoWriter == spc = "gone" => ~writer
=============================================================================
