--------------------------- MODULE BringUpProofs ---------------------------
(***************************************************************************)
(* The handover of the proof is safe for every choice of the deadlines, as *)
(* long as signing takes less than the instance waits for the proof:  no   *)
(* upload is turned away, and the dashboard's word about the proof stays   *)
(* true.  What the other words of status.json promise of the account is so *)
(* whatever the deadlines and whatever fails, by the order the instance    *)
(* builds in.                                                              *)
(***************************************************************************)
EXTENDS BringUp, TLAPS

\* The workflow will put nothing into the bucket any more.
Over == {"published", "warned", "failed"}

Uploading == {"await_bucket", "put_statement", "put_bundle"}

\* From the bucket on, the steps of a bring-up that has not failed.
HasBucket == {"dashboard", "zone", "certificate", "delegate", "roles", "machines",
              "await_certificate", "endpoint", "distributions", "await_deployed",
              "tighten", "await_proof"}

\* Nothing before the go flag, and the bucket before anything else.
GoFirst ==
    /\ ~go => spc = "boot"
    /\ wpc = "release" => ~go
    /\ spc \in HasBucket => "bucket" \in built

\* The pair is whole exactly when the workflow has put both.
PairIsPut ==
    /\ "bundle" \in objects => wpc = "published"
    /\ wpc \in {"put_bundle", "published"} => "statement" \in objects
    /\ wpc = "published" => "bundle" \in objects

\* The instance began to wait after the workflow began to sign, and both count
\* the same ticks: what the instance has left exceeds what the workflow needs.
WaitOutlasts ==
    /\ wpc = "sign" => wleft <= SignMax
    /\ spc = "await_proof" /\ wpc = "sign" => sleft >= wleft + (ProofPollMax - SignMax)
    /\ spc = "await_proof" /\ wpc \in Uploading => sleft >= 1

\* Once the instance has stopped waiting, the workflow has nothing to put.
RetiredWhenOver ==
    /\ spc \in {"retire_published", "mark_published"} => objects = Proof
    /\ spc \in {"retire_missing", "mark_missing"} => objects # Proof /\ wpc \in Over
    /\ ~writer => wpc \in Over
    /\ wpc # "denied"
    /\ status.state = "complete" =>
          wpc \in Over /\ (status.proof = "published" <=> objects = Proof)

IInv == TypeOK /\ GoFirst /\ PairIsPut /\ WaitOutlasts /\ RetiredWhenOver

-----------------------------------------------------------------------------
\* What the assumption says of the deadlines, one by one.
LEMMA Deadlines ==
    /\ SignMax \in Nat /\ BucketPollMax \in Nat /\ ProofPollMax \in Nat
    /\ NsPollMax \in Nat /\ CertPollMax \in Nat /\ DistPollMax \in Nat
    /\ SignMax < ProofPollMax
  BY BringUpAssumption

\* Every value stays in its range: the workflow's steps.
LEMMA TypeWorkflow == TypeOK /\ WorkflowNext => TypeOK'
<1>1. SUFFICES ASSUME TypeOK, WorkflowNext PROVE TypeOK'
  OBVIOUS
<1>2. CASE Release
  BY <1>1, <1>2, Deadlines DEF TypeOK, WorkflowSteps, Release, Workflow, setup
<1>3. CASE Sign
  BY <1>1, <1>3, Deadlines DEF TypeOK, WorkflowSteps, Sign, Workflow, setup
<1>4. CASE BucketAppears
  BY <1>1, <1>4, Deadlines DEF TypeOK, WorkflowSteps, BucketAppears, Workflow, setup
<1>5. CASE BucketNeverAppears
  BY <1>1, <1>5, Deadlines DEF TypeOK, WorkflowSteps, BucketNeverAppears, Workflow, setup
<1>6. CASE PutStatement
  <2>1. wpc' \in WorkflowSteps
    BY <1>6 DEF PutStatement, Put, WorkflowSteps
  <2>2. objects' \subseteq Proof
    BY <1>1, <1>6 DEF TypeOK, PutStatement, Put, Proof
  <2> QED
    BY <1>1, <1>6, <2>1, <2>2 DEF TypeOK, PutStatement, Put, Workflow, setup
<1>7. CASE PutBundle
  <2>1. wpc' \in WorkflowSteps
    BY <1>7 DEF PutBundle, Put, WorkflowSteps
  <2>2. objects' \subseteq Proof
    BY <1>1, <1>7 DEF TypeOK, PutBundle, Put, Proof
  <2> QED
    BY <1>1, <1>7, <2>1, <2>2 DEF TypeOK, PutBundle, Put, Workflow, setup
<1>8. CASE WorkflowFails
  BY <1>1, <1>8, Deadlines DEF TypeOK, WorkflowSteps, WorkflowFails, setup
<1> QED
  BY <1>1, <1>2, <1>3, <1>4, <1>5, <1>6, <1>7, <1>8 DEF WorkflowNext, WorkflowGoesOn

\* Every value stays in its range: the instance's steps.
LEMMA TypeSetup == TypeOK /\ SetupNext => TypeOK'
<1>1. SUFFICES ASSUME TypeOK, SetupNext PROVE TypeOK'
  OBVIOUS
<1>2. CASE Boot
  BY <1>1, <1>2, Deadlines DEF TypeOK, SetupSteps, Boot, Setup, workflow
<1>3. CASE CreateProofBucket
  BY <1>1, <1>3, Deadlines DEF TypeOK, SetupSteps, CreateProofBucket, Setup, Builds, workflow
<1>4. CASE CreateDashboard
  BY <1>1, <1>4, Deadlines DEF TypeOK, SetupSteps, Statuses, CreateDashboard, Setup, Builds, workflow
<1>5. CASE CreateZone
  BY <1>1, <1>5, Deadlines DEF TypeOK, SetupSteps, CreateZone, Setup, Builds, workflow
<1>6. CASE RequestCertificate
  BY <1>1, <1>6, Deadlines DEF TypeOK, SetupSteps, RequestCertificate, Setup, Builds, workflow
<1>7. CASE Delegate
  BY <1>1, <1>7, Deadlines DEF TypeOK, SetupSteps, Delegate, Setup, workflow
<1>8. CASE CreateRoles
  BY <1>1, <1>8, Deadlines DEF TypeOK, SetupSteps, CreateRoles, Setup, workflow
<1>9. CASE CreateMachines
  BY <1>1, <1>9, Deadlines DEF TypeOK, SetupSteps, Statuses, CreateMachines, Setup, Builds, workflow
<1>10. CASE AwaitCertificate
  BY <1>1, <1>10, Deadlines DEF TypeOK, SetupSteps, AwaitCertificate, Setup, workflow
<1>11. CASE GivesUp
  BY <1>1, <1>11, Deadlines DEF TypeOK, SetupSteps, GivesUp, workflow
<1>12. CASE AttachEndpoint
  BY <1>1, <1>12, Deadlines DEF TypeOK, SetupSteps, AttachEndpoint, Setup, Builds, workflow
<1>13. CASE CreateDistributions
  BY <1>1, <1>13, Deadlines DEF TypeOK, SetupSteps, CreateDistributions, Setup, Builds, workflow
<1>14. CASE AwaitDeployed
  BY <1>1, <1>14, Deadlines DEF TypeOK, SetupSteps, AwaitDeployed, Setup, workflow
<1>15. CASE TightenBoundary
  BY <1>1, <1>15, Deadlines DEF TypeOK, SetupSteps, TightenBoundary, Setup, workflow
<1>16. CASE AwaitProof
  <2>1. CASE Setup("await_proof", "retire_published")
    BY <1>1, <1>16, <2>1, Deadlines DEF TypeOK, SetupSteps, AwaitProof, Setup, workflow
  <2>2. CASE Setup("await_proof", "retire_missing")
    BY <1>1, <1>16, <2>2, Deadlines DEF TypeOK, SetupSteps, AwaitProof, Setup, workflow
  <2> QED
    BY <1>16, <2>1, <2>2 DEF AwaitProof
<1>17. CASE RetireWriter
  <2>1. CASE Setup("retire_published", "mark_published")
    BY <1>1, <1>17, <2>1, Deadlines DEF TypeOK, SetupSteps, RetireWriter, Setup, workflow
  <2>2. CASE Setup("retire_missing", "mark_missing")
    BY <1>1, <1>17, <2>2, Deadlines DEF TypeOK, SetupSteps, RetireWriter, Setup, workflow
  <2> QED
    BY <1>17, <2>1, <2>2 DEF RetireWriter
<1>18. CASE MarkComplete
  <2>1. CASE Setup("mark_published", "terminate")
    BY <1>1, <1>18, <2>1, Deadlines DEF TypeOK, SetupSteps, Statuses, MarkComplete, Setup, workflow
  <2>2. CASE Setup("mark_missing", "terminate")
    BY <1>1, <1>18, <2>2, Deadlines DEF TypeOK, SetupSteps, Statuses, MarkComplete, Setup, workflow
  <2> QED
    BY <1>18, <2>1, <2>2 DEF MarkComplete
<1>19. CASE SetupFails
  BY <1>1, <1>19, Deadlines DEF TypeOK, SetupSteps, SetupFails, workflow
<1>20. CASE Terminate
  <2>1. CASE Setup("terminate", "gone")
    BY <1>1, <1>20, <2>1, Deadlines DEF TypeOK, SetupSteps, Terminate, Setup, workflow
  <2>2. CASE Setup("terminate", "not_terminated")
    BY <1>1, <1>20, <2>2, Deadlines DEF TypeOK, SetupSteps, Terminate, Setup, workflow
  <2> QED
    BY <1>20, <2>1, <2>2 DEF Terminate
<1> QED
  BY <1>1, <1>2, <1>3, <1>4, <1>5, <1>6, <1>7, <1>8, <1>9, <1>10, <1>11, <1>12, <1>13,
     <1>14, <1>15, <1>16, <1>17, <1>18, <1>19, <1>20
  DEF SetupNext, SetupGoesOn

\* Every value stays in its range.
LEMMA TypeInductive == TypeOK /\ [Next]_vars => TypeOK'
<1>1. SUFFICES ASSUME TypeOK, [Next]_vars PROVE TypeOK'
  OBVIOUS
<1>2. CASE AwsFinishes
  <2>1. CASE settled' = settled \cup {"delegation"}
    BY <1>1, <1>2, <2>1, Deadlines DEF TypeOK, AwsFinishes, workflow, setup
  <2>2. CASE settled' = settled \cup {"certificate"}
    BY <1>1, <1>2, <2>2, Deadlines DEF TypeOK, AwsFinishes, workflow, setup
  <2>3. CASE settled' = settled \cup {"distributions"}
    BY <1>1, <1>2, <2>3, Deadlines DEF TypeOK, AwsFinishes, workflow, setup
  <2> QED
    BY <1>2, <2>1, <2>2, <2>3 DEF AwsFinishes
<1>3. CASE Tick
  BY <1>1, <1>3, Deadlines DEF TypeOK, Tick, Less
<1>4. CASE UNCHANGED vars
  BY <1>1, <1>4 DEF TypeOK, vars
<1> QED
  BY <1>1, <1>2, <1>3, <1>4, TypeWorkflow, TypeSetup DEF Next

\* Nothing precedes the go flag, and the bucket stays.
LEMMA GoFirstInductive == IInv /\ [Next]_vars => GoFirst'
<1>1. SUFFICES ASSUME IInv, [Next]_vars PROVE GoFirst'
  OBVIOUS
<1>2. CASE WorkflowNext
  BY <1>1, <1>2, Deadlines, SMTT(60)
  DEF IInv, GoFirst, HasBucket, WorkflowNext, WorkflowGoesOn, Release, Sign, BucketAppears,
      BucketNeverAppears, PutStatement, PutBundle, Put, WorkflowFails, Workflow, setup,
      Proof
<1>3. CASE SetupNext
  BY <1>1, <1>3, Deadlines, SMTT(60)
  DEF IInv, GoFirst, HasBucket, SetupNext, SetupGoesOn, Boot, CreateProofBucket, CreateDashboard,
      CreateZone, RequestCertificate, Delegate, CreateRoles, CreateMachines,
      AwaitCertificate, GivesUp, AttachEndpoint, CreateDistributions, AwaitDeployed,
      TightenBoundary, AwaitProof, RetireWriter, MarkComplete, SetupFails, Terminate,
      Setup, Builds, workflow, Proof, ProofLanded
<1>4. CASE AwsFinishes
  BY <1>1, <1>4, SMTT(30) DEF IInv, GoFirst, HasBucket, AwsFinishes, workflow, setup
<1>5. CASE Tick
  BY <1>1, <1>5, Deadlines, SMTT(30)
  DEF IInv, GoFirst, HasBucket, Tick, Less, SomethingIsDue
<1>6. CASE UNCHANGED vars
  BY <1>1, <1>6 DEF IInv, GoFirst, HasBucket, vars
<1> QED
  BY <1>1, <1>2, <1>3, <1>4, <1>5, <1>6 DEF Next

\* Only the workflow puts objects, the statement before the bundle.
LEMMA PairIsPutInductive == IInv /\ [Next]_vars => PairIsPut'
<1>1. SUFFICES ASSUME IInv, [Next]_vars PROVE PairIsPut'
  OBVIOUS
<1>2. CASE WorkflowNext
  BY <1>1, <1>2, Deadlines, SMTT(60)
  DEF IInv, PairIsPut, WorkflowNext, WorkflowGoesOn, Release, Sign, BucketAppears, BucketNeverAppears,
      PutStatement, PutBundle, Put, WorkflowFails, Workflow, setup, Proof
<1>3. CASE SetupNext
  BY <1>1, <1>3, Deadlines, SMTT(60)
  DEF IInv, PairIsPut, SetupNext, SetupGoesOn, Boot, CreateProofBucket, CreateDashboard, CreateZone,
      RequestCertificate, Delegate, CreateRoles, CreateMachines, AwaitCertificate,
      GivesUp, AttachEndpoint, CreateDistributions, AwaitDeployed, TightenBoundary,
      AwaitProof, RetireWriter, MarkComplete, SetupFails, Terminate, Setup, Builds,
      workflow, Proof, ProofLanded
<1>4. CASE AwsFinishes
  BY <1>1, <1>4, SMTT(30) DEF IInv, PairIsPut, AwsFinishes, workflow, setup
<1>5. CASE Tick
  BY <1>1, <1>5, Deadlines, SMTT(30)
  DEF IInv, PairIsPut, Tick, Less, SomethingIsDue
<1>6. CASE UNCHANGED vars
  BY <1>1, <1>6 DEF IInv, PairIsPut, vars
<1> QED
  BY <1>1, <1>2, <1>3, <1>4, <1>5, <1>6 DEF Next

\* Both waits count down together.
LEMMA WaitOutlastsInductive == IInv /\ [Next]_vars => WaitOutlasts'
<1>1. SUFFICES ASSUME IInv, [Next]_vars PROVE WaitOutlasts'
  OBVIOUS
<1>2. CASE WorkflowNext
  BY <1>1, <1>2, Deadlines, SMTT(60)
  DEF IInv, TypeOK, GoFirst, HasBucket, WaitOutlasts, Uploading, WorkflowNext, WorkflowGoesOn, Release,
      Sign, BucketAppears, BucketNeverAppears, PutStatement, PutBundle, Put,
      WorkflowFails, Workflow, setup, Proof
<1>3. CASE SetupNext
  BY <1>1, <1>3, Deadlines, SMTT(60)
  DEF IInv, TypeOK, GoFirst, HasBucket, WaitOutlasts, Uploading, SetupNext, SetupGoesOn, Boot,
      CreateProofBucket, CreateDashboard, CreateZone, RequestCertificate, Delegate,
      CreateRoles, CreateMachines, AwaitCertificate, GivesUp, AttachEndpoint,
      CreateDistributions, AwaitDeployed, TightenBoundary, AwaitProof, RetireWriter,
      MarkComplete, SetupFails, Terminate, Setup, Builds, workflow, Proof, ProofLanded
<1>4. CASE AwsFinishes
  BY <1>1, <1>4, SMTT(30)
  DEF IInv, TypeOK, GoFirst, HasBucket, WaitOutlasts, Uploading, AwsFinishes, workflow,
      setup
<1>5. CASE Tick
  BY <1>1, <1>5, Deadlines, SMTT(30)
  DEF IInv, TypeOK, GoFirst, HasBucket, WaitOutlasts, Uploading, Tick, Less,
      SomethingIsDue
<1>6. CASE UNCHANGED vars
  BY <1>1, <1>6 DEF IInv, TypeOK, GoFirst, HasBucket, WaitOutlasts, Uploading, vars
<1> QED
  BY <1>1, <1>2, <1>3, <1>4, <1>5, <1>6 DEF Next

\* What the steps outside the last wait leave alone: the writer, the workflow
\* and the bucket, and they never say "complete".
Quiet ==
    /\ spc' \notin {"retire_published", "retire_missing",
                "mark_published", "mark_missing"}
    /\ writer' = writer /\ wpc' = wpc /\ objects' = objects
    /\ status' = status \/ status'.state # "complete"

\* Of the instance's steps, only four are not quiet.
LEMMA QuietSetup ==
    SetupNext => Quiet \/ AwaitProof \/ RetireWriter \/ MarkComplete \/ SetupFails
<1>1. ASSUME Boot \/ CreateProofBucket \/ CreateZone \/ RequestCertificate PROVE Quiet
  BY <1>1 DEF Quiet, Boot, CreateProofBucket, CreateZone, RequestCertificate, Builds,
              Setup, workflow
<1>2. ASSUME CreateDashboard PROVE Quiet
  BY <1>2 DEF Quiet, CreateDashboard, Builds, Setup, workflow
<1>3. ASSUME Delegate PROVE Quiet
  BY <1>3 DEF Quiet, Delegate, Setup, workflow
<1>4. ASSUME CreateMachines PROVE Quiet
  BY <1>4 DEF Quiet, CreateMachines, Builds, Setup, workflow
<1>5. ASSUME CreateRoles \/ AwaitCertificate PROVE Quiet
  BY <1>5 DEF Quiet, CreateRoles, AwaitCertificate, Setup, workflow
<1>6. ASSUME AwaitDeployed \/ TightenBoundary PROVE Quiet
  BY <1>6 DEF Quiet, AwaitDeployed, TightenBoundary, Setup, workflow
<1>7. ASSUME GivesUp PROVE Quiet
  BY <1>7 DEF Quiet, GivesUp, workflow
<1>8. ASSUME AttachEndpoint \/ CreateDistributions PROVE Quiet
  BY <1>8 DEF Quiet, AttachEndpoint, CreateDistributions, Builds, Setup, workflow
<1>9. ASSUME Terminate PROVE Quiet
  BY <1>9 DEF Quiet, Terminate, Setup, workflow
<1> QED
  BY <1>1, <1>2, <1>3, <1>4, <1>5, <1>6, <1>7, <1>8, <1>9 DEF SetupNext, SetupGoesOn

\* A quiet step of the instance, and its four others.
LEMMA RetiredSetup == IInv /\ SetupNext => RetiredWhenOver'
<1>1. SUFFICES ASSUME IInv, SetupNext PROVE RetiredWhenOver'
  OBVIOUS
<1>2. CASE Quiet
  BY <1>1, <1>2 DEF IInv, RetiredWhenOver, Quiet
<1>3. CASE AwaitProof
  <2>1. CASE ProofLanded /\ Setup("await_proof", "retire_published")
    BY <1>1, <1>3, <2>1
    DEF IInv, RetiredWhenOver, AwaitProof, ProofLanded, Setup, workflow
  <2>2. CASE ~ProofLanded /\ sleft = 0 /\ Setup("await_proof", "retire_missing")
    <3>1. go
      BY <1>1, <2>2 DEF IInv, GoFirst, Setup
    <3>2. wpc \in Over
      BY <1>1, <2>2, <3>1, Deadlines
      DEF IInv, TypeOK, WorkflowSteps, GoFirst, WaitOutlasts, RetiredWhenOver,
          Uploading, Over, Setup
    <3> QED
      BY <1>1, <1>3, <2>2, <3>2
      DEF IInv, RetiredWhenOver, AwaitProof, ProofLanded, Setup, workflow
  <2> QED
    BY <1>3, <2>1, <2>2 DEF AwaitProof
<1>4. CASE RetireWriter
  <2>1. wpc \in Over
    BY <1>1, <1>4 DEF IInv, RetiredWhenOver, PairIsPut, Over, RetireWriter, Setup, Proof
  <2> QED
    BY <1>1, <1>4, <2>1 DEF IInv, RetiredWhenOver, RetireWriter, Setup, workflow
<1>5. CASE MarkComplete
  <2>1. CASE Setup("mark_published", "terminate")
    <3>1. wpc \in Over
      BY <1>1, <2>1 DEF IInv, RetiredWhenOver, PairIsPut, Over, Setup, Proof
    <3>2. objects' = Proof
      BY <1>1, <2>1 DEF IInv, RetiredWhenOver, Setup
    <3>3. spc' = "terminate" /\ status'.proof = "published" /\ wpc' = wpc /\ writer' = writer
      BY <1>5, <2>1 DEF MarkComplete, Setup, workflow
    <3> QED
      BY <3>1, <3>2, <3>3 DEF RetiredWhenOver, Over
  <2>2. CASE Setup("mark_missing", "terminate")
    BY <1>1, <1>5, <2>2 DEF IInv, RetiredWhenOver, MarkComplete, Setup, workflow
  <2> QED
    BY <1>5, <2>1, <2>2 DEF MarkComplete
<1>6. CASE SetupFails
  <2>1. spc \in {"retire_published", "retire_missing"} => wpc \in Over
    BY <1>1 DEF IInv, RetiredWhenOver, PairIsPut, Over, Proof
  <2> QED
    BY <1>1, <1>6, <2>1 DEF IInv, RetiredWhenOver, SetupFails, workflow
<1> QED
  BY <1>1, <1>2, <1>3, <1>4, <1>5, <1>6, QuietSetup

\* The writer is retired, and "complete" said, only once the workflow is over.
LEMMA RetiredWhenOverInductive == IInv /\ [Next]_vars => RetiredWhenOver'
<1>1. SUFFICES ASSUME IInv, [Next]_vars PROVE RetiredWhenOver'
  OBVIOUS
<1>2. CASE WorkflowNext
  BY <1>1, <1>2, SMTT(60)
  DEF IInv, PairIsPut, RetiredWhenOver, Over, Proof, WorkflowNext, WorkflowGoesOn, Release, Sign,
      BucketAppears, BucketNeverAppears, PutStatement, PutBundle, Put, WorkflowFails,
      Workflow, setup
<1>3. CASE AwsFinishes
  BY <1>1, <1>3 DEF IInv, RetiredWhenOver, AwsFinishes, workflow, setup
<1>4. CASE Tick
  BY <1>1, <1>4 DEF IInv, RetiredWhenOver, Tick
<1>5. CASE UNCHANGED vars
  BY <1>1, <1>5 DEF IInv, RetiredWhenOver, vars
<1> QED
  BY <1>1, <1>2, <1>3, <1>4, <1>5, RetiredSetup DEF Next

-----------------------------------------------------------------------------
\* The invariant holds when both programs have yet to start.
LEMMA Starts == Init => IInv
<1>1. Init => TypeOK
  <2>1. 0 \in 0..(SignMax + BucketPollMax)
    BY Deadlines
  <2>2. 0 \in 0..(NsPollMax + CertPollMax + DistPollMax + ProofPollMax)
    BY Deadlines
  <2>3. Init => status \in Statuses
    BY DEF Init, Statuses
  <2>4. Init => built = {} /\ settled = {} /\ objects = {}
    BY DEF Init
  <2> QED
    BY <2>1, <2>2, <2>3, <2>4 DEF Init, TypeOK, WorkflowSteps, SetupSteps
<1>2. Init => GoFirst /\ PairIsPut /\ WaitOutlasts
  BY DEF Init, GoFirst, HasBucket, PairIsPut, WaitOutlasts, Uploading
<1>3. Init => RetiredWhenOver
  BY DEF Init, RetiredWhenOver
<1> QED
  BY <1>1, <1>2, <1>3 DEF IInv

\* It holds of every reachable state.
THEOREM Invariance == Spec => []IInv
<1>1. IInv /\ [Next]_vars => IInv'
  BY TypeInductive, GoFirstInductive, PairIsPutInductive, WaitOutlastsInductive,
     RetiredWhenOverInductive DEF IInv
<1> QED
  BY Starts, <1>1, PTL DEF Spec

\* Whatever the deadlines, every variable of the bring-up stays in its range.
THEOREM TypeCorrect == Spec => []TypeOK
<1>1. IInv => TypeOK
  BY DEF IInv
<1> QED
  BY Invariance, <1>1, PTL

\* As long as signing takes less than PROOF_OBJECT_POLL_MAX_SECONDS, the instance
\* never retires the starter while the workflow still has something to upload.
THEOREM NothingTurnedAway == Spec => []NoUploadTurnedAway
<1>1. IInv => NoUploadTurnedAway
  BY DEF IInv, RetiredWhenOver, NoUploadTurnedAway
<1> QED
  BY Invariance, <1>1, PTL

\* Under the same condition, what the dashboard says of the proof when it says
\* "complete" stays true of the bucket for good.
THEOREM WordStaysTrue == Spec => []ProofFieldStaysTrue
<1>1. IInv => ProofFieldStaysTrue
  BY DEF IInv, RetiredWhenOver, ProofFieldStaysTrue
<1> QED
  BY Invariance, <1>1, PTL

-----------------------------------------------------------------------------
(* The order of the instance's steps, which nothing but a failure leaves.  *)

Retiring == {"retire_published", "retire_missing"}
Marking == {"mark_published", "mark_missing"}
Ended == {"terminate", "gone", "not_terminated"}

\* The name before the distributions, the boundary after them, the writer next,
\* "complete" last: and after "complete" only the end, which changes nothing.
BuiltInOrder ==
    /\ spc \in {"distributions", "await_deployed", "tighten", "await_proof"} \cup Retiring \cup Marking
          => "endpoint" \in built
    /\ spc \in {"await_proof"} \cup Retiring \cup Marking => boundary = "narrow"
    /\ spc \in Marking => ~writer
    /\ "distributions" \in built => "endpoint" \in built
    /\ status.state = "complete" =>
          spc \in Ended /\ ~writer /\ boundary = "narrow" /\ "endpoint" \in built

\* The workflow, AWS and the clock build nothing and say nothing.
LEMMA OrderOthers ==
    ASSUME BuiltInOrder, WorkflowNext \/ AwsFinishes \/ Tick \/ UNCHANGED vars
    PROVE  BuiltInOrder'
<1>1. UNCHANGED <<spc, built, boundary, writer, status>>
  <2>1. CASE WorkflowNext
    BY <2>1 DEF WorkflowNext, WorkflowGoesOn, Release, Sign, BucketAppears,
       BucketNeverAppears, PutStatement, PutBundle, Put, WorkflowFails, Workflow, setup
  <2> QED BY <2>1 DEF AwsFinishes, Tick, vars, setup
<1> QED BY <1>1 DEF BuiltInOrder

\* The instance's steps, one by one.
LEMMA OrderSetup == ASSUME BuiltInOrder, SetupNext PROVE BuiltInOrder'
<1> USE DEF BuiltInOrder, Retiring, Marking, Ended, Setup, Builds
<1>1. CASE Boot                BY <1>1 DEF Boot
<1>2. CASE CreateProofBucket   BY <1>2 DEF CreateProofBucket
<1>3. CASE CreateDashboard     BY <1>3 DEF CreateDashboard
<1>4. CASE CreateZone          BY <1>4 DEF CreateZone
<1>5. CASE RequestCertificate  BY <1>5 DEF RequestCertificate
<1>6. CASE Delegate            BY <1>6 DEF Delegate
<1>7. CASE CreateRoles         BY <1>7 DEF CreateRoles
<1>8. CASE CreateMachines      BY <1>8 DEF CreateMachines
<1>9. CASE AwaitCertificate    BY <1>9 DEF AwaitCertificate
<1>10. CASE GivesUp            BY <1>10 DEF GivesUp
<1>11. CASE AttachEndpoint     BY <1>11 DEF AttachEndpoint
<1>12. CASE CreateDistributions BY <1>12 DEF CreateDistributions
<1>13. CASE AwaitDeployed      BY <1>13 DEF AwaitDeployed
<1>14. CASE TightenBoundary    BY <1>14 DEF TightenBoundary
<1>15. CASE AwaitProof         BY <1>15 DEF AwaitProof
<1>16. CASE RetireWriter       BY <1>16 DEF RetireWriter
<1>17. CASE MarkComplete       BY <1>17 DEF MarkComplete
<1>18. CASE SetupFails         BY <1>18 DEF SetupFails
<1>19. CASE Terminate          BY <1>19 DEF Terminate
<1> QED
  BY <1>1, <1>2, <1>3, <1>4, <1>5, <1>6, <1>7, <1>8, <1>9, <1>10, <1>11, <1>12, <1>13,
     <1>14, <1>15, <1>16, <1>17, <1>18, <1>19, SetupNext DEF SetupNext, SetupGoesOn

\* So the order holds throughout.
LEMMA OrderHolds == Spec => []BuiltInOrder
<1>1. Init => BuiltInOrder
  BY DEF Init, BuiltInOrder, Retiring, Marking
<1>2. BuiltInOrder /\ [Next]_vars => BuiltInOrder'
  BY OrderSetup, OrderOthers DEF Next
<1> QED
  BY <1>1, <1>2, PTL DEF Spec

\* setup/__main__.py writes "complete" last: whatever fails before or after, an
\* account that says so has no writer, the narrow boundary and its endpoint.
THEOREM CompleteMeansFinal == Spec => []CompleteIsFinal
<1>1. BuiltInOrder => CompleteIsFinal
  BY DEF BuiltInOrder, CompleteIsFinal
<1> QED
  BY OrderHolds, <1>1, PTL

\* The status says "apply-ready" long before the endpoint has its name, but no
\* distribution shows it: they are created after the name is attached.
THEOREM ReadyIsShownReady == Spec => []ShownReadyIsReady
<1>1. BuiltInOrder => ShownReadyIsReady
  BY DEF BuiltInOrder, ShownReadyIsReady
<1> QED
  BY OrderHolds, <1>1, PTL
=============================================================================
