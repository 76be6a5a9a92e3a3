------------------------- MODULE Deployment_proofs --------------------------
(***************************************************************************)
(* Proofs about Deployment, for any number of concurrent deployers, any    *)
(* contents and any bound on republication.                                *)
(***************************************************************************)
EXTENDS Deployment, TLAPS

\* A failure leaves a report that names the stage.
LEMMA ReportType ==
  ASSUME NEW r \in Report, NEW s \in Stages
  PROVE  /\ Failed(r, s) \in Report
         /\ Failed(r, s).failedStage # "none"
         /\ [r EXCEPT !.failedStage = s] \in Report
BY DEF Report, Failed, Stages, Statuses

\* The control state of the deployers, as far as their types go.
ControlOK ==
  /\ stage \in [Deployers -> Stages]
  /\ report \in [Deployers -> Report]
  /\ written \in [Deployers -> BOOLEAN]
  /\ \A d \in Deployers :
       report[d].status = "failed" \/ stage[d] = "rollback"
       => report[d].failedStage # "none"

LEMMA GoType ==
  ASSUME ControlOK, NEW d \in Deployers, NEW s \in Stages, NEW r \in Report,
         r.status = "failed" \/ s = "rollback" => r.failedStage # "none",
         Go(d, s, r)
  PROVE  ControlOK'
BY DEF ControlOK, Go

LEMMA EndType ==
  ASSUME ControlOK, NEW d \in Deployers, NEW r \in Report, NEW w \in BOOLEAN,
         r.status = "failed" => r.failedStage # "none",
         End(d, r, w)
  PROVE  ControlOK'
BY DEF ControlOK, End, Stages

LEMMA GiveUpType ==
  ASSUME ControlOK, NEW d \in Deployers, NEW s \in Stages, s # "none", GiveUp(d, s)
  PROVE  ControlOK'
<1>1. report[d] \in Report
  BY DEF ControlOK
<1>2. CASE Restorable(d)
  <2>1. Go(d, "rollback", [report[d] EXCEPT !.failedStage = s])
    BY <1>2 DEF GiveUp
  <2>2. [report[d] EXCEPT !.failedStage = s] \in Report
    BY <1>1, ReportType
  <2>3. [report[d] EXCEPT !.failedStage = s].failedStage # "none"
    BY <1>1 DEF Report
  <2> QED
    BY <2>1, <2>2, <2>3, GoType, "rollback" \in Stages DEF Stages
<1>3. CASE ~Restorable(d)
  <2>1. End(d, Failed(report[d], s), TRUE)
    BY <1>3 DEF GiveUp
  <2> QED
    BY <2>1, <1>1, ReportType, EndType
<1> QED
  BY <1>2, <1>3

\* Where an option combination leads is a stage.
LEMMA StageType ==
  ASSUME NEW p \in Plan
  PROVE  /\ AfterBackup(p) \in {"validate_only", "upload"}
         /\ AfterCollisionCheck(p) \in {"backup_remote", "validate_only", "upload"}
         /\ AfterAuthentication(p)
              \in {"collision_check", "backup_remote", "validate_only", "upload"}
         /\ AfterUpload(p) = "manager_validation"
         /\ AfterValidation(p) \in {"restart", "verify"}
BY DEF AfterBackup, AfterCollisionCheck, AfterAuthentication, AfterUpload,
       AfterValidation

\* A deployer's step keeps the control state typed.
LEMMA ControlStep ==
  ASSUME TypeOK, NEW d \in Deployers, Deployer(d)
  PROVE  ControlOK'
<1> USE DEF Stages, Statuses
<1>1. ControlOK /\ report[d] \in Report /\ plan[d] \in Plan
  BY DEF TypeOK, ControlOK
<1>2. report[d].status = "failed" => report[d].failedStage # "none"
  BY DEF TypeOK
<1>3. NoReport \in Report /\ NewReport \in Report
  BY DEF NoReport, NewReport, Report
<1>4. \A st \in Statuses \ {"failed"} :
        [report[d] EXCEPT !.status = st] \in Report
        /\ [report[d] EXCEPT !.status = st].status # "failed"
  BY <1>1 DEF Report
<1>5. CASE RefuseToStart(d)
  BY <1>1, <1>3, <1>5, EndType DEF RefuseToStart, NoReport
<1>6. CASE Start(d)
  BY <1>1, <1>3, <1>6, GoType DEF Start, NewReport, NoReport
<1>7. CASE Authenticate(d)
  <2>1. CASE End(d, [report[d] EXCEPT !.status = "dry_run"], TRUE)
    BY <2>1, <1>1, <1>4, EndType
  <2>2. CASE Go(d, AfterAuthentication(plan[d]), report[d])
    BY <2>2, <1>1, <1>2, StageType, GoType
  <2>3. CASE End(d, Failed(report[d], "authenticate"), TRUE)
    BY <2>3, <1>1, ReportType, EndType
  <2>4. CASE End(d, report[d], FALSE)
    BY <2>4, <1>1, <1>2, EndType
  <2> QED
    BY <1>7, <2>1, <2>2, <2>3, <2>4 DEF Authenticate
<1>8. CASE CheckCollisions(d)
  <2>1. CASE Go(d, AfterCollisionCheck(plan[d]), report[d])
    BY <2>1, <1>1, <1>2, StageType, GoType
  <2>2. CASE End(d, Failed(report[d], "collision_check"), TRUE)
    BY <2>2, <1>1, ReportType, EndType
  <2> QED
    BY <1>8, <2>1, <2>2 DEF CheckCollisions
<1>9. CASE BackUp(d)
  <2>1. [report[d] EXCEPT !.backedUp = TRUE] \in Report
        /\ [report[d] EXCEPT !.backedUp = TRUE].status = report[d].status
        /\ [report[d] EXCEPT !.backedUp = TRUE].failedStage = report[d].failedStage
    BY <1>1 DEF Report
  <2> QED
    BY <1>9, <2>1, <1>1, <1>2, StageType, GoType DEF BackUp
<1>10. CASE FailToBackUp(d)
  <2>1. CASE End(d, Failed(report[d], "backup_remote"), TRUE)
    BY <2>1, <1>1, ReportType, EndType
  <2>2. CASE Go(d, AfterBackup(plan[d]), report[d])
    BY <2>2, <1>1, <1>2, StageType, GoType
  <2> QED
    BY <1>10, <2>1, <2>2 DEF FailToBackUp
<1>11. CASE ValidateOnly(d)
  <2>1. CASE End(d, [report[d] EXCEPT !.status = "validate_only"], TRUE)
    BY <2>1, <1>1, <1>4, EndType
  <2>2. CASE End(d, Failed(report[d], "manager_validation"), TRUE)
    BY <2>2, <1>1, ReportType, EndType
  <2> QED
    BY <1>11, <2>1, <2>2 DEF ValidateOnly
<1>12. CASE Upload(d)
  <2>1. CASE Go(d, AfterUpload(plan[d]), Uploaded(report[d]))
    <3>1. /\ Uploaded(report[d]) \in Report
          /\ Uploaded(report[d]).status = report[d].status
          /\ Uploaded(report[d]).failedStage = report[d].failedStage
      BY <1>1 DEF Report, Uploaded
    <3> QED
      BY <2>1, <3>1, <1>1, <1>2, StageType, GoType
  <2>2. CASE GiveUp(d, "upload")
    BY <2>2, <1>1, GiveUpType
  <2> QED
    BY <1>12, <2>1, <2>2 DEF Upload
<1>13. CASE ValidateManager(d)
  <2>1. CASE Go(d, AfterValidation(plan[d]), report[d])
    BY <2>1, <1>1, <1>2, StageType, GoType
  <2>2. CASE GiveUp(d, "manager_validation")
    BY <2>2, <1>1, GiveUpType
  <2> QED
    BY <1>13, <2>1, <2>2 DEF ValidateManager
<1>14. CASE Restart(d)
  <2>1. CASE Go(d, "verify", report[d])
    BY <2>1, <1>1, <1>2, GoType
  <2>2. CASE GiveUp(d, "restart")
    BY <2>2, <1>1, GiveUpType
  <2> QED
    BY <1>14, <2>1, <2>2 DEF Restart
<1>15. CASE Verify(d)
  <2>1. CASE End(d, [report[d] EXCEPT !.status = "succeeded"], TRUE)
    BY <2>1, <1>1, <1>4, EndType
  <2>2. CASE GiveUp(d, "verify")
    BY <2>2, <1>1, GiveUpType
  <2> QED
    BY <1>15, <2>1, <2>2 DEF Verify
<1>16. CASE RollBack(d)
  <2> DEFINE failed == Failed(report[d], report[d].failedStage)
  <2>1. report[d].failedStage \in Stages
    BY <1>1, <1>16 DEF Report, RollBack, ControlOK
  <2>2. failed \in Report /\ failed.failedStage # "none"
    BY <1>1, <2>1, ReportType
  <2>3. /\ [failed EXCEPT !.rolledBack = TRUE] \in Report
        /\ [failed EXCEPT !.rolledBack = TRUE].failedStage # "none"
        /\ [failed EXCEPT !.rollbackError = TRUE] \in Report
        /\ [failed EXCEPT !.rollbackError = TRUE].failedStage # "none"
    BY <2>2 DEF Report
  <2>4. CASE End(d, [failed EXCEPT !.rolledBack = TRUE], TRUE)
    BY <2>4, <1>1, <2>3, EndType
  <2>5. CASE End(d, [failed EXCEPT !.rollbackError = TRUE], TRUE)
    BY <2>5, <1>1, <2>3, EndType
  <2>6. CASE End(d, report[d], FALSE)
    BY <2>6, <1>1, <1>2, EndType
  <2> QED
    BY <1>16, <2>4, <2>5, <2>6 DEF RollBack
<1>17. CASE Kill(d)
  BY <1>17, <1>1, <1>2, EndType DEF Kill
<1> QED
  BY <1>5, <1>6, <1>7, <1>8, <1>9, <1>10, <1>11, <1>12, <1>13, <1>14, <1>15,
     <1>16, <1>17 DEF Deployer

\* A deployer's step keeps the files, the plans and the histories typed.
FilesOK ==
  /\ artifact \in Contents
  /\ republished \in 0..MaxRepublished
  /\ remote \in Remote
  /\ loaded \in Remote
  /\ restarting \in BOOLEAN
  /\ plan \in [Deployers -> Plan]
  /\ backup \in [Deployers -> Remote]
  /\ before \in [Deployers -> Remote]
  /\ disturbed \in [Deployers -> BOOLEAN]

LEMMA TypeParts == TypeOK <=> FilesOK /\ ControlOK
BY DEF TypeOK, FilesOK, ControlOK

LEMMA StoreType ==
  ASSUME NEW d \in Deployers, NEW c \in Remote, Store(d, c)
  PROVE  remote' \in Remote /\ disturbed' \in [Deployers -> BOOLEAN]
BY DEF Store

LEMMA FilesStep ==
  ASSUME FilesOK, NEW d \in Deployers, Deployer(d)
  PROVE  FilesOK'
<1> USE PlansAssumption DEF FilesOK, local, manager, history
<1>1. CASE RefuseToStart(d)
  BY <1>1 DEF RefuseToStart
<1>2. CASE Start(d)
  BY <1>2 DEF Start
<1>3. CASE Authenticate(d)
  BY <1>3 DEF Authenticate
<1>4. CASE CheckCollisions(d)
  BY <1>4 DEF CheckCollisions
<1>5. CASE BackUp(d)
  BY <1>5 DEF BackUp
<1>6. CASE FailToBackUp(d)
  <2>1. PICK bytes \in {NoFile, remote} : backup' = [backup EXCEPT ![d] = bytes]
    BY <1>6 DEF FailToBackUp
  <2>2. bytes \in Remote
    BY DEF Remote
  <2> QED
    BY <1>6, <2>1, <2>2 DEF FailToBackUp
<1>7. CASE ValidateOnly(d)
  BY <1>7 DEF ValidateOnly
<1>8. CASE Upload(d)
  <2>1. PICK c \in {remote, artifact} : Store(d, c)
    BY <1>8 DEF Upload
  <2>2. c \in Remote
    BY DEF Remote
  <2> QED
    BY <1>8, <2>1, <2>2, StoreType DEF Upload
<1>9. CASE ValidateManager(d)
  BY <1>9 DEF ValidateManager
<1>10. CASE Restart(d)
  BY <1>10 DEF Restart
<1>11. CASE Verify(d)
  BY <1>11 DEF Verify
<1>12. CASE RollBack(d)
  <2>1. PICK c \in {remote, backup[d]} : Store(d, c)
    BY <1>12 DEF RollBack
  <2> QED
    BY <1>12, <2>1, StoreType DEF RollBack
<1>13. CASE Kill(d)
  BY <1>13 DEF Kill
<1> QED
  BY <1>1, <1>2, <1>3, <1>4, <1>5, <1>6, <1>7, <1>8, <1>9, <1>10, <1>11,
     <1>12, <1>13 DEF Deployer

LEMMA TypeInit == Init => TypeOK
<1> SUFFICES ASSUME Init PROVE TypeOK
  OBVIOUS
<1>1. NoReport \in Report /\ NoReport.status = "none"
  BY DEF NoReport, Report, Statuses, Stages
<1>2. plan \in [Deployers -> Plan]
  BY DEF Init, Plan
<1>3. "idle" \in Stages /\ "idle" # "rollback"
  BY DEF Stages
<1>4. 0 \in 0..MaxRepublished
  BY BoundAssumption
<1> QED
  BY <1>1, <1>2, <1>3, <1>4 DEF Init, TypeOK, Remote

LEMMA TypeStep == TypeOK /\ [Next]_vars => TypeOK'
<1> SUFFICES ASSUME TypeOK, [Next]_vars PROVE TypeOK'
  OBVIOUS
<1>1. CASE \E d \in Deployers : Deployer(d)
  <2>1. FilesOK' /\ ControlOK'
    BY <1>1, ControlStep, FilesStep, TypeParts
  <2> QED
    BY <2>1 DEF FilesOK, ControlOK, TypeOK
<1>2. CASE Republish
  <2>1. republished' \in 0..MaxRepublished
    BY <1>2, BoundAssumption DEF Republish, TypeOK
  <2> QED
    BY <1>2, <2>1 DEF Republish, TypeOK, manager
<1>3. CASE LoadRules
  <2>1. loaded' \in Remote
    BY <1>3 DEF LoadRules, TypeOK, Remote
  <2> QED
    BY <1>3, <2>1 DEF LoadRules, TypeOK, local, history
<1>4. CASE UNCHANGED vars
  BY <1>4 DEF vars, local, manager, history, TypeOK
<1> QED
  BY <1>1, <1>2, <1>3, <1>4 DEF Next

\* Every variable keeps its type, however many deployers run at a time.
THEOREM TypeCorrect == Spec => []TypeOK
BY TypeInit, TypeStep, PTL DEF Spec

(***************************************************************************)
(* The restore point.  RestorePoint is not inductive: that a backup is the *)
(* file found at the start needs, before the backup, that the remote file  *)
(* is still that file, and that options which reached the manager were     *)
(* checked.                                                                *)
(***************************************************************************)
EarlyStages == {"authenticate", "collision_check", "backup_remote", "validate_only"}
LateStages == {"upload", "manager_validation", "restart", "verify", "rollback"}

\* The options of a deployer at work were admitted.
Admitted(d) == stage[d] \in Working => Admissible(plan[d])

\* Until its backup an undisturbed deployer still sees the file it found.
StillFound(d) ==
  stage[d] \in EarlyStages /\ ~disturbed[d] => remote = before[d]

\* Once past its backup a deployer that may roll back holds the file it found.
Holds(d) ==
  plan[d].rollback /\ stage[d] \in LateStages
  => /\ report[d].backedUp
     /\ backup[d] # NoFile
     /\ ~disturbed[d] => backup[d] = before[d]

IInv == /\ TypeOK
        /\ \A d \in Deployers : Admitted(d) /\ StillFound(d) /\ Holds(d)

LEMMA IInvInit == Init => IInv
BY TypeInit DEF Init, IInv, Admitted, StillFound, Holds, Working, EarlyStages, LateStages

\* What a step of d may change of another deployer's state.
LEMMA StepFrame ==
  ASSUME TypeOK, NEW d \in Deployers, Deployer(d), NEW e \in Deployers, e # d
  PROVE  /\ stage'[e] = stage[e] /\ plan'[e] = plan[e]
         /\ backup'[e] = backup[e] /\ report'[e] = report[e]
         /\ before'[e] = before[e]
         /\ \/ remote' = remote /\ disturbed'[e] = disturbed[e]
            \/ /\ disturbed[e] => disturbed'[e]
               /\ stage[e] \in Working /\ remote' # remote => disturbed'[e]
<1> USE DEF TypeOK, Go, End, local, manager, history
<1>1. CASE RefuseToStart(d) \/ Start(d)
  BY <1>1 DEF RefuseToStart, Start
<1>2. CASE Authenticate(d) \/ CheckCollisions(d) \/ ValidateOnly(d) \/ Kill(d)
  BY <1>2 DEF Authenticate, CheckCollisions, ValidateOnly, Kill
<1>3. CASE BackUp(d) \/ FailToBackUp(d)
  BY <1>3 DEF BackUp, FailToBackUp
<1>4. CASE ValidateManager(d) \/ Restart(d) \/ Verify(d)
  BY <1>4 DEF ValidateManager, Restart, Verify, GiveUp
<1>5. CASE Upload(d)
  BY <1>5 DEF Upload, GiveUp, Store
<1>6. CASE RollBack(d)
  BY <1>6 DEF RollBack, Store
<1> QED
  BY <1>1, <1>2, <1>3, <1>4, <1>5, <1>6 DEF Deployer

LEMMA OtherDeployer ==
  ASSUME IInv, NEW d \in Deployers, Deployer(d), NEW e \in Deployers, e # d
  PROVE  Admitted(e)' /\ StillFound(e)' /\ Holds(e)'
<1>1. TypeOK /\ Admitted(e) /\ StillFound(e) /\ Holds(e)
  BY DEF IInv
<1>2. EarlyStages \subseteq Working
  BY DEF EarlyStages, Working, Stages
<1>3. Admitted(e)'
  BY <1>1, StepFrame DEF Admitted
<1>4. StillFound(e)'
  BY <1>1, <1>2, StepFrame DEF StillFound, TypeOK
<1>5. Holds(e)'
  BY <1>1, StepFrame DEF Holds, TypeOK
<1> QED
  BY <1>3, <1>4, <1>5

\* Ending satisfies the invariant whatever else happened.
LEMMA EndHolds ==
  ASSUME TypeOK, NEW d \in Deployers, NEW r, NEW w, End(d, r, w)
  PROVE  Admitted(d)' /\ StillFound(d)' /\ Holds(d)'
BY DEF TypeOK, End, Admitted, StillFound, Holds, Working, EarlyStages, LateStages

\* Past the backup an invariant that holds goes on holding: the restore point
\* and what it is compared with stay.
LEMMA LateHolds ==
  ASSUME TypeOK, NEW d \in Deployers, stage[d] \in LateStages,
         Admitted(d), Holds(d),
         plan' = plan, backup' = backup, before' = before,
         disturbed[d] => disturbed'[d],
         NEW s \in LateStages, NEW r \in Report,
         r.backedUp = report[d].backedUp,
         Go(d, s, r)
  PROVE  Admitted(d)' /\ StillFound(d)' /\ Holds(d)'
BY DEF TypeOK, Go, Admitted, StillFound, Holds, Working, Stages, EarlyStages, LateStages

LEMMA GiveUpHolds ==
  ASSUME TypeOK, NEW d \in Deployers, stage[d] \in LateStages,
         Admitted(d), Holds(d),
         plan' = plan, backup' = backup, before' = before,
         disturbed[d] => disturbed'[d],
         NEW s \in Stages, GiveUp(d, s)
  PROVE  Admitted(d)' /\ StillFound(d)' /\ Holds(d)'
<1>1. CASE Restorable(d)
  <2> DEFINE r == [report[d] EXCEPT !.failedStage = s]
  <2>1. Go(d, "rollback", r)
    BY <1>1 DEF GiveUp
  <2>2. r \in Report /\ r.backedUp = report[d].backedUp
    BY ReportType DEF TypeOK, Report
  <2>3. "rollback" \in LateStages
    BY DEF LateStages
  <2> HIDE DEF r
  <2> QED
    BY <2>1, <2>2, <2>3, LateHolds
<1>2. CASE ~Restorable(d)
  BY <1>2, EndHolds DEF GiveUp
<1> QED
  BY <1>1, <1>2

\* Before the backup nothing the invariant speaks of changes.
LEMMA EarlyHolds ==
  ASSUME TypeOK, NEW d \in Deployers, stage[d] \in EarlyStages,
         Admitted(d), StillFound(d),
         plan' = plan, before' = before, remote' = remote, disturbed' = disturbed,
         NEW s \in EarlyStages \cup {"upload"}, s = "upload" => ~plan[d].rollback,
         NEW r, Go(d, s, r)
  PROVE  Admitted(d)' /\ StillFound(d)' /\ Holds(d)'
BY DEF TypeOK, Go, Admitted, StillFound, Holds, Working, Stages, EarlyStages, LateStages

LEMMA OwnStep ==
  ASSUME IInv, NEW d \in Deployers, Deployer(d)
  PROVE  Admitted(d)' /\ StillFound(d)' /\ Holds(d)'
<1> DEFINE Kept == Admitted(d)' /\ StillFound(d)' /\ Holds(d)'
<1>1. TypeOK /\ Admitted(d) /\ StillFound(d) /\ Holds(d)
  BY DEF IInv
<1>2. plan[d] \in Plan /\ report[d] \in Report
  BY <1>1 DEF TypeOK
<1>3. stage[d] \in Working => (plan[d].rollback => plan[d].backup)
  BY <1>1 DEF Admitted, Admissible
<1> USE DEF manager, local, history
<1>4. CASE RefuseToStart(d)
  BY <1>1, <1>4, EndHolds DEF RefuseToStart
<1>5. CASE Start(d)
  BY <1>1, <1>5 DEF Start, Go, TypeOK, Admitted, StillFound, Holds, Working,
     EarlyStages, LateStages
<1>6. CASE Authenticate(d)
  <2>1. CASE Go(d, AfterAuthentication(plan[d]), report[d])
    <3>1. stage[d] \in EarlyStages /\ stage[d] \in Working
      BY <1>6 DEF Authenticate, EarlyStages, Working, Stages
    <3>2. AfterAuthentication(plan[d]) \in EarlyStages
      BY DEF AfterAuthentication, AfterCollisionCheck, AfterBackup, EarlyStages
    <3> QED
      BY <1>1, <1>6, <2>1, <3>1, <3>2, EarlyHolds DEF Authenticate, EarlyStages
  <2> QED
    BY <1>1, <1>6, <2>1, EndHolds DEF Authenticate
<1>7. CASE CheckCollisions(d)
  <2>1. CASE Go(d, AfterCollisionCheck(plan[d]), report[d])
    <3>1. stage[d] \in EarlyStages /\ stage[d] \in Working
      BY <1>7 DEF CheckCollisions, EarlyStages, Working, Stages
    <3>2. /\ AfterCollisionCheck(plan[d]) \in EarlyStages \cup {"upload"}
          /\ AfterCollisionCheck(plan[d]) = "upload" => ~plan[d].rollback
      BY <1>3, <3>1 DEF AfterCollisionCheck, AfterBackup, EarlyStages
    <3> QED
      BY <1>1, <1>7, <2>1, <3>1, <3>2, EarlyHolds DEF CheckCollisions
  <2> QED
    BY <1>1, <1>7, <2>1, EndHolds DEF CheckCollisions
<1>8. CASE BackUp(d)
  BY <1>1, <1>2, <1>8 DEF BackUp, Go, TypeOK, Admitted, StillFound, Holds, Working,
     Stages, EarlyStages, LateStages, AfterBackup, Report
<1>9. CASE FailToBackUp(d)
  <2>1. CASE End(d, Failed(report[d], "backup_remote"), TRUE)
    BY <1>1, <2>1, EndHolds
  <2>2. CASE ~plan[d].rollback /\ Go(d, AfterBackup(plan[d]), report[d])
    <3>1. stage[d] \in EarlyStages
      BY <1>9 DEF FailToBackUp, EarlyStages
    <3>2. AfterBackup(plan[d]) \in EarlyStages \cup {"upload"}
      BY DEF AfterBackup, EarlyStages
    <3> QED
      BY <1>1, <1>9, <2>2, <3>1, <3>2, EarlyHolds DEF FailToBackUp
  <2> QED
    BY <1>9, <2>1, <2>2 DEF FailToBackUp
<1>10. CASE ValidateOnly(d)
  BY <1>1, <1>10, EndHolds DEF ValidateOnly
<1>11. CASE Upload(d)
  <2>1. stage[d] \in LateStages /\ (disturbed[d] => disturbed'[d])
    BY <1>11 DEF Upload, LateStages, Store
  <2>2. CASE Go(d, AfterUpload(plan[d]), Uploaded(report[d]))
    <3>1. Uploaded(report[d]) \in Report
          /\ Uploaded(report[d]).backedUp = report[d].backedUp
      BY <1>2 DEF Report, Uploaded
    <3>2. AfterUpload(plan[d]) \in LateStages
      BY DEF AfterUpload, LateStages
    <3> QED
      BY <1>1, <1>11, <2>1, <2>2, <3>1, <3>2, LateHolds DEF Upload
  <2>3. CASE GiveUp(d, "upload")
    BY <1>1, <1>11, <2>1, <2>3, GiveUpHolds, "upload" \in Stages DEF Upload, Stages
  <2> QED
    BY <1>11, <2>2, <2>3 DEF Upload
<1>12. CASE ValidateManager(d)
  <2>1. stage[d] \in LateStages
    BY <1>12 DEF ValidateManager, LateStages
  <2>2. CASE Go(d, AfterValidation(plan[d]), report[d])
    <3>1. AfterValidation(plan[d]) \in LateStages
      BY DEF AfterValidation, LateStages
    <3> QED
      BY <1>1, <1>2, <1>12, <2>1, <2>2, <3>1, LateHolds DEF ValidateManager
  <2>3. CASE GiveUp(d, "manager_validation")
    BY <1>1, <1>12, <2>1, <2>3, GiveUpHolds, "manager_validation" \in Stages
       DEF ValidateManager, Stages
  <2> QED
    BY <1>12, <2>2, <2>3 DEF ValidateManager
<1>13. CASE Restart(d)
  <2>1. stage[d] \in LateStages /\ "verify" \in LateStages
    BY <1>13 DEF Restart, LateStages
  <2>2. CASE Go(d, "verify", report[d])
    BY <1>1, <1>2, <1>13, <2>1, <2>2, LateHolds DEF Restart
  <2>3. CASE GiveUp(d, "restart")
    BY <1>1, <1>13, <2>1, <2>3, GiveUpHolds, "restart" \in Stages DEF Restart, Stages
  <2> QED
    BY <1>13, <2>2, <2>3 DEF Restart
<1>14. CASE Verify(d)
  <2>1. stage[d] \in LateStages
    BY <1>14 DEF Verify, LateStages
  <2>2. CASE GiveUp(d, "verify")
    BY <1>1, <1>14, <2>1, <2>2, GiveUpHolds, "verify" \in Stages DEF Verify, Stages
  <2> QED
    BY <1>1, <1>14, <2>2, EndHolds DEF Verify
<1>15. CASE RollBack(d)
  BY <1>1, <1>15, EndHolds DEF RollBack
<1>16. CASE Kill(d)
  BY <1>1, <1>16, EndHolds DEF Kill
<1> QED
  BY <1>4, <1>5, <1>6, <1>7, <1>8, <1>9, <1>10, <1>11, <1>12, <1>13, <1>14,
     <1>15, <1>16 DEF Deployer

LEMMA IInvStep == IInv /\ [Next]_vars => IInv'
<1> SUFFICES ASSUME IInv, [Next]_vars PROVE IInv'
  OBVIOUS
<1>1. TypeOK'
  BY TypeStep DEF IInv
<1>2. CASE \E d \in Deployers : Deployer(d)
  BY <1>1, <1>2, OwnStep, OtherDeployer DEF IInv
<1>3. CASE Republish
  <2> SUFFICES ASSUME NEW d \in Deployers
               PROVE  Admitted(d)' /\ StillFound(d)' /\ Holds(d)'
    BY <1>1 DEF IInv
  <2> QED
    BY <1>3 DEF Republish, manager, IInv, TypeOK, Admitted, StillFound, Holds
<1>4. CASE LoadRules
  <2> SUFFICES ASSUME NEW d \in Deployers
               PROVE  Admitted(d)' /\ StillFound(d)' /\ Holds(d)'
    BY <1>1 DEF IInv
  <2> QED
    BY <1>4 DEF LoadRules, history, IInv, TypeOK, Admitted, StillFound, Holds
<1>5. CASE UNCHANGED vars
  <2> SUFFICES ASSUME NEW d \in Deployers
               PROVE  Admitted(d)' /\ StillFound(d)' /\ Holds(d)'
    BY <1>1 DEF IInv
  <2> QED
    BY <1>5 DEF vars, manager, history, IInv, TypeOK, Admitted, StillFound, Holds
<1> QED
  BY <1>2, <1>3, <1>4, <1>5 DEF Next

\* However many deployers interleave, whatever fails and however often the
\* artifact changes, a deployer that may have to roll back uploads only with a
\* restore point, and it is the file it found unless another one replaced it.
THEOREM RestorePointKept == Spec => []RestorePoint
<1>1. IInv => RestorePoint
  BY DEF IInv, Holds, RestorePoint, LateStages
<1> QED
  BY <1>1, IInvInit, IInvStep, PTL DEF Spec

(***************************************************************************)
(* What a reported failure leaves behind.                                  *)
(***************************************************************************)
\* A deployer that may roll back does not end without trying to.
LEMMA GiveUpGoes ==
  ASSUME IInv, NEW d \in Deployers, stage[d] \in LateStages, plan[d].rollback,
         NEW s \in Stages, GiveUp(d, s)
  PROVE  stage'[d] = "rollback"
<1>1. Restorable(d)
  BY DEF IInv, Holds, Restorable
<1> QED
  BY <1>1 DEF GiveUp, Go, IInv, TypeOK

LEMMA FailureStep ==
  ASSUME IInv, NEW d \in Deployers, Next,
         Ends(d), plan[d].rollback, ~disturbed[d],
         report'[d].status = "failed", ~report'[d].rollbackError
  PROVE  remote' = before[d]
<1>1. TypeOK /\ StillFound(d) /\ Holds(d) /\ report[d] \in Report
  BY DEF IInv, TypeOK
<1> USE DEF manager
<1>2. Deployer(d)
  <2>1. stage[d] # stage'[d]
    BY DEF Ends, Working
  <2>2. ~Republish /\ ~LoadRules
    BY <2>1 DEF Republish, LoadRules
  <2>3. PICK e \in Deployers : Deployer(e)
    BY <2>2 DEF Next
  <2> QED
    BY <1>1, <2>1, <2>3, StepFrame
<1>3. CASE stage[d] \in EarlyStages
  <2>1. remote' = remote
    BY <1>2, <1>3 DEF EarlyStages, Deployer, RefuseToStart, Start, Authenticate,
       CheckCollisions, BackUp, FailToBackUp, ValidateOnly, Upload,
       ValidateManager, Restart, Verify, RollBack, Kill
  <2> QED
    BY <1>1, <1>3, <2>1 DEF StillFound
<1>4. CASE stage[d] \in LateStages \ {"rollback"}
  <2>1. \A s \in Stages : ~GiveUp(d, s)
    BY <1>4, GiveUpGoes DEF Ends
  <2>2. /\ ~RefuseToStart(d) /\ ~Start(d) /\ ~Authenticate(d) /\ ~CheckCollisions(d)
        /\ ~BackUp(d) /\ ~FailToBackUp(d) /\ ~ValidateOnly(d) /\ ~RollBack(d)
    BY <1>4 DEF LateStages, RefuseToStart, Start, Authenticate, CheckCollisions,
       BackUp, FailToBackUp, ValidateOnly, RollBack
  <2>3. ~Upload(d) /\ ~ValidateManager(d) /\ ~Restart(d)
    BY <1>1, <2>1 DEF Upload, ValidateManager, Restart, Go, Ends, AfterUpload,
       AfterValidation, TypeOK, Stages
  <2>4. ~Kill(d)
    BY <1>1 DEF Kill, End, Ends, TypeOK
  <2>5. ~Verify(d)
    <3>1. ~End(d, [report[d] EXCEPT !.status = "succeeded"], TRUE)
      BY <1>1 DEF End, TypeOK, Report
    <3> QED
      BY <2>1, <3>1 DEF Verify, Stages
  <2> QED
    BY <1>2, <2>2, <2>3, <2>4, <2>5 DEF Deployer
<1>5. CASE stage[d] = "rollback"
  <2>1. RollBack(d) \/ Kill(d)
    BY <1>2, <1>5 DEF Deployer, RefuseToStart, Start, Authenticate, CheckCollisions,
       BackUp, FailToBackUp, ValidateOnly, Upload, ValidateManager, Restart, Verify
  <2>2. ~Kill(d)
    BY <1>1 DEF Kill, End, Ends, TypeOK
  <2> DEFINE failed == Failed(report[d], report[d].failedStage)
  <2>3. ~End(d, [failed EXCEPT !.rollbackError = TRUE], TRUE)
    <3>1. failed \in Report
      BY <1>1 DEF Failed, Report, Statuses
    <3>2. [failed EXCEPT !.rollbackError = TRUE].rollbackError
      BY <3>1 DEF Report
    <3> HIDE DEF failed
    <3> QED
      BY <1>1, <3>2 DEF End, TypeOK
  <2>4. ~End(d, report[d], FALSE)
    BY <1>1 DEF End, Ends, TypeOK
  <2>5. remote' = backup[d]
    BY <2>1, <2>2, <2>3, <2>4 DEF RollBack, Store
  <2> QED
    BY <1>1, <1>5, <2>5 DEF Holds, LateStages
<1> QED
  BY <1>3, <1>4, <1>5 DEF Ends, Working, Stages, EarlyStages, LateStages

\* A reported failure without a rollback error leaves the remote file as the
\* deployer found it unless somebody else wrote it, lost answers included.
THEOREM FailureRestores == Spec => FailureRestoresFile
<1>1. IInv /\ [Next]_vars
      => [\A d \in Deployers :
            /\ Ends(d) /\ plan[d].rollback /\ ~disturbed[d]
            /\ report'[d].status = "failed" /\ ~report'[d].rollbackError
            => remote' = before[d]]_vars
  BY FailureStep
<1> QED
  BY <1>1, IInvInit, IInvStep, PTL DEF Spec, FailureRestoresFile

(***************************************************************************)
(* What a reported success promises.  Every gate is passed at a stage of   *)
(* its own, so the invariant says at each stage which gates lie behind: the*)
(* local validator's, the collision check unless the command only          *)
(* validates, the upload, the manager's validation, the restart.           *)
(***************************************************************************)
Gated(d) ==
  ~disturbed[d] =>
    /\ stage[d] \in Working => artifact \notin Invalid
    /\ \/ stage[d] \in LateStages
       \/ stage[d] = "backup_remote" /\ ~plan[d].validateOnly
       => artifact \notin Colliding
    /\ stage[d] \in {"manager_validation", "restart", "verify"} => remote = artifact
    /\ stage[d] \in {"restart", "verify"} => Accepts(artifact)
    /\ stage[d] = "verify" /\ plan[d].restart => restarting \/ loaded = artifact

GatesInv == TypeOK /\ \A d \in Deployers : Gated(d)

LEMMA GatesInit == Init => GatesInv
BY TypeInit DEF Init, GatesInv, Gated, Working, LateStages

\* A deployer leaves the local file and the engine alone, takes no restart
\* back and does not disturb itself.
LEMMA OwnFrame ==
  ASSUME TypeOK, NEW d \in Deployers, Deployer(d)
  PROVE  /\ artifact' = artifact /\ loaded' = loaded
         /\ restarting => restarting'
         /\ disturbed'[d] = disturbed[d]
<1> USE DEF TypeOK, local, manager, history
<1>1. CASE RefuseToStart(d) \/ Start(d)
  BY <1>1 DEF RefuseToStart, Start
<1>2. CASE Authenticate(d) \/ CheckCollisions(d) \/ ValidateOnly(d) \/ Kill(d)
  BY <1>2 DEF Authenticate, CheckCollisions, ValidateOnly, Kill
<1>3. CASE BackUp(d) \/ FailToBackUp(d)
  BY <1>3 DEF BackUp, FailToBackUp
<1>4. CASE ValidateManager(d) \/ Verify(d)
  BY <1>4 DEF ValidateManager, Verify
<1>5. CASE Restart(d)
  BY <1>5 DEF Restart
<1>6. CASE Upload(d)
  BY <1>6 DEF Upload, Store
<1>7. CASE RollBack(d)
  BY <1>7 DEF RollBack, Store
<1> QED
  BY <1>1, <1>2, <1>3, <1>4, <1>5, <1>6, <1>7 DEF Deployer

\* Another deployer's step keeps the gates behind e, or disturbs e.
LEMMA OtherGated ==
  ASSUME GatesInv, NEW d \in Deployers, Deployer(d), NEW e \in Deployers, e # d
  PROVE  Gated(e)'
<1>1. TypeOK /\ Gated(e) /\ disturbed[e] \in BOOLEAN
  BY DEF GatesInv, TypeOK
<1>2. /\ stage'[e] = stage[e] /\ plan'[e] = plan[e]
      /\ artifact' = artifact /\ loaded' = loaded
      /\ restarting => restarting'
  BY <1>1, StepFrame, OwnFrame
<1>3. CASE ~disturbed'[e] /\ stage[e] \in Working
  <2>1. remote' = remote /\ ~disturbed[e]
    BY <1>1, <1>3, StepFrame
  <2> QED
    BY <1>1, <1>2, <2>1 DEF Gated
<1>4. CASE stage[e] \notin Working
  BY <1>2, <1>4 DEF Gated, Working, Stages, LateStages
<1>5. CASE disturbed'[e]
  BY <1>5 DEF Gated
<1> QED
  BY <1>3, <1>4, <1>5

\* Nothing is promised of a deployer that is done or rolls back beyond what
\* held when it was late already.
LEMMA EndGated ==
  ASSUME TypeOK, NEW d \in Deployers, NEW r, NEW w, End(d, r, w)
  PROVE  Gated(d)'
BY DEF TypeOK, End, Gated, Working, LateStages

LEMMA GiveUpGated ==
  ASSUME TypeOK, NEW d \in Deployers, stage[d] \in LateStages, Gated(d),
         artifact' = artifact, disturbed'[d] = disturbed[d],
         NEW s, GiveUp(d, s)
  PROVE  Gated(d)'
<1>1. CASE Restorable(d)
  <2>1. stage'[d] = "rollback" /\ stage[d] \in Working
    BY <1>1 DEF GiveUp, Go, TypeOK, LateStages, Working, Stages
  <2> QED
    BY <2>1 DEF Gated, LateStages
<1>2. CASE ~Restorable(d)
  BY <1>2, EndGated DEF GiveUp
<1> QED
  BY <1>1, <1>2

LEMMA OwnGated ==
  ASSUME GatesInv, NEW d \in Deployers, Deployer(d)
  PROVE  Gated(d)'
<1>1. TypeOK /\ Gated(d)
  BY DEF GatesInv
<1>2. /\ artifact' = artifact /\ loaded' = loaded
      /\ disturbed'[d] = disturbed[d]
  BY <1>1, OwnFrame
<1> USE DEF manager, local, history
<1>3. CASE RefuseToStart(d) \/ ValidateOnly(d) \/ RollBack(d) \/ Kill(d)
  BY <1>1, <1>3, EndGated DEF RefuseToStart, ValidateOnly, RollBack, Kill
<1>4. CASE Start(d)
  <2>1. stage'[d] = "authenticate" /\ artifact \notin Invalid
    BY <1>1, <1>4 DEF Start, Go, TypeOK
  <2> QED
    BY <1>2, <2>1 DEF Gated, LateStages
<1>5. CASE Authenticate(d)
  <2>1. CASE Go(d, AfterAuthentication(plan[d]), report[d])
    <3>1. /\ stage'[d] = AfterAuthentication(plan[d]) /\ plan' = plan
          /\ stage[d] \in Working
      BY <1>1, <1>5, <2>1 DEF Authenticate, Go, TypeOK, Working, Stages
    <3>2. /\ AfterAuthentication(plan[d])
               \in {"collision_check", "backup_remote", "validate_only"}
          /\ AfterAuthentication(plan[d]) = "backup_remote" => plan[d].validateOnly
      BY DEF AfterAuthentication, AfterCollisionCheck, AfterBackup
    <3> QED
      BY <1>1, <1>2, <3>1, <3>2 DEF Gated, LateStages
  <2> QED
    BY <1>1, <1>5, <2>1, EndGated DEF Authenticate
<1>6. CASE CheckCollisions(d)
  <2>1. CASE artifact \notin Colliding /\ Go(d, AfterCollisionCheck(plan[d]), report[d])
    <3>1. stage'[d] = AfterCollisionCheck(plan[d]) /\ stage[d] \in Working
      BY <1>1, <1>6, <2>1 DEF CheckCollisions, Go, TypeOK, Working, Stages
    <3>2. AfterCollisionCheck(plan[d]) \in {"backup_remote", "validate_only", "upload"}
      BY DEF AfterCollisionCheck, AfterBackup
    <3> QED
      BY <1>1, <1>2, <2>1, <3>1, <3>2 DEF Gated
  <2> QED
    BY <1>1, <1>6, <2>1, EndGated DEF CheckCollisions
<1>7. CASE BackUp(d) \/ FailToBackUp(d)
  <2>1. CASE \E r \in {report[d], [report[d] EXCEPT !.backedUp = TRUE]} :
               Go(d, AfterBackup(plan[d]), r)
    <3>1. /\ stage'[d] = AfterBackup(plan[d]) /\ plan' = plan
          /\ stage[d] = "backup_remote" /\ stage[d] \in Working
      BY <1>1, <1>7, <2>1 DEF BackUp, FailToBackUp, Go, TypeOK, Working, Stages
    <3>2. \/ AfterBackup(plan[d]) = "validate_only"
          \/ AfterBackup(plan[d]) = "upload" /\ ~plan[d].validateOnly
      BY DEF AfterBackup
    <3> QED
      BY <1>1, <1>2, <3>1, <3>2 DEF Gated, LateStages
  <2> QED
    BY <1>1, <1>7, <2>1, EndGated DEF BackUp, FailToBackUp
<1>8. CASE Upload(d)
  <2>1. stage[d] \in LateStages /\ stage[d] \in Working
    BY <1>8 DEF Upload, LateStages, Working, Stages
  <2>2. CASE Store(d, artifact) /\ Go(d, AfterUpload(plan[d]), Uploaded(report[d]))
    <3>1. stage'[d] = "manager_validation" /\ remote' = artifact
      BY <1>1, <2>2 DEF Go, Store, TypeOK, AfterUpload
    <3> QED
      BY <1>1, <1>2, <2>1, <3>1 DEF Gated
  <2>3. CASE GiveUp(d, "upload")
    BY <1>1, <1>2, <2>1, <2>3, GiveUpGated
  <2> QED
    BY <1>8, <2>2, <2>3 DEF Upload
<1>9. CASE ValidateManager(d)
  <2>1. /\ stage[d] = "manager_validation"
        /\ stage[d] \in LateStages /\ stage[d] \in Working
    BY <1>9 DEF ValidateManager, LateStages, Working, Stages
  <2>2. CASE Accepts(remote) /\ Go(d, AfterValidation(plan[d]), report[d])
    <3>1. /\ stage'[d] = AfterValidation(plan[d]) /\ remote' = remote /\ plan' = plan
      BY <1>1, <1>9, <2>2 DEF ValidateManager, Go, TypeOK
    <3>2. \/ AfterValidation(plan[d]) = "restart"
          \/ AfterValidation(plan[d]) = "verify" /\ ~plan[d].restart
      BY DEF AfterValidation
    <3> QED
      BY <1>1, <1>2, <2>1, <2>2, <3>1, <3>2 DEF Gated
  <2>3. CASE GiveUp(d, "manager_validation")
    BY <1>1, <1>2, <2>1, <2>3, GiveUpGated
  <2> QED
    BY <1>9, <2>2, <2>3 DEF ValidateManager
<1>10. CASE Restart(d)
  <2>1. /\ stage[d] = "restart"
        /\ stage[d] \in LateStages /\ stage[d] \in Working
    BY <1>10 DEF Restart, LateStages, Working, Stages
  <2>2. CASE restarting' = TRUE /\ Go(d, "verify", report[d])
    <3>1. stage'[d] = "verify" /\ remote' = remote /\ plan' = plan
      BY <1>1, <1>10, <2>2 DEF Restart, Go, TypeOK
    <3> QED
      BY <1>1, <1>2, <2>1, <2>2, <3>1 DEF Gated
  <2>3. CASE GiveUp(d, "restart")
    BY <1>1, <1>2, <2>1, <2>3, GiveUpGated
  <2> QED
    BY <1>10, <2>2, <2>3 DEF Restart
<1>11. CASE Verify(d)
  <2>1. stage[d] \in LateStages
    BY <1>11 DEF Verify, LateStages
  <2> QED
    BY <1>1, <1>2, <1>11, <2>1, EndGated, GiveUpGated DEF Verify
<1> QED
  BY <1>3, <1>4, <1>5, <1>6, <1>7, <1>8, <1>9, <1>10, <1>11 DEF Deployer

LEMMA GatesStep == GatesInv /\ [Next]_vars => GatesInv'
<1> SUFFICES ASSUME GatesInv, [Next]_vars PROVE GatesInv'
  OBVIOUS
<1>1. TypeOK /\ TypeOK'
  BY TypeStep DEF GatesInv
<1>2. CASE \E d \in Deployers : Deployer(d)
  BY <1>1, <1>2, OwnGated, OtherGated DEF GatesInv
<1> SUFFICES ASSUME NEW d \in Deployers, ~(\E e \in Deployers : Deployer(e))
             PROVE  Gated(d)'
  BY <1>1, <1>2 DEF GatesInv
<1>3. Gated(d)
  BY DEF GatesInv
<1>4. CASE Republish
  <2>1. CASE stage[d] \in Working
    BY <1>1, <1>4, <2>1 DEF Republish, Gated, TypeOK
  <2>2. CASE stage[d] \notin Working
    BY <1>4, <2>2 DEF Republish, Gated, Working, Stages, LateStages
  <2> QED
    BY <2>1, <2>2
<1>5. CASE LoadRules
  <2>1. /\ UNCHANGED <<artifact, remote, stage, plan, disturbed>>
        /\ loaded' = IF Accepts(remote) THEN remote ELSE NoFile
    BY <1>5 DEF LoadRules, local, history
  <2>2. CASE stage[d] = "verify" /\ ~disturbed[d]
    <3>1. Accepts(artifact) /\ remote = artifact
      BY <1>3, <2>2 DEF Gated
    <3>2. loaded' = artifact
      BY <2>1, <3>1
    <3> QED
      BY <1>3, <2>1, <3>2 DEF Gated, Accepts
  <2>3. CASE stage[d] # "verify" \/ disturbed[d]
    BY <1>3, <2>1, <2>3 DEF Gated, Accepts
  <2> QED
    BY <2>2, <2>3
<1>6. CASE UNCHANGED vars
  BY <1>3, <1>6 DEF vars, local, manager, history, Gated, Accepts
<1> QED
  BY <1>4, <1>5, <1>6 DEF Next

LEMMA SuccessStep ==
  ASSUME GatesInv, NEW d \in Deployers, Next,
         Ends(d), report'[d].status = "succeeded", ~disturbed[d]
  PROVE  /\ remote' = artifact
         /\ artifact \notin Invalid \cup Colliding \cup Rejected
         /\ plan[d].restart => restarting \/ loaded = artifact
<1>1. TypeOK /\ Gated(d) /\ report[d] \in Report
  BY DEF GatesInv, TypeOK
<1> USE DEF manager
<1>2. Deployer(d)
  <2>1. stage[d] # stage'[d]
    BY DEF Ends, Working
  <2>2. ~Republish /\ ~LoadRules
    BY <2>1 DEF Republish, LoadRules
  <2>3. PICK e \in Deployers : Deployer(e)
    BY <2>2 DEF Next
  <2> QED
    BY <1>1, <2>1, <2>3, StepFrame
<1>3. \A s \in Stages : ~End(d, Failed(report[d], s), TRUE)
  <2> SUFFICES ASSUME NEW s \in Stages, End(d, Failed(report[d], s), TRUE)
               PROVE  FALSE
    OBVIOUS
  <2>1. Failed(report[d], s).status = "failed"
    BY <1>1 DEF Failed, Report
  <2> QED
    BY <1>1, <2>1 DEF End, TypeOK
<1>4. \A s \in Stages : ~GiveUp(d, s)
  <2> SUFFICES ASSUME NEW s \in Stages, GiveUp(d, s) PROVE FALSE
    OBVIOUS
  <2>1. Restorable(d)
    BY <1>3 DEF GiveUp
  <2> QED
    BY <1>1, <2>1 DEF GiveUp, Go, Ends, TypeOK
<1>5. \A r : ~End(d, r, FALSE)
  BY <1>1 DEF End, Ends, TypeOK
<1>6. \A st \in {"dry_run", "validate_only"} :
        ~End(d, [report[d] EXCEPT !.status = st], TRUE)
  BY <1>1 DEF End, TypeOK, Report
<1>7. \A s \in Stages \ {"done"} : \A r : ~Go(d, s, r)
  BY <1>1 DEF Go, Ends, TypeOK
<1>8. ~RefuseToStart(d) /\ ~Start(d) /\ ~Kill(d)
  BY <1>5 DEF RefuseToStart, Start, Kill, Ends, Working
<1>9. ~Authenticate(d) /\ ~ValidateOnly(d)
  BY <1>3, <1>5, <1>6, <1>7 DEF Authenticate, ValidateOnly, AfterAuthentication,
     AfterCollisionCheck, AfterBackup, Stages
<1>10. ~CheckCollisions(d) /\ ~BackUp(d) /\ ~FailToBackUp(d)
  BY <1>3, <1>7 DEF CheckCollisions, BackUp, FailToBackUp, AfterCollisionCheck,
     AfterBackup, Stages
<1>11. ~Upload(d) /\ ~ValidateManager(d) /\ ~Restart(d)
  BY <1>4, <1>7 DEF Upload, ValidateManager, Restart, AfterUpload, AfterValidation,
     Stages
<1>12. ~RollBack(d)
  <2> DEFINE failed == Failed(report[d], report[d].failedStage)
  <2>1. failed \in Report /\ failed.status = "failed"
    BY <1>1 DEF Failed, Report, Statuses
  <2>2. /\ [failed EXCEPT !.rolledBack = TRUE].status = "failed"
        /\ [failed EXCEPT !.rollbackError = TRUE].status = "failed"
    BY <2>1 DEF Report
  <2> HIDE DEF failed
  <2>3. /\ ~End(d, [failed EXCEPT !.rolledBack = TRUE], TRUE)
        /\ ~End(d, [failed EXCEPT !.rollbackError = TRUE], TRUE)
    BY <1>1, <2>2 DEF End, TypeOK
  <2> QED
    BY <1>5, <2>3 DEF RollBack, failed
<1>13. Verify(d)
  BY <1>2, <1>8, <1>9, <1>10, <1>11, <1>12 DEF Deployer
<1>14. stage[d] = "verify" /\ remote' = remote
  BY <1>13 DEF Verify
<1> QED
  BY <1>1, <1>14 DEF Gated, Accepts, Working, Stages, LateStages

\* A deployment that reports success, and was not disturbed, left the artifact
\* on the manager; the artifact passed the validator, the collision check and
\* the manager's own validation, and is loaded or about to be if a restart was
\* asked for, whatever other deployers did meanwhile.
THEOREM SuccessServed == Spec => SuccessIsServed
<1>1. GatesInv /\ [Next]_vars
      => [\A d \in Deployers :
            Ends(d) /\ report'[d].status = "succeeded" /\ ~disturbed[d]
            => /\ remote' = artifact
               /\ artifact \notin Invalid \cup Colliding \cup Rejected
               /\ plan[d].restart => restarting \/ loaded = artifact]_vars
  BY SuccessStep
<1> QED
  BY <1>1, GatesInit, GatesStep, PTL DEF Spec, SuccessIsServed
=============================================================================
