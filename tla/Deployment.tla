----------------------------- MODULE Deployment -----------------------------
(***************************************************************************)
(* `deploy' commands against one Wazuh manager and one remote rule file.   *)
(*                                                                         *)
(* A deployer is one invocation of the command.  Each of its steps is one  *)
(* call on the manager's API together with what deploy_rules does with the *)
(* answer: an answer is a success, an "api_error" (WazuhApiError: an HTTP  *)
(* error, a refused connection, an error payload) or an "os_error" (the    *)
(* bare OSError of a response that times out or breaks off).  A failed PUT *)
(* may or may not have taken effect on the manager.                        *)
(*                                                                         *)
(* The manager is external: the file it stores, the copy its engine has    *)
(* loaded, and a restart that is accepted at once and loads the file       *)
(* later.  Several deployers may run at a time, and the local artifact may *)
(* be republished under them.  A content is known by the gates it passes.  *)
(***************************************************************************)
EXTENDS Naturals

CONSTANTS
  Deployers,
  Contents,       \* contents of a rule file
  Invalid,        \* contents the local validator fails
  Colliding,      \* contents with a rule id that another remote file has loaded
  Rejected,       \* contents the manager's configuration validation refuses
  NoFile,
  Plans,          \* the option combinations deployers are started with
  Faults,         \* the errors a call may end with, and "kill"
  MaxRepublished  \* how often the artifact may be republished (a bound)

Plan == [dryRun : BOOLEAN, validateOnly : BOOLEAN, backup : BOOLEAN,
         rollback : BOOLEAN, restart : BOOLEAN]

ASSUME ContentsAssumption == /\ Invalid \subseteq Contents
                             /\ Colliding \subseteq Contents
                             /\ Rejected \subseteq Contents
                             /\ NoFile \notin Contents
ASSUME PlansAssumption    == Plans \subseteq Plan
ASSUME FaultsAssumption   == Faults \subseteq {"api_error", "os_error", "kill"}
ASSUME BoundAssumption    == MaxRepublished \in Nat

VARIABLES
  artifact,     \* the local rules file
  republished,  \* how often it was replaced (bounds the environment)
  remote,       \* the rule file the manager stores
  loaded,       \* the rule file its engine runs
  restarting,   \* a restart is accepted and not yet carried out
  stage,        \* what each deployer does next
  plan,         \* its options
  backup,       \* the bytes it downloaded
  report,       \* its deployment report
  written,      \* the report is on disk
  before,       \* history: the remote file when it started
  disturbed     \* history: somebody else wrote either file since

manager == <<remote, loaded, restarting>>
local   == <<artifact, republished>>
history == <<before, disturbed>>
vars    == <<local, manager, stage, plan, backup, report, written, history>>

Stages == {"idle", "authenticate", "collision_check", "backup_remote",
           "validate_only", "upload", "manager_validation", "restart",
           "verify", "rollback", "done"}
Working == Stages \ {"idle", "done"}
Statuses == {"none", "started", "dry_run", "validate_only", "succeeded",
             "failed"}
Remote == Contents \cup {NoFile}
Errors == Faults \ {"kill"}

Report == [status : Statuses, failedStage : Stages \cup {"none"},
           backedUp : BOOLEAN, uploaded : BOOLEAN, rolledBack : BOOLEAN,
           rollbackError : BOOLEAN]

NoReport == [status |-> "none", failedStage |-> "none", backedUp |-> FALSE,
             uploaded |-> FALSE, rolledBack |-> FALSE, rollbackError |-> FALSE]
NewReport == [NoReport EXCEPT !.status = "started"]

Init ==
  /\ artifact \in Contents
  /\ remote \in Remote
  /\ loaded = remote
  /\ restarting = FALSE
  /\ republished = 0
  /\ stage = [d \in Deployers |-> "idle"]
  /\ plan = [d \in Deployers |-> [dryRun |-> FALSE, validateOnly |-> FALSE,
               backup |-> FALSE, rollback |-> FALSE, restart |-> FALSE]]
  /\ backup = [d \in Deployers |-> NoFile]
  /\ report = [d \in Deployers |-> NoReport]
  /\ written = [d \in Deployers |-> FALSE]
  /\ before = [d \in Deployers |-> NoFile]
  /\ disturbed = [d \in Deployers |-> FALSE]

-----------------------------------------------------------------------------
(* What a deployer makes of its options and of an answer. *)

\* Mutant: the restore point a rollback needs is not demanded.
AdmissibleUnbacked(p) == ~(p.dryRun /\ p.validateOnly)

\* validate_deployment_options
Admissible(p) == /\ ~(p.dryRun /\ p.validateOnly)
                 /\ p.rollback => p.backup

AfterBackup(p) == IF p.validateOnly THEN "validate_only" ELSE "upload"
AfterCollisionCheck(p) == IF p.backup THEN "backup_remote" ELSE AfterBackup(p)
AfterAuthentication(p) ==
  IF p.validateOnly THEN AfterCollisionCheck(p) ELSE "collision_check"

AfterUpload(p) == "manager_validation"

\* Mutant: the restart that was asked for is skipped.
AfterValidationVerify(p) == "verify"
AfterValidation(p) == IF p.restart THEN "restart" ELSE "verify"

Uploaded(r) == [r EXCEPT !.uploaded = TRUE]

\* Mutant: the failing stage is not stamped.
FailedSomewhere(r, s) == [r EXCEPT !.status = "failed"]
\* mark_deployment_failure
Failed(r, s) == [r EXCEPT !.status = "failed", !.failedStage = s]

\* Mutant: only an upload that was acknowledged is rolled back.
RestorableAcknowledged(d) ==
  plan[d].rollback /\ backup[d] # NoFile /\ report[d].uploaded
Restorable(d) == plan[d].rollback /\ backup[d] # NoFile

Accepts(c) == c \notin Rejected

-----------------------------------------------------------------------------
(* How a step of a deployer ends. *)

Go(d, next, r) ==
  /\ stage' = [stage EXCEPT ![d] = next]
  /\ report' = [report EXCEPT ![d] = r]
  /\ UNCHANGED written

\* The command ends; the report reaches the disk or an error nobody handles
\* takes it along.
End(d, r, onDisk) ==
  /\ stage' = [stage EXCEPT ![d] = "done"]
  /\ report' = [report EXCEPT ![d] = r]
  /\ written' = [written EXCEPT ![d] = onDisk]

\* An error after the upload was sent: roll back, or report the failure.
GiveUp(d, at) ==
  IF Restorable(d)
    THEN Go(d, "rollback", [report[d] EXCEPT !.failedStage = at])
    ELSE End(d, Failed(report[d], at), TRUE)

\* The manager stores another file: those at work next to d are disturbed.
Store(d, content) ==
  /\ remote' = content
  /\ disturbed' = [e \in Deployers |->
                     \/ disturbed[e]
                     \/ e # d /\ stage[e] \in Working /\ content # remote]

-----------------------------------------------------------------------------
(* The deployer's steps, one per call on the manager. *)

\* Options and the local file are checked before anything else.
RefuseToStart(d) ==
  /\ stage[d] = "idle"
  /\ \E p \in Plans :
       /\ ~Admissible(p) \/ artifact \in Invalid
       /\ plan' = [plan EXCEPT ![d] = p]
  /\ End(d, NoReport, FALSE)
  /\ UNCHANGED <<local, manager, backup, history>>

Start(d) ==
  /\ stage[d] = "idle"
  /\ artifact \notin Invalid
  /\ \E p \in Plans : Admissible(p) /\ plan' = [plan EXCEPT ![d] = p]
  /\ Go(d, "authenticate", NewReport)
  /\ before' = [before EXCEPT ![d] = remote]
  /\ UNCHANGED <<local, manager, backup, disturbed>>

\* Only WazuhApiError is handled here.
Authenticate(d) ==
  /\ stage[d] = "authenticate"
  /\ \/ IF plan[d].dryRun
          THEN End(d, [report[d] EXCEPT !.status = "dry_run"], TRUE)
          ELSE Go(d, AfterAuthentication(plan[d]), report[d])
     \/ "api_error" \in Errors /\ End(d, Failed(report[d], "authenticate"), TRUE)
     \/ "os_error" \in Errors /\ End(d, report[d], FALSE)
  /\ UNCHANGED <<local, manager, plan, backup, history>>

CheckCollisions(d) ==
  /\ stage[d] = "collision_check"
  /\ \/ artifact \notin Colliding /\ Go(d, AfterCollisionCheck(plan[d]), report[d])
     \/ /\ artifact \in Colliding \/ Errors # {}
        /\ End(d, Failed(report[d], "collision_check"), TRUE)
  /\ UNCHANGED <<local, manager, plan, backup, history>>

BackUp(d) ==
  /\ stage[d] = "backup_remote"
  /\ remote # NoFile
  /\ backup' = [backup EXCEPT ![d] = remote]
  /\ Go(d, AfterBackup(plan[d]), [report[d] EXCEPT !.backedUp = TRUE])
  /\ UNCHANGED <<local, manager, plan, history>>

\* Nothing to download, a failed download, or a backup file that could not be
\* written after it.
FailToBackUp(d) ==
  /\ stage[d] = "backup_remote"
  /\ remote = NoFile \/ Errors # {}
  /\ \E bytes \in {NoFile, remote} : backup' = [backup EXCEPT ![d] = bytes]
  /\ IF plan[d].rollback
       THEN End(d, Failed(report[d], "backup_remote"), TRUE)
       ELSE Go(d, AfterBackup(plan[d]), report[d])
  /\ UNCHANGED <<local, manager, plan, history>>

ValidateOnly(d) ==
  /\ stage[d] = "validate_only"
  /\ \/ /\ Accepts(remote)
        /\ End(d, [report[d] EXCEPT !.status = "validate_only"], TRUE)
     \/ /\ ~Accepts(remote) \/ Errors # {}
        /\ End(d, Failed(report[d], "manager_validation"), TRUE)
  /\ UNCHANGED <<local, manager, plan, backup, history>>

Upload(d) ==
  /\ stage[d] = "upload"
  /\ \/ /\ Store(d, artifact)
        /\ Go(d, AfterUpload(plan[d]), Uploaded(report[d]))
     \/ /\ Errors # {}
        /\ \E content \in {remote, artifact} : Store(d, content)
        /\ GiveUp(d, "upload")
  /\ UNCHANGED <<local, loaded, restarting, plan, backup, before>>

ValidateManager(d) ==
  /\ stage[d] = "manager_validation"
  /\ \/ Accepts(remote) /\ Go(d, AfterValidation(plan[d]), report[d])
     \/ (~Accepts(remote) \/ Errors # {}) /\ GiveUp(d, "manager_validation")
  /\ UNCHANGED <<local, manager, plan, backup, history>>

Restart(d) ==
  /\ stage[d] = "restart"
  /\ \/ restarting' = TRUE /\ Go(d, "verify", report[d])
     \/ /\ Errors # {}
        /\ restarting' \in {restarting, TRUE}
        /\ GiveUp(d, "restart")
  /\ UNCHANGED <<local, remote, loaded, plan, backup, history>>

\* A file without loaded rules fails the deployment only after a restart.
Verify(d) ==
  /\ stage[d] = "verify"
  /\ \/ /\ ~(plan[d].restart /\ loaded = NoFile)
        /\ End(d, [report[d] EXCEPT !.status = "succeeded"], TRUE)
     \/ /\ (plan[d].restart /\ loaded = NoFile) \/ Errors # {}
        /\ GiveUp(d, "verify")
  /\ UNCHANGED <<local, manager, plan, backup, history>>

\* rollback_remote_rules handles WazuhApiError and nothing else; the manager
\* is neither validated nor restarted again.
RollBack(d) ==
  LET failed == Failed(report[d], report[d].failedStage) IN
  /\ stage[d] = "rollback"
  /\ \/ /\ Store(d, backup[d])
        /\ End(d, [failed EXCEPT !.rolledBack = TRUE], TRUE)
     \/ /\ \E content \in {remote, backup[d]} : Store(d, content)
        /\ \/ /\ "api_error" \in Errors
              /\ End(d, [failed EXCEPT !.rollbackError = TRUE], TRUE)
           \/ "os_error" \in Errors /\ End(d, report[d], FALSE)
  /\ UNCHANGED <<local, loaded, restarting, plan, backup, before>>

\* The process is killed: no rollback and no report.
Kill(d) ==
  /\ "kill" \in Faults
  /\ stage[d] \in Working
  /\ End(d, report[d], FALSE)
  /\ UNCHANGED <<local, manager, plan, backup, history>>

Deployer(d) ==
  \/ RefuseToStart(d) \/ Start(d) \/ Authenticate(d) \/ CheckCollisions(d)
  \/ BackUp(d) \/ FailToBackUp(d) \/ ValidateOnly(d) \/ Upload(d)
  \/ ValidateManager(d) \/ Restart(d) \/ Verify(d) \/ RollBack(d) \/ Kill(d)

-----------------------------------------------------------------------------
(* The surroundings. *)

\* A conversion publishes another artifact.
Republish ==
  /\ republished < MaxRepublished
  /\ republished' = republished + 1
  /\ \E c \in Contents \ {artifact} : artifact' = c
  /\ disturbed' = [d \in Deployers |-> disturbed[d] \/ stage[d] \in Working]
  /\ UNCHANGED <<manager, stage, plan, backup, report, written, before>>

\* The manager carries out a restart; it runs no rules it cannot parse.
LoadRules ==
  /\ restarting
  /\ restarting' = FALSE
  /\ loaded' = IF Accepts(remote) THEN remote ELSE NoFile
  /\ UNCHANGED <<local, remote, stage, plan, backup, report, written, history>>

Next == (\E d \in Deployers : Deployer(d)) \/ Republish \/ LoadRules

Spec == Init /\ [][Next]_vars

-----------------------------------------------------------------------------
(* Properties. *)

Ends(d) == stage[d] \in Working /\ stage'[d] = "done" /\ written'[d]

\* Every variable has its type; a failed report names the stage that failed.
TypeOK ==
  /\ artifact \in Contents
  /\ republished \in 0..MaxRepublished
  /\ remote \in Remote
  /\ loaded \in Remote
  /\ restarting \in BOOLEAN
  /\ stage \in [Deployers -> Stages]
  /\ plan \in [Deployers -> Plan]
  /\ backup \in [Deployers -> Remote]
  /\ report \in [Deployers -> Report]
  /\ written \in [Deployers -> BOOLEAN]
  /\ before \in [Deployers -> Remote]
  /\ disturbed \in [Deployers -> BOOLEAN]
  /\ \A d \in Deployers :
       report[d].status = "failed" \/ stage[d] = "rollback"
       => report[d].failedStage # "none"

\* A deployer that was told to roll back never comes to its upload without a
\* restore point on disk, and the restore point is the file it found unless
\* another deployer replaced that file: "the managed file is never replaced
\* without a rollback point" (docs/RUNBOOK.md).
RestorePoint ==
  \A d \in Deployers :
    plan[d].rollback
      /\ stage[d] \in {"upload", "manager_validation", "restart", "verify", "rollback"}
    => /\ report[d].backedUp
       /\ backup[d] # NoFile
       /\ ~disturbed[d] => backup[d] = before[d]

\* A failed deployment that was told to roll back, and reports no rollback
\* error, leaves the remote file as it found it, even when the manager applied
\* an upload whose answer was lost.
FailureRestoresFile ==
  [][\A d \in Deployers :
       /\ Ends(d) /\ plan[d].rollback /\ ~disturbed[d]
       /\ report'[d].status = "failed" /\ ~report'[d].rollbackError
       => remote' = before[d]]_vars

\* A reported success means what it says: the manager stores the artifact,
\* which passed every gate, and has loaded it or is restarting if a restart
\* was asked for.
SuccessIsServed ==
  [][\A d \in Deployers :
       Ends(d) /\ report'[d].status = "succeeded" /\ ~disturbed[d]
       => /\ remote' = artifact
          /\ artifact \notin Invalid \cup Colliding \cup Rejected
          /\ plan[d].restart => restarting \/ loaded = artifact]_vars
=============================================================================
