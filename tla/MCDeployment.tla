---------------------------- MODULE MCDeployment ----------------------------
(***************************************************************************)
(* Instances of Deployment for TLC.                                        *)
(***************************************************************************)
EXTENDS Deployment, TLC

Options(chosen) == [dryRun       |-> "dry_run" \in chosen,
                    validateOnly |-> "validate_only" \in chosen,
                    backup       |-> "backup" \in chosen,
                    rollback     |-> "rollback" \in chosen,
                    restart      |-> "restart" \in chosen]

\* The documented production command, a careless one, the two modes that must
\* not touch the manager, and a combination that is refused.
MCPlans == {Options({"backup", "rollback", "restart"}),
            Options({"backup", "rollback"}),
            Options({"backup", "restart"}),
            Options({"restart"}),
            Options({"dry_run"}),
            Options({"validate_only", "backup"}),
            Options({"rollback"})}

Symmetry == Permutations(Deployers)
=============================================================================
