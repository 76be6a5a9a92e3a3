----------------------------- MODULE MCPipeline -----------------------------
(* Instances of Pipeline. *)
EXTENDS Pipeline

CONSTANTS p, q

MCProcesses == {p, q}
MCAgenda ==
  << {"convert"}, {"convert", "docker_smoke", "preflight_deploy"},
     {"convert", "validate", "deploy", "preflight_deploy"} >>

(* A smoke of edited sources, after a conversion. *)
MCRepublished == << {"convert"}, {"smoke"} >>

Symmetry == Permutations(MCProcesses)
=============================================================================
