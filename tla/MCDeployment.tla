---------------------------- MODULE MCDeployment ----------------------------
(* Release and Provision in one TLC run: the initial state picks which of *)
(* them moves, and the other one stays as it is.                          *)
EXTENDS Release, Provision, TLC

VARIABLE part

DeploymentInit == ReleaseInit /\ ProvisionInit /\ part \in {"release", "provision"}

DeploymentNext ==
  \/ part = "release" /\ script = "mcp" /\ ReleaseNext /\ UNCHANGED <<provisionVars, part>>
  \/ part = "provision" /\ ProvisionNext /\ UNCHANGED <<releaseVars, part>>

DeploymentSpec ==
  /\ DeploymentInit
  /\ [][DeploymentNext]_<<releaseVars, provisionVars, part>>
  /\ ProvisionFairness

\* The progress of a script, where scripts are what runs.
ScriptsComplete == part = "provision" => RerunCompletes
=============================================================================
