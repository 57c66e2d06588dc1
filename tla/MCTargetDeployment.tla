------------------------ MODULE MCTargetDeployment ------------------------
(* Threads that deploy identical transactions to different pinned ids.      *)
EXTENDS TargetDeployment
=============================================================================
