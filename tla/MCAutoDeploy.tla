---------------------------- MODULE MCAutoDeploy ----------------------------
(* AutoDeploy with a few commits.                                           *)
EXTENDS AutoDeploy
=============================================================================
