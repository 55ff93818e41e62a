---------------------------- MODULE MCInstallRun ----------------------------
(* Model-checking instance of InstallRun: see the .cfg files.              *)
EXTENDS InstallRun, TLC

Symmetric == Permutations(Proc)
=============================================================================
