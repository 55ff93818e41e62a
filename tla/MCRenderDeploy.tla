--------------------------- MODULE MCRenderDeploy ---------------------------
(* Model-checking instance of RenderDeploy: see the .cfg files.            *)
EXTENDS RenderDeploy
=============================================================================
