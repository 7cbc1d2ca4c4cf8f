----------------------- MODULE MCWorkspaceController -----------------------
(* The workspace adapter on the instances of the MCController*.cfg files.  *)
EXTENDS WorkspaceController
=============================================================================
