-------------------------- MODULE MCWorkspaceSync --------------------------
(* An instance of WorkspaceSync.                                           *)
EXTENDS WorkspaceSync, TLC

NotOvertaken == ~overtaken
=============================================================================
