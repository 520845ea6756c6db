---------------------------- MODULE MCPromptTasks ----------------------------
(* TLC instance of PromptTasks: a season of two normal episodes. *)
EXTENDS PromptTasks
=============================================================================
