----------------------------- MODULE MCAITasks -----------------------------
(***************************************************************************)
(* Three tasks: one or two may run, none or two may wait.                  *)
(***************************************************************************)
EXTENDS AITasks, TLC

TaskSymmetry == Permutations(Task)
=============================================================================
