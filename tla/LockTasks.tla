----------------------------- MODULE LockTasks -----------------------------
(* The tasks that use a lock. *)
EXTENDS FiniteSets

CONSTANT Task

ASSUME TaskFinite == IsFiniteSet(Task)
=============================================================================
