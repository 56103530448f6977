------------------------------ MODULE MCExecEnv -------------------------------
(* Small instances of ExecEnv for TLC. *)
EXTENDS ExecEnv, TLC

CONSTANTS w1, inner

(* A target below the first worktree, outside of every other. *)
TargetPlaces == [x \in Targets |-> IF x = inner THEN w1 ELSE None]
===============================================================================
