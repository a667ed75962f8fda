-------------------------- MODULE MCExecutionEngine --------------------------
(***************************************************************************)
(* Instances of ExecutionEngine for TLC.  Hotkeys are k1, k2, c1; other    *)
(* goroutines g1, g2; the configurations choose among the policy and       *)
(* priority tables below.                                                  *)
(***************************************************************************)
EXTENDS ExecutionEngine

CONSTANTS k1, k2, c1, g1, g2, t1

MCPriority ==
    [g \in Goroutine |-> IF g \in Hotkey THEN "HOTKEY"
                         ELSE IF g = g2 THEN "BACKGROUND" ELSE "NORMAL"]
MCPolicyMerge == [g \in Goroutine |-> IF g = k2 THEN "Coalesce" ELSE "Drop"]
MCPolicyRestart ==
    [g \in Goroutine |-> IF g \in Conditional THEN "Drop"
                         ELSE IF g = k2 THEN "Queue" ELSE "Replace"]
=============================================================================
