----------------------- MODULE MCGovernanceExecutor -----------------------
(* Instantiates GovernanceExecutor for TLC: two concurrent invocations of  *)
(* trigger_if_needed, a cooldown of 2 seconds and a clock bounded at 5, so *)
(* that a second signal can arrive both inside and after the cooldown.     *)
EXTENDS GovernanceExecutor, TLC

MCMinInterval == 2
MCMaxTime == 5

\* The invocations are interchangeable; used only by safety-only runs.
CallerSymmetry == Permutations(Callers)
=============================================================================
