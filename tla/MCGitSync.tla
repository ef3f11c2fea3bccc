----------------------------- MODULE MCGitSync -----------------------------
(* Small instances of GitSync. *)
EXTENDS GitSync, TLC

CONSTANTS c1, e1, e2, r1

\* every git command of service.go that can fail
AllFaults == {"fetch", "remote", "add", "status", "commit", "push", "pull", "timeout", "abort"}

\* failures of the network and of staging, status and commit
RetriedFaults == {"fetch", "add", "status", "commit", "push", "pull", "timeout", "abort"}

\* the edits of this device are interchangeable
EditSymmetry == Permutations({e1, e2})

SafetyBudget == [fault |-> 1, restart |-> 1, manual |-> 1, config |-> 1]
PublishBudget == [fault |-> 2, restart |-> 1, manual |-> 1, config |-> 0]
============================================================================
