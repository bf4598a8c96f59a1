--------------------------- MODULE MCGitHubBudget ---------------------------
(* Instances of GitHubBudget for TLC. *)
EXTENDS GitHubBudget

CONSTANTS c1, c2
=============================================================================
