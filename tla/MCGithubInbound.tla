-------------------------- MODULE MCGithubInbound --------------------------
(* Small instances of GithubInbound: two replicas, one pull request closed,   *)
(* reopened and merged, and one opened on a new branch.  Since any delivery   *)
(* may be missing, a history stands for the shorter ones within it.           *)
EXTENDS GithubInbound, TLC

CONSTANTS p, w1, w2

PR(kind) == [kind |-> kind, pr |-> p]
Reworked == <<PR("opened"), PR("unmerged"), PR("reopened"), PR("merged")>>
Branched == <<[kind |-> "branch"], PR("opened")>>
Both == {Reworked, Branched}

Symmetry == Permutations(Workers)
=============================================================================
