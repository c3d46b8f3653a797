---------------------------- MODULE MCGitMirror -----------------------------
(***************************************************************************)
(* Small instances of GitMirror for TLC.                                   *)
(***************************************************************************)
EXTENDS GitMirror

CONSTANTS main, dev, u1, u2

TwoBranches == {main, dev}

\* The first repository has a default branch, the other one is empty; another branch
\* may appear at the first repository.
Existing == <<u1>>

Changing == {<<u1, main>>, <<u1, dev>>}

\* Runs and previews ask for a branch that may not exist, pulls for none.
Asked == [p \in Requests |-> IF p \in Pulls THEN main ELSE dev]

\* The state without the history variables that no guard and none of the properties of
\* GitMirror.cfg but the type invariant reads.
WithoutHistory == <<world, registry, reloads, mirror, requests, checkouts, complete, crashes>>
=============================================================================
