-------------------------- MODULE MCSessionServer --------------------------
(* Small instances of SessionServer for TLC. *)
EXTENDS SessionServer, TLC

\* Operations of the file system that always succeed, and ones that may fail.
Succeed == {0}
MayFail == {0, -1}

\* A client dies between two requests (thread.c:246), or anywhere.
BetweenRequests == {"mounted"}
Anywhere == PC \ {"left"}

\* Clients differ only in which of them may be interrupted or killed.
Symmetry == Permutations(Client \ (Interruptible \cup Killable))
=============================================================================
