---------------------------- MODULE MCFineLocks -----------------------------
(* Small instances of FineLocks for TLC. *)
EXTENDS FineLocks, TLC

CONSTANTS t1, t2

\* One thread makes a call more than the other.
FewCalls == t1 :> 3 @@ t2 :> 2

\* Create or go on at the end; truncate.
SomeFlags == { {"TFS_O_CREAT", "TFS_O_APPEND"}, {"TFS_O_TRUNC"} }
=============================================================================
