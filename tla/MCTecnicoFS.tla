---------------------------- MODULE MCTecnicoFS ----------------------------
(* Small instances of TecnicoFS for TLC. *)
EXTENDS TecnicoFSRefines, TLC

AbsolutePaths == [abs : {TRUE}, name : Name \cup {NoName}]
AllPaths == [abs : BOOLEAN, name : Name \cup {NoName}]

\* One byte, and more than a block of two cells holds.
SomePayload == { <<1>>, <<1, 1, 1>> }

\* The same lengths for the run whose properties never look at a byte.
BlankPayload == { <<0>>, <<0, 0, 0>> }

\* No name is special: neither the tables nor the properties compare names
\* other than for equality.
Symmetry == Permutations(Name)
=============================================================================
