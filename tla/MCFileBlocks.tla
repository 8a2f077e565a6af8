---------------------------- MODULE MCFileBlocks ----------------------------
(* Small instances of FileBlocks for TLC. *)
EXTENDS FileBlocks, TLC

W(f, offset, len) == [file |-> f, offset |-> offset, len |-> len]

\* File 1 takes the indirect block with its one write.  File 2 grows within
\* its first block or, from the middle of it, to the largest size there is,
\* and is written at its last byte with more than fits.
SmallAndLarge == {W(1, 0, 3), W(2, 0, 1), W(2, 1, 5), W(2, 5, 2)}

\* Threads differ in nothing but their name.
Symmetry == Permutations(Thread)
=============================================================================
