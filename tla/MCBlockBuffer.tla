--------------------------- MODULE MCBlockBuffer ---------------------------
(* Instances of BlockBuffer for TLC. *)
EXTENDS BlockBuffer, TLC

CONSTANTS a, b   \* elements

\* write of one, of exactly a full buffer and of more than fits.
MCBatches == {<<a>>, <<a, b>>, <<b, a, a>>}
MCLens == {0, 1, 2}

\* A slice of two.
MCDouble == {<<a, a>>}

Symmetry == Permutations(Thread)
=============================================================================
