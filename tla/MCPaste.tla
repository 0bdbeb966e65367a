------------------------------ MODULE MCPaste ------------------------------
(* Paste with small groups of small files, for TLC. *)
EXTENDS Paste

\* Two paste actions of two files: one that just fits MAX_PASTE_TOTAL_BYTES,
\* and one whose second file is too much.
TwoActions == {1, 2}
SmallFiles == [p \in Pastes |-> IF p = <<2, 2>> THEN 2 ELSE 1]

\* app.js gets through an action and into the next one; another client, which
\* interleaves its files as it likes, ends two of them.
FrameBound == [a \in BOOLEAN |-> IF a THEN 9 ELSE 5]
=============================================================================
