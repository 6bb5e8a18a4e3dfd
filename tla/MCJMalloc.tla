----------------------------- MODULE MCJMalloc -----------------------------
(* Small instances of JMalloc for TLC. *)
EXTENDS JMalloc

\* Sizes that realloc reads back: the least block, two in neighbouring eights,
\* and the largest.
ReadBackSizes == {0, 20, 30, 120}

\* A size whose low byte is all zeros.
LostSizes == {20, 256}

\* What the theorem about the contract supposes holds of the first of these.
ASSUME AllReadBack == \A n \in ReadBackSizes : ReadBack(n)
=============================================================================
