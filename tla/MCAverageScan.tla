--------------------------- MODULE MCAverageScan ---------------------------
(* An instance of AverageScan for TLC. *)
EXTENDS AverageScan

\* -9 / 2 is -4 in C.
Strengths == {-7, -2}
=============================================================================
