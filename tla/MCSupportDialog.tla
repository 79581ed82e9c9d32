--------------------------- MODULE MCSupportDialog ---------------------------
(* Small instances of SupportDialog for TLC.                               *)
EXTENDS SupportDialog, TLC

\* Worker slots are interchangeable; used by the safety runs only.
WorkerSymmetry == Permutations(Workers)
=============================================================================
