--------------------------- MODULE MCAnnouncements ---------------------------
(* Small instances of Announcements for TLC. *)
EXTENDS Announcements, TLC

\* Calls and editors are told apart by nothing but their state (used where only
\* safety is checked).
Interchangeable == Permutations(Callers) \cup Permutations(Editors)
=============================================================================
