----------------------------- MODULE MCCrmOutbox -----------------------------
(* Small instances of CrmOutbox for TLC. *)
EXTENDS CrmOutbox, TLC

\* Deliveries are told apart only by which of them made a Message-ID, and
\* staff not at all (used where only safety is checked).
Interchangeable == Permutations(Deliveries) \cup Permutations(Operators)
=============================================================================
