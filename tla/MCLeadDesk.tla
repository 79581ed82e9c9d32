------------------------------ MODULE MCLeadDesk ------------------------------
(* Small instances of LeadDesk for TLC. *)
EXTENDS LeadDesk, TLC

\* Managers who see everything are told apart by nothing but their state.
Interchangeable == Permutations(Chiefs)
=============================================================================
