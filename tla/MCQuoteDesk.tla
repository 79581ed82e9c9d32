------------------------------ MODULE MCQuoteDesk ------------------------------
(* Small instances of QuoteDesk for TLC. *)
EXTENDS QuoteDesk, TLC

\* Staff and tabs are told apart by nothing but their state (used where only
\* safety is checked).
Interchangeable == Permutations(Staff) \cup Permutations(Tabs)
=============================================================================
