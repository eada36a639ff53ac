----------------------------- MODULE MCJournal ------------------------------
(* Finite instances of Journal for TLC. *)
EXTENDS Journal

TwoFiles == {"a", "b"}

=============================================================================
