---------------------------- MODULE MCCaseDesk ----------------------------
(* CaseDesk with two bootstrap commands, one member of the staff and two logins. *)
EXTENDS CaseDesk, TLC

Symmetry == Permutations(Token) \cup Permutations(Candidate)
===========================================================================
