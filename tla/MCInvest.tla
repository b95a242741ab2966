------------------------------ MODULE MCInvest ------------------------------
(***************************************************************************)
(* Instances of Invest: one request at a time, and two that overlap.       *)
(***************************************************************************)
EXTENDS Invest, TLC

CONSTANTS u1, u2, r1, r2

Symm == Permutations(Users) \cup Permutations(Requests)
=============================================================================
