----------------------------- MODULE MCListing ------------------------------
(***************************************************************************)
(* Two users, one of whom has agents enough for two pages and the row      *)
(* between them; the other would see them if List did not ask for its own. *)
(***************************************************************************)
EXTENDS Listing, TLC

CONSTANTS u1, u2

MCOwner == [a \in Agents |-> u1]
MCAsked == {-1, 1}
Symmetry == Permutations(Agents) \cup Permutations(Requests) \cup Permutations(Nonces)
=============================================================================
