-------------------------------- MODULE Fund --------------------------------
(***************************************************************************)
(* What the deposits and redemptions of one agent promise: a fund whose    *)
(* holders put an amount in once and take some of the balance out once.    *)
(***************************************************************************)
EXTENDS Integers

CONSTANT Amounts

VARIABLES balance,   \* what the fund holds
          opened,    \* how many holdings there have been
          holders    \* the holdings not yet taken out

vars == <<balance, opened, holders>>

Init == balance = 0 /\ opened = 0 /\ holders = {}

Put == /\ \E x \in Amounts : balance' = balance + x
       /\ opened' = opened + 1
       /\ holders' = holders \cup {opened'}

Take == \E h \in holders :
           /\ balance' \in 0..balance
           /\ holders' = holders \ {h}
           /\ UNCHANGED opened

Next == Put \/ Take

Spec == Init /\ [][Next]_vars
=============================================================================
