--------------------------- MODULE MCEngineClock ---------------------------
(***************************************************************************)
(* EngineClock with the instances of MCEngine.                             *)
(***************************************************************************)
EXTENDS MCEngine, EngineClock
=============================================================================
