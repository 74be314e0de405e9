--------------------------- MODULE MCManualSeeder ---------------------------
(***************************************************************************)
(* ManualSeeder on the instance its configuration gives.                   *)
(***************************************************************************)
EXTENDS ManualSeeder
=============================================================================
