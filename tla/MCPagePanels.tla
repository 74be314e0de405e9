---------------------------- MODULE MCPagePanels ----------------------------
(***************************************************************************)
(* The instance of PagePanels that TLC checks.                             *)
(***************************************************************************)
EXTENDS PagePanels
=============================================================================
