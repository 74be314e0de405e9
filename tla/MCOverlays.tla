----------------------------- MODULE MCOverlays -----------------------------
(***************************************************************************)
(* The instance of Overlays that TLC checks.                               *)
(***************************************************************************)
EXTENDS Overlays
=============================================================================
