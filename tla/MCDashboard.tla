---------------------------- MODULE MCDashboard ----------------------------
(***************************************************************************)
(* Small instances of Dashboard: two tabs of one publisher whose profile   *)
(* has fewer pages than the fallback, and two clicks in any of them.       *)
(***************************************************************************)
EXTENDS Dashboard

CONSTANTS t1, t2

TwoTabs == {t1, t2}
OneTab == {t1}
TwoRuns == 1..2
=============================================================================
