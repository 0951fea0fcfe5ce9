------------------------------ MODULE MCDashboards ------------------------------
(***************************************************************************)
(* A dashboard with a filter box and another chart, room for a copy of     *)
(* both, and two windows.                                                  *)
(***************************************************************************)
EXTENDS Dashboards

CONSTANTS p1, p2

OnePage == {p1}
TwoPages == {p1, p2}
=============================================================================
