----------------------------- MODULE MCSqlLabTabs -----------------------------
(* Instances of SqlLabTabs for TLC. *)
EXTENDS SqlLabTabs

CONSTANTS e1, e2, w1, w2

TwoEditors == {e1, e2}
FirstEditor == {e1}
TwoWindows == {w1, w2}
OneWindow == {w1}
=============================================================================
