------------------------------ MODULE MCChartData ------------------------------
(***************************************************************************)
(* A table and a line with a time shift, which share a query, and requests *)
(* of two windows.                                                         *)
(***************************************************************************)
EXTENDS ChartData, TLC

CONSTANTS r1, r2, table, line

TwoRequests == {r1, r2}
OneRequest == {r1}
TwoCharts == {table, line}
TheirQueries == [c \in Charts |-> IF c = table THEN <<"main">> ELSE <<"shifted", "main">>]
TheirTimeouts == [c \in Charts |-> IF c = table THEN 2 ELSE 3]
JustTable == {table}
Symmetric == Permutations({r1, r2})
=============================================================================
