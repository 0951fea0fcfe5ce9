------------------------------- MODULE MCSqlLabUI -------------------------------
(* Instances of SqlLabUI for TLC: one query whose polls overlap, and two      *)
(* queries on a page whose polls are answered before the next one is sent.    *)
EXTENDS SqlLabUI, TLC

CONSTANTS q1, q2

OneQuery == {q1}
NoQuery == {}
TwoQueries == {q1, q2}

\* The queries are alike.
Pair == Permutations(TwoQueries)
=============================================================================
