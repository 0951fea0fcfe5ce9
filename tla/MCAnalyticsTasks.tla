------------------------------ MODULE MCAnalyticsTasks ------------------------------
(***************************************************************************)
(* Two tasks, of a kind that is billed and of the one that is not: the      *)
(* others that are billed differ from the first by the name they are        *)
(* entered under.                                                           *)
(***************************************************************************)
EXTENDS AnalyticsTasks

TwoKinds == {Sentiment, Correlation}
=============================================================================
