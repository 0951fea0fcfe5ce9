----------------------------- MODULE MCSqlLabQuery -----------------------------
(* Instances of SqlLabQuery for TLC.  Queries share nothing but code, so one  *)
(* query is enough: the concurrency is between its web request, its worker    *)
(* and the stop requests of its user.                                         *)
EXTENDS SqlLabQuery

CONSTANT q1

\* Every kind of request, with up to three statements (two begin after a stop,
\* the third must not) and limits on both sides of SQL_MAX_ROW = 2.
AllRequests ==
  [async : BOOLEAN, ctas : BOOLEAN, statements : 1..3, limit : {0, 1, 3}, polls : BOOLEAN]

\* Requests whose limit the clamp would not change.
SmallLimitRequests ==
  [async : {TRUE}, ctas : {FALSE}, statements : {1}, limit : {1}, polls : {FALSE}]

\* Synchronous requests.
SyncRequests ==
  [async : {FALSE}, ctas : {FALSE}, statements : {1}, limit : {1}, polls : {FALSE}]
=============================================================================
