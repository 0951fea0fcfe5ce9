--------------------------------- MODULE MCBilling ---------------------------------
(* Instances of Billing for TLC.                                              *)
EXTENDS Billing, TLC

CONSTANTS s1, s2, r1, r2, c1, c2

OneSub == {s1}
TwoSubs == {s1, s2}
SecondSub == {s2}
OneRequest == {r1}
TwoRequests == {r1, r2}
OneCancel == {c1}
TwoCancels == {c1, c2}
Nobody == {}

\* The requests are alike, and so are the cancellations.
Alike == Permutations(TwoRequests) \cup Permutations(TwoCancels)
=============================================================================
