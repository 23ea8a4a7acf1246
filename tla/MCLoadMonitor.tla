---------------------------- MODULE MCLoadMonitor ----------------------------
EXTENDS LoadMonitor, TLC

CONSTANTS s1, s2

MCRank == s1 :> 1 @@ s2 :> 2

Light == [Bare(200) EXCEPT !.claim = "5h", !.util5h = 10]

\* Fenced for good, fenced for a while.
Limited == [Bare(200) EXCEPT !.status = "rate_limited", !.reset5h = 1]
Overload == [Bare(429) EXCEPT !.retryAfter = 2, !.status = "other"]

MCGood == {Light}
MCReplies == {Light, Limited, Overload}
=============================================================================
