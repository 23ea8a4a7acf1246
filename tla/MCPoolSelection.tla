--------------------------- MODULE MCPoolSelection ---------------------------
EXTENDS PoolSelection, TLC

CONSTANTS s1, s2

MCRank2 == s1 :> 2 @@ s2 :> 1

Ok(claim, five, seven) ==
  [Bare(200) EXCEPT !.status = "allowed", !.claim = claim,
                    !.util5h = five, !.util7d = seven]

\* Headers of a 200: mid load but for the in-flight bias, busy in the other
\* window only, near-full at the boundary and just below it, idle and out of range.
Allowed == {Ok("5h", 48, 99), Ok("7d", 98, 97), Ok(None, 10, 98), Ok(None, 120, None),
            Ok("5h", 97, None), Ok("5h", -3, 40)}

\* Rate-limited answers: a deadline of its own, the window's reset, neither.
Limited ==
  {[Bare(429) EXCEPT !.retryAfter = 2],
   [Bare(429) EXCEPT !.reset5h = 3],
   [Bare(429) EXCEPT !.claim = "7d", !.reset5h = 1, !.reset7d = 0],
   [Bare(429) EXCEPT !.claim = "5h", !.util5h = 99, !.reset5h = 1, !.retryAfter = 1],
   [Bare(200) EXCEPT !.status = "rate_limited", !.claim = "7d", !.reset7d = 1]}

MCReplies == Allowed \cup Limited \cup {[Bare(500) EXCEPT !.status = "other"]}
=============================================================================
