------------------------------- MODULE MCProxy -------------------------------
EXTENDS Proxy, TLC

CONSTANTS s1, s2, s3, own, donor

\* One pool of two subscriptions; a third of another pool and provider.
TwoRank == s1 :> 2 @@ s2 :> 1
TwoPool == s1 :> own @@ s2 :> own
TwoProvider == s1 :> "anthropic" @@ s2 :> "anthropic"

ThreeRank == s1 :> 2 @@ s2 :> 1 @@ s3 :> 3
ThreePool == TwoPool @@ s3 :> donor
ThreeProvider == TwoProvider @@ s3 :> "openai"

\* A served request, an overload and a dead access token, by their headers.
Light(http) == [Bare(http) EXCEPT !.claim = "5h", !.util5h = 10]
Overload == [Bare(429) EXCEPT !.retryAfter = 1]

RequestsAlike == Permutations(Requests)

MCReplies == {Light(200), [Light(401) EXCEPT !.status = "other"], Overload}
=============================================================================
