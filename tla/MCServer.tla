------------------------------- MODULE MCServer -------------------------------
EXTENDS Server, TLC

CONSTANTS k1, k2

\* The first key, the second beside it, the second alone, no key.
MCRings == {1 :> k1, 1 :> k1 @@ 2 :> k2, 2 :> k2, <<>>}
=============================================================================
