--------------------------- MODULE MCTokenManager ---------------------------
(* TLC instance of TokenManager: the callers of one kind are interchangeable. *)
EXTENDS TokenManager, TLC

CallersAlike == Permutations(Requests) \cup Permutations(Subs)
=============================================================================
