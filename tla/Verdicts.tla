-------------------------------- MODULE Verdicts --------------------------------
(***************************************************************************)
(* verifyCredentials of both provider adapters: what is read into a        *)
(* provider's reply to a call made with a new access token.                *)
(***************************************************************************)
EXTENDS Naturals

\* Status 0: no answer at all.  html: a block page of the provider's edge.
Reply == [status : {0, 200, 401, 403, 404, 429, 500, 529}, html : BOOLEAN]

Success(status) == status \in 200..299
Refusal(status) == status \in {401, 403}

\* Only a token that the provider accepts is served, or limited as a user's.
Replies(good) ==
  {reply \in Reply : Success(reply.status) \/ reply.status \in {429, 529} => good}

AnthropicVerdict(reply) ==
  CASE Refusal(reply.status) -> "invalid"
    [] Success(reply.status) \/ reply.status \in {429, 529} -> "valid"
    [] OTHER -> "inconclusive"

\* A token without the chatgpt_account_id claim is not tried; a block page is no
\* word on the token.
OpenAiVerdict(claimed, reply) ==
  CASE ~claimed \/ (Refusal(reply.status) /\ ~reply.html) -> "invalid"
    [] claimed /\ Success(reply.status) -> "valid"
    [] OTHER -> "inconclusive"

\* What a link may hear of a token that the provider accepts, or does not.
Verdicts(good) ==
  {AnthropicVerdict(reply) : reply \in Replies(good)}
    \cup {OpenAiVerdict(claimed, reply) : claimed \in BOOLEAN, reply \in Replies(good)}
=============================================================================
