------------------------------ MODULE RateLimit ------------------------------
(***************************************************************************)
(* Load snapshots and how an upstream response becomes one: the unified    *)
(* rate-limit headers, each absent or malformed one read as None, and the  *)
(* cooldown deadline of a 429 or a rate_limited status.                    *)
(*                                                                         *)
(* A utilization is an integer percentage and the clock counts ticks,      *)
(* Second of them to the second (1000 in the program).                     *)
(***************************************************************************)
EXTENDS Integers

CONSTANTS
  None,            \* an undefined field, and the snapshot that was never taken
  Second,          \* clock ticks per second
  DefaultCooldown  \* DEFAULT_COOLDOWN_MS, in ticks

ASSUME RateLimitAssumption ==
  /\ Second \in Nat \ {0}
  /\ DefaultCooldown \in Nat
  /\ None \notin Int

OptInt == Int \cup {None}
UnifiedStatus == {"allowed", "rate_limited", None}
RawStatus == UnifiedStatus \cup {"other"}   \* the header may say anything
Claim == {"5h", "7d", None}

\* What the headers of a response say, once numOrUndefined has read them.
Reply == [http : Nat, status : RawStatus, claim : Claim,
          util5h : OptInt, reset5h : OptInt, util7d : OptInt, reset7d : OptInt,
          retryAfter : OptInt]

\* The fields of a persisted sample that a reader looks at.
Snapshot == [status : UnifiedStatus, claim : Claim,
             util5h : OptInt, reset5h : OptInt, util7d : OptInt, reset7d : OptInt,
             cooldown : OptInt]

RepresentativeReset(r) == IF r.claim = "7d" THEN r.reset7d ELSE r.reset5h

\* computeCooldown: retry-after counts on a 429 only.
Cooldown(reply, now) ==
  LET reset == RepresentativeReset(reply) IN
  IF reply.http # 429 /\ reply.status # "rate_limited" THEN None
  ELSE IF reply.http = 429 /\ reply.retryAfter # None
       THEN now + reply.retryAfter * Second
  ELSE IF reset # None THEN reset * Second
  ELSE now + DefaultCooldown


\* unifiedStatus: a status the program does not know is no status.
KnownStatus(raw) == IF raw \in {"allowed", "rate_limited"} THEN raw ELSE None

ParseRateLimitHeaders(reply, now) ==
  [status |-> KnownStatus(reply.status), claim |-> reply.claim,
   util5h |-> reply.util5h, reset5h |-> reply.reset5h,
   util7d |-> reply.util7d, reset7d |-> reply.reset7d,
   cooldown |-> Cooldown(reply, now)]

\* A response without rate-limit headers.
Bare(http) ==
  [http |-> http, status |-> None, claim |-> None,
   util5h |-> None, reset5h |-> None, util7d |-> None, reset7d |-> None,
   retryAfter |-> None]
=============================================================================
