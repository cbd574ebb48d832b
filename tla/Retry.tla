--------------------------------- MODULE Retry ---------------------------------
(***************************************************************************)
(* What a request may come to and when retry_call sends it again: the       *)
(* classification of ApiError::from_status and from_reqwest, and the        *)
(* condition of retry_call_tracked.                                         *)
(***************************************************************************)
EXTENDS Integers

CONSTANTS
  RetryAttempts,   \* DatabricksClient(retry_attempts=...)
  CanRefresh       \* whether the token provider can bring a new token

\* 401/403; 408/429; 5xx; an answer that breaks off; no answer in time; no
\* connection; any other status.
Failures == {"auth", "throttled", "server_error", "broken", "timeout", "unreachable", "refused"}

\* The server may have done what was asked for.
Ambiguous == {"server_error", "broken", "timeout"}

-----------------------------------------------------------------------------
Transient(failure, idempotent) ==
  failure \in {"auth", "throttled"} \/ (idempotent /\ failure \in {"server_error", "broken"})

Hopeless(failure) == failure = "auth" /\ ~CanRefresh

Retries(failure, idempotent, attempt) ==
  attempt < RetryAttempts /\ Transient(failure, idempotent) /\ ~Hopeless(failure)
=============================================================================
