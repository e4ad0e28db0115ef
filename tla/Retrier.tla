------------------------------ MODULE Retrier -------------------------------
(***************************************************************************)
(* retry.Retrier, the loop both retry levels of the executor are built     *)
(* from.  Errors are reduced to what errors.As and errors.Is tell apart;   *)
(* the loop is given by the decision it takes at its head and after a      *)
(* failed attempt: "run" the work (again) or return an error.              *)
(***************************************************************************)
EXTENDS Naturals

CONSTANT NoPolicy   \* a nil *retry.Retrier: the work runs exactly once

Policies == Nat \cup {NoPolicy}   \* MaxRetries, or no policy

\* What an attempt or a loop can end with:
\*   infra      BeginTx, Claim, WriteMessages, WriteTx or Commit failed
\*   userRetry  user code returned retry.AsRetryable(err)
\*   userPerm   user code returned any other error
\*   dup        inbox.ErrDuplicate
\*   ctx        the context was cancelled
\*   exhausted  ErrMaxRetriesExceeded without a last error
UserErrors == {"userRetry", "userPerm"}
Errors == {"infra", "dup", "ctx", "exhausted"} \cup UserErrors

\* errors.As(err, &retryable).  actionError has an Unwrap method, so it does
\* not hide a RetryableError of the user from the infrastructure retrier;
\* ErrMaxRetriesExceeded wraps the last error and stays retryable too.
Retryable(e) == e \in {"infra", "userRetry"}

\* The top of the loop: cancellation first, then the budget of attempts.
LoopHead(max, retries, last, cancelled) ==
    IF cancelled THEN "ctx"
    ELSE IF retries < max THEN "run"
    ELSE IF last = "none" THEN "exhausted" ELSE last

\* Entering the loop, or running the work directly when there is no policy.
EnterLoop(policy, cancelled) ==
    IF policy = NoPolicy THEN "run" ELSE LoopHead(policy, 0, "none", cancelled)

\* What follows an attempt that failed with err after `retries` retries.  A
\* cancellation during the sleep returns the context's error, as the loop
\* head does.
AfterFailure(policy, retries, err, cancelled) ==
    IF policy = NoPolicy \/ ~Retryable(err) THEN err
    ELSE LoopHead(policy, retries + 1, err, cancelled)

=============================================================================
