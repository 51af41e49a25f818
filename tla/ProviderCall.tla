---------------------------- MODULE ProviderCall ----------------------------
(***************************************************************************)
(* callProvider: a call to a platform, made in attempts.  Each attempt is  *)
(* given a time limit, and its failure decides whether there is another    *)
(* one and after what delay.  Reads are replayed, writes are not.          *)
(*                                                                         *)
(* An attempt that is over its limit goes on at the platform, and its      *)
(* answer is dropped.                                                      *)
(***************************************************************************)
EXTENDS Naturals

CONSTANTS
    Callers,                          \* those that call the platform
    MaxAttempts, BaseDelay, MaxDelay, \* the retry policy
    ProviderTimeout,                  \* timeoutMs
    RetryAfters,                      \* the delays a platform may ask for
    NoGuidance                        \* a rate limit without a delay

ASSUME ProviderAssumptions ==
    /\ MaxAttempts \in Nat \ {0}
    /\ BaseDelay \in Nat /\ MaxDelay \in Nat /\ ProviderTimeout \in Nat
    /\ RetryAfters \subseteq Nat
    /\ NoGuidance \notin Nat

VARIABLES
    calling,   \* per caller, its call under way
    sent       \* per caller, how many writes have left the process

providerVars == <<calling, sent>>

Policies == {"read", "write"}

\* What an attempt fails with.  A timeout is "unavailable", as is a transport error.
Errors ==
    [kind : {"unavailable", "rejected"}, retryAfter : {NoGuidance}]
      \union [kind : {"rate_limited"}, retryAfter : RetryAfters \union {NoGuidance}]

NoCallUnderWay == [step |-> "none", policy |-> "read", attempt |-> 0, took |-> 0]

ProviderInit ==
    /\ calling = [c \in Callers |-> NoCallUnderWay]
    /\ sent = [c \in Callers |-> 0]

-----------------------------------------------------------------------------
ShouldRetryRateLimits(policy, error) ==                            \* mutant
    error.kind = "rate_limited" \/ (policy = "read" /\ error.kind # "rejected")
ShouldRetry(policy, error) == policy = "read" /\ error.kind # "rejected"

Least(a, b) == IF a <= b THEN a ELSE b

PowerOfTwo[n \in Nat] == IF n = 0 THEN 1 ELSE 2 * PowerOfTwo[n - 1]

BackoffDelay(attempt) == Least(BaseDelay * PowerOfTwo[attempt - 1], MaxDelay)

\* The platform's own delay, or else the backoff.
AskedDelay(error, attempt) ==
    IF error.kind = "rate_limited" /\ error.retryAfter # NoGuidance
    THEN error.retryAfter ELSE BackoffDelay(attempt)

\* The delays the next attempt may come after: none if there is none.
RetryDelayUncapped(policy, error, attempt) ==                      \* mutant
    {d \in {AskedDelay(error, attempt)} : attempt < MaxAttempts /\ ShouldRetry(policy, error)}
RetryDelayOnceMore(policy, error, attempt) ==                      \* mutant
    {d \in {AskedDelay(error, attempt)} :
        attempt <= MaxAttempts /\ ShouldRetry(policy, error) /\ d <= MaxDelay}
RetryDelayFor(policy, error, attempt) ==
    {d \in {AskedDelay(error, attempt)} :
        attempt < MaxAttempts /\ ShouldRetry(policy, error) /\ d <= MaxDelay}

-----------------------------------------------------------------------------
\* took is the time the call may take up to what it now waits for, each wait at
\* its limit.
SendAttempt(c, policy, attempt, took) ==
    /\ calling' = [calling EXCEPT ![c] = [step |-> "attempt", policy |-> policy,
                                          attempt |-> attempt, took |-> took + ProviderTimeout]]
    /\ sent' = IF policy = "write" THEN [sent EXCEPT ![c] = @ + 1] ELSE sent

StartCall(c, policy) == SendAttempt(c, policy, 1, 0)

EndCall(c, result) ==
    /\ calling' = [calling EXCEPT ![c].step = result]
    /\ UNCHANGED sent

AttemptSucceeds(c) ==
    /\ calling[c].step = "attempt"
    /\ EndCall(c, "answered")

\* The attempt fails, or is given up after its time limit: the call sleeps
\* before the next one, or fails.
AttemptFails(c, error) ==
    LET delays == RetryDelayFor(calling[c].policy, error, calling[c].attempt)
    IN  /\ calling[c].step = "attempt"
        /\ \/ delays = {} /\ EndCall(c, "failed")
           \/ /\ \E d \in delays :
                   calling' = [calling EXCEPT ![c].step = "sleep", ![c].took = @ + d]
              /\ UNCHANGED sent

NextAttempt(c) ==
    /\ calling[c].step = "sleep"
    /\ SendAttempt(c, calling[c].policy, calling[c].attempt + 1, calling[c].took)

ProviderStep(c) ==
    \/ AttemptSucceeds(c)
    \/ \E error \in Errors : AttemptFails(c, error)
    \/ NextAttempt(c)
=============================================================================
