--------------------------- MODULE CircuitBreaker ---------------------------
(***************************************************************************)
(* CircuitBreakerMiddleware of libs/exception_middleware.py around the     *)
(* GlobalExceptionMiddleware it wraps.                                     *)
(*                                                                         *)
(* Requests of one event loop interleave at `await call_next(request)`:    *)
(* the code before it and the code after it are one step each.  A request  *)
(* keeps the `now` it read on arrival and records a failure under that     *)
(* stale time.                                                             *)
(*                                                                         *)
(* The code compares times only by `now - last_failure_time >              *)
(* reset_timeout` and counters only by `>= failure_threshold` and          *)
(* `>= half_open_requests`.  Ages that saturate at reset_timeout + 1 and   *)
(* counters that saturate at their limit answer these comparisons exactly, *)
(* so the module needs no bound on time or on the number of failures.      *)
(* time.time() is taken not to go backwards.                               *)
(***************************************************************************)
EXTENDS Naturals

CONSTANTS
    Request,             \* concurrent requests, each may be sent again
    failure_threshold,   \* 10 in app_factory.py
    reset_timeout,       \* 60.0 there, in ticks here
    half_open_requests   \* 3

ASSUME LimitsAssumption ==
    /\ failure_threshold \in Nat \ {0}
    /\ reset_timeout \in Nat
    /\ half_open_requests \in Nat \ {0}

VARIABLES
    failure_count,        \* saturates at failure_threshold
    since_failure,        \* time.time() - last_failure_time
    circuit_open,
    half_open_successes,  \* saturates at half_open_requests
    pc,                   \* "idle", "calling" (awaits call_next) or "rejected"
    age,                  \* time.time() - now, for each request's `now`
    streak,               \* failed answers since the last good one (observed)
    since_answer,         \* time since the last failed answer (observed)
    since_open            \* time since the circuit opened (observed)

code == <<failure_count, since_failure, circuit_open, half_open_successes>>
observed == <<streak, since_answer, since_open>>
vars == <<code, pc, age, observed>>

Forever == reset_timeout + 1     \* any time longer than reset_timeout
Older(d) == IF d < Forever THEN d + 1 ELSE Forever
AtMost(n, limit) == IF n < limit THEN n ELSE limit

Init ==
    /\ failure_count = 0
    /\ since_failure = Forever
    /\ circuit_open = FALSE
    /\ half_open_successes = 0
    /\ pc = [r \in Request |-> "idle"]
    /\ age = [r \in Request |-> 0]
    /\ streak = 0
    /\ since_answer = Forever
    /\ since_open = Forever

-----------------------------------------------------------------------------
(* dispatch, up to call_next *)

Elapsed == since_failure > reset_timeout

Admitted(r) ==
    /\ pc' = [pc EXCEPT ![r] = "calling"]
    /\ age' = [age EXCEPT ![r] = 0]

Admit(r) ==
    /\ pc[r] = "idle"
    /\ ~circuit_open
    /\ Admitted(r)
    /\ UNCHANGED <<code, observed>>

\* Mutants: half_open_successes is kept, failure_count is reset.
HalfOpenKeepsSuccesses(r) ==
    /\ pc[r] = "idle"
    /\ circuit_open
    /\ Elapsed
    /\ circuit_open' = FALSE
    /\ Admitted(r)
    /\ UNCHANGED <<failure_count, since_failure, half_open_successes, observed>>
HalfOpenForgets(r) ==
    /\ pc[r] = "idle"
    /\ circuit_open
    /\ Elapsed
    /\ circuit_open' = FALSE
    /\ half_open_successes' = 0
    /\ failure_count' = 0
    /\ Admitted(r)
    /\ UNCHANGED <<since_failure, observed>>

\* "Half-open" is a closed circuit with failure_count left at the threshold.
HalfOpen(r) ==
    /\ pc[r] = "idle"
    /\ circuit_open
    /\ Elapsed
    /\ circuit_open' = FALSE
    /\ half_open_successes' = 0
    /\ Admitted(r)
    /\ UNCHANGED <<failure_count, since_failure, observed>>

\* Mutant: a rejected request counts as a failure.
RejectRefreshes(r) ==
    /\ pc[r] = "idle"
    /\ circuit_open
    /\ ~Elapsed
    /\ pc' = [pc EXCEPT ![r] = "rejected"]
    /\ since_failure' = 0
    /\ UNCHANGED <<failure_count, circuit_open, half_open_successes, age,
                   observed>>

\* 503, "circuit open".
Reject(r) ==
    /\ pc[r] = "idle"
    /\ circuit_open
    /\ ~Elapsed
    /\ pc' = [pc EXCEPT ![r] = "rejected"]
    /\ UNCHANGED <<code, age, observed>>

-----------------------------------------------------------------------------
(* dispatch, after call_next *)

\* How the application under both middlewares ends, and what the call_next of
\* the circuit breaker sees of it: GlobalExceptionMiddleware answers 500 to an
\* Exception and 503 to a MemoryError and lets CancelledError through.
Outcome == {"below500", "from500", "Exception", "MemoryError", "CancelledError"}
GlobalException(o) == IF o \in {"Exception", "MemoryError"} THEN "from500" ELSE o

Answered(r) == pc[r] = "calling" /\ pc' = [pc EXCEPT ![r] = "idle"]

\* Mutants: a good answer takes one failure back; it resets failure_count
\* although the circuit is open.
SuccessTakesOneBack ==
    /\ failure_count' = failure_count - 1
    /\ UNCHANGED <<since_failure, circuit_open, half_open_successes>>
SuccessAlwaysResets ==
    /\ failure_count' = 0
    /\ UNCHANGED <<since_failure, circuit_open, half_open_successes>>

\* status_code < 500.  With the circuit open this is the late answer of a
\* request that was admitted before it opened.
Success ==
    LET successes == AtMost(half_open_successes + 1, half_open_requests)
    IN  \/ /\ ~circuit_open
           /\ failure_count' = 0
           /\ UNCHANGED <<since_failure, circuit_open, half_open_successes>>
        \/ /\ circuit_open
           /\ half_open_successes' = successes
           /\ IF successes >= half_open_requests
              THEN circuit_open' = FALSE /\ failure_count' = 0
              ELSE UNCHANGED <<circuit_open, failure_count>>
           /\ UNCHANGED since_failure

\* _record_failure(now), with the `now` of the request's arrival.
RecordFailure(r) ==
    /\ failure_count' = AtMost(failure_count + 1, failure_threshold)
    /\ since_failure' = age[r]
    /\ circuit_open' = (circuit_open \/ failure_count' >= failure_threshold)
    /\ UNCHANGED half_open_successes

AnswerGood(r) ==
    /\ Answered(r)
    /\ Success
    /\ streak' = 0
    /\ UNCHANGED <<age, since_answer, since_open>>

AnswerFailed(r) ==
    /\ Answered(r)
    /\ RecordFailure(r)
    /\ streak' = AtMost(streak + 1, failure_threshold)
    /\ since_answer' = 0
    /\ since_open' = IF ~circuit_open /\ circuit_open' THEN 0 ELSE since_open
    /\ UNCHANGED age

\* CancelledError is no Exception: nothing is recorded.
AnswerCancelled(r) ==
    /\ Answered(r)
    /\ UNCHANGED <<code, age, observed>>

Answer(r) ==
    \E o \in Outcome :
        \/ GlobalException(o) = "below500" /\ AnswerGood(r)
        \/ GlobalException(o) = "from500" /\ AnswerFailed(r)
        \/ GlobalException(o) = "CancelledError" /\ AnswerCancelled(r)

\* The client has its 503.
Leave(r) ==
    /\ pc[r] = "rejected"
    /\ pc' = [pc EXCEPT ![r] = "idle"]
    /\ UNCHANGED <<code, age, observed>>

Tick ==
    /\ since_failure' = Older(since_failure)
    /\ age' = [r \in Request |-> IF pc[r] = "calling" THEN Older(age[r]) ELSE 0]
    /\ since_answer' = Older(since_answer)
    /\ since_open' = Older(since_open)
    /\ UNCHANGED <<failure_count, circuit_open, half_open_successes, pc, streak>>

Arrive(r) == Admit(r) \/ HalfOpen(r) \/ Reject(r)

Next ==
    \/ \E r \in Request : Arrive(r) \/ Answer(r) \/ Leave(r)
    \/ Tick

Spec == Init /\ [][Next]_vars

\* Time passes.  Nobody is obliged to send a request or to answer one.
FairSpec == Spec /\ WF_vars(Tick)

-----------------------------------------------------------------------------
(* Properties *)

\* Each variable stays in its range.
TypeOK ==
    /\ failure_count \in 0..failure_threshold
    /\ since_failure \in 0..Forever
    /\ circuit_open \in BOOLEAN
    /\ half_open_successes \in 0..half_open_requests
    /\ pc \in [Request -> {"idle", "calling", "rejected"}]
    /\ age \in [Request -> 0..Forever]
    /\ streak \in 0..failure_threshold
    /\ since_answer \in 0..Forever
    /\ since_open \in 0..Forever

\* An open circuit has counted failure_threshold failures, whatever late
\* answers of earlier requests arrive while it is open: the count is never
\* reset without closing the circuit.
OpenNeedsThreshold == circuit_open => failure_count >= failure_threshold

\* The half-open state (closed, with the count still at the threshold) is
\* entered and stays with no success counted: late successes of the open
\* phase before it do not count for it.
TrialStartsFresh ==
    ~circuit_open /\ failure_count >= failure_threshold =>
        half_open_successes = 0

\* A request is answered with a failure in this step.
Failed == \E r \in Request : AnswerFailed(r)

\* However failures, late answers and half-open phases interleave, the answer
\* that makes failure_threshold failures in a row leaves the circuit open; in
\* particular a failure of the first trial request opens it again.
StreakOpens ==
    [][Failed /\ streak' >= failure_threshold => circuit_open']_vars

\* A request is rejected only within reset_timeout of a failed answer: the
\* stale time a slow request records never prolongs the rejection.
RejectsOnlyAfterFailure ==
    [][\A r \in Request : Reject(r) => since_answer <= reset_timeout]_vars

\* If requests keep arriving, an open circuit lets one through again.
StaysReachable ==
    []<><<\E r \in Request : Arrive(r)>>_vars => (circuit_open ~> ~circuit_open)

\* app_factory.py: the circuit breaker "opens after 10 failures, resets after
\* 60s".  No request is let through an open circuit before reset_timeout has
\* passed since it opened.
ResetsAfterTimeout ==
    [][\A r \in Request : circuit_open /\ HalfOpen(r) =>
          since_open >= reset_timeout]_vars
=============================================================================
