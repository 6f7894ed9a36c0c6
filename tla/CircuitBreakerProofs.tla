------------------------ MODULE CircuitBreakerProofs ------------------------
(***************************************************************************)
(* The safety properties of CircuitBreaker, proved for any number of       *)
(* requests and any threshold, timeout and number of trial successes.      *)
(*                                                                         *)
(* Two facts have to be carried along to make the properties inductive:    *)
(* the counter covers the streak of failures observed, and the time that   *)
(* last_failure_time stands for is no later than the last failed answer.   *)
(***************************************************************************)
EXTENDS CircuitBreaker, TLAPS

CountCoversStreak == failure_count >= streak
FailureIsDatedBack == since_failure >= since_answer

Inv ==
    /\ TypeOK
    /\ OpenNeedsThreshold
    /\ TrialStartsFresh
    /\ CountCoversStreak
    /\ FailureIsDatedBack

\* A time that grows older stays a time of the model, and the order of two
\* times is kept.
LEMMA OlderFacts ==
    ASSUME NEW d \in 0..Forever, NEW e \in 0..Forever
    PROVE  /\ Older(d) \in 0..Forever
           /\ d >= e => Older(d) >= Older(e)
  BY LimitsAssumption DEF Older, Forever

\* A saturating counter stays within its limit and keeps the order.
LEMMA AtMostFacts ==
    ASSUME NEW limit \in Nat \ {0}, NEW n \in 0..limit, NEW m \in 0..limit
    PROVE  /\ AtMost(n + 1, limit) \in 0..limit
           /\ AtMost(n + 1, limit) > 0
           /\ AtMost(n + 1, limit) >= n
           /\ n >= m => AtMost(n + 1, limit) >= AtMost(m + 1, limit)
  BY DEF AtMost

\* The middleware starts in a state of the invariant.
LEMMA InitInv == Init => Inv
  <1> SUFFICES ASSUME Init PROVE Inv
    OBVIOUS
  <1> USE LimitsAssumption DEF Init
  <1>a. 0 \in 0..Forever /\ Forever \in 0..Forever
    BY DEF Forever
  <1>b. age \in [Request -> 0..Forever]
    BY <1>a
  <1>c. /\ failure_count \in 0..failure_threshold
        /\ half_open_successes \in 0..half_open_requests
        /\ streak \in 0..failure_threshold
    OBVIOUS
  <1>d. pc \in [Request -> {"idle", "calling", "rejected"}]
    OBVIOUS
  <1>e. circuit_open \in BOOLEAN
    OBVIOUS
  <1>f. /\ since_failure \in 0..Forever
        /\ since_answer \in 0..Forever
        /\ since_open \in 0..Forever
    BY <1>a
  <1>1. TypeOK
    BY <1>b, <1>c, <1>d, <1>e, <1>f DEF TypeOK
  <1>2. OpenNeedsThreshold /\ TrialStartsFresh
    BY DEF OpenNeedsThreshold, TrialStartsFresh
  <1>3. CountCoversStreak /\ FailureIsDatedBack
    BY DEF CountCoversStreak, FailureIsDatedBack, Forever
  <1> QED BY <1>1, <1>2, <1>3 DEF Inv

\* Letting a request in, at once or as a trial, keeps the invariant.
LEMMA AdmitInv ==
    ASSUME Inv, NEW r \in Request, Admit(r) \/ HalfOpen(r)
    PROVE  Inv'
  <1> USE LimitsAssumption DEF Inv, code, observed, Admitted
  <1>a. 0 \in 0..Forever
    BY DEF Forever
  <1>b. age' \in [Request -> 0..Forever]
    BY <1>a DEF TypeOK, Admit, HalfOpen
  <1>c. pc' \in [Request -> {"idle", "calling", "rejected"}]
    BY DEF TypeOK, Admit, HalfOpen
  <1>d. circuit_open' \in BOOLEAN
    BY DEF TypeOK, Admit, HalfOpen
  <1>e. half_open_successes' \in 0..half_open_requests
    BY DEF TypeOK, Admit, HalfOpen
  <1>f. UNCHANGED <<failure_count, since_failure, observed>>
    BY DEF Admit, HalfOpen
  <1>1. TypeOK'
    BY <1>b, <1>c, <1>d, <1>e, <1>f DEF TypeOK
  <1>2. OpenNeedsThreshold'
    BY DEF OpenNeedsThreshold, Admit, HalfOpen
  <1>3. TrialStartsFresh'
    BY DEF TrialStartsFresh, Admit, HalfOpen
  <1>4. CountCoversStreak' /\ FailureIsDatedBack'
    BY DEF CountCoversStreak, FailureIsDatedBack, Admit, HalfOpen
  <1> QED BY <1>1, <1>2, <1>3, <1>4

\* A step that leaves the breaker's own state alone keeps the invariant.
LEMMA AsideInv ==
    ASSUME Inv, NEW r \in Request, Reject(r) \/ AnswerCancelled(r) \/ Leave(r)
    PROVE  Inv'
  <1> USE DEF Inv, code, observed, Answered
  <1>1. UNCHANGED <<code, observed, age>>
    BY DEF Reject, AnswerCancelled, Leave
  <1>2. TypeOK'
    BY <1>1 DEF TypeOK, Reject, AnswerCancelled, Leave
  <1>3. OpenNeedsThreshold' /\ TrialStartsFresh'
    BY <1>1 DEF OpenNeedsThreshold, TrialStartsFresh
  <1>4. CountCoversStreak' /\ FailureIsDatedBack'
    BY <1>1 DEF CountCoversStreak, FailureIsDatedBack
  <1> QED BY <1>2, <1>3, <1>4

\* A good answer, on time or late, keeps the invariant.
LEMMA AnswerGoodInv ==
    ASSUME Inv, NEW r \in Request, AnswerGood(r)
    PROVE  Inv'
  <1> USE LimitsAssumption DEF Inv, AnswerGood, Answered, Success
  <1>1. AtMost(half_open_successes + 1, half_open_requests)
            \in 0..half_open_requests
    BY AtMostFacts DEF TypeOK
  <1>2. TypeOK'
    <2>1. failure_count' \in 0..failure_threshold
      BY DEF TypeOK
    <2>2. half_open_successes' \in 0..half_open_requests
      BY <1>1 DEF TypeOK
    <2>3. circuit_open' \in BOOLEAN /\ since_failure' = since_failure
      BY DEF TypeOK
    <2>4. streak' \in 0..failure_threshold
      BY DEF TypeOK
    <2> HIDE DEF Success
    <2> QED BY <2>1, <2>2, <2>3, <2>4 DEF TypeOK
  <1>3. OpenNeedsThreshold'
    BY DEF OpenNeedsThreshold, TypeOK
  <1>4. TrialStartsFresh'
    BY DEF TrialStartsFresh, TypeOK
  <1>5. CountCoversStreak' /\ FailureIsDatedBack'
    BY DEF CountCoversStreak, FailureIsDatedBack, TypeOK
  <1> QED BY <1>2, <1>3, <1>4, <1>5

\* A failed answer keeps the invariant.
LEMMA AnswerFailedInv ==
    ASSUME Inv, NEW r \in Request, AnswerFailed(r)
    PROVE  Inv'
  <1> USE LimitsAssumption DEF Inv, AnswerFailed, Answered, RecordFailure
  <1>1. /\ failure_count' \in 0..failure_threshold
        /\ streak' \in 0..failure_threshold
        /\ failure_count' >= failure_count
        /\ failure_count' >= streak'
    BY AtMostFacts DEF TypeOK, CountCoversStreak
  <1>2. TypeOK'
    BY <1>1 DEF TypeOK, Forever
  <1>3. OpenNeedsThreshold'
    BY <1>1 DEF OpenNeedsThreshold, TypeOK
  <1>4. TrialStartsFresh'
    BY <1>1 DEF TrialStartsFresh
  <1>5. CountCoversStreak' /\ FailureIsDatedBack'
    BY <1>1 DEF CountCoversStreak, FailureIsDatedBack, TypeOK
  <1> QED BY <1>2, <1>3, <1>4, <1>5

\* Time keeps the invariant.
LEMMA TickInv ==
    ASSUME Inv, Tick
    PROVE  Inv'
  <1> USE LimitsAssumption DEF Inv, Tick
  <1>1. /\ since_failure' \in 0..Forever
        /\ since_answer' \in 0..Forever
        /\ since_open' \in 0..Forever
        /\ since_failure' >= since_answer'
    BY OlderFacts DEF TypeOK, FailureIsDatedBack
  <1>2. age' \in [Request -> 0..Forever]
    <2>1. \A r \in Request : Older(age[r]) \in 0..Forever
      BY OlderFacts DEF TypeOK
    <2> QED BY <2>1 DEF Forever
  <1>3. TypeOK'
    BY <1>1, <1>2 DEF TypeOK, Forever
  <1>4. OpenNeedsThreshold' /\ TrialStartsFresh'
    BY DEF OpenNeedsThreshold, TrialStartsFresh
  <1>5. CountCoversStreak' /\ FailureIsDatedBack'
    BY <1>1 DEF CountCoversStreak, FailureIsDatedBack
  <1> QED BY <1>3, <1>4, <1>5

\* Every step of the module keeps the invariant.
LEMMA NextInv == Inv /\ [Next]_vars => Inv'
  <1> SUFFICES ASSUME Inv, [Next]_vars PROVE Inv'
    OBVIOUS
  <1>1. ASSUME NEW r \in Request, Arrive(r) PROVE Inv'
    BY <1>1, AdmitInv, AsideInv DEF Arrive
  <1>2. ASSUME NEW r \in Request, Answer(r) PROVE Inv'
    BY <1>2, AnswerGoodInv, AnswerFailedInv, AsideInv DEF Answer
  <1>3. ASSUME NEW r \in Request, Leave(r) PROVE Inv'
    BY <1>3, AsideInv
  <1>4. CASE UNCHANGED vars
    BY <1>4 DEF vars, code, observed, Inv, TypeOK, OpenNeedsThreshold,
                TrialStartsFresh, CountCoversStreak, FailureIsDatedBack
  <1> QED BY <1>1, <1>2, <1>3, <1>4, TickInv DEF Next

-----------------------------------------------------------------------------
\* The invariant holds in every reachable state.
THEOREM BreakerInvariant == Spec => []Inv
  BY InitInv, NextInv, PTL DEF Spec

\* Every variable stays in its range, with counters and times that saturate.
THEOREM TypeCorrect == Spec => []TypeOK
  BY BreakerInvariant, PTL DEF Inv

\* While the circuit is open, failure_threshold failures stand on its count.
THEOREM OpenIsEarned == Spec => []OpenNeedsThreshold
  BY BreakerInvariant, PTL DEF Inv

\* The half-open phase starts, and stays, with no success counted.
THEOREM FreshTrial == Spec => []TrialStartsFresh
  BY BreakerInvariant, PTL DEF Inv

\* failure_threshold failed answers in a row leave the circuit open, whatever
\* happened before and whichever requests they answer.
THEOREM StreakOpensCircuit == Spec => StreakOpens
  <1>1. ASSUME Inv, [Next]_vars
        PROVE  [Failed /\ streak' >= failure_threshold => circuit_open']_vars
    <2>1. SUFFICES ASSUME NEW r \in Request, AnswerFailed(r),
                          streak' >= failure_threshold
                   PROVE  circuit_open'
      BY DEF Failed
    <2>2. Inv'
      BY <2>1, <1>1, AnswerFailedInv
    <2>3. failure_count' >= failure_threshold
      BY <2>1, <2>2, LimitsAssumption DEF Inv, TypeOK, CountCoversStreak
    <2> QED BY <2>1, <2>3 DEF AnswerFailed, RecordFailure
  <1> QED BY <1>1, BreakerInvariant, PTL DEF Spec, StreakOpens

\* A request is rejected only within reset_timeout of a failed answer.
THEOREM RejectionIsRecent == Spec => RejectsOnlyAfterFailure
  <1>1. ASSUME Inv
        PROVE  [\A r \in Request :
                    Reject(r) => since_answer <= reset_timeout]_vars
    <2>1. SUFFICES ASSUME NEW r \in Request, Reject(r)
                   PROVE  since_answer <= reset_timeout
      OBVIOUS
    <2> QED
      BY <2>1, <1>1, LimitsAssumption
      DEF Reject, Elapsed, Inv, TypeOK, FailureIsDatedBack, Forever
  <1> QED BY <1>1, BreakerInvariant, PTL DEF Spec, RejectsOnlyAfterFailure
=============================================================================
