------------------------ MODULE CircuitBreakerProofs ------------------------
(***************************************************************************)
(* Theorems about CircuitBreaker, for any calls, threshold, reset period   *)
(* and number of restarts.                                                 *)
(***************************************************************************)
EXTENDS CircuitBreaker, TLAPS

USE BreakerAssumption

LEMMA NothingFacts ==
    /\ Closed \in Breakers /\ Fits(Closed) /\ Idle \in Calls /\ Nothing \in Promises
    /\ Honours(Closed, Nothing)
BY DEF Closed, Breakers, Fits, Idle, Calls, Nothing, Promises, Honours

LEMMA SeenFacts ==
    ASSUME NEW b \in Breakers, Fits(b)
    PROVE  /\ Seen(b) \in Breakers /\ Fits(Seen(b))
           /\ Stored(b) \in Breakers /\ Fits(Stored(b))
           /\ Older(b) \in Breakers /\ Fits(Older(b))
<1>1. Seen(b) \in Breakers /\ Fits(Seen(b))
  BY DEF Seen, Breakers, Fits
<1>2. Stored(b) \in Breakers /\ Fits(Stored(b))
  BY DEF Stored, Breakers, Fits
<1> DEFINE age == IF b.age = None THEN None ELSE Least(b.age + 1, Reset)
<1>3. age \in 0..Reset \cup {None} /\ (b.age # None => age # None)
  BY DEF Breakers, Least
<1>4. Older(b) = [b EXCEPT !.age = age]
  BY DEF Older
<1>5. HIDE DEF age
<1>6. Older(b) \in Breakers /\ Fits(Older(b))
  BY <1>3, <1>4 DEF Breakers, Fits
<1>7. QED
  BY <1>1, <1>2, <1>6

LEMMA FailedFacts ==
    ASSUME NEW b \in Breakers, Fits(b)
    PROVE  /\ Failed(b) \in Breakers /\ Fits(Failed(b))
           /\ Failed(b).failures = Least(b.failures + 1, Threshold)
<1> DEFINE n == Least(b.failures + 1, Threshold)
<1>1. n \in 0..Threshold /\ (b.failures = Threshold => n = Threshold)
  BY DEF Breakers, Least
<1>2. CASE b.state = "half_open" \/ n >= Threshold
  <2>1. Failed(b) = [state |-> "open", failures |-> n, age |-> 0] /\ n = Threshold
    BY <1>1, <1>2 DEF Failed, Fits, Breakers
  <2>2. QED
    BY <1>1, <2>1 DEF Breakers, Fits
<1>3. CASE ~(b.state = "half_open" \/ n >= Threshold)
  <2>1. Failed(b) = [b EXCEPT !.failures = n] /\ n < Threshold
    BY <1>1, <1>3 DEF Failed
  <2>2. b.state = "closed"
    BY <1>1, <1>3 DEF Fits, Breakers
  <2>3. HIDE DEF n
  <2>4. QED
    BY <1>1, <2>1, <2>2 DEF Breakers, Fits, n
<1>4. QED
  BY <1>2, <1>3

LEMMA PromiseFacts ==
    ASSUME NEW p \in Promises
    PROVE  Broken(p) \in Promises /\ Waited(p) \in Promises
BY DEF Promises, Broken, Waited, Least

\* Honouring the promise is kept by looking, storing, failing and waiting.
LEMMA HonoursSeen ==
    ASSUME NEW b \in Breakers, NEW p \in Promises, Honours(b, p)
    PROVE  Honours(Seen(b), p) /\ Honours(Stored(b), p)
BY DEF Breakers, Promises, Honours, Seen, Stored, Elapsed

LEMMA HonoursFailed ==
    ASSUME NEW b \in Breakers, NEW p \in Promises, Fits(b), Honours(b, p)
    PROVE  Honours(Failed(b), Broken(p))
BY DEF Breakers, Promises, Fits, Honours, Failed, Broken, Least

LEMMA HonoursOlder ==
    ASSUME NEW b \in Breakers, NEW p \in Promises, Fits(b), Honours(b, p)
    PROVE  Honours(Older(b), Waited(p))
BY DEF Breakers, Promises, Fits, Honours, Older, Waited, Least

-----------------------------------------------------------------------------
LEMMA InitInv == Init => BreakerInv
<1> SUFFICES ASSUME Init PROVE BreakerInv
  OBVIOUS
<1>1. TypeOK
  BY NothingFacts DEF Init, TypeOK
<1>2. QED
  BY <1>1, NothingFacts DEF Init, BreakerInv, StateMatchesCount

LEMMA CallsKept ==
    ASSUME calls \in [Call -> Calls], NEW c \in Call,
           NEW pc \in {"idle", "checked", "working", "failing", "done"}
    PROVE  /\ [calls EXCEPT ![c].pc = pc] \in [Call -> Calls]
           /\ [calls EXCEPT ![c] = Idle] \in [Call -> Calls]
           /\ [calls EXCEPT ![c] = [pc |-> pc, test |-> Seen(breaker).state = "half_open"]]
                 \in [Call -> Calls]
BY NothingFacts DEF Calls

\* A step whose breaker, store and promises fit each other again.
LEMMA Assembled ==
    ASSUME breaker' \in Breakers, saved' \in Breakers, Fits(breaker'), Fits(saved'),
           calls' \in [Call -> Calls], up' \in BOOLEAN, restarts' \in 0..MaxRestarts,
           promise' \in Promises, kept' \in Promises,
           Honours(breaker', promise'), Honours(saved', kept')
    PROVE  BreakerInv'
BY DEF BreakerInv, TypeOK, StateMatchesCount, Fits, Honours

LEMMA SaveFacts ==
    ASSUME BreakerInv
    PROVE  /\ Seen(breaker) \in Breakers /\ Fits(Seen(breaker))
           /\ Stored(Seen(breaker)) \in Breakers /\ Fits(Stored(Seen(breaker)))
           /\ Honours(Seen(breaker), promise)
           /\ Honours(Stored(Seen(breaker)), promise)
<1>1. breaker \in Breakers /\ Fits(breaker) /\ promise \in Promises
  BY DEF BreakerInv, TypeOK, StateMatchesCount
<1>2. Seen(breaker) \in Breakers /\ Fits(Seen(breaker))
  BY <1>1, SeenFacts
<1>3. Stored(Seen(breaker)) \in Breakers /\ Fits(Stored(Seen(breaker)))
  BY <1>2, SeenFacts
<1>4. Honours(Seen(breaker), promise) /\ Honours(Stored(Seen(breaker)), promise)
  <2>1. Honours(Seen(breaker), promise)
    BY <1>1, HonoursSeen DEF BreakerInv
  <2>2. QED
    BY <1>1, <1>2, <2>1, HonoursSeen
<1>5. QED
  BY <1>2, <1>3, <1>4

LEMMA StepInv == BreakerInv /\ [Next]_vars => BreakerInv'
<1> SUFFICES ASSUME BreakerInv, [Next]_vars PROVE BreakerInv'
  OBVIOUS
<1>0. /\ breaker \in Breakers /\ saved \in Breakers /\ Fits(breaker) /\ Fits(saved)
      /\ calls \in [Call -> Calls] /\ up \in BOOLEAN /\ restarts \in 0..MaxRestarts
      /\ promise \in Promises /\ kept \in Promises
      /\ Honours(breaker, promise) /\ Honours(saved, kept)
  BY DEF BreakerInv, TypeOK, StateMatchesCount
<1>1. [c \in Call |-> Idle] \in [Call -> Calls]
  BY NothingFacts
<1>2. CASE Look
  BY <1>0, <1>2, SaveFacts, Assembled DEF Look
<1>3. CASE RecordUsage
  BY <1>0, <1>3, SaveFacts, Assembled DEF RecordUsage, Save
<1>4. CASE ResetBreaker
  BY <1>0, <1>4, NothingFacts, Assembled DEF ResetBreaker
<1>5. CASE Resume
  <2>1. restarts' \in 0..MaxRestarts
    BY <1>0, <1>5 DEF Resume
  <2>2. QED
    BY <1>0, <1>1, <1>5, <2>1, SaveFacts, Assembled DEF Resume
<1>6. CASE Crash
  <2>1. restarts' \in 0..MaxRestarts
    BY <1>0, <1>6 DEF Crash
  <2>2. QED
    BY <1>0, <1>1, <1>6, <2>1, Assembled DEF Crash
<1>7. CASE Tick
  <2>1. /\ Older(breaker) \in Breakers /\ Fits(Older(breaker))
        /\ Older(saved) \in Breakers /\ Fits(Older(saved))
        /\ Waited(promise) \in Promises /\ Waited(kept) \in Promises
    BY <1>0, SeenFacts, PromiseFacts
  <2>2. Honours(Older(breaker), Waited(promise)) /\ Honours(Older(saved), Waited(kept))
    BY <1>0, HonoursOlder
  <2>3. QED
    BY <1>0, <1>7, <2>1, <2>2, Assembled DEF Tick
<1>8. CASE ToolChanges
  BY <1>0, <1>8, Assembled DEF ToolChanges
<1>9. ASSUME NEW c \in Call, Check(c) PROVE BreakerInv'
  BY <1>0, <1>9, CallsKept, SaveFacts, Assembled DEF Check
<1>10. ASSUME NEW c \in Call, GiveUp(c) PROVE BreakerInv'
  BY <1>0, <1>10, CallsKept, Assembled DEF GiveUp, End
<1>11. ASSUME NEW c \in Call, AnswerFromCache(c) PROVE BreakerInv'
  BY <1>0, <1>11, CallsKept, NothingFacts, Assembled DEF AnswerFromCache, End
<1>12. ASSUME NEW c \in Call, Execute(c) PROVE BreakerInv'
  BY <1>0, <1>12, CallsKept, Assembled DEF Execute, Goto
<1>13. ASSUME NEW c \in Call, Fail(c) PROVE BreakerInv'
  <2>1. Failed(breaker) \in Breakers /\ Fits(Failed(breaker)) /\ Broken(promise) \in Promises
    BY <1>0, FailedFacts, PromiseFacts
  <2>2. Honours(Failed(breaker), Broken(promise))
    BY <1>0, HonoursFailed
  <2>3. QED
    BY <1>0, <1>13, <2>1, <2>2, CallsKept, Assembled DEF Fail, End
<1>14. ASSUME NEW c \in Call, Succeed(c) PROVE BreakerInv'
  BY <1>0, <1>14, CallsKept, NothingFacts, Assembled DEF Succeed, Goto
<1>15. ASSUME NEW c \in Call, Return(c) PROVE BreakerInv'
  BY <1>0, <1>15, CallsKept, SaveFacts, Assembled DEF Return, Save, End
<1>16. CASE UNCHANGED vars
  BY <1>0, <1>16, Assembled DEF vars
<1>17. QED
  BY <1>2, <1>3, <1>4, <1>5, <1>6, <1>7, <1>8, <1>9, <1>10, <1>11, <1>12, <1>13, <1>14,
     <1>15, <1>16 DEF Next, Outcome

LEMMA InvHolds == Spec => []BreakerInv
BY InitInv, StepInv, PTL DEF Spec

-----------------------------------------------------------------------------
\* Every variable stays in its type; the restarts stay within their limit.
THEOREM TypeCorrect == Spec => []TypeOK
<1>1. BreakerInv => TypeOK
  BY DEF BreakerInv
<1>2. QED
  BY <1>1, InvHolds, PTL

\* The state fits the count of failures in the breaker and in the store, and an
\* open breaker knows when it opened, also if a cache answers.
THEOREM StateFits == Spec => []StateMatchesCount
<1>1. BreakerInv => StateMatchesCount
  BY DEF BreakerInv
<1>2. QED
  BY <1>1, InvHolds, PTL

\* Threshold failures in a row never leave the breaker closed, whatever was
\* restored in between (CircuitBreaker.record_failure).
THEOREM Trips == Spec => []TooManyFailuresTrip
<1>1. BreakerInv => TooManyFailuresTrip
  BY DEF BreakerInv, StateMatchesCount, Fits, Honours, TooManyFailuresTrip
<1>2. QED
  BY <1>1, InvHolds, PTL

\* No call passes the check in the reset period after the last of too many
\* failures (CircuitBreaker.check).
THEOREM Blocks == Spec => BlockedForResetPeriod
<1> DEFINE Passes(c) == calls[c].pc = "idle" /\ calls'[c].pc = "checked"
<1>1. ASSUME BreakerInv, [Next]_vars, NEW c \in Call, Passes(c)
      PROVE  promise.left = 0
  <2>1. calls \in [Call -> Calls] /\ promise \in Promises /\ breaker \in Breakers
    BY <1>1 DEF BreakerInv, TypeOK
  <2>2. Seen(breaker).state # "open"
    <3>1. CASE \E d \in Call : Check(d)
      BY <3>1 DEF Check
    <3>2. CASE \E d \in Call : GiveUp(d) \/ AnswerFromCache(d) \/ Fail(d) \/ Return(d)
      BY <1>1, <2>1, <3>2 DEF GiveUp, AnswerFromCache, Fail, Return, End, Idle, Calls
    <3>3. CASE \E d \in Call : Execute(d) \/ Succeed(d)
      BY <1>1, <2>1, <3>3 DEF Execute, Succeed, Goto, Calls
    <3>4. CASE Resume \/ Crash
      BY <1>1, <3>4 DEF Resume, Crash, Idle
    <3>5. QED
      BY <1>1, <3>1, <3>2, <3>3, <3>4
         DEF Next, Outcome, vars, Look, RecordUsage, Save, ResetBreaker, Tick, ToolChanges
  <2>3. Honours(breaker, promise)
    BY <1>1 DEF BreakerInv
  <2>4. promise.left > 0 => Seen(breaker) = breaker /\ breaker.state = "open"
    BY <2>1, <2>3 DEF Honours, Seen, Elapsed, Breakers, Promises
  <2>5. QED
    BY <2>1, <2>2, <2>4 DEF Promises
<1>2. BreakerInv /\ [Next]_vars =>
        [\A c \in Call : Passes(c) => promise.left = 0]_vars
  BY <1>1 DEF vars
<1>3. QED
  BY <1>2, InvHolds, PTL DEF Spec, BlockedForResetPeriod
=============================================================================
