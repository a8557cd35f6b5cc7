--------------------------- MODULE CircuitBreaker ---------------------------
(***************************************************************************)
(* One tool's CircuitBreaker (agenthandler/circuit_breaker.py) as a        *)
(* Supervisor uses it: coroutines pass check() before the pre-guardrails   *)
(* are awaited, so other calls end, the breaker trips and its state is     *)
(* read and stored between the check of a call and the outcome of it.      *)
(*                                                                         *)
(* Time is the age of an opening, counted up to the reset period; the      *)
(* count of failures stops at the threshold: the code asks for no more.    *)
(* Monotonic and wall clock run alike.                                     *)
(***************************************************************************)
EXTENDS Integers

CONSTANTS
    Call,         \* coroutines that call the tool
    None,
    Threshold,    \* policy.circuit_breaker_threshold
    Reset,        \* policy.circuit_breaker_reset
    MaxRestarts   \* how often the session is resumed: policy.max_resumes

ASSUME BreakerAssumption ==
    /\ Threshold \in Nat \ {0} /\ Reset \in Nat /\ MaxRestarts \in Nat
    /\ None \notin Nat

VARIABLES
    breaker,   \* of the supervisor at work
    saved,     \* circuit_breaker_states in the stored checkpoint
    calls,     \* the calls past check(), and whether one is a test call
    up,        \* whether the tool works
    restarts,
    promise,   \* history: failures of the tool in a row since a success or a
               \* reset, and for how long no call may pass after the last of
               \* too many
    kept       \* history: the promise as of the stored checkpoint

vars == <<breaker, saved, calls, up, restarts, promise, kept>>

Breakers == [state : {"closed", "open", "half_open"}, failures : 0..Threshold,
             age : 0..Reset \cup {None}]      \* age of _opened_at

Calls == [pc : {"idle", "checked", "working", "failing", "done"}, test : BOOLEAN]

Promises == [row : 0..Threshold, left : 0..Reset]

Closed == [state |-> "closed", failures |-> 0, age |-> None]

Idle == [pc |-> "idle", test |-> FALSE]

Nothing == [row |-> 0, left |-> 0]

Init ==
    /\ breaker = Closed /\ saved = Closed
    /\ calls = [c \in Call |-> Idle]
    /\ up \in BOOLEAN
    /\ restarts = 0
    /\ promise = Nothing /\ kept = Nothing

-----------------------------------------------------------------------------
Least(i, j) == IF i < j THEN i ELSE j

Elapsed(b) == b.age # None /\ b.age >= Reset

\* (Bug: the reset period closes the breaker.)
SeenClosed(b) == IF b.state = "open" /\ Elapsed(b) THEN Closed ELSE b

\* What anyone who looks at the state finds, and leaves behind.
Seen(b) == IF b.state = "open" /\ Elapsed(b) THEN [b EXCEPT !.state = "half_open"] ELSE b

\* (Bug: the time of opening is not stored.)
StoredAgeless(b) == [b EXCEPT !.age = None]

\* What a checkpoint keeps.
Stored(b) == [b EXCEPT !.age = IF b.state = "open" THEN b.age ELSE None]

\* (Bug: the time of opening is noted only once.)
FailedKeepingAge(b) ==
    LET n == Least(b.failures + 1, Threshold) IN
    IF b.state = "half_open" \/ n >= Threshold
    THEN [state |-> "open", failures |-> n, age |-> IF b.age = None THEN 0 ELSE b.age]
    ELSE [b EXCEPT !.failures = n]

\* record_failure.
Failed(b) ==
    LET n == Least(b.failures + 1, Threshold) IN
    IF b.state = "half_open" \/ n >= Threshold
    THEN [state |-> "open", failures |-> n, age |-> 0]
    ELSE [b EXCEPT !.failures = n]

Older(b) == [b EXCEPT !.age = IF b.age = None THEN None ELSE Least(b.age + 1, Reset)]

\* The promise: too many failures in a row close the way for the reset period.
Broken(p) ==
    LET n == Least(p.row + 1, Threshold) IN
    [row |-> n, left |-> IF n = Threshold THEN Reset ELSE p.left]

Waited(p) == [p EXCEPT !.left = IF p.left = 0 THEN 0 ELSE p.left - 1]

Goto(c, pc) == calls' = [calls EXCEPT ![c].pc = pc]

End(c) == calls' = [calls EXCEPT ![c] = Idle]

Save ==
    /\ breaker' = Seen(breaker)
    /\ saved' = Stored(Seen(breaker))
    /\ kept' = promise

-----------------------------------------------------------------------------
\* check() lets the call through; one that it refuses changes nothing.
Check(c) ==
    /\ calls[c].pc = "idle"
    /\ Seen(breaker).state # "open"
    /\ breaker' = Seen(breaker)
    /\ calls' = [calls EXCEPT ![c] = [pc |-> "checked", test |-> Seen(breaker).state = "half_open"]]
    /\ UNCHANGED <<saved, up, restarts, promise, kept>>

\* preflight, circuit_breaker_states: somebody reads the state.
Look ==
    /\ Seen(breaker) # breaker
    /\ breaker' = Seen(breaker)
    /\ UNCHANGED <<saved, calls, up, restarts, promise, kept>>

\* A pre-guardrail refuses, or the call is cancelled: no outcome is recorded.
GiveUp(c) ==
    /\ calls[c].pc # "idle"
    /\ End(c)
    /\ UNCHANGED <<breaker, saved, up, restarts, promise, kept>>

\* IdempotencyGuard has the answer: the tool is not called, yet a success is
\* recorded, which voids the promise, and not checkpointed.
AnswerFromCache(c) ==
    /\ calls[c].pc = "checked"
    /\ breaker' = Closed
    /\ promise' = Nothing
    /\ End(c)
    /\ UNCHANGED <<saved, up, restarts, kept>>

Execute(c) ==
    /\ calls[c].pc = "checked"
    /\ Goto(c, IF up THEN "working" ELSE "failing")
    /\ UNCHANGED <<breaker, saved, up, restarts, promise, kept>>

\* The tool raises or runs out of time; the failure is not checkpointed.
Fail(c) ==
    /\ calls[c].pc = "failing"
    /\ breaker' = Failed(breaker)
    /\ promise' = Broken(promise)
    /\ End(c)
    /\ UNCHANGED <<saved, up, restarts, kept>>

Succeed(c) ==
    /\ calls[c].pc = "working"
    /\ breaker' = Closed
    /\ promise' = Nothing
    /\ Goto(c, "done")
    /\ UNCHANGED <<saved, up, restarts, kept>>

\* After the post-guardrails; a call they refuse, or one over its budget, gives
\* up here.
Return(c) ==
    /\ calls[c].pc = "done"
    /\ Save /\ End(c)
    /\ UNCHANGED <<up, restarts, promise>>

\* record_tokens, record_iteration.
RecordUsage == Save /\ UNCHANGED <<calls, up, restarts, promise>>

\* reset_circuit_breaker: something else stands behind the tool's name.
ResetBreaker ==
    /\ breaker' = Closed
    /\ promise' = Nothing
    /\ UNCHANGED <<saved, calls, up, restarts, kept>>

\* SessionManager.resume replaces the supervisor and first keeps what it knows;
\* the calls in flight count against the breaker of the old one.
Resume ==
    /\ restarts < MaxRestarts /\ restarts' = restarts + 1
    /\ breaker' = Stored(Seen(breaker))
    /\ saved' = Stored(Seen(breaker))
    /\ kept' = promise
    /\ calls' = [c \in Call |-> Idle]
    /\ UNCHANGED <<up, promise>>

\* The process dies and the session is resumed from the store.
Crash ==
    /\ restarts < MaxRestarts /\ restarts' = restarts + 1
    /\ breaker' = saved
    /\ promise' = kept
    /\ calls' = [c \in Call |-> Idle]
    /\ UNCHANGED <<saved, up, kept>>

Tick ==
    /\ breaker' = Older(breaker) /\ saved' = Older(saved)
    /\ promise' = Waited(promise) /\ kept' = Waited(kept)
    /\ UNCHANGED <<calls, up, restarts>>

ToolChanges == up' = ~up /\ UNCHANGED <<breaker, saved, calls, restarts, promise, kept>>

Outcome(c) == Fail(c) \/ Succeed(c) \/ Return(c)

Next ==
    \/ Look \/ RecordUsage \/ ResetBreaker \/ Resume \/ Crash \/ Tick \/ ToolChanges
    \/ \E c \in Call : Check(c) \/ GiveUp(c) \/ AnswerFromCache(c) \/ Execute(c) \/ Outcome(c)

Spec == Init /\ [][Next]_vars

\* The agent goes on trying, the guardrails let some of its calls through, and
\* not every call is cancelled; every other one ends (tool_timeout).
BreakerFairness ==
    /\ WF_vars(Tick)
    /\ WF_vars(\E c \in Call : Check(c)) /\ SF_vars(\E c \in Call : Execute(c))
    /\ \A c \in Call : SF_vars(Outcome(c))

-----------------------------------------------------------------------------
TypeOK ==
    /\ breaker \in Breakers /\ saved \in Breakers
    /\ calls \in [Call -> Calls]
    /\ up \in BOOLEAN
    /\ restarts \in 0..MaxRestarts
    /\ promise \in Promises /\ kept \in Promises

Fits(b) ==
    /\ b.state = "closed" <=> b.failures < Threshold
    /\ b.state = "open" => b.age # None

\* CLOSED means fewer failures than the threshold, and OPEN and HALF_OPEN no
\* fewer, in the breaker and in the store, through any restore; an open breaker
\* knows when it opened, or it would never let a call through again.
StateMatchesCount == Fits(breaker) /\ Fits(saved)

\* The breaker trips: after Threshold failures in a row it is not closed,
\* whichever calls they were of and whatever was restored in between.
TooManyFailuresTrip == promise.row = Threshold => breaker.state # "closed"

\* "OPEN: calls blocked until reset_after" (circuit_breaker.py:22): for the
\* reset period after the last of too many failures no call passes the check,
\* whoever looked at the state and whatever was restored since.
BlockedForResetPeriod ==
    [][\A c \in Call : calls[c].pc = "idle" /\ calls'[c].pc = "checked"
                           => promise.left = 0]_vars

\* A tool that works again is used again: the breaker closes for good.
RecoveredToolIsUsed == <>[]up => <>[](breaker.state = "closed")

Testing(c) == calls[c].test /\ calls[c].pc # "done"

\* "HALF_OPEN: reset_after elapsed, allow one test call" (circuit_breaker.py:23).
OneTestCall == \A c, d \in Call : Testing(c) /\ Testing(d) => c = d

-----------------------------------------------------------------------------
\* The inductive invariant behind them.
Honours(b, p) ==
    /\ p.row = b.failures
    /\ p.left > 0 => b.state = "open" /\ b.age + p.left <= Reset

BreakerInv ==
    /\ TypeOK /\ StateMatchesCount
    /\ Honours(breaker, promise) /\ Honours(saved, kept)
=============================================================================
