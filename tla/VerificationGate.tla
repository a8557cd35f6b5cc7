-------------------------- MODULE VerificationGate --------------------------
(***************************************************************************)
(* VerificationGate.run (agenthandler/verification.py): the required       *)
(* stages one after the other under one deadline, and the report.  One run *)
(* at a time: runs share nothing but the frozen names of the stages.       *)
(*                                                                         *)
(* A validator passes or it does not: an exception, a rejection and a      *)
(* malformed result end alike.  It may answer late, the deadline's         *)
(* cancellation suppressed or not yet delivered.                           *)
(***************************************************************************)
EXTENDS Integers

CONSTANTS
    LastStage,      \* the required stages are 1..LastStage, in order
    Timeout,   \* timeout_seconds
    MaxContextEdits, \* bound: the caller edits its context this often
    NoReport

Stage == 1..LastStage

ASSUME VerificationAssumption ==
    /\ LastStage \in Nat /\ Timeout \in Nat \ {0} /\ MaxContextEdits \in Nat
    /\ NoReport \notin Nat \cup {"verified", "unverified", "failed"}

VARIABLES
    pc,          \* where run() is
    registered,  \* the caller's mapping of validators
    context,     \* the caller's context: how often it was edited
    safe,        \* safe_context, the run's own copy
    asking,      \* the stage of the loop
    stages,      \* the results so far
    left,        \* time to the deadline
    expired,     \* wait_for has cancelled the validator
    report,      \* status of the report of the last run
    asked,       \* history: the context each validator was given in the last run
    passed       \* history: the stages that passed in the last run, in time

caller == <<registered, context>>
gateHistory == <<asked, passed>>
gateVars == <<pc, caller, safe, asking, stages, left, expired, report, gateHistory>>

StageResults == {"none", "verified", "unverified", "failed"}

GateInit ==
    /\ pc = "idle" /\ registered \in SUBSET Stage /\ context = 0 /\ safe = 0
    /\ asking = 1 /\ left = 0 /\ expired = FALSE /\ report = NoReport
    /\ stages = [i \in Stage |-> "none"]
    /\ asked = [i \in Stage |-> NoReport] /\ passed = {}

-----------------------------------------------------------------------------
\* VerificationReport.status.
Verdict(results) ==
    IF \E i \in Stage : results[i] = "failed" THEN "failed"
    ELSE IF Stage # {} /\ \A i \in Stage : results[i] = "verified" THEN "verified"
    ELSE "unverified"

Report(results) ==
    /\ pc' = "idle" /\ stages' = results /\ report' = Verdict(results)
    /\ expired' = FALSE

\* The stage of the loop fails, and no later one runs.
Reject ==
    /\ Report([i \in Stage |-> IF i < asking THEN stages[i]
                               ELSE IF i = asking THEN "failed" ELSE "unverified"])
    /\ UNCHANGED asking

\* A missing validator invalidates the whole contract before any check runs.
BeginStages ==
    /\ pc = "idle"
    /\ safe' = context /\ asking' = 1 /\ left' = Timeout
    /\ asked' = [i \in Stage |-> NoReport] /\ passed' = {}
    /\ \/ /\ Stage \subseteq registered
          /\ pc' = "loop" /\ stages' = [i \in Stage |-> "none"]
          /\ report' = NoReport /\ expired' = FALSE
       \/ /\ ~(Stage \subseteq registered)
          /\ Report([i \in Stage |-> "unverified"])
    /\ UNCHANGED caller

Ask ==
    /\ pc = "loop" /\ asking <= LastStage /\ left > 0
    /\ pc' = "await" /\ asked' = [asked EXCEPT ![asking] = safe]
    /\ UNCHANGED <<caller, safe, asking, stages, left, expired, report, passed>>

OutOfTime ==
    /\ pc = "loop" /\ asking <= LastStage /\ left <= 0
    /\ Reject
    /\ UNCHANGED <<caller, safe, left, gateHistory>>

Finish ==
    /\ pc = "loop" /\ asking > LastStage
    /\ Report(stages)
    /\ UNCHANGED <<caller, safe, asking, left, gateHistory>>

\* (Bug: only wait_for looks at the deadline.)
AcceptLate ==
    /\ pc' = "loop" /\ asking' = asking + 1 /\ expired' = FALSE
    /\ stages' = [stages EXCEPT ![asking] = "verified"]
    /\ UNCHANGED report

\* The pass is counted, unless it came after the deadline.
Accept ==
    \/ /\ left >= 0
       /\ pc' = "loop" /\ asking' = asking + 1 /\ expired' = FALSE
       /\ stages' = [stages EXCEPT ![asking] = "verified"]
       /\ UNCHANGED report
    \/ left < 0 /\ Reject

ValidatorPasses ==
    /\ pc = "await" /\ Accept
    /\ passed' = IF left >= 0 THEN passed \cup {asking} ELSE passed
    /\ UNCHANGED <<caller, safe, left, asked>>

\* It rejects, raises, answers nonsense, or obeys the cancellation.
ValidatorFails ==
    /\ pc = "await" /\ Reject
    /\ UNCHANGED <<caller, safe, left, gateHistory>>

\* (Bug: wait_for is given the deadline for the first stage only.)
ExpireFirst ==
    /\ pc = "await" /\ left <= 0 /\ ~expired /\ asking = 1
    /\ expired' = TRUE
    /\ UNCHANGED <<pc, caller, safe, asking, stages, left, report, gateHistory>>

\* wait_for gives up and cancels the validator; it returns when that ends.
ExpireStage ==
    /\ pc = "await" /\ left <= 0 /\ ~expired
    /\ expired' = TRUE
    /\ UNCHANGED <<pc, caller, safe, asking, stages, left, report, gateHistory>>

\* The run itself is cancelled: there is no report.
Cancel ==
    /\ pc = "await"
    /\ pc' = "idle" /\ expired' = FALSE
    /\ UNCHANGED <<caller, safe, asking, stages, left, report, gateHistory>>

TimePasses ==
    /\ pc # "idle" /\ left >= 0
    /\ left' = left - 1
    /\ UNCHANGED <<pc, caller, safe, asking, stages, expired, report, gateHistory>>

\* The caller goes on with its own context and its own mapping.
EditContext ==
    /\ context < MaxContextEdits /\ context' = context + 1
    /\ UNCHANGED <<pc, registered, safe, asking, stages, left, expired, report, gateHistory>>

EditValidators ==
    /\ registered' \in SUBSET Stage \ {registered}
    /\ UNCHANGED <<pc, context, safe, asking, stages, left, expired, report, gateHistory>>

RunStep == Ask \/ OutOfTime \/ Finish

GateNext ==
    \/ BeginStages \/ RunStep \/ ValidatorPasses \/ ValidatorFails \/ ExpireStage \/ Cancel
    \/ TimePasses \/ EditContext \/ EditValidators

GateSpec == GateInit /\ [][GateNext]_gateVars

\* Validators may be silent until they are cancelled, and must obey that.
GateFairness ==
    /\ WF_gateVars(RunStep) /\ WF_gateVars(ExpireStage) /\ WF_gateVars(TimePasses)
    /\ WF_gateVars(expired /\ ValidatorFails)

-----------------------------------------------------------------------------
GateTypeOK ==
    /\ pc \in {"idle", "loop", "await"}
    /\ registered \in SUBSET Stage
    /\ context \in 0..MaxContextEdits /\ safe \in 0..MaxContextEdits
    /\ asking \in 1..(LastStage + 1)
    /\ stages \in [Stage -> StageResults]
    /\ left \in -1..Timeout
    /\ expired \in BOOLEAN
    /\ report \in {NoReport, "verified", "unverified", "failed"}
    /\ asked \in [Stage -> 0..MaxContextEdits \cup {NoReport}]
    /\ passed \in SUBSET Stage

\* "Fail closed unless every named stage independently succeeds"
\* (verification.py:109): and does so in the run that reports it, in time.
VerifiedMeansPassed == report = "verified" => Stage # {} /\ passed = Stage

\* "No dependent validator runs after a rejection or exception"
\* (verification.py:188), nor after a pass that came too late.
StagesBuildOnPasses == \A i \in Stage : asked[i] # NoReport => 1..(i - 1) \subseteq passed

\* All stages of a run judge the same context, whatever the caller or an
\* earlier validator does to it meanwhile.
OneContextPerRun ==
    \A i, j \in Stage : asked[i] # NoReport /\ asked[j] # NoReport => asked[i] = asked[j]

\* "a total deadline across all validators": every run ends, as long as
\* validators obey their cancellation.
RunsEnd == pc # "idle" ~> pc = "idle"

-----------------------------------------------------------------------------
\* The inductive invariant behind them.
LoopIsAtStage ==
    pc # "idle" =>
        /\ report = NoReport
        /\ pc = "await" => asking \in Stage
        /\ \A i \in 1..(asking - 1) : stages[i] = "verified" /\ i \in passed

AskedInOrder ==
    \A i \in Stage : asked[i] # NoReport =>
        /\ asked[i] = safe
        /\ 1..(i - 1) \subseteq passed

GateInv == GateTypeOK /\ LoopIsAtStage /\ AskedInOrder /\ VerifiedMeansPassed
=============================================================================
