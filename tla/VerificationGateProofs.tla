----------------------- MODULE VerificationGateProofs -----------------------
(***************************************************************************)
(* The gate fails closed, for any number of stages and any deadline.       *)
(***************************************************************************)
EXTENDS VerificationGate, TLAPS

\* A rejection reports a failure: the stage it is about is one of the required.
LEMMA RejectFails ==
    ASSUME GateTypeOK, asking \in Stage, Reject
    PROVE  /\ pc' = "idle" /\ report' = "failed" /\ expired' = FALSE /\ asking' = asking
           /\ stages' \in [Stage -> StageResults]
  <1>1. stages'[asking] = "failed"
    BY DEF Reject, Report, Stage
  <1>2. Verdict(stages') = "failed"
    BY <1>1 DEF Verdict
  <1>3. stages' \in [Stage -> StageResults]
    BY DEF Reject, Report, GateTypeOK, StageResults
  <1> QED
    BY <1>2, <1>3 DEF Reject, Report

\* Types hold from the start and are kept by every step.
LEMMA GateTypeInit == GateInit => GateTypeOK
  <1> SUFFICES ASSUME GateInit PROVE GateTypeOK
    OBVIOUS
  <1>1. /\ stages \in [Stage -> StageResults]
        /\ asked \in [Stage -> 0..MaxContextEdits \cup {NoReport}]
    BY DEF GateInit, StageResults
  <1>2. /\ asking \in 1..(LastStage + 1) /\ left \in -1..Timeout
        /\ context \in 0..MaxContextEdits /\ safe \in 0..MaxContextEdits
    BY VerificationAssumption DEF GateInit
  <1>3. expired \in BOOLEAN /\ passed \in SUBSET Stage /\ registered \in SUBSET Stage
    BY DEF GateInit
  <1> QED
    BY <1>1, <1>2, <1>3 DEF GateInit, GateTypeOK

LEMMA TypeStep == GateInv /\ [GateNext]_gateVars => GateTypeOK'
  <1> SUFFICES ASSUME GateInv, [GateNext]_gateVars PROVE GateTypeOK'
    OBVIOUS
  <1> USE VerificationAssumption
  <1>0. GateTypeOK /\ (pc = "await" => asking \in Stage)
    BY DEF GateInv, LoopIsAtStage
  <1>1. CASE BeginStages
    <2>1. /\ stages' \in [Stage -> StageResults] /\ expired' \in BOOLEAN
          /\ pc' \in {"idle", "loop"} /\ report' \in {NoReport, "verified", "unverified", "failed"}
      BY <1>1 DEF BeginStages, Report, Verdict, StageResults
    <2>2. asked' \in [Stage -> 0..MaxContextEdits \cup {NoReport}] /\ passed' \in SUBSET Stage
      BY <1>1 DEF BeginStages
    <2>3. asking' \in 1..(LastStage + 1) /\ left' \in -1..Timeout /\ safe' \in 0..MaxContextEdits
      BY <1>0, <1>1 DEF BeginStages, GateTypeOK
    <2> QED
      BY <1>0, <1>1, <2>1, <2>2, <2>3 DEF BeginStages, GateTypeOK, caller
  <1>2. CASE Ask
    <2>1. asked' \in [Stage -> 0..MaxContextEdits \cup {NoReport}]
      BY <1>0, <1>2 DEF Ask, GateTypeOK
    <2> QED
      BY <1>0, <1>2, <2>1 DEF Ask, GateTypeOK, caller
  <1>3. CASE OutOfTime
    <2>1. asking \in Stage /\ Reject
      BY <1>0, <1>3 DEF OutOfTime, GateTypeOK, Stage
    <2> QED
      BY <1>0, <1>3, <2>1, RejectFails DEF OutOfTime, GateTypeOK, caller, gateHistory
  <1>4. CASE Finish
    BY <1>0, <1>4 DEF Finish, Report, Verdict, GateTypeOK, caller, gateHistory
  <1>5. CASE ValidatorPasses
    <2>1. CASE left >= 0 /\ ~Reject
      <3>1. asking \in Stage /\ asking + 1 \in 1..(LastStage + 1)
        BY <1>0, <1>5 DEF ValidatorPasses, Stage
      <3>2. stages' \in [Stage -> StageResults] /\ passed' \in SUBSET Stage /\ expired' \in BOOLEAN
        BY <1>0, <1>5, <2>1, <3>1 DEF ValidatorPasses, Accept, GateTypeOK, StageResults
      <3> QED
        BY <1>0, <1>5, <2>1, <3>1, <3>2 DEF ValidatorPasses, Accept, GateTypeOK, caller
    <2>2. CASE Reject
      BY <1>0, <1>5, <2>2, RejectFails DEF ValidatorPasses, GateTypeOK, caller
    <2> QED
      BY <1>5, <2>1, <2>2 DEF ValidatorPasses, Accept
  <1>6. CASE ValidatorFails
    BY <1>0, <1>6, RejectFails DEF ValidatorFails, GateTypeOK, caller, gateHistory
  <1>7. CASE ExpireStage \/ Cancel
    BY <1>0, <1>7 DEF ExpireStage, Cancel, GateTypeOK, caller, gateHistory
  <1>8. CASE TimePasses
    BY <1>0, <1>8 DEF TimePasses, GateTypeOK, caller, gateHistory
  <1>9. CASE EditContext \/ EditValidators
    BY <1>0, <1>9 DEF EditContext, EditValidators, GateTypeOK, gateHistory
  <1>10. CASE UNCHANGED gateVars
    BY <1>0, <1>10 DEF gateVars, caller, gateHistory, GateTypeOK
  <1> QED
    BY <1>1, <1>2, <1>3, <1>4, <1>5, <1>6, <1>7, <1>8, <1>9, <1>10 DEF GateNext, RunStep

\* A stage is asked when all before it have passed, and given the run's context.
LEMMA StepKeepsOrder == GateInv /\ [GateNext]_gateVars => AskedInOrder'
  <1> SUFFICES ASSUME GateInv, [GateNext]_gateVars PROVE AskedInOrder'
    OBVIOUS
  <1>0. GateTypeOK /\ AskedInOrder /\ LoopIsAtStage
    BY DEF GateInv
  <1>1. CASE BeginStages
    BY <1>1 DEF BeginStages, AskedInOrder
  <1>2. CASE Ask
    <2>1. 1..(asking - 1) \subseteq passed
      BY <1>0, <1>2 DEF Ask, LoopIsAtStage
    <2> QED
      BY <1>0, <1>2, <2>1 DEF Ask, AskedInOrder, GateTypeOK
  <1>3. CASE UNCHANGED <<safe, asked>> /\ passed \subseteq passed'
    BY <1>0, <1>3 DEF AskedInOrder
  <1>4. ~BeginStages /\ ~Ask => UNCHANGED <<safe, asked>> /\ passed \subseteq passed'
    BY DEF GateNext, RunStep, OutOfTime, Finish, ValidatorPasses, ValidatorFails, ExpireStage, Cancel,
           TimePasses, EditContext, EditValidators, gateVars, gateHistory
  <1> QED
    BY <1>1, <1>2, <1>3, <1>4

\* While a run goes on it has no report, and every stage behind it has passed.
LEMMA StepKeepsLoop == GateInv /\ [GateNext]_gateVars => LoopIsAtStage'
  <1> SUFFICES ASSUME GateInv, [GateNext]_gateVars PROVE LoopIsAtStage'
    OBVIOUS
  <1> USE VerificationAssumption
  <1>0. GateTypeOK /\ LoopIsAtStage
    BY DEF GateInv
  <1>1. CASE BeginStages
    BY <1>1 DEF BeginStages, Report, LoopIsAtStage
  <1>2. CASE Ask
    BY <1>0, <1>2 DEF Ask, LoopIsAtStage, GateTypeOK, Stage
  <1>3. CASE ValidatorPasses /\ ~Reject
    <2>1. /\ left >= 0 /\ pc = "await" /\ asking \in Stage /\ pc' = "loop" /\ asking' = asking + 1
          /\ stages' = [stages EXCEPT ![asking] = "verified"] /\ report' = report
          /\ passed' = passed \cup {asking}
      BY <1>0, <1>3 DEF ValidatorPasses, Accept, LoopIsAtStage
    <2>2. ASSUME NEW i \in 1..(asking' - 1) PROVE stages'[i] = "verified" /\ i \in passed'
      <3>1. i \in Stage /\ (i = asking \/ i \in 1..(asking - 1))
        BY <2>1 DEF Stage
      <3> QED
        BY <1>0, <2>1, <3>1 DEF LoopIsAtStage, GateTypeOK
    <2> QED
      BY <1>0, <2>1, <2>2 DEF LoopIsAtStage
  <1>4. CASE Reject \/ Finish
    BY <1>4 DEF Reject, Finish, Report, LoopIsAtStage
  <1>5. CASE ExpireStage \/ Cancel \/ TimePasses \/ EditContext \/ EditValidators \/ UNCHANGED gateVars
    BY <1>0, <1>5 DEF ExpireStage, Cancel, TimePasses, EditContext, EditValidators, LoopIsAtStage,
                      gateVars, caller, gateHistory
  <1> QED
    BY <1>1, <1>2, <1>3, <1>4, <1>5 DEF GateNext, RunStep, OutOfTime, ValidatorFails

\* Only the end of the loop reports success, and all stages are behind it then.
LEMMA StepKeepsVerified == GateInv /\ [GateNext]_gateVars => VerifiedMeansPassed'
  <1> SUFFICES ASSUME GateInv, [GateNext]_gateVars PROVE VerifiedMeansPassed'
    OBVIOUS
  <1> USE VerificationAssumption
  <1>0. GateTypeOK /\ LoopIsAtStage /\ VerifiedMeansPassed
    BY DEF GateInv
  <1>1. CASE BeginStages
    <2>1. CASE Stage \subseteq registered
      BY <1>1, <2>1 DEF BeginStages, VerifiedMeansPassed
    <2>2. CASE ~(Stage \subseteq registered)
      <3>1. Verdict([i \in Stage |-> "unverified"]) = "unverified"
        BY <2>2 DEF Verdict
      <3> QED
        BY <1>1, <2>2, <3>1 DEF BeginStages, Report, VerifiedMeansPassed
    <2> QED
      BY <2>1, <2>2
  <1>2. CASE Finish
    <2>1. asking = LastStage + 1 /\ 1..(asking - 1) = Stage
      BY <1>0, <1>2 DEF Finish, GateTypeOK, Stage
    <2>2. Stage \subseteq passed
      BY <1>0, <1>2, <2>1 DEF Finish, LoopIsAtStage
    <2>3. report' = "verified" => Stage # {}
      BY <1>2 DEF Finish, Report, Verdict
    <2> QED
      BY <1>0, <1>2, <2>2, <2>3 DEF Finish, GateTypeOK, VerifiedMeansPassed, gateHistory
  <1>3. CASE Reject /\ asking \in Stage
    BY <1>0, <1>3, RejectFails DEF VerifiedMeansPassed
  <1>4. CASE Ask \/ (ValidatorPasses /\ ~Reject)
    BY <1>0, <1>4 DEF Ask, ValidatorPasses, Accept, LoopIsAtStage, VerifiedMeansPassed
  <1>5. CASE ExpireStage \/ Cancel \/ TimePasses \/ EditContext \/ EditValidators \/ UNCHANGED gateVars
    BY <1>0, <1>5 DEF ExpireStage, Cancel, TimePasses, EditContext, EditValidators,
                      VerifiedMeansPassed, gateVars, caller, gateHistory
  <1>6. OutOfTime \/ ValidatorFails \/ (ValidatorPasses /\ Reject) => Reject /\ asking \in Stage
    BY <1>0 DEF OutOfTime, ValidatorFails, ValidatorPasses, LoopIsAtStage, GateTypeOK, Stage
  <1> QED
    BY <1>1, <1>2, <1>3, <1>4, <1>5, <1>6 DEF GateNext, RunStep

-----------------------------------------------------------------------------
\* The inductive invariant holds of every behaviour.
THEOREM Inductive == GateSpec => []GateInv
  <1>1. GateInit => GateInv
    <2>1. GateInit => LoopIsAtStage /\ AskedInOrder /\ VerifiedMeansPassed
      BY VerificationAssumption DEF GateInit, LoopIsAtStage, AskedInOrder, VerifiedMeansPassed
    <2> QED
      BY <2>1, GateTypeInit DEF GateInv
  <1>2. GateInv /\ [GateNext]_gateVars => GateInv'
    BY TypeStep, StepKeepsOrder, StepKeepsLoop, StepKeepsVerified DEF GateInv
  <1> QED
    BY <1>1, <1>2, PTL DEF GateSpec

\* Type correctness, for any number of stages and any deadline.
THEOREM TypeCorrect == GateSpec => []GateTypeOK
  <1>1. GateInv => GateTypeOK
    BY DEF GateInv
  <1> QED
    BY <1>1, Inductive, PTL

\* A report says "verified" only if every required stage passed in that run and
\* in time, whatever validators, caller and clock do.
THEOREM FailsClosed == GateSpec => []VerifiedMeansPassed
  <1>1. GateInv => VerifiedMeansPassed
    BY DEF GateInv
  <1> QED
    BY <1>1, Inductive, PTL

\* No validator runs unless all before it have passed.
THEOREM InOrder == GateSpec => []StagesBuildOnPasses
  <1>1. GateInv => StagesBuildOnPasses
    BY DEF GateInv, AskedInOrder, StagesBuildOnPasses
  <1> QED
    BY <1>1, Inductive, PTL

\* All validators of a run are given the same context.
THEOREM SameContext == GateSpec => []OneContextPerRun
  <1>1. GateInv => OneContextPerRun
    BY DEF GateInv, AskedInOrder, OneContextPerRun
  <1> QED
    BY <1>1, Inductive, PTL
=============================================================================
