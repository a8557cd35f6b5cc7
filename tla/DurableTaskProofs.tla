------------------------- MODULE DurableTaskProofs -------------------------
(***************************************************************************)
(* Theorems about DurableTask, for any processes, any number of            *)
(* milestones, any limits and any crashes.                                 *)
(***************************************************************************)
EXTENDS DurableTask, TLAPS

USE TaskAssumption

LEMMA GenerationFacts == Generation \subseteq Nat /\ None \notin Generation /\ 0 \in Generation
BY DEF Generation

LEMMA RunnerUpdates ==
    ASSUME runner \in Runners, NEW pc \in {"idle", "claimed", "checked", "loop", "proposed",
              "reserved", "inside", "accept", "blocking", "cleanup"}, Goto(pc)
    PROVE  /\ runner' \in Runners
           /\ runner'.pc = pc /\ runner'.proc = runner.proc
           /\ runner'.gen = runner.gen /\ runner'.phase = runner.phase
BY DEF Goto, Runners

LEMMA NoRunnerType == NoRunner \in Runners /\ NoRunner.proc = None /\ NoRunner.pc = "idle"
BY DEF NoRunner, Runners

MilestoneStates == {"ready", "pending", "executed", "verified"}

LEMMA MarkFacts ==
    ASSUME task \in Tasks, NEW m \in Milestone, NEW state \in MilestoneStates,
           MarkMilestone(m, state)
    PROVE  /\ task' \in Tasks
           /\ task'.status = task.status /\ task'.calls = task.calls
           /\ task'.cgen = task.cgen
           /\ task'.ms = [task.ms EXCEPT ![m] = state]
<1>1. task.ms \in [Milestone -> MilestoneStates]
  BY DEF Tasks, MilestoneStates
<1> DEFINE ms == [task.ms EXCEPT ![m] = state]
<1>2. ms \in [Milestone -> MilestoneStates]
  BY <1>1
<1>3. task' = [task EXCEPT !.ms = ms]
  BY DEF MarkMilestone
<1>4. HIDE DEF ms
<1>5. QED
  BY <1>2, <1>3 DEF Tasks, MilestoneStates, ms

LEMMA ReserveFacts ==
    ASSUME task \in Tasks, runner \in Runners, NEW m \in Milestone, Reserve(m)
    PROVE  /\ task' \in Tasks /\ runner' \in Runners
           /\ task'.calls = task.calls + 1 /\ task'.cgen = task.cgen
           /\ task'.status # "verified"
           /\ task'.ms = IF task.ms[m] = "ready" THEN [task.ms EXCEPT ![m] = "pending"]
                         ELSE task.ms
           /\ runner'.pc = "reserved" /\ runner'.proc = runner.proc
           /\ runner'.gen = runner.gen /\ runner'.phase = Phase(m)
<1>1. task.ms \in [Milestone -> MilestoneStates] /\ task.calls \in 0..MaxCalls
      /\ task.calls < MaxCalls
  BY DEF Tasks, MilestoneStates, Reserve, MayCall
<1>2. Phase(m) \in {"recover", "execute", "verify"}
      /\ (Phase(m) = "execute" <=> task.ms[m] = "ready")
  BY <1>1 DEF Phase, MilestoneStates
<1> DEFINE ms == IF Phase(m) = "execute" THEN [task.ms EXCEPT ![m] = "pending"] ELSE task.ms
           status == IF Phase(m) = "verify" THEN "proposed" ELSE "running"
<1>3. ms \in [Milestone -> MilestoneStates] /\ status \in {"proposed", "running"}
      /\ task.calls + 1 \in 0..MaxCalls
  BY <1>1 DEF MilestoneStates
<1>4. task' = [task EXCEPT !.calls = task.calls + 1, !.status = status, !.ms = ms]
  BY DEF Reserve
<1>5. runner' = [runner EXCEPT !.pc = "reserved", !.phase = Phase(m)]
  BY DEF Reserve
<1>6. ms = IF task.ms[m] = "ready" THEN [task.ms EXCEPT ![m] = "pending"] ELSE task.ms
  BY <1>2
<1>7. HIDE DEF ms, status
<1>8. task' \in Tasks /\ task'.calls = task.calls + 1 /\ task'.cgen = task.cgen
      /\ task'.status = status /\ task'.ms = ms
  BY <1>3, <1>4 DEF Tasks, MilestoneStates
<1>9. runner' \in Runners /\ runner'.pc = "reserved" /\ runner'.proc = runner.proc
      /\ runner'.gen = runner.gen /\ runner'.phase = Phase(m)
  BY <1>2, <1>5 DEF Runners
<1>10. QED
  BY <1>3, <1>6, <1>8, <1>9

\* A step that changes only the task's status.
LEMMA StatusFacts ==
    ASSUME task \in Tasks, NEW status \in {"running", "proposed", "verified", "blocked"},
           task' = [task EXCEPT !.status = status]
    PROVE  /\ task' \in Tasks /\ task'.status = status /\ task'.ms = task.ms
           /\ task'.calls = task.calls /\ task'.cgen = task.cgen
BY DEF Tasks

LEMMA AcceptFacts ==
    ASSUME task \in Tasks, NEW m \in Milestone,
           task' = [task EXCEPT !.status = "running", !.ms = [@ EXCEPT ![m] = "verified"]]
    PROVE  /\ task' \in Tasks /\ task'.status = "running"
           /\ task'.ms = [task.ms EXCEPT ![m] = "verified"]
           /\ task'.calls = task.calls /\ task'.cgen = task.cgen
<1>1. task.ms \in [Milestone -> MilestoneStates]
  BY DEF Tasks, MilestoneStates
<1> DEFINE ms == [task.ms EXCEPT ![m] = "verified"]
<1>2. ms \in [Milestone -> MilestoneStates]
  BY <1>1 DEF MilestoneStates
<1>3. task' = [task EXCEPT !.status = "running", !.ms = ms]
  OBVIOUS
<1>4. HIDE DEF ms
<1>5. QED
  BY <1>2, <1>3 DEF Tasks, MilestoneStates, ms

LEMMA CompleteFacts ==
    ASSUME task \in Tasks, NEW g \in Generation,
           task' = [task EXCEPT !.status = "verified", !.cgen = g]
    PROVE  /\ task' \in Tasks /\ task'.status = "verified" /\ task'.cgen = g
           /\ task'.ms = task.ms /\ task'.calls = task.calls
BY DEF Tasks

LEMMA SessionFacts ==
    ASSUME session \in Sessions, NEW status \in {"running", "paused", "stopped", "failed"},
           session' = [session EXCEPT !.status = status]
    PROVE  session' \in Sessions /\ session'.status = status /\ session'.gen = session.gen
BY DEF Sessions

LEMMA NextGeneration ==
    ASSUME session \in Sessions, session.gen < MaxResumes,
           session' = [status |-> "running", gen |-> session.gen + 1]
    PROVE  /\ session' \in Sessions /\ session'.status = "running"
           /\ session'.gen = session.gen + 1 /\ session'.gen \in Generation
BY DEF Sessions, Generation

\* What the steps of a run do to the claim's place.
LEMMA TakeFacts ==
    ASSUME TypeOK, TakeSupervisor
    PROVE  /\ runner' \in Runners /\ runner'.proc = runner.proc
           /\ runner'.phase = runner.phase /\ runner'.pc \in {"loop", "blocking"}
<1> DEFINE g == registry[runner.proc]
           pc == IF session.status = "running" /\ session.gen = registry[runner.proc]
                 THEN "loop" ELSE "blocking"
<1>1. runner \in Runners /\ g \in Generation
  BY DEF TakeSupervisor, At, TypeOK, Runners
<1>2. pc \in {"loop", "blocking"}
  OBVIOUS
<1>3. runner' = [runner EXCEPT !.gen = g, !.pc = pc]
  BY DEF TakeSupervisor
<1>4. HIDE DEF g, pc
<1>5. QED
  BY <1>1, <1>2, <1>3 DEF Runners

LEMMA ResumeFacts ==
    ASSUME TypeOK, ResumeSession
    PROVE  /\ runner' \in Runners /\ runner'.proc = runner.proc
           /\ runner'.phase = runner.phase /\ runner'.pc \in {"loop", "blocking"}
           /\ session' \in Sessions /\ session'.status # "stopped"
           /\ registry' \in [Process -> Generation \cup {None}]
<1>1. runner \in Runners /\ session \in Sessions /\ runner.proc \in Process
  BY DEF TypeOK, ResumeSession, At, Runners
<1>2. CASE session.gen < MaxResumes
  <2>1. session' \in Sessions /\ session'.status = "running" /\ session.gen + 1 \in Generation
    BY <1>1, <1>2, NextGeneration DEF ResumeSession
  <2>2. runner' = [runner EXCEPT !.gen = session.gen + 1, !.pc = "loop"]
    BY <1>2 DEF ResumeSession
  <2>3. runner' \in Runners /\ runner'.proc = runner.proc
        /\ runner'.phase = runner.phase /\ runner'.pc = "loop"
    BY <1>1, <2>1, <2>2 DEF Runners
  <2>4. registry' \in [Process -> Generation \cup {None}]
    BY <1>1, <1>2, <2>1 DEF ResumeSession, TypeOK
  <2>5. QED
    BY <2>1, <2>3, <2>4
<1>3. CASE ~(session.gen < MaxResumes)
  BY <1>1, <1>3, SessionFacts, RunnerUpdates DEF ResumeSession, TypeOK
<1>4. QED
  BY <1>2, <1>3

-----------------------------------------------------------------------------
LEMMA InitType == Init => TypeOK
<1> SUFFICES ASSUME Init PROVE TypeOK
  OBVIOUS
<1>1. session \in Sessions /\ registry \in [Process -> Generation \cup {None}]
  BY GenerationFacts DEF Init, Sessions
<1>2. task \in Tasks /\ runner \in Runners
  BY NoRunnerType DEF Init, Tasks
<1>3. flying \in [Milestone -> Nat] /\ effects \in [Milestone -> Nat] /\ invoked \in Nat
  BY DEF Init
<1>4. authorized \in BOOLEAN
  BY DEF Init
<1>5. QED
  BY <1>1, <1>2, <1>3, <1>4 DEF TypeOK

LEMMA RunType ==
    ASSUME TypeOK, Run
    PROVE  TypeOK'
<1> USE DEF TypeOK, world
<1>1. CASE CheckSession
  BY <1>1, RunnerUpdates DEF CheckSession
<1>2. CASE TakeSupervisor
  BY <1>2, TakeFacts DEF TakeSupervisor
<1>3. CASE ResumeSession
  BY <1>3, ResumeFacts DEF ResumeSession
<1>4. CASE VerifierPasses
  BY <1>4, RunnerUpdates DEF VerifierPasses
<1>5. CASE CallFails
  BY <1>5, RunnerUpdates DEF CallFails
<1>6. CASE Complete
  <2>1. Running => runner.gen \in Generation
    BY DEF Running, Sessions
  <2>2. QED
    BY <1>6, <2>1, RunnerUpdates, CompleteFacts DEF Complete
<1>7. CASE Block
  BY <1>7, StatusFacts, NoRunnerType DEF Block
<1>8. CASE CloseSession
  <2>1. runner.proc \in Process
    BY <1>8 DEF CloseSession, At, Runners
  <2>2. session' \in Sessions /\ registry' \in [Process -> Generation \cup {None}]
    BY <1>8, <2>1, SessionFacts DEF CloseSession
  <2>3. QED
    BY <1>8, <2>2, NoRunnerType DEF CloseSession
<1>9. CASE Cancel
  BY <1>9, MarkFacts, NoRunnerType DEF Cancel, MilestoneStates
<1>10. QED
  BY <1>1, <1>2, <1>3, <1>4, <1>5, <1>6, <1>7, <1>8, <1>9 DEF Run

LEMMA WorkType ==
    ASSUME TypeOK, NEW m \in Milestone, Work(m)
    PROVE  TypeOK'
<1> USE DEF TypeOK, world
<1>1. CASE Propose(m)
  BY <1>1, StatusFacts, RunnerUpdates DEF Propose
<1>2. CASE Reserve(m)
  BY <1>2, ReserveFacts DEF Reserve
<1>3. CASE CannotCall(m)
  BY <1>3, RunnerUpdates DEF CannotCall
<1>4. CASE Refuse(m)
  BY <1>4, RunnerUpdates, MarkFacts DEF Refuse, MilestoneStates
<1>5. CASE Invoke(m)
  BY <1>5, RunnerUpdates DEF Invoke
<1>6. CASE ActionReturns(m)
  BY <1>6, RunnerUpdates, MarkFacts DEF ActionReturns, MilestoneStates
<1>7. CASE Recover(m)
  BY <1>7, RunnerUpdates, MarkFacts DEF Recover, MilestoneStates
<1>8. CASE Accept(m)
  BY <1>8, RunnerUpdates, AcceptFacts DEF Accept
<1>9. QED
  BY <1>1, <1>2, <1>3, <1>4, <1>5, <1>6, <1>7, <1>8 DEF Work

LEMMA OutsideType ==
    ASSUME TypeOK, \/ OperatorPauses
                   \/ \E p \in Process : Claim(p) \/ Crash(p) \/ Operate(p)
                   \/ \E m \in Milestone : Land(m) \/ Vanish(m)
    PROVE  TypeOK'
<1> USE DEF TypeOK, world
<1>1. CASE OperatorPauses
  BY <1>1, SessionFacts DEF OperatorPauses
<1>2. ASSUME NEW p \in Process, Claim(p) PROVE TypeOK'
  BY <1>2 DEF Claim, Runners
<1>3. ASSUME NEW p \in Process, Crash(p) PROVE TypeOK'
  BY <1>3, NoRunnerType DEF Crash
<1>4. ASSUME NEW p \in Process, OperatorStops(p) PROVE TypeOK'
  BY <1>4, SessionFacts DEF OperatorStops
<1>5. ASSUME NEW p \in Process, OperatorResumes(p) PROVE TypeOK'
  <2>1. CASE session.gen < MaxResumes
    BY <1>5, <2>1, NextGeneration DEF OperatorResumes
  <2>2. CASE ~(session.gen < MaxResumes)
    BY <1>5, <2>2, SessionFacts DEF OperatorResumes
  <2>3. QED
    BY <2>1, <2>2
<1>6. ASSUME NEW p \in Process, OperatorRestarts(p) PROVE TypeOK'
  BY <1>6 DEF OperatorRestarts
<1>7. ASSUME NEW m \in Milestone, Land(m) \/ Vanish(m) PROVE TypeOK'
  BY <1>7 DEF Land, Vanish
<1>8. QED
  BY <1>1, <1>2, <1>3, <1>4, <1>5, <1>6, <1>7 DEF Operate

LEMMA TypeKept == TypeOK /\ [Next]_vars => TypeOK'
<1>1. CASE UNCHANGED vars
  BY <1>1 DEF vars, world, TypeOK
<1>2. QED
  BY <1>1, RunType, WorkType, OutsideType DEF Next

\* Every variable stays in its type; no more calls are reserved than the limit.
THEOREM TypeCorrect == Spec => []TypeOK
BY InitType, TypeKept, PTL DEF Spec

-----------------------------------------------------------------------------
LEMMA OneTurn ==
    ASSUME NEW m \in Milestone, NEW n \in Milestone, Turn(m), Turn(n)
    PROVE  m = n
<1>1. m \in Int /\ n \in Int
  BY DEF Milestone
<1>2. ~(m < n) /\ ~(n < m)
  BY DEF Turn
<1>3. QED
  BY <1>1, <1>2

\* A step that leaves the milestones and the world alone.
Quiet == task'.ms = task.ms /\ UNCHANGED <<flying, effects>>

LEMMA QuietKeeps ==
    ASSUME WorldMatchesRecord, InOrder, Quiet
    PROVE  /\ WorldMatchesRecord' /\ InOrder'
           /\ \A m \in Milestone : Turn(m)' <=> Turn(m)
           /\ AllVerified' <=> AllVerified
BY DEF WorldMatchesRecord, InOrder, Quiet, Turn, AllVerified

\* The worker is at no place that speaks of a milestone.
LEMMA PlaceIsFree ==
    ASSUME runner'.pc \in {"idle", "claimed", "checked", "loop", "proposed", "blocking", "cleanup"},
           runner'.proc = None => runner'.pc = "idle"
    PROVE  PlaceMatchesRecord'
BY DEF PlaceMatchesRecord

\* The milestone whose turn it is gets a new mark that fits the world.
LEMMA MarkKeeps ==
    ASSUME TaskInv, NEW m \in Milestone, Turn(m), NEW state \in {"ready", "executed"},
           MarkMilestone(m, state), UNCHANGED <<flying, effects>>,
           state = "ready" => effects[m] = 0 /\ flying[m] = 0,
           state = "executed" => effects[m] = 1 /\ flying[m] = 0
    PROVE  /\ WorldMatchesRecord' /\ InOrder'
           /\ task'.status = task.status /\ task'.calls = task.calls
           /\ task'.cgen = task.cgen
           /\ \A n \in Milestone : Turn(n)' <=> Turn(n)
           /\ task'.ms[m] = state /\ ~AllVerified'
<1>1. /\ task'.status = task.status /\ task'.calls = task.calls
      /\ task'.cgen = task.cgen /\ task'.ms = [task.ms EXCEPT ![m] = state]
  BY MarkFacts DEF TaskInv, TypeOK, MilestoneStates
<1>2. task.ms \in [Milestone -> MilestoneStates]
  BY DEF TaskInv, TypeOK, Tasks, MilestoneStates
<1>3. \A n \in Milestone : task'.ms[n] = IF n = m THEN state ELSE task.ms[n]
  BY <1>1, <1>2
<1>4. \A n \in Milestone : task'.ms[n] = "verified" <=> task.ms[n] = "verified"
  BY <1>3 DEF Turn
<1>5. \A n \in Milestone : Turn(n)' <=> Turn(n)
  BY <1>4 DEF Turn
<1>6. WorldMatchesRecord'
  BY <1>3 DEF TaskInv, WorldMatchesRecord
<1>7. InOrder'
  BY <1>3, <1>4 DEF TaskInv, InOrder, Turn
<1>8. ~AllVerified'
  BY <1>4 DEF AllVerified, Turn
<1>9. QED
  BY <1>1, <1>3, <1>5, <1>6, <1>7, <1>8

LEMMA RunInv ==
    ASSUME TaskInv, Run
    PROVE  TaskInv'
<1> USE DEF TaskInv
<1>0. TypeOK' /\ runner.proc # None
  BY RunType DEF Run, CheckSession, TakeSupervisor, ResumeSession, VerifierPasses,
     CallFails, Complete, Block, CloseSession, Cancel, At
<1> DEFINE Place == \/ runner'.pc \in {"checked", "loop", "blocking", "cleanup"}
                         /\ runner'.proc = runner.proc
                    \/ runner' = NoRunner
<1>1. CASE CheckSession \/ TakeSupervisor \/ CallFails
  <2>1. runner'.pc \in {"checked", "loop", "blocking"} /\ runner'.proc = runner.proc
    <3>1. CASE CheckSession
      BY <3>1, RunnerUpdates DEF CheckSession, TypeOK
    <3>2. CASE TakeSupervisor
      BY <3>2, TakeFacts
    <3>3. CASE CallFails
      BY <3>3, RunnerUpdates DEF CallFails, TypeOK
    <3>4. QED
      BY <1>1, <3>1, <3>2, <3>3
  <2>2. task.status # "verified"
    BY <1>1 DEF CheckSession, TakeSupervisor, CallFails, CompletedIsFinal, At
  <2>3. UNCHANGED <<task, session, flying, effects, invoked, authorized>>
    BY <1>1 DEF CheckSession, TakeSupervisor, CallFails, world
  <2>4. QED
    BY <1>0, <2>1, <2>2, <2>3, QuietKeeps, PlaceIsFree
       DEF Quiet, ReservedAhead, CompletedIsFinal, StoppedMeansCompleted
<1>2. CASE ResumeSession
  <2>1. runner'.pc \in {"loop", "blocking"} /\ runner'.proc = runner.proc /\ Quiet
        /\ session'.status # "stopped"
    BY <1>2, ResumeFacts DEF ResumeSession, Quiet, world
  <2>2. task.status # "verified" /\ UNCHANGED <<task, invoked, authorized>>
    BY <1>2 DEF ResumeSession, CompletedIsFinal, At
  <2>3. QED
    BY <1>0, <2>1, <2>2, QuietKeeps, PlaceIsFree
       DEF ReservedAhead, CompletedIsFinal, StoppedMeansCompleted
<1>3. CASE VerifierPasses
  <2>1. runner'.pc = "accept" /\ runner'.proc = runner.proc /\ Quiet
        /\ runner.pc = "inside" /\ runner.phase = "verify"
    BY <1>3, RunnerUpdates DEF VerifierPasses, TypeOK, Quiet, world, At
  <2>2. task.status # "verified" /\ UNCHANGED <<task, session, invoked, authorized>>
    BY <1>3 DEF VerifierPasses, CompletedIsFinal, At
  <2>3. PlaceMatchesRecord'
    BY <1>0, <2>1, <2>2, QuietKeeps DEF PlaceMatchesRecord
  <2>4. QED
    BY <1>0, <2>1, <2>2, <2>3, QuietKeeps
       DEF ReservedAhead, CompletedIsFinal, StoppedMeansCompleted
<1>4. CASE Complete
  <2>1. UNCHANGED <<flying, effects, session, invoked, authorized>>
        /\ runner.pc = "loop" /\ AllVerified /\ task.status # "verified"
    BY <1>4 DEF Complete, world, At, CompletedIsFinal
  <2>2. CASE Running
    <3>1. runner.gen \in Generation
      BY <2>2 DEF Running, TypeOK, Sessions
    <3>2. task'.status = "verified" /\ task'.cgen = runner.gen /\ task'.ms = task.ms
          /\ task'.calls = task.calls
      BY <1>4, <2>2, <3>1, CompleteFacts DEF Complete, TypeOK
    <3>3. runner'.pc = "cleanup" /\ runner'.proc = runner.proc
      BY <1>4, <2>2, RunnerUpdates DEF Complete, TypeOK
    <3>4. session.status = "running" /\ runner.gen # None
      BY <2>2, <3>1, GenerationFacts DEF Running
    <3>5. QED
      BY <1>0, <2>1, <3>2, <3>3, <3>4, QuietKeeps, PlaceIsFree
         DEF Quiet, ReservedAhead, CompletedIsFinal, StoppedMeansCompleted
  <2>3. CASE ~Running
    <3>1. task' = task /\ runner'.pc = "blocking" /\ runner'.proc = runner.proc
      BY <1>4, <2>3, RunnerUpdates DEF Complete, TypeOK
    <3>2. QED
      BY <1>0, <2>1, <3>1, QuietKeeps, PlaceIsFree
         DEF Quiet, ReservedAhead, CompletedIsFinal, StoppedMeansCompleted
  <2>4. QED
    BY <2>2, <2>3
<1>5. CASE Block
  <2>1. UNCHANGED <<flying, effects, session, invoked, authorized>>
        /\ runner' = NoRunner /\ task.status # "verified"
    BY <1>5 DEF Block, world, At, CompletedIsFinal
  <2>2. task'.status = "blocked" /\ task'.ms = task.ms /\ task'.calls = task.calls
    BY <1>5, StatusFacts DEF Block, TypeOK
  <2>3. QED
    BY <1>0, <2>1, <2>2, QuietKeeps, PlaceIsFree, NoRunnerType
       DEF Quiet, ReservedAhead, CompletedIsFinal, StoppedMeansCompleted
<1>6. CASE CloseSession
  <2>1. UNCHANGED <<flying, effects, task, invoked, authorized>>
        /\ runner' = NoRunner /\ task.status = "verified"
    BY <1>6 DEF CloseSession, world, At, CompletedIsFinal
  <2>2. StoppedMeansCompleted'
    <3>1. CASE session.gen = task.cgen /\ session.status # "stopped"
      BY <1>6, <2>1, <3>1, SessionFacts DEF CloseSession, TypeOK, StoppedMeansCompleted
    <3>2. CASE ~(session.gen = task.cgen /\ session.status # "stopped")
      BY <1>6, <2>1, <3>2 DEF CloseSession, StoppedMeansCompleted
    <3>3. QED
      BY <3>1, <3>2
  <2>3. QED
    BY <1>0, <2>1, <2>2, QuietKeeps, PlaceIsFree, NoRunnerType
       DEF Quiet, ReservedAhead, CompletedIsFinal
<1>7. CASE Cancel
  <2>1. runner' = NoRunner /\ UNCHANGED <<flying, effects, session, invoked, authorized>>
        /\ task.status # "verified"
    BY <1>7 DEF Cancel, world, At, CompletedIsFinal
  <2>2. CASE task' = task
    BY <1>0, <2>1, <2>2, QuietKeeps, PlaceIsFree, NoRunnerType
       DEF Quiet, ReservedAhead, CompletedIsFinal, StoppedMeansCompleted
  <2>3. ASSUME NEW m \in Milestone, Turn(m), MarkMilestone(m, "ready"),
               runner.pc = "reserved", runner.phase = "execute"
        PROVE  TaskInv'
    <3>1. effects[m] = 0 /\ flying[m] = 0
      BY <2>3 DEF PlaceMatchesRecord
    <3>2. /\ WorldMatchesRecord' /\ InOrder' /\ task'.status = task.status
          /\ task'.calls = task.calls
      BY <2>1, <2>3, <3>1, MarkKeeps
    <3>3. QED
      BY <1>0, <2>1, <3>2, PlaceIsFree, NoRunnerType
         DEF ReservedAhead, CompletedIsFinal, StoppedMeansCompleted
  <2>4. QED
    BY <1>7, <2>2, <2>3 DEF Cancel, At
<1>8. QED
  BY <1>1, <1>2, <1>3, <1>4, <1>5, <1>6, <1>7 DEF Run

LEMMA WorkInv ==
    ASSUME TaskInv, NEW m \in Milestone, Work(m)
    PROVE  TaskInv'
<1> USE DEF TaskInv
<1>0. /\ TypeOK' /\ runner.proc # None /\ Turn(m) /\ task.status # "verified"
      /\ UNCHANGED <<session, authorized>>
  BY WorkType DEF Work, Propose, Calling, Reserve, CannotCall, Refuse, Invoke,
     ActionReturns, Recover, Accept, At, CompletedIsFinal
<1>9. ASSUME task'.status # "verified", runner'.pc # "cleanup"
      PROVE  CompletedIsFinal' /\ StoppedMeansCompleted'
  BY <1>0, <1>9 DEF CompletedIsFinal, StoppedMeansCompleted
<1>1. CASE Propose(m)
  <2>1. /\ task'.status = "proposed" /\ task'.ms = task.ms /\ task'.calls = task.calls
        /\ runner'.pc = "proposed" /\ runner'.proc = runner.proc
        /\ UNCHANGED <<flying, effects, invoked>>
    BY <1>1, StatusFacts, RunnerUpdates DEF Propose, TypeOK, world
  <2>2. QED
    BY <1>0, <1>9, <2>1, QuietKeeps, PlaceIsFree DEF Quiet, ReservedAhead
<1>2. CASE CannotCall(m)
  <2>1. /\ UNCHANGED <<task, flying, effects, invoked>>
        /\ runner'.pc = "blocking" /\ runner'.proc = runner.proc
    BY <1>2, RunnerUpdates DEF CannotCall, TypeOK, world
  <2>2. QED
    BY <1>0, <1>9, <2>1, QuietKeeps, PlaceIsFree DEF Quiet, ReservedAhead
<1>3. CASE Reserve(m)
  <2>1. /\ task'.calls = task.calls + 1 /\ task'.status # "verified"
        /\ task'.ms = IF task.ms[m] = "ready" THEN [task.ms EXCEPT ![m] = "pending"]
                      ELSE task.ms
        /\ runner'.pc = "reserved" /\ runner'.proc = runner.proc
        /\ runner'.phase = Phase(m)
    BY <1>3, ReserveFacts DEF TypeOK
  <2>2. UNCHANGED <<flying, effects, invoked>>
    BY <1>3 DEF Reserve, world
  <2>3. task.ms \in [Milestone -> MilestoneStates]
    BY DEF TypeOK, Tasks, MilestoneStates
  <2>4. \A n \in Milestone : task'.ms[n] = IF n = m /\ task.ms[m] = "ready"
                                           THEN "pending" ELSE task.ms[n]
    BY <2>1, <2>3
  <2>5. \A n \in Milestone : Turn(n)' => n = m
    <3>1. \A n \in Milestone : Turn(n)' => Turn(n)
      BY <1>0, <2>4 DEF Turn
    <3>2. QED
      BY <1>0, <3>1, OneTurn
  <2>6. WorldMatchesRecord'
    BY <2>2, <2>4 DEF WorldMatchesRecord, TypeOK
  <2>7. InOrder'
    BY <1>0, <2>4 DEF InOrder, Turn
  <2>8. PlaceMatchesRecord'
    <3>1. task.ms[m] \in {"ready", "pending", "executed"}
      BY <1>0, <2>3 DEF Turn, MilestoneStates
    <3>2. /\ Phase(m) = "execute" => task.ms[m] = "ready"
          /\ Phase(m) = "recover" => task.ms[m] = "pending"
          /\ Phase(m) = "verify" => task.ms[m] = "executed"
      BY <3>1 DEF Phase
    <3>3. /\ Phase(m) = "execute" => task'.ms[m] = "pending" /\ effects[m] = 0 /\ flying[m] = 0
          /\ Phase(m) = "recover" => task'.ms[m] = "pending"
          /\ Phase(m) = "verify" => task'.ms[m] = "executed"
      BY <2>4, <3>2 DEF WorldMatchesRecord
    <3>4. QED
      BY <1>0, <2>1, <2>2, <2>5, <3>3 DEF PlaceMatchesRecord
  <2>9. ReservedAhead'
    BY <2>1, <2>2 DEF ReservedAhead, TypeOK, Tasks
  <2>10. QED
    BY <1>0, <1>9, <2>1, <2>6, <2>7, <2>8, <2>9
<1>4. CASE Refuse(m)
  <2>1. /\ UNCHANGED <<flying, effects, invoked>>
        /\ runner'.pc = "blocking" /\ runner'.proc = runner.proc
        /\ runner.pc = "reserved"
    BY <1>4, RunnerUpdates DEF Refuse, TypeOK, world, At
  <2>2. CASE runner.phase = "execute"
    <3>1. effects[m] = 0 /\ flying[m] = 0
      BY <1>0, <2>1, <2>2 DEF PlaceMatchesRecord
    <3>2. /\ WorldMatchesRecord' /\ InOrder' /\ task'.status = task.status
          /\ task'.calls = task.calls
      BY <1>0, <1>4, <2>1, <2>2, <3>1, MarkKeeps DEF Refuse
    <3>3. QED
      BY <1>0, <1>9, <2>1, <3>2, PlaceIsFree DEF ReservedAhead
  <2>3. CASE runner.phase # "execute"
    <3>1. task' = task
      BY <1>4, <2>3 DEF Refuse
    <3>2. QED
      BY <1>0, <1>9, <2>1, <3>1, QuietKeeps, PlaceIsFree DEF Quiet, ReservedAhead
  <2>4. QED
    BY <2>2, <2>3
<1>5. CASE Invoke(m)
  <2>1. /\ UNCHANGED <<task, effects>> /\ invoked' = invoked + 1
        /\ runner'.pc = "inside" /\ runner'.proc = runner.proc
        /\ runner'.phase = runner.phase /\ runner.pc = "reserved"
    BY <1>5, RunnerUpdates DEF Invoke, TypeOK, At
  <2>2. \A n \in Milestone : flying'[n] = IF n = m /\ runner.phase = "execute"
                                          THEN flying[n] + 1 ELSE flying[n]
    BY <1>5 DEF Invoke, TypeOK
  <2>3. /\ runner.phase = "execute" => /\ task.ms[m] = "pending"
                                       /\ effects[m] = 0 /\ flying[m] = 0
        /\ runner.phase = "recover" => task.ms[m] = "pending"
        /\ runner.phase = "verify" => task.ms[m] = "executed"
    BY <1>0, <2>1 DEF PlaceMatchesRecord
  <2>4. WorldMatchesRecord'
    BY <2>1, <2>2, <2>3 DEF WorldMatchesRecord
  <2>5. InOrder' /\ \A n \in Milestone : Turn(n)' => n = m
    BY <1>0, <2>1, OneTurn DEF InOrder, Turn
  <2>6. PlaceMatchesRecord'
    BY <1>0, <2>1, <2>3, <2>5 DEF PlaceMatchesRecord
  <2>7. ReservedAhead'
    BY <2>1 DEF ReservedAhead, TypeOK, Tasks
  <2>8. QED
    BY <1>0, <1>9, <2>1, <2>4, <2>5, <2>6, <2>7
<1>6. CASE ActionReturns(m)
  <2>1. /\ UNCHANGED <<flying, effects, invoked>> /\ MarkMilestone(m, "executed")
        /\ runner'.pc = "loop" /\ runner'.proc = runner.proc
        /\ runner.pc = "inside" /\ runner.phase = "execute"
        /\ flying[m] = 0 /\ effects[m] > 0
    BY <1>6, RunnerUpdates DEF ActionReturns, TypeOK, world, At
  <2>2. effects[m] = 1
    BY <1>0, <2>1 DEF PlaceMatchesRecord, WorldMatchesRecord, TypeOK
  <2>3. QED
    BY <1>0, <1>9, <2>1, <2>2, MarkKeeps, PlaceIsFree DEF ReservedAhead
<1>7. CASE Recover(m)
  <2>1. /\ UNCHANGED <<flying, effects, invoked>>
        /\ \/ effects[m] > 0 /\ MarkMilestone(m, "executed")
           \/ effects[m] = 0 /\ flying[m] = 0 /\ MarkMilestone(m, "ready")
        /\ runner'.pc = "loop" /\ runner'.proc = runner.proc
        /\ runner.pc = "inside" /\ runner.phase = "recover"
    BY <1>7, RunnerUpdates DEF Recover, TypeOK, world, At
  <2>2. effects[m] > 0 => effects[m] = 1 /\ flying[m] = 0
    BY <1>0, <2>1 DEF PlaceMatchesRecord, WorldMatchesRecord, TypeOK
  <2>3. QED
    BY <1>0, <1>9, <2>1, <2>2, MarkKeeps, PlaceIsFree DEF ReservedAhead
<1>8. CASE Accept(m)
  <2>1. /\ UNCHANGED <<flying, effects, invoked>>
        /\ runner'.pc \in {"loop", "blocking"} /\ runner'.proc = runner.proc
        /\ runner.pc = "accept"
    BY <1>8, RunnerUpdates DEF Accept, TypeOK, world, At
  <2>2. CASE task' = task
    BY <1>0, <1>9, <2>1, <2>2, QuietKeeps, PlaceIsFree DEF Quiet, ReservedAhead
  <2>3. CASE Running
    <3>1. /\ task'.status = "running" /\ task'.calls = task.calls
          /\ task'.ms = [task.ms EXCEPT ![m] = "verified"]
      BY <1>8, <2>3, AcceptFacts DEF Accept, TypeOK
    <3>2. task.ms \in [Milestone -> MilestoneStates] /\ task.ms[m] = "executed"
      BY <1>0, <2>1 DEF TypeOK, Tasks, MilestoneStates, PlaceMatchesRecord
    <3>3. \A n \in Milestone : task'.ms[n] = IF n = m THEN "verified" ELSE task.ms[n]
      BY <3>1, <3>2
    <3>4. WorldMatchesRecord'
      BY <2>1, <3>2, <3>3 DEF WorldMatchesRecord
    <3>5. InOrder'
      BY <1>0, <3>2, <3>3 DEF InOrder, Turn
    <3>6. QED
      BY <1>0, <1>9, <2>1, <3>1, <3>4, <3>5, PlaceIsFree DEF ReservedAhead
  <2>4. QED
    BY <1>8, <2>2, <2>3 DEF Accept
<1>10. QED
  BY <1>1, <1>2, <1>3, <1>4, <1>5, <1>6, <1>7, <1>8 DEF Work

LEMMA OutsideInv ==
    ASSUME TaskInv, \/ OperatorPauses
                    \/ \E p \in Process : Claim(p) \/ Crash(p) \/ Operate(p)
                    \/ \E m \in Milestone : Land(m) \/ Vanish(m)
    PROVE  TaskInv'
<1> USE DEF TaskInv
<1>0. TypeOK'
  BY OutsideType
\* A step of an operator.
<1>1. ASSUME UNCHANGED <<task, runner, flying, effects, invoked>>,
             session'.status = "stopped" => ~authorized'
      PROVE  TaskInv'
  BY <1>0, <1>1, QuietKeeps
     DEF Quiet, PlaceMatchesRecord, ReservedAhead, CompletedIsFinal, StoppedMeansCompleted
<1>2. CASE OperatorPauses
  BY <1>1, <1>2 DEF OperatorPauses, world
<1>3. ASSUME NEW p \in Process, Claim(p) PROVE TaskInv'
  <2>1. /\ UNCHANGED <<session, task, flying, effects, invoked, authorized>>
        /\ runner'.proc = p
        /\ runner'.pc = IF task.status = "verified" THEN "cleanup" ELSE "claimed"
    BY <1>3 DEF Claim, world
  <2>2. runner'.pc \in {"claimed", "cleanup"} /\ runner'.proc # None
    BY <2>1, TaskAssumption
  <2>3. QED
    BY <1>0, <2>1, <2>2, QuietKeeps, PlaceIsFree
       DEF Quiet, ReservedAhead, CompletedIsFinal, StoppedMeansCompleted
<1>4. ASSUME NEW p \in Process, Crash(p) PROVE TaskInv'
  <2>1. UNCHANGED <<session, task, flying, effects, invoked, authorized>>
    BY <1>4 DEF Crash, world
  <2>2. runner' = runner \/ runner' = NoRunner
    BY <1>4 DEF Crash
  <2>3. WorldMatchesRecord' /\ InOrder' /\ (AllVerified' <=> AllVerified)
    BY <2>1, QuietKeeps DEF Quiet
  <2>4. PlaceMatchesRecord'
    BY <2>1, <2>2, NoRunnerType, PlaceIsFree, QuietKeeps DEF Quiet, PlaceMatchesRecord
  <2>5. ReservedAhead' /\ CompletedIsFinal' /\ StoppedMeansCompleted'
    BY <2>1, <2>2, <2>3, NoRunnerType
       DEF ReservedAhead, CompletedIsFinal, StoppedMeansCompleted
  <2>6. QED
    BY <1>0, <2>3, <2>4, <2>5
<1>5. ASSUME NEW p \in Process, OperatorStops(p) PROVE TaskInv'
  BY <1>1, <1>5 DEF OperatorStops, world
<1>6. ASSUME NEW p \in Process, OperatorResumes(p) PROVE TaskInv'
  <2>1. session'.status # "stopped"
    BY <1>6, SessionFacts DEF OperatorResumes, TypeOK
  <2>2. QED
    BY <1>1, <1>6, <2>1 DEF OperatorResumes, world
<1>7. ASSUME NEW p \in Process, OperatorRestarts(p) PROVE TaskInv'
  BY <1>0, <1>7, QuietKeeps
     DEF OperatorRestarts, world, Quiet, PlaceMatchesRecord, ReservedAhead,
         CompletedIsFinal, StoppedMeansCompleted
\* An attempt can only be in flight for a milestone that is pending.
<1>8. ASSUME NEW m \in Milestone, Land(m) \/ Vanish(m) PROVE TaskInv'
  <2>1. UNCHANGED <<session, task, runner, invoked, authorized>> /\ flying[m] > 0
    BY <1>8 DEF Land, Vanish
  <2>2. task.ms[m] \in MilestoneStates /\ flying \in [Milestone -> Nat]
        /\ effects \in [Milestone -> Nat]
    BY DEF TypeOK, Tasks, MilestoneStates
  <2>3. task.ms[m] = "pending" /\ flying[m] = 1 /\ effects[m] = 0
    BY <2>1, <2>2 DEF WorldMatchesRecord, MilestoneStates
  <2>4. /\ \A n \in Milestone \ {m} : flying'[n] = flying[n] /\ effects'[n] = effects[n]
        /\ effects'[m] + flying'[m] <= 1
    BY <1>8, <2>2, <2>3 DEF Land, Vanish
  <2>5. WorldMatchesRecord'
    BY <2>1, <2>3, <2>4 DEF WorldMatchesRecord
  <2>6. PlaceMatchesRecord'
    BY <2>1, <2>3, <2>4 DEF PlaceMatchesRecord, Turn
  <2>7. InOrder' /\ ReservedAhead' /\ CompletedIsFinal' /\ StoppedMeansCompleted'
    BY <2>1 DEF InOrder, ReservedAhead, CompletedIsFinal, StoppedMeansCompleted, AllVerified
  <2>8. QED
    BY <1>0, <2>5, <2>6, <2>7
<1>9. QED
  BY <1>2, <1>3, <1>4, <1>5, <1>6, <1>7, <1>8 DEF Operate

LEMMA InitInv == Init => TaskInv
<1> SUFFICES ASSUME Init PROVE TaskInv
  OBVIOUS
<1>1. TypeOK
  BY InitType
<1>2. WorldMatchesRecord /\ InOrder
  BY DEF Init, WorldMatchesRecord, InOrder
<1>3. PlaceMatchesRecord /\ ReservedAhead /\ CompletedIsFinal /\ StoppedMeansCompleted
  BY NoRunnerType DEF Init, PlaceMatchesRecord, ReservedAhead, CompletedIsFinal,
     StoppedMeansCompleted
<1>4. QED
  BY <1>1, <1>2, <1>3 DEF TaskInv

LEMMA InvKept == TaskInv /\ [Next]_vars => TaskInv'
<1>1. ASSUME TaskInv, UNCHANGED vars PROVE TaskInv'
  <2>1. TypeOK'
    BY <1>1, TypeKept DEF TaskInv
  <2>2. QED
    BY <1>1, <2>1, QuietKeeps DEF vars, TaskInv, Quiet, PlaceMatchesRecord,
       ReservedAhead, CompletedIsFinal, StoppedMeansCompleted
<1>2. QED
  BY <1>1, RunInv, WorkInv, OutsideInv DEF Next

-----------------------------------------------------------------------------
LEMMA InvHolds == Spec => []TaskInv
BY InitInv, InvKept, PTL DEF Spec

\* No action of a milestone takes effect twice, nor can it while an attempt is
\* still under way, whatever crashes, failures and cancellations there are.
THEOREM RunsOnce == Spec => []ActionsRunOnce
<1>1. TaskInv => ActionsRunOnce
  <2> SUFFICES ASSUME TaskInv, NEW m \in Milestone PROVE effects[m] + flying[m] <= 1
    BY DEF ActionsRunOnce
  <2>1. task.ms[m] \in MilestoneStates /\ flying[m] \in Nat /\ effects[m] \in Nat
    BY DEF TaskInv, TypeOK, Tasks, MilestoneStates
  <2>2. QED
    BY <2>1 DEF TaskInv, WorldMatchesRecord, MilestoneStates
<1>2. QED
  BY <1>1, InvHolds, PTL

\* No callback begins without a stored reservation, so no crash makes the task
\* call more often than its lifetime limit.
THEOREM Reserved == Spec => [](CallsAreReserved /\ invoked <= MaxCalls)
<1>1. TaskInv => CallsAreReserved /\ invoked <= MaxCalls
  BY DEF TaskInv, ReservedAhead, CallsAreReserved, TypeOK, Tasks
<1>2. QED
  BY <1>1, InvHolds, PTL

\* Cleaning up after a completed task never stops a generation that did not
\* complete it.
THEOREM CleanupIsFenced == Spec => []StoppedMeansCompleted
<1>1. TaskInv => StoppedMeansCompleted
  BY DEF TaskInv
<1>2. QED
  BY <1>1, InvHolds, PTL

LEMMA CompletionStep ==
    ASSUME TaskInv, Next, task.status # "verified", task'.status = "verified"
    PROVE  /\ Complete /\ Running
           /\ session.status = "running" /\ task'.cgen = session.gen
<1> USE DEF TaskInv
<1>1. task \in Tasks /\ task' # task
  BY DEF TypeOK
<1>2. CASE Complete
  <2>1. Running
    BY <1>1, <1>2 DEF Complete
  <2>2. runner.gen \in Generation
    BY <2>1 DEF Running, TypeOK, Sessions
  <2>3. QED
    BY <1>1, <1>2, <2>1, <2>2, CompleteFacts DEF Complete, Running
<1>3. CASE Block
  BY <1>1, <1>3, StatusFacts DEF Block
<1>4. CASE Cancel
  BY <1>1, <1>4, MarkFacts DEF Cancel, MilestoneStates
<1>5. ASSUME NEW m \in Milestone, Work(m) PROVE FALSE
  <2>1. CASE Propose(m)
    BY <1>1, <2>1, StatusFacts DEF Propose
  <2>2. CASE Reserve(m)
    BY <2>2, ReserveFacts DEF TypeOK
  <2>3. CASE Refuse(m) \/ ActionReturns(m) \/ Recover(m)
    BY <1>1, <2>3, MarkFacts DEF Refuse, ActionReturns, Recover, MilestoneStates
  <2>4. CASE Accept(m)
    BY <1>1, <2>4, AcceptFacts DEF Accept
  <2>5. QED
    BY <1>1, <1>5, <2>1, <2>2, <2>3, <2>4 DEF Work, CannotCall, Invoke
<1>6. QED
  BY <1>1, <1>2, <1>3, <1>4, <1>5
     DEF Next, Run, CheckSession, TakeSupervisor, ResumeSession, VerifierPasses, CallFails,
         CloseSession, OperatorPauses, Claim, Crash, Operate, OperatorStops,
         OperatorResumes, OperatorRestarts, Land, Vanish

\* The step that completes the task finds the session running, in the
\* generation it certifies, although the worker was authorized long before.
THEOREM Authorized == Spec => CompletionIsAuthorized
<1>1. TaskInv /\ [Next]_vars =>
        [(task.status # "verified" /\ task'.status = "verified")
            => session.status = "running" /\ task'.cgen = session.gen]_vars
  BY CompletionStep DEF vars
<1>2. QED
  BY <1>1, InvHolds, PTL DEF Spec, CompletionIsAuthorized

-----------------------------------------------------------------------------
\* The contract.

Accepted == {m \in Milestone : task.ms[m] = "verified"}
Completed == task.status = "verified"

\* A step that performs, accepts and completes nothing.
LEMMA Stutters ==
    ASSUME effects' = effects, Accepted' = Accepted, Completed' <=> Completed
    PROVE  UNCHANGED Contract!contractVars
BY DEF Contract!contractVars, Accepted, Completed

LEMMA ContractInit == Init => Contract!ContractInit
BY DEF Init, Contract!ContractInit, Milestone

LEMMA KeptMilestones ==
    ASSUME task'.ms = task.ms PROVE Accepted' = Accepted
BY DEF Accepted

LEMMA MarkedMilestone ==
    ASSUME TaskInv, NEW m \in Milestone, Turn(m), NEW state \in {"ready", "executed"},
           MarkMilestone(m, state)
    PROVE  Accepted' = Accepted /\ (Completed' <=> Completed)
<1>1. task.ms \in [Milestone -> MilestoneStates] /\ task \in Tasks
  BY DEF TaskInv, TypeOK, Tasks, MilestoneStates
<1>2. task'.ms = [task.ms EXCEPT ![m] = state] /\ task'.status = task.status
  BY <1>1, MarkFacts DEF MilestoneStates
<1>3. \A n \in Milestone : task'.ms[n] = "verified" <=> task.ms[n] = "verified"
  BY <1>1, <1>2 DEF Turn
<1>4. QED
  BY <1>2, <1>3 DEF Accepted, Completed

LEMMA RunContract ==
    ASSUME TaskInv, Run
    PROVE  Contract!Finish \/ UNCHANGED Contract!contractVars
<1> USE DEF TaskInv
<1>1. task \in Tasks /\ effects' = effects
  BY DEF TypeOK, Run, CheckSession, TakeSupervisor, ResumeSession, VerifierPasses, CallFails,
     Complete, Block, CloseSession, Cancel, world
<1>2. CASE Complete
  <2>1. CASE Running
    <3>1. task'.status = "verified" /\ task'.ms = task.ms /\ AllVerified
          /\ task.status # "verified"
      <4>1. runner.gen \in Generation
        BY <2>1 DEF Running, TypeOK, Sessions
      <4>2. QED
        BY <1>1, <1>2, <2>1, <4>1, CompleteFacts DEF Complete, CompletedIsFinal, At
    <3>2. Accepted = 1..Last /\ Accepted' = Accepted
      BY <3>1, KeptMilestones DEF Accepted, AllVerified, Milestone
    <3>3. QED
      BY <1>1, <3>1, <3>2 DEF Contract!Finish, Accepted
  <2>2. QED
    BY <1>1, <1>2, <2>1, KeptMilestones, Stutters DEF Complete, Completed
<1>3. CASE Block
  <2>1. task.status # "verified"
    BY <1>3 DEF Block, CompletedIsFinal, At
  <2>2. task'.status = "blocked" /\ task'.ms = task.ms
    BY <1>1, <1>3, StatusFacts DEF Block
  <2>3. QED
    BY <1>1, <2>1, <2>2, KeptMilestones, Stutters DEF Completed
<1>4. CASE Cancel /\ task' # task
  <2>1. PICK m \in Milestone : Turn(m) /\ MarkMilestone(m, "ready")
    BY <1>4 DEF Cancel
  <2>2. QED
    BY <1>1, <2>1, MarkedMilestone, Stutters
<1>5. CASE task' = task
  BY <1>1, <1>5, KeptMilestones, Stutters DEF Completed
<1>6. QED
  BY <1>2, <1>3, <1>4, <1>5
     DEF Run, CheckSession, TakeSupervisor, ResumeSession, VerifierPasses, CallFails,
         CloseSession

LEMMA WorkContract ==
    ASSUME TaskInv, NEW m \in Milestone, Work(m)
    PROVE  Contract!Accept(m) \/ UNCHANGED Contract!contractVars
<1> USE DEF TaskInv
<1>1. /\ task \in Tasks /\ effects' = effects /\ Turn(m) /\ task.status # "verified"
  BY DEF TypeOK, Work, Propose, Calling, Reserve, CannotCall, Refuse, Invoke,
     ActionReturns, Recover, Accept, At, CompletedIsFinal, world
<1>2. CASE Propose(m)
  BY <1>1, <1>2, StatusFacts, KeptMilestones, Stutters DEF Propose, Completed
<1>3. CASE Reserve(m)
  <2>1. task'.status # "verified"
        /\ task'.ms = IF task.ms[m] = "ready" THEN [task.ms EXCEPT ![m] = "pending"]
                      ELSE task.ms
    BY <1>3, ReserveFacts DEF TypeOK
  <2>2. task.ms \in [Milestone -> MilestoneStates]
    BY <1>1 DEF Tasks, MilestoneStates
  <2>3. \A n \in Milestone : task'.ms[n] = "verified" <=> task.ms[n] = "verified"
    BY <2>1, <2>2
  <2>4. QED
    BY <1>1, <2>1, <2>3, Stutters DEF Accepted, Completed
<1>4. CASE (Refuse(m) \/ ActionReturns(m) \/ Recover(m)) /\ task' # task
  <2>1. MarkMilestone(m, "ready") \/ MarkMilestone(m, "executed")
    BY <1>4 DEF Refuse, ActionReturns, Recover
  <2>2. QED
    BY <1>1, <2>1, MarkedMilestone, Stutters
<1>5. CASE Accept(m) /\ task' # task
  <2>1. task'.status = "running" /\ task'.ms = [task.ms EXCEPT ![m] = "verified"]
    BY <1>1, <1>5, AcceptFacts DEF Accept
  <2>2. task.ms \in [Milestone -> MilestoneStates]
    BY <1>1 DEF Tasks, MilestoneStates
  <2>3. Accepted' = Accepted \cup {m}
    BY <2>1, <2>2 DEF Accepted
  <2>4. task.ms[m] = "executed"
    BY <1>1, <1>5 DEF Accept, At, PlaceMatchesRecord
  <2>5. effects[m] = 1 /\ m \notin Accepted
    BY <2>4 DEF WorldMatchesRecord, Accepted
  <2>6. Contract!Ahead(m) \subseteq Accepted
    BY <1>1 DEF Contract!Ahead, Accepted, Turn, Milestone
  <2>7. QED
    BY <1>1, <2>1, <2>3, <2>5, <2>6 DEF Contract!Accept, Accepted
<1>6. CASE task' = task
  BY <1>1, <1>6, KeptMilestones, Stutters DEF Completed
<1>7. QED
  BY <1>2, <1>3, <1>4, <1>5, <1>6 DEF Work, CannotCall, Invoke

LEMMA LandContract ==
    ASSUME TaskInv, NEW m \in Milestone, Land(m)
    PROVE  Contract!Perform(m)
<1> USE DEF TaskInv
<1>1. task.ms[m] \in MilestoneStates /\ flying[m] \in Nat /\ effects[m] \in Nat
      /\ effects \in [Milestone -> Nat]
  BY DEF TypeOK, Tasks, MilestoneStates
<1>2. task.ms[m] = "pending" /\ effects[m] = 0
  BY <1>1 DEF Land, WorldMatchesRecord, MilestoneStates
<1>3. Contract!Ahead(m) \subseteq Accepted
  BY <1>2 DEF Contract!Ahead, Accepted, InOrder, Milestone
<1>4. effects' = [effects EXCEPT ![m] = 1] /\ task' = task
  BY <1>1, <1>2 DEF Land
<1>5. QED
  BY <1>2, <1>3, <1>4 DEF Contract!Perform, Accepted

\* The task keeps its contract: seen from outside, each action takes effect
\* once, in order, after everything ahead of it was accepted, and the task is
\* complete when all is; every other step of any process is invisible.
THEOREM KeepsContract == Spec => ImplementsContract
<1>1. TaskInv /\ [Next]_vars => [Contract!ContractNext]_(Contract!contractVars)
  <2> SUFFICES ASSUME TaskInv, [Next]_vars
               PROVE  Contract!ContractNext \/ UNCHANGED Contract!contractVars
    OBVIOUS
  <2>1. CASE UNCHANGED <<task, effects>>
    BY <2>1, KeptMilestones, Stutters DEF Completed
  <2>2. CASE Run
    BY <2>2, RunContract DEF Contract!ContractNext
  <2>3. ASSUME NEW m \in Milestone, Work(m)
        PROVE  Contract!ContractNext \/ UNCHANGED Contract!contractVars
    BY <2>3, WorkContract DEF Contract!ContractNext, Milestone
  <2>4. ASSUME NEW m \in Milestone, Land(m) PROVE Contract!ContractNext
    BY <2>4, LandContract DEF Contract!ContractNext, Milestone
  <2>5. QED
    BY <2>1, <2>2, <2>3, <2>4
       DEF Next, vars, world, OperatorPauses, Claim, Crash, Operate, OperatorStops,
           OperatorResumes, OperatorRestarts, Vanish
<1>2. QED
  BY <1>1, InvHolds, ContractInit, PTL DEF Spec, ImplementsContract, Contract!ContractSpec
=============================================================================
