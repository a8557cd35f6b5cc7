---------------------------- MODULE DurableTask ----------------------------
(***************************************************************************)
(* DurableTaskRunner (agenthandler/task.py): one task, run again and again *)
(* by worker processes that may die at any point, over one session that    *)
(* operators pause, stop, resume and restart from any process.             *)
(*                                                                         *)
(* The task's and the session's database are separate.  Every change of a  *)
(* milestone or of the reservations is saved before the worker goes on, so *)
(* the worker keeps nothing but its place, its supervisor's generation and *)
(* the phase it is in.  The actions of the milestones take effect in the   *)
(* world outside, at once, late or never.                                  *)
(*                                                                         *)
(* A check of the session followed by a save or a callback is one step: an *)
(* operator's step between the two commutes with the second.  Only where   *)
(* the second changes the session are they two.  Calls, tokens and cost    *)
(* are reserved alike, `calls' stands for each; an `invalid' end is a      *)
(* `blocked' one.                                                          *)
(***************************************************************************)
EXTENDS Integers

CONSTANTS
    Process,      \* each runs a SessionManager and perhaps the task
    None,
    Last,         \* milestones are 1..Last, in order
    Recoverable,  \* milestones with a reconcile callback
    MaxCalls,     \* limits["max_calls"]
    MaxResumes    \* policy.max_resumes

Milestone == 1..Last

ASSUME TaskAssumption ==
    /\ Last \in Nat /\ MaxCalls \in Nat /\ MaxResumes \in Nat
    /\ Recoverable \subseteq Milestone
    /\ None \notin Process \cup Nat

VARIABLES
    session,     \* the stored checkpoint of the session
    registry,    \* generation of the supervisor each process holds, or None
    task,        \* the stored TaskRecord
    runner,      \* the worker inside claim(), its place and phase
    flying,      \* attempts at each action that may still take effect
    effects,     \* how often each action took effect
    invoked,     \* history: callbacks begun
    authorized   \* history: the operator's last word was to let it run

vars == <<session, registry, task, runner, flying, effects, invoked, authorized>>

Generation == 0..MaxResumes

Sessions == [status : {"running", "paused", "stopped", "failed"}, gen : Generation]

Tasks ==
    [status : {"running", "proposed", "verified", "blocked"},
     ms     : [Milestone -> {"ready", "pending", "executed", "verified"}],
     calls  : 0..MaxCalls,
     cgen   : Generation \cup {None}]   \* completion_generation

Runners ==
    [proc  : Process \cup {None},       \* None: nobody holds the claim
     pc    : {"idle", "claimed", "checked", "loop", "proposed", "reserved",
              "inside", "accept", "blocking", "cleanup"},
     gen   : Generation \cup {None},    \* of the supervisor it works with
     phase : {"none", "recover", "execute", "verify"}]

NoRunner == [proc |-> None, pc |-> "idle", gen |-> None, phase |-> "none"]

\* After create, in whatever process.
Init ==
    /\ session = [status |-> "running", gen |-> 0]
    /\ \E p \in Process : registry = [q \in Process |-> IF q = p THEN 0 ELSE None]
    /\ task = [status |-> "running", ms |-> [m \in Milestone |-> "ready"],
               calls |-> 0, cgen |-> None]
    /\ runner = NoRunner
    /\ flying = [m \in Milestone |-> 0]
    /\ effects = [m \in Milestone |-> 0]
    /\ invoked = 0
    /\ authorized = TRUE

-----------------------------------------------------------------------------
world == <<flying, effects>>

At(pc) == runner.proc # None /\ runner.pc = pc

Goto(pc) == runner' = [runner EXCEPT !.pc = pc]

\* (Bug: the generation is not compared.)
RunningAnyGeneration ==
    /\ session.status = "running"
    /\ registry[runner.proc] # None

\* What _require_running and running_guard find.
Running ==
    /\ session.status = "running"
    /\ session.gen = runner.gen
    /\ registry[runner.proc] = runner.gen

\* The milestone the loop is at: the first that is not verified.
Turn(m) ==
    /\ task.ms[m] # "verified"
    /\ \A k \in Milestone : k < m => task.ms[k] = "verified"

AllVerified == \A m \in Milestone : task.ms[m] = "verified"

MarkMilestone(m, state) == task' = [task EXCEPT !.ms = [@ EXCEPT ![m] = state]]

-----------------------------------------------------------------------------
\* run(): claim, authorization and the request.

\* claim() and load; the task was completed earlier, or is to be worked on.
Claim(p) ==
    /\ runner.proc = None
    /\ runner' = [proc |-> p, gen |-> None, phase |-> "none",
                  pc |-> IF task.status = "verified" THEN "cleanup" ELSE "claimed"]
    /\ UNCHANGED <<session, registry, task, world, invoked, authorized>>

CheckSession ==
    /\ At("claimed")
    /\ Goto(IF session.status = "running" THEN "checked" ELSE "blocking")
    /\ UNCHANGED <<session, registry, task, world, invoked, authorized>>

\* The process still holds a supervisor.
TakeSupervisor ==
    /\ At("checked") /\ registry[runner.proc] # None
    /\ runner' = [runner EXCEPT !.gen = registry[runner.proc],
                    !.pc = IF /\ session.status = "running"
                              /\ session.gen = registry[runner.proc]
                           THEN "loop" ELSE "blocking"]
    /\ UNCHANGED <<session, registry, task, world, invoked, authorized>>

\* It does not: SessionManager.resume, which asks for no status.
ResumeSession ==
    /\ At("checked") /\ registry[runner.proc] = None
    /\ IF session.gen < MaxResumes
       THEN /\ session' = [status |-> "running", gen |-> session.gen + 1]
            /\ registry' = [registry EXCEPT ![runner.proc] = session.gen + 1]
            /\ runner' = [runner EXCEPT !.gen = session.gen + 1, !.pc = "loop"]
       ELSE /\ session' = [session EXCEPT !.status = "failed"]
            /\ Goto("blocking")
            /\ UNCHANGED registry
    /\ UNCHANGED <<task, world, invoked, authorized>>

-----------------------------------------------------------------------------
\* The loop over the milestones and _call.

Phase(m) == CASE task.ms[m] = "pending" -> "recover"
              [] task.ms[m] = "ready" -> "execute"
              [] OTHER -> "verify"

\* An action that was executed is proposed before it is verified.
Propose(m) ==
    /\ At("loop") /\ Turn(m) /\ task.ms[m] = "executed"
    /\ task' = [task EXCEPT !.status = "proposed"]
    /\ Goto("proposed")
    /\ UNCHANGED <<session, registry, world, invoked, authorized>>

\* The loop is about to call back in the milestone's next phase.
Calling(m) ==
    /\ Turn(m)
    /\ IF task.ms[m] = "executed" THEN At("proposed") ELSE At("loop")

MayCall(m) ==
    /\ Running /\ task.calls < MaxCalls
    /\ task.ms[m] = "pending" => m \in Recoverable

\* The reservation, and the mark on an action, are saved before the callback.
Reserve(m) ==
    /\ Calling(m) /\ MayCall(m)
    /\ task' = [task EXCEPT
                  !.calls = @ + 1,
                  !.status = IF Phase(m) = "verify" THEN "proposed" ELSE "running",
                  !.ms = IF Phase(m) = "execute" THEN [@ EXCEPT ![m] = "pending"] ELSE @]
    /\ runner' = [runner EXCEPT !.pc = "reserved", !.phase = Phase(m)]
    /\ UNCHANGED <<session, registry, world, invoked, authorized>>

\* Not authorized any more, no budget left, or an uncertain action without a
\* reconciler.
CannotCall(m) ==
    /\ Calling(m) /\ ~MayCall(m)
    /\ Goto("blocking")
    /\ UNCHANGED <<session, registry, task, world, invoked, authorized>>

\* The supervisor, or the last check before the callback, refuses: an action
\* is known not to have run.
Refuse(m) ==
    /\ At("reserved") /\ Turn(m)
    /\ IF runner.phase = "execute" THEN MarkMilestone(m, "ready") ELSE UNCHANGED task
    /\ Goto("blocking")
    /\ UNCHANGED <<session, registry, world, invoked, authorized>>

Invoke(m) ==
    /\ At("reserved") /\ Turn(m) /\ Running
    /\ invoked' = invoked + 1
    /\ flying' = [flying EXCEPT ![m] = IF runner.phase = "execute" THEN @ + 1 ELSE @]
    /\ Goto("inside")
    /\ UNCHANGED <<session, registry, task, effects, authorized>>

\* The action returned its output.
ActionReturns(m) ==
    /\ At("inside") /\ runner.phase = "execute" /\ Turn(m)
    /\ flying[m] = 0 /\ effects[m] > 0
    /\ MarkMilestone(m, "executed")
    /\ Goto("loop")
    /\ UNCHANGED <<session, registry, world, invoked, authorized>>

\* (Bug: a lookup that finds nothing passes for completed.)
RecoverAnything(m) ==
    /\ At("inside") /\ runner.phase = "recover" /\ Turn(m)
    /\ MarkMilestone(m, "executed")
    /\ Goto("loop")
    /\ UNCHANGED <<session, registry, world, invoked, authorized>>

\* The authoritative lookup found the effect, or certified that there is none
\* and will be none; "unknown" is a failing call.
Recover(m) ==
    /\ At("inside") /\ runner.phase = "recover" /\ Turn(m)
    /\ \/ effects[m] > 0 /\ MarkMilestone(m, "executed")
       \/ effects[m] = 0 /\ flying[m] = 0 /\ MarkMilestone(m, "ready")
    /\ Goto("loop")
    /\ UNCHANGED <<session, registry, world, invoked, authorized>>

VerifierPasses ==
    /\ At("inside") /\ runner.phase = "verify"
    /\ Goto("accept")
    /\ UNCHANGED <<session, registry, task, world, invoked, authorized>>

\* (Bug: a failing action is taken not to have run.)
CallFailsReady ==
    /\ At("inside")
    /\ IF runner.phase = "execute"
       THEN \E m \in Milestone : Turn(m) /\ MarkMilestone(m, "ready")
       ELSE UNCHANGED task
    /\ Goto("blocking")
    /\ UNCHANGED <<session, registry, world, invoked, authorized>>

\* The callback raised, timed out, returned something else, was not passed, or
\* its output was refused: an action stays pending, and may be flying.
CallFails ==
    /\ At("inside")
    /\ Goto("blocking")
    /\ UNCHANGED <<session, registry, task, world, invoked, authorized>>

\* Acceptance and completion, each inside running_guard.
Accept(m) ==
    /\ At("accept") /\ Turn(m)
    /\ IF Running
       THEN /\ task' = [task EXCEPT !.status = "running",
                                    !.ms = [@ EXCEPT ![m] = "verified"]]
            /\ Goto("loop")
       ELSE UNCHANGED task /\ Goto("blocking")
    /\ UNCHANGED <<session, registry, world, invoked, authorized>>

Complete ==
    /\ At("loop") /\ AllVerified
    /\ IF Running
       THEN /\ task' = [task EXCEPT !.status = "verified", !.cgen = runner.gen]
            /\ Goto("cleanup")
       ELSE UNCHANGED task /\ Goto("blocking")
    /\ UNCHANGED <<session, registry, world, invoked, authorized>>

Block ==
    /\ At("blocking")
    /\ task' = [task EXCEPT !.status = "blocked"]
    /\ runner' = NoRunner
    /\ UNCHANGED <<session, registry, world, invoked, authorized>>

\* (Bug: plain stop().)
CloseAnyGeneration ==
    /\ At("cleanup")
    /\ session' = [session EXCEPT !.status = "stopped"]
    /\ registry' = [registry EXCEPT ![runner.proc] = None]
    /\ runner' = NoRunner
    /\ UNCHANGED <<task, world, invoked, authorized>>

\* (Bug: only the run that completed the task cleans up.)
CloseOwnSession ==
    /\ At("cleanup")
    /\ IF session.gen = runner.gen
       THEN /\ session' = [session EXCEPT !.status = "stopped"]
            /\ registry' = [registry EXCEPT ![runner.proc] = None]
       ELSE UNCHANGED <<session, registry>>
    /\ runner' = NoRunner
    /\ UNCHANGED <<task, world, invoked, authorized>>

\* _close_session: stop_if_generation.
CloseSession ==
    /\ At("cleanup")
    /\ IF session.gen = task.cgen /\ session.status # "stopped"
       THEN /\ session' = [session EXCEPT !.status = "stopped"]
            /\ registry' = [registry EXCEPT ![runner.proc] = None]
       ELSE UNCHANGED <<session, registry>>
    /\ runner' = NoRunner
    /\ UNCHANGED <<task, world, invoked, authorized>>

-----------------------------------------------------------------------------
\* The process, the operators and the world.

\* The coroutine is cancelled while it awaits the supervisor or the callback.
Cancel ==
    /\ \/ At("inside") /\ UNCHANGED task
       \/ /\ At("reserved")
          /\ \E m \in Milestone :
                /\ Turn(m)
                /\ IF runner.phase = "execute" THEN MarkMilestone(m, "ready")
                                               ELSE UNCHANGED task
    /\ runner' = NoRunner
    /\ UNCHANGED <<session, registry, world, invoked, authorized>>

\* The operating system releases the claim.
Crash(p) ==
    /\ registry' = [registry EXCEPT ![p] = None]
    /\ runner' = IF runner.proc = p THEN NoRunner ELSE runner
    /\ UNCHANGED <<session, task, world, invoked, authorized>>

OperatorPauses ==
    /\ session' = [session EXCEPT !.status = "paused"]
    /\ authorized' = FALSE
    /\ UNCHANGED <<registry, task, runner, world, invoked>>

OperatorStops(p) ==
    /\ session' = [session EXCEPT !.status = "stopped"]
    /\ registry' = [registry EXCEPT ![p] = None]
    /\ authorized' = FALSE
    /\ UNCHANGED <<task, runner, world, invoked>>

OperatorResumes(p) ==
    /\ IF session.gen < MaxResumes
       THEN /\ session' = [status |-> "running", gen |-> session.gen + 1]
            /\ registry' = [registry EXCEPT ![p] = session.gen + 1]
            /\ authorized' = TRUE
       ELSE /\ session' = [session EXCEPT !.status = "failed"]
            /\ UNCHANGED <<registry, authorized>>
    /\ UNCHANGED <<task, runner, world, invoked>>

\* restart: the agent goes on under another session id.
OperatorRestarts(p) ==
    /\ registry' = [registry EXCEPT ![p] = None]
    /\ UNCHANGED <<session, task, runner, world, invoked, authorized>>

\* An attempt takes effect, or can no longer do so.
Land(m) ==
    /\ flying[m] > 0
    /\ flying' = [flying EXCEPT ![m] = @ - 1]
    /\ effects' = [effects EXCEPT ![m] = @ + 1]
    /\ UNCHANGED <<session, registry, task, runner, invoked, authorized>>

Vanish(m) ==
    /\ flying[m] > 0
    /\ flying' = [flying EXCEPT ![m] = @ - 1]
    /\ UNCHANGED <<session, registry, task, runner, effects, invoked, authorized>>

-----------------------------------------------------------------------------
Work(m) ==
    \/ Propose(m) \/ Reserve(m) \/ CannotCall(m) \/ Refuse(m) \/ Invoke(m)
    \/ ActionReturns(m) \/ Recover(m) \/ Accept(m)

Run ==
    \/ CheckSession \/ TakeSupervisor \/ ResumeSession
    \/ VerifierPasses \/ CallFails \/ Complete \/ Block \/ CloseSession \/ Cancel

Operate(p) == OperatorStops(p) \/ OperatorResumes(p) \/ OperatorRestarts(p)

Next ==
    \/ Run \/ OperatorPauses
    \/ \E p \in Process : Claim(p) \/ Crash(p) \/ Operate(p)
    \/ \E m \in Milestone : Work(m) \/ Land(m) \/ Vanish(m)

Spec == Init /\ [][Next]_vars

\* The application runs its task again, and some run lives long enough to
\* close the session.
LiveSpec ==
    /\ Spec
    /\ WF_vars(\E p \in Process : Claim(p))
    /\ SF_vars(CloseSession)

-----------------------------------------------------------------------------
TypeOK ==
    /\ session \in Sessions
    /\ registry \in [Process -> Generation \cup {None}]
    /\ task \in Tasks
    /\ runner \in Runners
    /\ flying \in [Milestone -> Nat]
    /\ effects \in [Milestone -> Nat]
    /\ invoked \in Nat
    /\ authorized \in BOOLEAN

\* "Uncertain effect is not replayed": an action that has taken effect, or may
\* still do so, is never attempted again.
ActionsRunOnce == \A m \in Milestone : effects[m] + flying[m] <= 1

\* "This commit precedes every callback, even across process death"
\* (task.py:417): every callback ever begun is in the stored reservations, and
\* those are never refunded.
CallsAreReserved == invoked <= task.calls

\* Completion is certified only by the generation the session is running in at
\* that moment, however long ago the worker was authorized.
CompletionIsAuthorized ==
    [][(task.status # "verified" /\ task'.status = "verified")
          => session.status = "running" /\ task'.cgen = session.gen]_vars

\* "cleanup cannot stop a newer generation that an operator authorized": a
\* session that nobody told to stop is stopped only by its own completion.
StoppedMeansCompleted ==
    session.status = "stopped" /\ authorized =>
        task.status = "verified" /\ task.cgen = session.gen

\* "A paused/stopped session is not automatically authorized by a fresh worker"
\* (docs/durable-tasks.md:121).
OperatorControlHolds == session.status = "running" => authorized

\* The task keeps its contract.
Contract == INSTANCE TaskContract WITH
    done <- effects,
    accepted <- {m \in Milestone : task.ms[m] = "verified"},
    complete <- task.status = "verified"

ImplementsContract == Contract!ContractSpec

\* "resuming the completed task repairs that cleanup": the session of a
\* completed task is closed in the end, or an operator has opened it anew.
CompletionIsCleanedUp ==
    task.status = "verified" ~> (session.status = "stopped" \/ session.gen # task.cgen)

-----------------------------------------------------------------------------
\* The inductive invariant behind the safety properties.

\* What the record says of an action and what the world did.
WorldMatchesRecord ==
    \A m \in Milestone :
        /\ task.ms[m] = "ready" => effects[m] = 0 /\ flying[m] = 0
        /\ task.ms[m] = "pending" => effects[m] + flying[m] <= 1
        /\ task.ms[m] \in {"executed", "verified"} => effects[m] = 1 /\ flying[m] = 0

\* Milestones are taken in order.
InOrder ==
    \A m \in Milestone :
        task.ms[m] # "ready" => \A k \in Milestone : k < m => task.ms[k] = "verified"

\* Where the worker is fits the record of the milestone it is at.
PlaceMatchesRecord ==
    /\ runner.proc = None => runner.pc = "idle"
    /\ \A m \in Milestone : Turn(m) =>
          /\ runner.pc \in {"reserved", "inside"} =>
                /\ runner.phase = "execute" => task.ms[m] = "pending"
                /\ runner.phase = "recover" => task.ms[m] = "pending"
                /\ runner.phase = "verify" => task.ms[m] = "executed"
          /\ runner.pc = "reserved" /\ runner.phase = "execute" =>
                effects[m] = 0 /\ flying[m] = 0
          /\ runner.pc = "accept" => task.ms[m] = "executed"

\* A reservation is there before its callback begins.
ReservedAhead ==
    /\ invoked <= task.calls
    /\ runner.pc = "reserved" => invoked < task.calls

\* A completed task is only cleaned up.
CompletedIsFinal ==
    /\ runner.pc = "cleanup" => task.status = "verified"
    /\ task.status = "verified" =>
          AllVerified /\ task.cgen # None /\ runner.pc \in {"idle", "cleanup"}

TaskInv ==
    /\ TypeOK /\ WorldMatchesRecord /\ InOrder /\ PlaceMatchesRecord
    /\ ReservedAhead /\ CompletedIsFinal /\ StoppedMeansCompleted
=============================================================================
