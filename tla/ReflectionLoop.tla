--------------------------- MODULE ReflectionLoop ---------------------------
(***************************************************************************)
(* ReflectionLoop.run (agenthandler/reflection.py): think, act, observe    *)
(* and reflect for up to max_cycles, in a session of its own.  The tool    *)
(* call goes through the supervisor, the calls of the language model and   *)
(* of the verifier do not.  Operators pause, stop and resume the session   *)
(* meanwhile; the loop keeps the supervisor that it began with.            *)
(***************************************************************************)
EXTENDS Integers

CONSTANTS
    MaxCycles,   \* values of max_cycles
    MaxThoughts  \* values of policy.max_iterations of the loop's session

ASSUME ReflectionAssumption == MaxCycles \subseteq Nat /\ MaxThoughts \subseteq Nat

VARIABLES
    given,     \* max_cycles, max_iterations, whether there is a verifier
    phase,     \* where the loop is: the phase it is about to begin or awaits
    cycle,     \* cycles begun
    thought,   \* what the think phase of this cycle came to
    status,    \* result.status
    reason,    \* result.stopped_reason, when the loop has broken off
    completed, \* result.completed
    held,      \* its session: not there yet, running, paused or stopped
    fenced,    \* its supervisor is of an earlier generation, or retired
    garbled,   \* a reflection that was kept is no string
    accepted   \* history: the verifier passed the proposal, with evidence

reflectionVars ==
    <<given, phase, cycle, thought, status, reason, completed, held, fenced, garbled,
      accepted>>

ReflectionInit ==
    /\ given \in [cycles : MaxCycles, iterations : MaxThoughts, verifier : BOOLEAN]
    /\ phase = "new" /\ cycle = 0 /\ thought = "none"
    /\ status = "blocked" /\ reason = "none" /\ completed = FALSE
    /\ held = "none" /\ fenced = FALSE /\ garbled = FALSE /\ accepted = FALSE

ownSession == <<held, fenced>>
verdict == <<status, reason, completed>>

-----------------------------------------------------------------------------
Breaks(why) == phase' = "stopping" /\ reason' = why

BreaksInvalid(why) == Breaks(why) /\ status' = "invalid" /\ UNCHANGED completed

\* run() starts the session.
BeginRun ==
    /\ phase = "new" /\ phase' = "think" /\ held' = "running"
    /\ UNCHANGED <<given, cycle, thought, verdict, fenced, garbled, accepted>>

CyclesOut ==
    /\ phase = "think" /\ cycle >= given.cycles /\ Breaks("max_cycles_reached")
    /\ UNCHANGED <<given, cycle, thought, status, completed, ownSession, garbled, accepted>>

\* record_iteration, which does not ask whether the session may go on.
OutOfIterations ==
    /\ phase = "think" /\ cycle < given.cycles /\ cycle >= given.iterations
    /\ cycle' = cycle + 1 /\ Breaks("iteration_limit")
    /\ UNCHANGED <<given, thought, status, completed, ownSession, garbled, accepted>>

\* The prompt shows the cycles so far, outside any try: a reflection that cannot be
\* cut to its first 80 characters raises out of run(), past the session's stop.
BeginThink ==
    /\ phase = "think" /\ cycle < given.cycles /\ cycle < given.iterations
    /\ phase' = IF garbled THEN "raised" ELSE "thinking"
    /\ cycle' = cycle + 1
    /\ UNCHANGED <<given, thought, verdict, ownSession, garbled, accepted>>

\* The call of the model raises.
ThinkFails ==
    /\ phase = "thinking" /\ Breaks("think_error")
    /\ UNCHANGED <<given, cycle, thought, status, completed, ownSession, garbled, accepted>>

\* An answer that is no JSON object, or not of the form asked for, or that names
\* a tool that the loop was not given.
ThinkInvalid ==
    /\ phase = "thinking" /\ BreaksInvalid("invalid_response")
    /\ UNCHANGED <<given, cycle, thought, ownSession, garbled, accepted>>

ThinkBlocked ==
    /\ phase = "thinking" /\ Breaks("blocked")
    /\ UNCHANGED <<given, cycle, thought, status, completed, ownSession, garbled, accepted>>

\* (Bug: the model's done flag counts as completion.)
CompletesOnDone ==
    /\ status' = "proposed" /\ reason' = "completion_proposed" /\ completed' = TRUE
    /\ phase' = IF given.verifier THEN "verifying" ELSE "stopping"

\* _verify_completion begins: without a verifier the claim stays a proposal.
Proposes ==
    /\ status' = "proposed" /\ reason' = "completion_proposed" /\ UNCHANGED completed
    /\ phase' = IF given.verifier THEN "verifying" ELSE "stopping"

ThinkDone ==
    /\ phase = "thinking" /\ thought' = "done" /\ Proposes
    /\ UNCHANGED <<given, cycle, ownSession, garbled, accepted>>

\* The supervisor refuses when the session is not running in its generation; that
\* is a failed call, and the next cycle should adapt.
ActStarts == phase' = IF held = "running" /\ ~fenced THEN "acting" ELSE "think"

ThinkTool ==
    /\ phase = "thinking" /\ phase' = "to_act" /\ thought' = "tool"
    /\ UNCHANGED <<given, cycle, verdict, ownSession, garbled, accepted>>

Act ==
    /\ phase = "to_act" /\ ActStarts
    /\ UNCHANGED <<given, cycle, thought, verdict, ownSession, garbled, accepted>>

\* Another refusal, a failure or a timeout.
ActFails ==
    /\ phase = "acting" /\ phase' = "think"
    /\ UNCHANGED <<given, cycle, thought, verdict, ownSession, garbled, accepted>>

ActSucceeds ==
    /\ phase = "acting" /\ phase' = "observing"
    /\ UNCHANGED <<given, cycle, thought, verdict, ownSession, garbled, accepted>>

\* An observation that fails is noted as such.
Observe ==
    /\ phase = "observing" /\ phase' = "reflecting"
    /\ UNCHANGED <<given, cycle, thought, verdict, ownSession, garbled, accepted>>

\* `reflection' is taken as it comes.
ReflectOn ==
    /\ phase = "reflecting" /\ phase' = "think" /\ garbled' \in BOOLEAN
    /\ UNCHANGED <<given, cycle, thought, verdict, ownSession, accepted>>

ReflectStops ==
    /\ phase = "reflecting" /\ Breaks("agent_requested_stop")
    /\ UNCHANGED <<given, cycle, thought, status, completed, ownSession, garbled, accepted>>

ReflectInvalid ==
    /\ phase = "reflecting" /\ BreaksInvalid("invalid_reflection")
    /\ UNCHANGED <<given, cycle, thought, ownSession, garbled, accepted>>

\* The verifier returned a valid result; passing needs evidence.
Verified(passed) ==
    /\ phase = "verifying" /\ phase' = "stopping"
    /\ completed' = passed /\ accepted' = passed
    /\ status' = IF passed THEN "verified" ELSE "blocked"
    /\ reason' = IF passed THEN "goal_verified" ELSE "verification_failed"
    /\ UNCHANGED <<given, cycle, thought, ownSession, garbled>>

\* It raised, returned something else, or passed without evidence.
VerifierFails ==
    /\ phase = "verifying" /\ BreaksInvalid("verification_error")
    /\ UNCHANGED <<given, cycle, thought, ownSession, garbled, accepted>>

\* manager.stop, whatever state operators have left the session in.
StopSession ==
    /\ phase = "stopping" /\ phase' = "ended"
    /\ held' = "stopped" /\ fenced' = TRUE
    /\ UNCHANGED <<given, cycle, thought, verdict, garbled, accepted>>

\* Cancelling run() at an await leaves its session as it is.
CancelRun ==
    /\ phase \in {"thinking", "acting", "observing", "reflecting", "verifying"}
    /\ phase' = "canceled"
    /\ UNCHANGED <<given, cycle, thought, verdict, ownSession, garbled, accepted>>

\* Stopping retires the loop's supervisor, resuming replaces it.
OperatorActs ==
    /\ phase # "new"
    /\ \/ held' = "paused" /\ UNCHANGED fenced
       \/ held' \in {"stopped", "running"} /\ fenced' = TRUE
    /\ UNCHANGED <<given, phase, cycle, thought, verdict, garbled, accepted>>

LoopGoesOn ==
    \/ CyclesOut \/ OutOfIterations \/ BeginThink
    \/ ThinkFails \/ ThinkInvalid \/ ThinkBlocked \/ ThinkDone \/ ThinkTool
    \/ Act \/ ActFails \/ ActSucceeds
    \/ Observe \/ ReflectOn \/ ReflectStops \/ ReflectInvalid
    \/ VerifierFails \/ StopSession
    \/ \E passed \in BOOLEAN : Verified(passed)

ReflectionNext == BeginRun \/ LoopGoesOn \/ CancelRun \/ OperatorActs

ReflectionSpec == ReflectionInit /\ [][ReflectionNext]_reflectionVars

-----------------------------------------------------------------------------
\* completed is the verifier's word, never the model's (reflection.py:423-463): it
\* is set only when a verifier passed, with evidence, what the model had claimed
\* was done, and the status says VERIFIED exactly then.
CompletedMeansAccepted ==
    /\ completed => accepted /\ thought = "done"
    /\ completed <=> status = "verified"

-----------------------------------------------------------------------------
\* The inductive invariant behind CompletedMeansAccepted: the verifier is asked only
\* about what the model had claimed was done, and its word is the loop's last.
ReflectionInv ==
    /\ phase = "verifying" => thought = "done"
    /\ completed => phase \in {"stopping", "ended"}
    /\ CompletedMeansAccepted
=============================================================================
