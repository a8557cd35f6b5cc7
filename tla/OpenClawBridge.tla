-------------------------- MODULE OpenClawBridge --------------------------
(***************************************************************************)
(* The OpenClaw bridge (agenthandler/openclaw.py): an HTTP server with a   *)
(* thread per request, and an event loop in a thread of its own on which   *)
(* the tools run.  A request thread hands the call to the loop and waits   *)
(* for its future, no longer than the policy's request_timeout; what the   *)
(* loop does with the call afterwards no longer concerns it.               *)
(***************************************************************************)
EXTENDS Integers

CONSTANTS
    Post, Tool,  \* requests to execute a tool, and tool names
    MaxServes    \* bound: how often the bridge is started

ASSUME BridgeAssumption == MaxServes \in Nat

VARIABLES
    registry,    \* the registered tools
    serving,     \* _server is there
    loops,       \* event loops made so far; the last one is _loop
    turning,     \* the loops whose thread still runs them
    thread,      \* where each request's thread is
    job,         \* what became of its call
    onLoop       \* the loop it was given to

bridgeVars == <<registry, serving, loops, turning, thread, job, onLoop>>

BridgeInit ==
    /\ registry = {} /\ serving = FALSE /\ loops = 0 /\ turning = {}
    /\ thread = [p \in Post |-> "idle"] /\ job = [p \in Post |-> "none"]
    /\ onLoop = [p \in Post |-> 0]

-----------------------------------------------------------------------------
RegisterTool(t) ==
    /\ t \notin registry /\ registry' = registry \cup {t}
    /\ UNCHANGED <<serving, loops, turning, thread, job, onLoop>>

\* serve() and serve_background() make a loop first and bind the port after it:
\* where the bridge is up already the port is taken, and the new loop replaces
\* the one in use, which goes on turning.
Serve ==
    /\ loops < MaxServes /\ loops' = loops + 1 /\ turning' = turning \cup {loops + 1}
    /\ serving' = TRUE
    /\ UNCHANGED <<registry, thread, job, onLoop>>

\* shutdown() stops accepting and stops the last loop, whatever still runs on it.
\* Request threads are not waited for.
Shutdown ==
    /\ loops > 0 /\ (serving \/ loops \in turning)
    /\ serving' = FALSE /\ turning' = turning \ {loops}
    /\ UNCHANGED <<registry, loops, thread, job, onLoop>>

\* An unknown tool is answered with 404, a body that is no JSON or has no params
\* with 400.
PostArrives(p, t, wellFormed) ==
    /\ serving /\ thread[p] = "idle"
    /\ thread' = [thread EXCEPT ![p] = IF t \in registry /\ wellFormed
                                       THEN "parsed" ELSE "rejected"]
    /\ UNCHANGED <<registry, serving, loops, turning, job, onLoop>>

\* A Supervisor of its own for this call, and the call goes to the last loop,
\* turning or not: a stopped loop takes it and never runs it.
HandOver(p) ==
    /\ thread[p] = "parsed"
    /\ thread' = [thread EXCEPT ![p] = "waiting"] /\ job' = [job EXCEPT ![p] = "queued"]
    /\ onLoop' = [onLoop EXCEPT ![p] = loops]
    /\ UNCHANGED <<registry, serving, loops, turning>>

RunTool(p) ==
    /\ job[p] = "queued" /\ onLoop[p] \in turning
    /\ job' = [job EXCEPT ![p] = "running"]
    /\ UNCHANGED <<registry, serving, loops, turning, thread, onLoop>>

ToolEnded(p) ==
    /\ job[p] = "running" /\ onLoop[p] \in turning
    /\ job' = [job EXCEPT ![p] = "ended"]
    /\ UNCHANGED <<registry, serving, loops, turning, thread, onLoop>>

\* The result, a success or an error, goes back with status 200.
Respond(p) ==
    /\ thread[p] = "waiting" /\ job[p] = "ended"
    /\ thread' = [thread EXCEPT ![p] = "answered"]
    /\ UNCHANGED <<registry, serving, loops, turning, job, onLoop>>

\* (Bug: the thread waits for the future without a timeout.)
TimeOutNever(p) ==
    /\ FALSE
    /\ UNCHANGED bridgeVars

\* request_timeout is over: 500.  The call is not cancelled and may yet run.
TimeOut(p) ==
    /\ thread[p] = "waiting" /\ job[p] # "ended"
    /\ thread' = [thread EXCEPT ![p] = "timed out"]
    /\ UNCHANGED <<registry, serving, loops, turning, job, onLoop>>

BridgeNext ==
    \/ Serve \/ Shutdown \/ \E t \in Tool : RegisterTool(t)
    \/ \E p \in Post :
          \/ \E t \in Tool, wellFormed \in BOOLEAN : PostArrives(p, t, wellFormed)
          \/ HandOver(p) \/ RunTool(p) \/ ToolEnded(p) \/ Respond(p) \/ TimeOut(p)

\* A request's thread runs, and its timeout comes.  Nothing is asked of the
\* loops: they may be stopped, and a tool may block one for ever.
BridgeFairness ==
    \A p \in Post : /\ WF_bridgeVars(HandOver(p)) /\ WF_bridgeVars(Respond(p))
                    /\ WF_bridgeVars(TimeOut(p))

-----------------------------------------------------------------------------
\* Every well-formed request for a known tool is answered, also when the bridge
\* is shut down or started anew between the request and its answer, and the call
\* was given to a loop that no longer turns (openclaw.py:228-245, 394-399).
PostsAreAnswered ==
    \A p \in Post : thread[p] = "parsed" ~> thread[p] \in {"answered", "timed out"}
=============================================================================
