--------------------------- MODULE PipelineRuns ---------------------------
(***************************************************************************)
(* Pipeline.run (agenthandler/pipeline.py) and the sessions it runs in:    *)
(* one of its own, or, after with_context, one that other runs share and   *)
(* that operators pause, stop and resume over HTTP (agenthandler/          *)
(* server.py), in this process or in another one.  Runs interleave at      *)
(* their tool calls; between reading and writing a session's payload they  *)
(* interleave with runs of other threads and processes.                    *)
(*                                                                         *)
(* SessionControl models the manager; here a session is its stored status  *)
(* and generation and the generation this process has a supervisor of.     *)
(***************************************************************************)
EXTENDS Integers, Sequences

CONSTANTS
    Run,          \* bound: calls of run()
    Context,      \* the shared session; a run's own session is named by the run
    Nodes,        \* the pipeline: "step" or "condition" for each node
    MaxResumes,   \* policy.max_resumes
    MaxIterations, \* policy.max_iterations
    Used,         \* iterations the shared session may have used before
    Operated,     \* bound: sessions that operators act on
    HistoryLimit  \* runs kept in the payload's history, 20 in the code

ASSUME PipelineAssumption ==
    /\ Context \notin Run
    /\ Nodes \in Seq({"step", "condition"})
    /\ Operated \subseteq Run \cup {Context} /\ Used \subseteq Nat
    /\ MaxResumes \in Nat /\ MaxIterations \in Nat /\ HistoryLimit \in Nat \ {0}

VARIABLES
    session,    \* status, generation, generation held in memory (-1: none)
    iterations, \* of each session: resumes carry the count over
    run,        \* where a run is, its session, supervisor's generation, node, result
    base,       \* the history a run read before it writes the payload
    past,       \* payload["history"] of the shared session
    done,       \* history: runs that recorded themselves there, in order
    raced       \* history: a payload was read while another run was between
                \* its read and its write

pipelineVars == <<session, iterations, run, base, past, done, raced>>

PipelineInit ==
    /\ session = [s \in Run \cup {Context} |->
                    IF s = Context THEN [status |-> "running", gen |-> 0, held |-> 0]
                    ELSE [status |-> "none", gen |-> 0, held |-> -1]]
    /\ \E n \in Used :
          iterations = [s \in Run \cup {Context} |-> IF s = Context THEN n ELSE 0]
    /\ run = [r \in Run |->
                [at |-> "new", sid |-> r, gen |-> 0, node |-> 1, result |-> "none"]]
    /\ base = [r \in Run |-> <<>>] /\ past = <<>> /\ done = <<>> /\ raced = FALSE

-----------------------------------------------------------------------------
\* The sessions, as their manager and its operators change them.

Resumed(s) ==
    [session EXCEPT ![s] = [status |-> "running", gen |-> @.gen + 1, held |-> @.gen + 1]]

\* manager.stop looks at neither status nor generation.
Stopped(s) == [session EXCEPT ![s].status = "stopped", ![s].held = -1]

Exists(s) == session[s].status # "none"

OperatorPauses(s) ==
    /\ Exists(s) /\ session' = [session EXCEPT ![s].status = "paused"]
    /\ UNCHANGED <<iterations, run, base, past, done, raced>>

\* Stopped in another process, the supervisor held here stays, out of date.
OperatorStops(s, here) ==
    /\ Exists(s)
    /\ session' = IF here THEN Stopped(s) ELSE [session EXCEPT ![s].status = "stopped"]
    /\ UNCHANGED <<iterations, run, base, past, done, raced>>

\* Resumed in another process, that one holds the new supervisor.
OperatorResumes(s, here) ==
    /\ Exists(s) /\ session[s].gen < MaxResumes
    /\ session' = IF here THEN Resumed(s)
                  ELSE [session EXCEPT ![s].status = "running", ![s].gen = @ + 1]
    /\ UNCHANGED <<iterations, run, base, past, done, raced>>

\* The supervisor this run was given may start a call.
Authorized(r) ==
    LET s == session[run[r].sid] IN s.status = "running" /\ s.gen = run[r].gen

-----------------------------------------------------------------------------
At(r, place) == run[r].at = place

Goes(r, place) == run' = [run EXCEPT ![r].at = place]

Ends(r, result) == run' = [run EXCEPT ![r].at = "ended", ![r].result = result]

StartOwn(r) ==
    /\ At(r, "new") /\ Goes(r, "at_node")
    /\ session' = [session EXCEPT ![r] = [status |-> "running", gen |-> 0, held |-> 0]]
    /\ UNCHANGED <<iterations, base, past, done, raced>>

\* with_context: a session without a supervisor here is resumed, stopped and
\* paused ones as well; beyond max_resumes the run is given up and the session
\* marked failed.
StartInContext(r) ==
    LET s == session[Context]
        gen == IF s.held = -1 THEN s.gen + 1 ELSE s.held
    IN  /\ At(r, "new")
        /\ IF s.held = -1 /\ s.gen >= MaxResumes
           THEN /\ run' = [run EXCEPT ![r].at = "ended", ![r].sid = Context,
                                      ![r].result = "refused"]
                /\ session' = [session EXCEPT ![Context].status = "failed"]
           ELSE /\ run' = [run EXCEPT ![r].at = "at_node", ![r].sid = Context, ![r].gen = gen]
                /\ session' = IF s.held = -1 THEN Resumed(Context) ELSE session
        /\ UNCHANGED <<iterations, base, past, done, raced>>

\* Every failure stops the session, whichever it is and whoever has it by now.
FailsRun(r) == Ends(r, "failed") /\ session' = Stopped(run[r].sid)

AtNode(r) == At(r, "at_node") /\ run[r].node <= Len(Nodes)

\* record_iteration: the count is of the session's lifetime, so a shared session
\* runs out of it.  It raises out of run(), and leaves the session as it is.
IterationLimit(r) ==
    /\ AtNode(r) /\ iterations[run[r].sid] >= MaxIterations /\ Ends(r, "raised")
    /\ UNCHANGED <<session, iterations, base, past, done, raced>>

Iterates(r) ==
    /\ AtNode(r) /\ iterations[run[r].sid] < MaxIterations
    /\ iterations' = [iterations EXCEPT ![run[r].sid] = @ + 1]
    /\ UNCHANGED <<base, past, done, raced>>

\* An unauthorized supervisor refuses the call, which then failed.
CallsOrFails(r) ==
    IF Authorized(r) THEN Goes(r, "calling") /\ UNCHANGED session ELSE FailsRun(r)

BeginCall(r) == Iterates(r) /\ CallsOrFails(r)

PredicateFails(r) == Iterates(r) /\ Nodes[run[r].node] = "condition" /\ FailsRun(r)

\* No else step: on to the next node, without a word in the payload.
NoBranch(r) ==
    /\ Iterates(r) /\ Nodes[run[r].node] = "condition"
    /\ run' = [run EXCEPT ![r].node = @ + 1]
    /\ UNCHANGED session

CallSucceeds(r) ==
    /\ At(r, "calling") /\ Goes(r, "merging")
    /\ UNCHANGED <<session, iterations, base, past, done, raced>>

CallFails(r) ==
    /\ At(r, "calling") /\ FailsRun(r)
    /\ UNCHANGED <<iterations, base, past, done, raced>>

\* A step waits for its approval in the session; a branch does not.
ApprovalPending(r) ==
    /\ At(r, "calling")
    /\ IF Nodes[run[r].node] = "condition" THEN FailsRun(r)
       ELSE Ends(r, "pending") /\ UNCHANGED session
    /\ UNCHANGED <<iterations, base, past, done, raced>>

\* After the last node a run in its own session stops it.
Completes(r) ==
    /\ At(r, "at_node") /\ run[r].node > Len(Nodes)
    /\ IF run[r].sid = Context THEN Goes(r, "recording") /\ UNCHANGED session
       ELSE Ends(r, "completed") /\ session' = Stopped(run[r].sid)
    /\ UNCHANGED <<iterations, base, past, done, raced>>

-----------------------------------------------------------------------------
\* status() ... update_payload(): read, merge and write back the whole payload.

InBetween(q) == run[q].sid = Context /\ run[q].at \in {"to_write_progress", "to_write_history"}

\* (Bug: what was loaded for the LLM steps at the start is merged into.)
ReadsOnce(r) == base' = IF run[r].node = 1 THEN [base EXCEPT ![r] = past] ELSE base

Reads(r) == base' = [base EXCEPT ![r] = past]

ReadPayload(r) ==
    /\ At(r, "merging") \/ At(r, "recording")
    /\ Goes(r, IF At(r, "merging") THEN "to_write_progress" ELSE "to_write_history")
    /\ IF run[r].sid = Context THEN Reads(r) ELSE UNCHANGED base
    /\ raced' = (raced \/ (run[r].sid = Context /\ \E q \in Run \ {r} : InBetween(q)))
    /\ UNCHANGED <<session, iterations, past, done>>

WriteProgress(r) ==
    /\ At(r, "to_write_progress")
    /\ run' = [run EXCEPT ![r].at = "at_node", ![r].node = @ + 1]
    /\ past' = IF run[r].sid = Context THEN base[r] ELSE past
    /\ UNCHANGED <<session, iterations, base, done, raced>>

LastOf(s, n) == IF Len(s) <= n THEN s ELSE SubSeq(s, Len(s) - n + 1, Len(s))

WriteHistory(r) ==
    /\ At(r, "to_write_history") /\ Ends(r, "completed")
    /\ past' = LastOf(Append(base[r], r), HistoryLimit)
    /\ done' = Append(done, r)
    /\ UNCHANGED <<session, iterations, base, raced>>

\* A payload over its limits raises out of run(): nothing is written, and the
\* session is left as it is.
WriteRaises(r) ==
    /\ At(r, "to_write_progress") \/ At(r, "to_write_history")
    /\ Ends(r, "raised")
    /\ UNCHANGED <<session, iterations, base, past, done, raced>>

RunGoesOn(r) ==
    \/ IterationLimit(r) \/ BeginCall(r) \/ PredicateFails(r) \/ NoBranch(r)
    \/ CallSucceeds(r) \/ CallFails(r) \/ ApprovalPending(r)
    \/ Completes(r) \/ ReadPayload(r) \/ WriteProgress(r) \/ WriteHistory(r)
    \/ WriteRaises(r)

Operator(s) ==
    \/ OperatorPauses(s)
    \/ \E here \in BOOLEAN : OperatorStops(s, here) \/ OperatorResumes(s, here)

PipelineNext ==
    \/ \E r \in Run : StartOwn(r) \/ StartInContext(r) \/ RunGoesOn(r)
    \/ \E s \in Operated : Operator(s)

PipelineSpec == PipelineInit /\ [][PipelineNext]_pipelineVars

-----------------------------------------------------------------------------
\* "The pipeline keeps a rolling history (last 20 runs)" (README.md:488): while no
\* run reads the payload between another's read and write, each run that
\* completes in the shared session is in its history, in order, through failed
\* runs and whatever operators do to the session (pipeline.py:480-507).
HistoryFollowsRuns == ~raced => past = LastOf(done, HistoryLimit)

-----------------------------------------------------------------------------
Sessions == [status : {"none", "running", "paused", "stopped", "failed"},
             gen : Nat, held : Nat \cup {-1}]
Places == {"new", "at_node", "calling", "merging", "to_write_progress",
           "recording", "to_write_history", "ended"}
Results == {"none", "refused", "raised", "failed", "pending", "completed"}
Runs == [at : Places, sid : Run \cup {Context}, gen : Nat \cup {-1}, node : Nat,
         result : Results]

PipelineTypeOK ==
    /\ session \in [Run \cup {Context} -> Sessions] /\ run \in [Run -> Runs]
    /\ base \in [Run -> Seq(Run)] /\ past \in Seq(Run) /\ done \in Seq(Run) /\ raced \in BOOLEAN

\* The inductive invariant behind HistoryFollowsRuns: until runs race, one at most
\* is between its read and its write, and what it read is what there is.
PipelineInv ==
    /\ PipelineTypeOK
    /\ \A r \in Run : run[r].at \in {"recording", "to_write_history"} => run[r].sid = Context
    /\ ~raced => \A q \in Run : InBetween(q) =>
          base[q] = past /\ \A r \in Run : InBetween(r) => r = q
    /\ HistoryFollowsRuns
=============================================================================
