----------------------------- MODULE A2ATasks -----------------------------
(***************************************************************************)
(* Agent-to-agent tasks (agenthandler/a2a.py): the client's supervised     *)
(* calls tasks/send, tasks/get and tasks/cancel, the HTTP exchange under   *)
(* them, and the endpoint that keeps one task object per id in memory.     *)
(*                                                                         *)
(* A call is a member of Call.  A task object is named by the send that    *)
(* made it: a send for an id that is already there makes a new object and  *)
(* puts it in the old one's place, while the old one's handler may still   *)
(* be awaiting its tool.                                                   *)
(***************************************************************************)
CONSTANTS
    Call,     \* bound: calls that clients make
    TaskId,   \* ids that clients choose; a retry uses the same one
    Nothing   \* no call, no reply

VARIABLES
    request,  \* [op, id] of a call; Nothing before it is made
    stage,    \* where a call is on its way through network and endpoint
    reply,    \* the endpoint's answer to a call
    outcome,  \* what the client's supervised call returned
    table,    \* the endpoint's _tasks: the object held for each id
    state,    \* the state in each task object; "none": there is no object
    toolRun   \* what the supervised tool call of a send came to

a2aVars == <<request, stage, reply, outcome, table, state, toolRun>>

A2AInit ==
    /\ request = [c \in Call |-> Nothing]
    /\ stage = [c \in Call |-> "unused"]
    /\ reply = [c \in Call |-> Nothing]
    /\ outcome = [c \in Call |-> Nothing]
    /\ table = [i \in TaskId |-> Nothing]
    /\ state = [c \in Call |-> "none"]
    /\ toolRun = [c \in Call |-> "none"]

-----------------------------------------------------------------------------
Issue(c, op, id) ==
    /\ stage[c] = "unused"
    /\ request' = [request EXCEPT ![c] = [op |-> op, id |-> id]]
    /\ stage' = [stage EXCEPT ![c] = "onTheWay"]
    /\ UNCHANGED <<reply, outcome, table, state, toolRun>>

\* (Bug: the handler is cancelled with the connection.)
GivesUpBoth(c) ==
    /\ stage[c] # "unused" /\ outcome[c] = Nothing
    /\ outcome' = [outcome EXCEPT ![c] = "timeout"]
    /\ stage' = [stage EXCEPT ![c] = "lost"]
    /\ UNCHANGED <<request, reply, table, state, toolRun>>

\* The httpx timeout or the supervisor's tool timeout.  The request is not taken
\* back, and a handler that runs is not told.
GivesUp(c) ==
    /\ stage[c] # "unused" /\ outcome[c] = Nothing
    /\ outcome' = [outcome EXCEPT ![c] = "timeout"]
    /\ UNCHANGED <<request, stage, reply, table, state, toolRun>>

Lose(c) ==
    /\ stage[c] = "onTheWay" /\ stage' = [stage EXCEPT ![c] = "lost"]
    /\ UNCHANGED <<request, reply, outcome, table, state, toolRun>>

\* raise_for_status turns a server error into a failed call; a JSON-RPC error is
\* an answer like any other.
Receive(c) ==
    /\ stage[c] = "replied" /\ stage' = [stage EXCEPT ![c] = "over"]
    /\ outcome' = [outcome EXCEPT ![c] = IF @ = Nothing THEN reply[c] ELSE @]
    /\ reply' = [reply EXCEPT ![c] = Nothing]
    /\ UNCHANGED <<request, table, state, toolRun>>

-----------------------------------------------------------------------------
Arrived(c, op) == stage[c] = "onTheWay" /\ request[c].op = op

Replies(c, what) ==
    /\ stage' = [stage EXCEPT ![c] = "replied"]
    /\ reply' = [reply EXCEPT ![c] = what]

\* What a send finds: no supervisor for the session (it is stopped, or served by
\* another process) or a call that raises before it starts, no tool for the
\* skill, or a tool.
Found == {"no_supervisor", "no_tool", "tool"}

\* handle_send up to its await.  The task is in the table before the supervisor
\* is looked up: without one the request fails and the task stays WORKING.
SendArrives(c, found) ==
    /\ Arrived(c, "send")
    /\ table' = [table EXCEPT ![request[c].id] = c]
    /\ state' = [state EXCEPT ![c] = IF found = "no_tool" THEN "completed" ELSE "working"]
    /\ IF found = "tool"
       THEN /\ stage' = [stage EXCEPT ![c] = "serving"]
            /\ toolRun' = [toolRun EXCEPT ![c] = "running"]
            /\ UNCHANGED reply
       ELSE /\ Replies(c, IF found = "no_tool" THEN "completed" ELSE "error")
            /\ UNCHANGED toolRun
    /\ UNCHANGED <<request, outcome>>

Ending(succeeded) == IF succeeded THEN "completed" ELSE "failed"

\* (Bug: the task is looked up again after the await.)
FinishesById(c, succeeded) ==
    LET t == table[request[c].id]
    IN  state' = [state EXCEPT ![t] = Ending(succeeded)]

\* The object that this send made takes the outcome, in place of CANCELED too.
Finishes(c, succeeded) == state' = [state EXCEPT ![c] = Ending(succeeded)]

ToolEnds(c, succeeded) ==
    /\ stage[c] = "serving"
    /\ toolRun' = [toolRun EXCEPT ![c] = Ending(succeeded)]
    /\ Finishes(c, succeeded)
    /\ Replies(c, Ending(succeeded))
    /\ UNCHANGED <<request, outcome, table>>

GetArrives(c) ==
    /\ Arrived(c, "get")
    /\ LET t == table[request[c].id]
       IN  Replies(c, IF t = Nothing THEN "notFound" ELSE state[t])
    /\ UNCHANGED <<request, outcome, table, state, toolRun>>

\* Only the object is marked; the handler that works for it is not stopped.
CancelArrives(c) ==
    /\ Arrived(c, "cancel")
    /\ LET t == table[request[c].id]
       IN  IF t = Nothing THEN Replies(c, "notFound") /\ UNCHANGED state
           ELSE state' = [state EXCEPT ![t] = "canceled"] /\ Replies(c, "canceled")
    /\ UNCHANGED <<request, outcome, table, toolRun>>

\* The table lives in memory: a restart forgets every task and breaks off every
\* handler.
EndpointRestarts ==
    /\ stage' = [c \in Call |-> IF stage[c] \in {"unused", "over"} THEN stage[c] ELSE "lost"]
    /\ reply' = [c \in Call |-> Nothing]
    /\ table' = [i \in TaskId |-> Nothing]
    /\ state' = [c \in Call |-> "none"]
    /\ toolRun' = [c \in Call |-> "none"]
    /\ UNCHANGED <<request, outcome>>

A2ANext ==
    \/ \E c \in Call, op \in {"send", "get", "cancel"}, i \in TaskId : Issue(c, op, i)
    \/ \E c \in Call : GivesUp(c) \/ Lose(c) \/ Receive(c)
    \/ \E c \in Call, found \in Found : SendArrives(c, found)
    \/ \E c \in Call, succeeded \in BOOLEAN : ToolEnds(c, succeeded)
    \/ \E c \in Call : GetArrives(c) \/ CancelArrives(c)
    \/ EndpointRestarts

\* A supervised tool call ends: it has a timeout.
A2AFairness == \A c \in Call : WF_a2aVars(\E succeeded \in BOOLEAN : ToolEnds(c, succeeded))

A2ASpec == A2AInit /\ [][A2ANext]_a2aVars /\ A2AFairness

-----------------------------------------------------------------------------
\* A task object never carries another send's outcome (a2a.py:519-532), however
\* sends for one id overlap: it is COMPLETED when its own tool call succeeded or
\* no tool was asked for, FAILED when its own call failed.
OutcomeIsOwn ==
    \A c \in Call :
        /\ state[c] = "completed" => toolRun[c] \in {"completed", "none"}
        /\ state[c] = "failed" => toolRun[c] = "failed"

\* The object held for an id does not stay WORKING once a supervisor runs its
\* tool, though every client has given up and others retried (a2a.py:519-529).
HeldTasksEnd ==
    \A i \in TaskId, c \in Call :
        (table[i] = c /\ toolRun[c] = "running") ~> state[c] # "working"

-----------------------------------------------------------------------------
\* The inductive invariant behind OutcomeIsOwn: a call that has not arrived has no
\* tool call.
A2AInv ==
    /\ DOMAIN stage = Call /\ DOMAIN state = Call /\ DOMAIN toolRun = Call
    /\ \A c \in Call : stage[c] \in {"unused", "onTheWay"} => toolRun[c] = "none"
    /\ OutcomeIsOwn
=============================================================================
