---------------------------- MODULE ApprovalGate ----------------------------
(***************************************************************************)
(* Confirmation-gated tool calls: the ApprovalQueue that all sessions of a *)
(* SessionManager share (agenthandler/approval.py), the humans who resolve *)
(* its requests, and the Supervisors that queue gated calls and later run  *)
(* them (agenthandler/supervisor.py).  The queue works under a lock, and a *)
(* call runs without interruption from its start to the first await after  *)
(* the confirmation check, so each is one step.  Between that check and    *)
(* the end of the call other coroutines run.                               *)
(***************************************************************************)
EXTENDS Integers, FiniteSets

CONSTANTS
    Supervisor,
    Session,
    SessionOf,     \* the session of each supervisor
    Tool,
    Arg,           \* what a call passes to its tool
    Confirm,       \* policy.require_confirm as the operator wrote it
    Id,            \* approval ids, drawn at random and never drawn twice
    Call,          \* coroutines that run a supervised call, one at a time
    None,
    MaxRequests,   \* ApprovalQueue(max_requests)
    TTL,           \* Policy.approval_ttl, or None
    MaxTime        \* bound: the clock stops here

ASSUME GateAssumption ==
    /\ SessionOf \in [Supervisor -> Session]
    /\ Confirm \subseteq Tool
    /\ None \notin Session \cup Tool \cup Arg \cup Id \cup Supervisor \cup Nat
    /\ MaxRequests \in Nat /\ MaxTime \in Nat /\ TTL \in Nat \cup {None}

VARIABLES
    requests,  \* ApprovalQueue._requests; "unused" and "evicted" ids are not in it
    confirm,   \* policy.require_confirm of each supervisor
    consumed,  \* _consumed_approvals of each supervisor
    calls,     \* what each coroutine is in the middle of
    now,       \* the queue's clock
    uses,      \* history: how often a supervisor let each approval through
    executed,  \* history: the tools execute_approved has run on each supervisor
    crossed    \* history: the supervisors on which an execute_approved ended while
               \* one begun during it was still in flight

past == <<executed, crossed>>
vars == <<requests, confirm, consumed, calls, now, uses, past>>

Resolved == {"approved", "denied", "expired", "revoked"}

Requests ==
    [status  : Resolved \cup {"unused", "pending", "evicted"},
     session : Session \cup {None}, tool : Tool \cup {None}, arg : Arg \cup {None},
     expires : Nat \cup {None}, resolved : Nat]

Calls ==
    [sup   : Supervisor \cup {None},   \* None: the coroutine is not in a call
     tool  : Tool \cup {None}, arg : Arg \cup {None},
     auth  : Id \cup {None},           \* the approval the gate was shown
     pre   : Id \cup {None},           \* _PREAPPROVED in the call's context
     saved : SUBSET Tool,              \* original_confirm of execute_approved
     exec  : BOOLEAN,                  \* execute_approved runs this call
     under : SUBSET Call,              \* history: the calls of execute_approved that were
                                       \* in flight on the supervisor when it began one
     beside : BOOLEAN]                 \* history: when another call began, one of them
                                       \* ran the same tool

NoRequest == [status |-> "unused", session |-> None, tool |-> None, arg |-> None,
              expires |-> None, resolved |-> 0]

NoCall == [sup |-> None, tool |-> None, arg |-> None, auth |-> None, pre |-> None,
           saved |-> {}, exec |-> FALSE, under |-> {}, beside |-> FALSE]

Init ==
    /\ requests = [i \in Id |-> NoRequest]
    /\ confirm = [v \in Supervisor |-> Confirm]
    /\ consumed = [v \in Supervisor |-> {}]
    /\ calls = [c \in Call |-> NoCall]
    /\ now = 0
    /\ uses = [v \in Supervisor |-> [i \in Id |-> 0]]
    /\ executed = [v \in Supervisor |-> {}]
    /\ crossed = {}

-----------------------------------------------------------------------------
\* The queue.

Held == {i \in Id : requests[i].status \notin {"unused", "evicted"}}

Live(r) == r.status \in {"pending", "approved"}

Overdue(r) == r.expires # None /\ now >= r.expires

\* (Bug: expiry is noticed while a request is pending, not once approved.)
ExpiredIfPending(r) ==
    IF r.status = "pending" /\ Overdue(r)
    THEN [r EXCEPT !.status = "expired", !.resolved = now] ELSE r

\* _expire: every look-up marks a request that is past its expiry.
Expired(r) ==
    IF Live(r) /\ Overdue(r)
    THEN [r EXCEPT !.status = "expired", !.resolved = now] ELSE r

Resolve(i, status) ==
    requests' = [requests EXCEPT ![i] =
                    [Expired(requests[i]) EXCEPT !.status = status, !.resolved = now]]

\* A resolution that comes too late only marks the expiry.
TooLate(i) == requests' = [requests EXCEPT ![i] = Expired(requests[i])]

Approve(i) ==
    /\ i \in Held
    /\ IF Expired(requests[i]).status = "pending" THEN Resolve(i, "approved") ELSE TooLate(i)
    /\ UNCHANGED <<confirm, consumed, calls, now, uses, past>>

Deny(i) ==
    /\ i \in Held
    /\ IF Expired(requests[i]).status = "pending" THEN Resolve(i, "denied") ELSE TooLate(i)
    /\ UNCHANGED <<confirm, consumed, calls, now, uses, past>>

Revoke(i) ==
    /\ i \in Held
    /\ IF Live(Expired(requests[i])) THEN Resolve(i, "revoked") ELSE TooLate(i)
    /\ UNCHANGED <<confirm, consumed, calls, now, uses, past>>

ListPending ==
    /\ requests' = [i \in Id |-> Expired(requests[i])]
    /\ UNCHANGED <<confirm, consumed, calls, now, uses, past>>

\* _evict_resolved frees one place: the request resolved first.
Evictable(i) ==
    /\ i \in Held /\ requests[i].status # "pending"
    /\ \A j \in Held : requests[j].status # "pending" =>
          requests[i].resolved <= requests[j].resolved

\* Nothing can be evicted: submit raises, and so does the call, which should
\* never raise (supervisor.py:535).
QueueIsFull ==
    /\ Cardinality(Held) >= MaxRequests
    /\ \A i \in Held : requests[i].status = "pending"

\* submit, when there is room or it can be made.
Submit(v, t, a) ==
    \E i \in Id :
       /\ requests[i].status = "unused"
       /\ LET new == [status |-> "pending", session |-> SessionOf[v], tool |-> t, arg |-> a,
                      expires |-> IF TTL = None THEN None ELSE now + TTL,
                      resolved |-> 0]
          IN  \/ /\ Cardinality(Held) < MaxRequests
                 /\ requests' = [requests EXCEPT ![i] = new]
              \/ /\ Cardinality(Held) >= MaxRequests
                 /\ \E j \in Id : /\ Evictable(j)
                                  /\ requests' = [requests EXCEPT ![i] = new,
                                                      ![j].status = "evicted"]

-----------------------------------------------------------------------------
\* The gate of a supervisor.

\* (Bug: an approval already consumed is accepted again.)
MatchesEverUsed(v, i, t, a) ==
    /\ Expired(requests[i]).status = "approved"
    /\ requests[i].session = SessionOf[v]
    /\ requests[i].tool = t /\ requests[i].arg = a

\* (Bug: the human approved other arguments.)
MatchesTool(v, i, t, a) ==
    /\ Expired(requests[i]).status = "approved"
    /\ requests[i].session = SessionOf[v]
    /\ requests[i].tool = t
    /\ i \notin consumed[v]

\* _consume_approval accepts: approved, this session, tool and arguments, unused.
Matches(v, i, t, a) ==
    /\ Expired(requests[i]).status = "approved"
    /\ requests[i].session = SessionOf[v]
    /\ requests[i].tool = t /\ requests[i].arg = a
    /\ i \notin consumed[v]

\* The calls of execute_approved in flight on a supervisor.
Executing(v) == {d \in Call : calls[d].sup = v /\ calls[d].exec}

InCall(v, t, a, auth, pre) ==
    [sup |-> v, tool |-> t, arg |-> a, auth |-> auth, pre |-> pre,
     saved |-> {}, exec |-> FALSE, under |-> {},
     beside |-> \E d \in Executing(v) : calls[d].tool = t]

\* The tool is not gated; the context keeps the approval it carries.
PassUngated(c, v, t, a, pre) ==
    /\ t \notin confirm[v]
    /\ calls' = [calls EXCEPT ![c] = InCall(v, t, a, None, pre)]
    /\ UNCHANGED <<requests, consumed, uses>>

\* The approval in the context is taken out and lets exactly this call through.
PassApproved(c, v, t, a, pre) ==
    /\ t \in confirm[v] /\ pre # None /\ Matches(v, pre, t, a)
    /\ calls' = [calls EXCEPT ![c] = InCall(v, t, a, pre, None)]
    /\ consumed' = [consumed EXCEPT ![v] = @ \cup {pre}]
    /\ uses' = [uses EXCEPT ![v][pre] = @ + 1]
    /\ requests' = [requests EXCEPT ![pre] = Expired(@)]

\* "No matching unused approval": the call is refused.
RefuseApproval(c, v, t, a, pre) ==
    /\ t \in confirm[v] /\ pre # None /\ ~Matches(v, pre, t, a)
    /\ requests' = [requests EXCEPT ![pre] = Expired(@)]
    /\ UNCHANGED <<consumed, calls, uses>>

\* approval_pending: the call is queued for a human and ends.
Queue(c, v, t, a, pre) ==
    /\ t \in confirm[v] /\ pre = None
    /\ \/ Submit(v, t, a)
       \/ QueueIsFull /\ UNCHANGED requests
    /\ UNCHANGED <<consumed, calls, uses>>

\* _check_confirm, at the start of a call by an idle coroutine.
Begin(c, v, t, a, pre) ==
    /\ calls[c].sup = None
    /\ \/ PassUngated(c, v, t, a, pre) \/ PassApproved(c, v, t, a, pre)
       \/ RefuseApproval(c, v, t, a, pre) \/ Queue(c, v, t, a, pre)
    /\ UNCHANGED <<confirm, now, past>>

CallTool(c, v, t, a) == Begin(c, v, t, a, None)

CallApproved(c, v, i, t, a) == requests[i].status # "unused" /\ Begin(c, v, t, a, i)

\* The tool of call d calls back into its supervisor from a task of its own,
\* which copies the context.
CallFromTool(c, d, t, a) ==
    /\ calls[d].sup # None /\ c # d
    /\ Begin(c, calls[d].sup, t, a, calls[d].pre)

\* execute_approved: the tool is taken off the list for as long as the call
\* lasts, and the call passes as an ungated one.  Nothing keeps another one from
\* beginning meanwhile, for the same approval or for another.
ExecuteApproved(c, v, i) ==
    LET r == Expired(requests[i]) IN
    /\ calls[c].sup = None /\ i \in Held
    /\ requests' = [requests EXCEPT ![i] = r]
    /\ IF r.status = "approved"
       THEN /\ confirm' = [confirm EXCEPT ![v] = @ \ {r.tool}]
            /\ calls' = [calls EXCEPT ![c] =
                   [sup |-> v, tool |-> r.tool, arg |-> r.arg, auth |-> i, pre |-> None,
                    saved |-> confirm[v], exec |-> TRUE, under |-> Executing(v),
                    beside |-> FALSE]]
            /\ executed' = [executed EXCEPT ![v] = @ \cup {r.tool}]
       ELSE UNCHANGED <<confirm, calls, executed>>
    /\ UNCHANGED <<consumed, now, uses, crossed>>

\* The call is one execute_approved runs, and another began during it that has
\* not ended.
Crosses(c) == calls[c].exec /\ \E d \in Executing(calls[c].sup) : c \in calls[d].under

\* (Bug: the list is not put back when the call ends.)
ReturnUngated(c) ==
    /\ calls[c].sup # None
    /\ calls' = [calls EXCEPT ![c] = NoCall]
    /\ crossed' = IF Crosses(c) THEN crossed \cup {calls[c].sup} ELSE crossed
    /\ UNCHANGED <<requests, confirm, consumed, now, uses, executed>>

\* The call ends: a later check refused it, the tool returned, failed or timed
\* out.  execute_approved then puts back the list it saved, whatever became of
\* the list in the meantime.
Return(c) ==
    /\ calls[c].sup # None
    /\ calls' = [calls EXCEPT ![c] = NoCall]
    /\ confirm' = IF calls[c].exec
                  THEN [confirm EXCEPT ![calls[c].sup] = calls[c].saved] ELSE confirm
    /\ crossed' = IF Crosses(c) THEN crossed \cup {calls[c].sup} ELSE crossed
    /\ UNCHANGED <<requests, consumed, now, uses, executed>>

Tick ==
    /\ now < MaxTime
    /\ now' = now + 1
    /\ UNCHANGED <<requests, confirm, consumed, calls, uses, past>>

-----------------------------------------------------------------------------
Human == \/ \E i \in Id : Approve(i) \/ Deny(i) \/ Revoke(i)
         \/ ListPending

Agent(c) ==
    \/ \E v \in Supervisor, t \in Tool, a \in Arg :
          CallTool(c, v, t, a) \/ \E i \in Id : CallApproved(c, v, i, t, a)
    \/ \E d \in Call, t \in Tool, a \in Arg : CallFromTool(c, d, t, a)
    \/ \E v \in Supervisor, i \in Id : ExecuteApproved(c, v, i)
    \/ Return(c)

Next == Human \/ Tick \/ \E c \in Call : Agent(c)

Spec == Init /\ [][Next]_vars

-----------------------------------------------------------------------------
TypeOK ==
    /\ requests \in [Id -> Requests]
    /\ confirm \in [Supervisor -> SUBSET Tool]
    /\ consumed \in [Supervisor -> SUBSET Id]
    /\ calls \in [Call -> Calls]
    /\ now \in 0..MaxTime
    /\ uses \in [Supervisor -> [Id -> Nat]]
    /\ executed \in [Supervisor -> SUBSET (Tool \cup {None})]
    /\ crossed \in SUBSET Supervisor

\* "Accept a human approval once" (supervisor.py:320), however many calls carry
\* it: retries, concurrent calls, calls made from inside an approved tool.
ApprovalsAreSingleUse == \A v \in Supervisor, i \in Id : uses[v][i] <= 1

\* The approval a call was let through with is for its tool and argument, and of
\* its session if it was the gate that looked (execute_approved does not ask for
\* the session), and was given.
Authorised(c) ==
    /\ calls[c].auth # None
    /\ LET r == requests[calls[c].auth] IN
          /\ calls[c].exec \/ r.session = SessionOf[calls[c].sup]
          /\ r.tool = calls[c].tool /\ r.arg = calls[c].arg
          /\ r.status \notin {"unused", "pending", "denied"}

\* "the call is queued instead" (README.md:1067): a tool the operator gated is
\* run with an approval of its own.  Others slip past the gate only beside an
\* execute_approved of the same tool, or where two such calls have crossed and
\* left that very tool off the list (supervisor.py:815-823).
GatedCallsAreApproved ==
    \A c \in Call :
        calls[c].sup # None /\ calls[c].tool \in Confirm =>
            \/ Authorised(c)
            \/ calls[c].beside
            \/ calls[c].sup \in crossed /\ calls[c].tool \in executed[calls[c].sup]

\* A request that was denied, has expired or was revoked is dead for ever, and
\* a dead one lets no call through: no later approval, no late use.
Dead(i) ==
    \/ requests[i].status \in {"denied", "expired", "revoked", "evicted"}
    \/ Live(requests[i]) /\ Overdue(requests[i])

DeadApprovalsStayDead ==
    [][\A i \in Id : Dead(i) =>
          Dead(i)' /\ \A v \in Supervisor : uses'[v][i] = uses[v][i]]_vars

\* A full queue never drops a request that a human still has to answer, and
\* never holds more than max_requests.
PendingIsKept ==
    [][/\ \A i \in Id : requests[i].status = "pending" => requests'[i].status # "evicted"
       /\ Cardinality(Held') <= MaxRequests]_vars

\* "We temporarily remove the tool from require_confirm" (supervisor.py:815):
\* unless two calls of execute_approved crossed, the operator's list lacks the
\* tools of those in flight and nothing else, nested as they may be, and is whole
\* again when they are done.  Even then it never lost a tool none of them ran.
GateIsRestored ==
    \A v \in Supervisor :
        /\ Confirm \ confirm[v] \subseteq executed[v]
        /\ v \notin crossed => confirm[v] = Confirm \ {calls[d].tool : d \in Executing(v)}

\* The comment on its own: once no call of execute_approved is in flight, the
\* list is the operator's again (supervisor.py:815).
RemovalIsTemporary == \A v \in Supervisor : Executing(v) = {} => confirm[v] = Confirm
=============================================================================
