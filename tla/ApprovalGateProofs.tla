------------------------- MODULE ApprovalGateProofs -------------------------
(***************************************************************************)
(* Theorems about ApprovalGate, for every set of supervisors, approvals    *)
(* and coroutines, every clock and every size of the queue.                *)
(***************************************************************************)
EXTENDS ApprovalGate, FiniteSetTheorems, TLAPS

USE GateAssumption

LEMMA ExpiredFacts ==
    ASSUME NEW r \in Requests, now \in Nat
    PROVE  /\ Expired(r) \in Requests
           /\ Expired(r).session = r.session /\ Expired(r).tool = r.tool
           /\ Expired(r).arg = r.arg /\ Expired(r).expires = r.expires
           /\ Expired(r).status # r.status =>
                 Expired(r).status = "expired" /\ r.status \in {"pending", "approved"}
<1>1. [r EXCEPT !.status = "expired", !.resolved = now] \in Requests
  BY DEF Requests, Resolved
<1>2. CASE Live(r) /\ Overdue(r)
  BY <1>1, <1>2 DEF Expired, Live, Requests
<1>3. CASE ~(Live(r) /\ Overdue(r))
  BY <1>3 DEF Expired
<1>4. QED
  BY <1>2, <1>3

LEMMA ExpiredKeeps ==
    ASSUME NEW r \in Requests, now \in Nat, Expired(r).status = r.status
    PROVE  Expired(r) = r
<1>1. CASE Live(r) /\ Overdue(r)
  <2>1. Expired(r) = [r EXCEPT !.status = "expired", !.resolved = now]
    BY <1>1 DEF Expired
  <2>2. Expired(r).status = "expired"
    BY <2>1 DEF Requests
  <2>3. QED
    BY <1>1, <2>2 DEF Live
<1>2. CASE ~(Live(r) /\ Overdue(r))
  BY <1>2 DEF Expired
<1>3. QED
  BY <1>1, <1>2

\* A look-up that still finds a request pending or approved found it in time.
LEMMA LiveMeansInTime ==
    ASSUME NEW r \in Requests, now \in Nat, Live(Expired(r))
    PROVE  Expired(r) = r /\ ~Overdue(r)
<1>1. ~(Live(r) /\ Overdue(r))
  <2>1. SUFFICES ASSUME Live(r) /\ Overdue(r) PROVE FALSE
    OBVIOUS
  <2>2. Expired(r).status = "expired"
    BY <2>1 DEF Expired, Requests
  <2>3. QED
    BY <2>2 DEF Live
<1>2. Expired(r) = r
  BY <1>1 DEF Expired
<1>3. QED
  BY <1>1, <1>2

\* What a step may do to a request: nothing, fill an unused one, or move an
\* answered or expired one along.
Moves(q, r) ==
    \/ r = q
    \/ q.status = "unused" /\ r.status = "pending"
    \/ /\ r.session = q.session /\ r.tool = q.tool /\ r.arg = q.arg
       /\ r.expires = q.expires
       /\ \/ r.status \in {"approved", "denied"} /\ q.status = "pending" /\ ~Overdue(q)
          \/ r.status \in {"expired", "revoked"} /\ q.status \in {"pending", "approved"}
          \/ r.status = "evicted" /\ q.status \in Resolved

RequestsMove ==
    /\ requests' \in [Id -> Requests]
    /\ \A i \in Id : Moves(requests[i], requests'[i])

LEMMA ExpiredMoves ==
    ASSUME TypeOK, NEW i \in Id
    PROVE  Expired(requests[i]) \in Requests /\ Moves(requests[i], Expired(requests[i]))
<1>1. requests[i] \in Requests /\ now \in Nat
  BY DEF TypeOK
<1> DEFINE r == Expired(requests[i])
<1>2. /\ r \in Requests
      /\ r.session = requests[i].session /\ r.tool = requests[i].tool
      /\ r.arg = requests[i].arg /\ r.expires = requests[i].expires
      /\ r.status # requests[i].status =>
            r.status = "expired" /\ requests[i].status \in {"pending", "approved"}
  BY <1>1, ExpiredFacts
<1>3. r.status = requests[i].status => r = requests[i]
  BY <1>1, ExpiredKeeps
<1>4. QED
  BY <1>2, <1>3 DEF Moves

\* A look-up of one request.
LEMMA LookupMoves ==
    ASSUME TypeOK, NEW i \in Id, requests' = [requests EXCEPT ![i] = Expired(requests[i])]
    PROVE  RequestsMove
<1>1. \A j \in Id : requests'[j] = IF j = i THEN Expired(requests[i]) ELSE requests[j]
  BY DEF TypeOK
<1>2. requests' \in [Id -> Requests]
  BY ExpiredMoves DEF TypeOK
<1>3. QED
  BY <1>1, <1>2, ExpiredMoves DEF RequestsMove, Moves

LEMMA ResolveMoves ==
    ASSUME TypeOK, NEW i \in Id, NEW status, Resolve(i, status),
           \/ status \in {"approved", "denied"} /\ Expired(requests[i]).status = "pending"
           \/ status = "revoked" /\ Live(Expired(requests[i]))
    PROVE  RequestsMove
<1> DEFINE e == Expired(requests[i])
           r == [e EXCEPT !.status = status, !.resolved = now]
<1>1. requests[i] \in Requests /\ now \in Nat
  BY DEF TypeOK
<1>2. e \in Requests /\ e.status = requests[i].status
      /\ e.session = requests[i].session /\ e.tool = requests[i].tool
      /\ e.arg = requests[i].arg /\ e.expires = requests[i].expires
  BY <1>1, ExpiredFacts DEF Live
<1>3. status \in Resolved
  BY DEF Resolved
<1>4. r \in Requests /\ r.status = status /\ r.session = e.session
      /\ r.tool = e.tool /\ r.arg = e.arg /\ r.expires = e.expires
  BY <1>1, <1>2, <1>3 DEF Requests
<1>5. Live(Expired(requests[i])) => requests[i] = e /\ ~Overdue(requests[i])
  BY <1>1, LiveMeansInTime
<1>6. Moves(requests[i], r)
  BY <1>2, <1>4, <1>5 DEF Moves, Live
<1>7. \A j \in Id : requests'[j] = IF j = i THEN r ELSE requests[j]
  BY DEF Resolve, TypeOK
<1>8. requests' \in [Id -> Requests]
  BY <1>4 DEF Resolve, TypeOK
<1>9. QED
  BY <1>6, <1>7, <1>8 DEF RequestsMove, Moves

LEMMA HumanMoves ==
    ASSUME TypeOK, Human
    PROVE  RequestsMove
<1>1. ASSUME NEW i \in Id, Approve(i) PROVE RequestsMove
  BY <1>1, ResolveMoves, LookupMoves DEF Approve, TooLate
<1>2. ASSUME NEW i \in Id, Deny(i) PROVE RequestsMove
  BY <1>2, ResolveMoves, LookupMoves DEF Deny, TooLate
<1>3. ASSUME NEW i \in Id, Revoke(i) PROVE RequestsMove
  BY <1>3, ResolveMoves, LookupMoves DEF Revoke, TooLate
<1>4. ASSUME ListPending PROVE RequestsMove
  BY <1>4, ExpiredMoves DEF ListPending, RequestsMove
<1>5. QED
  BY <1>1, <1>2, <1>3, <1>4 DEF Human

LEMMA HumanKeepsUses == Human => UNCHANGED <<confirm, consumed, calls, now, uses, past>>
BY DEF Human, Approve, Deny, Revoke, ListPending

LEMMA SubmitMoves ==
    ASSUME TypeOK, NEW v \in Supervisor, NEW t \in Tool, NEW a \in Arg, Submit(v, t, a)
    PROVE  RequestsMove
<1>1. PICK i \in Id :
         /\ requests[i].status = "unused"
         /\ LET new == [status |-> "pending", session |-> SessionOf[v], tool |-> t, arg |-> a,
                        expires |-> IF TTL = None THEN None ELSE now + TTL, resolved |-> 0]
            IN  \/ requests' = [requests EXCEPT ![i] = new]
                \/ \E j \in Id : /\ Evictable(j)
                                 /\ requests' = [requests EXCEPT ![i] = new,
                                                                 ![j].status = "evicted"]
  BY DEF Submit
<1> DEFINE new == [status |-> "pending", session |-> SessionOf[v], tool |-> t, arg |-> a,
                   expires |-> IF TTL = None THEN None ELSE now + TTL, resolved |-> 0]
<1>2. new \in Requests /\ new.status = "pending"
  BY DEF Requests, TypeOK
<1>3. HIDE DEF new
<1>4. CASE requests' = [requests EXCEPT ![i] = new]
  BY <1>1, <1>2, <1>4 DEF TypeOK, RequestsMove, Moves
<1>5. ASSUME NEW j \in Id, Evictable(j),
             requests' = [requests EXCEPT ![i] = new, ![j].status = "evicted"]
      PROVE  RequestsMove
  <2>1. i # j /\ requests[j].status \in Resolved
    BY <1>1, <1>5 DEF Evictable, Held, TypeOK, Requests
  <2> DEFINE gone == [requests[j] EXCEPT !.status = "evicted"]
  <2>2. gone \in Requests /\ gone.status = "evicted" /\ gone.session = requests[j].session
        /\ gone.tool = requests[j].tool /\ gone.arg = requests[j].arg
        /\ gone.expires = requests[j].expires
    <3>1. requests[j] \in Requests
      BY DEF TypeOK
    <3>2. QED
      BY <3>1 DEF Requests
  <2>3. Moves(requests[j], gone)
    BY <2>1, <2>2 DEF Moves
  <2>4. requests' = [requests EXCEPT ![i] = new, ![j] = gone]
    BY <1>5, <2>1 DEF TypeOK
  <2>5. HIDE DEF gone
  <2>6. \A k \in Id : requests'[k] = IF k = j THEN gone ELSE IF k = i THEN new ELSE requests[k]
    BY <2>4 DEF TypeOK
  <2>7. requests' \in [Id -> Requests]
    BY <1>2, <2>2, <2>4 DEF TypeOK
  <2>8. QED
    BY <1>1, <1>2, <2>3, <2>6, <2>7 DEF RequestsMove, Moves
<1>6. QED
  BY <1>1, <1>4, <1>5 DEF new


\* A call that passes the gate, is refused by it or is queued.
LEMMA BeginMoves ==
    ASSUME TypeOK, NEW c \in Call, NEW v \in Supervisor, NEW t \in Tool, NEW a \in Arg,
           NEW pre \in Id \cup {None}, Begin(c, v, t, a, pre)
    PROVE  RequestsMove
<1>1. CASE UNCHANGED requests
  BY <1>1 DEF TypeOK, RequestsMove, Moves
<1>2. CASE pre # None /\ requests' = [requests EXCEPT ![pre] = Expired(@)]
  <2>1. requests' = [requests EXCEPT ![pre] = Expired(requests[pre])]
    BY <1>2 DEF TypeOK
  <2>2. QED
    BY <1>2, <2>1, LookupMoves
<1>3. CASE Submit(v, t, a)
  BY <1>3, SubmitMoves
<1>4. QED
  BY <1>1, <1>2, <1>3
     DEF Begin, PassUngated, PassApproved, RefuseApproval, Queue

LEMMA ExecuteMoves ==
    ASSUME TypeOK, NEW c \in Call, NEW v \in Supervisor, NEW i \in Id,
           ExecuteApproved(c, v, i)
    PROVE  RequestsMove
BY LookupMoves DEF ExecuteApproved

\* Every step begins a call, is a human's, ends a call or moves the clock.
Begins == \E c \in Call, v \in Supervisor, t \in Tool, a \in Arg, pre \in Id \cup {None} :
              Begin(c, v, t, a, pre)
Executes == \E c \in Call, v \in Supervisor, i \in Id : ExecuteApproved(c, v, i)
Returns == \E c \in Call : Return(c)

LEMMA Steps ==
    ASSUME TypeOK, Next
    PROVE  Human \/ Tick \/ Begins \/ Executes \/ Returns
<1>1. ASSUME NEW c \in Call, NEW d \in Call, NEW t \in Tool, NEW a \in Arg,
             CallFromTool(c, d, t, a)
      PROVE  Begins
  BY <1>1 DEF CallFromTool, Begins, TypeOK, Calls
<1>2. QED
  BY <1>1 DEF Next, Agent, CallTool, CallApproved, Begins, Executes, Returns

LEMMA StepMoves ==
    ASSUME TypeOK, [Next]_vars
    PROVE  RequestsMove
<1>1. CASE Next
  <2>1. CASE Tick \/ Returns
    BY <2>1 DEF Tick, Returns, Return, TypeOK, RequestsMove, Moves
  <2>2. QED
    BY <1>1, <2>1, Steps, HumanMoves, BeginMoves, ExecuteMoves DEF Begins, Executes
<1>2. CASE UNCHANGED vars
  BY <1>2 DEF vars, TypeOK, RequestsMove, Moves
<1>3. QED
  BY <1>1, <1>2

-----------------------------------------------------------------------------
LEMMA InCallType ==
    ASSUME NEW v \in Supervisor, NEW t \in Tool, NEW a \in Arg,
           NEW auth \in Id \cup {None}, NEW pre \in Id \cup {None}
    PROVE  /\ InCall(v, t, a, auth, pre) \in Calls
           /\ ~InCall(v, t, a, auth, pre).exec
           /\ InCall(v, t, a, auth, pre).sup = v /\ InCall(v, t, a, auth, pre).tool = t
           /\ InCall(v, t, a, auth, pre).arg = a /\ InCall(v, t, a, auth, pre).auth = auth
           /\ InCall(v, t, a, auth, pre).beside <=> \E d \in Executing(v) : calls[d].tool = t
<1> DEFINE beside == \E d \in Executing(v) : calls[d].tool = t
<1>1. beside \in BOOLEAN
  OBVIOUS
<1>2. InCall(v, t, a, auth, pre) =
        [sup |-> v, tool |-> t, arg |-> a, auth |-> auth, pre |-> pre,
         saved |-> {}, exec |-> FALSE, under |-> {}, beside |-> beside]
  BY DEF InCall
<1> HIDE DEF beside
<1>3. InCall(v, t, a, auth, pre) \in Calls
  BY <1>1, <1>2 DEF Calls
<1>4. InCall(v, t, a, auth, pre).beside = beside
  BY <1>2
<1>5. QED
  BY <1>2, <1>3, <1>4 DEF beside

LEMMA NoCallType == NoCall \in Calls /\ NoCall.sup = None /\ ~NoCall.exec
BY DEF NoCall, Calls

\* What a coroutine's step leaves well typed besides the requests.
Frame ==
    /\ confirm \in [Supervisor -> SUBSET Tool]
    /\ consumed \in [Supervisor -> SUBSET Id]
    /\ calls \in [Call -> Calls]
    /\ now \in 0..MaxTime
    /\ uses \in [Supervisor -> [Id -> Nat]]
    /\ executed \in [Supervisor -> SUBSET (Tool \cup {None})]
    /\ crossed \in SUBSET Supervisor

LEMMA BeginType ==
    ASSUME TypeOK, NEW c \in Call, NEW v \in Supervisor, NEW t \in Tool, NEW a \in Arg,
           NEW pre \in Id \cup {None}, Begin(c, v, t, a, pre)
    PROVE  Frame'
<1>1. CASE PassUngated(c, v, t, a, pre)
  <2>1. InCall(v, t, a, None, pre) \in Calls
    BY InCallType
  <2>2. QED
    BY <1>1, <2>1 DEF PassUngated, Begin, TypeOK, Frame, past
<1>2. CASE PassApproved(c, v, t, a, pre)
  <2>1. InCall(v, t, a, pre, None) \in Calls /\ pre \in Id
    BY <1>2, InCallType DEF PassApproved
  <2>2. calls' \in [Call -> Calls] /\ consumed' \in [Supervisor -> SUBSET Id]
    BY <1>2, <2>1 DEF PassApproved, TypeOK
  <2>3. uses' \in [Supervisor -> [Id -> Nat]]
    BY <1>2, <2>1 DEF PassApproved, TypeOK
  <2>4. QED
    BY <1>2, <2>2, <2>3 DEF PassApproved, Begin, TypeOK, Frame, past
<1>3. CASE RefuseApproval(c, v, t, a, pre)
  BY <1>3 DEF RefuseApproval, Begin, TypeOK, Frame, past
<1>4. CASE Queue(c, v, t, a, pre)
  BY <1>4 DEF Queue, Begin, TypeOK, Frame, past
<1>5. QED
  BY <1>1, <1>2, <1>3, <1>4 DEF Begin

LEMMA ExecuteType ==
    ASSUME TypeOK, NEW c \in Call, NEW v \in Supervisor, NEW i \in Id,
           ExecuteApproved(c, v, i)
    PROVE  Frame'
<1> DEFINE r == Expired(requests[i])
           call == [sup |-> v, tool |-> r.tool, arg |-> r.arg, auth |-> i, pre |-> None,
                    saved |-> confirm[v], exec |-> TRUE, under |-> Executing(v),
                    beside |-> FALSE]
<1>1. r \in Requests /\ confirm[v] \in SUBSET Tool
  BY ExpiredMoves DEF TypeOK
<1>4. call \in Calls
  BY <1>1 DEF Calls, Requests, Executing
<1>5. calls' \in [Call -> Calls]
  <2>1. calls' = [calls EXCEPT ![c] = call] \/ calls' = calls
    BY DEF ExecuteApproved
  <2>2. HIDE DEF call
  <2>3. QED
    BY <1>4, <2>1 DEF TypeOK
<1>6. confirm' \in [Supervisor -> SUBSET Tool]
  <2>1. confirm' = [confirm EXCEPT ![v] = @ \ {r.tool}] \/ confirm' = confirm
    BY DEF ExecuteApproved
  <2>2. HIDE DEF r
  <2>3. QED
    BY <2>1 DEF TypeOK
<1>7. executed' \in [Supervisor -> SUBSET (Tool \cup {None})]
  <2>1. executed' = [executed EXCEPT ![v] = @ \cup {r.tool}] \/ executed' = executed
    BY DEF ExecuteApproved
  <2>2. r.tool \in Tool \cup {None}
    BY <1>1 DEF Requests
  <2>3. HIDE DEF r
  <2>4. QED
    BY <2>1, <2>2 DEF TypeOK
<1>8. QED
  BY <1>5, <1>6, <1>7 DEF ExecuteApproved, TypeOK, Frame

LEMMA ReturnType ==
    ASSUME TypeOK, NEW c \in Call, Return(c)
    PROVE  Frame'
<1>1. calls[c] \in Calls /\ calls[c].sup \in Supervisor
  BY DEF Return, TypeOK, Calls
<1>2. calls[c].saved \in SUBSET Tool
  BY <1>1 DEF Calls
<1>3. calls' \in [Call -> Calls]
  BY NoCallType DEF Return, TypeOK
<1>4. confirm' \in [Supervisor -> SUBSET Tool]
  BY <1>1, <1>2 DEF Return, TypeOK
<1>5. crossed' \in SUBSET Supervisor
  BY <1>1 DEF Return, TypeOK
<1>6. QED
  BY <1>3, <1>4, <1>5 DEF Return, TypeOK, Frame

LEMMA TypeKept ==
    ASSUME TypeOK, [Next]_vars
    PROVE  TypeOK'
<1>1. requests' \in [Id -> Requests]
  BY StepMoves DEF RequestsMove
<1>2. CASE Human
  BY <1>1, <1>2, HumanKeepsUses DEF TypeOK, past
<1>3. CASE Tick
  BY <1>1, <1>3 DEF Tick, TypeOK, past
<1>4. CASE Begins
  BY <1>1, <1>4, BeginType DEF Begins, TypeOK, Frame
<1>5. CASE Executes
  BY <1>1, <1>5, ExecuteType DEF Executes, TypeOK, Frame
<1>6. CASE Returns
  BY <1>1, <1>6, ReturnType DEF Returns, TypeOK, Frame
<1>7. CASE UNCHANGED vars
  BY <1>7 DEF vars, past, TypeOK
<1>8. QED
  BY <1>2, <1>3, <1>4, <1>5, <1>6, <1>7, Steps

LEMMA InitType == Init => TypeOK
<1>1. NoRequest \in Requests
  BY DEF NoRequest, Requests
<1>2. Init => now \in 0..MaxTime
  BY DEF Init
<1>4. Init => requests \in [Id -> Requests] /\ calls \in [Call -> Calls]
  BY <1>1, NoCallType DEF Init
<1>5. Init => /\ confirm \in [Supervisor -> SUBSET Tool]
              /\ consumed \in [Supervisor -> SUBSET Id]
              /\ uses \in [Supervisor -> [Id -> Nat]]
              /\ executed \in [Supervisor -> SUBSET (Tool \cup {None})] /\ crossed \in SUBSET Supervisor
  BY DEF Init
<1>6. QED
  BY <1>2, <1>4, <1>5 DEF TypeOK

\* Every variable stays in its type, whatever the humans and agents do.
THEOREM TypeCorrect == Spec => []TypeOK
<1>1. QED
  BY InitType, TypeKept, PTL DEF Spec

-----------------------------------------------------------------------------
\* The history variable counts what the code keeps as a set.
UsesCounted ==
    \A v \in Supervisor, i \in Id : uses[v][i] = IF i \in consumed[v] THEN 1 ELSE 0

LEMMA UsesCountedKept ==
    ASSUME TypeOK, UsesCounted, [Next]_vars
    PROVE  UsesCounted'
<1>1. CASE UNCHANGED <<consumed, uses>>
  BY <1>1 DEF UsesCounted
<1>2. ASSUME NEW c \in Call, NEW v \in Supervisor, NEW t \in Tool, NEW a \in Arg,
             NEW pre \in Id \cup {None}, PassApproved(c, v, t, a, pre)
      PROVE  UsesCounted'
  <2>1. pre \in Id /\ pre \notin consumed[v]
    BY <1>2 DEF PassApproved, Matches
  <2>2. ASSUME NEW w \in Supervisor, NEW i \in Id
        PROVE  /\ uses'[w][i] = IF w = v /\ i = pre THEN uses[w][i] + 1 ELSE uses[w][i]
               /\ i \in consumed'[w] <=> (i \in consumed[w] \/ (w = v /\ i = pre))
    BY <1>2, <2>1, <2>2 DEF PassApproved, TypeOK
  <2>3. QED
    BY <2>1, <2>2 DEF UsesCounted
<1>3. CASE Human \/ Tick \/ Executes \/ Returns \/ UNCHANGED vars
  BY <1>1, <1>3, HumanKeepsUses DEF Tick, Executes, ExecuteApproved, Returns, Return, vars
<1>4. CASE Begins
  BY <1>1, <1>2, <1>4 DEF Begins, Begin, PassUngated, RefuseApproval, Queue
<1>5. QED
  BY <1>3, <1>4, Steps

\* An approval lets one call through each supervisor at most, however many
\* copies of the context carry it (Supervisor._consume_approval).
THEOREM SingleUse == Spec => []ApprovalsAreSingleUse
<1>1. Init => UsesCounted
  BY DEF Init, UsesCounted
<1>2. TypeOK /\ UsesCounted /\ [Next]_vars => UsesCounted'
  BY UsesCountedKept
<1>3. UsesCounted => ApprovalsAreSingleUse
  BY DEF UsesCounted, ApprovalsAreSingleUse
<1>4. QED
  BY <1>1, <1>2, <1>3, TypeCorrect, PTL DEF Spec

-----------------------------------------------------------------------------
\* The calls of execute_approved in flight on a supervisor, and their tools.
Runs(cs, v) == {d \in Call : cs[d].sup = v /\ cs[d].exec}
ToolsOf(cs, ds) == {cs[d].tool : d \in ds}

\* No list, in use or saved, lacks a tool that execute_approved has not run.
ListOk(cs, list, ran, v) ==
    /\ Confirm \ list \subseteq ran
    /\ \A c \in Runs(cs, v) : Confirm \ cs[c].saved \subseteq ran

\* As long as no two have crossed, those in flight are nested: of any two, one
\* began during the other, and each saved the list that lacks the tools of those
\* that were in flight before it, all of which still are.
Nested(cs, list, v) ==
    /\ list = Confirm \ ToolsOf(cs, Runs(cs, v))
    /\ \A c \in Runs(cs, v) :
          /\ cs[c].under \subseteq Runs(cs, v) \ {c}
          /\ cs[c].saved = Confirm \ ToolsOf(cs, cs[c].under)
          /\ \A d \in Runs(cs, v) : d # c => d \in cs[c].under \/ c \in cs[d].under

ListsOk ==
    \A v \in Supervisor :
        /\ ListOk(calls, confirm[v], executed[v], v)
        /\ v \notin crossed => Nested(calls, confirm[v], v)

\* The approval a call holds fits it.
Holds(q, call) ==
    /\ call.auth # None
    /\ LET r == q[call.auth] IN
          /\ call.exec \/ r.session = SessionOf[call.sup]
          /\ r.tool = call.tool /\ r.arg = call.arg
          /\ r.status \notin {"unused", "pending", "denied"}

GateOk(q, call, broken, ran) ==
    call.sup # None /\ call.tool \in Confirm =>
        \/ Holds(q, call) \/ call.beside
        \/ call.sup \in broken /\ call.tool \in ran[call.sup]

GateInv == ListsOk /\ \A c \in Call : GateOk(requests, calls[c], crossed, executed)

\* The histories only grow.
PastGrows ==
    /\ crossed \subseteq crossed'
    /\ \A v \in Supervisor : executed[v] \subseteq executed'[v]

LEMMA PastGrown ==
    ASSUME TypeOK, [Next]_vars
    PROVE  PastGrows
<1>1. CASE UNCHANGED past
  BY <1>1 DEF past, PastGrows
<1>2. CASE Human \/ Tick \/ UNCHANGED vars
  BY <1>1, <1>2, HumanKeepsUses DEF Tick, vars
<1>3. CASE Begins
  BY <1>1, <1>3 DEF Begins, Begin
<1>4. ASSUME NEW c \in Call, NEW v \in Supervisor, NEW i \in Id, ExecuteApproved(c, v, i)
      PROVE  PastGrows
  <2>1. crossed' = crossed
    BY <1>4 DEF ExecuteApproved
  <2> DEFINE t == Expired(requests[i]).tool
  <2>2. executed' = executed \/ executed' = [executed EXCEPT ![v] = @ \cup {t}]
    BY <1>4 DEF ExecuteApproved
  <2> HIDE DEF t
  <2>3. QED
    BY <2>1, <2>2 DEF PastGrows, TypeOK
<1>5. CASE Returns
  BY <1>5 DEF Returns, Return, PastGrows
<1>6. QED
  BY <1>2, <1>3, <1>4, <1>5, Steps DEF Executes

\* An approval that let a call in stays what it was, or expires, is revoked or
\* is evicted.
LEMMA GateOkKept ==
    ASSUME TypeOK, RequestsMove, PastGrows, NEW call \in Calls,
           GateOk(requests, call, crossed, executed)
    PROVE  GateOk(requests', call, crossed', executed')
<1>1. CASE Holds(requests, call)
  <2>1. call.auth \in Id
    BY <1>1 DEF Holds, Calls
  <2>2. Moves(requests[call.auth], requests'[call.auth])
    BY <2>1 DEF RequestsMove
  <2>3. Holds(requests', call)
    BY <1>1, <2>2 DEF Holds, Moves, Resolved
  <2>4. QED
    BY <2>3 DEF GateOk
<1>2. CASE ~Holds(requests, call)
  BY <1>2 DEF GateOk, PastGrows, Calls
<1>3. QED
  BY <1>1, <1>2

\* A supervisor whose calls of execute_approved are the same, and so is its list.
LEMMA ListSame ==
    ASSUME NEW cs, NEW ds, NEW v, NEW list, NEW ran,
           Runs(ds, v) = Runs(cs, v), \A d \in Runs(cs, v) : ds[d] = cs[d]
    PROVE  /\ ListOk(cs, list, ran, v) => ListOk(ds, list, ran, v)
           /\ Nested(cs, list, v) => Nested(ds, list, v)
<1>1. ListOk(cs, list, ran, v) => ListOk(ds, list, ran, v)
  BY DEF ListOk
<1>2. ASSUME NEW S, S \subseteq Runs(cs, v)
      PROVE  ToolsOf(ds, S) = ToolsOf(cs, S)
  BY <1>2 DEF ToolsOf
<1>3. ASSUME Nested(cs, list, v) PROVE Nested(ds, list, v)
  <2>1. list = Confirm \ ToolsOf(ds, Runs(ds, v))
    BY <1>2, <1>3 DEF Nested
  <2>2. ASSUME NEW c \in Runs(ds, v)
        PROVE  /\ ds[c].under \subseteq Runs(ds, v) \ {c}
               /\ ds[c].saved = Confirm \ ToolsOf(ds, ds[c].under)
               /\ \A d \in Runs(ds, v) : d # c => d \in ds[c].under \/ c \in ds[d].under
    <3>1. /\ cs[c].under \subseteq Runs(cs, v) \ {c}
          /\ cs[c].saved = Confirm \ ToolsOf(cs, cs[c].under)
          /\ \A d \in Runs(cs, v) : d # c => d \in cs[c].under \/ c \in cs[d].under
      BY <1>3 DEF Nested
    <3>2. ToolsOf(ds, cs[c].under) = ToolsOf(cs, cs[c].under)
      BY <1>2, <3>1
    <3>3. QED
      BY <3>1, <3>2
  <2>3. QED
    BY <2>1, <2>2 DEF Nested
<1>4. QED
  BY <1>1, <1>3

\* One more begins: it saved the list it found.
LEMMA NestedEnter ==
    ASSUME NEW cs, NEW ds, NEW v, NEW list, NEW c \in Call, Nested(cs, list, v),
           c \notin Runs(cs, v), \A d \in Call : d # c => ds[d] = cs[d],
           ds[c].sup = v, ds[c].exec, ds[c].saved = list, ds[c].under = Runs(cs, v)
    PROVE  Nested(ds, list \ {ds[c].tool}, v)
<1>1. Runs(ds, v) = Runs(cs, v) \cup {c}
  BY DEF Runs
<1>2. Runs(cs, v) \subseteq Call
  BY DEF Runs
<1>3. ASSUME NEW S, S \subseteq Runs(cs, v) PROVE ToolsOf(ds, S) = ToolsOf(cs, S)
  BY <1>2, <1>3 DEF ToolsOf
<1>4. ToolsOf(ds, Runs(ds, v)) = ToolsOf(cs, Runs(cs, v)) \cup {ds[c].tool}
  <2>1. ToolsOf(ds, Runs(ds, v)) = ToolsOf(ds, Runs(cs, v)) \cup {ds[c].tool}
    BY <1>1 DEF ToolsOf
  <2>2. QED
    BY <1>3, <2>1
<1>5. list \ {ds[c].tool} = Confirm \ ToolsOf(ds, Runs(ds, v))
  <2>1. list = Confirm \ ToolsOf(cs, Runs(cs, v))
    BY DEF Nested
  <2>2. QED
    BY <1>4, <2>1
<1>6. ASSUME NEW d \in Runs(ds, v)
      PROVE  /\ ds[d].under \subseteq Runs(ds, v) \ {d}
             /\ ds[d].saved = Confirm \ ToolsOf(ds, ds[d].under)
             /\ \A e \in Runs(ds, v) : e # d => e \in ds[d].under \/ d \in ds[e].under
  <2>1. CASE d = c
    <3>1. ds[d].saved = Confirm \ ToolsOf(ds, ds[d].under)
      BY <1>3, <2>1 DEF Nested
    <3>2. QED
      BY <1>1, <2>1, <3>1
  <2>2. CASE d # c
    <3>1. d \in Runs(cs, v) /\ ds[d] = cs[d]
      BY <1>1, <1>2, <2>2
    <3>2. /\ cs[d].under \subseteq Runs(cs, v) \ {d}
          /\ cs[d].saved = Confirm \ ToolsOf(cs, cs[d].under)
          /\ \A e \in Runs(cs, v) : e # d => e \in cs[d].under \/ d \in cs[e].under
      BY <3>1 DEF Nested
    <3>3. ToolsOf(ds, cs[d].under) = ToolsOf(cs, cs[d].under)
      BY <1>3, <3>2
    <3>4. \A e \in Runs(ds, v) : e # d => e \in ds[d].under \/ d \in ds[e].under
      BY <1>1, <1>2, <3>1, <3>2
    <3>5. QED
      BY <1>1, <3>1, <3>2, <3>3, <3>4
  <2>3. QED
    BY <2>1, <2>2
<1>7. QED
  BY <1>5, <1>6 DEF Nested

\* One ends in which no other is nested: the list it saved lacks the tools of all
\* the rest.
LEMMA NestedLeave ==
    ASSUME NEW cs, NEW ds, NEW v, NEW list, NEW c \in Runs(cs, v), Nested(cs, list, v),
           \A d \in Runs(cs, v) : c \notin cs[d].under,
           \A d \in Call : d # c => ds[d] = cs[d], ds[c].sup # v
    PROVE  Nested(ds, cs[c].saved, v)
<1>1. Runs(ds, v) = Runs(cs, v) \ {c} /\ Runs(cs, v) \subseteq Call
  BY DEF Runs
<1>2. Runs(ds, v) = cs[c].under
  BY <1>1 DEF Nested
<1>3. ASSUME NEW S, S \subseteq Runs(ds, v) PROVE ToolsOf(ds, S) = ToolsOf(cs, S)
  BY <1>1, <1>3 DEF ToolsOf
<1>4. cs[c].saved = Confirm \ ToolsOf(ds, Runs(ds, v))
  BY <1>2, <1>3 DEF Nested
<1>5. ASSUME NEW d \in Runs(ds, v)
      PROVE  /\ ds[d].under \subseteq Runs(ds, v) \ {d}
             /\ ds[d].saved = Confirm \ ToolsOf(ds, ds[d].under)
             /\ \A e \in Runs(ds, v) : e # d => e \in ds[d].under \/ d \in ds[e].under
  <2>1. d \in Runs(cs, v) /\ d # c /\ ds[d] = cs[d]
    BY <1>1
  <2>2. /\ cs[d].under \subseteq Runs(cs, v) \ {d}
        /\ cs[d].saved = Confirm \ ToolsOf(cs, cs[d].under)
        /\ \A e \in Runs(cs, v) : e # d => e \in cs[d].under \/ d \in cs[e].under
    BY <2>1 DEF Nested
  <2>3. cs[d].under \subseteq Runs(ds, v) \ {d}
    BY <1>1, <2>1, <2>2
  <2>4. ToolsOf(ds, cs[d].under) = ToolsOf(cs, cs[d].under)
    BY <1>3, <2>3
  <2>5. \A e \in Runs(ds, v) : e # d => e \in ds[d].under \/ d \in ds[e].under
    BY <1>1, <2>1, <2>2
  <2>6. QED
    BY <2>1, <2>2, <2>3, <2>4, <2>5
<1>6. QED
  BY <1>4, <1>5 DEF Nested

LEMMA GateKeptByBegin ==
    ASSUME TypeOK, GateInv, RequestsMove, PastGrows,
           NEW c \in Call, NEW v \in Supervisor, NEW t \in Tool, NEW a \in Arg,
           NEW pre \in Id \cup {None}, Begin(c, v, t, a, pre)
    PROVE  GateInv'
<1>1. confirm' = confirm /\ calls[c].sup = None /\ executed' = executed /\ crossed' = crossed
  BY DEF Begin, past
<1>2. ASSUME NEW d \in Call, calls'[d] = calls[d]
      PROVE  GateOk(requests, calls[d], crossed, executed)' 
  BY <1>2, GateOkKept DEF GateInv, TypeOK
<1>3. ASSUME NEW call \in Calls, ~call.exec, calls' = [calls EXCEPT ![c] = call],
             GateOk(requests', call, crossed', executed')
      PROVE  GateInv'
  <2>1. \A d \in Call : calls'[d] = IF d = c THEN call ELSE calls[d]
    BY <1>3 DEF TypeOK
  <2>2. \A w \in Supervisor :
           Runs(calls', w) = Runs(calls, w) /\ \A d \in Runs(calls, w) : calls'[d] = calls[d]
    BY <1>1, <1>3, <2>1 DEF Runs
  <2>3. ListsOk'
    BY <1>1, <2>2, ListSame DEF GateInv, ListsOk
  <2>4. \A d \in Call : GateOk(requests, calls[d], crossed, executed)'
    BY <1>2, <1>3, <2>1
  <2>5. QED
    BY <2>3, <2>4 DEF GateInv
<1>4. CASE PassUngated(c, v, t, a, pre)
  <2> DEFINE call == InCall(v, t, a, None, pre)
  <2>1. /\ call \in Calls /\ call.sup = v /\ ~call.exec /\ call.tool = t
        /\ call.beside <=> \E d \in Executing(v) : calls[d].tool = t
    BY InCallType
  <2>2. calls' = [calls EXCEPT ![c] = call] /\ t \notin confirm[v]
    BY <1>4 DEF PassUngated
  <2>3. t \in Confirm => t \in executed[v]
    BY <2>2 DEF GateInv, ListsOk, ListOk
  <2>4. t \in Confirm /\ v \notin crossed => \E d \in Executing(v) : calls[d].tool = t
    BY <2>2 DEF GateInv, ListsOk, Nested, ToolsOf, Runs, Executing
  <2>5. GateOk(requests', call, crossed', executed')
    <3> HIDE DEF call
    <3>1. QED
      BY <1>1, <2>1, <2>3, <2>4 DEF GateOk
  <2> HIDE DEF call
  <2>6. QED
    BY <1>3, <2>1, <2>2, <2>5
<1>5. CASE PassApproved(c, v, t, a, pre)
  <2> DEFINE call == InCall(v, t, a, pre, None)
  <2>1. pre \in Id /\ Expired(requests[pre]).status = "approved"
        /\ requests[pre].session = SessionOf[v]
        /\ requests[pre].tool = t /\ requests[pre].arg = a
    BY <1>5 DEF PassApproved, Matches
  <2>2. requests'[pre] = Expired(requests[pre])
    BY <1>5, <2>1 DEF PassApproved, TypeOK
  <2>3. Expired(requests[pre]) = requests[pre]
    BY <2>1, LiveMeansInTime DEF Live, TypeOK
  <2>4. call \in Calls /\ call.sup = v /\ ~call.exec
    BY <2>1, InCallType
  <2>5. Holds(requests', call)
    BY <2>1, <2>2, <2>3, InCallType DEF Holds
  <2>6. calls' = [calls EXCEPT ![c] = call]
    BY <1>5 DEF PassApproved
  <2>7. GateOk(requests', call, crossed', executed')
    BY <2>5 DEF GateOk
  <2> HIDE DEF call
  <2>8. QED
    BY <1>3, <2>4, <2>6, <2>7
<1>6. CASE RefuseApproval(c, v, t, a, pre) \/ Queue(c, v, t, a, pre)
  <2>1. calls' = calls
    BY <1>6 DEF RefuseApproval, Queue
  <2>2. ListsOk'
    BY <1>1, <2>1 DEF GateInv, ListsOk
  <2>3. QED
    BY <1>2, <2>1, <2>2 DEF GateInv
<1>7. QED
  BY <1>4, <1>5, <1>6 DEF Begin

\* execute_approved takes the tool off the list, whatever else is in flight.
LEMMA GateKeptByExecute ==
    ASSUME TypeOK, GateInv, RequestsMove, PastGrows,
           NEW c \in Call, NEW v \in Supervisor, NEW i \in Id, ExecuteApproved(c, v, i)
    PROVE  GateInv'
<1> DEFINE r == Expired(requests[i])
           call == [sup |-> v, tool |-> r.tool, arg |-> r.arg, auth |-> i, pre |-> None,
                    saved |-> confirm[v], exec |-> TRUE, under |-> Executing(v),
                    beside |-> FALSE]
<1>1. ASSUME NEW d \in Call, calls'[d] = calls[d]
      PROVE  GateOk(requests, calls[d], crossed, executed)'
  BY <1>1, GateOkKept DEF GateInv, TypeOK
<1>2. r \in Requests /\ confirm[v] \in SUBSET Tool
  BY ExpiredMoves DEF TypeOK
<1>3. call.sup = v /\ call.exec /\ call.saved = confirm[v] /\ call.under = Runs(calls, v)
      /\ call.tool = r.tool /\ call.arg = r.arg /\ call.auth = i
  BY DEF Runs, Executing
<1>4. calls[c].sup = None /\ crossed' = crossed
  BY DEF ExecuteApproved
<1>5. CASE r.status = "approved"
  <2>1. calls' = [calls EXCEPT ![c] = call]
    BY <1>5 DEF ExecuteApproved
  <2>2. /\ confirm' = [confirm EXCEPT ![v] = confirm[v] \ {r.tool}]
        /\ executed' = [executed EXCEPT ![v] = executed[v] \cup {r.tool}]
    BY <1>5 DEF ExecuteApproved
  <2>3. \A w \in Supervisor :
           /\ confirm'[w] = IF w = v THEN confirm[v] \ {r.tool} ELSE confirm[w]
           /\ executed'[w] = IF w = v THEN executed[v] \cup {r.tool} ELSE executed[w]
    <3> HIDE DEF r
    <3>1. QED
      BY <2>2 DEF TypeOK
  <2>4. requests'[i] = r
    BY DEF ExecuteApproved, TypeOK
  <2>5. Holds(requests', call)
    <3> HIDE DEF r, call
    <3>1. QED
      BY <1>3, <1>5, <2>4 DEF Holds
  <2> HIDE DEF r, call
  <2>6. GateOk(requests', call, crossed', executed')
    BY <2>5 DEF GateOk
  <2>7. \A d \in Call : calls'[d] = IF d = c THEN call ELSE calls[d]
    BY <2>1 DEF TypeOK
  <2>8. c \notin Runs(calls, v)
    BY <1>4 DEF Runs
  <2>9. ListOk(calls', confirm'[v], executed'[v], v)
    <3>1. Confirm \ confirm[v] \subseteq executed[v]
          /\ \A d \in Runs(calls, v) : Confirm \ calls[d].saved \subseteq executed[v]
      BY DEF GateInv, ListsOk, ListOk
    <3>2. \A d \in Runs(calls', v) : d = c \/ (d \in Runs(calls, v) /\ calls'[d] = calls[d])
      BY <2>7 DEF Runs
    <3>3. calls'[c].saved = confirm[v]
      BY <1>3, <2>7
    <3>4. QED
      BY <2>3, <3>1, <3>2, <3>3 DEF ListOk
  <2>10. v \notin crossed' => Nested(calls', confirm'[v], v)
    <3>1. SUFFICES ASSUME Nested(calls, confirm[v], v) PROVE Nested(calls', confirm'[v], v)
      BY <1>4 DEF GateInv, ListsOk
    <3>2. confirm'[v] = confirm[v] \ {calls'[c].tool}
      BY <1>3, <2>3, <2>7
    <3>3. /\ calls'[c].sup = v /\ calls'[c].exec /\ calls'[c].saved = confirm[v]
          /\ calls'[c].under = Runs(calls, v)
      BY <1>3, <2>7
    <3>4. \A d \in Call : d # c => calls'[d] = calls[d]
      BY <2>7
    <3>5. Nested(calls', confirm[v] \ {calls'[c].tool}, v)
      BY <2>8, <3>1, <3>3, <3>4, NestedEnter
    <3>6. QED
      BY <3>2, <3>5
  <2>11. ASSUME NEW w \in Supervisor, w # v
         PROVE  /\ ListOk(calls', confirm'[w], executed'[w], w)
                /\ w \notin crossed' => Nested(calls', confirm'[w], w)
    <3>1. Runs(calls', w) = Runs(calls, w) /\ \A d \in Runs(calls, w) : calls'[d] = calls[d]
      BY <1>3, <1>4, <2>7, <2>11 DEF Runs
    <3>2. confirm'[w] = confirm[w] /\ executed'[w] = executed[w]
      BY <2>3, <2>11
    <3>3. QED
      BY <1>4, <3>1, <3>2, ListSame DEF GateInv, ListsOk
  <2>12. ListsOk'
    BY <2>9, <2>10, <2>11 DEF ListsOk
  <2>13. QED
    BY <1>1, <2>6, <2>7, <2>12 DEF GateInv
<1>6. CASE r.status # "approved"
  <2>1. calls' = calls /\ confirm' = confirm /\ executed' = executed
    BY <1>6 DEF ExecuteApproved
  <2>2. ListsOk'
    BY <1>4, <2>1 DEF GateInv, ListsOk
  <2>3. QED
    BY <1>1, <2>1, <2>2 DEF GateInv
<1>7. QED
  BY <1>5, <1>6

\* A call ends: execute_approved puts back the list it saved.
LEMMA GateKeptByReturn ==
    ASSUME TypeOK, GateInv, RequestsMove, PastGrows, NEW c \in Call, Return(c)
    PROVE  GateInv'
<1> DEFINE v == calls[c].sup
<1>1. v \in Supervisor /\ executed' = executed
  BY DEF Return, TypeOK, Calls
<1>2. \A d \in Call : calls'[d] = IF d = c THEN NoCall ELSE calls[d]
  BY DEF Return, TypeOK
<1>3. NoCall.sup = None /\ ~NoCall.exec
  BY NoCallType
<1>4. \A w \in Supervisor :
         confirm'[w] = IF calls[c].exec /\ w = v THEN calls[c].saved ELSE confirm[w]
  BY <1>1 DEF Return, TypeOK
<1>5. ASSUME NEW w \in Supervisor, ~(calls[c].exec /\ w = v)
      PROVE  /\ ListOk(calls', confirm'[w], executed'[w], w)
             /\ w \notin crossed' => Nested(calls', confirm'[w], w)
  <2>1. Runs(calls', w) = Runs(calls, w) /\ \A d \in Runs(calls, w) : calls'[d] = calls[d]
    BY <1>2, <1>3, <1>5 DEF Runs
  <2>2. confirm'[w] = confirm[w] /\ (w \notin crossed' => w \notin crossed)
    BY <1>4, <1>5 DEF PastGrows
  <2>3. QED
    BY <1>1, <2>1, <2>2, ListSame DEF GateInv, ListsOk
<1>6. CASE calls[c].exec
  <2>1. c \in Runs(calls, v) /\ confirm'[v] = calls[c].saved
    BY <1>1, <1>4, <1>6 DEF Runs
  <2>2. \A d \in Call : d # c => calls'[d] = calls[d]
    BY <1>2
  <2>3. calls'[c].sup # v
    BY <1>1, <1>2, <1>3
  <2>4. ListOk(calls', confirm'[v], executed'[v], v)
    <3>1. Runs(calls', v) \subseteq Runs(calls, v) \ {c}
      BY <2>2, <2>3 DEF Runs
    <3>2. \A d \in Runs(calls, v) : Confirm \ calls[d].saved \subseteq executed[v]
      BY <1>1 DEF GateInv, ListsOk, ListOk
    <3>3. \A d \in Runs(calls', v) : d \in Runs(calls, v) /\ calls'[d] = calls[d]
      BY <2>2, <3>1 DEF Runs
    <3>4. QED
      BY <1>1, <2>1, <3>2, <3>3 DEF ListOk
  <2>5. v \notin crossed' => Nested(calls', confirm'[v], v)
    <3>1. SUFFICES ASSUME v \notin crossed' PROVE Nested(calls', confirm'[v], v)
      OBVIOUS
    <3>2. v \notin crossed /\ ~Crosses(c)
      BY <1>1, <3>1 DEF Return, PastGrows
    <3>3. \A d \in Runs(calls, v) : c \notin calls[d].under
      BY <1>6, <3>2 DEF Crosses, Runs, Executing
    <3>4. Nested(calls, confirm[v], v)
      BY <1>1, <3>2 DEF GateInv, ListsOk
    <3> HIDE DEF v
    <3>5. Nested(calls', calls[c].saved, v)
      BY <2>1, <2>2, <2>3, <3>3, <3>4, NestedLeave
    <3>6. QED
      BY <2>1, <3>5
  <2>6. QED
    <3>1. ListsOk'
      BY <1>5, <2>4, <2>5 DEF ListsOk
    <3>2. ASSUME NEW d \in Call PROVE GateOk(requests, calls[d], crossed, executed)'
      BY <1>2, <1>3, GateOkKept DEF GateInv, TypeOK, GateOk
    <3>3. QED
      BY <3>1, <3>2 DEF GateInv
<1>7. CASE ~calls[c].exec
  <2>1. ListsOk'
    BY <1>5, <1>7 DEF ListsOk
  <2>2. ASSUME NEW d \in Call PROVE GateOk(requests, calls[d], crossed, executed)'
    BY <1>2, <1>3, GateOkKept DEF GateInv, TypeOK, GateOk
  <2>3. QED
    BY <2>1, <2>2 DEF GateInv
<1>8. QED
  BY <1>6, <1>7

LEMMA GateKept ==
    ASSUME TypeOK, GateInv, [Next]_vars
    PROVE  GateInv'
<1>1. RequestsMove /\ PastGrows
  BY StepMoves, PastGrown
<1>2. ASSUME UNCHANGED <<confirm, calls, past>> PROVE GateInv'
  <2>1. \A d \in Call : GateOk(requests, calls[d], crossed, executed)'
    BY <1>1, <1>2, GateOkKept DEF GateInv, TypeOK
  <2>2. QED
    BY <1>2, <2>1 DEF GateInv, ListsOk, past
<1>3. CASE Human \/ Tick \/ UNCHANGED vars
  BY <1>2, <1>3, HumanKeepsUses DEF Tick, vars
<1>4. CASE Begins
  BY <1>1, <1>4, GateKeptByBegin DEF Begins
<1>5. CASE Executes
  BY <1>1, <1>5, GateKeptByExecute DEF Executes
<1>6. CASE Returns
  BY <1>1, <1>6, GateKeptByReturn DEF Returns
<1>7. QED
  BY <1>3, <1>4, <1>5, <1>6, Steps

LEMMA GateInvHolds == Spec => [](TypeOK /\ GateInv)
<1>1. Init => GateInv
  <2> SUFFICES ASSUME Init PROVE GateInv
    OBVIOUS
  <2>1. \A v \in Supervisor : Runs(calls, v) = {} /\ confirm[v] = Confirm
    BY NoCallType DEF Init, Runs
  <2>2. ListsOk
    BY <2>1 DEF ListsOk, ListOk, Nested, ToolsOf
  <2>3. \A c \in Call : GateOk(requests, calls[c], crossed, executed)
    BY NoCallType DEF Init, GateOk
  <2>4. QED
    BY <2>2, <2>3 DEF GateInv
<1>2. TypeOK /\ GateInv /\ [Next]_vars => GateInv'
  BY GateKept
<1>3. QED
  BY <1>1, <1>2, TypeCorrect, PTL DEF Spec

\* A gated tool runs with an approval of its own; past the gate without one slip
\* only the calls beside an execute_approved of the same tool, or after two of
\* them crossed (Supervisor._check_confirm, execute_approved).
THEOREM GateHolds == Spec => []GatedCallsAreApproved
<1>1. TypeOK /\ GateInv => GatedCallsAreApproved
  BY DEF GateInv, GateOk, Holds, Authorised, GatedCallsAreApproved
<1>2. QED
  BY <1>1, GateInvHolds, PTL

\* However its calls overlap, execute_approved leaves the operator's list whole
\* unless one ends before another that began during it, and even then only tools
\* it ran are missing (supervisor.py:814-823).
THEOREM GateRestored == Spec => []GateIsRestored
<1>1. TypeOK /\ GateInv => GateIsRestored
  BY DEF GateInv, ListsOk, ListOk, Nested, ToolsOf, Runs, Executing, GateIsRestored
<1>2. QED
  BY <1>1, GateInvHolds, PTL

-----------------------------------------------------------------------------
LEMMA DeadStays ==
    ASSUME TypeOK, RequestsMove, now' \in Nat, now' >= now, NEW i \in Id, Dead(i)
    PROVE  Dead(i)'
<1>1. /\ requests[i] \in Requests /\ now \in Nat
      /\ Moves(requests[i], requests'[i]) /\ requests'[i] \in Requests
  BY DEF TypeOK, RequestsMove
<1>2. CASE requests'[i].status \in {"denied", "expired", "revoked", "evicted"}
  BY <1>2 DEF Dead
<1>3. CASE requests'[i] = requests[i]
  <2>1. requests[i].expires = None \/ requests[i].expires \in Nat
    BY <1>1 DEF Requests
  <2>2. Overdue(requests[i]) => Overdue(requests[i])'
    BY <1>1, <1>3, <2>1 DEF Overdue
  <2>3. QED
    BY <1>3, <2>2 DEF Dead, Live
<1>4. QED
  BY <1>1, <1>2, <1>3 DEF Dead, Moves, Live, Resolved

LEMMA DeadIsUnused ==
    ASSUME TypeOK, [Next]_vars, NEW i \in Id, Dead(i), NEW v \in Supervisor
    PROVE  uses'[v][i] = uses[v][i]
<1>1. CASE UNCHANGED uses
  BY <1>1
<1>2. ASSUME NEW c \in Call, NEW w \in Supervisor, NEW t \in Tool, NEW a \in Arg,
             NEW pre \in Id \cup {None}, PassApproved(c, w, t, a, pre)
      PROVE  uses'[v][i] = uses[v][i]
  <2>1. pre \in Id /\ Expired(requests[pre]).status = "approved"
    BY <1>2 DEF PassApproved, Matches
  <2>2. Expired(requests[pre]) = requests[pre] /\ ~Overdue(requests[pre])
    BY <2>1, LiveMeansInTime DEF Live, TypeOK
  <2>3. i # pre
    BY <2>1, <2>2 DEF Dead
  <2>4. QED
    BY <1>2, <2>3 DEF PassApproved, TypeOK
<1>3. CASE Human \/ Tick \/ Executes \/ Returns \/ UNCHANGED vars
  BY <1>1, <1>3, HumanKeepsUses DEF Tick, Executes, ExecuteApproved, Returns, Return, vars
<1>4. CASE Begins
  BY <1>1, <1>2, <1>4 DEF Begins, Begin, PassUngated, RefuseApproval, Queue
<1>5. QED
  BY <1>3, <1>4, Steps

\* An approval that was denied, has expired or was revoked never lives again
\* and lets no further call through (ApprovalQueue._expire, approve, revoke).
THEOREM DeadIsForEver == Spec => DeadApprovalsStayDead
<1>1. ASSUME TypeOK, TypeOK', [Next]_vars, NEW i \in Id, Dead(i)
      PROVE  Dead(i)' /\ \A v \in Supervisor : uses'[v][i] = uses[v][i]
  <2>1. now' \in Nat /\ now' >= now
    <3>1. now' = now \/ now' = now + 1
      BY <1>1, Steps, HumanKeepsUses
         DEF Tick, Begins, Begin, Executes, ExecuteApproved, Returns, Return, vars
    <3>2. QED
      BY <1>1, <3>1 DEF TypeOK
  <2>2. QED
    BY <1>1, <2>1, StepMoves, DeadStays, DeadIsUnused
<1>2. TypeOK /\ TypeOK' /\ [Next]_vars =>
        [\A i \in Id : Dead(i) =>
            Dead(i)' /\ \A v \in Supervisor : uses'[v][i] = uses[v][i]]_vars
  BY <1>1
<1>3. QED
  BY <1>2, TypeCorrect, PTL DEF Spec, DeadApprovalsStayDead

-----------------------------------------------------------------------------
\* The queue: only a submission changes which requests are held.
LEMMA HeldAfterLookup ==
    ASSUME TypeOK, NEW i \in Id, requests' = [requests EXCEPT ![i] = Expired(requests[i])]
    PROVE  Held' = Held
<1>1. requests[i] \in Requests /\ now \in Nat
  BY DEF TypeOK
<1>2. Expired(requests[i]).status # requests[i].status =>
        Expired(requests[i]).status = "expired" /\ requests[i].status \in {"pending", "approved"}
  BY <1>1, ExpiredFacts
<1>3. \A j \in Id : requests'[j] = IF j = i THEN Expired(requests[i]) ELSE requests[j]
  BY DEF TypeOK
<1>4. QED
  BY <1>2, <1>3 DEF Held

LEMMA HeldAfterAnswer ==
    ASSUME TypeOK, NEW i \in Held, NEW status \in {"approved", "denied", "revoked"},
           Resolve(i, status)
    PROVE  Held' = Held
<1>1. i \in Id /\ requests[i] \in Requests /\ now \in Nat
  BY DEF TypeOK, Held
<1>2. Expired(requests[i]) \in Requests
  BY <1>1, ExpiredFacts
<1>3. requests'[i].status = status /\ \A j \in Id \ {i} : requests'[j] = requests[j]
  BY <1>1, <1>2 DEF Resolve, TypeOK, Requests
<1>4. QED
  BY <1>1, <1>3 DEF Held

LEMMA HeldAfterHuman ==
    ASSUME TypeOK, Human
    PROVE  Held' = Held
<1>1. ASSUME NEW i \in Id, Approve(i) \/ Deny(i) \/ Revoke(i) PROVE Held' = Held
  BY <1>1, HeldAfterLookup, HeldAfterAnswer DEF Approve, Deny, Revoke, TooLate
<1>2. ASSUME ListPending PROVE Held' = Held
  <2>1. ASSUME NEW i \in Id
        PROVE  \/ requests'[i].status = requests[i].status
               \/ /\ requests'[i].status = "expired"
                  /\ requests[i].status \in {"pending", "approved"}
    <3>1. requests[i] \in Requests /\ now \in Nat
      BY DEF TypeOK
    <3>2. requests'[i] = Expired(requests[i])
      BY <1>2 DEF ListPending
    <3>3. Expired(requests[i]).status # requests[i].status =>
            Expired(requests[i]).status = "expired"
            /\ requests[i].status \in {"pending", "approved"}
      BY <3>1, ExpiredFacts
    <3>4. QED
      BY <3>2, <3>3
  <2>2. QED
    BY <2>1 DEF Held
<1>3. QED
  BY <1>1, <1>2 DEF Human

\* A submission that finds the queue full puts out one that was answered.
LEMMA HeldAfterSubmit ==
    ASSUME TypeOK, NEW v \in Supervisor, NEW t \in Tool, NEW a \in Arg, Submit(v, t, a)
    PROVE  \E i \in Id \ Held :
              \/ Cardinality(Held) < MaxRequests /\ Held' = Held \cup {i}
              \/ \E j \in Held : requests[j].status # "pending" /\ Held' = (Held \cup {i}) \ {j}
<1> DEFINE new == [status |-> "pending", session |-> SessionOf[v], tool |-> t, arg |-> a,
                   expires |-> IF TTL = None THEN None ELSE now + TTL, resolved |-> 0]
<1>1. PICK i \in Id :
         /\ requests[i].status = "unused"
         /\ \/ Cardinality(Held) < MaxRequests /\ requests' = [requests EXCEPT ![i] = new]
            \/ \E j \in Id : /\ Evictable(j)
                             /\ requests' = [requests EXCEPT ![i] = new, ![j].status = "evicted"]
  BY DEF Submit
<1>2. new.status = "pending"
  OBVIOUS
<1> HIDE DEF new
<1>3. i \in Id \ Held
  BY <1>1 DEF Held
<1>4. CASE Cardinality(Held) < MaxRequests /\ requests' = [requests EXCEPT ![i] = new]
  <2>1. Held' = Held \cup {i}
    BY <1>2, <1>4 DEF Held, TypeOK
  <2>2. QED
    BY <1>3, <1>4, <2>1
<1>5. ASSUME NEW j \in Id, Evictable(j),
             requests' = [requests EXCEPT ![i] = new, ![j].status = "evicted"]
      PROVE  \E k \in Held : requests[k].status # "pending" /\ Held' = (Held \cup {i}) \ {k}
  <2>1. j \in Held /\ requests[j].status # "pending" /\ i # j
    BY <1>3, <1>5 DEF Evictable
  <2>2. requests[j] \in Requests
    BY DEF TypeOK
  <2>3. requests'[j].status = "evicted" /\ requests'[i] = new
        /\ \A k \in Id \ {i, j} : requests'[k] = requests[k]
    BY <1>5, <2>1, <2>2 DEF TypeOK, Requests
  <2>4. Held' = (Held \cup {i}) \ {j}
    BY <1>2, <2>1, <2>3 DEF Held
  <2>5. QED
    BY <2>1, <2>4
<1>6. QED
  BY <1>1, <1>3, <1>4, <1>5

LEMMA HeldMoves ==
    ASSUME TypeOK, [Next]_vars
    PROVE  \/ Held' = Held
           \/ \E i \in Id \ Held :
                 \/ Cardinality(Held) < MaxRequests /\ Held' = Held \cup {i}
                 \/ \E j \in Held : requests[j].status # "pending" /\ Held' = (Held \cup {i}) \ {j}
<1>1. CASE UNCHANGED requests
  BY <1>1 DEF Held
<1>2. ASSUME NEW c \in Call, NEW v \in Supervisor, NEW t \in Tool, NEW a \in Arg,
             NEW pre \in Id \cup {None}, Begin(c, v, t, a, pre), ~Submit(v, t, a)
      PROVE  Held' = Held
  <2>1. CASE PassApproved(c, v, t, a, pre) \/ RefuseApproval(c, v, t, a, pre)
    <3>1. pre \in Id /\ requests' = [requests EXCEPT ![pre] = Expired(requests[pre])]
      BY <2>1 DEF TypeOK, PassApproved, RefuseApproval
    <3>2. QED
      BY <3>1, HeldAfterLookup
  <2>2. CASE PassUngated(c, v, t, a, pre)
    BY <2>2 DEF PassUngated, Held
  <2>3. CASE Queue(c, v, t, a, pre)
    BY <1>2, <2>3 DEF Queue, Held
  <2>4. QED
    BY <1>2, <2>1, <2>2, <2>3 DEF Begin
<1>3. CASE Begins
  BY <1>2, <1>3, HeldAfterSubmit DEF Begins
<1>4. CASE Executes
  BY <1>4, HeldAfterLookup DEF Executes, ExecuteApproved
<1>5. CASE Tick \/ Returns \/ UNCHANGED vars
  BY <1>1, <1>5 DEF Tick, Returns, Return, vars
<1>6. QED
  BY <1>3, <1>4, <1>5, HeldAfterHuman, Steps

QueueInv == IsFiniteSet(Held) /\ Cardinality(Held) <= MaxRequests

LEMMA QueueInvHolds == Spec => [](TypeOK /\ QueueInv)
<1>1. Init => QueueInv
  <2>1. Init => Held = {}
    BY DEF Init, Held, NoRequest
  <2>2. QED
    BY <2>1, FS_EmptySet DEF QueueInv
<1>2. ASSUME TypeOK, QueueInv, [Next]_vars PROVE QueueInv'
  <2>1. IsFiniteSet(Held) /\ Cardinality(Held) \in Nat /\ Cardinality(Held) <= MaxRequests
    BY <1>2, FS_CardinalityType DEF QueueInv
  <2>2. CASE Held' = Held
    BY <1>2, <2>2 DEF QueueInv
  <2>3. ASSUME NEW i \in Id \ Held, Cardinality(Held) < MaxRequests, Held' = Held \cup {i}
        PROVE  QueueInv'
    <3>1. IsFiniteSet(Held') /\ Cardinality(Held') = Cardinality(Held) + 1
      BY <2>1, <2>3, FS_AddElement
    <3>2. QED
      BY <2>1, <2>3, <3>1 DEF QueueInv
  <2>4. ASSUME NEW i \in Id \ Held, NEW j \in Held, Held' = (Held \cup {i}) \ {j}
        PROVE  QueueInv'
    <3>1. IsFiniteSet(Held \cup {i}) /\ Cardinality(Held \cup {i}) = Cardinality(Held) + 1
      BY <2>1, <2>4, FS_AddElement
    <3>2. IsFiniteSet(Held') /\ Cardinality(Held') = Cardinality(Held \cup {i}) - 1
      BY <2>4, <3>1, FS_RemoveElement
    <3>3. QED
      BY <2>1, <3>1, <3>2 DEF QueueInv
  <2>5. QED
    BY <1>2, <2>2, <2>3, <2>4, HeldMoves
<1>3. QED
  BY <1>1, <1>2, TypeCorrect, PTL DEF Spec

\* However many calls are queued, the queue holds at most max_requests of them,
\* and makes room by dropping answered ones only (ApprovalQueue.submit and
\* _evict_resolved): a request that waits for a human is never lost.
THEOREM QueueKeepsPending == Spec => PendingIsKept
<1>1. ASSUME TypeOK, QueueInv, QueueInv', [Next]_vars
      PROVE  /\ \A i \in Id : requests[i].status = "pending" => requests'[i].status # "evicted"
             /\ Cardinality(Held') <= MaxRequests
  <2>1. ASSUME NEW i \in Id, requests[i].status = "pending" PROVE requests'[i].status # "evicted"
    BY <1>1, <2>1, StepMoves DEF RequestsMove, Moves, Resolved
  <2>2. QED
    BY <1>1, <2>1 DEF QueueInv
<1>2. QED
  BY <1>1, QueueInvHolds, PTL DEF Spec, PendingIsKept
=============================================================================
