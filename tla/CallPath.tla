----------------------------- MODULE CallPath -----------------------------
(***************************************************************************)
(* One Supervisor and the calls of one tool that overlap in it             *)
(* (agenthandler/supervisor.py, call() and preflight()), with what those   *)
(* calls leave behind: the windows and the idempotency cache of the        *)
(* guardrails, the token budget, and the Observer's records.               *)
(*                                                                         *)
(* Up to the first awaited guard a call is one step of the event loop.     *)
(* The awaits, and so the places where another call gets its turn, are the *)
(* judging guard, the tool, and the reviewing guard.  Sessions, approvals  *)
(* and the circuit breaker have modules of their own: here they may refuse *)
(* a call, at the place where call() asks them.                            *)
(***************************************************************************)
EXTENDS Guardrails

CONSTANTS
    Call, Arg, Model,  \* calls made; argument dictionaries; the ensemble's models
    Redacted,          \* what outbound redaction makes of an argument dictionary
    TokenBudget,       \* the policy's token_budget
    Policies,          \* the limits the tool's scope rules may have, in policy order
    MaxTicks,          \* bound on time
    Nobody

ASSUME CallPathAssumption ==
    /\ Nobody \notin Call /\ TokenBudget \in Nat /\ MaxTicks \in Nat
    /\ Redacted \in [Arg -> Arg] /\ Policies \subseteq Seq(Nat)

VARIABLES
    limits,                     \* the limits of this supervisor's scope rules
    tick,                       \* time.monotonic()
    place,                      \* where each call is
    only,                       \* it is a preflight()
    arg, entered, left,         \* its arguments; when it was let in; when it was recorded
    hit,                        \* the call whose output the idempotency guard answers with
    output,                     \* "none", "plain", or one that reports its tokens: "costly"
                                \* as input and output tokens, "legacy" as tokens_used
    scopePlaces, categoryPlaces, loopPlaces,
    answers,                    \* the idempotency cache: who answered, and when
    spent,                      \* the budget's tokens_used; a report costs one
    meta,                       \* _last_call_meta: whose tokens are stashed
    records                     \* the Observer's records

windows == <<scopePlaces, categoryPlaces, loopPlaces>>
callVars == <<limits, tick, place, only, arg, entered, left, hit, output, windows, answers,
              spent, meta, records>>

Outputs == {"none", "plain", "costly", "legacy"}

Unanswered == [of |-> Nobody, at |-> 0]

CallInit ==
    /\ limits \in Policies /\ tick = 0
    /\ place = [c \in Call |-> "idle"] /\ only = [c \in Call |-> FALSE]
    /\ arg \in [Call -> Arg] /\ entered = [c \in Call |-> 0] /\ left = [c \in Call |-> 0]
    /\ hit = [c \in Call |-> Nobody] /\ output = [c \in Call |-> "none"]
    /\ scopePlaces = {} /\ categoryPlaces = {} /\ loopPlaces = [a \in Arg |-> {}]
    /\ answers = [a \in Arg |-> Unanswered]
    /\ spent = 0 /\ meta = Nobody /\ records = {}

-----------------------------------------------------------------------------
Tick ==
    /\ tick < MaxTicks /\ tick' = tick + 1
    /\ UNCHANGED <<limits, place, only, arg, entered, left, hit, output, windows, answers,
                   spent, meta, records>>

\* The guard sees the arguments as the agent gave them.  An output of None is
\* kept like any other and cannot be told from "no replacement".
CachedFor(a) ==
    LET kept == answers[a]
    IN  IF kept.of = Nobody \/ tick - kept.at >= Ttl \/ output[kept.of] = "none"
        THEN Nobody ELSE kept.of

\* From the first check to the first await.  `stop' is the refusal of a part that
\* is not modelled here: "early" by pause, deadline, silence or confirmation,
\* "breaker" by the circuit breaker, "content" by a guard that reads only the
\* arguments (schema, URLs, CPU and memory).  A refused call keeps the places it
\* took in the windows, and so does a preflight.
Enter(c, preflight, stop) ==
    LET scoped == stop # "early" /\ Passing(limits, scopePlaces, tick) = DOMAIN limits
        unbroken == scoped /\ stop # "breaker"
        counted == unbroken /\ CategoryHasRoom(categoryPlaces, tick)
        unlooped == counted /\ LoopHasRoom(loopPlaces[arg[c]], tick)
    IN
    /\ place[c] = "idle"
    /\ only' = [only EXCEPT ![c] = preflight]
    /\ entered' = [entered EXCEPT ![c] = tick]
    /\ scopePlaces' = IF stop = "early" THEN scopePlaces
                     ELSE ScopesNoted(limits, scopePlaces, c, tick)
    /\ categoryPlaces' = IF counted THEN Noted(categoryPlaces, c, tick, Window) ELSE categoryPlaces
    /\ loopPlaces' = IF unlooped
                    THEN [loopPlaces EXCEPT ![arg[c]] = Noted(@, c, tick, LoopWindow)]
                    ELSE loopPlaces
    /\ IF unlooped /\ stop # "content"
       THEN /\ place' = [place EXCEPT ![c] = "judged"]
            /\ hit' = [hit EXCEPT ![c] = CachedFor(arg[c])]
       ELSE /\ place' = [place EXCEPT ![c] = "refused"]
            /\ UNCHANGED hit
    /\ UNCHANGED <<limits, tick, arg, left, output, answers, spent, meta, records>>

\* The budget charges either report.  The stash takes no tokens from a legacy one:
\* it holds the input and output tokens only.
Charged(c) == output[c] \in {"costly", "legacy"}
Stashed(c) == IF output[c] = "costly" THEN c ELSE Nobody

\* _observe_call: the record takes whatever tokens are stashed, and clears them.
Observed(c, from) ==
    /\ records' = records \cup {[of |-> c, from |-> from]}
    /\ meta' = Nobody

\* The awaited pre-guardrail comes to its verdict.  A preflight ends here; a
\* cached answer is returned without review, charge, or checkpoint.
Judge(c, blocked) ==
    /\ place[c] = "judged" /\ blocked \in PreVerdicts(Model)
    /\ IF ~blocked /\ ~only[c] /\ hit[c] # Nobody
       THEN place' = [place EXCEPT ![c] = "cached"] /\ Observed(c, meta)
       ELSE /\ place' = [place EXCEPT ![c] = IF blocked THEN "refused"
                                             ELSE IF only[c] THEN "cleared" ELSE "running"]
            /\ UNCHANGED <<records, meta>>
    /\ UNCHANGED <<limits, tick, only, arg, entered, left, hit, output, windows, answers,
                   spent>>

\* The tool raises or outlasts its timeout.
ToolFails(c) ==
    /\ place[c] = "running" /\ place' = [place EXCEPT ![c] = "failed"]
    /\ Observed(c, meta)
    /\ UNCHANGED <<limits, tick, only, arg, entered, left, hit, output, windows, answers,
                   spent>>

\* (Bug: the output's tokens are stashed before the reviewing guard is awaited.)
ToolReturnsStashed(c, out) ==
    /\ place[c] = "running" /\ place' = [place EXCEPT ![c] = "reviewed"]
    /\ output' = [output EXCEPT ![c] = out]
    /\ meta' = IF out = "costly" THEN c ELSE Nobody
    /\ UNCHANGED <<limits, tick, only, arg, entered, left, hit, windows, answers, spent, records>>

ToolReturns(c, out) ==
    /\ place[c] = "running" /\ place' = [place EXCEPT ![c] = "reviewed"]
    /\ output' = [output EXCEPT ![c] = out]
    /\ UNCHANGED <<limits, tick, only, arg, entered, left, hit, windows, answers, spent,
                   meta, records>>

\* The awaited post-guardrail withholds the output: the call ends here, and
\* neither the cache, the budget, the Observer nor the store hears of it.
Withhold(c) ==
    /\ place[c] = "reviewed" /\ TRUE \in PostVerdicts
    /\ place' = [place EXCEPT ![c] = "withheld"]
    /\ UNCHANGED <<limits, tick, only, arg, entered, left, hit, output, windows, answers,
                   spent, meta, records>>

\* (Bug: an output that takes the budget over its limit is not kept.)
FinishUnkept(c) ==
    /\ place[c] = "reviewed" /\ FALSE \in PostVerdicts
    /\ place' = [place EXCEPT ![c] = "finished"] /\ left' = [left EXCEPT ![c] = tick]
    /\ spent' = IF Charged(c) THEN spent + 1 ELSE spent
    /\ answers' = IF Charged(c) /\ spent' > TokenBudget THEN answers
                  ELSE [answers EXCEPT ![Redacted[arg[c]]] = [of |-> c, at |-> tick]]
    /\ IF Charged(c) /\ spent' > TokenBudget
       THEN meta' = Stashed(c) /\ UNCHANGED records
       ELSE Observed(c, Stashed(c))
    /\ UNCHANGED <<limits, tick, only, arg, entered, hit, output, windows>>

\* What follows the review runs to the end in one step: the output is kept under
\* the arguments the tool was given, its tokens are stashed over whatever the last
\* output left, and charged.  A charge past the budget returns before the Observer
\* is told.
Finish(c) ==
    /\ place[c] = "reviewed" /\ FALSE \in PostVerdicts
    /\ place' = [place EXCEPT ![c] = "finished"] /\ left' = [left EXCEPT ![c] = tick]
    /\ answers' = [answers EXCEPT ![Redacted[arg[c]]] = [of |-> c, at |-> tick]]
    /\ spent' = IF Charged(c) THEN spent + 1 ELSE spent
    /\ IF Charged(c) /\ spent' > TokenBudget
       THEN meta' = Stashed(c) /\ UNCHANGED records
       ELSE Observed(c, Stashed(c))
    /\ UNCHANGED <<limits, tick, only, arg, entered, hit, output, windows>>

CallNext ==
    \/ Tick
    \/ \E c \in Call :
          \/ \E preflight \in BOOLEAN, stop \in {"no", "early", "breaker", "content"} :
                Enter(c, preflight, stop)
          \/ \E blocked \in BOOLEAN : Judge(c, blocked)
          \/ ToolFails(c)
          \/ \E out \in Outputs : ToolReturns(c, out)
          \/ Withhold(c) \/ Finish(c)

CallSpec == CallInit /\ [][CallNext]_callVars

-----------------------------------------------------------------------------
\* The calls that got past the windows.
Admitted == {c \in Call : place[c] \notin {"idle", "refused"}}

Within(t, span) == {c \in Admitted : t - span < entered[c] /\ entered[c] <= t}

Alike(t, a) == {c \in Within(t, LoopWindow) : arg[c] = a}

\* Calls that overlap, are refused half-way or only asked never put more calls
\* through a window than its limit: the scope's minute, the category's, and the
\* loop detector's for one set of arguments (supervisor.py:360-368,
\* deterministic.py:168-179, 213-222).
WindowsHold ==
    \A t \in 0..tick :
        /\ \A i \in DOMAIN limits : Cardinality(Within(t, Window)) <= limits[i]
        /\ Cardinality(Within(t, Window)) <= CategoryLimit
        /\ \A a \in Arg : Cardinality(Alike(t, a)) <= MaxRepeats

\* A call whose arguments redaction leaves alone and which was answered with an
\* output less than a TTL ago is not run again, whatever other calls did
\* meanwhile, over budget or not (supervisor.py:671-674, deterministic.py:258-276).
\* Only an output of None, kept in its place by a later call, undoes that.
AnsweredIsNotRerun ==
    \A c, d \in Call :
        (/\ place[d] = "finished" /\ arg[d] = arg[c] /\ Redacted[arg[c]] = arg[c]
         /\ left[d] < entered[c] /\ entered[c] - left[d] < Ttl
         /\ \A e \in Call : place[e] = "finished" /\ Redacted[arg[e]] = arg[c]
                              => output[e] # "none")
        => place[c] \notin {"running", "reviewed", "finished", "failed", "withheld"}

Reported == {c \in Call : place[c] = "finished" /\ Charged(c)}

\* Until the budget is exceeded, the budget's count is that of the outputs that
\* reported tokens, in either form, and the Observer charges each call the input
\* and output tokens of its own output and no other's, however the calls
\* interleave: every such output is on record, and no legacy count is
\* (supervisor.py:694-719, 721-756, 1027-1045).
TokensAreAttributed ==
    spent <= TokenBudget =>
        /\ \A r \in records : r.from \in {r.of, Nobody}
        /\ {r.of : r \in {x \in records : x.from # Nobody}}
              = {c \in Reported : output[c] = "costly"}
        /\ spent = Cardinality(Reported)

-----------------------------------------------------------------------------
\* The inductive invariants behind the three.
Stages == {"idle", "refused", "judged", "cleared", "cached", "running", "failed", "reviewed",
           "withheld", "finished"}

CallTypeOK ==
    /\ limits \in Policies /\ tick \in Nat
    /\ place \in [Call -> Stages] /\ only \in [Call -> BOOLEAN]
    /\ arg \in [Call -> Arg] /\ entered \in [Call -> Nat] /\ left \in [Call -> Nat]
    /\ hit \in [Call -> Call \cup {Nobody}]
    /\ output \in [Call -> Outputs]
    /\ DOMAIN loopPlaces = Arg
    /\ answers \in [Arg -> [of : Call \cup {Nobody}, at : Nat]]
    /\ spent \in Nat /\ meta \in Call \cup {Nobody}
    /\ records \subseteq [of : Call, from : Call \cup {Nobody}]

Begun == {c \in Call : place[c] # "idle"}

\* No window has let go of a place that still counts.
Seated(places, calls, rule, span) ==
    \A c \in calls : tick - span < entered[c] => Place(c, rule, entered[c]) \in places

PlacesAreHeld ==
    /\ IsFiniteSet(Begun) /\ \A c \in Begun : entered[c] <= tick
    /\ IsFiniteSet(scopePlaces) /\ IsFiniteSet(categoryPlaces)
    /\ \A a \in Arg : IsFiniteSet(loopPlaces[a])
    /\ \A i \in DOMAIN limits : Seated(scopePlaces, Admitted, i, Window)
    /\ Seated(categoryPlaces, Admitted, 1, Window)
    /\ \A a \in Arg : Seated(loopPlaces[a], {c \in Admitted : arg[c] = a}, 1, LoopWindow)

\* The guard holds, under each argument dictionary, the youngest answer that was
\* given for it.
AnswersAreKept ==
    /\ \A a \in Arg : answers[a].of # Nobody =>
          place[answers[a].of] = "finished" /\ Redacted[arg[answers[a].of]] = a
    /\ \A d \in Call : place[d] = "finished" =>
          LET kept == answers[Redacted[arg[d]]]
          IN  kept.of # Nobody /\ left[d] <= kept.at /\ left[d] <= tick

Answering(d, c) ==
    /\ place[d] = "finished" /\ arg[d] = arg[c] /\ Redacted[arg[c]] = arg[c]
    /\ left[d] < entered[c] /\ entered[c] - left[d] < Ttl

\* Whoever missed an answer that was there found an output of None in its place.
MissesAreExcused ==
    \A c \in Call :
        /\ place[c] # "idle" => entered[c] <= tick
        /\ place[c] \notin {"idle", "refused", "judged", "cleared", "cached"} => hit[c] = Nobody
        /\ place[c] \notin {"idle", "refused"} /\ hit[c] = Nobody =>
              \A d \in Call : Answering(d, c) =>
                  \E e \in Call : place[e] = "finished" /\ Redacted[arg[e]] = arg[c]
                                 /\ output[e] = "none"

\* No tokens are stashed across an await while the budget holds.
TokensAreRecorded ==
    /\ IsFiniteSet(Reported) /\ \A r \in records : place[r.of] \in {"cached", "failed", "finished"}
    /\ spent <= TokenBudget => meta = Nobody
=============================================================================
