---------------------------- MODULE Guardrails ----------------------------
(***************************************************************************)
(* The checks of the call path that keep or judge something: the sliding   *)
(* windows of the per-tool scopes, the categories and the loop detector    *)
(* (agenthandler/supervisor.py, guardrails/deterministic.py), the answers  *)
(* the idempotency guard keeps, and the verdicts of the guards that ask a  *)
(* language model (guardrails/llm_based.py).                               *)
(*                                                                         *)
(* A window is the set of the places taken in it, each by a call, under a  *)
(* rule, at a time.  An answer of a language model is reduced to what the  *)
(* guards tell apart:                                                      *)
(*   "fine", "bad"  a well-formed verdict, a bad one given with confidence *)
(*   "unsure"       a bad verdict below the guard's confidence threshold   *)
(*   "quoted"       a bad verdict whose number came as a string            *)
(*   "garbage"      not JSON: parsed into an object without the fields     *)
(*   "raises"       the model call raised, or the JSON is not an object    *)
(***************************************************************************)
EXTENDS Integers, Sequences, FiniteSets

CONSTANTS
    Window,        \* 60 seconds, in ticks
    LoopWindow,    \* RecursionDetector.window
    Ttl,           \* IdempotencyGuard.ttl_seconds
    CategoryLimit, \* the limit of the one category the tool is in
    MaxRepeats,    \* RecursionDetector.max_repeats
    MinAgree       \* EnsembleDecision.min_agree

ASSUME GuardrailAssumption ==
    /\ Window \in Nat \ {0} /\ LoopWindow \in Nat \ {0} /\ Ttl \in Nat
    /\ CategoryLimit \in Nat /\ MaxRepeats \in Nat /\ MinAgree \in Nat

Answer == {"fine", "bad", "unsure", "quoted", "garbage", "raises"}

-----------------------------------------------------------------------------
\* What a window still counts at time t: nothing that is `span' old.
Recent(places, t, span) == {p \in places : p.at > t - span}

Taken(places, t, span) == Cardinality(Recent(places, t, span))

Room(places, t, span, limit) == Taken(places, t, span) < limit

\* A call's place in a window; only the scope window has more than one rule.
Place(c, rule, t) == [by |-> c, rule |-> rule, at |-> t]

Noted(places, c, t, span) == Recent(places, t, span) \cup {Place(c, 1, t)}

\* (Bug: the window lets one call past the limit.)
PassingByOne(limits, places, t) ==
    {i \in DOMAIN limits : \A j \in 1..i : Taken(places, t, Window) + j <= limits[j] + 1}

\* Every scope rule of the tool counts in the tool's one window, so each that
\* passes takes a place from those after it.  The rules, whose limits come in
\* policy order, that pass before one refuses:
Passing(limits, places, t) ==
    {i \in DOMAIN limits : \A j \in 1..i : Taken(places, t, Window) + j <= limits[j]}

\* The window after the rules that passed have noted the call.
ScopesNoted(limits, places, c, t) ==
    IF Passing(limits, places, t) = {} THEN places
    ELSE Recent(places, t, Window) \cup {Place(c, i, t) : i \in Passing(limits, places, t)}

CategoryHasRoom(places, t) == Room(places, t, Window, CategoryLimit)

LoopHasRoom(places, t) == Room(places, t, LoopWindow, MaxRepeats)

-----------------------------------------------------------------------------
\* The verdicts.  An exception in a guard lets the call through
\* (Supervisor._run_guardrail), so "raises" never blocks; a confidence that is a
\* string cannot be compared with a number and raises too.
InjectionBlocks(answer) == answer = "bad"

\* float() reads a score that is a string, but formatting it for the refusal
\* raises ValueError inside the try, and the loop goes on to the next category.
SafetyBlocks(answer) == answer = "bad"

DriftBlocks(answer) == answer = "bad"

AnomalyBlocks(answer) == answer = "bad"

\* No number is asked for: `aligned' is false or it is not.
GoalBlocks(answer) == answer \in {"bad", "unsure", "quoted"}

\* The justification is kept and never judged.
ExplanationBlocks(answer) == FALSE

\* The one guard that closes when its models fail: only approvals count.
EnsembleBlocks(answers) ==
    Cardinality({m \in DOMAIN answers : answers[m] = "fine"}) < MinAgree

\* What can stop a call before the tool runs, and its output after it.
PreVerdicts(Model) ==
    UNION {{DriftBlocks(a), AnomalyBlocks(a), GoalBlocks(a), ExplanationBlocks(a),
            InjectionBlocks(a)} : a \in Answer}
      \cup {EnsembleBlocks(answers) : answers \in [Model -> Answer]}

PostVerdicts == UNION {{InjectionBlocks(a), SafetyBlocks(a)} : a \in Answer}
=============================================================================
