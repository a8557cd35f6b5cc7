----------------------------- MODULE Telemetry -----------------------------
(***************************************************************************)
(* The Observer (agenthandler/observe.py): every supervised call leaves a  *)
(* record, priced when it is recorded; beyond max_records the oldest go;   *)
(* the dashboard's summaries add up what is left.  Latencies and the       *)
(* OpenTelemetry export are left out.                                      *)
(***************************************************************************)
EXTENDS Integers, Sequences, FiniteSetsExt, SequencesExt

CONSTANTS
    Observed,     \* tools
    Agent,        \* agents; "" when the caller names none
    Model,        \* models, "" (no model) among them
    Token,        \* bound: tokens of a call
    Price,        \* bound: prices per token, input and output alike
    RecordLimit,  \* bound: values of max_records
    MaxRecorded   \* bound: calls

ASSUME TelemetryAssumption ==
    /\ "" \in Model /\ Token \subseteq Nat /\ Price \subseteq Nat
    /\ RecordLimit \subseteq Nat /\ MaxRecorded \in Nat

VARIABLES
    records,    \* Observer._records
    maxRecords, \* Observer._max_records
    pricing,    \* the PricingTable: model -> price; no model is in it at first
    calls       \* history: every call, with the price of its moment

telemetryVars == <<records, maxRecords, pricing, calls>>

TelemetryInit ==
    /\ records = <<>> /\ calls = <<>> /\ maxRecords \in RecordLimit
    /\ pricing = [m \in {} |-> 0]

\* _pricing and model, then PricingTable.cost_usd: a model that is not in the
\* table costs nothing.
Cost(model, tokens) ==
    IF model \in DOMAIN pricing THEN tokens * pricing[model] ELSE 0

\* records[-n:] of Python: with n = 0 it is the whole list.
NewestRecords(s, n) == IF n = 0 \/ n >= Len(s) THEN s ELSE SubSeq(s, Len(s) - n + 1, Len(s))

\* (Bug: room is made before the call is appended.)
EvictedFirst(s) == NewestRecords(SubSeq(s, 1, Len(s) - 1), maxRecords) \o <<s[Len(s)]>>

Evicted(s) == IF Len(s) > maxRecords THEN NewestRecords(s, maxRecords) ELSE s

\* A legacy count of tokens is one of output tokens.
RecordToolCall(tool, agent, model, input, output) ==
    LET entry == [tool |-> tool, agent |-> agent, model |-> model, input |-> input,
                  output |-> output, cost |-> Cost(model, input + output)]
    IN  /\ Len(calls) < MaxRecorded
        /\ records' = Evicted(Append(records, entry))
        /\ calls' = Append(calls, entry)
        /\ UNCHANGED <<maxRecords, pricing>>

SetModel(model, price) ==
    /\ pricing' = [m \in DOMAIN pricing \cup {model} |-> IF m = model THEN price ELSE pricing[m]]
    /\ UNCHANGED <<records, maxRecords, calls>>

TelemetryNext ==
    \/ \E t \in Observed, a \in Agent, m \in Model, i, o \in Token :
          RecordToolCall(t, a, m, i, o)
    \/ \E m \in Model \ {""}, p \in Price : SetModel(m, p)

TelemetrySpec == TelemetryInit /\ [][TelemetryNext]_telemetryVars

-----------------------------------------------------------------------------
\* The summaries.

Fields == {"calls", "tokens", "cost"}

\* What a record adds to each row that counts it.
Adds(r) == [calls |-> 1, tokens |-> r.input + r.output, cost |-> r.cost]

\* _aggregate, and the rows that cost_summary builds, of the records s[i], i \in I.
Row(s, I) == [field \in Fields |-> SumFunctionOnSet([i \in DOMAIN s |-> Adds(s[i])[field]], I)]

\* tool_summary, session_summary.
ToolSummary(tool) == Row(records, {i \in DOMAIN records : records[i].tool = tool})

CostByTool == [t \in {records[i].tool : i \in DOMAIN records} |-> ToolSummary(t)]

Name(agent) == IF agent = "" THEN "(unknown)" ELSE agent

CostByAgent ==
    [n \in {Name(records[i].agent) : i \in DOMAIN records} |->
        Row(records, {i \in DOMAIN records : Name(records[i].agent) = n})]

WithModel(s) == {i \in DOMAIN s : s[i].model # ""}

CostByModel ==
    [m \in {records[i].model : i \in WithModel(records)} |->
        Row(records, {i \in WithModel(records) : records[i].model = m})]

RecentCalls(limit) == Reverse(NewestRecords(records, limit))
-----------------------------------------------------------------------------
\* Calls, tokens and costs by agent, by tool and by model add up to those of the
\* newest max_records calls (of which only those with a model are in a model's
\* row), each at the price of its moment: eviction takes the oldest call and a new
\* price touches no recorded one (observe.py:424-428, 480-563).
SummariesAddUp ==
    LET last == NewestRecords(calls, maxRecords)
        Sum(rows, field) == SumFunction([k \in DOMAIN rows |-> rows[k][field]])
    IN  \A field \in Fields :
          /\ Sum(CostByAgent, field) = Row(last, DOMAIN last)[field]
          /\ Sum(CostByTool, field) = Row(last, DOMAIN last)[field]
          /\ Sum(CostByModel, field) = Row(last, WithModel(last))[field]

-----------------------------------------------------------------------------
\* Eviction takes the oldest calls and no others: the Observer holds the newest
\* max_records calls of all there were, whatever prices change meanwhile
\* (observe.py:424-428).
RecordsAreNewest == records = NewestRecords(calls, maxRecords)

Entries == [tool : Observed, agent : Agent, model : Model, input : Token, output : Token, cost : Nat]

\* The inductive invariant behind RecordsAreNewest and SummariesAddUp.
TelemetryInv ==
    /\ maxRecords \in Nat /\ calls \in Seq(Entries) /\ \A m \in DOMAIN pricing : pricing[m] \in Nat
    /\ RecordsAreNewest
=============================================================================
