---------------------------- MODULE TriggerDesk ----------------------------
(***************************************************************************)
(* The trigger endpoints of the HTTP server (agenthandler/server.py): jobs *)
(* of the scheduler and webhooks are created, switched, fired, listed and  *)
(* removed by name, and their firings are merged into one history.         *)
(* Scheduler models when a job is due; here a tick of its loop may find    *)
(* any enabled job due, and runs one at a time, while webhooks fire as     *)
(* often as they are called.                                               *)
(***************************************************************************)
EXTENDS Integers, Sequences, FiniteSets

CONSTANTS
    Trigger,      \* names
    JobKind,      \* kinds of jobs: a registry each
    Queried,      \* the kind that asks its database before it fires, db_watch
    HistoryCap,   \* records of the scheduler beyond which it forgets, 1000
    HistoryKept,  \* and those it then keeps, 500
    MaxHooks,     \* bound: webhooks created
    MaxFirings    \* bound: firings

ASSUME DeskAssumption ==
    /\ Queried \subseteq JobKind /\ HistoryKept \in 1..HistoryCap /\ HistoryCap \in Nat
    /\ MaxHooks \in Nat /\ MaxFirings \in Nat

VARIABLES
    jobs,      \* of each kind and name: "none", "on" or "off"
    tick,      \* the entries that the tick under way has yet to look at: "live"
               \* is the registered one, "on" or "off" one that is registered
               \* no more
    hooks,     \* name -> the webhook registered under it, 0: none
    lastHook,  \* webhooks created so far; one that is replaced is another one
    log,       \* Scheduler._history
    hookLog,   \* WebhookTrigger._history of each webhook
    polled,    \* names of the jobs whose query is awaited
    firing,    \* what runs: [id, source (0: the scheduler), name]
    begun,     \* firings begun so far
    made,      \* history: all records; a record's time is its place here
    gone       \* history: names whose last request removed them

deskVars == <<jobs, tick, hooks, lastHook, log, hookLog, polled, firing, begun, made, gone>>

DeskInit ==
    /\ jobs = [k \in JobKind |-> [n \in Trigger |-> "none"]]
    /\ tick = [k \in JobKind |-> [n \in Trigger |-> "none"]]
    /\ hooks = [n \in Trigger |-> 0] /\ lastHook = 0
    /\ log = <<>> /\ hookLog = [h \in 1..MaxHooks |-> <<>>]
    /\ polled = {} /\ firing = {} /\ begun = 0 /\ made = {} /\ gone = {}

-----------------------------------------------------------------------------
\* The tick keeps the entry that a request takes out of the registry.
Detached(k, n) == IF tick[k][n] = "live" THEN jobs[k][n] ELSE tick[k][n]

\* Requests.  An enabled job takes the place of one of its kind and name.
CreateJob(k, n) ==
    /\ tick' = [tick EXCEPT ![k][n] = Detached(k, n)]
    /\ jobs' = [jobs EXCEPT ![k][n] = "on"] /\ gone' = gone \ {n}
    /\ UNCHANGED <<hooks, lastHook, log, hookLog, polled, firing, begun, made>>

CreateWebhook(n) ==
    /\ lastHook < MaxHooks /\ lastHook' = lastHook + 1
    /\ hooks' = [hooks EXCEPT ![n] = lastHook'] /\ gone' = gone \ {n}
    /\ UNCHANGED <<jobs, tick, log, hookLog, polled, firing, begun, made>>

\* enable and disable: jobs of all kinds.  A webhook has no switch, though the
\* answer says {"enabled": false} of it too.
Switch(n, from, to) ==
    /\ \E k \in JobKind : jobs[k][n] = from
    /\ jobs' = [k \in JobKind |-> [jobs[k] EXCEPT ![n] = IF @ = from THEN to ELSE @]]
    /\ UNCHANGED <<tick, hooks, lastHook, log, hookLog, polled, firing, begun, made, gone>>

\* (Bug: the first registry that has the name is the only one to lose it.)
RemoveTriggerOnce(n) ==
    /\ IF \E k \in JobKind : jobs[k][n] # "none"
       THEN /\ \E k \in JobKind : jobs[k][n] # "none" /\ jobs' = [jobs EXCEPT ![k][n] = "none"]
            /\ UNCHANGED hooks
       ELSE hooks[n] # 0 /\ hooks' = [hooks EXCEPT ![n] = 0] /\ UNCHANGED jobs
    /\ tick' = [k \in JobKind |-> [tick[k] EXCEPT ![n] = Detached(k, n)]]
    /\ gone' = gone \cup {n}
    /\ UNCHANGED <<lastHook, log, hookLog, polled, firing, begun, made>>

\* Neither a job nor a webhook: 404.
RemoveTrigger(n) ==
    /\ hooks[n] # 0 \/ \E k \in JobKind : jobs[k][n] # "none"
    /\ jobs' = [k \in JobKind |-> [jobs[k] EXCEPT ![n] = "none"]]
    /\ tick' = [k \in JobKind |-> [tick[k] EXCEPT ![n] = Detached(k, n)]]
    /\ hooks' = [hooks EXCEPT ![n] = 0] /\ gone' = gone \cup {n}
    /\ UNCHANGED <<lastHook, log, hookLog, polled, firing, begun, made>>

-----------------------------------------------------------------------------
\* Firings.

Begins(source, n) ==
    /\ begun < MaxFirings /\ begun' = begun + 1
    /\ firing' = firing \cup {[id |-> begun', source |-> source, name |-> n]}
    /\ UNCHANGED <<jobs, hooks, lastHook, log, hookLog, made, gone>>

FireWebhook(n) == hooks[n] # 0 /\ Begins(hooks[n], n) /\ UNCHANGED <<tick, polled>>

\* The scheduler's one thread is between two jobs.
Free == polled = {} /\ \A f \in firing : f.source # 0

BeginTick ==
    /\ Free /\ \A k \in JobKind, n \in Trigger : tick[k][n] = "none"
    /\ tick' = [k \in JobKind |->
                  [n \in Trigger |-> IF jobs[k][n] = "none" THEN "none" ELSE "live"]]
    /\ UNCHANGED <<jobs, hooks, lastHook, log, hookLog, polled, firing, begun, made, gone>>

\* Due, or not; the entries in any order here.
Pass(k, n) ==
    /\ Free /\ tick[k][n] # "none" /\ tick' = [tick EXCEPT ![k][n] = "none"]
    /\ UNCHANGED <<jobs, hooks, lastHook, log, hookLog, polled, firing, begun, made, gone>>

\* A job found enabled, and due.
Due(k, n) ==
    /\ Free /\ tick[k][n] # "none" /\ Detached(k, n) = "on"
    /\ tick' = [tick EXCEPT ![k][n] = "none"]

FireJob(k, n) == k \notin Queried /\ Due(k, n) /\ Begins(0, n) /\ UNCHANGED polled

\* A database watch awaits its query first; meanwhile it may be switched off,
\* replaced or removed, and nothing looks again.
PollJob(k, n) ==
    /\ k \in Queried /\ Due(k, n) /\ polled' = {n}
    /\ UNCHANGED <<jobs, hooks, lastHook, log, hookLog, firing, begun, made, gone>>

QueryFires(n) == n \in polled /\ polled' = {} /\ Begins(0, n) /\ UNCHANGED tick

\* Its condition does not hold.
QueryDull(n) ==
    /\ n \in polled /\ polled' = {}
    /\ UNCHANGED <<jobs, tick, hooks, lastHook, log, hookLog, firing, begun, made, gone>>

\* (Bug: the oldest records are the ones kept.)
TrimOldest(s) == IF Len(s) > HistoryCap THEN SubSeq(s, 1, HistoryKept) ELSE s

Trim(s) ==
    IF Len(s) > HistoryCap THEN SubSeq(s, Len(s) - HistoryKept + 1, Len(s)) ELSE s

Recorded(source) ==
    LET record == [at |-> Cardinality(made) + 1, source |-> source]
    IN  /\ made' = made \cup {record}
        /\ IF source = 0 THEN log' = Trim(Append(log, record)) /\ UNCHANGED hookLog
           ELSE hookLog' = [hookLog EXCEPT ![source] = Append(@, record)] /\ UNCHANGED log

\* The record is made when the firing ends, in the history of the trigger that
\* fired: one that was removed or replaced since keeps it to itself.
EndFiring(f) ==
    /\ firing' = firing \ {f} /\ Recorded(f.source)
    /\ UNCHANGED <<jobs, tick, hooks, lastHook, polled, begun, gone>>

\* The query, or the condition, raises: a record without a firing.
QueryFails(n) ==
    /\ n \in polled /\ polled' = {} /\ Recorded(0)
    /\ begun < MaxFirings /\ begun' = begun + 1
    /\ UNCHANGED <<jobs, tick, hooks, lastHook, firing, gone>>

DeskNext ==
    \/ \E n \in Trigger :
          \/ CreateWebhook(n) \/ Switch(n, "on", "off") \/ Switch(n, "off", "on") \/ RemoveTrigger(n)
          \/ FireWebhook(n) \/ QueryFires(n) \/ QueryDull(n) \/ QueryFails(n)
          \/ \E k \in JobKind : CreateJob(k, n) \/ FireJob(k, n) \/ PollJob(k, n) \/ Pass(k, n)
    \/ BeginTick \/ \E f \in firing : EndFiring(f)

DeskSpec == DeskInit /\ [][DeskNext]_deskVars

-----------------------------------------------------------------------------
\* history[-limit:], as a set of records.
Latest(s, limit) == { s[i] : i \in { j \in DOMAIN s : j > Len(s) - limit } }

Registered == { hooks[n] : n \in Trigger } \ {0}

Newer(set, r) == { q \in set : q.at > r.at }

NewestOf(set, limit) == { r \in set : Cardinality(Newer(set, r)) < limit }

\* GET /triggers/history: the latest of each source, merged, sorted and cut.
History(limit) ==
    NewestOf(Latest(log, limit) \cup UNION { Latest(hookLog[h], limit) : h \in Registered }, limit)

\* The history shows the newest firings of all that the scheduler and the
\* registered webhooks ever had: no eviction, and no limit applied to a source
\* before the merge, hides a firing newer than one that is shown
\* (server.py:624-631, triggers.py:312-315, 416-419).
HistoryIsNewest ==
    \A limit \in 1..HistoryKept :
        History(limit) = NewestOf({ r \in made : r.source \in Registered \cup {0} }, limit)

\* After a removal nothing of that name begins until it is created again,
\* whichever registries had it, but for what the tick under way had picked up
\* before, and for a database watch whose query was awaited
\* (server.py:652-660, triggers.py:249-262, 351-383).
RemovedTriggersStayQuiet ==
    [][\A f \in firing' \ firing : f.name \in gone =>
          /\ f.source = 0
          /\ f.name \in polled \/ \E k \in JobKind : tick[k][f.name] = "on"]_deskVars

-----------------------------------------------------------------------------
\* What a name that is gone may not have left behind: nothing registered, and no
\* entry of the tick under way that is registered still.
GoneIsGone ==
    /\ jobs \in [JobKind -> [Trigger -> {"none", "on", "off"}]]
    /\ tick \in [JobKind -> [Trigger -> {"none", "live", "on", "off"}]]
    /\ hooks \in [Trigger -> 0..MaxHooks] /\ lastHook \in 0..MaxHooks /\ gone \subseteq Trigger
    /\ \A n \in gone : hooks[n] = 0
    /\ \A n \in gone, k \in JobKind : jobs[k][n] = "none" /\ tick[k][n] # "live"

RecordsOf(source) == { r \in made : r.source = source }

\* A log of some records is in order, and those it has forgotten are older than the
\* HistoryKept or more that are left.
Keeps(s, records) ==
    /\ s \in Seq(records)
    /\ \A i, j \in DOMAIN s : i < j => s[i].at < s[j].at
    /\ \A r \in records : (\A i \in DOMAIN s : s[i] # r) =>
          HistoryKept <= Len(s) /\ \A i \in DOMAIN s : r.at < s[i].at

\* The inductive invariant behind HistoryIsNewest.
LogsAreKept ==
    /\ GoneIsGone
    /\ \A f \in firing : f.source \in 0..MaxHooks
    /\ IsFiniteSet(made) /\ \A r \in made : r.at \in 1..Cardinality(made)
    /\ DOMAIN hookLog = 1..MaxHooks
    /\ Keeps(log, RecordsOf(0)) /\ \A h \in 1..MaxHooks : Keeps(hookLog[h], RecordsOf(h))
=============================================================================
