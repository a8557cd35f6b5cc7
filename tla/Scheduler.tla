----------------------------- MODULE Scheduler -----------------------------
(***************************************************************************)
(* Scheduler (agenthandler/triggers.py): a thread that looks once a second *)
(* which interval, cron and database triggers are due and runs them one    *)
(* after the other on its event loop, while other threads start and stop   *)
(* it and edit the triggers.                                               *)
(*                                                                         *)
(* Time is the minute of the day.  What the code computes from an absolute *)
(* clock is kept as an age in minutes: of the tick in progress (its `now'  *)
(* is read once, at its start), and of the last run of a trigger.  A sleep *)
(* and the looking itself take less than a minute.  A watch's query is     *)
(* answered at once, one way or the other.  A name is given to one trigger *)
(* only, so a replaced trigger is a removed and a new one.                 *)
(***************************************************************************)
EXTENDS Integers

CONSTANTS
    Thread, None,
    Interval, Cron, Watch,  \* names of triggers
    Day,       \* minutes in a day
    Due,       \* the minutes of the day that the cron expressions match
    Bad,       \* crons with a malformed field, read only when those before it match
    Period,    \* of intervals and watches
    Slow,      \* triggers that may take minutes
    Blocking,  \* those of them that block their thread meanwhile
    MaxAge,    \* bound: the minutes a tick may last
    MaxEdits   \* bound: how many times triggers are removed, enabled or disabled

Trigger == Interval \cup Cron \cup Watch

ASSUME SchedulerAssumption ==
    /\ Day \in Nat \ {0} /\ Due \subseteq 0..(Day - 1)
    /\ Bad \subseteq Cron /\ Blocking \subseteq Slow /\ Slow \subseteq Trigger
    /\ Interval \cap Cron = {} /\ Interval \cap Watch = {} /\ Cron \cap Watch = {}
    /\ Period \in Nat /\ MaxAge \in Nat /\ MaxEdits \in Nat
    /\ None \notin Thread \cup Trigger

VARIABLES
    running,   \* _running
    loop,      \* _loop and _thread: a loop is named after the thread it was made for
    joining,   \* a stop() is waiting for the thread
    workers,   \* the threads in _run_loop
    entries,   \* the registered triggers
    edits,     \* how many times one was removed, enabled or disabled
    minute,    \* of the day
    served,    \* history: the ages of the ticks that fired a cron
    orphaned   \* history: some stop() gave up on its thread

control == <<running, loop, joining>>
vars == <<control, workers, entries, edits, minute, served, orphaned>>

Old == Period + MaxAge   \* an age that makes anything due

Workers ==
    [pc : {"dead", "sleep", "tick", "fire"}, loop : Thread \cup {None}, age : 0..MaxAge,
     todo : SUBSET Trigger, firing : Trigger \cup {None}, seen : BOOLEAN,
     halt : BOOLEAN]      \* its loop was told to stop

Entries ==
    [status : {"new", "here", "removed"}, enabled : BOOLEAN, age : 0..Old,
     last : 0..(Day - 1) \cup {None}]

Dead == [pc |-> "dead", loop |-> None, age |-> 0, todo |-> {}, firing |-> None, seen |-> FALSE,
         halt |-> FALSE]

Asleep == [Dead EXCEPT !.pc = "sleep"]

\* last_run and last_poll are 0 on a clock that runs since boot.
Entry == [status |-> "new", enabled |-> TRUE, age |-> Old, last |-> None]

Init ==
    /\ running = FALSE /\ loop = None /\ joining = FALSE
    /\ workers = [w \in Thread |-> Dead]
    /\ entries = [t \in Trigger |-> Entry] /\ edits = 0
    /\ minute \in 0..(Day - 1)
    /\ served = [t \in Cron |-> {}]
    /\ orphaned = FALSE

-----------------------------------------------------------------------------
Busy(l) == \E w \in Thread : workers[w].pc \in {"tick", "fire"} /\ workers[w].loop = l

Set(w, worker) == workers' = [workers EXCEPT ![w] = worker]

\* The minute a tick takes for the present one.
Minute(w) == (minute - workers[w].age + Day) % Day

\* (Bug: a tick forgets when it ran a trigger last.)
DueNowUnlatched(w, t) ==
    IF t \in Cron THEN Minute(w) \in Due
                  ELSE entries[t].age - workers[w].age >= Period

DueNow(w, t) ==
    IF t \in Cron THEN Minute(w) \in Due /\ entries[t].last # Minute(w)
                  ELSE entries[t].age - workers[w].age >= Period

\* Intervals come first, watches last.
Upcoming(w, t) ==
    /\ workers[w].pc = "tick" /\ t \in workers[w].todo
    /\ t \in Cron \cup Watch => workers[w].todo \cap Interval = {}
    /\ t \in Watch => workers[w].todo \cap Cron = {}

Malformed(w, t) == t \in Bad /\ Minute(w) \in Due

\* The entry of t after a tick found it due.
Noted(w, t) ==
    IF t \in Cron THEN [entries[t] EXCEPT !.last = Minute(w)]
                  ELSE [entries[t] EXCEPT !.age = workers[w].age]

-----------------------------------------------------------------------------
\* start() and stop(), from one thread; start() does nothing while running.
Start(w) ==
    /\ ~running /\ ~joining
    /\ workers[w] = Dead /\ \A v \in Thread : workers[v].loop # w
    /\ running' = TRUE /\ loop' = w
    /\ Set(w, Asleep)
    /\ UNCHANGED <<joining, entries, edits, minute, served, orphaned>>

Stop ==
    /\ running /\ ~joining
    /\ running' = FALSE /\ joining' = TRUE
    /\ workers' = [w \in Thread |->
                      IF workers[w].loop = loop THEN [workers[w] EXCEPT !.halt = TRUE]
                                                ELSE workers[w]]
    /\ UNCHANGED <<loop, entries, edits, minute, served, orphaned>>

\* (Bug: nobody waits for the thread.)
StopReturnsAtOnce ==
    /\ joining /\ joining' = FALSE
    /\ loop' = None
    /\ UNCHANGED <<running, workers, entries, edits, minute, served, orphaned>>

\* join() returns when the thread has ended, or after five seconds: nothing but
\* a blocked thread takes that long.
StopReturns ==
    /\ joining /\ joining' = FALSE
    /\ \/ workers[loop].pc = "dead" /\ UNCHANGED orphaned
       \/ workers[loop].firing \in Blocking /\ orphaned' = TRUE
    /\ loop' = None
    /\ UNCHANGED <<running, workers, entries, edits, minute, served>>

\* add_cron reads its expression against the present minute.
Add(t) ==
    /\ entries[t].status = "new"
    /\ ~(t \in Bad /\ minute \in Due)
    /\ entries' = [entries EXCEPT ![t].status = "here"]
    /\ UNCHANGED <<control, workers, edits, minute, served, orphaned>>

Remove(t) ==
    /\ entries[t].status = "here"
    /\ entries' = [entries EXCEPT ![t].status = "removed"]
    /\ edits < MaxEdits /\ edits' = edits + 1
    /\ UNCHANGED <<control, workers, minute, served, orphaned>>

\* enable and disable.
Switch(t) ==
    /\ entries[t].status = "here"
    /\ entries' = [entries EXCEPT ![t].enabled = ~@]
    /\ edits < MaxEdits /\ edits' = edits + 1
    /\ UNCHANGED <<control, workers, minute, served, orphaned>>

-----------------------------------------------------------------------------
\* The loop runs one tick at a time: a second thread in it gets a RuntimeError,
\* which ends the thread.
Begin(w) ==
    /\ workers[w].pc = "sleep" /\ running /\ ~Busy(loop)
    /\ Set(w, [Dead EXCEPT !.pc = "tick", !.loop = loop, !.seen = TRUE,
                           !.todo = {t \in Trigger : entries[t].status = "here"}])
    /\ UNCHANGED <<control, entries, edits, minute, served, orphaned>>

Exit(w) ==
    /\ workers[w].pc = "sleep" /\ (~running \/ Busy(loop))
    /\ Set(w, Dead)
    /\ UNCHANGED <<control, entries, edits, minute, served, orphaned>>

Pass(w, t) ==
    /\ Upcoming(w, t)
    /\ entries[t].enabled => ~Malformed(w, t) /\ ~DueNow(w, t)
    /\ Set(w, [workers[w] EXCEPT !.todo = @ \ {t}])
    /\ UNCHANGED <<control, entries, edits, minute, served, orphaned>>

Fire(w, t) ==
    /\ Upcoming(w, t) /\ entries[t].enabled
    /\ ~Malformed(w, t) /\ DueNow(w, t)
    /\ entries' = [entries EXCEPT ![t] = Noted(w, t)]
    /\ Set(w, [workers[w] EXCEPT !.pc = "fire", !.firing = t, !.todo = @ \ {t}])
    /\ served' = [c \in Cron |-> served[c] \cup (IF c = t THEN {workers[w].age} ELSE {})]
    /\ UNCHANGED <<control, edits, minute, orphaned>>

\* A watch is polled in vain.
Poll(w, t) ==
    /\ Upcoming(w, t) /\ entries[t].enabled
    /\ t \in Watch /\ DueNow(w, t)
    /\ entries' = [entries EXCEPT ![t] = Noted(w, t)]
    /\ Set(w, [workers[w] EXCEPT !.todo = @ \ {t}])
    /\ UNCHANGED <<control, edits, minute, served, orphaned>>

\* Nothing catches what _cron_matches raises: the thread ends.
Raise(w, t) ==
    /\ Upcoming(w, t) /\ entries[t].enabled /\ Malformed(w, t)
    /\ Set(w, Dead)
    /\ UNCHANGED <<control, entries, edits, minute, served, orphaned>>

\* (Bug: what a trigger raises ends the thread.)
ReturnOrDie(w) ==
    /\ workers[w].pc = "fire"
    /\ Set(w, Dead)
    /\ UNCHANGED <<control, entries, edits, minute, served, orphaned>>

\* The trigger returns or raises; _fire records either.
Return(w) ==
    /\ workers[w].pc = "fire"
    /\ Set(w, [workers[w] EXCEPT !.pc = "tick", !.firing = None])
    /\ UNCHANGED <<control, entries, edits, minute, served, orphaned>>

\* The loop stops under a trigger that awaits; a blocking one is not awaited.
Interrupt(w) ==
    /\ workers[w].pc = "fire" /\ workers[w].halt
    /\ workers[w].firing \notin Blocking
    /\ Set(w, Dead)
    /\ UNCHANGED <<control, entries, edits, minute, served, orphaned>>

EndTick(w) ==
    /\ workers[w].pc = "tick" /\ workers[w].todo = {}
    /\ Set(w, [Asleep EXCEPT !.seen = workers[w].age = 0])
    /\ UNCHANGED <<control, entries, edits, minute, served, orphaned>>

-----------------------------------------------------------------------------
\* A minute is over when every thread has looked in it, or runs something slow.
Waits(w) ==
    \/ workers[w].pc = "dead"
    \/ workers[w].pc = "sleep" /\ workers[w].seen /\ running
    \/ workers[w].firing \in Slow /\ workers[w].age < MaxAge

Least(i, j) == IF i < j THEN i ELSE j

Clock ==
    /\ ~joining /\ \A w \in Thread : Waits(w)
    /\ minute' = (minute + 1) % Day
    /\ workers' = [w \in Thread |->
                      [workers[w] EXCEPT !.age = IF workers[w].pc = "fire" THEN @ + 1 ELSE @,
                                         !.seen = FALSE]]
    /\ entries' = [t \in Trigger |-> [entries[t] EXCEPT !.age = Least(@ + 1, Old)]]
    /\ served' = [t \in Cron |-> {a + 1 : a \in served[t]} \cap 0..MaxAge]
    /\ UNCHANGED <<control, edits, orphaned>>

Look(w) ==
    \/ Begin(w) \/ Exit(w) \/ EndTick(w)
    \/ \E t \in Trigger : Pass(w, t) \/ Fire(w, t) \/ Poll(w, t) \/ Raise(w, t)

Edit == \E t \in Trigger : Add(t) \/ Remove(t) \/ Switch(t)

Next ==
    \/ Stop \/ StopReturns \/ Edit \/ Clock
    \/ \E w \in Thread : Start(w) \/ Look(w) \/ Return(w) \/ Interrupt(w)

Spec == Init /\ [][Next]_vars

\* Threads get their turn, minutes pass, and the triggers return: the code sets
\* no limit to the time one takes.
LiveSpec ==
    /\ Spec /\ SF_vars(Clock)
    /\ \A w \in Thread : WF_vars(Look(w)) /\ WF_vars(Return(w))

-----------------------------------------------------------------------------
TypeOK ==
    /\ running \in BOOLEAN /\ joining \in BOOLEAN
    /\ loop \in Thread \cup {None}
    /\ workers \in [Thread -> Workers]
    /\ entries \in [Trigger -> Entries] /\ edits \in 0..MaxEdits
    /\ minute \in 0..(Day - 1)
    /\ served \in [Cron -> SUBSET (0..MaxAge)]
    /\ orphaned \in BOOLEAN

Alive(w) == workers[w].pc # "dead"

Wellformed == \A t \in Bad : entries[t].status = "new"

\* A scheduler that runs has a thread, or start() could never give it one: no
\* sequence of starts and stops, not even around a blocked thread, ends all.
RunningMeansAlive == running /\ Wellformed => \E w \in Thread : Alive(w)

\* When stop() has returned, no trigger is running and none will: unless it
\* gave up waiting, the scheduler's thread is gone.
StoppedIsQuiet == ~running /\ ~joining /\ ~orphaned => \A w \in Thread : ~Alive(w)

Fires(w, t) == workers[w].pc = "tick" /\ workers'[w].pc = "fire" /\ workers'[w].firing = t

\* "track minute to avoid double-firing" (triggers.py:140): a cron fires once
\* for a minute, however long the triggers ahead of it took, through restarts.
CronFiresOncePerMinute ==
    [][\A w \in Thread, t \in Cron :
          Fires(w, t) /\ ~orphaned => workers[w].age \notin served[t]]_vars

Wanted(t) ==
    /\ running /\ Wellformed
    /\ entries[t].status = "here" /\ entries[t].enabled

Firing(t) == \E w \in Thread : workers[w].firing = t

\* A trigger that stays registered and enabled under a running scheduler fires
\* again and again.
Served(t) == <>[]Wanted(t) => []<>Firing(t)

IntervalsAreServed == \A t \in Interval : Served(t)

\* "Cron schedule (every day at 9am)" (README.md:529).
CronsAreServed == \A t \in Cron : Served(t)
-----------------------------------------------------------------------------
\* The inductive invariant behind them.
Owned ==
    /\ running \/ joining <=> loop # None
    /\ ~(running /\ joining)
    /\ ~orphaned => \A w \in Thread : Alive(w) => w = loop

\* A tick's triggers have been registered, and no sleeper carries an age.
Registered == \A w \in Thread : \A t \in workers[w].todo : entries[t].status # "new"

Rested == \A w \in Thread : workers[w].pc \in {"dead", "sleep"} => workers[w].age = 0

\* A running loop was not told to stop, and some thread can go on with it.
Unhalted == running => \A w \in Thread : workers[w].loop = loop => ~workers[w].halt

Attended == running /\ Wellformed => \E w \in Thread : Alive(w) /\ ~workers[w].halt

\* The newest tick that fired a cron is the one its latch remembers.
Latched ==
    ~orphaned =>
        \A c \in Cron, w \in Thread : \A a \in served[c] :
            /\ workers[w].age <= a
            /\ workers[w].age = a => entries[c].last = Minute(w)

SchedulerInv ==
    TypeOK /\ Owned /\ Registered /\ Rested /\ Unhalted /\ Attended /\ Latched
=============================================================================
