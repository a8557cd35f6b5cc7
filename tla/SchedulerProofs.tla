-------------------------- MODULE SchedulerProofs --------------------------
(***************************************************************************)
(* Theorems about Scheduler, for any threads, triggers, length of the day  *)
(* and number of edits.                                                    *)
(***************************************************************************)
EXTENDS Scheduler, TLAPS

USE SchedulerAssumption

-----------------------------------------------------------------------------
\* Minutes of the day.
LEMMA Division ==
    ASSUME NEW D \in Nat \ {0}, NEW x \in Int
    PROVE  x % D \in 0..(D - 1) /\ x \div D \in Int /\ x = D * (x \div D) + (x % D)
BY SMT

LEMMA Multiples == ASSUME NEW D \in Nat \ {0}, NEW k \in Int, k >= 1 PROVE D * k >= D
BY SMT

LEMMA OneRemainder ==
    ASSUME NEW D \in Nat \ {0}, NEW p \in Int, NEW q \in Int,
           NEW r \in 0..(D - 1), NEW s \in 0..(D - 1), D * p + r = D * q + s
    PROVE  r = s
<1>1. D * (p - q) = s - r /\ D * (q - p) = r - s
  BY SMT
<1>2. CASE p - q >= 1
  BY <1>1, <1>2, Multiples, SMT
<1>3. CASE q - p >= 1
  BY <1>1, <1>3, Multiples, SMT
<1>4. CASE p = q
  BY <1>4, SMT
<1>5. QED
  BY <1>2, <1>3, <1>4

LEMMA SameTimeNextDay ==
    ASSUME NEW D \in Nat \ {0}, NEW x \in Int
    PROVE  (x + D) % D = x % D
<1> DEFINE p == (x + D) \div D
           s == (x + D) % D
           q == x \div D
           r == x % D
<1>1. q \in Int /\ r \in 0..(D - 1) /\ x = D * q + r
  BY Division
<1>2. x + D \in Int
  OBVIOUS
<1>3. p \in Int /\ s \in 0..(D - 1) /\ x + D = D * p + s
  BY Division, <1>2
<1>4. D * p + s = D * (q + 1) + r /\ q + 1 \in Int
  <2> HIDE DEF p, q, r, s
  <2> QED
    BY <1>1, <1>3, SMT
<1> HIDE DEF p, q, r, s
<1>5. s = r
  BY <1>1, <1>3, <1>4, OneRemainder
<1>6. QED
  BY <1>5 DEF r, s

\* A tick that lasts a minute longer still takes its minute for the present one.
LEMMA MinuteStands ==
    ASSUME NEW m \in 0..(Day - 1), NEW a \in Nat
    PROVE  (((m + 1) % Day) - (a + 1) + Day) % Day = (m - a + Day) % Day
<1>1. CASE m + 1 < Day
  <2>1. (m + 1) % Day = m + 1
    BY <1>1
  <2>2. QED
    BY <2>1
<1>2. CASE m + 1 = Day
  <2>1. (m + 1) % Day = 0
    BY <1>2, SMT
  <2>2. m - a + Day = (0 - (a + 1) + Day) + Day /\ 0 - (a + 1) + Day \in Int
    BY <1>2
  <2>3. QED
    BY <2>1, <2>2, SameTimeNextDay
<1>3. QED
  BY <1>1, <1>2

LEMMA MinuteIsOfTheDay ==
    ASSUME TypeOK, NEW w \in Thread
    PROVE  Minute(w) \in 0..(Day - 1)
<1>1. minute - workers[w].age + Day \in Int
  BY DEF TypeOK, Workers
<1>2. QED
  BY <1>1, Division DEF Minute

-----------------------------------------------------------------------------
LEMMA Quiescent ==
    /\ Dead \in Workers /\ Asleep \in Workers
    /\ Asleep.pc = "sleep" /\ Asleep.loop = None /\ Asleep.age = 0 /\ Asleep.todo = {}
    /\ Asleep.halt = FALSE /\ Dead.halt = FALSE /\ Dead.pc = "dead" /\ Dead.age = 0
    /\ Dead.todo = {} /\ Dead.loop = None /\ Dead.firing = None
<1>1. 0 \in 0..MaxAge
  OBVIOUS
<1>2. Dead \in Workers
  BY <1>1 DEF Dead, Workers
<1>3. Asleep \in Workers
  BY <1>2 DEF Asleep, Workers
<1>4. QED
  BY <1>2, <1>3 DEF Asleep, Dead

LEMMA InitInv == Init => SchedulerInv
<1> SUFFICES ASSUME Init PROVE SchedulerInv
  OBVIOUS
<1>1. Old \in 0..Old /\ 0 \in 0..MaxEdits
  BY DEF Old
<1>2. TypeOK
  <2>1. Entry \in Entries
    BY <1>1 DEF Entry, Entries
  <2>2. entries \in [Trigger -> Entries] /\ workers \in [Thread -> Workers]
    BY <2>1, Quiescent DEF Init
  <2>3. served \in [Cron -> SUBSET (0..MaxAge)]
    BY DEF Init
  <2>4. QED
    BY <1>1, <2>2, <2>3 DEF Init, TypeOK
<1>3. QED
  BY <1>2 DEF Init, SchedulerInv, Owned, Registered, Rested, Unhalted, Attended, Latched,
              Alive, Dead

\* A thread goes on, or ends: what that leaves to be shown of each step.
LEMMA WorkerSteps ==
    ASSUME SchedulerInv, NEW w \in Thread, NEW r \in Workers, Set(w, r), Alive(w),
           UNCHANGED <<control, edits, minute, orphaned>>,
           entries' \in [Trigger -> Entries],
           \A t \in Trigger : entries'[t].status = entries[t].status,
           served' \in [Cron -> SUBSET (0..MaxAge)],
           \A t \in r.todo : entries[t].status # "new",
           r.pc \in {"dead", "sleep"} => r.age = 0,
           r.halt => workers[w].halt /\ r.loop = workers[w].loop
    PROVE  /\ TypeOK' /\ Owned' /\ Registered' /\ Rested' /\ Unhalted'
           /\ r.pc # "dead" => Attended'
<1> USE DEF SchedulerInv, Set, control
<1>1. workers' \in [Thread -> Workers]
  BY DEF TypeOK
<1>2. workers'[w] = r /\ \A v \in Thread \ {w} : workers'[v] = workers[v]
  BY DEF TypeOK
<1>3. TypeOK'
  BY <1>1 DEF TypeOK
<1>4. Owned'
  BY <1>2 DEF Owned, Alive
<1>5. Registered'
  <2>1. SUFFICES ASSUME NEW v \in Thread, NEW t \in workers'[v].todo
                 PROVE  entries'[t].status # "new"
    BY DEF Registered
  <2>2. t \in Trigger
    BY <1>1, <2>1 DEF Workers
  <2>3. QED
    BY <1>2, <2>1, <2>2 DEF Registered
<1>6. Rested'
  BY <1>2 DEF Rested
<1>7. Unhalted'
  BY <1>2 DEF Unhalted
<1>8. ASSUME r.pc # "dead" PROVE Attended'
  <2>1. Wellformed' => Wellformed
    BY DEF Wellformed, Trigger
  <2>2. ASSUME NEW v \in Thread, Alive(v), ~workers[v].halt
        PROVE  Alive(v)' /\ ~workers'[v].halt
    BY <1>2, <1>8, <2>2 DEF Alive
  <2>3. QED
    BY <2>1, <2>2 DEF Attended
<1>9. QED
  BY <1>3, <1>4, <1>5, <1>6, <1>7, <1>8

LEMMA LatchStays ==
    ASSUME SchedulerInv, NEW w \in Thread, NEW r \in Workers, Set(w, r),
           UNCHANGED <<minute, orphaned, served>>,
           \A c \in Cron : entries'[c].last = entries[c].last,
           r.age = 0 \/ r.age = workers[w].age
    PROVE  Latched'
<1> USE DEF SchedulerInv, Set
<1>1. workers'[w] = r /\ \A v \in Thread \ {w} : workers'[v] = workers[v]
  BY DEF TypeOK
<1>2. SUFFICES ASSUME ~orphaned, NEW c \in Cron, NEW v \in Thread, NEW a \in served[c]
               PROVE  /\ workers'[v].age <= a
                      /\ workers'[v].age = a => entries[c].last = Minute(v)'
  BY DEF Latched
<1>3. workers[v].age <= a /\ (workers[v].age = a => entries[c].last = Minute(v))
  BY <1>2 DEF Latched
<1>4. a \in 0..MaxAge /\ workers[v].age \in 0..MaxAge
  BY <1>2 DEF TypeOK, Workers
<1>5. workers'[v].age = 0 \/ workers'[v].age = workers[v].age
  BY <1>1
<1>6. workers'[v].age <= a /\ (workers'[v].age = a => workers'[v].age = workers[v].age)
  BY <1>3, <1>4, <1>5
<1>7. workers'[v].age = workers[v].age => Minute(v)' = Minute(v)
  BY DEF Minute
<1>8. QED
  BY <1>3, <1>6, <1>7

-----------------------------------------------------------------------------
LEMMA StartInv ==
    ASSUME SchedulerInv, NEW w \in Thread, Start(w)
    PROVE  SchedulerInv'
<1> USE DEF SchedulerInv, Start, Set, control
<1>1. Asleep \in Workers /\ Asleep.pc = "sleep" /\ Asleep.loop = None /\ Asleep.age = 0
      /\ Asleep.todo = {} /\ Asleep.halt = FALSE
  BY Quiescent
<1>2. workers'[w] = Asleep /\ \A v \in Thread \ {w} : workers'[v] = workers[v]
  BY DEF TypeOK
<1>3. TypeOK'
  BY <1>1 DEF TypeOK
<1>4. Owned'
  <2>1. loop = None /\ (~orphaned => \A v \in Thread : ~Alive(v))
    BY DEF Owned
  <2>2. QED
    BY <1>2, <2>1 DEF Owned, Alive
<1>5. Registered' /\ Rested' /\ Unhalted'
  BY <1>1, <1>2 DEF Registered, Rested, Unhalted
<1>6. Attended'
  BY <1>1, <1>2 DEF Attended, Alive
<1>7. Latched'
  BY <1>1, LatchStays
<1>8. QED
  BY <1>3, <1>4, <1>5, <1>6, <1>7

LEMMA StopInv ==
    ASSUME SchedulerInv, Stop
    PROVE  SchedulerInv'
<1> USE DEF SchedulerInv, Stop, control
<1>1. \A w \in Thread :
          /\ workers'[w] \in Workers
          /\ workers'[w].pc = workers[w].pc /\ workers'[w].age = workers[w].age
          /\ workers'[w].todo = workers[w].todo
  <2>1. SUFFICES ASSUME NEW w \in Thread
                 PROVE  /\ workers'[w] \in Workers
                        /\ workers'[w].pc = workers[w].pc
                        /\ workers'[w].age = workers[w].age
                        /\ workers'[w].todo = workers[w].todo
    OBVIOUS
  <2>2. workers[w] \in Workers
    BY DEF TypeOK
  <2>3. workers'[w] = workers[w] \/ workers'[w] = [workers[w] EXCEPT !.halt = TRUE]
    OBVIOUS
  <2>4. QED
    BY <2>2, <2>3 DEF Workers
<1>2. TypeOK'
  BY <1>1 DEF TypeOK
<1>3. Owned' /\ Registered' /\ Rested'
  BY <1>1 DEF Owned, Registered, Rested, Alive
<1>4. Unhalted' /\ Attended'
  BY DEF Unhalted, Attended
<1>5. Latched'
  BY <1>1 DEF Latched, Minute
<1>6. QED
  BY <1>2, <1>3, <1>4, <1>5

LEMMA StopReturnsInv ==
    ASSUME SchedulerInv, StopReturns
    PROVE  SchedulerInv'
<1> USE DEF SchedulerInv, StopReturns
<1>1. ~running /\ loop \in Thread
  BY DEF Owned, TypeOK
<1>2. TypeOK' /\ Registered' /\ Rested' /\ Unhalted' /\ Attended'
  BY <1>1 DEF TypeOK, Registered, Rested, Unhalted, Attended
<1>3. Owned'
  BY <1>1 DEF Owned, Alive
<1>4. Latched'
  BY DEF Latched, Minute
<1>5. QED
  BY <1>2, <1>3, <1>4

\* add, remove, enable and disable: entries keep their latch.
LEMMA EditInv ==
    ASSUME SchedulerInv, Edit
    PROVE  SchedulerInv'
<1> USE DEF SchedulerInv, Edit, Add, Remove, Switch, control
<1>1. PICK t \in Trigger : Add(t) \/ Remove(t) \/ Switch(t)
  OBVIOUS
<1>2. /\ entries' \in [Trigger -> Entries]
      /\ \A u \in Trigger : entries[u].status # "new" => entries'[u].status # "new"
      /\ \A u \in Trigger : entries'[u].last = entries[u].last
  <2>1. entries[t] \in Entries /\ \A u \in Trigger \ {t} : entries'[u] = entries[u]
    BY <1>1 DEF TypeOK
  <2>2. CASE Add(t)
    BY <2>1, <2>2 DEF TypeOK, Entries
  <2>3. CASE Remove(t)
    BY <2>1, <2>3 DEF TypeOK, Entries
  <2>4. CASE Switch(t)
    BY <2>1, <2>4 DEF TypeOK, Entries
  <2>5. QED
    BY <1>1, <2>2, <2>3, <2>4
<1>3. TypeOK'
  BY <1>1, <1>2 DEF TypeOK
<1>4. UNCHANGED <<running, joining, loop, workers, minute, served, orphaned>>
  BY <1>1
<1>5. Owned' /\ Rested' /\ Unhalted'
  BY <1>4 DEF Owned, Rested, Unhalted, Alive
<1>6. Registered'
  <2>1. \A w \in Thread : workers[w].todo \subseteq Trigger
    BY DEF TypeOK, Workers
  <2>2. QED
    BY <1>2, <1>4, <2>1 DEF Registered
<1>7. Attended'
  <2>1. Wellformed' => Wellformed
    BY <1>2 DEF Wellformed, Trigger
  <2>2. QED
    BY <1>4, <2>1 DEF Attended, Alive
<1>8. Latched'
  <2>1. Cron \subseteq Trigger
    BY DEF Trigger
  <2>2. QED
    BY <1>2, <1>4, <2>1 DEF Latched, Minute
<1>9. QED
  BY <1>3, <1>5, <1>6, <1>7, <1>8

-----------------------------------------------------------------------------
LEMMA BeginInv ==
    ASSUME SchedulerInv, NEW w \in Thread, Begin(w)
    PROVE  SchedulerInv'
<1> USE DEF SchedulerInv
<1> DEFINE r == [Dead EXCEPT !.pc = "tick", !.loop = loop, !.seen = TRUE,
                             !.todo = {t \in Trigger : entries[t].status = "here"}]
<1>1. Set(w, r)
  BY DEF Begin
<1>2. UNCHANGED <<control, entries, edits, minute, served, orphaned>>
  BY DEF Begin
<1>3. Alive(w)
  BY DEF Begin, Alive
<1>4. r \in Workers
  BY Quiescent DEF Workers, TypeOK
<1>5. /\ r.pc = "tick" /\ r.age = 0 /\ r.halt = FALSE
      /\ r.todo = {t \in Trigger : entries[t].status = "here"}
  BY Quiescent DEF Dead
<1>6. \A t \in r.todo : entries[t].status # "new"
  BY <1>5
<1> HIDE DEF r
<1>7. TypeOK' /\ Owned' /\ Registered' /\ Rested' /\ Unhalted' /\ Attended'
  BY <1>1, <1>2, <1>3, <1>4, <1>5, <1>6, WorkerSteps DEF TypeOK
<1>8. Latched'
  BY <1>1, <1>2, <1>4, <1>5, LatchStays
<1>9. QED
  BY <1>7, <1>8

\* A thread that ends while another one is in the loop, or when nothing runs.
LEMMA DeadInv ==
    ASSUME SchedulerInv, NEW w \in Thread, Set(w, Dead), Alive(w),
           UNCHANGED <<control, entries, edits, minute, served, orphaned>>,
           running /\ Wellformed => \E v \in Thread \ {w} : Alive(v) /\ ~workers[v].halt
    PROVE  SchedulerInv'
<1> USE DEF SchedulerInv
<1>1. TypeOK' /\ Owned' /\ Registered' /\ Rested' /\ Unhalted'
  BY Quiescent, WorkerSteps DEF TypeOK
<1>2. Latched'
  BY Quiescent, LatchStays
<1>3. Attended'
  <2>1. \A v \in Thread \ {w} : workers'[v] = workers[v]
    BY DEF Set, TypeOK
  <2>2. QED
    BY <2>1 DEF Attended, Alive, Wellformed, control
<1>4. QED
  BY <1>1, <1>2, <1>3

LEMMA ExitInv ==
    ASSUME SchedulerInv, NEW w \in Thread, Exit(w)
    PROVE  SchedulerInv'
<1>1. running => \E v \in Thread \ {w} : Alive(v) /\ ~workers[v].halt
  <2>1. SUFFICES ASSUME running PROVE \E v \in Thread \ {w} : Alive(v) /\ ~workers[v].halt
    OBVIOUS
  <2>2. PICK v \in Thread : workers[v].pc \in {"tick", "fire"} /\ workers[v].loop = loop
    BY <2>1 DEF Exit, Busy
  <2>3. v # w /\ Alive(v) /\ ~workers[v].halt
    BY <2>1, <2>2 DEF SchedulerInv, Unhalted, Exit, Alive
  <2>4. QED
    BY <2>3
<1>2. QED
  BY <1>1, DeadInv DEF Exit, Alive

LEMMA RaiseInv ==
    ASSUME SchedulerInv, NEW w \in Thread, NEW t \in Trigger, Raise(w, t)
    PROVE  SchedulerInv'
<1>1. t \in Bad /\ entries[t].status # "new"
  BY DEF Raise, Malformed, Upcoming, SchedulerInv, Registered
<1>2. ~Wellformed
  BY <1>1 DEF Wellformed
<1>3. QED
  BY <1>2, DeadInv DEF Raise, Upcoming, Alive

LEMMA InterruptInv ==
    ASSUME SchedulerInv, NEW w \in Thread, Interrupt(w)
    PROVE  SchedulerInv'
<1>1. running /\ Wellformed => \E v \in Thread \ {w} : Alive(v) /\ ~workers[v].halt
  BY DEF Interrupt, SchedulerInv, Attended
<1>2. QED
  BY <1>1, DeadInv DEF Interrupt, Alive

LEMMA EndTickInv ==
    ASSUME SchedulerInv, NEW w \in Thread, EndTick(w)
    PROVE  SchedulerInv'
<1> USE DEF SchedulerInv
<1> DEFINE r == [Asleep EXCEPT !.seen = workers[w].age = 0]
<1>1. Set(w, r) /\ UNCHANGED <<control, entries, edits, minute, served, orphaned>> /\ Alive(w)
  BY DEF EndTick, Alive
<1>2. r \in Workers /\ r.pc = "sleep" /\ r.age = 0 /\ r.halt = FALSE /\ r.todo = {}
  BY Quiescent DEF Workers
<1> HIDE DEF r
<1>3. TypeOK' /\ Owned' /\ Registered' /\ Rested' /\ Unhalted' /\ Attended'
  BY <1>1, <1>2, WorkerSteps DEF TypeOK
<1>4. Latched'
  BY <1>1, <1>2, LatchStays
<1>5. QED
  BY <1>3, <1>4

\* A tick goes from one trigger to the next.
LEMMA TickSteps ==
    ASSUME SchedulerInv, NEW w \in Thread, NEW r \in Workers, Set(w, r), Alive(w),
           UNCHANGED <<control, edits, minute, orphaned>>,
           entries' \in [Trigger -> Entries],
           \A t \in Trigger : entries'[t].status = entries[t].status,
           served' \in [Cron -> SUBSET (0..MaxAge)],
           r.pc \in {"tick", "fire"}, r.age = workers[w].age, r.todo \subseteq workers[w].todo,
           r.halt = workers[w].halt, r.loop = workers[w].loop
    PROVE  TypeOK' /\ Owned' /\ Registered' /\ Rested' /\ Unhalted' /\ Attended'
<1>1. \A t \in r.todo : entries[t].status # "new"
  BY DEF SchedulerInv, Registered
<1>2. r.pc \notin {"dead", "sleep"}
  OBVIOUS
<1>3. QED
  BY <1>1, <1>2, WorkerSteps

LEMMA PassInv ==
    ASSUME SchedulerInv, NEW w \in Thread, NEW t \in Trigger, Pass(w, t)
    PROVE  SchedulerInv'
<1> USE DEF SchedulerInv
<1> DEFINE r == [workers[w] EXCEPT !.todo = @ \ {t}]
<1>1. Set(w, r) /\ UNCHANGED <<control, entries, edits, minute, served, orphaned>>
      /\ workers[w].pc = "tick" /\ Alive(w)
  BY DEF Pass, Upcoming, Alive
<1>2. /\ r \in Workers /\ r.pc = "tick" /\ r.age = workers[w].age
      /\ r.todo \subseteq workers[w].todo
      /\ r.halt = workers[w].halt /\ r.loop = workers[w].loop
  BY <1>1 DEF Workers, TypeOK
<1> HIDE DEF r
<1>3. TypeOK' /\ Owned' /\ Registered' /\ Rested' /\ Unhalted' /\ Attended'
  BY <1>1, <1>2, TickSteps DEF TypeOK
<1>4. Latched'
  BY <1>1, <1>2, LatchStays
<1>5. QED
  BY <1>3, <1>4

LEMMA ReturnInv ==
    ASSUME SchedulerInv, NEW w \in Thread, Return(w)
    PROVE  SchedulerInv'
<1> USE DEF SchedulerInv
<1> DEFINE r == [workers[w] EXCEPT !.pc = "tick", !.firing = None]
<1>1. Set(w, r) /\ UNCHANGED <<control, entries, edits, minute, served, orphaned>> /\ Alive(w)
  BY DEF Return, Alive
<1>2. /\ r \in Workers /\ r.pc = "tick" /\ r.age = workers[w].age
      /\ r.todo \subseteq workers[w].todo
      /\ r.halt = workers[w].halt /\ r.loop = workers[w].loop
  <2>1. workers[w] \in Workers
    BY DEF TypeOK
  <2>2. r \in Workers
    BY <2>1 DEF Workers
  <2>3. QED
    BY <2>1, <2>2 DEF Workers
<1> HIDE DEF r
<1>3. TypeOK' /\ Owned' /\ Registered' /\ Rested' /\ Unhalted' /\ Attended'
  BY <1>1, <1>2, TickSteps DEF TypeOK
<1>4. Latched'
  BY <1>1, <1>2, LatchStays
<1>5. QED
  BY <1>3, <1>4

\* What a tick notes of a trigger it found due.
LEMMA NotedFacts ==
    ASSUME SchedulerInv, NEW w \in Thread, NEW t \in Trigger,
           entries' = [entries EXCEPT ![t] = Noted(w, t)]
    PROVE  /\ entries' \in [Trigger -> Entries]
           /\ \A u \in Trigger : entries'[u].status = entries[u].status
           /\ \A u \in Trigger \ {t} : entries'[u] = entries[u]
           /\ t \in Cron => entries'[t].last = Minute(w)
           /\ t \notin Cron => entries'[t].last = entries[t].last
<1> USE DEF SchedulerInv
<1>1. entries[t] \in Entries /\ workers[w].age \in 0..Old
  <2>1. workers[w].age \in 0..MaxAge
    BY DEF TypeOK, Workers
  <2>2. QED
    BY <2>1 DEF TypeOK, Old
<1>2. Minute(w) \in 0..(Day - 1)
  BY MinuteIsOfTheDay
<1>3. Noted(w, t) \in Entries /\ Noted(w, t).status = entries[t].status
  BY <1>1, <1>2 DEF Noted, Entries
<1>4. /\ t \in Cron => Noted(w, t).last = Minute(w)
      /\ t \notin Cron => Noted(w, t).last = entries[t].last
  BY <1>1 DEF Noted, Entries
<1>5. entries'[t] = Noted(w, t) /\ \A u \in Trigger \ {t} : entries'[u] = entries[u]
  BY DEF TypeOK
<1>6. entries' \in [Trigger -> Entries]
  BY <1>3 DEF TypeOK
<1>7. QED
  BY <1>3, <1>4, <1>5, <1>6

LEMMA PollInv ==
    ASSUME SchedulerInv, NEW w \in Thread, NEW t \in Trigger, Poll(w, t)
    PROVE  SchedulerInv'
<1> USE DEF SchedulerInv
<1> DEFINE r == [workers[w] EXCEPT !.todo = @ \ {t}]
<1>1. /\ Set(w, r) /\ UNCHANGED <<control, edits, minute, served, orphaned>>
      /\ entries' = [entries EXCEPT ![t] = Noted(w, t)]
      /\ workers[w].pc = "tick" /\ Alive(w) /\ t \notin Cron
  BY DEF Poll, Upcoming, Alive
<1>2. /\ r \in Workers /\ r.pc = "tick" /\ r.age = workers[w].age
      /\ r.todo \subseteq workers[w].todo
      /\ r.halt = workers[w].halt /\ r.loop = workers[w].loop
  BY <1>1 DEF Workers, TypeOK
<1> HIDE DEF r
<1>3. TypeOK' /\ Owned' /\ Registered' /\ Rested' /\ Unhalted' /\ Attended'
  BY <1>1, <1>2, NotedFacts, TickSteps DEF TypeOK
<1>4. Latched'
  <2>1. \A c \in Cron : entries'[c].last = entries[c].last
    BY <1>1, NotedFacts DEF Trigger
  <2>2. QED
    BY <1>1, <1>2, <2>1, LatchStays
<1>5. QED
  BY <1>3, <1>4

LEMMA FireInv ==
    ASSUME SchedulerInv, NEW w \in Thread, NEW t \in Trigger, Fire(w, t)
    PROVE  SchedulerInv'
<1> USE DEF SchedulerInv
<1> DEFINE r == [workers[w] EXCEPT !.pc = "fire", !.firing = t, !.todo = @ \ {t}]
<1>1. /\ Set(w, r) /\ UNCHANGED <<control, edits, minute, orphaned>>
      /\ entries' = [entries EXCEPT ![t] = Noted(w, t)]
      /\ served' = [c \in Cron |-> served[c] \cup (IF c = t THEN {workers[w].age} ELSE {})]
      /\ workers[w].pc = "tick" /\ Alive(w)
  BY DEF Fire, Upcoming, Alive
<1>2. /\ r \in Workers /\ r.pc = "fire" /\ r.age = workers[w].age
      /\ r.todo \subseteq workers[w].todo
      /\ r.halt = workers[w].halt /\ r.loop = workers[w].loop
  <2>1. workers[w] \in Workers
    BY DEF TypeOK
  <2>2. r \in Workers
    BY <2>1 DEF Workers
  <2>3. QED
    BY <2>1, <2>2 DEF Workers
<1> HIDE DEF r
<1>3. served' \in [Cron -> SUBSET (0..MaxAge)]
  <2>1. workers[w].age \in 0..MaxAge
    BY DEF TypeOK, Workers
  <2>2. QED
    BY <1>1, <2>1 DEF TypeOK
<1>4. TypeOK' /\ Owned' /\ Registered' /\ Rested' /\ Unhalted' /\ Attended'
  BY <1>1, <1>2, <1>3, NotedFacts, TickSteps DEF TypeOK
<1>5. Latched'
  <2>1. SUFFICES ASSUME ~orphaned, NEW c \in Cron, NEW v \in Thread, NEW a \in served'[c]
                 PROVE  /\ workers'[v].age <= a
                        /\ workers'[v].age = a => entries'[c].last = Minute(v)'
    BY <1>1 DEF Latched
  <2>2. workers'[v].age = workers[v].age /\ Minute(v)' = Minute(v)
    BY <1>1, <1>2 DEF Set, TypeOK, Minute
  <2>3. CASE a \in served[c] /\ c # t
    BY <1>1, <2>1, <2>2, <2>3, NotedFacts DEF Latched, Trigger
  <2>4. ASSUME c = t
        PROVE  workers[v].age <= workers[w].age /\ (workers[v].age = workers[w].age => Minute(v) = Minute(w))
    <3>1. workers[v].age \in Nat /\ workers[w].age \in Nat
      BY DEF TypeOK, Workers
    <3>2. v = w \/ workers[v].age = 0
      BY <1>1, <2>1 DEF Owned, Rested, Alive
    <3>3. workers[v].age = workers[w].age => Minute(v) = Minute(w)
      BY DEF Minute
    <3>4. QED
      BY <3>1, <3>2, <3>3
  <2>5. CASE c = t
    <3>1. entries'[c].last = Minute(w)
      BY <1>1, <2>5, NotedFacts
    <3>2. workers[w].age <= a
      BY <1>1, <2>1, <2>5 DEF Latched, TypeOK, Workers
    <3>3. workers[v].age \in Int /\ workers[w].age \in Int /\ a \in Int
      BY <1>3, <2>1 DEF TypeOK, Workers
    <3>4. workers[v].age <= a
      BY <2>4, <2>5, <3>2, <3>3
    <3>5. workers[v].age = a => workers[v].age = workers[w].age
      BY <2>4, <2>5, <3>2, <3>3
    <3>6. QED
      BY <2>2, <2>4, <2>5, <3>1, <3>4, <3>5
  <2>6. QED
    BY <1>1, <2>1, <2>3, <2>5
<1>6. QED
  BY <1>4, <1>5

-----------------------------------------------------------------------------
\* Minutes pass only while every thread waits: a tick that fires grows older
\* with what it fired, and its minute stays what it was.
LEMMA ClockInv ==
    ASSUME SchedulerInv, Clock
    PROVE  SchedulerInv'
<1> USE DEF SchedulerInv
<1>1. ASSUME NEW w \in Thread
      PROVE  /\ workers'[w] \in Workers
             /\ workers'[w].pc = workers[w].pc /\ workers'[w].loop = workers[w].loop
             /\ workers'[w].todo = workers[w].todo /\ workers'[w].halt = workers[w].halt
             /\ workers[w].pc = "fire" => workers'[w].age = workers[w].age + 1
             /\ workers[w].pc # "fire" => workers'[w].age = workers[w].age
  <2>1. workers[w] \in Workers
    BY DEF TypeOK
  <2>2. workers[w].pc = "fire" => workers[w].age + 1 \in 0..MaxAge
    <3>1. Waits(w) /\ workers[w].age \in 0..MaxAge
      BY <2>1 DEF Clock, Workers
    <3>2. workers[w].pc = "fire" => workers[w].age < MaxAge
      BY <3>1 DEF Waits
    <3>3. QED
      BY <3>1, <3>2
  <2>3. workers'[w] = [workers[w] EXCEPT
                          !.age = IF workers[w].pc = "fire" THEN workers[w].age + 1
                                                            ELSE workers[w].age,
                          !.seen = FALSE]
    BY DEF Clock
  <2>4. QED
    BY <2>1, <2>2, <2>3 DEF Workers
<1>2. ASSUME NEW t \in Trigger
      PROVE  entries'[t] \in Entries /\ entries'[t].status = entries[t].status
             /\ entries'[t].last = entries[t].last
  <2>1. entries[t] \in Entries /\ entries'[t] = [entries[t] EXCEPT !.age = Least(entries[t].age + 1, Old)]
    BY DEF TypeOK, Clock
  <2>2. Old \in Nat /\ entries[t].age \in 0..Old
    BY <2>1 DEF Entries, Old
  <2>3. Least(entries[t].age + 1, Old) \in 0..Old
    BY <2>2 DEF Least
  <2>4. QED
    BY <2>1, <2>3 DEF Entries
<1>3. minute' = (minute + 1) % Day /\ minute \in 0..(Day - 1)
  BY DEF Clock, TypeOK
<1>4. UNCHANGED <<running, loop, joining, edits, orphaned>>
  BY DEF Clock, control
<1>5. TypeOK'
  <2>1. minute' \in 0..(Day - 1)
    BY <1>3, Division
  <2>2. workers' \in [Thread -> Workers]
    BY <1>1 DEF Clock
  <2>3. entries' \in [Trigger -> Entries]
    BY <1>2 DEF Clock
  <2>4. served' \in [Cron -> SUBSET (0..MaxAge)]
    BY DEF Clock
  <2>5. QED
    BY <1>4, <2>1, <2>2, <2>3, <2>4 DEF TypeOK
<1>6. Owned' /\ Unhalted'
  BY <1>1, <1>4 DEF Owned, Unhalted, Alive
<1>7. Registered'
  <2>1. \A w \in Thread : workers[w].todo \subseteq Trigger
    BY DEF TypeOK, Workers
  <2>2. QED
    BY <1>1, <1>2, <2>1 DEF Registered
<1>8. Rested'
  BY <1>1 DEF Rested
<1>9. Attended'
  <2>1. Wellformed' => Wellformed
    BY <1>2 DEF Wellformed, Trigger
  <2>2. QED
    BY <1>1, <1>4, <2>1 DEF Attended, Alive
<1>10. Latched'
  <2>1. SUFFICES ASSUME ~orphaned, NEW c \in Cron, NEW w \in Thread, NEW b \in served'[c]
                 PROVE  /\ workers'[w].age <= b
                        /\ workers'[w].age = b => entries'[c].last = Minute(w)'
    BY <1>4 DEF Latched
  <2>2. PICK a \in served[c] : b = a + 1
    BY <2>1 DEF Clock
  <2>3. workers[w].age <= a /\ (workers[w].age = a => entries[c].last = Minute(w))
    BY <2>1 DEF Latched
  <2>4. a \in Nat /\ workers[w].age \in Nat
    BY DEF TypeOK, Workers
  <2>5. CASE workers[w].pc # "fire"
    BY <1>1, <2>2, <2>3, <2>4, <2>5
  <2>6. CASE workers[w].pc = "fire"
    <3>1. workers'[w].age = workers[w].age + 1
      BY <1>1, <2>6
    <3>2. Minute(w)' = Minute(w)
      BY <1>3, <2>4, <3>1, MinuteStands DEF Minute
    <3>3. entries'[c].last = entries[c].last
      BY <1>2 DEF Trigger
    <3>4. QED
      BY <2>2, <2>3, <2>4, <3>1, <3>2, <3>3
  <2>7. QED
    BY <2>5, <2>6
<1>11. QED
  BY <1>5, <1>6, <1>7, <1>8, <1>9, <1>10

-----------------------------------------------------------------------------
LEMMA LookInv ==
    ASSUME SchedulerInv, NEW w \in Thread, Look(w)
    PROVE  SchedulerInv'
<1>1. CASE Begin(w) \/ Exit(w) \/ EndTick(w)
  BY <1>1, BeginInv, ExitInv, EndTickInv
<1>2. CASE \E t \in Trigger : Pass(w, t) \/ Fire(w, t) \/ Poll(w, t) \/ Raise(w, t)
  BY <1>2, PassInv, FireInv, PollInv, RaiseInv
<1>3. QED
  BY <1>1, <1>2 DEF Look

LEMMA StepInv == SchedulerInv /\ [Next]_vars => SchedulerInv'
<1> SUFFICES ASSUME SchedulerInv, [Next]_vars PROVE SchedulerInv'
  OBVIOUS
<1>1. CASE Stop
  BY <1>1, StopInv
<1>2. CASE StopReturns
  BY <1>2, StopReturnsInv
<1>3. CASE Edit
  BY <1>3, EditInv
<1>4. CASE Clock
  BY <1>4, ClockInv
<1>5. ASSUME NEW w \in Thread, Start(w) \/ Look(w) \/ Return(w) \/ Interrupt(w)
      PROVE  SchedulerInv'
  BY <1>5, StartInv, LookInv, ReturnInv, InterruptInv
<1>6. CASE UNCHANGED vars
  BY <1>6 DEF vars, control, SchedulerInv, TypeOK, Owned, Registered, Rested, Unhalted,
              Attended, Latched, Alive, Wellformed, Minute
<1>7. QED
  BY <1>1, <1>2, <1>3, <1>4, <1>5, <1>6 DEF Next

LEMMA Safety == Spec => []SchedulerInv
BY InitInv, StepInv, PTL DEF Spec

\* Every variable has its type, in whatever order triggers are edited, ticks
\* last, and the scheduler is started and stopped.
THEOREM SchedulerTypeCorrect == Spec => []TypeOK
<1>1. SchedulerInv => TypeOK
  BY DEF SchedulerInv
<1>2. QED
  BY <1>1, Safety, PTL

\* A running scheduler has a thread, whatever was started and stopped before
\* (start() and stop(), triggers.py): a second start() does nothing, so without
\* one it would never look at its triggers again.
THEOREM RunningIsAlive == Spec => []RunningMeansAlive
<1>1. SchedulerInv => RunningMeansAlive
  BY DEF SchedulerInv, Attended, RunningMeansAlive
<1>2. QED
  BY <1>1, Safety, PTL

\* After a stop() that did not give up on its thread, nothing runs any more.
THEOREM StoppedSchedulersAreQuiet == Spec => []StoppedIsQuiet
<1>1. SchedulerInv => StoppedIsQuiet
  <2>1. ASSUME SchedulerInv, ~running, ~joining, ~orphaned, NEW w \in Thread
        PROVE  ~Alive(w)
    BY <2>1 DEF SchedulerInv, Owned
  <2>2. QED
    BY <2>1 DEF StoppedIsQuiet
<1>2. QED
  BY <1>1, Safety, PTL

\* A cron fires once for a minute, through slow triggers and restarts: the
\* latch in its entry is the minute of the newest tick that fired it.
THEOREM CronsFireOncePerMinute == Spec => CronFiresOncePerMinute
<1>1. SchedulerInv /\ [Next]_vars =>
        [\A w \in Thread, t \in Cron :
            Fires(w, t) /\ ~orphaned => workers[w].age \notin served[t]]_vars
  <2> SUFFICES ASSUME SchedulerInv, Next, NEW w \in Thread, NEW t \in Cron,
                      Fires(w, t), ~orphaned
               PROVE  workers[w].age \notin served[t]
    OBVIOUS
  <2>1. CASE Stop \/ Clock
    <3>1. workers'[w].pc = workers[w].pc
      <4>1. workers[w] \in Workers
        BY DEF SchedulerInv, TypeOK
      <4>2. CASE Stop
        BY <4>1, <4>2 DEF Stop, Workers
      <4>3. CASE Clock
        BY <4>1, <4>3 DEF Clock, Workers
      <4>4. QED
        BY <2>1, <4>2, <4>3
    <3>2. QED
      BY <3>1 DEF Fires
  <2>2. CASE StopReturns \/ Edit
    BY <2>2 DEF StopReturns, Edit, Add, Remove, Switch, Fires
  <2>3. ASSUME NEW v \in Thread, v # w, Start(v) \/ Look(v) \/ Return(v) \/ Interrupt(v)
        PROVE  FALSE
    <3>1. workers'[w] = workers[w]
      BY <2>3 DEF Start, Look, Return, Interrupt, Begin, Exit, EndTick, Pass, Fire, Poll, Raise,
                  Set, SchedulerInv, TypeOK
    <3>2. QED
      BY <3>1 DEF Fires
  <2>4. CASE Start(w) \/ Return(w) \/ Interrupt(w) \/ Begin(w) \/ Exit(w)
    BY <2>4 DEF Fires, Start, Return, Interrupt, Begin, Exit, Dead
  <2>5. CASE EndTick(w)
    <3>1. workers'[w].pc = "sleep"
      BY <2>5, Quiescent DEF EndTick, Set, SchedulerInv, TypeOK
    <3>2. QED
      BY <3>1 DEF Fires
  <2>6. ASSUME NEW u \in Trigger, Pass(w, u) \/ Poll(w, u) \/ Raise(w, u)
        PROVE  FALSE
    <3>1. workers'[w].pc # "fire"
      BY <2>6, Quiescent DEF Pass, Poll, Raise, Upcoming, Set, SchedulerInv, TypeOK, Workers
    <3>2. QED
      BY <3>1 DEF Fires
  <2>7. ASSUME NEW u \in Trigger, Fire(w, u)
        PROVE  workers[w].age \notin served[t]
    <3>1. workers'[w].firing = u
      BY <2>7 DEF Fire, Set, SchedulerInv, TypeOK, Workers
    <3>2. u = t
      BY <3>1 DEF Fires
    <3>3. entries[t].last # Minute(w)
      BY <2>7, <3>2 DEF Fire, DueNow
    <3>4. QED
      BY <3>3 DEF SchedulerInv, Latched
  <2>8. QED
    BY <2>1, <2>2, <2>3, <2>4, <2>5, <2>6, <2>7 DEF Next, Look
<1>2. QED
  BY <1>1, Safety, PTL DEF Spec, CronFiresOncePerMinute
=============================================================================
