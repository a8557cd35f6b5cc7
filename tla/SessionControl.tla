--------------------------- MODULE SessionControl ---------------------------
(***************************************************************************)
(* Session managers (agenthandler/session.py) in several processes share   *)
(* one checkpoint store (agenthandler/store.py).  Each keeps in memory at  *)
(* most one current Supervisor (agenthandler/supervisor.py) per session,   *)
(* but a Supervisor that was replaced may still be referenced by the agent *)
(* that was given it, and a tool call it began may still be in flight.     *)
(*                                                                         *)
(* The store serializes transactions, so one lifecycle operation is one    *)
(* step.  Its in-memory effects are not undone when its commit fails: the  *)
(* ...Fails actions model that, MaxFaults of them in a behaviour.          *)
(*                                                                         *)
(* tokens_used and iterations are charged, merged and stored the same way; *)
(* `used' stands for either.                                               *)
(***************************************************************************)
EXTENDS Integers

CONSTANTS
    Manager,     \* processes that run a SessionManager over the shared store
    Session,     \* session ids, each used once
    Slot,        \* identities of Supervisor objects
    None,        \* no session, no manager, no supervisor
    MaxResumes,  \* policy.max_resumes
    Budget,      \* policy.token_budget
    MaxUsed,     \* bound: no supervisor is charged beyond this
    MaxFaults    \* bound: failed store operations in a behaviour

ASSUME ConstantsAssumption ==
    /\ None \notin Manager \cup Session \cup Slot
    /\ MaxResumes \in Nat /\ Budget \in Nat /\ MaxUsed \in Nat /\ MaxFaults \in Nat

VARIABLES
    cp,       \* the stored checkpoint of each session
    sv,       \* the Supervisor objects alive in some process
    current,  \* SessionManager._supervisors of each process
    faults    \* failed store operations so far

vars == <<cp, sv, current, faults>>

Status == {"unborn", "running", "paused", "stopped", "failed", "deleted"}

Checkpoints == [status : Status, gen : 0..MaxResumes, used : 0..MaxUsed]

Supervisors ==
    [sid    : Session \cup {None},   \* None: no object has this identity
     mgr    : Manager \cup {None},
     gen    : 0..(MaxResumes + 1),   \* _resume_count
     used   : 0..MaxUsed,            \* the BudgetTracker's counter
     paused : BOOLEAN,               \* _paused
     store  : BOOLEAN,               \* _store is not None
     call   : {"idle", "admitted", "running"}]

NoSupervisor ==
    [sid |-> None, mgr |-> None, gen |-> 0, used |-> 0,
     paused |-> TRUE, store |-> FALSE, call |-> "idle"]

NewSupervisor(m, s, g, u) ==
    [sid |-> s, mgr |-> m, gen |-> g, used |-> u,
     paused |-> FALSE, store |-> TRUE, call |-> "idle"]

\* The row that start and restart write.
NewCheckpoint == [status |-> "running", gen |-> 0, used |-> 0]

Init ==
    /\ cp = [s \in Session |-> [status |-> "unborn", gen |-> 0, used |-> 0]]
    /\ sv = [o \in Slot |-> NoSupervisor]
    /\ current = [m \in Manager |-> [s \in Session |-> None]]
    /\ faults = 0

-----------------------------------------------------------------------------
Larger(a, b) == IF a >= b THEN a ELSE b

Alive(o) == sv[o].sid # None

\* load_checkpoint returns a row.
Exists(s) == cp[s].status \notin {"unborn", "deleted"}

\* A supervisor may no longer work, nor write to the store.
Retired(r) == [r EXCEPT !.paused = TRUE, !.store = FALSE]

\* sv with the supervisor manager m holds for s retired, if it holds one.
RetireCurrent(m, s) ==
    [o \in Slot |-> IF o = current[m][s] THEN Retired(sv[o]) ELSE sv[o]]

\* sv with that supervisor told to raise AgentPaused on its next call.
PauseCurrent(m, s) ==
    [o \in Slot |->
        IF o = current[m][s] THEN [sv[o] EXCEPT !.paused = TRUE] ELSE sv[o]]

\* The durable usage a stop or resume by m writes: it merges the counters of
\* m's own supervisor when that one is of the stored generation.
MergedUsage(m, s) ==
    IF current[m][s] # None /\ sv[current[m][s]].gen = cp[s].gen
    THEN Larger(cp[s].used, sv[current[m][s]].used)
    ELSE cp[s].used

Fault == faults < MaxFaults /\ faults' = faults + 1

-----------------------------------------------------------------------------
\* Lifecycle operations of SessionManager.

Start(m, s, o) ==
    /\ cp[s].status = "unborn" /\ ~Alive(o)
    /\ cp' = [cp EXCEPT ![s] = NewCheckpoint]
    /\ sv' = [sv EXCEPT ![o] = NewSupervisor(m, s, 0, 0)]
    /\ current' = [current EXCEPT ![m][s] = o]
    /\ UNCHANGED faults

\* No status is refused: a stopped or failed session becomes paused as well.
Pause(m, s) ==
    /\ Exists(s)
    /\ cp' = [cp EXCEPT ![s].status = "paused"]
    /\ sv' = PauseCurrent(m, s)
    /\ UNCHANGED <<current, faults>>

PauseCommitFails(m, s) ==
    /\ Exists(s) /\ Fault
    /\ sv' = PauseCurrent(m, s)
    /\ UNCHANGED <<cp, current>>

\* The crash-loop protection lets the session be resumed.
ResumesLeft(s) == cp[s].gen < MaxResumes

\* The crash-loop limit, or a stored policy that does not match its checksum;
\* a manager that still holds the original policy does not read the stored one.
RejectResume(m, s) ==
    /\ Exists(s)
    /\ ~ResumesLeft(s) \/ current[m][s] = None
    /\ cp' = [cp EXCEPT ![s].status = "failed"]
    /\ UNCHANGED <<sv, current, faults>>

\* (Bug: the new supervisor is given the generation it replaces.)
InstallSameGeneration(m, s, o) ==
    /\ sv' = [RetireCurrent(m, s) EXCEPT
                ![o] = NewSupervisor(m, s, cp[s].gen, MergedUsage(m, s))]
    /\ current' = [current EXCEPT ![m][s] = o]

\* (Bug: the new supervisor is built without the checkpoint's counters.)
InstallForgetful(m, s, o) ==
    /\ sv' = [RetireCurrent(m, s) EXCEPT ![o] = NewSupervisor(m, s, cp[s].gen + 1, 0)]
    /\ current' = [current EXCEPT ![m][s] = o]

\* The in-memory half of resume: the old supervisor is retired, a new one
\* owns the next generation.
InstallResumed(m, s, o) ==
    /\ sv' = [RetireCurrent(m, s) EXCEPT
                ![o] = NewSupervisor(m, s, cp[s].gen + 1, MergedUsage(m, s))]
    /\ current' = [current EXCEPT ![m][s] = o]

Resume(m, s, o) ==
    /\ Exists(s) /\ ResumesLeft(s) /\ ~Alive(o)
    /\ cp' = [cp EXCEPT ![s] = [status |-> "running",
                                gen |-> cp[s].gen + 1,
                                used |-> MergedUsage(m, s)]]
    /\ InstallResumed(m, s, o)
    /\ UNCHANGED faults

\* save_checkpoint raises before the new supervisor exists.
ResumeSaveFails(m, s) ==
    /\ Exists(s) /\ ResumesLeft(s) /\ Fault
    /\ sv' = RetireCurrent(m, s)
    /\ UNCHANGED <<cp, current>>

\* COMMIT raises after the new supervisor was installed.
ResumeCommitFails(m, s, o) ==
    /\ Exists(s) /\ ResumesLeft(s) /\ ~Alive(o) /\ Fault
    /\ InstallResumed(m, s, o)
    /\ UNCHANGED cp

Stop(m, s) ==
    /\ Exists(s)
    /\ cp' = [cp EXCEPT ![s].status = "stopped", ![s].used = MergedUsage(m, s)]
    /\ sv' = RetireCurrent(m, s)
    /\ current' = [current EXCEPT ![m][s] = None]
    /\ UNCHANGED faults

\* (Bug: the save comes first, and the supervisor is retired only after it.)
StopSavesFirst(m, s) ==
    /\ Exists(s) /\ Fault
    /\ current' = [current EXCEPT ![m][s] = None]
    /\ UNCHANGED <<cp, sv>>

\* save_checkpoint or COMMIT raises after the supervisor was retired.
StopFails(m, s) ==
    /\ Exists(s) /\ Fault
    /\ sv' = RetireCurrent(m, s)
    /\ current' = [current EXCEPT ![m][s] = None]
    /\ UNCHANGED cp

\* restart: the old checkpoint stays as it is, whatever its status; the same
\* agent starts again as session t.
Restart(m, s, t, o) ==
    /\ Exists(s) /\ cp[t].status = "unborn" /\ ~Alive(o)
    /\ cp' = [cp EXCEPT ![t] = NewCheckpoint]
    /\ sv' = [RetireCurrent(m, s) EXCEPT ![o] = NewSupervisor(m, t, 0, 0)]
    /\ current' = [current EXCEPT ![m][s] = None, ![m][t] = o]
    /\ UNCHANGED faults

\* delete_expired, delete_session: the row goes, no manager's memory changes.
Delete(s) ==
    /\ Exists(s)
    /\ cp' = [cp EXCEPT ![s].status = "deleted"]
    /\ UNCHANGED <<sv, current, faults>>

-----------------------------------------------------------------------------
\* Operations of a Supervisor, current or not.

\* The stored session is the one this supervisor owns, in its generation.
SameGeneration(o) ==
    Exists(sv[o].sid) /\ cp[sv[o].sid].gen = sv[o].gen

\* (Bug: the status is checked, the generation is not.)
FencedByStatus(o) ==
    sv[o].store /\ ~(Exists(sv[o].sid) /\ cp[sv[o].sid].status = "running")

\* What _check_paused finds: the store contradicts the supervisor.
Fenced(o) ==
    sv[o].store /\ ~(SameGeneration(o) /\ cp[sv[o].sid].status = "running")

\* _check_paused refuses; a paused owner keeps its store for late usage.
\* begin_request makes the same check.
RefuseCall(o) ==
    /\ Alive(o)
    /\ Fenced(o)
    /\ sv' = [sv EXCEPT ![o].paused = TRUE,
                        ![o].store = SameGeneration(o)
                                       /\ cp[sv[o].sid].status = "paused"]
    /\ UNCHANGED <<cp, current, faults>>

BeginCall(o) ==
    /\ Alive(o) /\ sv[o].call = "idle"
    /\ ~Fenced(o) /\ ~sv[o].paused
    /\ sv' = [sv EXCEPT ![o].call = "admitted"]
    /\ UNCHANGED <<cp, current, faults>>

\* A later check of _pre_checks refuses: deadline, confirmation, scope,
\* breaker or a guardrail that was awaited.
RefuseAfterPause(o) ==
    /\ sv[o].call = "admitted"
    /\ sv' = [sv EXCEPT ![o].call = "idle"]
    /\ UNCHANGED <<cp, current, faults>>

ExecuteTool(o) ==
    /\ sv[o].call = "admitted"
    /\ sv' = [sv EXCEPT ![o].call = "running"]
    /\ UNCHANGED <<cp, current, faults>>

\* A timeout or an exception: nothing is charged and nothing is stored.
ToolFails(o) ==
    /\ sv[o].call = "running"
    /\ sv' = [sv EXCEPT ![o].call = "idle"]
    /\ UNCHANGED <<cp, current, faults>>

\* update_supervisor_checkpoint would match the stored row.
Writable(o) ==
    sv[o].store /\ SameGeneration(o) /\ cp[sv[o].sid].status \in {"running", "paused"}

\* (Bug: the checkpoint is taken before the charge.)
CheckpointThenCharge(o, u, c) ==
    /\ cp' = IF Writable(o)
             THEN [cp EXCEPT ![sv[o].sid].used = Larger(cp[sv[o].sid].used, sv[o].used)]
             ELSE cp
    /\ sv' = [sv EXCEPT ![o] = [sv[o] EXCEPT
                 !.used = u, !.call = c,
                 !.paused = sv[o].paused \/ Fenced(o),
                 !.store = Writable(o)]]

\* _auto_checkpoint of a supervisor that now counts u: the store takes the
\* larger counter, or the supervisor retires; a paused owner becomes paused.
AutoCheckpoint(o, u, c) ==
    /\ cp' = IF Writable(o)
             THEN [cp EXCEPT ![sv[o].sid].used = Larger(cp[sv[o].sid].used, u)]
             ELSE cp
    /\ sv' = [sv EXCEPT ![o] = [sv[o] EXCEPT
                 !.used = u, !.call = c,
                 !.paused = sv[o].paused \/ Fenced(o),
                 !.store = Writable(o)]]

\* Anything the store raises is swallowed: only the memory counts the usage.
AutoCheckpointFails(o, u, c) ==
    /\ sv[o].store /\ Fault
    /\ sv' = [sv EXCEPT ![o].used = u, ![o].call = c]
    /\ UNCHANGED cp

\* The tool returned n tokens within the budget: charge, then checkpoint.
ToolReturns(o, n) ==
    /\ sv[o].call = "running"
    /\ sv[o].used + n <= MaxUsed
    /\ n = 0 \/ sv[o].used + n <= Budget
    /\ \/ AutoCheckpoint(o, sv[o].used + n, "idle") /\ UNCHANGED faults
       \/ AutoCheckpointFails(o, sv[o].used + n, "idle")
    /\ UNCHANGED current

\* The charge passes the budget: the early return skips _auto_checkpoint.
ToolReturnsOverBudget(o, n) ==
    /\ sv[o].call = "running"
    /\ n > 0 /\ sv[o].used + n > Budget /\ sv[o].used + n <= MaxUsed
    /\ sv' = [sv EXCEPT ![o].used = @ + n, ![o].call = "idle"]
    /\ UNCHANGED <<cp, current, faults>>

\* record_tokens and record_iteration checkpoint even when they raise.
RecordUsage(o, n) ==
    /\ Alive(o)
    /\ sv[o].used + n <= MaxUsed
    /\ \/ AutoCheckpoint(o, sv[o].used + n, sv[o].call) /\ UNCHANGED faults
       \/ AutoCheckpointFails(o, sv[o].used + n, sv[o].call)
    /\ UNCHANGED current

-----------------------------------------------------------------------------
\* The process and its memory.

Crash(m) ==
    /\ sv' = [o \in Slot |-> IF sv[o].mgr = m THEN NoSupervisor ELSE sv[o]]
    /\ current' = [current EXCEPT ![m] = [s \in Session |-> None]]
    /\ UNCHANGED <<cp, faults>>

\* The last reference to a replaced supervisor goes away.
Discard(o) ==
    /\ Alive(o) /\ sv[o].call = "idle"
    /\ current[sv[o].mgr][sv[o].sid] # o
    /\ sv' = [sv EXCEPT ![o] = NoSupervisor]
    /\ UNCHANGED <<cp, current, faults>>

-----------------------------------------------------------------------------
Control(m, s) ==
    \/ Pause(m, s) \/ PauseCommitFails(m, s)
    \/ RejectResume(m, s) \/ ResumeSaveFails(m, s)
    \/ Stop(m, s) \/ StopFails(m, s)
    \/ \E o \in Slot : \/ Start(m, s, o) \/ Resume(m, s, o) \/ ResumeCommitFails(m, s, o)
                       \/ \E t \in Session : Restart(m, s, t, o)

Supervise(o) ==
    \/ RefuseCall(o) \/ BeginCall(o) \/ RefuseAfterPause(o)
    \/ ExecuteTool(o) \/ ToolFails(o)
    \/ \E n \in 0..MaxUsed : \/ ToolReturns(o, n) \/ ToolReturnsOverBudget(o, n)
                             \/ n > 0 /\ RecordUsage(o, n)

Next ==
    \/ \E m \in Manager, s \in Session : Control(m, s)
    \/ \E s \in Session : Delete(s)
    \/ \E o \in Slot : Supervise(o) \/ Discard(o)
    \/ \E m \in Manager : Crash(m)

Spec == Init /\ [][Next]_vars

-----------------------------------------------------------------------------
\* Every variable has its type; in particular no session is resumed more than
\* max_resumes times.
TypeOK ==
    /\ cp \in [Session -> Checkpoints]
    /\ sv \in [Slot -> Supervisors]
    /\ current \in [Manager -> [Session -> Slot \cup {None}]]
    /\ faults \in 0..MaxFaults

\* "Resume generation owned by this supervisor" (supervisor.py:155): no two
\* Supervisor objects, in whatever process, hold the same generation of a
\* session.  Every fence of the code compares generations, so a shared one
\* defeats all of them.
OneOwnerPerGeneration ==
    \A o, p \in Slot :
        Alive(o) /\ sv[o].sid = sv[p].sid /\ sv[o].gen = sv[p].gen => o = p

\* "Resuming replaces the session generation, so an older in-flight worker
\* cannot certify the resumed job" (docs/durable-tasks.md:130): never are two
\* supervisors at work under one generation.
OneOwnerAtWork ==
    \A o, p \in Slot :
        /\ sv[o].call = "running" /\ sv[p].call = "running"
        /\ sv[o].sid = sv[p].sid /\ sv[o].gen = sv[p].gen
        => o = p

\* A supervisor without its store no longer reads the checkpoint before a
\* call (supervisor.py:269), so it must already be paused, for good.
StorelessIsPaused ==
    \A o \in Slot : ~sv[o].store => sv[o].paused

\* Every supervisor that a manager may still let work is the one its registry
\* holds: a replaced, stopped or restarted one cannot act on its own memory.
UnpausedIsCurrent ==
    \A o \in Slot : ~sv[o].paused => current[sv[o].mgr][sv[o].sid] = o

\* Identities in use belong to a session that was started and to the manager
\* that created them; identities not in use are blank.
Bookkeeping ==
    /\ \A o \in Slot : Alive(o) => sv[o].mgr \in Manager /\ cp[sv[o].sid].status # "unborn"
    /\ \A o \in Slot : ~Alive(o) => sv[o] = NoSupervisor
    /\ \A m \in Manager, s \in Session :
          current[m][s] # None =>
              sv[current[m][s]].sid = s /\ sv[current[m][s]].mgr = m

\* What holds however many store operations fail.
SafeInv == TypeOK /\ Bookkeeping /\ StorelessIsPaused /\ UnpausedIsCurrent

\* While a supervisor can still write, everything it charged within the
\* budget is in the stored record: a crash at any moment loses none of it.
ChargedWithinBudgetIsDurable ==
    \A o \in Slot :
        sv[o].store /\ sv[o].used <= Budget => sv[o].used <= cp[sv[o].sid].used

\* The owner of the stored generation counts at least what is stored: its
\* budget check never works with less than the session has used.
OwnerSeesAllUsage ==
    \A o \in Slot :
        Alive(o) /\ sv[o].gen = cp[sv[o].sid].gen => sv[o].used >= cp[sv[o].sid].used

\* A supervisor's generation was granted by the store.
GenerationIsGranted ==
    \A o \in Slot : Alive(o) => sv[o].gen <= cp[sv[o].sid].gen

\* What holds as long as no store operation fails; inductive with SafeInv.
FencingInv ==
    /\ GenerationIsGranted
    /\ OneOwnerPerGeneration
    /\ ChargedWithinBudgetIsDurable
    /\ OwnerSeesAllUsage

\* The lease this module implements: a session's status, generation and usage
\* as stored, and the generations with a call in flight.
LeasePhase(status) ==
    CASE status = "unborn"  -> "unborn"
      [] status = "running" -> "open"
      [] status = "deleted" -> "lost"
      [] OTHER              -> "shut"

LeaseOf(c) == [phase |-> LeasePhase(c.status), gen |-> c.gen, used |-> c.used]

StoredLease == [s \in Session |-> LeaseOf(cp[s])]

InFlight == {<<sv[o].sid, sv[o].gen>> : o \in {p \in Slot : sv[p].call # "idle"}}

Lease == INSTANCE SessionLease WITH lease <- StoredLease, busy <- InFlight

\* Work begins only in the stored generation of a running session, and the
\* stored generation and usage never go back.
ImplementsLease == Lease!LeaseSpec
=============================================================================
