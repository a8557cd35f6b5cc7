------------------------ MODULE SessionControlProofs ------------------------
(***************************************************************************)
(* Theorems about SessionControl, for every set of managers, sessions and  *)
(* supervisors and every bound.                                            *)
(***************************************************************************)
EXTENDS SessionControl, TLAPS

USE ConstantsAssumption

LEMMA LargerType ==
    ASSUME NEW a \in 0..MaxUsed, NEW b \in 0..MaxUsed
    PROVE  Larger(a, b) \in 0..MaxUsed
BY DEF Larger

\* What a stop or a resume writes is a counter.
LEMMA MergedUsageType ==
    ASSUME TypeOK, NEW m \in Manager, NEW s \in Session
    PROVE  MergedUsage(m, s) \in 0..MaxUsed
<1>1. cp[s].used \in 0..MaxUsed
  BY DEF TypeOK, Checkpoints
<1>2. ASSUME current[m][s] # None PROVE sv[current[m][s]].used \in 0..MaxUsed
  BY <1>2 DEF TypeOK, Supervisors
<1>3. QED
  BY <1>1, <1>2, LargerType DEF MergedUsage

\* The updates of a supervisor's record that the actions are made of.
LEMMA RecordTypes ==
    ASSUME NEW r \in Supervisors
    PROVE  /\ Retired(r) \in Supervisors
           /\ [r EXCEPT !.paused = TRUE] \in Supervisors
           /\ \A b \in BOOLEAN :
                 [r EXCEPT !.paused = TRUE, !.store = b] \in Supervisors
           /\ \A c \in {"idle", "admitted", "running"} :
                 [r EXCEPT !.call = c] \in Supervisors
           /\ \A c \in {"idle", "admitted", "running"}, u \in 0..MaxUsed :
                 [r EXCEPT !.used = u, !.call = c] \in Supervisors
           /\ \A c \in {"idle", "admitted", "running"}, u \in 0..MaxUsed,
                 p \in BOOLEAN, b \in BOOLEAN :
                 [r EXCEPT !.used = u, !.call = c, !.paused = p, !.store = b] \in Supervisors
<1>1. Retired(r) \in Supervisors
  BY DEF Retired, Supervisors
<1>2. [r EXCEPT !.paused = TRUE] \in Supervisors
  BY DEF Supervisors
<1>3. ASSUME NEW b \in BOOLEAN
      PROVE  [r EXCEPT !.paused = TRUE, !.store = b] \in Supervisors
  BY DEF Supervisors
<1>4. ASSUME NEW c \in {"idle", "admitted", "running"}
      PROVE  [r EXCEPT !.call = c] \in Supervisors
  BY DEF Supervisors
<1>5. ASSUME NEW c \in {"idle", "admitted", "running"}, NEW u \in 0..MaxUsed
      PROVE  [r EXCEPT !.used = u, !.call = c] \in Supervisors
  BY DEF Supervisors
<1>6. ASSUME NEW c \in {"idle", "admitted", "running"}, NEW u \in 0..MaxUsed,
             NEW p \in BOOLEAN, NEW b \in BOOLEAN
      PROVE  [r EXCEPT !.used = u, !.call = c, !.paused = p, !.store = b] \in Supervisors
  BY DEF Supervisors
<1>7. QED
  BY <1>1, <1>2, <1>3, <1>4, <1>5, <1>6

LEMMA RetireCurrentType ==
    ASSUME TypeOK, NEW m \in Manager, NEW s \in Session
    PROVE  RetireCurrent(m, s) \in [Slot -> Supervisors]
BY RecordTypes DEF TypeOK, RetireCurrent

\* What retiring a manager's supervisor changes.
LEMMA RetireCurrentFacts ==
    ASSUME TypeOK, NEW m \in Manager, NEW s \in Session, NEW p \in Slot
    PROVE  /\ RetireCurrent(m, s)[p].sid = sv[p].sid
           /\ RetireCurrent(m, s)[p].mgr = sv[p].mgr
           /\ RetireCurrent(m, s)[p].gen = sv[p].gen
           /\ RetireCurrent(m, s)[p].used = sv[p].used
           /\ RetireCurrent(m, s)[p].call = sv[p].call
           /\ p # current[m][s] => RetireCurrent(m, s)[p] = sv[p]
           /\ p = current[m][s] => /\ RetireCurrent(m, s)[p].paused = TRUE
                                   /\ RetireCurrent(m, s)[p].store = FALSE
<1>1. sv[p] \in Supervisors
  BY DEF TypeOK
<1>2. CASE p # current[m][s]
  BY <1>2 DEF RetireCurrent
<1>3. CASE p = current[m][s]
  <2>1. RetireCurrent(m, s)[p] = [sv[p] EXCEPT !.paused = TRUE, !.store = FALSE]
    BY <1>3 DEF RetireCurrent, Retired
  <2>2. QED
    BY <1>1, <1>3, <2>1 DEF Supervisors
<1>4. QED
  BY <1>2, <1>3

LEMMA PauseCurrentType ==
    ASSUME TypeOK, NEW m \in Manager, NEW s \in Session
    PROVE  PauseCurrent(m, s) \in [Slot -> Supervisors]
BY RecordTypes DEF TypeOK, PauseCurrent

LEMMA NewSupervisorType ==
    ASSUME NEW m \in Manager, NEW s \in Session,
           NEW g \in 0..(MaxResumes + 1), NEW u \in 0..MaxUsed
    PROVE  NewSupervisor(m, s, g, u) \in Supervisors
BY DEF NewSupervisor, Supervisors

LEMMA InitType == Init => TypeOK
BY DEF Init, TypeOK, Checkpoints, Supervisors, Status, NoSupervisor

\* Every step of a session manager keeps the types.
LEMMA ControlType ==
    ASSUME TypeOK, NEW m \in Manager, NEW s \in Session, Control(m, s)
    PROVE  TypeOK'
<1> USE DEF TypeOK
<1>1. CASE Pause(m, s)
  BY <1>1, PauseCurrentType DEF Pause, Checkpoints, Status
<1>2. CASE PauseCommitFails(m, s)
  BY <1>2, PauseCurrentType DEF PauseCommitFails, Fault
<1>3. CASE RejectResume(m, s)
  BY <1>3 DEF RejectResume, Checkpoints, Status
<1>4. CASE ResumeSaveFails(m, s)
  BY <1>4, RetireCurrentType DEF ResumeSaveFails, Fault
<1>5. CASE Stop(m, s)
  BY <1>5, RetireCurrentType, MergedUsageType DEF Stop, Checkpoints, Status
<1>6. CASE StopFails(m, s)
  BY <1>6, RetireCurrentType DEF StopFails, Fault
<1>7. ASSUME NEW o \in Slot, Start(m, s, o) PROVE TypeOK'
  <2>1. NewSupervisor(m, s, 0, 0) \in Supervisors
    BY NewSupervisorType
  <2>2. QED
    BY <1>7, <2>1 DEF Start, NewCheckpoint, Checkpoints, Status
<1>8. ASSUME NEW o \in Slot, Resume(m, s, o) PROVE TypeOK'
  <2>1. cp[s].gen + 1 \in 0..MaxResumes
    BY <1>8 DEF Resume, ResumesLeft, Checkpoints
  <2>2. cp' \in [Session -> Checkpoints]
    BY <1>8, <2>1, MergedUsageType DEF Resume, Checkpoints, Status
  <2>3. NewSupervisor(m, s, cp[s].gen + 1, MergedUsage(m, s)) \in Supervisors
    BY <2>1, NewSupervisorType, MergedUsageType
  <2>4. QED
    BY <1>8, <2>2, <2>3, RetireCurrentType DEF Resume, InstallResumed
<1>9. ASSUME NEW o \in Slot, ResumeCommitFails(m, s, o) PROVE TypeOK'
  <2>1. cp[s].gen + 1 \in 0..MaxResumes
    BY <1>9 DEF ResumeCommitFails, ResumesLeft, Checkpoints
  <2>2. NewSupervisor(m, s, cp[s].gen + 1, MergedUsage(m, s)) \in Supervisors
    BY <2>1, NewSupervisorType, MergedUsageType
  <2>3. QED
    BY <1>9, <2>2, RetireCurrentType DEF ResumeCommitFails, InstallResumed, Fault
<1>10. ASSUME NEW o \in Slot, NEW t \in Session, Restart(m, s, t, o) PROVE TypeOK'
  <2>1. NewSupervisor(m, t, 0, 0) \in Supervisors
    BY NewSupervisorType
  <2>2. cp' \in [Session -> Checkpoints]
    BY <1>10 DEF Restart, NewCheckpoint, Checkpoints, Status
  <2>3. sv' \in [Slot -> Supervisors]
    BY <1>10, <2>1, RetireCurrentType DEF Restart
  <2>4. QED
    BY <1>10, <2>2, <2>3 DEF Restart
<1>11. QED
  BY <1>1, <1>2, <1>3, <1>4, <1>5, <1>6, <1>7, <1>8, <1>9, <1>10 DEF Control

LEMMA AutoCheckpointType ==
    ASSUME TypeOK, NEW o \in Slot, Alive(o), NEW u \in 0..MaxUsed,
           NEW c \in {"idle", "admitted", "running"}, AutoCheckpoint(o, u, c)
    PROVE  cp' \in [Session -> Checkpoints] /\ sv' \in [Slot -> Supervisors]
<1>1. sv[o].sid \in Session /\ cp[sv[o].sid].used \in 0..MaxUsed
  BY DEF TypeOK, Alive, Supervisors, Checkpoints
<1>2. Larger(cp[sv[o].sid].used, u) \in 0..MaxUsed
  BY <1>1, LargerType
<1>3. Writable(o) \in BOOLEAN /\ Fenced(o) \in BOOLEAN
  BY <1>1 DEF TypeOK, Supervisors, Writable, Fenced, SameGeneration, Exists
<1>4. cp' \in [Session -> Checkpoints]
  BY <1>1, <1>2 DEF AutoCheckpoint, TypeOK, Checkpoints
<1>5. sv' \in [Slot -> Supervisors]
  <2>1. (sv[o].paused \/ Fenced(o)) \in BOOLEAN
    BY <1>3
  <2>2. [sv[o] EXCEPT !.used = u, !.call = c, !.paused = sv[o].paused \/ Fenced(o),
                      !.store = Writable(o)] \in Supervisors
    BY <1>3, <2>1, RecordTypes DEF TypeOK
  <2>3. QED
    BY <2>2 DEF AutoCheckpoint, TypeOK
<1>6. QED
  BY <1>4, <1>5

\* Every step of a supervisor keeps the types.
LEMMA SuperviseType ==
    ASSUME TypeOK, \A p \in Slot : ~Alive(p) => sv[p] = NoSupervisor,
           NEW o \in Slot, Supervise(o)
    PROVE  TypeOK'
<1> USE DEF TypeOK
<1>0. sv[o].call # "idle" => Alive(o)
  BY DEF NoSupervisor
<1>1. CASE RefuseCall(o)
  <2>1. (SameGeneration(o) /\ cp[sv[o].sid].status = "paused") \in BOOLEAN
    BY DEF SameGeneration, Exists
  <2>2. sv' \in [Slot -> Supervisors]
    BY <1>1, <2>1, RecordTypes DEF RefuseCall
  <2>3. QED
    BY <1>1, <2>2 DEF RefuseCall
<1>2. CASE BeginCall(o)
  BY <1>2, RecordTypes DEF BeginCall
<1>3. CASE RefuseAfterPause(o)
  BY <1>3, RecordTypes DEF RefuseAfterPause
<1>4. CASE ExecuteTool(o)
  BY <1>4, RecordTypes DEF ExecuteTool
<1>5. CASE ToolFails(o)
  BY <1>5, RecordTypes DEF ToolFails
<1>6. ASSUME NEW u \in 0..MaxUsed, NEW c \in {"idle", "admitted", "running"}, Alive(o),
             AutoCheckpoint(o, u, c), UNCHANGED <<current, faults>>
      PROVE  TypeOK'
  BY <1>6, AutoCheckpointType
<1>7. ASSUME NEW u \in 0..MaxUsed, NEW c \in {"idle", "admitted", "running"},
             AutoCheckpointFails(o, u, c), UNCHANGED current
      PROVE  TypeOK'
  <2>1. [sv[o] EXCEPT !.used = u, !.call = c] \in Supervisors
    BY <1>7, RecordTypes
  <2>2. sv' \in [Slot -> Supervisors]
    BY <1>7, <2>1 DEF AutoCheckpointFails
  <2>3. QED
    BY <1>7, <2>2 DEF AutoCheckpointFails, Fault
<1>8. sv[o].used \in 0..MaxUsed /\ sv[o].call \in {"idle", "admitted", "running"}
  BY DEF Supervisors
<1>9. ASSUME NEW n \in 0..MaxUsed, ToolReturns(o, n) PROVE TypeOK'
  <2>1. sv[o].used + n \in 0..MaxUsed
    BY <1>8, <1>9 DEF ToolReturns
  <2>2. Alive(o)
    BY <1>0, <1>9 DEF ToolReturns
  <2>3. QED
    BY <1>6, <1>7, <1>9, <2>1, <2>2 DEF ToolReturns
<1>10. ASSUME NEW n \in 0..MaxUsed, ToolReturnsOverBudget(o, n) PROVE TypeOK'
  <2>1. sv[o].used + n \in 0..MaxUsed
    BY <1>8, <1>10 DEF ToolReturnsOverBudget
  <2>2. QED
    BY <1>10, <2>1, RecordTypes DEF ToolReturnsOverBudget
<1>11. ASSUME NEW n \in 0..MaxUsed, RecordUsage(o, n) PROVE TypeOK'
  <2>1. sv[o].used + n \in 0..MaxUsed
    BY <1>8, <1>11 DEF RecordUsage
  <2>2. QED
    BY <1>6, <1>7, <1>8, <1>11, <2>1 DEF RecordUsage
<1>12. QED
  BY <1>1, <1>2, <1>3, <1>4, <1>5, <1>9, <1>10, <1>11 DEF Supervise

\* The three actions that are neither a manager's nor a supervisor's.
LEMMA OtherType ==
    ASSUME TypeOK,
           \/ \E s \in Session : Delete(s)
           \/ \E o \in Slot : Discard(o)
           \/ \E m \in Manager : Crash(m)
    PROVE  TypeOK'
<1> USE DEF TypeOK
<1>0. NoSupervisor \in Supervisors
  BY DEF NoSupervisor, Supervisors
<1>1. ASSUME NEW s \in Session, Delete(s) PROVE TypeOK'
  BY <1>1 DEF Delete, Checkpoints, Status
<1>2. ASSUME NEW o \in Slot, Discard(o) PROVE TypeOK'
  BY <1>0, <1>2 DEF Discard
<1>3. ASSUME NEW m \in Manager, Crash(m) PROVE TypeOK'
  BY <1>0, <1>3 DEF Crash
<1>4. QED
  BY <1>1, <1>2, <1>3

-----------------------------------------------------------------------------
LEMMA InitSafe == Init => SafeInv
BY InitType DEF Init, SafeInv, Bookkeeping, StorelessIsPaused, UnpausedIsCurrent,
               Alive, NoSupervisor

\* No step takes a session back before its start.
StaysBorn == \A t \in Session : cp[t].status # "unborn" => cp'[t].status # "unborn"

\* Retiring the supervisor a manager holds, and perhaps dropping it.
LEMMA RetiringSafe ==
    ASSUME SafeInv, StaysBorn, NEW m \in Manager, NEW s \in Session,
           sv' = RetireCurrent(m, s),
           \/ current' = current
           \/ current' = [current EXCEPT ![m][s] = None]
    PROVE  (Bookkeeping /\ StorelessIsPaused /\ UnpausedIsCurrent)'
<1>1. TypeOK /\ Bookkeeping /\ StorelessIsPaused /\ UnpausedIsCurrent
  BY DEF SafeInv
<1>2. \A p \in Slot :
          /\ sv'[p].sid = sv[p].sid
          /\ sv'[p].mgr = sv[p].mgr
          /\ p # current[m][s] => sv'[p] = sv[p]
          /\ p = current[m][s] => sv'[p].paused = TRUE /\ sv'[p].store = FALSE
  BY <1>1, RetireCurrentFacts
<1>3. \A k \in Manager, t \in Session :
          \/ current'[k][t] = current[k][t]
          \/ k = m /\ t = s /\ current'[k][t] = None
  BY <1>1 DEF TypeOK
<1>4. current[m][s] # None => Alive(current[m][s])
  BY <1>1 DEF Bookkeeping, Alive
<1>5. StorelessIsPaused'
  BY <1>1, <1>2 DEF StorelessIsPaused
<1>6. UnpausedIsCurrent'
  <2> SUFFICES ASSUME NEW p \in Slot, ~sv'[p].paused
               PROVE  current'[sv'[p].mgr][sv'[p].sid] = p
    BY DEF UnpausedIsCurrent
  <2>1. p # current[m][s] /\ sv'[p] = sv[p]
    BY <1>2
  <2>2. current[sv[p].mgr][sv[p].sid] = p
    BY <1>1, <2>1 DEF UnpausedIsCurrent
  <2>3. sv[p].mgr \in Manager /\ sv[p].sid \in Session
    BY <1>1, <2>1 DEF Bookkeeping, NoSupervisor, Alive, TypeOK, Supervisors
  <2>4. QED
    BY <1>3, <2>1, <2>2, <2>3
<1>7. Bookkeeping'
  <2>1. \A p \in Slot : Alive(p)' => sv'[p].mgr \in Manager /\ cp'[sv'[p].sid].status # "unborn"
    BY <1>1, <1>2 DEF Bookkeeping, Alive, TypeOK, Supervisors, StaysBorn
  <2>2. \A p \in Slot : ~Alive(p)' => sv'[p] = NoSupervisor
    BY <1>1, <1>2, <1>4 DEF Bookkeeping, Alive
  <2>3. \A k \in Manager, t \in Session :
            current'[k][t] # None =>
                sv'[current'[k][t]].sid = t /\ sv'[current'[k][t]].mgr = k
    BY <1>1, <1>2, <1>3 DEF Bookkeeping, TypeOK
  <2>4. QED
    BY <2>1, <2>2, <2>3 DEF Bookkeeping
<1>8. QED
  BY <1>5, <1>6, <1>7

\* A manager installs a new supervisor of session t in place of the one it
\* holds for s.
Installs(m, s, t, o, g, u) ==
    /\ ~Alive(o)
    /\ sv' = [RetireCurrent(m, s) EXCEPT ![o] = NewSupervisor(m, t, g, u)]
    /\ current'[m][t] = o
    /\ \A k \in Manager, r \in Session :
          k # m \/ r \notin {s, t} => current'[k][r] = current[k][r]
    /\ t # s => current'[m][s] = None /\ current[m][t] = None
    /\ cp'[t].status # "unborn"

LEMMA InstallingSafe ==
    ASSUME SafeInv, StaysBorn, NEW m \in Manager, NEW s \in Session, NEW t \in Session,
           NEW o \in Slot, NEW g \in Nat, NEW u \in Nat, Installs(m, s, t, o, g, u)
    PROVE  (Bookkeeping /\ StorelessIsPaused /\ UnpausedIsCurrent)'
<1>1. TypeOK /\ Bookkeeping /\ StorelessIsPaused /\ UnpausedIsCurrent
  BY DEF SafeInv
<1>2. \A p \in Slot \ {o} :
          /\ sv'[p].sid = sv[p].sid
          /\ sv'[p].mgr = sv[p].mgr
          /\ p # current[m][s] => sv'[p] = sv[p]
          /\ p = current[m][s] => sv'[p].paused = TRUE /\ sv'[p].store = FALSE
  <2>1. \A p \in Slot \ {o} : sv'[p] = RetireCurrent(m, s)[p]
    BY <1>1, RetireCurrentType DEF Installs
  <2>2. \A p \in Slot :
           /\ RetireCurrent(m, s)[p].sid = sv[p].sid
           /\ RetireCurrent(m, s)[p].mgr = sv[p].mgr
           /\ p # current[m][s] => RetireCurrent(m, s)[p] = sv[p]
           /\ p = current[m][s] => /\ RetireCurrent(m, s)[p].paused = TRUE
                                   /\ RetireCurrent(m, s)[p].store = FALSE
    BY <1>1, RetireCurrentFacts
  <2>3. QED
    BY <2>1, <2>2
<1>3. sv'[o] = NewSupervisor(m, t, g, u)
  BY <1>1, RetireCurrentType DEF Installs
<1>4. sv'[o].sid = t /\ sv'[o].mgr = m /\ sv'[o].store = TRUE /\ sv'[o].paused = FALSE
  BY <1>3 DEF NewSupervisor
<1>5. \A k \in Manager, r \in Session : current[k][r] # None => Alive(current[k][r])
  BY <1>1 DEF Bookkeeping, Alive
<1>6. t # None /\ \A p \in Slot : p # None
  OBVIOUS
<1>7. StorelessIsPaused'
  BY <1>1, <1>2, <1>4 DEF StorelessIsPaused
<1> USE DEF Installs
<1>8. UnpausedIsCurrent'
  <2> SUFFICES ASSUME NEW p \in Slot, ~sv'[p].paused, p # o
               PROVE  current'[sv'[p].mgr][sv'[p].sid] = p
    BY <1>4 DEF UnpausedIsCurrent
  <2>1. p # current[m][s] /\ sv'[p] = sv[p]
    BY <1>2
  <2>2. current[sv[p].mgr][sv[p].sid] = p
    BY <1>1, <2>1 DEF UnpausedIsCurrent
  <2>3. sv[p].mgr \in Manager /\ sv[p].sid \in Session
    BY <1>1, <2>1 DEF Bookkeeping, NoSupervisor, Alive, TypeOK, Supervisors
  <2>4. ~(sv[p].mgr = m /\ sv[p].sid \in {s, t})
    BY <1>6, <2>1, <2>2
  <2>5. QED
    BY <2>1, <2>2, <2>3, <2>4
<1>9. Bookkeeping'
  <2>1. \A p \in Slot : Alive(p)' => sv'[p].mgr \in Manager /\ cp'[sv'[p].sid].status # "unborn"
    <3>1. ASSUME NEW p \in Slot \ {o}, Alive(p)'
          PROVE  sv'[p].mgr \in Manager /\ cp'[sv'[p].sid].status # "unborn"
      BY <1>1, <1>2, <3>1 DEF Bookkeeping, Alive, TypeOK, Supervisors, StaysBorn
    <3>2. QED
      BY <1>4, <3>1
  <2>2. \A p \in Slot : ~Alive(p)' => sv'[p] = NoSupervisor
    BY <1>1, <1>2, <1>4, <1>5, <1>6 DEF Bookkeeping, Alive
  <2>3. ASSUME NEW k \in Manager, NEW r \in Session, current'[k][r] # None
        PROVE  sv'[current'[k][r]].sid = r /\ sv'[current'[k][r]].mgr = k
    <3>1. CASE k = m /\ r = t
      BY <1>4, <3>1
    <3>2. CASE ~(k = m /\ r = t)
      <4>1. current'[k][r] = current[k][r] /\ current[k][r] \in Slot
        BY <1>1, <2>3, <3>2 DEF TypeOK
      <4>2. QED
        BY <1>1, <1>2, <1>5, <2>3, <4>1 DEF Bookkeeping
    <3>3. QED
      BY <3>1, <3>2
  <2>4. QED
    BY <2>1, <2>2, <2>3 DEF Bookkeeping
<1>10. QED
  BY <1>7, <1>8, <1>9

LEMMA ControlSafe ==
    ASSUME SafeInv, NEW m \in Manager, NEW s \in Session, Control(m, s)
    PROVE  (Bookkeeping /\ StorelessIsPaused /\ UnpausedIsCurrent)'
<1>0. TypeOK /\ Bookkeeping /\ StorelessIsPaused /\ UnpausedIsCurrent
  BY DEF SafeInv
<1>1. CASE Pause(m, s)
  BY <1>0, <1>1 DEF Pause, PauseCurrent, Checkpoints, Supervisors, TypeOK, Bookkeeping, StorelessIsPaused, UnpausedIsCurrent,
     Alive
<1>2. CASE PauseCommitFails(m, s)
  BY <1>0, <1>2 DEF PauseCommitFails, PauseCurrent, Checkpoints, Supervisors, TypeOK, Bookkeeping, StorelessIsPaused, UnpausedIsCurrent,
     Alive
<1>3. CASE RejectResume(m, s)
  BY <1>0, <1>3 DEF RejectResume, Checkpoints, TypeOK, Bookkeeping, StorelessIsPaused, UnpausedIsCurrent,
     Alive
<1>4. CASE ResumeSaveFails(m, s)
  BY <1>4, RetiringSafe DEF ResumeSaveFails, StaysBorn
<1>5. CASE Stop(m, s)
  <2>1. StaysBorn
    BY <1>0, <1>5 DEF Stop, StaysBorn, Checkpoints, TypeOK
  <2>2. QED
    BY <1>5, <2>1, RetiringSafe DEF Stop
<1>6. CASE StopFails(m, s)
  BY <1>6, RetiringSafe DEF StopFails, StaysBorn
<1>7. ASSUME NEW o \in Slot, Start(m, s, o)
      PROVE  (Bookkeeping /\ StorelessIsPaused /\ UnpausedIsCurrent)'
  BY <1>0, <1>7 DEF Start, NewCheckpoint, NewSupervisor, Checkpoints, Supervisors, TypeOK, Bookkeeping, StorelessIsPaused, UnpausedIsCurrent,
     Alive
<1>8. ASSUME NEW o \in Slot, Resume(m, s, o)
      PROVE  (Bookkeeping /\ StorelessIsPaused /\ UnpausedIsCurrent)'
  <2>1. StaysBorn /\ cp'[s].status # "unborn"
    BY <1>0, <1>8 DEF Resume, StaysBorn, Checkpoints, TypeOK
  <2>2. cp[s].gen + 1 \in Nat /\ MergedUsage(m, s) \in Nat
    BY <1>0, MergedUsageType DEF Checkpoints, TypeOK
  <2>3. /\ ~Alive(o)
        /\ sv' = [RetireCurrent(m, s) EXCEPT
                     ![o] = NewSupervisor(m, s, cp[s].gen + 1, MergedUsage(m, s))]
        /\ current' = [current EXCEPT ![m][s] = o]
    BY <1>8 DEF Resume, InstallResumed
  <2>4. /\ current'[m][s] = o
        /\ \A k \in Manager, r \in Session :
               k # m \/ r \notin {s, s} => current'[k][r] = current[k][r]
    BY <1>0, <2>3 DEF TypeOK
  <2>5. Installs(m, s, s, o, cp[s].gen + 1, MergedUsage(m, s))
    BY <2>1, <2>3, <2>4 DEF Installs
  <2>6. QED
    BY <2>1, <2>2, <2>5, InstallingSafe
<1>9. ASSUME NEW o \in Slot, ResumeCommitFails(m, s, o)
      PROVE  (Bookkeeping /\ StorelessIsPaused /\ UnpausedIsCurrent)'
  <2>1. StaysBorn /\ cp'[s].status # "unborn"
    BY <1>9 DEF ResumeCommitFails, StaysBorn, Exists
  <2>2. cp[s].gen + 1 \in Nat /\ MergedUsage(m, s) \in Nat
    BY <1>0, MergedUsageType DEF Checkpoints, TypeOK
  <2>3. /\ ~Alive(o)
        /\ sv' = [RetireCurrent(m, s) EXCEPT
                     ![o] = NewSupervisor(m, s, cp[s].gen + 1, MergedUsage(m, s))]
        /\ current' = [current EXCEPT ![m][s] = o]
    BY <1>9 DEF ResumeCommitFails, InstallResumed
  <2>4. /\ current'[m][s] = o
        /\ \A k \in Manager, r \in Session :
               k # m \/ r \notin {s, s} => current'[k][r] = current[k][r]
    BY <1>0, <2>3 DEF TypeOK
  <2>5. Installs(m, s, s, o, cp[s].gen + 1, MergedUsage(m, s))
    BY <2>1, <2>3, <2>4 DEF Installs
  <2>6. QED
    BY <2>1, <2>2, <2>5, InstallingSafe
<1>10. ASSUME NEW o \in Slot, NEW t \in Session, Restart(m, s, t, o)
      PROVE  (Bookkeeping /\ StorelessIsPaused /\ UnpausedIsCurrent)'
  <2>1. StaysBorn /\ cp'[t].status # "unborn"
    BY <1>0, <1>10 DEF Restart, NewCheckpoint, StaysBorn, Checkpoints, TypeOK
  <2>2. t # s /\ current[m][t] = None
    BY <1>0, <1>10 DEF Restart, Exists, Bookkeeping, TypeOK, Alive
  <2>3. current' = [current EXCEPT ![m][s] = None, ![m][t] = o]
    BY <1>10 DEF Restart
  <2>4. /\ current'[m][t] = o /\ current'[m][s] = None
        /\ \A k \in Manager, r \in Session :
               k # m \/ r \notin {s, t} => current'[k][r] = current[k][r]
    BY <1>0, <2>2, <2>3 DEF TypeOK
  <2>5. ~Alive(o) /\ sv' = [RetireCurrent(m, s) EXCEPT ![o] = NewSupervisor(m, t, 0, 0)]
    BY <1>10 DEF Restart
  <2>6. Installs(m, s, t, o, 0, 0)
    BY <2>1, <2>2, <2>4, <2>5 DEF Installs
  <2>7. QED
    BY <2>1, <2>6, InstallingSafe
<1>11. QED
  BY <1>1, <1>2, <1>3, <1>4, <1>5, <1>6, <1>7, <1>8, <1>9, <1>10 DEF Control

\* The effect of any step of a supervisor: it stays who it is, nobody else
\* changes, it can only lose its store and its permission to work, and the
\* stored record changes in its usage alone.
SupervisorStep(o) ==
    /\ Alive(o)
    /\ current' = current
    /\ \A p \in Slot : p # o => sv'[p] = sv[p]
    /\ sv'[o].sid = sv[o].sid /\ sv'[o].mgr = sv[o].mgr /\ sv'[o].gen = sv[o].gen
    /\ ~sv'[o].paused => ~sv[o].paused
    /\ sv'[o].store => sv[o].store
    /\ ~sv'[o].store => sv'[o].paused
    /\ \A s \in Session : /\ cp'[s].status = cp[s].status
                           /\ cp'[s].gen = cp[s].gen
                           /\ cp'[s].used >= cp[s].used
    /\ \A s \in Session : cp'[s].used # cp[s].used => s = sv[o].sid /\ Writable(o)

LEMMA AutoCheckpointStep ==
    ASSUME SafeInv, NEW o \in Slot, Alive(o), NEW u \in 0..MaxUsed,
           NEW c \in {"idle", "admitted", "running"}, AutoCheckpoint(o, u, c),
           current' = current
    PROVE  SupervisorStep(o)
<1>1. TypeOK /\ StorelessIsPaused
  BY DEF SafeInv
<1>2. sv[o] \in Supervisors /\ sv[o].sid \in Session
  BY <1>1 DEF TypeOK, Alive, Supervisors
<1>3. sv'[o] = [sv[o] EXCEPT !.used = u, !.call = c,
                    !.paused = sv[o].paused \/ Fenced(o), !.store = Writable(o)]
  BY <1>1 DEF AutoCheckpoint, TypeOK
<1>4. /\ sv'[o].sid = sv[o].sid /\ sv'[o].mgr = sv[o].mgr /\ sv'[o].gen = sv[o].gen
      /\ sv'[o].paused = (sv[o].paused \/ Fenced(o))
      /\ sv'[o].store = Writable(o)
  BY <1>2, <1>3 DEF Supervisors
<1>5. \A p \in Slot : p # o => sv'[p] = sv[p]
  BY <1>1 DEF AutoCheckpoint, TypeOK
<1>6. Writable(o) => sv[o].store
  BY DEF Writable
<1>7. ~Writable(o) => sv[o].paused \/ Fenced(o)
  BY <1>1 DEF Writable, Fenced, StorelessIsPaused
<1>8. \A s \in Session : /\ cp'[s].status = cp[s].status
                         /\ cp'[s].gen = cp[s].gen
                         /\ cp'[s].used >= cp[s].used
                         /\ cp'[s].used # cp[s].used => s = sv[o].sid /\ Writable(o)
  <2>1. CASE Writable(o)
    BY <1>1, <1>2, <2>1 DEF AutoCheckpoint, TypeOK, Checkpoints, Larger
  <2>2. CASE ~Writable(o)
    BY <1>1, <2>2 DEF AutoCheckpoint, TypeOK, Checkpoints
  <2>3. QED
    BY <2>1, <2>2
<1>9. QED
  BY <1>4, <1>5, <1>6, <1>7, <1>8 DEF SupervisorStep

\* A step that changes only the supervisor's own record, and neither its
\* identity nor its store nor its pause.
LEMMA OwnRecordStep ==
    ASSUME SafeInv, NEW o \in Slot, Alive(o), cp' = cp, current' = current,
           NEW u, NEW c, sv' = [sv EXCEPT ![o] = [sv[o] EXCEPT !.used = u, !.call = c]]
    PROVE  SupervisorStep(o)
<1>1. TypeOK /\ StorelessIsPaused
  BY DEF SafeInv
<1>2. sv[o] \in Supervisors
  BY <1>1 DEF TypeOK
<1>3. sv'[o] = [sv[o] EXCEPT !.used = u, !.call = c]
  BY <1>1 DEF TypeOK
<1>4. /\ sv'[o].sid = sv[o].sid /\ sv'[o].mgr = sv[o].mgr /\ sv'[o].gen = sv[o].gen
      /\ sv'[o].paused = sv[o].paused /\ sv'[o].store = sv[o].store
  BY <1>2, <1>3 DEF Supervisors
<1>5. \A p \in Slot : p # o => sv'[p] = sv[p]
  BY <1>1 DEF TypeOK
<1>6. \A s \in Session : cp[s].used >= cp[s].used
  BY <1>1 DEF TypeOK, Checkpoints
<1>7. QED
  BY <1>1, <1>4, <1>5, <1>6 DEF SupervisorStep, StorelessIsPaused

LEMMA SuperviseStep ==
    ASSUME SafeInv, NEW o \in Slot, Supervise(o)
    PROVE  SupervisorStep(o)
<1>0. TypeOK /\ Bookkeeping /\ StorelessIsPaused
  BY DEF SafeInv
<1>1. sv[o] \in Supervisors
  BY <1>0 DEF TypeOK
<1>2. sv[o].call # "idle" => Alive(o)
  BY <1>0 DEF Bookkeeping, NoSupervisor
<1>3. ASSUME NEW c \in {"idle", "admitted", "running"}, Alive(o),
             sv' = [sv EXCEPT ![o].call = c], UNCHANGED <<cp, current>>
      PROVE  SupervisorStep(o)
  <2>1. [sv[o] EXCEPT !.call = c] = [sv[o] EXCEPT !.used = sv[o].used, !.call = c]
    BY <1>1 DEF Supervisors
  <2>2. QED
    BY <1>3, <2>1, OwnRecordStep
<1>4. CASE RefuseCall(o)
  <2>1. SameGeneration(o) \in BOOLEAN /\ sv[o].store = TRUE
    BY <1>1, <1>4 DEF RefuseCall, Fenced, SameGeneration, Exists, Supervisors
  <2>2. DEFINE keep == SameGeneration(o) /\ cp[sv[o].sid].status = "paused"
  <2>3. sv'[o] = [sv[o] EXCEPT !.paused = TRUE, !.store = keep]
    BY <1>0, <1>4 DEF RefuseCall, TypeOK
  <2>4. /\ sv'[o].sid = sv[o].sid /\ sv'[o].mgr = sv[o].mgr /\ sv'[o].gen = sv[o].gen
        /\ sv'[o].paused = TRUE
    BY <1>1, <2>3 DEF Supervisors
  <2>5. \A p \in Slot : p # o => sv'[p] = sv[p]
    BY <1>0, <1>4 DEF RefuseCall, TypeOK
  <2>6. cp' = cp /\ current' = current /\ \A s \in Session : cp[s].used >= cp[s].used
    BY <1>0, <1>4 DEF RefuseCall, TypeOK, Checkpoints
  <2>7. QED
    BY <1>4, <2>1, <2>4, <2>5, <2>6 DEF SupervisorStep, RefuseCall
<1>5. CASE BeginCall(o)
  BY <1>3, <1>5 DEF BeginCall
<1>6. CASE RefuseAfterPause(o)
  BY <1>2, <1>3, <1>6 DEF RefuseAfterPause
<1>7. CASE ExecuteTool(o)
  BY <1>2, <1>3, <1>7 DEF ExecuteTool
<1>8. CASE ToolFails(o)
  BY <1>2, <1>3, <1>8 DEF ToolFails
<1>9. sv[o].used \in 0..MaxUsed /\ sv[o].call \in {"idle", "admitted", "running"}
  BY <1>1 DEF Supervisors
<1>10. ASSUME NEW n \in 0..MaxUsed, ToolReturns(o, n) PROVE SupervisorStep(o)
  <2>1. sv[o].used + n \in 0..MaxUsed /\ Alive(o) /\ current' = current
    BY <1>2, <1>9, <1>10 DEF ToolReturns
  <2>2. CASE AutoCheckpoint(o, sv[o].used + n, "idle")
    BY <2>1, <2>2, AutoCheckpointStep
  <2>3. CASE AutoCheckpointFails(o, sv[o].used + n, "idle")
    BY <2>1, <2>3, OwnRecordStep DEF AutoCheckpointFails
  <2>4. QED
    BY <1>10, <2>2, <2>3 DEF ToolReturns
<1>11. ASSUME NEW n \in 0..MaxUsed, ToolReturnsOverBudget(o, n) PROVE SupervisorStep(o)
  <2>1. /\ Alive(o) /\ current' = current /\ cp' = cp
        /\ sv' = [sv EXCEPT ![o] = [sv[o] EXCEPT !.used = sv[o].used + n, !.call = "idle"]]
    BY <1>0, <1>2, <1>11 DEF ToolReturnsOverBudget, TypeOK
  <2>2. QED
    BY <2>1, OwnRecordStep
<1>12. ASSUME NEW n \in 0..MaxUsed, RecordUsage(o, n) PROVE SupervisorStep(o)
  <2>1. sv[o].used + n \in 0..MaxUsed /\ Alive(o) /\ current' = current
    BY <1>9, <1>12 DEF RecordUsage
  <2>2. CASE AutoCheckpoint(o, sv[o].used + n, sv[o].call)
    BY <1>9, <2>1, <2>2, AutoCheckpointStep
  <2>3. CASE AutoCheckpointFails(o, sv[o].used + n, sv[o].call)
    <3>1. cp' = cp /\ sv' = [sv EXCEPT ![o] = [sv[o] EXCEPT !.used = sv[o].used + n,
                                                            !.call = sv[o].call]]
      BY <1>0, <2>3 DEF AutoCheckpointFails, TypeOK
    <3>2. QED
      BY <2>1, <3>1, OwnRecordStep
  <2>4. QED
    BY <1>12, <2>2, <2>3 DEF RecordUsage
<1>13. QED
  BY <1>4, <1>5, <1>6, <1>7, <1>8, <1>10, <1>11, <1>12 DEF Supervise

LEMMA SupervisorStepSafe ==
    ASSUME SafeInv, NEW o \in Slot, SupervisorStep(o)
    PROVE  (Bookkeeping /\ StorelessIsPaused /\ UnpausedIsCurrent)'
<1>1. TypeOK /\ Bookkeeping /\ StorelessIsPaused /\ UnpausedIsCurrent
  BY DEF SafeInv
<1>2. \A p \in Slot : /\ sv'[p].sid = sv[p].sid /\ sv'[p].mgr = sv[p].mgr
                      /\ ~sv'[p].paused => ~sv[p].paused
                      /\ ~sv'[p].store => sv'[p].paused
                      /\ ~Alive(p) => sv'[p] = sv[p]
  BY <1>1 DEF SupervisorStep, StorelessIsPaused
<1>3. current' = current /\ \A s \in Session : cp'[s].status = cp[s].status
  BY DEF SupervisorStep
<1>4. StorelessIsPaused' /\ UnpausedIsCurrent'
  BY <1>1, <1>2, <1>3 DEF StorelessIsPaused, UnpausedIsCurrent
<1>5. \A p \in Slot : Alive(p)' <=> Alive(p)
  BY <1>2 DEF Alive
<1>6. \A p \in Slot : Alive(p) => sv[p].sid \in Session
  BY <1>1 DEF Alive, TypeOK, Supervisors
<1>7. \A m \in Manager, s \in Session : current[m][s] # None => current[m][s] \in Slot
  BY <1>1 DEF TypeOK
<1>8. Bookkeeping'
  BY <1>1, <1>2, <1>3, <1>5, <1>6, <1>7 DEF Bookkeeping
<1>9. QED
  BY <1>4, <1>8

\* A row that is deleted, memory that is freed or a process that dies.
LEMMA OtherSafe ==
    ASSUME SafeInv,
           \/ \E s \in Session : Delete(s)
           \/ \E o \in Slot : Discard(o)
           \/ \E m \in Manager : Crash(m)
    PROVE  (Bookkeeping /\ StorelessIsPaused /\ UnpausedIsCurrent)'
<1> USE DEF Bookkeeping, StorelessIsPaused, UnpausedIsCurrent, Alive, TypeOK
<1>0. TypeOK /\ Bookkeeping /\ StorelessIsPaused /\ UnpausedIsCurrent
  BY DEF SafeInv
<1>1. ASSUME NEW s \in Session, Delete(s)
      PROVE  (Bookkeeping /\ StorelessIsPaused /\ UnpausedIsCurrent)'
  BY <1>0, <1>1 DEF Delete, Checkpoints, Supervisors
<1>2. NoSupervisor.sid = None /\ NoSupervisor.paused = TRUE /\ NoSupervisor.store = FALSE
  BY DEF NoSupervisor
<1>3. ASSUME NEW o \in Slot, Discard(o)
      PROVE  (Bookkeeping /\ StorelessIsPaused /\ UnpausedIsCurrent)'
  BY <1>0, <1>2, <1>3 DEF Discard, Supervisors
<1>4. ASSUME NEW m \in Manager, Crash(m)
      PROVE  (Bookkeeping /\ StorelessIsPaused /\ UnpausedIsCurrent)'
  BY <1>0, <1>2, <1>4 DEF Crash, Supervisors
<1>5. QED
  BY <1>1, <1>3, <1>4

LEMMA SafeInvStep == SafeInv /\ [Next]_vars => SafeInv'
<1> SUFFICES ASSUME SafeInv, [Next]_vars PROVE SafeInv'
  OBVIOUS
<1>0. TypeOK /\ Bookkeeping /\ StorelessIsPaused /\ UnpausedIsCurrent
  BY DEF SafeInv
<1>1. ASSUME NEW m \in Manager, NEW s \in Session, Control(m, s) PROVE SafeInv'
  BY <1>0, <1>1, ControlType, ControlSafe DEF SafeInv
<1>2. ASSUME NEW o \in Slot, Supervise(o) PROVE SafeInv'
  <2>1. TypeOK'
    BY <1>0, <1>2, SuperviseType DEF Bookkeeping
  <2>2. QED
    BY <1>2, <2>1, SuperviseStep, SupervisorStepSafe DEF SafeInv
<1>3. CASE \/ \E s \in Session : Delete(s)
           \/ \E o \in Slot : Discard(o)
           \/ \E m \in Manager : Crash(m)
  BY <1>0, <1>3, OtherType, OtherSafe DEF SafeInv
<1>4. CASE UNCHANGED vars
  BY <1>4 DEF vars, SafeInv, TypeOK, Bookkeeping, StorelessIsPaused, UnpausedIsCurrent, Alive
<1>5. QED
  BY <1>1, <1>2, <1>3, <1>4 DEF Next

\* However often the store fails and whichever processes crash: a supervisor
\* without its store never works again, and one that may work is the one its
\* manager holds.
THEOREM Safety == Spec => []SafeInv
<1>1. QED
  BY InitSafe, SafeInvStep, PTL DEF Spec

\* A supervisor that lost its store is paused for good.
THEOREM StorelessSupervisorsAreFenced == Spec => []StorelessIsPaused
<1>1. SafeInv => StorelessIsPaused
  BY DEF SafeInv
<1>2. QED
  BY Safety, <1>1, PTL

\* A replaced, stopped or restarted supervisor is paused.
THEOREM ReplacedSupervisorsArePaused == Spec => []UnpausedIsCurrent
<1>1. SafeInv => UnpausedIsCurrent
  BY DEF SafeInv
<1>2. QED
  BY Safety, <1>1, PTL

\* Type correctness; in particular resume_count never passes max_resumes.
THEOREM TypeCorrect == Spec => []TypeOK
<1>1. SafeInv => TypeOK
  BY DEF SafeInv
<1>2. QED
  BY Safety, <1>1, PTL

-----------------------------------------------------------------------------
(***************************************************************************)
(* The fencing of generations, when no store operation fails.              *)
(***************************************************************************)

\* The types the arithmetic below needs, at one supervisor and its session.
LEMMA NumberTypes ==
    ASSUME TypeOK
    PROVE  /\ \A s \in Session : cp[s].gen \in Nat /\ cp[s].used \in Nat
           /\ \A p \in Slot : sv[p].gen \in Nat /\ sv[p].used \in Nat
           /\ \A p \in Slot : Alive(p) => sv[p].sid \in Session
           /\ \A p \in Slot : sv[p].store \in BOOLEAN
           /\ MaxUsed \in Nat /\ Budget \in Nat
BY DEF TypeOK, Checkpoints, Supervisors, Alive

\* The merged usage covers the record and is covered by the stored owner.
LEMMA MergedUsageFacts ==
    ASSUME SafeInv, FencingInv, NEW m \in Manager, NEW s \in Session
    PROVE  /\ MergedUsage(m, s) >= cp[s].used
           /\ \A p \in Slot : Alive(p) /\ sv[p].sid = s /\ sv[p].gen = cp[s].gen
                                  => sv[p].used >= MergedUsage(m, s)
<1>1. TypeOK /\ Bookkeeping /\ OneOwnerPerGeneration /\ OwnerSeesAllUsage
  BY DEF SafeInv, FencingInv
<1>2. cp[s].used \in Nat /\ \A p \in Slot : sv[p].used \in Nat
  BY <1>1, NumberTypes
<1>3. CASE current[m][s] # None /\ sv[current[m][s]].gen = cp[s].gen
  <2> DEFINE q == current[m][s]
  <2>1. q \in Slot /\ sv[q].sid = s /\ Alive(q)
    BY <1>1, <1>3 DEF TypeOK, Bookkeeping, Alive
  <2>2. sv[q].used >= cp[s].used
    BY <1>1, <1>3, <2>1 DEF OwnerSeesAllUsage
  <2>3. MergedUsage(m, s) = sv[q].used
    BY <1>2, <1>3, <2>1, <2>2 DEF MergedUsage, Larger
  <2>4. \A p \in Slot : Alive(p) /\ sv[p].sid = s /\ sv[p].gen = cp[s].gen => p = q
    BY <1>1, <1>3, <2>1 DEF OneOwnerPerGeneration
  <2>5. QED
    BY <1>2, <2>1, <2>2, <2>3, <2>4
<1>4. CASE ~(current[m][s] # None /\ sv[current[m][s]].gen = cp[s].gen)
  <2>1. MergedUsage(m, s) = cp[s].used
    BY <1>4 DEF MergedUsage
  <2>2. QED
    BY <1>1, <1>2, <2>1 DEF OwnerSeesAllUsage
<1>5. QED
  BY <1>3, <1>4

\* A step that creates no supervisor and grants no generation.
NoGrant ==
    /\ \A p \in Slot : Alive(p)' => /\ Alive(p)
                                    /\ sv'[p].sid = sv[p].sid
                                    /\ sv'[p].gen = sv[p].gen
    /\ \A s \in Session : cp'[s].gen = cp[s].gen

LEMMA NoGrantKeeps ==
    ASSUME SafeInv, FencingInv, NoGrant
    PROVE  GenerationIsGranted' /\ OneOwnerPerGeneration'
<1>1. TypeOK /\ GenerationIsGranted /\ OneOwnerPerGeneration
  BY DEF SafeInv, FencingInv
<1>2. \A p \in Slot : Alive(p) => sv[p].sid \in Session
  BY <1>1, NumberTypes
<1>3. GenerationIsGranted'
  BY <1>1, <1>2 DEF GenerationIsGranted, NoGrant
<1>4. ASSUME NEW o \in Slot, NEW p \in Slot,
             Alive(o)', sv'[o].sid = sv'[p].sid, sv'[o].gen = sv'[p].gen
      PROVE  o = p
  <2>1. Alive(p)'
    BY <1>4 DEF Alive
  <2>2. QED
    BY <1>1, <1>4, <2>1 DEF OneOwnerPerGeneration, NoGrant
<1>5. QED
  BY <1>3, <1>4 DEF OneOwnerPerGeneration

\* Such a step that charges nothing: what the store gains, owners have.
NoCharge ==
    /\ NoGrant
    /\ \A p \in Slot : Alive(p)' => sv'[p].used = sv[p].used
    /\ \A p \in Slot : sv'[p].store => Alive(p)' /\ sv[p].store
    /\ \A s \in Session :
          /\ cp'[s].used >= cp[s].used
          /\ \A p \in Slot : Alive(p) /\ sv[p].sid = s /\ sv[p].gen = cp[s].gen
                                => sv[p].used >= cp'[s].used

LEMMA NoChargeKeeps ==
    ASSUME SafeInv, FencingInv, TypeOK', NoCharge
    PROVE  FencingInv'
<1>1. TypeOK /\ ChargedWithinBudgetIsDurable /\ OwnerSeesAllUsage
  BY DEF SafeInv, FencingInv
<1>2. /\ \A s \in Session : cp[s].used \in Nat /\ cp'[s].used \in Nat
      /\ \A p \in Slot : sv[p].used \in Nat
      /\ \A p \in Slot : Alive(p) => sv[p].sid \in Session
  BY <1>1, NumberTypes DEF TypeOK, Checkpoints
<1>3. GenerationIsGranted' /\ OneOwnerPerGeneration'
  BY NoGrantKeeps DEF NoCharge
<1>4. ASSUME NEW p \in Slot, sv'[p].store, sv'[p].used <= Budget
      PROVE  sv'[p].used <= cp'[sv'[p].sid].used
  <2>1. Alive(p) /\ sv[p].store /\ sv'[p].used = sv[p].used /\ sv'[p].sid = sv[p].sid
    BY <1>4 DEF NoCharge, NoGrant
  <2>2. sv[p].used <= cp[sv[p].sid].used
    BY <1>1, <1>4, <2>1 DEF ChargedWithinBudgetIsDurable
  <2>3. cp'[sv[p].sid].used >= cp[sv[p].sid].used
    BY <1>2, <2>1 DEF NoCharge
  <2>4. QED
    BY <1>2, <2>1, <2>2, <2>3
<1>5. ASSUME NEW p \in Slot, Alive(p)', sv'[p].gen = cp'[sv'[p].sid].gen
      PROVE  sv'[p].used >= cp'[sv'[p].sid].used
  <2>1. /\ Alive(p) /\ sv'[p].used = sv[p].used
        /\ sv'[p].sid = sv[p].sid /\ sv'[p].gen = sv[p].gen
    BY <1>5 DEF NoCharge, NoGrant
  <2>2. cp'[sv[p].sid].gen = cp[sv[p].sid].gen
    BY <1>2, <2>1 DEF NoCharge, NoGrant
  <2>3. QED
    BY <1>2, <1>5, <2>1, <2>2 DEF NoCharge
<1>6. QED
  BY <1>3, <1>4, <1>5 DEF FencingInv, ChargedWithinBudgetIsDurable, OwnerSeesAllUsage

\* A step that makes o the first owner of the generation that session t now has.
Grants(t, o) ==
    /\ sv'[o].sid = t /\ sv'[o].gen = cp'[t].gen /\ sv'[o].used = cp'[t].used
    /\ \A p \in Slot \ {o} : sv[p].sid = t => cp'[t].used >= cp[t].used
    /\ \A s \in Session \ {t} : cp'[s].gen = cp[s].gen /\ cp'[s].used = cp[s].used
    /\ \A p \in Slot \ {o} : /\ sv'[p].sid = sv[p].sid
                             /\ sv'[p].gen = sv[p].gen
                             /\ sv'[p].used = sv[p].used
                             /\ sv'[p].store => sv[p].store
                             /\ sv[p].sid = t => sv[p].gen < cp'[t].gen

LEMMA GrantKeeps ==
    ASSUME SafeInv, FencingInv, TypeOK', NEW t \in Session, NEW o \in Slot, Grants(t, o)
    PROVE  FencingInv'
<1>1. /\ TypeOK /\ Bookkeeping /\ GenerationIsGranted /\ OneOwnerPerGeneration
      /\ ChargedWithinBudgetIsDurable /\ OwnerSeesAllUsage
  BY DEF SafeInv, FencingInv
<1>2. /\ \A s \in Session : /\ cp[s].used \in Nat /\ cp'[s].used \in Nat
                            /\ cp[s].gen \in Nat /\ cp'[s].gen \in Nat
      /\ \A p \in Slot : sv[p].used \in Nat /\ sv[p].gen \in Nat
      /\ \A p \in Slot : Alive(p) => sv[p].sid \in Session
  BY <1>1, NumberTypes DEF TypeOK, Checkpoints
<1>3. \A p \in Slot \ {o} : Alive(p)' <=> Alive(p)
  BY DEF Alive, Grants
<1>4. \A p \in Slot \ {o} : Alive(p) => /\ sv[p].gen <= cp'[sv[p].sid].gen
                                       /\ cp[sv[p].sid].used <= cp'[sv[p].sid].used
  BY <1>1, <1>2 DEF Grants, GenerationIsGranted
<1>5. \A p \in Slot \ {o} : sv[p].store => Alive(p)
  BY <1>1 DEF Bookkeeping, NoSupervisor
<1>6. GenerationIsGranted'
  <2>1. ASSUME NEW p \in Slot, Alive(p)' PROVE sv'[p].gen <= cp'[sv'[p].sid].gen
    <3>1. CASE p = o
      BY <1>2, <3>1 DEF Grants
    <3>2. CASE p # o
      BY <1>3, <1>4, <2>1, <3>2 DEF Grants
    <3>3. QED
      BY <3>1, <3>2
  <2>2. QED
    BY <2>1 DEF GenerationIsGranted
<1>7. OneOwnerPerGeneration'
  <2>1. ASSUME NEW p \in Slot, NEW q \in Slot, p # q,
               Alive(p)', sv'[p].sid = sv'[q].sid, sv'[p].gen = sv'[q].gen
        PROVE  FALSE
    <3>1. CASE p = o
      BY <1>2, <2>1, <3>1 DEF Grants
    <3>2. CASE q = o
      BY <1>2, <2>1, <3>2 DEF Grants
    <3>3. CASE p # o /\ q # o
      BY <1>1, <1>3, <2>1, <3>3 DEF Grants, OneOwnerPerGeneration
    <3>4. QED
      BY <3>1, <3>2, <3>3
  <2>2. QED
    BY <2>1 DEF OneOwnerPerGeneration
<1>8. ChargedWithinBudgetIsDurable'
  <2>1. ASSUME NEW p \in Slot, sv'[p].store, sv'[p].used <= Budget
        PROVE  sv'[p].used <= cp'[sv'[p].sid].used
    <3>1. CASE p = o
      BY <1>2, <3>1 DEF Grants
    <3>2. CASE p # o
      <4>1. /\ sv[p].store /\ sv'[p].used = sv[p].used /\ sv'[p].sid = sv[p].sid
            /\ sv[p].sid \in Session
        BY <1>2, <1>5, <2>1, <3>2 DEF Grants
      <4>2. sv[p].used <= cp[sv[p].sid].used
        BY <1>1, <2>1, <4>1 DEF ChargedWithinBudgetIsDurable
      <4>3. QED
        BY <1>2, <1>4, <1>5, <3>2, <4>1, <4>2
    <3>3. QED
      BY <3>1, <3>2
  <2>2. QED
    BY <2>1 DEF ChargedWithinBudgetIsDurable
<1>9. OwnerSeesAllUsage'
  <2>1. ASSUME NEW p \in Slot, Alive(p)', sv'[p].gen = cp'[sv'[p].sid].gen
        PROVE  sv'[p].used >= cp'[sv'[p].sid].used
    <3>1. CASE p = o
      BY <1>2, <3>1 DEF Grants
    <3>2. CASE p # o
      <4>1. Alive(p) /\ sv[p].sid \in Session /\ sv[p].sid # t
        BY <1>2, <1>3, <2>1, <3>2 DEF Grants
      <4>2. QED
        BY <1>1, <2>1, <3>2, <4>1 DEF Grants, OwnerSeesAllUsage
    <3>3. QED
      BY <3>1, <3>2
  <2>2. QED
    BY <2>1 DEF OwnerSeesAllUsage
<1>10. QED
  BY <1>6, <1>7, <1>8, <1>9 DEF FencingInv

\* Retiring a manager's supervisor changes no counter and gives no store back.
LEMMA RetiringCharges ==
    ASSUME SafeInv, NEW m \in Manager, NEW s \in Session,
           sv' = RetireCurrent(m, s) \/ sv' = PauseCurrent(m, s)
    PROVE  \A p \in Slot : /\ sv'[p].sid = sv[p].sid /\ sv'[p].gen = sv[p].gen
                           /\ sv'[p].used = sv[p].used
                           /\ sv'[p].store => sv[p].store
<1>1. TypeOK
  BY DEF SafeInv
<1>2. CASE sv' = RetireCurrent(m, s)
  <2>1. \A p \in Slot : p # current[m][s] => sv'[p] = sv[p]
    BY <1>1, <1>2, RetireCurrentFacts
  <2>2. \A p \in Slot : p = current[m][s] => sv'[p].store = FALSE
    BY <1>1, <1>2, RetireCurrentFacts
  <2>3. QED
    BY <1>1, <1>2, <2>1, <2>2, RetireCurrentFacts
<1>3. CASE sv' = PauseCurrent(m, s)
  BY <1>1, <1>3 DEF PauseCurrent, TypeOK, Supervisors
<1>4. QED
  BY <1>2, <1>3

\* The store a live supervisor holds belongs to a live supervisor.
LEMMA StoreIsAlive == SafeInv => \A p \in Slot : sv[p].store => Alive(p)
BY DEF SafeInv, Bookkeeping, NoSupervisor

\* What an installation does to the supervisors that were there.
LEMMA InstallingCharges ==
    ASSUME SafeInv, NEW m \in Manager, NEW s \in Session, NEW t \in Session,
           NEW o \in Slot, NEW g, NEW u,
           sv' = [RetireCurrent(m, s) EXCEPT ![o] = NewSupervisor(m, t, g, u)]
    PROVE  /\ sv'[o].sid = t /\ sv'[o].gen = g /\ sv'[o].used = u
           /\ \A p \in Slot \ {o} : /\ sv'[p].sid = sv[p].sid /\ sv'[p].gen = sv[p].gen
                                    /\ sv'[p].used = sv[p].used
                                    /\ sv'[p].store => sv[p].store
<1>1. TypeOK
  BY DEF SafeInv
<1>2. sv'[o] = NewSupervisor(m, t, g, u) /\ \A p \in Slot \ {o} : sv'[p] = RetireCurrent(m, s)[p]
  BY <1>1, RetireCurrentType
<1>3. \A p \in Slot : p # current[m][s] => RetireCurrent(m, s)[p] = sv[p]
  BY <1>1, RetireCurrentFacts
<1>4. \A p \in Slot : p = current[m][s] => RetireCurrent(m, s)[p].store = FALSE
  BY <1>1, RetireCurrentFacts
<1>5. \A p \in Slot : /\ RetireCurrent(m, s)[p].sid = sv[p].sid
                      /\ RetireCurrent(m, s)[p].gen = sv[p].gen
                      /\ RetireCurrent(m, s)[p].used = sv[p].used
  BY <1>1, RetireCurrentFacts
<1>6. sv'[o].sid = t /\ sv'[o].gen = g /\ sv'[o].used = u
  BY <1>2 DEF NewSupervisor
<1>7. QED
  BY <1>2, <1>3, <1>4, <1>5, <1>6

LEMMA NoFault == ASSUME TypeOK, MaxFaults = 0 PROVE ~Fault
BY DEF TypeOK, Fault

LEMMA ControlFences ==
    ASSUME MaxFaults = 0, SafeInv, FencingInv, TypeOK',
           NEW m \in Manager, NEW s \in Session, Control(m, s)
    PROVE  FencingInv'
<1>0. TypeOK /\ Bookkeeping /\ GenerationIsGranted /\ OwnerSeesAllUsage
  BY DEF SafeInv, FencingInv
<1> USE NumberTypes
<1>1. ASSUME sv' = RetireCurrent(m, s) \/ sv' = PauseCurrent(m, s) \/ sv' = sv,
             \A t \in Session : cp'[t].gen = cp[t].gen,
             \A t \in Session : cp'[t].used # cp[t].used
                                   => t = s /\ cp'[t].used = MergedUsage(m, s)
      PROVE  FencingInv'
  <2>1. \A p \in Slot : /\ sv'[p].sid = sv[p].sid /\ sv'[p].gen = sv[p].gen
                        /\ sv'[p].used = sv[p].used
                        /\ sv'[p].store => sv[p].store
    BY <1>1, RetiringCharges
  <2>2. \A p \in Slot : Alive(p)' <=> Alive(p)
    BY <2>1 DEF Alive
  <2>3. NoGrant
    BY <1>1, <2>1, <2>2 DEF NoGrant
  <2>4. \A t \in Session :
            /\ cp'[t].used >= cp[t].used
            /\ \A p \in Slot : Alive(p) /\ sv[p].sid = t /\ sv[p].gen = cp[t].gen
                                  => sv[p].used >= cp'[t].used
    BY <1>0, <1>1, MergedUsageFacts DEF OwnerSeesAllUsage
  <2>5. NoCharge
    BY <2>1, <2>2, <2>3, <2>4, StoreIsAlive DEF NoCharge
  <2>6. QED
    BY <2>5, NoChargeKeeps
<1>2. CASE Pause(m, s)
  BY <1>0, <1>1, <1>2 DEF Pause, TypeOK, Checkpoints
<1>3. CASE RejectResume(m, s)
  BY <1>0, <1>1, <1>3 DEF RejectResume, TypeOK, Checkpoints
<1>4. CASE Stop(m, s)
  <2>1. \A t \in Session : /\ cp'[t].gen = cp[t].gen
                           /\ t # s => cp'[t].used = cp[t].used
                           /\ t = s => cp'[t].used = MergedUsage(m, s)
    BY <1>0, <1>4 DEF Stop, TypeOK, Checkpoints
  <2>2. QED
    BY <1>1, <1>4, <2>1 DEF Stop
<1>5. CASE PauseCommitFails(m, s) \/ ResumeSaveFails(m, s) \/ StopFails(m, s)
  BY <1>0, <1>5, NoFault DEF PauseCommitFails, ResumeSaveFails, StopFails
<1>6. ASSUME NEW o \in Slot, ResumeCommitFails(m, s, o) PROVE FencingInv'
  BY <1>0, <1>6, NoFault DEF ResumeCommitFails
<1>7. ASSUME NEW t \in Session, cp[t].status = "unborn", NEW p \in Slot
      PROVE  sv[p].sid # t
  BY <1>0, <1>7 DEF Bookkeeping, Alive
<1>8. ASSUME NEW o \in Slot, Start(m, s, o) PROVE FencingInv'
  <2>1. /\ cp'[s].gen = 0 /\ cp'[s].used = 0
        /\ \A t \in Session \ {s} : cp'[t].gen = cp[t].gen /\ cp'[t].used = cp[t].used
    BY <1>0, <1>8 DEF Start, NewCheckpoint, TypeOK
  <2>2. sv'[o] = NewSupervisor(m, s, 0, 0) /\ \A p \in Slot \ {o} : sv'[p] = sv[p]
    BY <1>0, <1>8 DEF Start, TypeOK
  <2>3. sv'[o].sid = s /\ sv'[o].gen = 0 /\ sv'[o].used = 0
    BY <2>2 DEF NewSupervisor
  <2>4. \A p \in Slot : sv[p].sid # s
    BY <1>7, <1>8 DEF Start
  <2>5. Grants(s, o)
    BY <2>1, <2>2, <2>3, <2>4 DEF Grants
  <2>6. QED
    BY <2>5, GrantKeeps
<1>9. ASSUME NEW o \in Slot, Resume(m, s, o) PROVE FencingInv'
  <2>1. /\ cp'[s].gen = cp[s].gen + 1 /\ cp'[s].used = MergedUsage(m, s)
        /\ \A t \in Session \ {s} : cp'[t].gen = cp[t].gen /\ cp'[t].used = cp[t].used
    BY <1>0, <1>9 DEF Resume, TypeOK
  <2>2. /\ sv'[o].sid = s /\ sv'[o].gen = cp[s].gen + 1 /\ sv'[o].used = MergedUsage(m, s)
        /\ \A p \in Slot \ {o} : /\ sv'[p].sid = sv[p].sid /\ sv'[p].gen = sv[p].gen
                                 /\ sv'[p].used = sv[p].used
                                 /\ sv'[p].store => sv[p].store
    <3>1. sv' = [RetireCurrent(m, s) EXCEPT
                    ![o] = NewSupervisor(m, s, cp[s].gen + 1, MergedUsage(m, s))]
      BY <1>9 DEF Resume, InstallResumed
    <3> DEFINE g == cp[s].gen + 1
               u == MergedUsage(m, s)
    <3>2. sv' = [RetireCurrent(m, s) EXCEPT ![o] = NewSupervisor(m, s, g, u)]
      BY <3>1
    <3>3. HIDE DEF g, u
    <3>4. /\ sv'[o].sid = s /\ sv'[o].gen = g /\ sv'[o].used = u
          /\ \A p \in Slot \ {o} : /\ sv'[p].sid = sv[p].sid /\ sv'[p].gen = sv[p].gen
                                   /\ sv'[p].used = sv[p].used
                                   /\ sv'[p].store => sv[p].store
      BY <3>2, InstallingCharges
    <3>5. QED
      BY <3>4 DEF g, u
  <2>3. MergedUsage(m, s) >= cp[s].used
    BY MergedUsageFacts
  <2>4. \A p \in Slot : sv[p].sid = s => sv[p].gen < cp[s].gen + 1
    BY <1>0 DEF GenerationIsGranted, Alive
  <2>5. cp'[s].used >= cp[s].used
    BY <2>1, <2>3
  <2>6. Grants(s, o)
    BY <2>1, <2>2, <2>4, <2>5 DEF Grants
  <2>7. QED
    BY <2>6, GrantKeeps
<1>10. ASSUME NEW o \in Slot, NEW t \in Session, Restart(m, s, t, o) PROVE FencingInv'
  <2>1. /\ cp'[t].gen = 0 /\ cp'[t].used = 0
        /\ \A r \in Session \ {t} : cp'[r].gen = cp[r].gen /\ cp'[r].used = cp[r].used
    BY <1>0, <1>10 DEF Restart, NewCheckpoint, TypeOK
  <2>2. /\ sv'[o].sid = t /\ sv'[o].gen = 0 /\ sv'[o].used = 0
        /\ \A p \in Slot \ {o} : /\ sv'[p].sid = sv[p].sid /\ sv'[p].gen = sv[p].gen
                                 /\ sv'[p].used = sv[p].used
                                 /\ sv'[p].store => sv[p].store
    BY <1>10, InstallingCharges DEF Restart
  <2>3. \A p \in Slot : sv[p].sid # t
    BY <1>7, <1>10 DEF Restart
  <2>4. Grants(t, o)
    BY <2>1, <2>2, <2>3 DEF Grants
  <2>5. QED
    BY <2>4, GrantKeeps
<1>11. QED
  BY <1>2, <1>3, <1>4, <1>5, <1>6, <1>8, <1>9, <1>10 DEF Control

\* What a supervisor's step does to usage: its counter never goes back, the
\* record takes no more than the counter, and what it keeps the right to
\* store, within the budget, is stored.
Charges(o) ==
    /\ SupervisorStep(o)
    /\ sv'[o].used >= sv[o].used
    /\ cp'[sv[o].sid].used # cp[sv[o].sid].used => cp'[sv[o].sid].used <= sv'[o].used
    /\ sv'[o].store /\ sv'[o].used <= Budget => sv'[o].used <= cp'[sv[o].sid].used

LEMMA ChargesKeep ==
    ASSUME SafeInv, FencingInv, TypeOK', NEW o \in Slot, Charges(o)
    PROVE  FencingInv'
<1>1. TypeOK /\ OneOwnerPerGeneration /\ ChargedWithinBudgetIsDurable /\ OwnerSeesAllUsage
  BY DEF SafeInv, FencingInv
<1>2. /\ \A s \in Session : cp[s].used \in Nat /\ cp'[s].used \in Nat
      /\ \A p \in Slot : sv[p].used \in Nat /\ sv'[p].used \in Nat
      /\ \A p \in Slot : Alive(p) => sv[p].sid \in Session
  BY <1>1, NumberTypes DEF TypeOK, Checkpoints, Supervisors
<1>3. /\ Alive(o) /\ \A p \in Slot \ {o} : sv'[p] = sv[p]
      /\ sv'[o].sid = sv[o].sid /\ sv'[o].gen = sv[o].gen
      /\ \A s \in Session : cp'[s].gen = cp[s].gen /\ cp'[s].used >= cp[s].used
      /\ \A s \in Session : cp'[s].used # cp[s].used => s = sv[o].sid /\ Writable(o)
  BY DEF Charges, SupervisorStep
<1>4. \A p \in Slot : Alive(p)' <=> Alive(p)
  BY <1>3 DEF Alive
<1>5. GenerationIsGranted' /\ OneOwnerPerGeneration'
  <2>1. NoGrant
    BY <1>3, <1>4 DEF NoGrant
  <2>2. QED
    BY <2>1, NoGrantKeeps
<1>6. ASSUME NEW p \in Slot, sv'[p].store, sv'[p].used <= Budget
      PROVE  sv'[p].used <= cp'[sv'[p].sid].used
  <2>1. CASE p = o
    BY <1>3, <1>6, <2>1 DEF Charges
  <2>2. CASE p # o
    <3>1. sv'[p] = sv[p] /\ Alive(p)
      BY <1>3, <1>6, <2>2, StoreIsAlive
    <3>2. sv[p].used <= cp[sv[p].sid].used
      BY <1>1, <1>6, <3>1 DEF ChargedWithinBudgetIsDurable
    <3>3. QED
      BY <1>2, <1>3, <3>1, <3>2
  <2>3. QED
    BY <2>1, <2>2
<1>7. ASSUME NEW p \in Slot, Alive(p)', sv'[p].gen = cp'[sv'[p].sid].gen
      PROVE  sv'[p].used >= cp'[sv'[p].sid].used
  <2>1. /\ Alive(p) /\ sv[p].sid \in Session
        /\ sv'[p].sid = sv[p].sid /\ sv[p].gen = cp[sv[p].sid].gen
    BY <1>2, <1>3, <1>4, <1>7
  <2>2. sv[p].used >= cp[sv[p].sid].used
    BY <1>1, <2>1 DEF OwnerSeesAllUsage
  <2>3. CASE p = o
    <3>1. CASE cp'[sv[o].sid].used = cp[sv[o].sid].used
      BY <1>2, <2>1, <2>2, <2>3, <3>1 DEF Charges
    <3>2. CASE cp'[sv[o].sid].used # cp[sv[o].sid].used
      BY <1>2, <2>1, <2>3, <3>2 DEF Charges
    <3>3. QED
      BY <3>1, <3>2
  <2>4. CASE p # o
    <3>1. CASE cp'[sv[p].sid].used = cp[sv[p].sid].used
      BY <1>3, <2>1, <2>2, <2>4, <3>1
    <3>2. CASE cp'[sv[p].sid].used # cp[sv[p].sid].used
      <4>1. sv[o].sid = sv[p].sid /\ sv[o].gen = cp[sv[o].sid].gen
        BY <1>3, <2>1, <3>2 DEF Writable, SameGeneration
      <4>2. QED
        BY <1>1, <2>1, <2>4, <4>1 DEF OneOwnerPerGeneration
    <3>3. QED
      BY <3>1, <3>2
  <2>5. QED
    BY <2>3, <2>4
<1>8. QED
  BY <1>5, <1>6, <1>7 DEF FencingInv, ChargedWithinBudgetIsDurable, OwnerSeesAllUsage

LEMMA AutoCheckpointCharges ==
    ASSUME SafeInv, FencingInv, NEW o \in Slot, Alive(o), NEW u \in 0..MaxUsed,
           NEW c \in {"idle", "admitted", "running"}, AutoCheckpoint(o, u, c),
           current' = current, u >= sv[o].used
    PROVE  Charges(o)
<1>1. TypeOK /\ OwnerSeesAllUsage
  BY DEF SafeInv, FencingInv
<1>2. sv[o] \in Supervisors /\ sv[o].sid \in Session
  BY <1>1 DEF TypeOK, Alive, Supervisors
<1>3. sv'[o] = [sv[o] EXCEPT !.used = u, !.call = c,
                    !.paused = sv[o].paused \/ Fenced(o), !.store = Writable(o)]
  BY <1>1 DEF AutoCheckpoint, TypeOK
<1>4. sv'[o].used = u /\ sv'[o].store = Writable(o)
  BY <1>2, <1>3 DEF Supervisors
<1>5. CASE Writable(o)
  <2>1. sv[o].used >= cp[sv[o].sid].used
    BY <1>1, <1>2, <1>5 DEF Writable, SameGeneration, OwnerSeesAllUsage, Alive
  <2>2. cp'[sv[o].sid].used = Larger(cp[sv[o].sid].used, u)
    BY <1>1, <1>2, <1>5 DEF AutoCheckpoint, TypeOK, Checkpoints
  <2>3. cp[sv[o].sid].used \in Nat /\ sv[o].used \in Nat
    BY <1>1, <1>2, NumberTypes
  <2>4. cp'[sv[o].sid].used = u
    BY <2>1, <2>2, <2>3 DEF Larger
  <2>5. QED
    BY <1>4, <2>4, AutoCheckpointStep DEF Charges
<1>6. CASE ~Writable(o)
  <2>1. cp' = cp
    BY <1>6 DEF AutoCheckpoint
  <2>2. QED
    BY <1>4, <1>6, <2>1, AutoCheckpointStep DEF Charges
<1>7. QED
  BY <1>5, <1>6

LEMMA SuperviseFences ==
    ASSUME MaxFaults = 0, SafeInv, FencingInv, TypeOK', NEW o \in Slot, Supervise(o)
    PROVE  FencingInv'
<1>0. TypeOK /\ Bookkeeping /\ ChargedWithinBudgetIsDurable
  BY DEF SafeInv, FencingInv
<1>1. sv[o] \in Supervisors /\ sv[o].used \in Nat
  BY <1>0 DEF TypeOK, Supervisors
<1>2. SupervisorStep(o)
  BY SuperviseStep
<1>3. ASSUME cp' = cp, sv'[o].used = sv[o].used PROVE Charges(o)
  <2>1. sv'[o].store => sv[o].store
    BY <1>2 DEF SupervisorStep
  <2>2. QED
    BY <1>0, <1>1, <1>2, <1>3, <2>1 DEF Charges, ChargedWithinBudgetIsDurable
<1>4. ASSUME NEW c, sv' = [sv EXCEPT ![o].call = c] PROVE sv'[o].used = sv[o].used
  <2>1. sv'[o] = [sv[o] EXCEPT !.call = c]
    BY <1>0, <1>4 DEF TypeOK
  <2>2. QED
    BY <1>1, <2>1 DEF Supervisors
<1>5. CASE RefuseCall(o)
  <2>1. sv'[o].used = sv[o].used
    BY <1>0, <1>5 DEF RefuseCall, TypeOK, Supervisors
  <2>2. QED
    BY <1>3, <1>5, <2>1, ChargesKeep DEF RefuseCall
<1>6. CASE BeginCall(o)
  BY <1>3, <1>4, <1>6, ChargesKeep DEF BeginCall
<1>7. CASE RefuseAfterPause(o)
  BY <1>3, <1>4, <1>7, ChargesKeep DEF RefuseAfterPause
<1>8. CASE ExecuteTool(o)
  BY <1>3, <1>4, <1>8, ChargesKeep DEF ExecuteTool
<1>9. CASE ToolFails(o)
  BY <1>3, <1>4, <1>9, ChargesKeep DEF ToolFails
<1>10. Alive(o) /\ current' = current /\ sv[o].used \in 0..MaxUsed
       /\ sv[o].call \in {"idle", "admitted", "running"}
  BY <1>1, <1>2 DEF SupervisorStep, Supervisors
<1>11. ASSUME NEW n \in 0..MaxUsed, NEW c \in {"idle", "admitted", "running"},
              sv[o].used + n <= MaxUsed, AutoCheckpoint(o, sv[o].used + n, c)
       PROVE  FencingInv'
  <2>1. sv[o].used + n \in 0..MaxUsed /\ sv[o].used + n >= sv[o].used
    BY <1>10, <1>11
  <2>2. QED
    BY <1>10, <1>11, <2>1, AutoCheckpointCharges, ChargesKeep
<1>12. ASSUME NEW n \in 0..MaxUsed, ToolReturns(o, n) PROVE FencingInv'
  <2>1. ~AutoCheckpointFails(o, sv[o].used + n, "idle")
    BY <1>0, NoFault DEF AutoCheckpointFails
  <2>2. QED
    BY <1>11, <1>12, <2>1 DEF ToolReturns
<1>13. ASSUME NEW n \in 0..MaxUsed, RecordUsage(o, n) PROVE FencingInv'
  <2>1. ~AutoCheckpointFails(o, sv[o].used + n, sv[o].call)
    BY <1>0, NoFault DEF AutoCheckpointFails
  <2>2. QED
    BY <1>10, <1>11, <1>13, <2>1 DEF RecordUsage
<1>14. ASSUME NEW n \in 0..MaxUsed, ToolReturnsOverBudget(o, n) PROVE FencingInv'
  <2>1. sv' = [sv EXCEPT ![o] = [sv[o] EXCEPT !.used = sv[o].used + n, !.call = "idle"]]
    BY <1>0, <1>14 DEF ToolReturnsOverBudget, TypeOK
  <2>2. sv'[o] = [sv[o] EXCEPT !.used = sv[o].used + n, !.call = "idle"]
    BY <1>0, <2>1 DEF TypeOK
  <2>3. sv'[o].used = sv[o].used + n
    BY <1>1, <2>2 DEF Supervisors
  <2>4. /\ cp' = cp /\ sv'[o].used >= sv[o].used /\ ~(sv'[o].used <= Budget)
    BY <1>1, <1>14, <2>3, NumberTypes, <1>0 DEF ToolReturnsOverBudget
  <2>5. Charges(o)
    BY <1>2, <2>4 DEF Charges
  <2>6. QED
    BY <2>5, ChargesKeep
<1>15. QED
  BY <1>5, <1>6, <1>7, <1>8, <1>9, <1>12, <1>13, <1>14 DEF Supervise

LEMMA OtherFences ==
    ASSUME SafeInv, FencingInv, TypeOK',
           \/ \E s \in Session : Delete(s)
           \/ \E o \in Slot : Discard(o)
           \/ \E m \in Manager : Crash(m)
    PROVE  FencingInv'
<1>0. TypeOK /\ OwnerSeesAllUsage /\ \A p \in Slot : sv[p].store => Alive(p)
  BY StoreIsAlive DEF SafeInv, FencingInv
<1>1. ASSUME \A s \in Session : cp'[s].gen = cp[s].gen /\ cp'[s].used = cp[s].used,
             \A p \in Slot : sv'[p] = sv[p] \/ sv'[p] = NoSupervisor
      PROVE  FencingInv'
  <2>1. NoSupervisor.sid = None /\ NoSupervisor.store = FALSE
    BY DEF NoSupervisor
  <2>2. \A p \in Slot : Alive(p)' \/ sv'[p].store => sv'[p] = sv[p]
    BY <1>1, <2>1 DEF Alive
  <2>3. \A p \in Slot : /\ Alive(p)' => /\ Alive(p) /\ sv'[p].sid = sv[p].sid
                                        /\ sv'[p].gen = sv[p].gen /\ sv'[p].used = sv[p].used
                        /\ sv'[p].store => Alive(p)' /\ sv[p].store
    BY <1>0, <2>2 DEF Alive
  <2>4. \A s \in Session : cp'[s].used >= cp[s].used
    BY <1>0, <1>1, NumberTypes
  <2>5. NoCharge
    BY <1>0, <1>1, <2>3, <2>4 DEF NoCharge, NoGrant, OwnerSeesAllUsage
  <2>6. QED
    BY <2>5, NoChargeKeeps
<1>2. ASSUME NEW s \in Session, Delete(s) PROVE FencingInv'
  <2>1. \A t \in Session : cp'[t].gen = cp[t].gen /\ cp'[t].used = cp[t].used
    BY <1>0, <1>2 DEF Delete, TypeOK, Checkpoints
  <2>2. QED
    BY <1>1, <1>2, <2>1 DEF Delete
<1>3. ASSUME NEW o \in Slot, Discard(o) PROVE FencingInv'
  BY <1>0, <1>1, <1>3 DEF Discard, TypeOK
<1>4. ASSUME NEW m \in Manager, Crash(m) PROVE FencingInv'
  BY <1>0, <1>1, <1>4 DEF Crash
<1>5. QED
  BY <1>2, <1>3, <1>4

LEMMA FencingInvStep ==
    ASSUME MaxFaults = 0
    PROVE  (SafeInv /\ FencingInv) /\ [Next]_vars => (SafeInv /\ FencingInv)'
<1> SUFFICES ASSUME SafeInv, FencingInv, [Next]_vars PROVE SafeInv' /\ FencingInv'
  OBVIOUS
<1>1. SafeInv' /\ TypeOK'
  BY SafeInvStep DEF SafeInv
<1>2. ASSUME NEW m \in Manager, NEW s \in Session, Control(m, s) PROVE FencingInv'
  BY <1>1, <1>2, ControlFences
<1>3. ASSUME NEW o \in Slot, Supervise(o) PROVE FencingInv'
  BY <1>1, <1>3, SuperviseFences
<1>4. CASE \/ \E s \in Session : Delete(s)
           \/ \E o \in Slot : Discard(o)
           \/ \E m \in Manager : Crash(m)
  BY <1>1, <1>4, OtherFences
<1>5. CASE UNCHANGED vars
  BY <1>1, <1>5 DEF vars, FencingInv, GenerationIsGranted, OneOwnerPerGeneration,
              ChargedWithinBudgetIsDurable, OwnerSeesAllUsage, Alive
<1>6. QED
  BY <1>1, <1>2, <1>3, <1>4, <1>5 DEF Next

LEMMA InitFences == Init => FencingInv
BY DEF Init, FencingInv, GenerationIsGranted, OneOwnerPerGeneration,
       ChargedWithinBudgetIsDurable, OwnerSeesAllUsage, Alive, NoSupervisor

\* Whatever the processes do and whenever they crash, as long as the store's
\* own operations succeed: a generation has one owner, what is charged within
\* the budget is stored, and the owner counts everything that is.
THEOREM Fencing ==
    ASSUME MaxFaults = 0
    PROVE  Spec => []FencingInv
<1>1. Init => SafeInv /\ FencingInv
  BY InitSafe, InitFences
<1>2. (SafeInv /\ FencingInv) /\ [Next]_vars => (SafeInv /\ FencingInv)'
  BY FencingInvStep
<1>3. QED
  BY <1>1, <1>2, PTL DEF Spec

\* No two Supervisor objects ever hold the same generation of a session.
THEOREM GenerationsAreOwnedOnce ==
    ASSUME MaxFaults = 0
    PROVE  Spec => []OneOwnerPerGeneration
<1>1. FencingInv => OneOwnerPerGeneration
  BY DEF FencingInv
<1>2. QED
  BY Fencing, <1>1, PTL

\* A crash loses no usage that was charged within the budget.
THEOREM UsageSurvivesCrashes ==
    ASSUME MaxFaults = 0
    PROVE  Spec => []ChargedWithinBudgetIsDurable
<1>1. FencingInv => ChargedWithinBudgetIsDurable
  BY DEF FencingInv
<1>2. QED
  BY Fencing, <1>1, PTL

\* The owner's budget check sees at least the usage that is stored.
THEOREM OwnersSeeAllUsage ==
    ASSUME MaxFaults = 0
    PROVE  Spec => []OwnerSeesAllUsage
<1>1. FencingInv => OwnerSeesAllUsage
  BY DEF FencingInv
<1>2. QED
  BY Fencing, <1>1, PTL

-----------------------------------------------------------------------------
(***************************************************************************)
(* SessionControl implements SessionLease, whether or not store operations *)
(* fail: the proof needs SafeInv only.                                     *)
(***************************************************************************)
LEMMA LeaseAt ==
    ASSUME NEW s \in Session
    PROVE  /\ StoredLease[s].phase = LeasePhase(cp[s].status)
           /\ StoredLease[s].gen = cp[s].gen
           /\ StoredLease[s].used = cp[s].used
           /\ StoredLease'[s].used = cp'[s].used
BY DEF StoredLease, LeaseOf

\* A step that changes at most the record of session s, as seen by the lease.
LEMMA BecomesStep ==
    ASSUME NEW s \in Session, \A t \in Session : t # s => cp'[t] = cp[t],
           NEW phase, NEW gen, NEW used,
           LeasePhase(cp'[s].status) = phase, cp'[s].gen = gen, cp'[s].used = used
    PROVE  Lease!Becomes(s, phase, gen, used)
<1>1. \A t \in Session : t # s => LeaseOf(cp'[t]) = LeaseOf(cp[t])
  OBVIOUS
<1>2. LeaseOf(cp'[s]) = [phase |-> phase, gen |-> gen, used |-> used]
  BY DEF LeaseOf
<1>3. StoredLease' = [t \in Session |-> LeaseOf(cp'[t])]
  BY DEF StoredLease, LeaseOf
<1>4. QED
  BY <1>1, <1>2, <1>3 DEF Lease!Becomes, StoredLease

LEMMA KeptIsExists == \A s \in Session : Lease!Kept(s) <=> Exists(s)
BY LeaseAt DEF Lease!Kept, Exists, LeasePhase

LEMMA GrowsStep ==
    ASSUME TypeOK', NEW s \in Session, cp'[s].used >= cp[s].used
    PROVE  Lease!UsageGrows(s)
<1>1. cp'[s].used \in Nat
  BY DEF TypeOK, Checkpoints
<1>2. QED
  BY <1>1, LeaseAt DEF Lease!UsageGrows

\* The calls in flight, when at most o changes its record.
LEMMA InFlightKept ==
    ASSUME \A p \in Slot : sv'[p].call # "idle" =>
              /\ sv[p].call # "idle"
              /\ sv'[p].sid = sv[p].sid /\ sv'[p].gen = sv[p].gen
    PROVE  InFlight' \subseteq InFlight
BY DEF InFlight

LEMMA InFlightSame ==
    ASSUME \A p \in Slot : sv'[p].call = sv[p].call,
           \A p \in Slot : sv[p].call # "idle" =>
              sv'[p].sid = sv[p].sid /\ sv'[p].gen = sv[p].gen
    PROVE  InFlight' = InFlight
BY DEF InFlight

LEMMA LeaseUnchanged == cp' = cp => StoredLease' = StoredLease
BY DEF StoredLease, LeaseOf

LEMMA LeaseInitial == Init => Lease!LeaseInit
<1> SUFFICES ASSUME Init PROVE Lease!LeaseInit
  OBVIOUS
<1>1. StoredLease = [s \in Session |-> [phase |-> "unborn", gen |-> 0, used |-> 0]]
  BY DEF Init, StoredLease, LeaseOf, LeasePhase
<1>2. InFlight = {}
  BY DEF Init, InFlight, NoSupervisor
<1>3. QED
  BY <1>1, <1>2 DEF Lease!LeaseInit

\* No lifecycle operation begins, ends or moves a call.
LEMMA RetiringInFlight ==
    ASSUME TypeOK, NEW m \in Manager, NEW s \in Session,
           sv' = RetireCurrent(m, s) \/ sv' = PauseCurrent(m, s) \/ sv' = sv
    PROVE  InFlight' = InFlight
<1>1. \A p \in Slot : sv'[p].sid = sv[p].sid /\ sv'[p].gen = sv[p].gen /\ sv'[p].call = sv[p].call
  <2>1. CASE sv' = RetireCurrent(m, s)
    BY <2>1, RetireCurrentFacts
  <2>2. CASE sv' = PauseCurrent(m, s)
    BY <2>2 DEF PauseCurrent, TypeOK, Supervisors
  <2>3. CASE sv' = sv
    BY <2>3
  <2>4. QED
    BY <2>1, <2>2, <2>3
<1>2. QED
  BY <1>1, InFlightSame

LEMMA InstallingInFlight ==
    ASSUME SafeInv, NEW m \in Manager, NEW s \in Session, NEW t \in Session,
           NEW o \in Slot, ~Alive(o), NEW g, NEW u,
           sv' = [RetireCurrent(m, s) EXCEPT ![o] = NewSupervisor(m, t, g, u)]
    PROVE  InFlight' = InFlight
<1>1. TypeOK /\ sv[o].call = "idle"
  BY DEF SafeInv, Bookkeeping, NoSupervisor
<1>2. sv'[o].call = "idle" /\ \A p \in Slot \ {o} : sv'[p] = RetireCurrent(m, s)[p]
  BY <1>1, RetireCurrentType DEF NewSupervisor
<1>3. \A p \in Slot \ {o} : /\ sv'[p].sid = sv[p].sid /\ sv'[p].gen = sv[p].gen
                            /\ sv'[p].call = sv[p].call
  <2>1. \A p \in Slot : /\ RetireCurrent(m, s)[p].sid = sv[p].sid
                        /\ RetireCurrent(m, s)[p].gen = sv[p].gen
                        /\ RetireCurrent(m, s)[p].call = sv[p].call
    BY <1>1, RetireCurrentFacts
  <2>2. QED
    BY <1>2, <2>1
<1>4. QED
  BY <1>1, <1>2, <1>3, InFlightSame

LEMMA ControlRefines ==
    ASSUME SafeInv, TypeOK', NEW m \in Manager, NEW s \in Session, Control(m, s)
    PROVE  [Lease!LeaseNext]_Lease!leaseVars
<1>0. TypeOK
  BY DEF SafeInv
<1> USE NumberTypes, KeptIsExists
<1>1. ASSUME Exists(s), cp'[s].status \in {"paused", "stopped", "failed"},
             cp'[s].gen = cp[s].gen, cp'[s].used >= cp[s].used,
             \A t \in Session : t # s => cp'[t] = cp[t], InFlight' = InFlight
      PROVE  [Lease!LeaseNext]_Lease!leaseVars
  <2>1. LeasePhase(cp'[s].status) = "shut"
    BY <1>1 DEF LeasePhase
  <2>2. Lease!Becomes(s, "shut", cp[s].gen, cp'[s].used)
    BY <1>1, <2>1, BecomesStep
  <2>3. Lease!UsageGrows(s) /\ Lease!Kept(s)
    BY <1>1, GrowsStep
  <2>4. Lease!Shut(s)
    BY <1>1, <2>2, <2>3, LeaseAt DEF Lease!Shut
  <2>5. QED
    BY <2>4 DEF Lease!LeaseNext
<1>2. ASSUME cp' = cp, InFlight' = InFlight PROVE [Lease!LeaseNext]_Lease!leaseVars
  BY <1>2, LeaseUnchanged DEF Lease!leaseVars
<1>3. ASSUME NEW t \in Session, cp[t].status = "unborn",
             cp' = [cp EXCEPT ![t] = NewCheckpoint], InFlight' = InFlight
      PROVE  [Lease!LeaseNext]_Lease!leaseVars
  <2>1. /\ cp'[t].status = "running" /\ cp'[t].gen = 0 /\ cp'[t].used = 0
        /\ \A r \in Session : r # t => cp'[r] = cp[r]
    BY <1>0, <1>3 DEF TypeOK, NewCheckpoint
  <2>2. Lease!Becomes(t, "open", 0, 0)
    BY <2>1, BecomesStep DEF LeasePhase
  <2>3. Lease!Open(t)
    BY <1>3, <2>2, LeaseAt DEF Lease!Open, LeasePhase
  <2>4. QED
    BY <2>3 DEF Lease!LeaseNext
<1>4. CASE Pause(m, s)
  <2>1. InFlight' = InFlight
    BY <1>0, <1>4, RetiringInFlight DEF Pause
  <2>2. QED
    BY <1>0, <1>1, <1>4, <2>1 DEF Pause, TypeOK, Checkpoints
<1>5. CASE PauseCommitFails(m, s)
  BY <1>0, <1>2, <1>5, RetiringInFlight DEF PauseCommitFails
<1>6. CASE RejectResume(m, s)
  <2>1. InFlight' = InFlight
    BY <1>0, <1>6, RetiringInFlight DEF RejectResume
  <2>2. QED
    BY <1>0, <1>1, <1>6, <2>1 DEF RejectResume, TypeOK, Checkpoints
<1>7. CASE ResumeSaveFails(m, s)
  BY <1>0, <1>2, <1>7, RetiringInFlight DEF ResumeSaveFails
<1>8. MergedUsage(m, s) >= cp[s].used
  <2>1. ASSUME current[m][s] # None PROVE sv[current[m][s]].used \in Nat
    BY <1>0, <2>1 DEF TypeOK, Supervisors
  <2>2. QED
    BY <1>0, <2>1 DEF MergedUsage, Larger
<1>9. CASE Stop(m, s)
  <2>1. InFlight' = InFlight
    BY <1>0, <1>9, RetiringInFlight DEF Stop
  <2>2. /\ cp'[s].status = "stopped" /\ cp'[s].gen = cp[s].gen
        /\ cp'[s].used = MergedUsage(m, s)
        /\ \A t \in Session : t # s => cp'[t] = cp[t]
    BY <1>0, <1>9 DEF Stop, TypeOK, Checkpoints
  <2>3. QED
    BY <1>1, <1>8, <1>9, <2>1, <2>2 DEF Stop
<1>10. CASE StopFails(m, s)
  BY <1>0, <1>2, <1>10, RetiringInFlight DEF StopFails
<1>11. ASSUME NEW o \in Slot, Start(m, s, o) PROVE [Lease!LeaseNext]_Lease!leaseVars
  <2>1. sv'[o] = NewSupervisor(m, s, 0, 0) /\ \A p \in Slot \ {o} : sv'[p] = sv[p]
    BY <1>0, <1>11 DEF Start, TypeOK
  <2>2. sv'[o].call = "idle" /\ sv[o].call = "idle"
    BY <1>11, <2>1 DEF Start, NewSupervisor, SafeInv, Bookkeeping, NoSupervisor
  <2>3. InFlight' = InFlight
    BY <2>1, <2>2, InFlightSame
  <2>4. QED
    BY <1>3, <1>11, <2>3 DEF Start
<1>12. ASSUME NEW o \in Slot, ResumeCommitFails(m, s, o)
       PROVE  [Lease!LeaseNext]_Lease!leaseVars
  BY <1>2, <1>12, InstallingInFlight DEF ResumeCommitFails, InstallResumed
<1>13. ASSUME NEW o \in Slot, Resume(m, s, o) PROVE [Lease!LeaseNext]_Lease!leaseVars
  <2>1. InFlight' = InFlight
    BY <1>13, InstallingInFlight DEF Resume, InstallResumed
  <2>2. /\ cp'[s].status = "running" /\ cp'[s].gen = cp[s].gen + 1
        /\ cp'[s].used = MergedUsage(m, s)
        /\ \A t \in Session : t # s => cp'[t] = cp[t]
    BY <1>0, <1>13 DEF Resume, TypeOK
  <2>3. Lease!Becomes(s, "open", cp[s].gen + 1, cp'[s].used)
    BY <2>2, BecomesStep DEF LeasePhase
  <2>4. Lease!UsageGrows(s) /\ Lease!Kept(s)
    BY <1>8, <1>13, <2>2, GrowsStep DEF Resume
  <2>5. Lease!Grant(s)
    BY <2>1, <2>3, <2>4, LeaseAt DEF Lease!Grant
  <2>6. QED
    BY <2>5 DEF Lease!LeaseNext
<1>14. ASSUME NEW o \in Slot, NEW t \in Session, Restart(m, s, t, o)
       PROVE  [Lease!LeaseNext]_Lease!leaseVars
  <2>1. InFlight' = InFlight
    BY <1>14, InstallingInFlight DEF Restart
  <2>2. QED
    BY <1>3, <1>14, <2>1 DEF Restart
<1>15. QED
  BY <1>4, <1>5, <1>6, <1>7, <1>9, <1>10, <1>11, <1>12, <1>13, <1>14 DEF Control

\* The step of a supervisor that neither begins a call nor charges, or that
\* charges the record it may still write.
LEMMA ChargeRefines ==
    ASSUME SafeInv, TypeOK', NEW o \in Slot, SupervisorStep(o),
           sv'[o].call # "idle" => sv[o].call # "idle"
    PROVE  [Lease!LeaseNext]_Lease!leaseVars
<1>1. TypeOK
  BY DEF SafeInv
<1>2. InFlight' \subseteq InFlight
  <2>1. \A p \in Slot : sv'[p].call # "idle" =>
              /\ sv[p].call # "idle"
              /\ sv'[p].sid = sv[p].sid /\ sv'[p].gen = sv[p].gen
    BY DEF SupervisorStep
  <2>2. QED
    BY <2>1, InFlightKept
<1> DEFINE s == sv[o].sid
<1>3. s \in Session
  BY <1>1, NumberTypes DEF SupervisorStep
<1>4. \A t \in Session : /\ cp'[t].status = cp[t].status /\ cp'[t].gen = cp[t].gen
                         /\ cp'[t].used >= cp[t].used
                         /\ cp'[t].used # cp[t].used => t = s /\ Writable(o)
  BY DEF SupervisorStep
<1>5. \A t \in Session : cp'[t].used = cp[t].used => cp'[t] = cp[t]
  BY <1>1, <1>4 DEF TypeOK, Checkpoints
<1>6. CASE cp'[s].used = cp[s].used
  <2>1. \A t \in Session : cp'[t] = cp[t]
    BY <1>4, <1>5, <1>6
  <2>2. cp' = cp
    BY <1>1, <2>1 DEF TypeOK
  <2>3. QED
    BY <1>2, <2>2, LeaseUnchanged DEF Lease!LeaseNext, Lease!Finish
<1>7. CASE cp'[s].used # cp[s].used
  <2>1. Exists(s)
    BY <1>3, <1>4, <1>7 DEF Writable, SameGeneration
  <2>2. Lease!Becomes(s, LeasePhase(cp[s].status), cp[s].gen, cp'[s].used)
    BY <1>3, <1>4, <1>5, BecomesStep
  <2>3. Lease!UsageGrows(s) /\ Lease!Kept(s)
    BY <1>3, <1>4, <2>1, GrowsStep, KeptIsExists
  <2>4. Lease!Charge(s)
    BY <1>2, <1>3, <2>2, <2>3, LeaseAt DEF Lease!Charge
  <2>5. QED
    BY <1>3, <2>4 DEF Lease!LeaseNext
<1>8. QED
  BY <1>6, <1>7

\* An admitted call: the supervisor is not paused, so it has its store, and
\* what it reads there is its own generation, running.
LEMMA BeginCallRefines ==
    ASSUME SafeInv, NEW o \in Slot, BeginCall(o)
    PROVE  [Lease!LeaseNext]_Lease!leaseVars
<1>1. TypeOK /\ StorelessIsPaused
  BY DEF SafeInv
<1> DEFINE s == sv[o].sid
<1>2. s \in Session
  BY <1>1, NumberTypes DEF BeginCall
<1>3. sv[o].store
  BY <1>1 DEF BeginCall, StorelessIsPaused
<1>4. sv[o].gen = cp[s].gen /\ cp[s].status = "running"
  BY <1>3 DEF BeginCall, Fenced, SameGeneration
<1>5. InFlight' = InFlight \cup {<<s, sv[o].gen>>}
  <2>1. sv'[o] = [sv[o] EXCEPT !.call = "admitted"] /\ sv[o] \in Supervisors
    BY <1>1 DEF BeginCall, TypeOK
  <2>2. sv'[o].sid = s /\ sv'[o].gen = sv[o].gen /\ sv'[o].call = "admitted"
    BY <2>1 DEF Supervisors
  <2>3. \A p \in Slot : p # o => sv'[p] = sv[p]
    BY <1>1 DEF BeginCall, TypeOK
  <2>4. sv[o].call = "idle"
    BY DEF BeginCall
  <2>5. QED
    BY <2>2, <2>3, <2>4 DEF InFlight
<1>6. Lease!Admit(s)
  <2>1. StoredLease' = StoredLease
    BY LeaseUnchanged DEF BeginCall
  <2>2. QED
    BY <1>2, <1>4, <1>5, <2>1, LeaseAt DEF Lease!Admit, LeasePhase
<1>7. QED
  BY <1>2, <1>6 DEF Lease!LeaseNext

LEMMA SuperviseRefines ==
    ASSUME SafeInv, TypeOK', NEW o \in Slot, Supervise(o)
    PROVE  [Lease!LeaseNext]_Lease!leaseVars
<1>1. TypeOK
  BY DEF SafeInv
<1>2. sv[o] \in Supervisors
  BY <1>1 DEF TypeOK
<1>3. CASE BeginCall(o)
  BY <1>3, BeginCallRefines
<1>4. ASSUME sv'[o].call # "idle" => sv[o].call # "idle"
      PROVE  [Lease!LeaseNext]_Lease!leaseVars
  BY <1>4, SuperviseStep, ChargeRefines
<1>5. ASSUME NEW c, sv' = [sv EXCEPT ![o].call = c] PROVE sv'[o].call = c
  <2>1. sv'[o] = [sv[o] EXCEPT !.call = c]
    BY <1>1, <1>5 DEF TypeOK
  <2>2. QED
    BY <1>2, <2>1 DEF Supervisors
<1>6. ASSUME NEW c, NEW u, sv'[o] = [sv[o] EXCEPT !.used = u, !.call = c] PROVE sv'[o].call = c
  BY <1>2, <1>6 DEF Supervisors
<1>7. ASSUME NEW c, NEW u, AutoCheckpoint(o, u, c) \/ AutoCheckpointFails(o, u, c)
      PROVE  sv'[o].call = c
  <2>1. CASE AutoCheckpoint(o, u, c)
    <3>1. sv'[o] = [sv[o] EXCEPT !.used = u, !.call = c,
                        !.paused = sv[o].paused \/ Fenced(o), !.store = Writable(o)]
      BY <1>1, <2>1 DEF AutoCheckpoint, TypeOK
    <3>2. QED
      BY <1>2, <3>1 DEF Supervisors
  <2>2. CASE AutoCheckpointFails(o, u, c)
    <3>1. sv'[o] = [sv[o] EXCEPT !.used = u, !.call = c]
      BY <1>1, <2>2 DEF AutoCheckpointFails, TypeOK
    <3>2. QED
      BY <1>6, <3>1
  <2>3. QED
    BY <1>7, <2>1, <2>2
<1>8. CASE RefuseCall(o)
  <2>1. sv'[o].call = sv[o].call
    BY <1>1, <1>8 DEF RefuseCall, TypeOK, Supervisors
  <2>2. QED
    BY <1>4, <2>1
<1>9. CASE RefuseAfterPause(o) \/ ToolFails(o)
  BY <1>4, <1>5, <1>9 DEF RefuseAfterPause, ToolFails
<1>10. CASE ExecuteTool(o)
  BY <1>4, <1>10 DEF ExecuteTool
<1>11. ASSUME NEW n \in 0..MaxUsed, ToolReturns(o, n) PROVE [Lease!LeaseNext]_Lease!leaseVars
  BY <1>4, <1>7, <1>11 DEF ToolReturns
<1>12. ASSUME NEW n \in 0..MaxUsed, ToolReturnsOverBudget(o, n)
       PROVE  [Lease!LeaseNext]_Lease!leaseVars
  BY <1>4, <1>12 DEF ToolReturnsOverBudget
<1>13. ASSUME NEW n \in 0..MaxUsed, RecordUsage(o, n) PROVE [Lease!LeaseNext]_Lease!leaseVars
  <2>1. sv'[o].call = sv[o].call
    BY <1>7, <1>13 DEF RecordUsage
  <2>2. QED
    BY <1>4, <2>1
<1>14. QED
  BY <1>3, <1>8, <1>9, <1>10, <1>11, <1>12, <1>13 DEF Supervise

LEMMA OtherRefines ==
    ASSUME SafeInv, TypeOK',
           \/ \E s \in Session : Delete(s)
           \/ \E o \in Slot : Discard(o)
           \/ \E m \in Manager : Crash(m)
    PROVE  [Lease!LeaseNext]_Lease!leaseVars
<1>1. TypeOK
  BY DEF SafeInv
<1>2. ASSUME NEW s \in Session, Delete(s) PROVE [Lease!LeaseNext]_Lease!leaseVars
  <2>1. /\ cp'[s].status = "deleted" /\ cp'[s].gen = cp[s].gen /\ cp'[s].used = cp[s].used
        /\ \A t \in Session : t # s => cp'[t] = cp[t]
    BY <1>1, <1>2 DEF Delete, TypeOK, Checkpoints
  <2>2. Lease!Becomes(s, "lost", cp[s].gen, cp[s].used)
    BY <2>1, BecomesStep DEF LeasePhase
  <2>3. InFlight' = InFlight
    BY <1>2, InFlightSame DEF Delete
  <2>4. Lease!Lose(s)
    BY <1>2, <2>2, <2>3, LeaseAt, KeptIsExists DEF Delete, Lease!Lose
  <2>5. QED
    BY <2>4 DEF Lease!LeaseNext
<1>3. ASSUME cp' = cp, \A p \in Slot : sv'[p] = sv[p] \/ sv'[p] = NoSupervisor
      PROVE  [Lease!LeaseNext]_Lease!leaseVars
  <2>1. InFlight' \subseteq InFlight
    BY <1>3, InFlightKept DEF NoSupervisor
  <2>2. QED
    BY <1>3, <2>1, LeaseUnchanged DEF Lease!LeaseNext, Lease!Finish
<1>4. ASSUME NEW o \in Slot, Discard(o) PROVE [Lease!LeaseNext]_Lease!leaseVars
  BY <1>1, <1>3, <1>4 DEF Discard, TypeOK
<1>5. ASSUME NEW m \in Manager, Crash(m) PROVE [Lease!LeaseNext]_Lease!leaseVars
  BY <1>3, <1>5 DEF Crash
<1>6. QED
  BY <1>2, <1>4, <1>5

\* Every behaviour of the session layer is one of the lease: work begins only
\* under the stored generation of a running session, the stored generation and
\* usage never go back, and a deleted session never comes back.
THEOREM SessionsImplementLease == Spec => ImplementsLease
<1>1. SafeInv /\ SafeInv' /\ [Next]_vars => [Lease!LeaseNext]_Lease!leaseVars
  <2> SUFFICES ASSUME SafeInv, TypeOK', [Next]_vars
               PROVE  [Lease!LeaseNext]_Lease!leaseVars
    BY DEF SafeInv
  <2>1. ASSUME NEW m \in Manager, NEW s \in Session, Control(m, s)
        PROVE  [Lease!LeaseNext]_Lease!leaseVars
    BY <2>1, ControlRefines
  <2>2. ASSUME NEW o \in Slot, Supervise(o) PROVE [Lease!LeaseNext]_Lease!leaseVars
    BY <2>2, SuperviseRefines
  <2>3. CASE \/ \E s \in Session : Delete(s)
             \/ \E o \in Slot : Discard(o)
             \/ \E m \in Manager : Crash(m)
    BY <2>3, OtherRefines
  <2>4. CASE UNCHANGED vars
    <3>1. InFlight' = InFlight
      BY <2>4, InFlightSame DEF vars
    <3>2. StoredLease' = StoredLease
      BY <2>4, LeaseUnchanged DEF vars
    <3>3. QED
      BY <3>1, <3>2 DEF Lease!leaseVars
  <2>5. QED
    BY <2>1, <2>2, <2>3, <2>4 DEF Next
<1>2. QED
  BY <1>1, LeaseInitial, Safety, PTL DEF Spec, ImplementsLease, Lease!LeaseSpec
=============================================================================
