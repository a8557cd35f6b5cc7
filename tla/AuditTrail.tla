---------------------------- MODULE AuditTrail ----------------------------
(***************************************************************************)
(* The audit trail of one persistent session (agenthandler/session.py,     *)
(* store.py, audit.py): the managers that work on it keep what their own   *)
(* supervisor records in memory, over the trail they found when they       *)
(* resumed it, and write both into the checkpoint when they pause, resume  *)
(* or stop the session, and at no other time.                              *)
(*                                                                         *)
(* Session locks and transactions make every operation a step.  The resume *)
(* whose COMMIT fails is left to SessionControl.                           *)
(***************************************************************************)
EXTENDS Integers, Sequences, SequencesExt

CONSTANTS
    Owner,       \* the SessionManagers
    MaxResumed,  \* the policy's max_resumes
    MaxEntries   \* bound: audit entries ever recorded

ASSUME TrailAssumption == MaxResumed \in Nat /\ MaxEntries \in Nat

VARIABLES
    row,        \* the checkpoint: still there, its generation, its audit_log
    working,    \* the generation of each manager's supervisor, -1 for none
    baseline,   \* _audit_baselines: the trail the manager resumed from
    sink,       \* _audit_sinks: what its supervisor recorded since
    recorded,   \* entries recorded so far; each is its own number
    readings    \* get_audit_entries between its two looks: whose, of which
                \* generation, and the entries of the sink

trailVars == <<row, working, baseline, sink, recorded, readings>>

\* One manager has started the session.
TrailInit ==
    /\ row = [exists |-> TRUE, generation |-> 0, log |-> <<>>]
    /\ \E m \in Owner : working = [n \in Owner |-> IF n = m THEN 0 ELSE -1]
    /\ baseline = [m \in Owner |-> <<>>] /\ sink = [m \in Owner |-> <<>>]
    /\ recorded = 0 /\ readings = {}

-----------------------------------------------------------------------------
Has(m) == working[m] # -1

Forget(m) ==
    /\ working' = [working EXCEPT ![m] = -1]
    /\ baseline' = [baseline EXCEPT ![m] = <<>>] /\ sink' = [sink EXCEPT ![m] = <<>>]

\* (Bug: a manager writes its trail whatever generation the session is in.)
PersistedAnyway(m, memory) ==
    IF Has(m) THEN baseline[m] \o memory ELSE row.log

\* _persist_audit: only the supervisor of the stored generation has a say.
Persisted(m, memory) ==
    IF Has(m) /\ working[m] = row.generation THEN baseline[m] \o memory ELSE row.log

\* get_audit_entries, and so the frames of a replay, copies the sink and takes the
\* lock again to read the baseline.  Without a sink it shows what is stored.
CopySink(m) ==
    /\ Has(m) /\ readings = {}
    /\ readings' = {[of |-> m, generation |-> working[m], memory |-> sink[m]]}
    /\ UNCHANGED <<row, working, baseline, sink, recorded>>

Shown(r) == baseline[r.of] \o r.memory

ReadBaseline ==
    /\ readings # {} /\ readings' = {}
    /\ UNCHANGED <<row, working, baseline, sink, recorded>>

\* A supervisor records what it allows and what it refuses: one that was
\* superseded goes on recording its refusals.
RecordEntry(m) ==
    /\ Has(m) /\ recorded < MaxEntries /\ recorded' = recorded + 1
    /\ sink' = [sink EXCEPT ![m] = Append(@, recorded + 1)]
    /\ UNCHANGED <<row, working, baseline, readings>>

PauseTrail(m) ==
    /\ row.exists /\ row' = [row EXCEPT !.log = Persisted(m, sink[m])]
    /\ UNCHANGED <<working, baseline, sink, recorded, readings>>

ResumeTrail(m) ==
    /\ row.exists /\ row.generation < MaxResumed
    /\ row' = [row EXCEPT !.log = Persisted(m, sink[m]), !.generation = @ + 1]
    /\ working' = [working EXCEPT ![m] = row.generation + 1]
    /\ baseline' = [baseline EXCEPT ![m] = row'.log] /\ sink' = [sink EXCEPT ![m] = <<>>]
    /\ UNCHANGED <<recorded, readings>>

\* stop() lets the supervisor record the end of the request, writes the trail
\* and forgets the session.
StopTrail(m) ==
    /\ row.exists
    /\ IF Has(m)
       THEN /\ recorded < MaxEntries /\ recorded' = recorded + 1
            /\ row' = [row EXCEPT !.log = Persisted(m, Append(sink[m], recorded + 1))]
       ELSE UNCHANGED <<row, recorded>>
    /\ Forget(m) /\ UNCHANGED readings

\* A save that raises rolls the row back, but the manager has forgotten already.
StopSaveFails(m) == row.exists /\ Forget(m) /\ UNCHANGED <<row, recorded, readings>>

\* restart() leaves this session as it is stored and goes on with another; a
\* crash leaves it too.
LeaveTrail(m) == Has(m) /\ Forget(m) /\ UNCHANGED <<row, recorded, readings>>

\* delete_expired: the row's age decides, whoever works on it.  What a manager
\* holds of a persistent session stays.
ExpireTrail ==
    /\ row.exists /\ row' = [row EXCEPT !.exists = FALSE]
    /\ UNCHANGED <<working, baseline, sink, recorded, readings>>

TrailNext ==
    \/ ExpireTrail \/ ReadBaseline
    \/ \E m \in Owner : \/ RecordEntry(m) \/ PauseTrail(m) \/ ResumeTrail(m)
                        \/ StopTrail(m) \/ StopSaveFails(m) \/ LeaveTrail(m)
                        \/ CopySink(m)

TrailSpec == TrailInit /\ [][TrailNext]_trailVars

-----------------------------------------------------------------------------
Repeats ==
    \/ ~IsInjective(row.log)
    \/ \E r \in readings : r.generation = working[r.of] /\ ~IsInjective(Shown(r))

\* Through pauses, resumes and takeovers the stored trail is only ever added to,
\* so that a manager that lost the session does not put its old trail in the
\* place of the new one, and no entry is in it twice, stored or as a manager
\* shows it (session.py:318-349, 467-480, 518-527), unless the manager resumes
\* the session between the two looks of a reader: that one is shown the sink's
\* entries twice.
TrailIsKept == [][IsPrefix(row.log, row'.log)]_trailVars /\ []~Repeats

-----------------------------------------------------------------------------
TrailTypeOK ==
    /\ recorded \in Nat
    /\ row \in [exists : BOOLEAN, generation : Nat, log : Seq(1..recorded)]
    /\ working \in [Owner -> Nat \cup {-1}]
    /\ baseline \in [Owner -> Seq(1..recorded)] /\ sink \in [Owner -> Seq(1..recorded)]
    /\ \A r \in readings : r \in [of : Owner, generation : Nat, memory : Seq(1..recorded)]

\* What a manager would show and write.
Trail(m) == baseline[m] \o sink[m]

\* The inductive invariant behind TrailIsKept: the manager of the stored
\* generation is the only one of it, and its trail goes on from the stored one.
TrailInv ==
    /\ TrailTypeOK
    /\ IsInjective(row.log) /\ \A m \in Owner : IsInjective(Trail(m))
    /\ \A m \in Owner : /\ working[m] <= row.generation
                        /\ working[m] = row.generation =>
                              /\ IsPrefix(row.log, Trail(m))
                              /\ \A n \in Owner : working[n] = row.generation => n = m
    /\ \A r \in readings :
          /\ r.generation <= row.generation
          /\ r.generation = working[r.of] => IsPrefix(r.memory, sink[r.of])
=============================================================================
