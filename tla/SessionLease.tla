---------------------------- MODULE SessionLease ----------------------------
(***************************************************************************)
(* What the session layer promises, whatever processes share the store.    *)
(* A session is a lease that is granted again and again: every grant opens *)
(* a new generation, work is admitted only under the generation that is    *)
(* open at that moment, and neither the generation nor the usage charged   *)
(* to the session ever goes back.  A lease, once lost, stays lost.         *)
(***************************************************************************)
EXTENDS Naturals

CONSTANT Session

VARIABLES
    lease,  \* per session: is work authorized, by which generation, at what usage
    busy    \* the <<session, generation>> pairs with a tool call in flight

leaseVars == <<lease, busy>>

Phase == {"unborn", "open", "shut", "lost"}

LeaseInit ==
    /\ lease = [s \in Session |-> [phase |-> "unborn", gen |-> 0, used |-> 0]]
    /\ busy = {}

Becomes(s, phase, gen, used) ==
    lease' = [lease EXCEPT ![s] = [phase |-> phase, gen |-> gen, used |-> used]]

UsageGrows(s) == lease'[s].used \in Nat /\ lease'[s].used >= lease[s].used

\* The record of the lease still exists.
Kept(s) == lease[s].phase \in {"open", "shut"}

\* A new session opens in generation 0.
Open(s) ==
    /\ lease[s].phase = "unborn"
    /\ Becomes(s, "open", 0, 0)
    /\ UNCHANGED busy

\* A resume grants the next generation and carries the usage forward.
Grant(s) ==
    /\ Kept(s) /\ UsageGrows(s)
    /\ Becomes(s, "open", lease[s].gen + 1, lease'[s].used)
    /\ UNCHANGED busy

\* Pause, stop and failure withdraw the authorization.
Shut(s) ==
    /\ Kept(s) /\ UsageGrows(s)
    /\ Becomes(s, "shut", lease[s].gen, lease'[s].used)
    /\ UNCHANGED busy

Lose(s) ==
    /\ Kept(s)
    /\ Becomes(s, "lost", lease[s].gen, lease[s].used)
    /\ UNCHANGED busy

\* Work starts only under the generation that holds an open lease.
Admit(s) ==
    /\ lease[s].phase = "open"
    /\ busy' = busy \cup {<<s, lease[s].gen>>}
    /\ UNCHANGED lease

\* Work ends, is abandoned or dies with its process.
Finish == busy' \subseteq busy /\ UNCHANGED lease

\* Work under the last generation granted is charged, and may end with that.
Charge(s) ==
    /\ Kept(s) /\ UsageGrows(s)
    /\ Becomes(s, lease[s].phase, lease[s].gen, lease'[s].used)
    /\ busy' \subseteq busy

LeaseNext ==
    \/ Finish
    \/ \E s \in Session :
          Open(s) \/ Grant(s) \/ Shut(s) \/ Lose(s) \/ Admit(s) \/ Charge(s)

LeaseSpec == LeaseInit /\ [][LeaseNext]_leaseVars
=============================================================================
