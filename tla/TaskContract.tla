---------------------------- MODULE TaskContract ----------------------------
(***************************************************************************)
(* What a durable task promises its owner, whatever crashes: the action of *)
(* each milestone takes effect once, in order, none before the milestones  *)
(* ahead of it were accepted; a milestone is accepted only after its       *)
(* action; the task is complete when all are.                              *)
(***************************************************************************)
EXTENDS Naturals

CONSTANT Last  \* milestones are 1..Last

VARIABLES
    done,      \* how often each action has taken effect
    accepted,  \* the milestones whose verification was accepted
    complete

contractVars == <<done, accepted, complete>>

Ahead(m) == 1..(m - 1)

ContractInit ==
    /\ done = [m \in 1..Last |-> 0]
    /\ accepted = {}
    /\ complete = FALSE

Perform(m) ==
    /\ done[m] = 0 /\ Ahead(m) \subseteq accepted
    /\ done' = [done EXCEPT ![m] = 1]
    /\ UNCHANGED <<accepted, complete>>

Accept(m) ==
    /\ done[m] = 1 /\ m \notin accepted /\ Ahead(m) \subseteq accepted
    /\ accepted' = accepted \cup {m}
    /\ UNCHANGED <<done, complete>>

\* Completed for good: nothing is performed or accepted afterwards.
Finish ==
    /\ accepted = 1..Last /\ ~complete
    /\ complete' = TRUE
    /\ UNCHANGED <<done, accepted>>

ContractNext == (\E m \in 1..Last : Perform(m) \/ Accept(m)) \/ Finish

ContractSpec == ContractInit /\ [][ContractNext]_contractVars
=============================================================================
