----------------------------- MODULE MCGuards -----------------------------
(***************************************************************************)
(* Small instances for TLC of what guards a tool's use, one tool's circuit *)
(* breaker and the verification gate of a run: a behaviour is one of them, *)
(* and the variables of the other stay as they began.                      *)
(***************************************************************************)
EXTENDS CircuitBreaker, VerificationGate

VARIABLE guard

GuardsInit ==
    /\ guard \in {"breaker", "gate"}
    /\ Init /\ (guard # "breaker" => up)
    /\ GateInit /\ (guard # "gate" => registered = {})

GuardsNext ==
    \/ guard = "breaker" /\ Next /\ UNCHANGED <<guard, gateVars>>
    \/ guard = "gate" /\ GateNext /\ UNCHANGED <<guard, vars>>

\* The fairness of the gate is vacuous in the behaviours of the breaker: it asks
\* for nothing before a run has begun.
GuardsSpec ==
    /\ GuardsInit /\ [][GuardsNext]_<<guard, vars, gateVars>>
    /\ guard = "breaker" => BreakerFairness
    /\ GateFairness
=============================================================================
