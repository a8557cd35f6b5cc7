----------------------------- MODULE MCCallPath -----------------------------
(* Small instances of CallPath for TLC. *)
EXTENDS CallPath, TLC

\* The tool is under one scope rule, or under two.
MCPolicies == {<<1>>, <<5, 4>>}

\* Redaction changes one of the two argument dictionaries into the other.
MCRedacted == [a \in Arg |-> IF a = "raw" THEN "clean" ELSE a]

SameCalls == Permutations(Call) \cup Permutations(Model)

Spec == CallSpec
=============================================================================
