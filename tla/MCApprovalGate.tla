--------------------------- MODULE MCApprovalGate ---------------------------
(* Small instances of ApprovalGate for TLC. *)
EXTENDS ApprovalGate, TLC

CONSTANTS v1, v2, s1, s2

TwoSessions == v1 :> s1 @@ v2 :> s2

\* The two supervisors can be exchanged together with their sessions.
Exchange == v1 :> v2 @@ v2 :> v1 @@ s1 :> s2 @@ s2 :> s1

Interchangeable ==
    Permutations(Id) \cup Permutations(Call) \cup Permutations(Arg) \cup {Exchange}
=============================================================================
