-------------------------- MODULE MCSessionControl --------------------------
(* Small instances of SessionControl for TLC. *)
EXTENDS SessionControl, TLC

\* Processes and object identities are interchangeable.
Interchangeable == Permutations(Manager) \cup Permutations(Slot)

\* So are session ids, when there are several.
SessionsToo == Interchangeable \cup Permutations(Session)
=============================================================================
