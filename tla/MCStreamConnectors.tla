------------------------- MODULE MCStreamConnectors -------------------------
(* A small instance of StreamConnectors alone, for TLC. *)
EXTENDS StreamConnectors

Spec == StreamSpec
=============================================================================
