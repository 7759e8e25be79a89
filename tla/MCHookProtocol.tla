--------------------------- MODULE MCHookProtocol ---------------------------
(* Model checking HookProtocol: one hub per configuration file.            *)
EXTENDS HookProtocol

\* Connections are used once each and in no particular order.
ConnSymmetry == Permutations(Conns)
=============================================================================
