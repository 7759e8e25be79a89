-------------------------- MODULE MCPropertyPanel --------------------------
(* Model checking PropertyPanel: a check button and a choice.              *)
EXTENDS PropertyPanel, TLC

CONSTANTS mute, mode

MCWidget == mute :> "toggle" @@ mode :> "choice"

\* Elements begin alike.
ElementSymmetry == Permutations(Elements)
=============================================================================
