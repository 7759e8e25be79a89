----------------------------- MODULE MCDrawing -----------------------------
(* Model checking Drawing: an element beside a bin with an element in it.  *)
EXTENDS Drawing, TLC

CONSTANTS filter, bin, inside

MCOrder == <<filter, bin, inside>>
MCParent == filter :> Root @@ bin :> Root @@ inside :> bin
=============================================================================
