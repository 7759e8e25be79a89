----------------------------- MODULE MCTopology -----------------------------
(* Small pipelines to model check Topology on.                             *)
EXTENDS Topology, TLC

Pad(e, dir) == [of |-> e, dir |-> dir]

\* A bin with two linked elements, one of which has the name of a neighbour
\* of the bin.
NestedParent == "bin" :> "pipeline" @@ "src" :> "pipeline" @@ "in" :> "bin" @@ "out" :> "bin"
NestedName == "bin" :> "bin" @@ "src" :> "filter" @@ "in" :> "filter" @@ "out" :> "out"
NestedPads == {Pad("src", "src"), Pad("bin", "sink"), Pad("in", "src"), Pad("out", "sink")}

\* A bin with one element beside another element, all names different.
SmallParent == "bin" :> "pipeline" @@ "src" :> "pipeline" @@ "in" :> "bin"
SmallName == "bin" :> "bin" @@ "src" :> "src" @@ "in" :> "in"
SmallPads == {Pad("src", "src"), Pad("bin", "sink"), Pad("in", "sink")}
=============================================================================
