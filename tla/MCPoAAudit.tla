----------------------------- MODULE MCPoAAudit -----------------------------
(* A chain with three proof-of-audit blocks: p1 ends with the block below   *)
(* it, p2 does not, p3 again.  d3 lists again what p2 has listed, x2 lists  *)
(* a block of the other branch, y1 one that may not be known.               *)
EXTENDS PoAAudit, TLC

CONSTANTS g, s1, s2, p1, y1, s4, s5, p2, x2, f5, f6, s7, p3, d3

MCBlock == {g, s1, s2, p1, y1, s4, s5, p2, x2, f5, f6, s7, p3, d3}
MCParent ==
    (s1 :> g) @@ (s2 :> s1) @@ (p1 :> s2) @@ (y1 :> s2) @@ (s4 :> p1) @@ (s5 :> s4)
    @@ (f5 :> s4) @@ (f6 :> f5) @@ (p2 :> s5) @@ (x2 :> s5) @@ (s7 :> p2)
    @@ (p3 :> s7) @@ (d3 :> s7)
MCHeight ==
    (g :> 0) @@ (s1 :> 1) @@ (s2 :> 2) @@ (p1 :> 3) @@ (y1 :> 3) @@ (s4 :> 4)
    @@ (s5 :> 5) @@ (f5 :> 5) @@ (f6 :> 6) @@ (p2 :> 6) @@ (x2 :> 6) @@ (s7 :> 7)
    @@ (p3 :> 8) @@ (d3 :> 8)
MCWork == MCHeight

MCPoA == {p1, y1, p2, x2, p3, d3}
MCAudits ==
    (p1 :> <<s1, s2>>) @@ (y1 :> <<s1, s4>>) @@ (p2 :> <<s4>>) @@ (x2 :> <<s4, f5>>)
    @@ (p3 :> <<s5, s7>>) @@ (d3 :> <<s4, s5>>)
=============================================================================
