----------------------------- MODULE MCRegistry -----------------------------
(* Small instances of the registry: two requests that differ in every column,  *)
(* one of which lists the pattern that the dialog adds as well.               *)
EXTENDS RepoRegistry, TLC

CONSTANTS a1, a2, g1, p1, p2, s1, s2

MCPolicy(gate, block, globs) ==
  [severity_gate |-> gate, merge_block |-> block, ignore_globs |-> globs]

MCAsked ==
  (a1 :> MCPolicy("low", "high", {p1})) @@ (a2 :> MCPolicy("high", "critical", {p2}))

MCSlug == (a1 :> s1) @@ (a2 :> s2)

MCDefaults == MCPolicy("medium", "critical", {})

MCPattern == [g \in Dialogs |-> p1]
=============================================================================
