------------------------------ MODULE SafetyNet ------------------------------
(***************************************************************************)
(* What the deterministic detectors promise to the rest of a scan, "the safety  *)
(* net" of pipeline/deterministic_stage.py: of the secrets in the changed code    *)
(* that the host's parser shows none is missed, and nothing is reported but what  *)
(* it shows, by code detectors for code and by "sca" for dependencies; or the     *)
(* stage raises and reports nothing at all. The parser shows the changed code,     *)
(* all of it and nothing else, if it shows the lines whole; of one that tears      *)
(* them (gitlab.py:229) that is not promised. ScanPipeline relies on this of its   *)
(* detectors.                                                                *)
(***************************************************************************)
EXTENDS Naturals

CONSTANTS
  CodeTools,    \* detectors that read code; "secrets" is one of them
  Places        \* where something can be reported

VARIABLES
  net,     \* "open", then "ready" once it has lines to look at, then "done" or "raised"
  code,    \* the changed code
  shown,   \* what the parser takes for changed code
  whole,   \* the parser shows the lines as they are
  deps,    \* the changed dependencies
  found    \* what is reported: pairs of a detector and a place

nVars == <<net, code, shown, whole, deps, found>>

NInit == net = "open" /\ code = {} /\ shown = {} /\ whole = TRUE /\ deps = {} /\ found = {}

Submit ==
  /\ net = "open"
  /\ net' = "ready"
  /\ code' \in SUBSET Places
  /\ shown' \in SUBSET Places
  /\ whole' \in BOOLEAN
  /\ whole' => shown' = code'
  /\ deps' \in SUBSET Places
  /\ UNCHANGED found

Detect ==
  /\ net = "ready"
  /\ net' = "done"
  /\ {"secrets"} \X shown \subseteq found'
  /\ found' \subseteq (CodeTools \X shown) \cup ({"sca"} \X deps)
  /\ UNCHANGED <<code, shown, whole, deps>>

Raise ==
  /\ net = "ready"
  /\ net' = "raised"
  /\ UNCHANGED <<code, shown, whole, deps, found>>

NNext == Submit \/ Detect \/ Raise

NSpec == NInit /\ [][NNext]_nVars
=============================================================================
