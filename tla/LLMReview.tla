------------------------------ MODULE LLMReview ------------------------------
(***************************************************************************)
(* What the runner relies on of the LLM stage (RunLLM of ScanPipeline): it    *)
(* ends in one step that adds findings on changed lines and removes none.     *)
(***************************************************************************)

CONSTANTS Det, Changed

VARIABLES found, done

Init == found = Det /\ done = FALSE

Finish ==
  /\ ~ done
  /\ done' = TRUE
  /\ found \subseteq found'
  /\ found' \subseteq found \cup Changed

Spec == Init /\ [][Finish]_<<found, done>>

=============================================================================
