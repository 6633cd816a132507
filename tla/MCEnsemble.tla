------------------------------ MODULE MCEnsemble ------------------------------
(* The ensemble with the configured tiers.  Detection is certain of a secret;   *)
(* the models can report three findings at one spot, of which one is not quite   *)
(* confident enough and one has no CWE but the title of the CWE of the others,    *)
(* so that it sorts first; and one outside the changed lines.  The secret and one  *)
(* of the two findings of equal CWE and weight have the score 60 together.     *)
EXTENDS LLMEnsemble

MCDet == {"secret"}
MCChanged == {"csrf", "bare", "doubt"}
MCRaw == MCChanged \cup {"stray"}
MCFindings == MCDet \cup MCRaw

MCSeverity == [f \in MCFindings |->
  CASE f \in {"secret", "csrf", "doubt"} -> "high" [] f = "stray" -> "critical" [] OTHER -> "low"]

MCCwe == [f \in MCFindings |->
  CASE f = "secret" -> "CWE-798" [] f \in {"stray", "bare"} -> "" [] OTHER -> "CWE-352"]

MCRule == [f \in MCFindings |-> IF f = "secret" THEN "secret:high-entropy" ELSE "llm:judge"]

MCPlace == [f \in MCRaw |-> CASE f = "bare" -> 1 [] f = "stray" -> 3 [] OTHER -> 2]
MCSpot == [f \in MCRaw |-> IF f = "stray" THEN 2 ELSE 1]
MCConfidence == [f \in MCRaw |->
  CASE f = "csrf" -> 90 [] f = "bare" -> 80 [] f = "doubt" -> 79 [] OTHER -> 100]

MCScore == [K \in SUBSET MCFindings |-> 0]

MCPrimary == [detector_a |-> "local-secure", detector_b |-> "cloud-generalist",
              judge |-> "cloud-judge"]
=============================================================================
