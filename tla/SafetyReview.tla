------------------------------ MODULE SafetyReview ------------------------------
(***************************************************************************)
(* What the content-safety service decides                                 *)
(* (backend/services/content_safety/service.py, reviewer.py).              *)
(*                                                                         *)
(* A check has two halves: detectors that run in the process, and a        *)
(* reviewer model.  What the detectors say is a record of findings; what   *)
(* the reviewer says is one of four actions, or that no reviewer profile   *)
(* gave a well-formed answer.  The texts themselves are abstracted away.   *)
(***************************************************************************)
SafetyActions == {"ALLOW", "REDACT", "REGENERATE", "BLOCK"}

\* The answers of the candidate profiles, in order; "failed" is a call that failed
\* or an answer that does not parse or is for another stage.  The first one that
\* did not fail decides.
Verdicts == SafetyActions \cup {"unavailable"}

\* detect_structures, validate_citations, redact_personal_data
Findings == [blocking : BOOLEAN, cited : BOOLEAN, personal : BOOLEAN]

\* evaluate_request: what the detectors make of a message
Requests == {"ALLOW", "REDACT", "BLOCK"}

\* gate_request: the reviewer may ask for a redaction only where one was made
GateRequest(local, verdict) ==
  CASE local = "BLOCK"                            -> "blocked"
    [] local # "BLOCK" /\ verdict = "unavailable" -> "unavailable"
    [] local # "BLOCK" /\ verdict = "ALLOW"       -> "passed"
    [] local = "REDACT" /\ verdict = "REDACT"     -> "passed"
    [] OTHER                                      -> "blocked"

\* review_plan: nothing short of ALLOW is good enough for a plan
ReviewPlan(blocking, verdict) ==
  CASE blocking                               -> "blocked"
    [] ~blocking /\ verdict = "unavailable"   -> "unavailable"
    [] ~blocking /\ verdict = "ALLOW"         -> "passed"
    [] OTHER                                  -> "blocked"

\* review_artifact: the action, and whether a redacted artifact comes with it.
\* A REDACT of the reviewer's own is passed on as it is, without an artifact.
ReviewArtifact(found, verdict) ==
  CASE found.blocking \/ ~found.cited -> [action |-> "REGENERATE", artifact |-> FALSE]
    [] ~found.blocking /\ found.cited /\ verdict = "ALLOW" ->
         [action |-> IF found.personal THEN "REDACT" ELSE "ALLOW", artifact |-> TRUE]
    [] ~found.blocking /\ found.cited /\ verdict = "REDACT" ->
         [action |-> "REDACT", artifact |-> found.personal]
    [] OTHER -> [action |-> verdict, artifact |-> FALSE]

\* What the callers may get
PlanReviews     == {ReviewPlan(blocking, v) : blocking \in BOOLEAN, v \in Verdicts}
ArtifactReviews == {ReviewArtifact(f, v) : f \in Findings, v \in Verdicts}
GateResults     == {GateRequest(local, v) : local \in Requests, v \in Verdicts}
=============================================================================
