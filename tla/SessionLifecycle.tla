---------------------------- MODULE SessionLifecycle ----------------------------
(***************************************************************************)
(* What the workflow promises of one session, as its state, the stable     *)
(* state it falls back to and the version of its profile: the transitions  *)
(* of db.py.  A session that does not exist is a new one.                  *)
(***************************************************************************)
EXTENDS Naturals

VARIABLES state, stable, version

lvars == <<state, stable, version>>

Absent == state = "NEW" /\ stable = "NEW" /\ version = 0

Init == Absent

\* the first message of a session
Begin ==
  /\ state = "NEW"
  /\ state' = "DIAGNOSING" /\ stable' = "DIAGNOSING"
  /\ UNCHANGED version

\* the learner asks for a new diagnosis; until it has a profile, a failure leads back
Restart ==
  /\ state \in {"NEW", "DIAGNOSING", "PROFILED"}
  /\ state' = "DIAGNOSING"
  /\ UNCHANGED <<stable, version>>

Ready ==
  /\ state = "DIAGNOSING"
  /\ state' = "PROFILE_READY"
  /\ UNCHANGED <<stable, version>>

SaveProfile ==
  /\ state = "PROFILE_READY"
  /\ state' = "PROFILED" /\ stable' = "PROFILED"
  /\ version' = version + 1

BeginGeneration ==
  /\ state = "PROFILED"
  /\ state' = "GENERATING"
  /\ UNCHANGED <<stable, version>>

FinishGeneration ==
  /\ state = "GENERATING"
  /\ state' = "PROFILED" /\ stable' = "PROFILED"
  /\ UNCHANGED version

Fail == state' = stable /\ UNCHANGED <<stable, version>>

Delete == state' = "NEW" /\ stable' = "NEW" /\ version' = 0

Next ==
  \/ Begin \/ Restart \/ Ready \/ SaveProfile
  \/ BeginGeneration \/ FinishGeneration \/ Fail \/ Delete

Spec == Init /\ [][Next]_lvars
=============================================================================
