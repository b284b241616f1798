-------------------------- MODULE MCLearningProgress --------------------------
(* Two knowledge points, one idempotency key.                               *)
EXTENDS LearningProgress, TLC

CONSTANTS t1, t2, k1

MCTopics == {t1, t2}
MCKeys == {k1}
MCHints == {0}
MCSymmetry == Permutations(MCTopics)

=============================================================================
