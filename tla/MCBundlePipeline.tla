---------------------------- MODULE MCBundlePipeline ----------------------------
(* Bundles of two types for TLC: one type has its answers reviewed. *)
EXTENDS BundlePipeline, TLC

CONSTANTS b1, b2, quiz, map

TwoTasks == {b1, b2}
TwoTypes == {quiz, map}
Quiz     == {quiz}

\* one task makes a whole bundle, the other one artifact
BundleAndOne == ({b1} \X {"stream"} \X {"bundle"})
                  \cup ({b2} \X {"route", "retry"} \X {"single"})
=============================================================================
