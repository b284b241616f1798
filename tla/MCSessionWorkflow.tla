---------------------------- MODULE MCSessionWorkflow ----------------------------
(* Clients of one session for TLC. *)
EXTENDS SessionWorkflow, TLC

CONSTANTS c1, c2, c3

TwoClients   == {c1, c2}
ThreeClients == {c1, c2, c3}
Symmetry2    == Permutations(TwoClients)
Symmetry3    == Permutations(ThreeClients)

Messages == {"chat", "stream"}
AllKinds == {"chat", "stream", "bundle"}
AllCalls == {"rediagnose", "delete"}
Deletes  == {"delete"}
AllFaults == {"escape", "crash"}
None     == {}
=============================================================================
