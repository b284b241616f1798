------------------------------ MODULE MCKnowledge ------------------------------
(* Three small instances side by side, told apart by the input: the library *)
(* with two documents, two collections, two requests of several             *)
(* transactions and one job at a time; the vector index with two            *)
(* publications and two queries; and the texts, which need no behaviour: an *)
(* initial state with a text is checked and goes no further.                *)
EXTENDS KnowledgeLibrary, SemanticIndex, DocumentText, TLC

CONSTANTS f1, f2, n1, n2, r1, r2, j1, g1, g2, g3, p1, p2, q1, q2

MCFiles == {f1, f2}
MCCollections == {n1, n2}
MCClients == {r1, r2}
MCJobs == {j1}
MCGenerations == {g1, g2, g3}
MCPublishers == {p1, p2}
MCReaders == {q1, q2}
MCTexts == SeqOf({"x", ".", "/"}, 8) \cup SeqOf({"x", "/"}, 11)
MCCells == {<<>>, <<"x">>, <<"x", "x", "x">>, [i \in 1..9 |-> "x"]}
MCSymmetry == Permutations(MCFiles) \cup Permutations(MCCollections)
              \cup Permutations(MCClients)

IndexInput == [kind |-> "index"]

MCInit == Init /\ IndexInit /\ (input \in {NoInput, IndexInput} \/ AnyInput)
MCNext ==
  /\ \/ input = NoInput /\ Next /\ UNCHANGED indexVars
     \/ input = IndexInput /\ IndexNext /\ UNCHANGED vars
  /\ UNCHANGED input
MCSpec == MCInit /\ [][MCNext]_<<vars, indexVars, input>>

=============================================================================
