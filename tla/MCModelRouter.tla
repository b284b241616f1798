----------------------------- MODULE MCModelRouter -----------------------------
(***************************************************************************)
(* Small instances of ModelRouter: a profile and its fallback.             *)
(***************************************************************************)
EXTENDS ModelRouter

CONSTANTS c1, c2, p1, p2

OneCooldown == <<1>>
LongCooldown == <<2>>

\* p1 is the default, p2 its fallback
BackedUp == [default |-> p1, failover |-> TRUE, fallbacks |-> <<p2>>,
             enabled |-> {p1, p2}]

\* p2 is disabled
Single == [BackedUp EXCEPT !.enabled = {p1}]

OneConfig     == {NoConfig, BackedUp}
OneEnabled    == {NoConfig, Single}

Automatic == [manual |-> FALSE, preferred |-> None, failover |-> "default"]
Manual(p) == [manual |-> TRUE, preferred |-> p, failover |-> "yes"]

OneSelection    == {Automatic}
ThreeSelections == {Automatic, Manual(p1), Manual(p2)}

Symmetry == Permutations(Clients) \cup Permutations(Snapshots)
=============================================================================
