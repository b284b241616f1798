---------------------------- MODULE MCModelProfiles ----------------------------
(***************************************************************************)
(* Two callers and three profiles, of which a vault holds two.             *)
(***************************************************************************)
EXTENDS ModelProfiles

CONSTANTS p1, p2, k1

Policy(d, f, fs) == [kind |-> "policy", default |-> d, failover |-> f, fallbacks |-> fs]

\* adding, switching on and off, keeping the key, the old page, deleting, and policies
Upsert(id, on, key) == [kind |-> "upsert", id |-> id, enabled |-> on, key |-> key]

SomeChanges ==
  {Upsert(p1, TRUE, k1), Upsert(p1, FALSE, NoKey), Upsert(p2, TRUE, k1)}
    \cup [kind : {"legacy"}, key : {k1}]
    \cup [kind : {"remove"}, id : {LegacyId, p1}]
    \cup {Policy(p1, TRUE, {}), Policy(LegacyId, TRUE, {p1}), Policy(NoId, TRUE, {})}
=============================================================================
