------------------------------- MODULE ModelVault -------------------------------
(***************************************************************************)
(* The model profiles of the desktop as values: what a vault holds, when   *)
(* it is valid, which changes the controller refuses and what the others   *)
(* make of it (electron/model-profile-controller.mjs and                   *)
(* model-profile-vault.mjs).  A profile is known by its identifier; of its *)
(* contents the switch and the key are kept, the key standing for the      *)
(* rest.  The order of profiles and of fallbacks, which no property here   *)
(* is about, is not kept.                                                  *)
(***************************************************************************)
EXTENDS Integers, FiniteSets

CONSTANTS Ids,         \* identifiers of profiles
          LegacyId,    \* the identifier a migrated configuration gets
          NoId,        \* null
          Keys,        \* API keys, with the rest of a profile
          NoKey,       \* a blank key
          MaxProfiles  \* profiles a vault may hold (16)

ASSUME VaultAssumption ==
  /\ LegacyId \in Ids /\ NoId \notin Ids
  /\ NoKey \notin Keys
  /\ MaxProfiles \in Nat \ {0}

Profile == [enabled : BOOLEAN, key : Keys]

Vault == [default   : Ids \cup {NoId},
          failover  : BOOLEAN,
          fallbacks : SUBSET Ids,
          profiles  : UNION {[S -> Profile] : S \in SUBSET Ids}]

EmptyVault == [default |-> NoId, failover |-> TRUE, fallbacks |-> {},
               profiles |-> [q \in {} |-> q]]

\* What load makes of a configuration of version 1.
Migrated(key) ==
  [default |-> LegacyId, failover |-> TRUE, fallbacks |-> {},
   profiles |-> [p \in {LegacyId} |-> [enabled |-> TRUE, key |-> key]]]

FewEnough(v) == Cardinality(DOMAIN v.profiles) <= MaxProfiles

\* Default and fallbacks fit the profiles: what normalizeVault asks of a vault, and the
\* backend of a snapshot.  normalizeVault would fill in a missing default.
Consistent(v) ==
  /\ IF DOMAIN v.profiles = {}
       THEN v.default = NoId /\ v.fallbacks = {}
       ELSE v.default \in DOMAIN v.profiles /\ v.profiles[v.default].enabled
  /\ v.fallbacks \subseteq DOMAIN v.profiles \ {v.default}

Valid(v) == FewEnough(v) /\ Consistent(v)

-----------------------------------------------------------------------------
(* The changes a settings page can ask for, as ipc-contract.mjs lets them through *)

Upserts  == [kind : {"upsert"}, id : Ids, enabled : BOOLEAN, key : Keys \cup {NoKey}]
Legacies == [kind : {"legacy"}, key : Keys \cup {NoKey}]
Removals == [kind : {"remove"}, id : Ids]
Policies == {p \in [kind : {"policy"}, default : Ids \cup {NoId},
                    failover : BOOLEAN, fallbacks : SUBSET Ids] :
               p.default \notin p.fallbacks}

Changes == Upserts \cup Legacies \cup Removals \cup Policies

\* the old settings page knows one profile: the default one
Target(i, v) ==
  IF i.kind # "legacy" THEN i.id
  ELSE IF v.default = NoId THEN LegacyId ELSE v.default

\* A blank key stands for the one the profile has.
KeyOf(i, v) ==
  IF i.key # NoKey THEN i.key
  ELSE IF Target(i, v) \in DOMAIN v.profiles THEN v.profiles[Target(i, v)].key
  ELSE NoKey

Switch(i) == IF i.kind = "legacy" THEN TRUE ELSE i.enabled

With(v, id, p)  == [q \in DOMAIN v.profiles \cup {id} |-> IF q = id THEN p ELSE v.profiles[q]]
Without(v, id)  == [q \in DOMAIN v.profiles \ {id} |-> v.profiles[q]]
SomeEnabled(ps) == \E q \in DOMAIN ps : ps[q].enabled

Candidate(i, v) == With(v, Target(i, v), [enabled |-> Switch(i), key |-> KeyOf(i, v)])

NeedsKey(i, v) == KeyOf(i, v) = NoKey

\* DisablesDefault, if the default profile could be switched off.
DisablesDefault_Never(i, v) == FALSE

DisablesDefault(i, v) == Target(i, v) = v.default /\ ~Switch(i)

UpsertRefused(i, v) ==
  \/ NeedsKey(i, v)
  \/ ~SomeEnabled(Candidate(i, v))
  \/ DisablesDefault(i, v)

RemovalRefused(i, v) ==
  \/ v.default = i.id
  \/ i.id \notin DOMAIN v.profiles
  \/ ~SomeEnabled(Without(v, i.id))

PolicyRefused(i, v) ==
  \/ DOMAIN v.profiles # {} /\ i.default = NoId
  \/ i.default # NoId /\ i.default \notin DOMAIN v.profiles
  \/ i.default \in DOMAIN v.profiles /\ ~v.profiles[i.default].enabled
  \/ ~(i.fallbacks \subseteq DOMAIN v.profiles)

Refused(i, v) ==
  CASE i.kind \in {"upsert", "legacy"} -> UpsertRefused(i, v)
    [] i.kind = "remove" -> RemovalRefused(i, v)
    [] i.kind = "policy" -> PolicyRefused(i, v)

\* New and enabled profiles are tried out first.
NeedsTest(i, v) ==
  /\ i.kind \in {"upsert", "legacy"}
  /\ Target(i, v) \notin DOMAIN v.profiles \/ Switch(i)

Changed(i, v) ==
  CASE i.kind \in {"upsert", "legacy"} ->
         [v EXCEPT !.default = IF @ = NoId THEN Target(i, v) ELSE @,
                   !.profiles = Candidate(i, v)]
    [] i.kind = "remove" ->
         [v EXCEPT !.fallbacks = @ \ {i.id}, !.profiles = Without(v, i.id)]
    [] i.kind = "policy" ->
         [v EXCEPT !.default = i.default, !.failover = i.failover, !.fallbacks = i.fallbacks]
=============================================================================
