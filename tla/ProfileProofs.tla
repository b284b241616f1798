------------------------------ MODULE ProfileProofs ------------------------------
(***************************************************************************)
(* Proofs about ModelVault and ModelProfiles: what the controller lets     *)
(* through is a consistent vault; between two changes vault and backend    *)
(* agree, or recovery is required; and each change is made as a whole.     *)
(***************************************************************************)
EXTENDS ModelProfiles, FiniteSetTheorems, TLAPS

-----------------------------------------------------------------------------
(* Vaults *)

Profiles == UNION {[S -> Profile] : S \in SUBSET Ids}

LEMMA ProfilesType ==
  ASSUME NEW f PROVE f \in Profiles <=> f \in [DOMAIN f -> Profile] /\ DOMAIN f \in SUBSET Ids
  <1>1. ASSUME f \in Profiles PROVE f \in [DOMAIN f -> Profile] /\ DOMAIN f \in SUBSET Ids
    <2>1. PICK S \in SUBSET Ids : f \in [S -> Profile] BY <1>1 DEF Profiles
    <2>2. DOMAIN f = S BY <2>1
    <2> QED BY <2>1, <2>2
  <1>2. ASSUME f \in [DOMAIN f -> Profile], DOMAIN f \in SUBSET Ids PROVE f \in Profiles
    BY <1>2 DEF Profiles
  <1> QED BY <1>1, <1>2

LEMMA VaultType ==
  Vault = [default : Ids \cup {NoId}, failover : BOOLEAN, fallbacks : SUBSET Ids,
           profiles : Profiles]
  BY DEF Vault, Profiles

LEMMA WithType ==
  ASSUME NEW v \in Vault, NEW id \in Ids, NEW p \in Profile
  PROVE  /\ With(v, id, p) \in Profiles
         /\ DOMAIN With(v, id, p) = DOMAIN v.profiles \cup {id}
         /\ \A q \in DOMAIN v.profiles \cup {id} :
              With(v, id, p)[q] = IF q = id THEN p ELSE v.profiles[q]
  <1>1. v.profiles \in [DOMAIN v.profiles -> Profile] /\ DOMAIN v.profiles \in SUBSET Ids
    BY ProfilesType, VaultType
  <1>2. With(v, id, p) \in [DOMAIN v.profiles \cup {id} -> Profile]
    BY <1>1 DEF With
  <1>3. With(v, id, p) \in Profiles
    BY <1>1, <1>2 DEF Profiles
  <1> QED BY <1>2, <1>3 DEF With

LEMMA WithoutType ==
  ASSUME NEW v \in Vault, NEW id
  PROVE  /\ Without(v, id) \in Profiles
         /\ DOMAIN Without(v, id) = DOMAIN v.profiles \ {id}
         /\ \A q \in DOMAIN v.profiles \ {id} : Without(v, id)[q] = v.profiles[q]
  <1>1. v.profiles \in [DOMAIN v.profiles -> Profile] /\ DOMAIN v.profiles \in SUBSET Ids
    BY ProfilesType, VaultType
  <1>2. Without(v, id) \in [DOMAIN v.profiles \ {id} -> Profile]
    BY <1>1 DEF Without
  <1>3. Without(v, id) \in Profiles
    BY <1>1, <1>2 DEF Profiles
  <1> QED BY <1>2, <1>3 DEF Without

LEMMA EmptyVaultType == EmptyVault \in Vault /\ Valid(EmptyVault)
  <1>1. EmptyVault.profiles \in [{} -> Profile] BY DEF EmptyVault
  <1>2. EmptyVault.profiles \in Profiles BY <1>1 DEF Profiles
  <1>3. EmptyVault \in Vault BY <1>2, VaultType DEF EmptyVault
  <1>4. DOMAIN EmptyVault.profiles = {} BY DEF EmptyVault
  <1>5. FewEnough(EmptyVault) BY <1>4, FS_EmptySet, VaultAssumption DEF FewEnough
  <1>6. Consistent(EmptyVault) BY <1>4 DEF Consistent, EmptyVault
  <1> QED BY <1>3, <1>5, <1>6 DEF Valid

LEMMA MigratedType ==
  ASSUME NEW k \in Keys PROVE Migrated(k) \in Vault /\ Valid(Migrated(k))
  <1>1. Migrated(k).profiles \in [{LegacyId} -> Profile] BY DEF Migrated, Profile
  <1>2. Migrated(k).profiles \in Profiles BY <1>1, VaultAssumption DEF Profiles
  <1>3. Migrated(k) \in Vault BY <1>2, VaultType, VaultAssumption DEF Migrated
  <1>4. DOMAIN Migrated(k).profiles = {LegacyId} BY DEF Migrated
  <1>5. FewEnough(Migrated(k))
    BY <1>4, FS_Singleton, VaultAssumption DEF FewEnough
  <1>6. Consistent(Migrated(k)) BY <1>4 DEF Consistent, Migrated
  <1> QED BY <1>3, <1>5, <1>6 DEF Valid

-----------------------------------------------------------------------------
(* Changes *)

LEMMA TargetType ==
  ASSUME NEW i \in Upserts \cup Legacies, NEW v \in Vault
  PROVE  Target(i, v) \in Ids /\ Switch(i) \in BOOLEAN
  BY VaultAssumption DEF Target, Switch, Upserts, Legacies, Vault

LEMMA KeyType ==
  ASSUME NEW i \in Upserts \cup Legacies, NEW v \in Vault, ~NeedsKey(i, v)
  PROVE  KeyOf(i, v) \in Keys
  <1>1. i.key \in Keys \cup {NoKey} BY DEF Upserts, Legacies
  <1>2. v.profiles \in [DOMAIN v.profiles -> Profile] BY ProfilesType, VaultType
  <1>3. \A q \in DOMAIN v.profiles : v.profiles[q].key \in Keys BY <1>2 DEF Profile
  <1> QED BY <1>1, <1>3 DEF NeedsKey, KeyOf

\* A change that is not refused keeps a consistent vault consistent, whether a profile is
\* added, edited, switched or deleted or the policy is set.
THEOREM ChangeKeepsConsistent ==
  ASSUME NEW i \in Changes, NEW v \in Vault, Consistent(v), ~Refused(i, v)
  PROVE  Changed(i, v) \in Vault /\ Consistent(Changed(i, v))
  <1> DEFINE w == Changed(i, v)
  <1>0. v.default \in Ids \cup {NoId} /\ v.failover \in BOOLEAN /\ v.fallbacks \in SUBSET Ids
        /\ v.profiles \in Profiles
    BY VaultType
  <1>1. CASE i \in Upserts \cup Legacies
    <2>1. i.kind \in {"upsert", "legacy"} BY <1>1 DEF Upserts, Legacies
    <2>2. /\ ~NeedsKey(i, v) /\ SomeEnabled(Candidate(i, v)) /\ ~DisablesDefault(i, v)
      BY <2>1 DEF Refused, UpsertRefused
    <2> DEFINE t == Target(i, v)
               p == [enabled |-> Switch(i), key |-> KeyOf(i, v)]
    <2>3. t \in Ids /\ p \in Profile BY <1>1, <2>2, TargetType, KeyType DEF Profile
    <2>4. Candidate(i, v) = With(v, t, p) BY DEF Candidate
    <2>5. w = [v EXCEPT !.default = IF @ = NoId THEN t ELSE @, !.profiles = Candidate(i, v)]
      BY <2>1 DEF Changed
    <2>6. /\ w.default = IF v.default = NoId THEN t ELSE v.default
          /\ w.fallbacks = v.fallbacks /\ w.profiles = With(v, t, p)
          /\ w \in Vault
      <3>1. With(v, t, p) \in Profiles BY <2>3, WithType
      <3>2. (IF v.default = NoId THEN t ELSE v.default) \in Ids \cup {NoId} BY <1>0, <2>3
      <3> QED BY <1>0, <2>4, <2>5, <3>1, <3>2, VaultType
    <2>7. /\ DOMAIN With(v, t, p) = DOMAIN v.profiles \cup {t}
          /\ \A q \in DOMAIN v.profiles \cup {t} :
               With(v, t, p)[q] = IF q = t THEN p ELSE v.profiles[q]
      <3> HIDE DEF t, p
      <3> QED BY <2>3, WithType
    <2>8. w.profiles[t] = p BY <2>6, <2>7
    <2>9. /\ DOMAIN w.profiles = DOMAIN v.profiles \cup {t}
          /\ \A q \in DOMAIN v.profiles \ {t} : w.profiles[q] = v.profiles[q]
      BY <2>6, <2>7
    <2>10. CASE DOMAIN v.profiles = {}
      <3>1. v.default = NoId /\ v.fallbacks = {} BY <2>10 DEF Consistent
      <3>2. w.default = t /\ w.fallbacks = {} BY <3>1, <2>6
      <3>3. DOMAIN w.profiles = {t} BY <2>9, <2>10
      <3>4. p.enabled
        <4>1. PICK q \in DOMAIN w.profiles : w.profiles[q].enabled
          BY <2>2, <2>4, <2>6 DEF SomeEnabled
        <4> QED BY <4>1, <3>3, <2>8
      <3> QED BY <2>6, <2>8, <3>2, <3>3, <3>4 DEF Consistent
    <2>11. CASE DOMAIN v.profiles # {}
      <3>1. /\ v.default \in DOMAIN v.profiles /\ v.profiles[v.default].enabled
            /\ v.fallbacks \subseteq DOMAIN v.profiles \ {v.default}
        BY <2>11 DEF Consistent
      <3>2. v.default # NoId
        BY <3>1, <1>0, ProfilesType, VaultAssumption
      <3>3. w.default = v.default BY <3>2, <2>6
      <3>4. w.profiles[w.default].enabled
        <4>1. CASE t = v.default
          BY <4>1, <2>2, <2>8, <3>3 DEF DisablesDefault
        <4>2. CASE t # v.default
          BY <4>2, <2>9, <3>1, <3>3
        <4> QED BY <4>1, <4>2
      <3> QED BY <2>6, <2>9, <3>1, <3>3, <3>4 DEF Consistent
    <2> QED BY <2>6, <2>10, <2>11
  <1>2. CASE i \in Removals
    <2>1. i.kind = "remove" /\ i.id \in Ids BY <1>2 DEF Removals
    <2>2. v.default # i.id /\ i.id \in DOMAIN v.profiles
      BY <2>1 DEF Refused, RemovalRefused
    <2>3. w = [v EXCEPT !.fallbacks = @ \ {i.id}, !.profiles = Without(v, i.id)]
      BY <2>1 DEF Changed
    <2>4. /\ w \in Vault /\ w.default = v.default /\ w.fallbacks = v.fallbacks \ {i.id}
          /\ w.profiles = Without(v, i.id)
      <3>1. Without(v, i.id) \in Profiles BY WithoutType
      <3>2. v.fallbacks \ {i.id} \in SUBSET Ids BY <1>0
      <3> QED BY <1>0, <2>3, <3>1, <3>2, VaultType
    <2>5. /\ DOMAIN w.profiles = DOMAIN v.profiles \ {i.id}
          /\ \A q \in DOMAIN v.profiles \ {i.id} : w.profiles[q] = v.profiles[q]
      <3>1. /\ DOMAIN Without(v, i.id) = DOMAIN v.profiles \ {i.id}
            /\ \A q \in DOMAIN v.profiles \ {i.id} : Without(v, i.id)[q] = v.profiles[q]
        BY WithoutType
      <3> QED BY <2>4, <3>1
    <2>6. /\ v.default \in DOMAIN v.profiles /\ v.profiles[v.default].enabled
          /\ v.fallbacks \subseteq DOMAIN v.profiles \ {v.default}
      BY <2>2 DEF Consistent
    <2> QED BY <2>2, <2>4, <2>5, <2>6 DEF Consistent
  <1>3. CASE i \in Policies
    <2>1. /\ i.kind = "policy" /\ i.default \in Ids \cup {NoId} /\ i.failover \in BOOLEAN
          /\ i.fallbacks \in SUBSET Ids /\ i.default \notin i.fallbacks
      BY <1>3 DEF Policies
    <2>2. ~PolicyRefused(i, v) BY <2>1 DEF Refused
    <2>3. w = [v EXCEPT !.default = i.default, !.failover = i.failover,
                        !.fallbacks = i.fallbacks]
      BY <2>1 DEF Changed
    <2>4. /\ w \in Vault /\ w.default = i.default /\ w.fallbacks = i.fallbacks
          /\ w.profiles = v.profiles
      BY <1>0, <2>1, <2>3, VaultType
    <2> QED BY <2>1, <2>2, <2>4 DEF PolicyRefused, Consistent
  <1> QED BY <1>1, <1>2, <1>3 DEF Changes

-----------------------------------------------------------------------------
(* The invariant *)

Active(o) == o.pc \notin {"idle", "queued"}
Open(o)   == o.pc \in {"applying", "restoring", "reapplying"}

\* What a call holds is what the vault was when it began to run: nothing else writes to it.
WorkOk(o) ==
  /\ o.input = NoChange <=> o.pc = "idle"
  /\ o.rollbackFailed => o.pc = "reapplying"
  /\ o.pc \in {"testing", "committing", "saving"} =>
       ~Refused(o.input, Loaded(file)) /\ o.next = Changed(o.input, Loaded(file))
  /\ o.pc = "saving" => o.previous = Loaded(file) /\ o.bytes = file
  /\ Open(o) =>
       /\ ~Refused(o.input, o.previous) /\ o.next = Changed(o.input, o.previous)
       /\ o.previous = Loaded(o.bytes)
       /\ Valid(o.next) /\ (o.bytes # NoFile => Valid(o.bytes))
       /\ file = IF o.pc = "reapplying" /\ ~o.rollbackFailed THEN o.bytes ELSE o.next

Quiet(o) ==
  /\ ~Active(o)
  /\ o.input = NoChange <=> o.pc = "idle"
  /\ ~o.rollbackFailed

FileOk  == file # NoFile => Valid(file)
OneRuns == \A c \in Clients : Active(op[c]) => MayRun(c)
Works   == \A c \in Clients : WorkOk(op[c])
Locked  == recovery => \A c \in Clients : ~Active(op[c])
InApp   == app # "up" => ~recovery /\ \A c \in Clients : op[c].pc = "idle"

ProfileInv == TypeOK /\ FileOk /\ OneRuns /\ Works /\ Locked /\ InApp /\ Agree

LEMMA NoCallType ==
  ASSUME NEW a \in {"none", "ok", "failed", "trouble"}
  PROVE  /\ NoCall \in Call /\ [NoCall EXCEPT !.answer = a] \in Call
         /\ Quiet(NoCall) /\ Quiet([NoCall EXCEPT !.answer = a])
         /\ [NoCall EXCEPT !.answer = a].pc = "idle"
         /\ [NoCall EXCEPT !.answer = a].input = NoChange
         /\ [NoCall EXCEPT !.answer = a].answer = a
         /\ NoCall.pc = "idle" /\ NoCall.input = NoChange /\ NoCall.answer = "none"
  <1>1. NoCall \in Call BY EmptyVaultType DEF NoCall, Call, PCs
  <1>2. [NoCall EXCEPT !.answer = a] \in Call BY <1>1 DEF Call
  <1> QED BY <1>1, <1>2 DEF NoCall, Quiet, Active

\* A vault file that is valid, none, or a migrated one is loaded as a valid vault.
LEMMA LoadedType ==
  ASSUME NEW f \in Vault \cup {NoFile}, f # NoFile => Valid(f), legacy \in Keys \cup {NoKey}
  PROVE  Loaded(f) \in Vault /\ Valid(Loaded(f)) /\ Consistent(Loaded(f))
  <1>1. CASE f # NoFile BY <1>1 DEF Loaded, Valid
  <1>2. CASE f = NoFile /\ legacy = NoKey BY <1>2, EmptyVaultType DEF Loaded, Valid
  <1>3. CASE f = NoFile /\ legacy # NoKey BY <1>3, MigratedType DEF Loaded, Valid
  <1> QED BY <1>1, <1>2, <1>3

\* What a quiet call holds does not depend on the vault.
LEMMA QuietWorks ==
  ASSUME NEW o, Quiet(o) PROVE WorkOk(o) /\ WorkOk(o)'
  BY DEF Quiet, WorkOk, Active, Open

LEMMA IdleQuiet ==
  ASSUME NEW o \in Call, WorkOk(o), ~Active(o) PROVE Quiet(o)
  BY DEF Quiet, WorkOk, Active, Call

\* Who is not at the head of the queue is quiet.
LEMMA OthersQuiet ==
  ASSUME ProfileInv, NEW c \in Clients, MayRun(c)
  PROVE  \A d \in Clients \ {c} : Quiet(op[d])
  <1> SUFFICES ASSUME NEW d \in Clients \ {c} PROVE Quiet(op[d]) OBVIOUS
  <1>1. op[d] \in Call /\ WorkOk(op[d]) BY DEF ProfileInv, TypeOK, Works
  <1>2. ~Active(op[d]) BY DEF ProfileInv, OneRuns, MayRun
  <1> QED BY <1>1, <1>2, IdleQuiet

LEMMA AnswersQuiet ==
  ASSUME ProfileInv, NEW c \in Clients, MayRun(c),
         NEW a \in {"none", "ok", "failed", "trouble"}, Answers(c, a)
  PROVE  /\ op' \in [Clients -> Call] /\ tail' \in Seq(Clients)
         /\ op'[c].pc = "idle" /\ op'[c].input = NoChange /\ op'[c].answer = a
         /\ \A d \in Clients \ {c} : op'[d] = op[d]
         /\ \A d \in Clients : Quiet(op'[d])
  <1>1. op \in [Clients -> Call] /\ tail \in Seq(Clients) /\ tail # <<>>
    BY DEF ProfileInv, TypeOK, MayRun
  <1>2. op'[c] = [NoCall EXCEPT !.answer = a] /\ \A d \in Clients \ {c} : op'[d] = op[d]
    BY <1>1 DEF Answers
  <1>3. op' \in [Clients -> Call] BY <1>1, NoCallType DEF Answers
  <1>4. tail' \in Seq(Clients) BY <1>1 DEF Answers
  <1> QED BY <1>2, <1>3, <1>4, NoCallType, OthersQuiet

\* A step that ends the call at the head keeps the invariant when vault and backend fit.
LEMMA AnswerKeeps ==
  ASSUME ProfileInv, NEW c \in Clients, MayRun(c), app = "up",
         NEW a \in {"none", "ok", "failed", "trouble"}, Answers(c, a), UNCHANGED world,
         file' \in Vault \cup {NoFile}, runtime' \in Vault \cup {NoBackend},
         recovery' \in BOOLEAN, FileOk',
         ~recovery' /\ runtime' # NoBackend => runtime' = Loaded(file)'
  PROVE  ProfileInv'
  <1>1. /\ op' \in [Clients -> Call] /\ tail' \in Seq(Clients)
        /\ \A d \in Clients : Quiet(op'[d])
    BY AnswersQuiet
  <1>2. TypeOK' BY <1>1 DEF ProfileInv, TypeOK, world
  <1>3. \A d \in Clients : ~Active(op'[d]) BY <1>1 DEF Quiet
  <1>4. OneRuns' /\ Locked' BY <1>3 DEF OneRuns, Locked, Active
  <1>5. Works' BY <1>1 DEF Works, WorkOk, Quiet, Active, Open
  <1>6. InApp' BY DEF InApp, world
  <1>7. Agree' BY DEF Agree
  <1> QED BY <1>2, <1>4, <1>5, <1>6, <1>7 DEF ProfileInv

\* So does one that lets it go on, when what it then holds fits as well.
LEMMA MoveKeeps ==
  ASSUME ProfileInv, NEW c \in Clients, MayRun(c), app = "up", ~recovery,
         UNCHANGED <<world, tail, recovery>>,
         op' \in [Clients -> Call], \A d \in Clients \ {c} : op'[d] = op[d],
         op'[c].pc # "idle", WorkOk(op[c])',
         file' \in Vault \cup {NoFile}, runtime' \in Vault \cup {NoBackend}, FileOk',
         ~Open(op'[c]) /\ runtime' # NoBackend => runtime' = Loaded(file)'
  PROVE  ProfileInv'
  <1>1. TypeOK' BY DEF ProfileInv, TypeOK, world
  <1>2. \A d \in Clients \ {c} : Quiet(op'[d]) BY OthersQuiet
  <1>3. OneRuns' BY <1>2 DEF OneRuns, MayRun, Quiet, Active
  <1>4. Works' BY <1>2 DEF Works, WorkOk, Quiet, Active, Open
  <1>5. Locked' /\ InApp' BY DEF Locked, InApp, world
  <1>6. Agree' BY DEF Agree, Unsettled, Open
  <1> QED BY <1>1, <1>3, <1>4, <1>5, <1>6 DEF ProfileInv

\* Before a step of a call, in terms of its pc.
LEMMA AtFacts ==
  ASSUME ProfileInv, NEW c \in Clients, NEW l \in PCs \ {"idle"}, At(c, l)
  PROVE  /\ MayRun(c) /\ op[c] \in Call /\ WorkOk(op[c]) /\ app = "up"
         /\ op[c].input \in Changes
         /\ Loaded(file) \in Vault /\ Valid(Loaded(file)) /\ Consistent(Loaded(file))
         /\ file \in Vault \cup {NoFile} /\ runtime \in Vault \cup {NoBackend}
         /\ legacy \in Keys \cup {NoKey}
         /\ recovery \in BOOLEAN /\ op \in [Clients -> Call]
         /\ l # "queued" => ~recovery
         /\ l \notin {"applying", "restoring", "reapplying"} =>
              (~recovery /\ runtime # NoBackend => runtime = Loaded(file))
  <1>1. MayRun(c) /\ op[c] \in Call /\ WorkOk(op[c]) /\ app = "up" /\ op[c].pc = l
    BY DEF ProfileInv, TypeOK, Works, InApp, At
  <1>2. op[c].input \in Changes BY <1>1 DEF WorkOk, Call
  <1>3. Loaded(file) \in Vault /\ Valid(Loaded(file)) /\ Consistent(Loaded(file))
    BY LoadedType DEF ProfileInv, TypeOK, FileOk
  <1>4. l # "queued" => ~recovery BY <1>1 DEF ProfileInv, Locked, Active
  <1>5. ASSUME l \notin {"applying", "restoring", "reapplying"}
        PROVE ~recovery /\ runtime # NoBackend => runtime = Loaded(file)
    <2>1. Unsettled = {}
      BY <1>1, <1>5, OthersQuiet DEF Unsettled, Quiet, Active
    <2> QED BY <1>1, <2>1 DEF ProfileInv, Agree
  <1> QED BY <1>1, <1>2, <1>3, <1>4, <1>5 DEF ProfileInv, TypeOK

-----------------------------------------------------------------------------
(* Every step keeps the invariant *)

LEMMA ReadKeeps ==
  ASSUME ProfileInv, NEW c \in Clients, Read(c) PROVE ProfileInv'
  <1> DEFINE i == op[c].input
             v == Loaded(file)
  <1>1. At(c, "queued") /\ UNCHANGED <<world, file, runtime, recovery>> BY DEF Read
  <1>2. /\ MayRun(c) /\ op[c] \in Call /\ WorkOk(op[c]) /\ app = "up" /\ i \in Changes
        /\ v \in Vault /\ Consistent(v) /\ op \in [Clients -> Call]
        /\ file \in Vault \cup {NoFile} /\ runtime \in Vault \cup {NoBackend}
        /\ recovery \in BOOLEAN /\ op[c].pc = "queued"
        /\ ~recovery /\ runtime # NoBackend => runtime = v
    BY <1>1, AtFacts DEF PCs, At
  <1>3. FileOk' /\ Loaded(file)' = v
    BY <1>1 DEF ProfileInv, FileOk, Loaded, world, Valid
  <1>4. CASE Answers(c, "failed")
    BY <1>1, <1>2, <1>3, <1>4, AnswerKeeps
  <1>5. CASE /\ ~recovery /\ ~Refused(i, v)
             /\ op' = [op EXCEPT ![c] = [@ EXCEPT
                          !.pc = IF NeedsTest(i, v) THEN "testing" ELSE "committing",
                          !.next = Changed(i, v)]]
             /\ UNCHANGED tail
    <2>1. Changed(i, v) \in Vault BY <1>2, <1>5, ChangeKeepsConsistent
    <2>2. /\ op'[c].pc \in {"testing", "committing"} /\ op'[c].next = Changed(i, v)
          /\ op'[c].input = i /\ op'[c].rollbackFailed = op[c].rollbackFailed
          /\ \A d \in Clients \ {c} : op'[d] = op[d]
      BY <1>2, <1>5 DEF Call
    <2>3. op' \in [Clients -> Call] BY <1>2, <1>5, <2>1 DEF Call, PCs
    <2>4. WorkOk(op[c])'
      BY <1>2, <1>3, <1>5, <2>2, ProfilesAssumption DEF WorkOk, Open
    <2>5. op'[c].pc # "idle" /\ ~Open(op'[c]) BY <2>2 DEF Open
    <2> QED BY <1>1, <1>2, <1>3, <1>5, <2>2, <2>3, <2>4, <2>5, MoveKeeps
  <1> QED BY <1>4, <1>5 DEF Read, Throws

LEMMA TestKeeps ==
  ASSUME ProfileInv, NEW c \in Clients, Test(c) PROVE ProfileInv'
  <1>1. At(c, "testing") /\ UNCHANGED <<world, file, runtime, recovery>> BY DEF Test
  <1>2. /\ MayRun(c) /\ op[c] \in Call /\ WorkOk(op[c]) /\ app = "up" /\ ~recovery
        /\ op \in [Clients -> Call]
        /\ file \in Vault \cup {NoFile} /\ runtime \in Vault \cup {NoBackend}
        /\ recovery \in BOOLEAN /\ op[c].pc = "testing"
        /\ runtime # NoBackend => runtime = Loaded(file)
    BY <1>1, AtFacts DEF PCs, At
  <1>3. FileOk' /\ Loaded(file)' = Loaded(file)
    BY <1>1 DEF ProfileInv, FileOk, Loaded, world, Valid
  <1>4. CASE Answers(c, "failed")
    BY <1>1, <1>2, <1>3, <1>4, AnswerKeeps
  <1>5. CASE Moves(c, "committing")
    <2>1. /\ op'[c] = [op[c] EXCEPT !.pc = "committing"] /\ UNCHANGED tail
          /\ \A d \in Clients \ {c} : op'[d] = op[d]
      BY <1>2, <1>5 DEF Moves
    <2>2. op' \in [Clients -> Call] BY <1>2, <1>5 DEF Moves, Call, PCs
    <2>3. WorkOk(op[c])' BY <1>2, <1>3, <2>1 DEF WorkOk, Open, Call
    <2>4. op'[c].pc # "idle" /\ ~Open(op'[c]) BY <1>2, <2>1 DEF Open, Call
    <2> QED BY <1>1, <1>2, <1>3, <2>1, <2>2, <2>3, <2>4, MoveKeeps
  <1> QED BY <1>4, <1>5 DEF Test

LEMMA RememberKeeps ==
  ASSUME ProfileInv, NEW c \in Clients, Remember(c) PROVE ProfileInv'
  <1>1. At(c, "committing") /\ UNCHANGED <<world, file, runtime, recovery>> BY DEF Remember
  <1>2. /\ MayRun(c) /\ op[c] \in Call /\ WorkOk(op[c]) /\ app = "up" /\ ~recovery
        /\ op \in [Clients -> Call] /\ Loaded(file) \in Vault
        /\ file \in Vault \cup {NoFile} /\ runtime \in Vault \cup {NoBackend}
        /\ recovery \in BOOLEAN /\ op[c].pc = "committing"
        /\ runtime # NoBackend => runtime = Loaded(file)
    BY <1>1, AtFacts DEF PCs, At
  <1>3. FileOk' /\ Loaded(file)' = Loaded(file)
    BY <1>1 DEF ProfileInv, FileOk, Loaded, world, Valid
  <1>4. CASE Answers(c, "failed")
    BY <1>1, <1>2, <1>3, <1>4, AnswerKeeps
  <1>5. CASE /\ op' = [op EXCEPT ![c] = [@ EXCEPT !.pc = "saving", !.previous = Loaded(file),
                                                !.bytes = file]]
             /\ UNCHANGED tail
    <2>1. /\ op'[c] = [op[c] EXCEPT !.pc = "saving", !.previous = Loaded(file), !.bytes = file]
          /\ \A d \in Clients \ {c} : op'[d] = op[d]
      BY <1>2, <1>5
    <2>2. op' \in [Clients -> Call] BY <1>2, <1>5 DEF Call, PCs
    <2>3. WorkOk(op[c])' BY <1>1, <1>2, <1>3, <2>1 DEF WorkOk, Open, Call
    <2>4. op'[c].pc # "idle" /\ ~Open(op'[c]) BY <1>2, <2>1 DEF Open, Call
    <2> QED BY <1>1, <1>2, <1>3, <1>5, <2>1, <2>2, <2>3, <2>4, MoveKeeps
  <1> QED BY <1>4, <1>5 DEF Remember, Throws

LEMMA SaveKeeps ==
  ASSUME ProfileInv, NEW c \in Clients, Save(c) PROVE ProfileInv'
  <1>1. At(c, "saving") /\ UNCHANGED <<world, runtime, recovery>> BY DEF Save
  <1>2. /\ MayRun(c) /\ op[c] \in Call /\ WorkOk(op[c]) /\ app = "up" /\ ~recovery
        /\ op \in [Clients -> Call] /\ Loaded(file) \in Vault
        /\ file \in Vault \cup {NoFile} /\ runtime \in Vault \cup {NoBackend}
        /\ recovery \in BOOLEAN /\ op[c].pc = "saving"
        /\ runtime # NoBackend => runtime = Loaded(file)
    BY <1>1, AtFacts DEF PCs, At
  <1>3. CASE Answers(c, "failed") /\ UNCHANGED file
    <2>1. FileOk' /\ Loaded(file)' = Loaded(file)
      BY <1>1, <1>3 DEF ProfileInv, FileOk, Loaded, world, Valid
    <2> QED BY <1>1, <1>2, <1>3, <2>1, AnswerKeeps
  <1>4. CASE Valid(op[c].next) /\ file' = op[c].next /\ Moves(c, "applying")
    <2>1. /\ op'[c] = [op[c] EXCEPT !.pc = "applying"] /\ UNCHANGED tail
          /\ \A d \in Clients \ {c} : op'[d] = op[d]
      BY <1>2, <1>4 DEF Moves
    <2>2. op' \in [Clients -> Call] BY <1>2, <1>4 DEF Moves, Call, PCs
    <2>3. file' \in Vault /\ FileOk' BY <1>2, <1>4 DEF Call, FileOk, Valid
    <2>4. Loaded(op[c].bytes)' = Loaded(op[c].bytes)' /\ legacy' = legacy BY <1>1 DEF world
    <2>5. /\ op'[c].pc = "applying" /\ op'[c].input = op[c].input
          /\ op'[c].rollbackFailed = op[c].rollbackFailed /\ op'[c].next = op[c].next
          /\ op'[c].previous = op[c].previous /\ op'[c].bytes = op[c].bytes
      BY <1>2, <2>1 DEF Call
    <2>6. /\ op[c].input # NoChange /\ ~op[c].rollbackFailed
          /\ ~Refused(op[c].input, Loaded(file))
          /\ op[c].next = Changed(op[c].input, Loaded(file))
          /\ op[c].previous = Loaded(file) /\ op[c].bytes = file
      BY <1>2 DEF WorkOk
    <2>7. op'[c].bytes # NoFile => Valid(op'[c].bytes)
      BY <2>5, <2>6 DEF ProfileInv, FileOk
    <2>8. op'[c].previous = Loaded(op[c].bytes)'
      BY <2>4, <2>5, <2>6 DEF Loaded
    <2>9. WorkOk(op[c])'
      BY <1>4, <2>5, <2>6, <2>7, <2>8 DEF WorkOk, Open, Valid
    <2> QED BY <1>1, <1>2, <1>4, <2>1, <2>2, <2>3, <2>5, <2>9, MoveKeeps DEF Open
  <1> QED BY <1>3, <1>4 DEF Save

\* What an open call knows: the vault is a consistent one, new or old.
LEMMA OpenFacts ==
  ASSUME ProfileInv, NEW c \in Clients, NEW l \in {"applying", "restoring", "reapplying"},
         At(c, l)
  PROVE  /\ MayRun(c) /\ app = "up" /\ ~recovery /\ recovery \in BOOLEAN
         /\ op[c] \in Call /\ op \in [Clients -> Call] /\ WorkOk(op[c]) /\ op[c].pc = l
         /\ Open(op[c])
         /\ file \in Vault \cup {NoFile} /\ runtime \in Vault \cup {NoBackend}
         /\ op[c].next \in Vault /\ op[c].previous \in Vault
         /\ op[c].bytes \in Vault \cup {NoFile} /\ FileOk
         /\ op[c].next # NoFile /\ op[c].next # NoBackend /\ op[c].previous # NoBackend
  <1>1. l \in PCs \ {"idle"} /\ l # "queued" BY DEF PCs
  <1>2. /\ MayRun(c) /\ app = "up" /\ ~recovery /\ recovery \in BOOLEAN
        /\ op[c] \in Call /\ op \in [Clients -> Call] /\ WorkOk(op[c]) /\ op[c].pc = l
        /\ file \in Vault \cup {NoFile} /\ runtime \in Vault \cup {NoBackend}
    BY <1>1, AtFacts DEF At
  <1> QED BY <1>2, ProfilesAssumption DEF Call, Open, ProfileInv

LEMMA ApplyKeeps ==
  ASSUME ProfileInv, NEW c \in Clients, Apply(c) PROVE ProfileInv'
  <1>1. At(c, "applying") /\ UNCHANGED <<world, file, recovery>> BY DEF Apply
  <1>2. /\ MayRun(c) /\ app = "up" /\ ~recovery /\ recovery \in BOOLEAN
        /\ op[c] \in Call /\ op \in [Clients -> Call] /\ WorkOk(op[c])
        /\ op[c].pc = "applying" /\ Open(op[c])
        /\ file \in Vault \cup {NoFile} /\ runtime \in Vault \cup {NoBackend}
        /\ op[c].next \in Vault /\ op[c].next # NoFile /\ FileOk
    BY <1>1, OpenFacts
  <1>3. file = op[c].next BY <1>2 DEF WorkOk
  <1>4. FileOk' BY <1>1, <1>2 DEF FileOk, Valid
  <1>5. CASE Serves(op[c].next) /\ Answers(c, "ok")
    <2>1. runtime' = op[c].next BY <1>5 DEF Serves
    <2>2. Loaded(file)' = op[c].next BY <1>1, <1>2, <1>3 DEF Loaded
    <2> QED BY <1>1, <1>2, <1>4, <1>5, <2>1, <2>2, AnswerKeeps
  <1>6. CASE (Serves(op[c].next) \/ UNCHANGED runtime) /\ Moves(c, "restoring")
    <2>1. runtime' \in Vault \cup {NoBackend} BY <1>2, <1>6 DEF Serves
    <2>2. /\ op'[c] = [op[c] EXCEPT !.pc = "restoring"] /\ UNCHANGED tail
          /\ \A d \in Clients \ {c} : op'[d] = op[d]
      BY <1>2, <1>6 DEF Moves
    <2>3. op' \in [Clients -> Call] BY <1>2, <1>6 DEF Moves, Call, PCs
    <2>4. legacy' = legacy BY <1>1 DEF world
    <2>5. op'[c].pc = "restoring" BY <1>2, <2>2 DEF Call
    <2>6. WorkOk(op[c])' BY <1>1, <1>2, <2>2, <2>4 DEF WorkOk, Open, Call, Loaded, Valid
    <2> QED BY <1>1, <1>2, <1>4, <2>1, <2>2, <2>3, <2>5, <2>6, MoveKeeps DEF Open
  <1> QED BY <1>5, <1>6 DEF Apply

LEMMA RestoreKeeps ==
  ASSUME ProfileInv, NEW c \in Clients, Restore(c) PROVE ProfileInv'
  <1>1. At(c, "restoring") /\ UNCHANGED <<world, runtime, recovery>> BY DEF Restore
  <1>2. /\ MayRun(c) /\ app = "up" /\ ~recovery /\ recovery \in BOOLEAN
        /\ op[c] \in Call /\ op \in [Clients -> Call] /\ WorkOk(op[c])
        /\ op[c].pc = "restoring" /\ Open(op[c])
        /\ file \in Vault \cup {NoFile} /\ runtime \in Vault \cup {NoBackend}
        /\ op[c].bytes \in Vault \cup {NoFile} /\ FileOk
    BY <1>1, OpenFacts
  <1>3. legacy' = legacy BY <1>1 DEF world
  <1>4. CASE file' = op[c].bytes /\ Moves(c, "reapplying")
    <2>1. /\ op'[c] = [op[c] EXCEPT !.pc = "reapplying"] /\ UNCHANGED tail
          /\ \A d \in Clients \ {c} : op'[d] = op[d]
      BY <1>2, <1>4 DEF Moves
    <2>2. op' \in [Clients -> Call] BY <1>2, <1>4 DEF Moves, Call, PCs
    <2>3. op'[c].pc = "reapplying" BY <1>2, <2>1 DEF Call
    <2>4. FileOk' BY <1>2, <1>4 DEF WorkOk, FileOk, Valid
    <2>5. WorkOk(op[c])' BY <1>2, <1>3, <1>4, <2>1 DEF WorkOk, Open, Call, Loaded, Valid
    <2> QED BY <1>1, <1>2, <1>4, <2>1, <2>2, <2>3, <2>4, <2>5, MoveKeeps DEF Open
  <1>5. CASE /\ op' = [op EXCEPT ![c] = [@ EXCEPT !.pc = "reapplying", !.rollbackFailed = TRUE]]
             /\ UNCHANGED <<file, tail>>
    <2>1. /\ op'[c] = [op[c] EXCEPT !.pc = "reapplying", !.rollbackFailed = TRUE]
          /\ \A d \in Clients \ {c} : op'[d] = op[d]
      BY <1>2, <1>5
    <2>2. op' \in [Clients -> Call] BY <1>2, <1>5 DEF Call, PCs
    <2>3. op'[c].pc = "reapplying" BY <1>2, <2>1 DEF Call
    <2>4. FileOk' BY <1>2, <1>5 DEF FileOk, Valid
    <2>5. WorkOk(op[c])' BY <1>2, <1>3, <1>5, <2>1 DEF WorkOk, Open, Call, Loaded, Valid
    <2> QED BY <1>1, <1>2, <1>5, <2>1, <2>2, <2>3, <2>4, <2>5, MoveKeeps DEF Open
  <1> QED BY <1>4, <1>5 DEF Restore

LEMMA ReapplyKeeps ==
  ASSUME ProfileInv, NEW c \in Clients, Reapply(c) PROVE ProfileInv'
  <1>1. At(c, "reapplying") /\ UNCHANGED <<world, file>> BY DEF Reapply
  <1>2. /\ MayRun(c) /\ app = "up" /\ ~recovery /\ recovery \in BOOLEAN
        /\ op[c] \in Call /\ WorkOk(op[c]) /\ op[c].pc = "reapplying" /\ Open(op[c])
        /\ file \in Vault \cup {NoFile} /\ runtime \in Vault \cup {NoBackend}
        /\ op[c].previous \in Vault /\ FileOk
    BY <1>1, OpenFacts
  <1>3. FileOk' BY <1>1, <1>2 DEF FileOk, Valid
  <1>4. runtime' \in Vault \cup {NoBackend} BY <1>2 DEF Reapply, Serves
  <1>5. CASE Answers(c, "trouble") /\ recovery' = TRUE
    BY <1>1, <1>2, <1>3, <1>4, <1>5, AnswerKeeps
  <1>6. CASE /\ Serves(op[c].previous) /\ ~op[c].rollbackFailed
             /\ Answers(c, "failed") /\ UNCHANGED recovery
    <2>1. runtime' = op[c].previous BY <1>6 DEF Serves
    <2>2. file = op[c].bytes /\ op[c].previous = Loaded(op[c].bytes) BY <1>2, <1>6 DEF WorkOk
    <2>3. Loaded(file)' = Loaded(file) BY <1>1 DEF Loaded, world
    <2> QED BY <1>1, <1>2, <1>3, <1>4, <1>6, <2>1, <2>2, <2>3, AnswerKeeps
  <1> QED BY <1>5, <1>6 DEF Reapply, RollsBack

LEMMA AskKeeps ==
  ASSUME ProfileInv, NEW c \in Clients, NEW i \in Asked, Ask(c, i) PROVE ProfileInv'
  <1>1. /\ app = "up" /\ op[c].pc = "idle" /\ tail' = Append(tail, c)
        /\ UNCHANGED <<world, file, runtime, recovery>>
        /\ op \in [Clients -> Call] /\ tail \in Seq(Clients)
    BY DEF Ask, ProfileInv, TypeOK
  <1>2. /\ op'[c] = [NoCall EXCEPT !.pc = "queued", !.input = i]
        /\ \A d \in Clients \ {c} : op'[d] = op[d]
    BY <1>1 DEF Ask
  <1>3. i \in Changes /\ i # NoChange BY ProfilesAssumption
  <1>4. op'[c] \in Call /\ Quiet(op'[c])
    <2>1. NoCall \in Call BY NoCallType
    <2>2. [NoCall EXCEPT !.pc = "queued", !.input = i] \in Call
      BY <1>3, <2>1 DEF Call, PCs
    <2>3. Quiet([NoCall EXCEPT !.pc = "queued", !.input = i])
      BY <1>3 DEF Quiet, Active, NoCall
    <2> QED BY <1>2, <2>2, <2>3
  <1>5. op' \in [Clients -> Call] BY <1>1, <1>4 DEF Ask
  <1>6. TypeOK' BY <1>1, <1>5 DEF ProfileInv, TypeOK, world
  <1>7. FileOk' /\ Loaded(file)' = Loaded(file)
    BY <1>1 DEF ProfileInv, FileOk, Loaded, world, Valid
  <1>8. OneRuns'
    <2> SUFFICES ASSUME NEW d \in Clients, Active(op'[d]) PROVE MayRun(d)'
      BY DEF OneRuns, Active
    <2>1. d # c /\ op'[d] = op[d] BY <1>2, <1>4 DEF Quiet
    <2>2. MayRun(d) BY <2>1 DEF ProfileInv, OneRuns
    <2> QED BY <1>1, <2>2 DEF MayRun
  <1>9. Works'
    <2> SUFFICES ASSUME NEW d \in Clients PROVE WorkOk(op[d])' BY DEF Works
    <2>1. CASE d = c BY <1>4, <2>1 DEF WorkOk, Quiet, Active, Open
    <2>2. CASE d # c
      <3>1. op'[d] = op[d] /\ WorkOk(op[d]) /\ UNCHANGED <<file, legacy>>
        BY <1>1, <1>2, <2>2 DEF ProfileInv, Works, world
      <3> QED BY <3>1 DEF WorkOk, Loaded, Open, Valid
    <2> QED BY <2>1, <2>2
  <1>10. Locked' BY <1>1, <1>2, <1>4 DEF ProfileInv, Locked, Quiet, Active
  <1>11. InApp' BY <1>1 DEF InApp, world
  <1>12. Agree'
    <2>1. Unsettled' = Unsettled
      BY <1>1, <1>2, <1>4 DEF Unsettled, Quiet, Active
    <2> QED BY <1>1, <1>7, <2>1 DEF ProfileInv, Agree, world
  <1> QED BY <1>6, <1>7, <1>8, <1>9, <1>10, <1>11, <1>12 DEF ProfileInv

\* Whatever else happens to the processes, a call that is not running holds nothing.
LEMMA ProcessKeeps ==
  ASSUME ProfileInv, Start \/ Bootstrap \/ BackendDies \/ LetsGo \/ Stop
  PROVE  ProfileInv'
  <1>0. /\ file \in Vault \cup {NoFile} /\ runtime \in Vault \cup {NoBackend}
        /\ legacy' = legacy /\ file' = file /\ FileOk /\ FileOk'
        /\ Loaded(file) \in Vault /\ Loaded(file)' = Loaded(file)
    BY LoadedType
    DEF ProfileInv, TypeOK, FileOk, Loaded, Valid, Start, Bootstrap, BackendDies, LetsGo,
        Stop, world
  <1>1. runtime' \in Vault \cup {NoBackend}
    BY <1>0, EmptyVaultType
    DEF Start, Bootstrap, BackendDies, LetsGo, Stop, Serves
  <1>2. CASE Start \/ Bootstrap \/ BackendDies \/ LetsGo
    <2>1. UNCHANGED <<op, tail>>
      BY <1>2 DEF Start, Bootstrap, BackendDies, LetsGo
    <2>2. TypeOK' BY <1>0, <1>1, <1>2, <2>1
      DEF ProfileInv, TypeOK, Start, Bootstrap, BackendDies, LetsGo, world
    <2>3. Works' BY <1>0, <2>1 DEF ProfileInv, Works, WorkOk, Open, Loaded, Valid
    <2>4. OneRuns' BY <2>1 DEF ProfileInv, OneRuns, MayRun, Active
    <2>5. Locked' /\ InApp'
      BY <1>2, <2>1
      DEF ProfileInv, Locked, InApp, Active, Start, Bootstrap, BackendDies, LetsGo, world
    <2>6. Agree'
      BY <1>0, <1>2, <2>1
      DEF ProfileInv, Agree, Unsettled, Serves, Start, Bootstrap, BackendDies, LetsGo, world
    <2> QED BY <1>0, <2>2, <2>3, <2>4, <2>5, <2>6 DEF ProfileInv
  <1>3. CASE Stop
    <2>1. /\ op' = [c \in Clients |-> NoCall] /\ tail' = <<>> /\ app' = "down"
          /\ recovery' = FALSE /\ backendRuntime' = FALSE
      BY <1>3 DEF Stop
    <2>2. op' \in [Clients -> Call] /\ \A c \in Clients : Quiet(op'[c])
      BY <2>1, NoCallType
    <2>3. TypeOK'
      <3>1. <<>> \in Seq(Clients) OBVIOUS
      <3>2. tail' \in Seq(Clients) BY <2>1, <3>1
      <3>3. legacy' \in Keys \cup {NoKey} BY <1>0 DEF ProfileInv, TypeOK
      <3> QED BY <1>0, <1>1, <2>1, <2>2, <3>2, <3>3 DEF TypeOK
    <2>4. Works' BY <2>2 DEF Works, WorkOk, Quiet, Active, Open
    <2>5. OneRuns' /\ Locked' BY <2>2 DEF OneRuns, Locked, Quiet, Active
    <2>6. InApp' BY <2>1, NoCallType DEF InApp
    <2>7. Agree' BY <2>1 DEF Agree
    <2> QED BY <1>0, <2>3, <2>4, <2>5, <2>6, <2>7 DEF ProfileInv
  <1> QED BY <1>2, <1>3

LEMMA InitHolds == Init => ProfileInv
  <1> SUFFICES ASSUME Init PROVE ProfileInv OBVIOUS
  <1>1. op \in [Clients -> Call] /\ \A c \in Clients : Quiet(op[c]) /\ op[c].pc = "idle"
    BY NoCallType DEF Init
  <1>2. TypeOK
    <2>1. <<>> \in Seq(Clients) OBVIOUS
    <2> QED BY <1>1, <2>1 DEF Init, TypeOK
  <1>3. Works BY <1>1 DEF Works, WorkOk, Quiet, Active, Open
  <1>4. OneRuns /\ Locked /\ InApp BY <1>1 DEF Init, OneRuns, Locked, InApp, Quiet
  <1>5. FileOk /\ Agree BY DEF Init, FileOk, Agree
  <1> QED BY <1>2, <1>3, <1>4, <1>5 DEF ProfileInv

LEMMA StepKeeps == ProfileInv /\ [Next]_vars => ProfileInv'
  <1> SUFFICES ASSUME ProfileInv, [Next]_vars PROVE ProfileInv' OBVIOUS
  <1>1. CASE UNCHANGED vars
    <2>1. UNCHANGED <<file, legacy, runtime, backendRuntime, app, recovery, tail, op>>
      BY <1>1 DEF vars
    <2>2. TypeOK' /\ FileOk' BY <2>1 DEF ProfileInv, TypeOK, FileOk, Valid
    <2>3. Works' BY <2>1 DEF ProfileInv, Works, WorkOk, Open, Loaded, Valid
    <2>4. OneRuns' /\ Locked' /\ InApp'
      BY <2>1 DEF ProfileInv, OneRuns, Locked, InApp, MayRun, Active
    <2>5. Agree' BY <2>1 DEF ProfileInv, Agree, Unsettled, Loaded
    <2> QED BY <2>2, <2>3, <2>4, <2>5 DEF ProfileInv
  <1>2. CASE \E c \in Clients : Step(c)
    BY <1>2, ReadKeeps, TestKeeps, RememberKeeps, SaveKeeps, ApplyKeeps, RestoreKeeps,
       ReapplyKeeps DEF Step
  <1>3. CASE \E c \in Clients : \E i \in Asked : Ask(c, i)
    BY <1>3, AskKeeps
  <1>4. CASE Start \/ Bootstrap \/ BackendDies \/ LetsGo \/ Stop
    BY <1>4, ProcessKeeps
  <1> QED BY <1>1, <1>2, <1>3, <1>4 DEF Next

\* The inductive invariant of the model settings.
THEOREM ProfileInvariant == Spec => []ProfileInv
  BY InitHolds, StepKeeps, PTL DEF Spec

\* Vault, snapshots and calls keep their types, so every profile that is saved has a key.
THEOREM ProfileTypes == Spec => []TypeOK
  <1>1. ProfileInv => TypeOK BY DEF ProfileInv
  <1> QED BY <1>1, ProfileInvariant, PTL

\* Between two changes the backend serves what the vault holds, or recovery is required.
THEOREM VaultAndBackendAgree == Spec => []Agree
  <1>1. ProfileInv => Agree BY DEF ProfileInv
  <1> QED BY <1>1, ProfileInvariant, PTL

\* What the controller lets through to save is consistent, in every order of changes.
THEOREM SavedChangesAreValid == Spec => []ChangesAreValid
  <1>1. ASSUME ProfileInv PROVE ChangesAreValid
    <2> SUFFICES ASSUME NEW c \in Clients, op[c].pc = "saving"
                 PROVE Consistent(op[c].next)
      BY DEF ChangesAreValid
    <2>1. WorkOk(op[c]) /\ op[c] \in Call BY <1>1 DEF ProfileInv, Works, TypeOK
    <2>2. op[c].input \in Changes BY <2>1 DEF WorkOk, Call
    <2>3. Loaded(file) \in Vault /\ Consistent(Loaded(file))
      BY <1>1, LoadedType DEF ProfileInv, TypeOK, FileOk
    <2> QED BY <2>1, <2>2, <2>3, ChangeKeepsConsistent DEF WorkOk
  <1> QED BY <1>1, ProfileInvariant, PTL

-----------------------------------------------------------------------------
(* The settings change as a whole *)

\* While nothing is open the vault counts, else what the open call would bring back.
LEMMA CurrentIs ==
  /\ (\A d \in Clients : ~Open(op[d])) => Current = Loaded(file)
  /\ \A c \in Clients : Open(op[c]) /\ (\A d \in Clients \ {c} : ~Open(op[d]))
                         => Current = op[c].previous
  <1>1. ASSUME \A d \in Clients : ~Open(op[d]) PROVE Current = Loaded(file)
    BY <1>1 DEF Current, Unsettled, Open
  <1>2. ASSUME NEW c \in Clients, Open(op[c]), \A d \in Clients \ {c} : ~Open(op[d])
        PROVE Current = op[c].previous
    <2>1. Unsettled = {c} BY <1>2 DEF Unsettled, Open
    <2>2. (CHOOSE d \in Unsettled : TRUE) = c BY <2>1
    <2> QED BY <2>1, <2>2 DEF Current
  <1> QED BY <1>1, <1>2

LEMMA CurrentBecomes ==
  /\ (\A d \in Clients : ~Open(op'[d])) => Current' = Loaded(file)'
  /\ \A c \in Clients : Open(op'[c]) /\ (\A d \in Clients \ {c} : ~Open(op'[d]))
                         => Current' = op'[c].previous
  <1>1. ASSUME \A d \in Clients : ~Open(op'[d]) PROVE Current' = Loaded(file)'
    BY <1>1 DEF Current, Unsettled, Open
  <1>2. ASSUME NEW c \in Clients, Open(op'[c]), \A d \in Clients \ {c} : ~Open(op'[d])
        PROVE Current' = op'[c].previous
    <2>1. Unsettled' = {c} BY <1>2 DEF Unsettled, Open
    <2>2. (CHOOSE d \in Unsettled' : TRUE) = c BY <2>1
    <2> QED BY <2>1, <2>2 DEF Current
  <1> QED BY <1>1, <1>2

LEMMA CurrentStays ==
  ASSUME \A d \in Clients : /\ Open(op'[d]) <=> Open(op[d])
                            /\ Open(op[d]) => op'[d].previous = op[d].previous,
         Loaded(file)' = Loaded(file)
  PROVE  Current' = Current
  <1>1. Unsettled' = Unsettled BY DEF Unsettled, Open
  <1>2. CASE Unsettled = {} BY <1>1, <1>2 DEF Current
  <1>3. CASE Unsettled # {}
    <2> DEFINE e == CHOOSE d \in Unsettled : TRUE
    <2>1. e \in Unsettled BY <1>3
    <2>2. e \in Clients /\ Open(op[e]) BY <2>1 DEF Unsettled, Open
    <2>3. Current = op[e].previous BY <1>3 DEF Current
    <2>4. Current' = op'[e].previous BY <1>1, <1>3 DEF Current
    <2> QED BY <2>2, <2>3, <2>4
  <1> QED BY <1>2, <1>3

\* Both specifications speak of the same changes.
LEMMA SameVault ==
  /\ \A i, v : Settings!Refused(i, v) = Refused(i, v) /\ Settings!Changed(i, v) = Changed(i, v)
  /\ Settings!Changes = Changes
  /\ \A v : Settings!Consistent(v) <=> Consistent(v)
  /\ Settings!Vault = Vault
  <1>1. \A i, v : Settings!Refused(i, v) = Refused(i, v)
    BY DEF Target, KeyOf, Switch, With, Without, SomeEnabled, Candidate, NeedsKey,
      DisablesDefault, UpsertRefused, RemovalRefused, PolicyRefused, Refused,
      Settings!Target, Settings!KeyOf, Settings!Switch, Settings!With,
      Settings!Without, Settings!SomeEnabled, Settings!Candidate,
      Settings!NeedsKey, Settings!DisablesDefault, Settings!UpsertRefused,
      Settings!RemovalRefused, Settings!PolicyRefused, Settings!Refused
  <1>2. \A i, v : Settings!Changed(i, v) = Changed(i, v)
    BY DEF Target, KeyOf, Switch, With, Without, Candidate, Changed, Settings!Target,
      Settings!KeyOf, Settings!Switch, Settings!With, Settings!Without,
      Settings!Candidate, Settings!Changed
  <1>3. Settings!Changes = Changes
    BY DEF Changes, Upserts, Legacies, Removals, Policies, Settings!Changes,
      Settings!Upserts, Settings!Legacies, Settings!Removals, Settings!Policies
  <1>4. \A v : Settings!Consistent(v) <=> Consistent(v)
    BY DEF Consistent, Settings!Consistent
  <1>5. Settings!Vault = Vault BY DEF Vault, Profile, Settings!Vault, Settings!Profile
  <1> QED BY <1>1, <1>2, <1>3, <1>4, <1>5

\* A call that is answered, seen from outside.
LEMMA AnswerMaps ==
  ASSUME ProfileInv, NEW c \in Clients, MayRun(c), op[c].input # NoChange,
         NEW a \in {"none", "ok", "failed", "trouble"}, Answers(c, a)
  PROVE  Settings!Answer(c, a) /\ \A d \in Clients : ~Open(op'[d])
  <1>1. /\ op'[c].input = NoChange /\ op'[c].answer = a
        /\ \A d \in Clients \ {c} : op'[d] = op[d]
        /\ \A d \in Clients : Quiet(op'[d])
    BY AnswersQuiet
  <1>2. \A d \in Clients : ~Open(op'[d]) BY <1>1 DEF Quiet, Active, Open
  <1>3. /\ [d \in Clients |-> op'[d].input] = [[d \in Clients |-> op[d].input] EXCEPT ![c] = NoChange]
        /\ [d \in Clients |-> op'[d].answer] = [[d \in Clients |-> op[d].answer] EXCEPT ![c] = a]
        /\ [d \in Clients |-> op[d].input][c] # NoChange
    <2>1. \A d \in Clients : /\ op'[d].input = IF d = c THEN NoChange ELSE op[d].input
                             /\ op'[d].answer = IF d = c THEN a ELSE op[d].answer
      BY <1>1
    <2>2. [d \in Clients |-> op'[d].input]
            = [[d \in Clients |-> op[d].input] EXCEPT ![c] = NoChange]
      BY <2>1
    <2>3. [d \in Clients |-> op'[d].answer]
            = [[d \in Clients |-> op[d].answer] EXCEPT ![c] = a]
      BY <2>1
    <2> QED BY <2>2, <2>3
  <1>4. Settings!Answer(c, a) BY <1>3 DEF Settings!Answer
  <1> QED BY <1>2, <1>4

\* A call that goes on is not seen, when it keeps the configuration.
LEMMA MoveMaps ==
  ASSUME NEW c \in Clients, op' \in [Clients -> Call],
         \A d \in Clients \ {c} : op'[d] = op[d],
         op'[c].input = op[c].input, op'[c].answer = op[c].answer,
         UNCHANGED recovery, Current' = Current
  PROVE  UNCHANGED Settings!avars
  BY DEF Settings!avars

\* Before a step of a call: it alone is open, if it is.
LEMMA CurrentAt ==
  ASSUME ProfileInv, NEW c \in Clients, MayRun(c)
  PROVE  /\ \A d \in Clients \ {c} : ~Open(op[d])
         /\ Open(op[c]) => Current = op[c].previous
         /\ ~Open(op[c]) => Current = Loaded(file)
  <1>1. \A d \in Clients \ {c} : ~Open(op[d])
    BY OthersQuiet DEF Quiet, Active, Open
  <1> QED BY <1>1, CurrentIs

LEMMA RunMaps ==
  ASSUME ProfileInv, NEW c \in Clients, Read(c) \/ Test(c) \/ Remember(c)
  PROVE  Settings!Fail(c) \/ UNCHANGED Settings!avars
  <1>1. PICK l \in {"queued", "testing", "committing"} : At(c, l)
    BY DEF Read, Test, Remember
  <1>2. /\ MayRun(c) /\ op[c] \in Call /\ op[c].input # NoChange /\ op \in [Clients -> Call]
        /\ op[c].pc = l
    BY <1>1, AtFacts, ProfilesAssumption DEF PCs, At
  <1>3. \A d \in Clients : ~Open(op[d]) BY <1>1, <1>2, CurrentAt DEF Open
  <1>4. UNCHANGED recovery /\ Loaded(file)' = Loaded(file)
    BY DEF Read, Test, Remember, world, Loaded
  <1>5. CASE Answers(c, "failed")
    <2>1. Settings!Answer(c, "failed") /\ \A d \in Clients : ~Open(op'[d])
      BY <1>2, <1>5, AnswerMaps
    <2>2. Current' = Current BY <1>3, <1>4, <2>1, CurrentStays
    <2> QED BY <1>4, <2>1, <2>2 DEF Settings!Fail
  <1>6. CASE \E r \in Call : /\ op' = [op EXCEPT ![c] = r]
                             /\ r.input = op[c].input /\ r.answer = op[c].answer
                             /\ ~Open(r)
    <2>1. PICK r \in Call : /\ op' = [op EXCEPT ![c] = r]
                            /\ r.input = op[c].input /\ r.answer = op[c].answer
                            /\ ~Open(r)
      BY <1>6
    <2>2. /\ op' \in [Clients -> Call] /\ op'[c] = r
          /\ \A d \in Clients \ {c} : op'[d] = op[d]
      BY <1>2, <2>1
    <2>3. \A d \in Clients : ~Open(op'[d]) BY <1>3, <2>1, <2>2
    <2>4. Current' = Current BY <1>3, <1>4, <2>3, CurrentStays
    <2> QED BY <1>4, <2>1, <2>2, <2>4, MoveMaps
  <1>7. ASSUME Read(c), ~Answers(c, "failed") PROVE <1>6!1
    <2> DEFINE i == op[c].input
               r == [op[c] EXCEPT !.pc = IF NeedsTest(i, Loaded(file)) THEN "testing"
                                         ELSE "committing",
                                  !.next = Changed(i, Loaded(file))]
    <2>1. op' = [op EXCEPT ![c] = r] BY <1>7, <1>2 DEF Read, Throws
    <2>2. ProfileInv' BY <1>7, ReadKeeps
    <2>3. r \in Call BY <1>2, <2>1, <2>2 DEF ProfileInv, TypeOK
    <2> QED BY <1>2, <2>1, <2>3 DEF Call, Open
  <1>8. ASSUME Test(c), ~Answers(c, "failed") PROVE <1>6!1
    <2> DEFINE r == [op[c] EXCEPT !.pc = "committing"]
    <2>1. op' = [op EXCEPT ![c] = r] BY <1>8, <1>2 DEF Test, Moves
    <2>2. r \in Call BY <1>2 DEF Call, PCs
    <2> QED BY <1>2, <2>1, <2>2 DEF Call, Open
  <1>9. ASSUME Remember(c), ~Answers(c, "failed") PROVE <1>6!1
    <2> DEFINE r == [op[c] EXCEPT !.pc = "saving", !.previous = Loaded(file), !.bytes = file]
    <2>1. op' = [op EXCEPT ![c] = r] BY <1>9, <1>2 DEF Remember, Throws
    <2>2. ProfileInv' BY <1>9, RememberKeeps
    <2>3. r \in Call BY <1>2, <2>1, <2>2 DEF ProfileInv, TypeOK
    <2> QED BY <1>2, <2>1, <2>3 DEF Call, Open
  <1> QED BY <1>5, <1>6, <1>7, <1>8, <1>9

\* Saving a change does not make it count yet.
LEMMA SaveMaps ==
  ASSUME ProfileInv, NEW c \in Clients, Save(c)
  PROVE  Settings!Fail(c) \/ UNCHANGED Settings!avars
  <1>1. /\ At(c, "saving") /\ UNCHANGED <<legacy, recovery>> BY DEF Save, world
  <1>2. /\ MayRun(c) /\ op[c] \in Call /\ op[c].input # NoChange /\ op \in [Clients -> Call]
        /\ op[c].pc = "saving" /\ WorkOk(op[c])
    BY <1>1, AtFacts, ProfilesAssumption DEF PCs, At
  <1>3. \A d \in Clients : ~Open(op[d]) BY <1>2, CurrentAt DEF Open
  <1>4. CASE Answers(c, "failed") /\ UNCHANGED file
    <2>1. Settings!Answer(c, "failed") /\ \A d \in Clients : ~Open(op'[d])
      BY <1>2, <1>4, AnswerMaps
    <2>2. Loaded(file)' = Loaded(file) BY <1>1, <1>4 DEF Loaded
    <2>3. Current' = Current BY <1>3, <2>1, <2>2, CurrentStays
    <2> QED BY <1>1, <2>1, <2>3 DEF Settings!Fail
  <1>5. CASE file' = op[c].next /\ Moves(c, "applying")
    <2>1. /\ op' = [op EXCEPT ![c].pc = "applying"] BY <1>5 DEF Moves
    <2>2. /\ op' \in [Clients -> Call] /\ op'[c] = [op[c] EXCEPT !.pc = "applying"]
          /\ \A d \in Clients \ {c} : op'[d] = op[d]
      BY <1>2, <2>1 DEF Call, PCs
    <2>3. /\ Open(op'[c]) /\ op'[c].previous = op[c].previous
          /\ op'[c].input = op[c].input /\ op'[c].answer = op[c].answer
      BY <1>2, <2>2 DEF Call, Open
    <2>4. Current = Loaded(file) BY <1>3, CurrentIs
    <2>5. op[c].previous = Loaded(file) BY <1>2 DEF WorkOk
    <2>6. Current' = op'[c].previous BY <1>3, <2>2, <2>3, CurrentBecomes
    <2>7. Current' = Current BY <2>3, <2>4, <2>5, <2>6
    <2> QED BY <1>1, <2>2, <2>3, <2>7, MoveMaps
  <1> QED BY <1>4, <1>5 DEF Save

\* It counts once the backend serves it.
LEMMA ApplyMaps ==
  ASSUME ProfileInv, NEW c \in Clients, Apply(c)
  PROVE  Settings!Succeed(c) \/ UNCHANGED Settings!avars
  <1>1. At(c, "applying") /\ UNCHANGED <<legacy, file, recovery>> BY DEF Apply, world
  <1>2. /\ MayRun(c) /\ op[c] \in Call /\ op \in [Clients -> Call] /\ ~recovery
        /\ op[c].pc = "applying" /\ WorkOk(op[c]) /\ Open(op[c]) /\ op[c].next # NoFile
    BY <1>1, OpenFacts
  <1>3. /\ op[c].input # NoChange /\ ~Refused(op[c].input, op[c].previous)
        /\ op[c].next = Changed(op[c].input, op[c].previous) /\ file = op[c].next
    BY <1>2 DEF WorkOk
  <1>4. Current = op[c].previous /\ \A d \in Clients \ {c} : ~Open(op[d])
    BY <1>2, CurrentAt
  <1>5. Loaded(file) = op[c].next /\ Loaded(file)' = op[c].next
    BY <1>1, <1>2, <1>3 DEF Loaded
  <1>6. CASE Answers(c, "ok")
    <2>1. Settings!Answer(c, "ok") /\ \A d \in Clients : ~Open(op'[d])
      BY <1>2, <1>3, <1>6, AnswerMaps
    <2>2. Current' = Changed(op[c].input, Current) BY <1>3, <1>4, <1>5, <2>1, CurrentBecomes
    <2>3. [d \in Clients |-> op[d].input][c] = op[c].input OBVIOUS
    <2> QED BY <1>1, <1>2, <1>3, <1>4, <2>1, <2>2, <2>3, SameVault
      DEF Settings!Succeed
  <1>7. CASE Moves(c, "restoring")
    <2>1. /\ op' = [op EXCEPT ![c].pc = "restoring"] BY <1>7 DEF Moves
    <2>2. /\ op' \in [Clients -> Call] /\ op'[c] = [op[c] EXCEPT !.pc = "restoring"]
          /\ \A d \in Clients \ {c} : op'[d] = op[d]
      BY <1>2, <2>1 DEF Call, PCs
    <2>3. /\ Open(op'[c]) /\ op'[c].previous = op[c].previous
          /\ op'[c].input = op[c].input /\ op'[c].answer = op[c].answer
      BY <1>2, <2>2 DEF Call, Open
    <2>4. Current' = op'[c].previous BY <1>4, <2>2, <2>3, CurrentBecomes
    <2> QED BY <1>1, <1>4, <2>2, <2>3, <2>4, MoveMaps
  <1> QED BY <1>6, <1>7 DEF Apply

LEMMA RestoreMaps ==
  ASSUME ProfileInv, NEW c \in Clients, Restore(c)
  PROVE  UNCHANGED Settings!avars
  <1>1. At(c, "restoring") /\ UNCHANGED recovery BY DEF Restore
  <1>2. /\ MayRun(c) /\ op[c] \in Call /\ op \in [Clients -> Call]
        /\ op[c].pc = "restoring" /\ Open(op[c])
    BY <1>1, OpenFacts
  <1>3. Current = op[c].previous /\ \A d \in Clients \ {c} : ~Open(op[d])
    BY <1>2, CurrentAt
  <1>4. /\ op' \in [Clients -> Call] /\ Open(op'[c]) /\ op'[c].previous = op[c].previous
        /\ op'[c].input = op[c].input /\ op'[c].answer = op[c].answer
        /\ \A d \in Clients \ {c} : op'[d] = op[d]
    <2>1. CASE Moves(c, "reapplying")
      BY <1>2, <2>1 DEF Moves, Call, PCs, Open
    <2>2. CASE op' = [op EXCEPT ![c] = [@ EXCEPT !.pc = "reapplying", !.rollbackFailed = TRUE]]
      <3> DEFINE r == [op[c] EXCEPT !.pc = "reapplying", !.rollbackFailed = TRUE]
      <3>1. r \in Call
        BY <1>2, Zenon DEF Call, PCs
      <3>2. op' = [op EXCEPT ![c] = r]
        BY <2>2, Zenon
      <3>3. /\ r.pc = "reapplying" /\ r.previous = op[c].previous
            /\ r.input = op[c].input /\ r.answer = op[c].answer
        BY <1>2 DEF Call
      <3> QED
        BY <1>2, <3>1, <3>2, <3>3 DEF Open
    <2> QED
      BY <2>1, <2>2 DEF Restore
  <1>5. Current' = op'[c].previous BY <1>3, <1>4, CurrentBecomes
  <1> QED BY <1>1, <1>3, <1>4, <1>5, MoveMaps

\* The old configuration counts again, or it is in doubt whether the new one does.
LEMMA ReapplyMaps ==
  ASSUME ProfileInv, NEW c \in Clients, Reapply(c)
  PROVE  Settings!Fail(c) \/ Settings!Trouble(c)
  <1>1. At(c, "reapplying") /\ UNCHANGED <<legacy, file>> BY DEF Reapply, world
  <1>2. /\ MayRun(c) /\ op[c] \in Call /\ op \in [Clients -> Call] /\ ~recovery
        /\ op[c].pc = "reapplying" /\ WorkOk(op[c]) /\ Open(op[c]) /\ op[c].next # NoFile
    BY <1>1, OpenFacts
  <1>3. /\ op[c].input # NoChange /\ ~Refused(op[c].input, op[c].previous)
        /\ op[c].next = Changed(op[c].input, op[c].previous)
        /\ op[c].previous = Loaded(op[c].bytes)
        /\ file = IF ~op[c].rollbackFailed THEN op[c].bytes ELSE op[c].next
    BY <1>2 DEF WorkOk
  <1>4. Current = op[c].previous BY <1>2, CurrentAt
  <1>5. Loaded(file)' = Loaded(file) BY <1>1 DEF Loaded
  <1>6. [d \in Clients |-> op[d].input][c] = op[c].input OBVIOUS
  <1>7. CASE Answers(c, "failed") /\ ~op[c].rollbackFailed /\ UNCHANGED recovery
    <2>1. Settings!Answer(c, "failed") /\ \A d \in Clients : ~Open(op'[d])
      BY <1>2, <1>3, <1>7, AnswerMaps
    <2>2. Current' = Loaded(file)' BY <2>1, CurrentBecomes
    <2>3. Current' = Current BY <1>3, <1>4, <1>5, <1>7, <2>2
    <2> QED BY <1>7, <2>1, <2>3 DEF Settings!Fail
  <1>8. CASE Answers(c, "trouble") /\ recovery' = TRUE
    <2>1. Settings!Answer(c, "trouble") /\ \A d \in Clients : ~Open(op'[d])
      BY <1>2, <1>3, <1>8, AnswerMaps
    <2>2. Current' = Loaded(file)' BY <2>1, CurrentBecomes
    <2>3. Loaded(op[c].next) = op[c].next BY <1>2 DEF Loaded
    <2>4. Current' \in {Current, Changed(op[c].input, Current)}
      BY <1>3, <1>4, <1>5, <2>2, <2>3
    <2> QED BY <1>2, <1>3, <1>4, <1>6, <1>8, <2>1, <2>4, SameVault
      DEF Settings!Trouble
  <1> QED BY <1>7, <1>8 DEF Reapply, RollsBack

LEMMA AskMaps ==
  ASSUME ProfileInv, NEW c \in Clients, NEW i \in Asked, Ask(c, i)
  PROVE  Settings!Ask(c, i)
  <1>1. /\ op[c].pc = "idle" /\ UNCHANGED <<world, file, runtime, recovery>>
        /\ op' = [op EXCEPT ![c] = [NoCall EXCEPT !.pc = "queued", !.input = i]]
        /\ op \in [Clients -> Call] /\ WorkOk(op[c])
    BY DEF Ask, ProfileInv, TypeOK, Works
  <1>2. op[c].input = NoChange BY <1>1 DEF WorkOk
  <1>3. /\ op'[c].input = i /\ op'[c].answer = "none" /\ ~Open(op'[c]) /\ ~Open(op[c])
        /\ \A d \in Clients \ {c} : op'[d] = op[d]
    BY <1>1 DEF NoCall, Open
  <1>4. Loaded(file)' = Loaded(file) BY <1>1 DEF Loaded, world
  <1>5. Current' = Current
    <2>1. \A d \in Clients : /\ Open(op'[d]) <=> Open(op[d])
                             /\ Open(op[d]) => op'[d].previous = op[d].previous
      BY <1>3
    <2> QED BY <1>4, <2>1, CurrentStays
  <1>6. \A d \in Clients : /\ op'[d].input = IF d = c THEN i ELSE op[d].input
                           /\ op'[d].answer = IF d = c THEN "none" ELSE op[d].answer
    BY <1>3
  <1>7. [d \in Clients |-> op'[d].input] = [[d \in Clients |-> op[d].input] EXCEPT ![c] = i]
    BY <1>6
  <1>8. [d \in Clients |-> op'[d].answer]
          = [[d \in Clients |-> op[d].answer] EXCEPT ![c] = "none"]
    BY <1>6
  <1>9. [d \in Clients |-> op[d].input][c] = NoChange BY <1>2
  <1> QED BY <1>1, <1>5, <1>7, <1>8, <1>9 DEF Settings!Ask

LEMMA ProcessMaps ==
  ASSUME ProfileInv, Start \/ Bootstrap \/ BackendDies \/ LetsGo
  PROVE  UNCHANGED Settings!avars
  <1>1. UNCHANGED <<op, file, legacy>>
    BY DEF Start, Bootstrap, BackendDies, LetsGo, world
  <1>2. recovery' = recovery
    BY DEF ProfileInv, TypeOK, InApp, Start, Bootstrap, BackendDies, LetsGo, world
  <1>3. Current' = Current BY <1>1 DEF Current, Unsettled, Loaded
  <1> QED BY <1>1, <1>2, <1>3 DEF Settings!avars

\* A change that was saved and not yet applied counts after the next start.
LEMMA StopMaps ==
  ASSUME ProfileInv, Stop PROVE Settings!Stop
  <1>1. /\ op' = [c \in Clients |-> NoCall] /\ recovery' = FALSE /\ UNCHANGED <<file, legacy>>
    BY DEF Stop
  <1>2. /\ \A c \in Clients : /\ op'[c].input = NoChange /\ op'[c].answer = "none"
                              /\ ~Open(op'[c])
    BY <1>1 DEF NoCall, Open
  <1>3. /\ [c \in Clients |-> op'[c].input] = [c \in Clients |-> NoChange]
        /\ [c \in Clients |-> op'[c].answer] = [c \in Clients |-> "none"]
    BY <1>2
  <1>4. Current' = Loaded(file) BY <1>1, <1>2, CurrentBecomes DEF Loaded
  <1>5. CASE \A c \in Clients : ~Open(op[c])
    <2>1. Current' = Current BY <1>4, <1>5, CurrentIs
    <2> QED BY <1>1, <1>3, <2>1 DEF Settings!Stop, Settings!MayBe
  <1>6. ASSUME NEW c \in Clients, Open(op[c]) PROVE Settings!Stop
    <2>1. Active(op[c]) /\ op[c] \in Call /\ WorkOk(op[c]) /\ MayRun(c)
      BY <1>6 DEF Active, Open, ProfileInv, TypeOK, Works, OneRuns
    <2>2. ~recovery BY <2>1 DEF ProfileInv, Locked
    <2>3. /\ op[c].input # NoChange /\ ~Refused(op[c].input, op[c].previous)
          /\ op[c].next = Changed(op[c].input, op[c].previous)
          /\ op[c].previous = Loaded(op[c].bytes)
          /\ file \in {op[c].bytes, op[c].next}
      BY <1>6, <2>1 DEF WorkOk, Open
    <2>4. op[c].next # NoFile BY <2>1, ProfilesAssumption DEF Call
    <2>5. Current = op[c].previous BY <1>6, <2>1, CurrentAt
    <2>6. Loaded(op[c].next) = op[c].next BY <2>4 DEF Loaded
    <2>7. Current' \in {Current, Changed(op[c].input, Current)}
      BY <1>4, <2>3, <2>5, <2>6
    <2>8. [d \in Clients |-> op[d].input][c] = op[c].input OBVIOUS
    <2>9. Current' \in Settings!MayBe
      BY <2>3, <2>5, <2>7, <2>8, SameVault DEF Settings!MayBe
    <2> QED BY <1>1, <1>3, <2>2, <2>9 DEF Settings!Stop
  <1> QED BY <1>5, <1>6

\* Every change of the model settings is made as a whole, on top of all earlier ones, or not
\* at all; after a failed rollback none is made before the next start.
THEOREM SettingsImplemented == Spec => ImplementsSettings
  <1>1. Init => Settings!Init
    <2> SUFFICES ASSUME Init PROVE Settings!Init OBVIOUS
    <2>1. \A c \in Clients : op[c].input = NoChange /\ op[c].answer = "none" /\ ~Open(op[c])
      BY DEF Init, NoCall, Open
    <2>2. Current = Loaded(file) BY <2>1, CurrentIs
    <2>3. Loaded(file) \in Vault /\ Consistent(Loaded(file))
      BY InitHolds, LoadedType DEF ProfileInv, TypeOK, FileOk
    <2>4. /\ [c \in Clients |-> op[c].input] = [c \in Clients |-> NoChange]
          /\ [c \in Clients |-> op[c].answer] = [c \in Clients |-> "none"]
      BY <2>1
    <2>5. Current \in {v \in Settings!Vault : Settings!Consistent(v)}
      BY <2>2, <2>3, SameVault
    <2> QED BY <2>4, <2>5 DEF Init, Settings!Init
  <1>2. ProfileInv /\ [Next]_vars => [Settings!Next]_(Settings!avars)
    <2> SUFFICES ASSUME ProfileInv, [Next]_vars
                 PROVE Settings!Next \/ UNCHANGED Settings!avars
      OBVIOUS
    <2>1. CASE UNCHANGED vars
      <3>1. Current' = Current BY <2>1 DEF vars, Current, Unsettled, Loaded
      <3> QED BY <2>1, <3>1 DEF vars, Settings!avars
    <2>2. ASSUME NEW c \in Clients, Step(c)
          PROVE Settings!Succeed(c) \/ Settings!Fail(c) \/ Settings!Trouble(c)
                \/ UNCHANGED Settings!avars
      BY <2>2, RunMaps, SaveMaps, ApplyMaps, RestoreMaps, ReapplyMaps DEF Step
    <2>3. ASSUME NEW c \in Clients, NEW i \in Asked, Ask(c, i) PROVE Settings!Next
      <3>1. Settings!Ask(c, i) /\ i \in Settings!Changes
        BY <2>3, AskMaps, SameVault, ProfilesAssumption
      <3> QED BY <3>1 DEF Settings!Next
    <2>4. CASE Start \/ Bootstrap \/ BackendDies \/ LetsGo BY <2>4, ProcessMaps
    <2>5. CASE Stop BY <2>5, StopMaps DEF Settings!Next
    <2> QED BY <2>1, <2>2, <2>3, <2>4, <2>5 DEF Next, Settings!Next
  <1> QED BY <1>1, <1>2, ProfileInvariant, PTL DEF Spec, Settings!Spec, ImplementsSettings
=============================================================================
