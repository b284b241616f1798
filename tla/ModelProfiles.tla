----------------------------- MODULE ModelProfiles -----------------------------
(***************************************************************************)
(* Changing the model profiles: electron/model-profile-controller.mjs with *)
(* the vault it saves to, the backend it sends snapshots to, and the start *)
(* and end of both processes (main.mjs).  Changes run one after another;   *)
(* one step of a change reaches from one await to the next.                *)
(***************************************************************************)
EXTENDS ModelVault, Sequences

CONSTANTS Clients,   \* callers of a settings page
          Asked,     \* the changes they ask for
          NoChange, NoFile, NoBackend

ASSUME ProfilesAssumption ==
  /\ Asked \subseteq Changes /\ NoChange \notin Changes
  /\ NoFile \notin Vault /\ NoBackend \notin Vault

VARIABLES
  file,           \* the vault on disk, or NoFile
  legacy,         \* the key of a configuration of version 1, or NoKey
  runtime,        \* the snapshot the backend serves, or NoBackend when its process is gone
  backendRuntime, \* whether the desktop believes that it has a backend
  app,            \* "down", "starting", "up", or "stuck" when the start failed
  recovery,       \* recoveryRequired
  tail,           \* mutationTail: the calls not settled yet, in order
  op              \* op[c]: the call of c

vars == <<file, legacy, runtime, backendRuntime, app, recovery, tail, op>>
world == <<legacy, backendRuntime, app>>

PCs == {"idle", "queued", "testing", "committing", "saving", "applying",
        "restoring", "reapplying"}

NoCall == [pc |-> "idle", input |-> NoChange, next |-> EmptyVault, previous |-> EmptyVault,
           bytes |-> NoFile, rollbackFailed |-> FALSE, answer |-> "none"]

\* What load returns when nothing fails.
Loaded(f) == IF f # NoFile THEN f ELSE IF legacy = NoKey THEN EmptyVault ELSE Migrated(legacy)

-----------------------------------------------------------------------------
(* The queue *)

\* mutate: the change waits until all that were asked before have settled.
Ask(c, i) ==
  /\ app = "up" /\ op[c].pc = "idle"
  /\ op' = [op EXCEPT ![c] = [NoCall EXCEPT !.pc = "queued", !.input = i]]
  /\ tail' = Append(tail, c)
  /\ UNCHANGED <<world, file, runtime, recovery>>

\* MayRun, if changes ran side by side.
MayRun_Any(c) == TRUE

MayRun(c) == tail # <<>> /\ Head(tail) = c

At(c, pc) == MayRun(c) /\ op[c].pc = pc

\* The call ends; whatever its end, the next one runs.
Answers(c, answer) ==
  /\ op' = [op EXCEPT ![c] = [NoCall EXCEPT !.answer = answer]]
  /\ tail' = Tail(tail)

\* Throws, if only calls that return let the next one run.
Throws_Stops(c) ==
  /\ op' = [op EXCEPT ![c] = [NoCall EXCEPT !.answer = "failed"]]
  /\ UNCHANGED tail

\* A read of the vault that fails is not caught: the call throws.
Throws(c) == Answers(c, "failed")

Moves(c, pc) == op' = [op EXCEPT ![c].pc = pc] /\ UNCHANGED tail

-----------------------------------------------------------------------------
(* One change *)

Trusted == backendRuntime

\* The change is refused, or worked out from the vault as it is now.
Read(c) ==
  /\ At(c, "queued")
  /\ LET i == op[c].input
         v == Loaded(file)
     IN  \/ /\ recovery \/ ~Trusted \/ Refused(i, v)
            /\ Answers(c, "failed")
         \/ /\ ~recovery /\ Trusted
            /\ Throws(c)
         \/ /\ ~recovery /\ Trusted /\ ~Refused(i, v)
            /\ op' = [op EXCEPT ![c] = [@ EXCEPT
                         !.pc = IF NeedsTest(i, v) THEN "testing" ELSE "committing",
                         !.next = Changed(i, v)]]
            /\ UNCHANGED tail
  /\ UNCHANGED <<world, file, runtime, recovery>>

\* The candidate answers, or not; a sender no longer trusted and a vault that cannot be
\* read count as not.
Test(c) ==
  /\ At(c, "testing")
  /\ \/ Trusted /\ runtime # NoBackend /\ Moves(c, "committing")
     \/ Answers(c, "failed")
  /\ UNCHANGED <<world, file, runtime, recovery>>

\* What a rollback would need.
Remember(c) ==
  /\ At(c, "committing")
  /\ \/ /\ op' = [op EXCEPT ![c] = [@ EXCEPT !.pc = "saving", !.previous = Loaded(file),
                                               !.bytes = file]]
        /\ UNCHANGED tail
     \/ Throws(c)
  /\ UNCHANGED <<world, file, runtime, recovery>>

\* The vault is replaced by renaming, or left as it is.
Save(c) ==
  /\ At(c, "saving")
  /\ \/ /\ Valid(op[c].next)
        /\ file' = op[c].next
        /\ Moves(c, "applying")
     \/ /\ Answers(c, "failed")
        /\ UNCHANGED file
  /\ UNCHANGED <<world, runtime, recovery>>

\* The backend serves v, and says so or not (closing the gateways it replaced may fail).
Serves(v) == runtime # NoBackend /\ Valid(v) /\ runtime' = v

Apply(c) ==
  /\ At(c, "applying")
  /\ \/ Serves(op[c].next) /\ Answers(c, "ok")
     \/ Serves(op[c].next) /\ Moves(c, "restoring")
     \/ UNCHANGED runtime /\ Moves(c, "restoring")
  /\ UNCHANGED <<world, file, recovery>>

Restore(c) ==
  /\ At(c, "restoring")
  /\ \/ file' = op[c].bytes /\ Moves(c, "reapplying")
     \/ /\ op' = [op EXCEPT ![c] = [@ EXCEPT !.pc = "reapplying", !.rollbackFailed = TRUE]]
        /\ UNCHANGED <<file, tail>>
  /\ UNCHANGED <<world, runtime, recovery>>

\* RollsBack, if only the vault's half counted.
RollsBack_IgnoresBackend(c, applied) ==
  IF ~op[c].rollbackFailed
    THEN Answers(c, "failed") /\ UNCHANGED recovery
    ELSE Answers(c, "trouble") /\ recovery' = TRUE

\* The end of a rollback of which both halves worked, or not.
RollsBack(c, applied) ==
  IF applied /\ ~op[c].rollbackFailed
    THEN Answers(c, "failed") /\ UNCHANGED recovery
    ELSE Answers(c, "trouble") /\ recovery' = TRUE

Reapply(c) ==
  /\ At(c, "reapplying")
  /\ \/ Serves(op[c].previous) /\ RollsBack(c, TRUE)
     \/ Serves(op[c].previous) /\ RollsBack(c, FALSE)
     \/ UNCHANGED runtime /\ RollsBack(c, FALSE)
  /\ UNCHANGED <<world, file>>

Step(c) ==
  \/ Read(c) \/ Test(c) \/ Remember(c) \/ Save(c) \/ Apply(c) \/ Restore(c) \/ Reapply(c)

-----------------------------------------------------------------------------
(* The processes *)

\* startBackend: a new backend serves nothing yet.
Start ==
  /\ app = "down"
  /\ app' = "starting" /\ runtime' = EmptyVault /\ backendRuntime' = TRUE
  /\ UNCHANGED <<file, legacy, recovery, tail, op>>

\* The window is opened when the backend serves the vault, else an error is shown.
Bootstrap ==
  /\ app = "starting"
  /\ \/ Serves(Loaded(file)) /\ recovery' = FALSE /\ app' = "up"
     \/ app' = "stuck" /\ UNCHANGED <<runtime, recovery>>
  /\ UNCHANGED <<file, legacy, backendRuntime, tail, op>>

BackendDies ==
  /\ runtime # NoBackend
  /\ runtime' = NoBackend
  /\ UNCHANGED <<world, file, recovery, tail, op>>

\* The desktop notices the end of its backend, or stops it because the user quits; a
\* request under way may still be served.
LetsGo ==
  /\ backendRuntime
  /\ runtime = NoBackend \/ app = "up"
  /\ backendRuntime' = FALSE
  /\ UNCHANGED <<file, legacy, runtime, app, recovery, tail, op>>

\* The desktop ends, at any time; it takes the backend along.
Stop ==
  /\ app # "down"
  /\ app' = "down" /\ runtime' = NoBackend /\ backendRuntime' = FALSE
  /\ recovery' = FALSE /\ tail' = <<>>
  /\ op' = [c \in Clients |-> NoCall]
  /\ UNCHANGED <<file, legacy>>

-----------------------------------------------------------------------------
Init ==
  /\ legacy \in Keys \cup {NoKey}
  /\ file = NoFile
  /\ runtime = NoBackend /\ backendRuntime = FALSE
  /\ app = "down" /\ recovery = FALSE
  /\ tail = <<>>
  /\ op = [c \in Clients |-> NoCall]

Next ==
  \/ \E c \in Clients : Step(c) \/ \E i \in Asked : Ask(c, i)
  \/ Start \/ Bootstrap \/ BackendDies \/ LetsGo \/ Stop

Spec == Init /\ [][Next]_vars

\* Files are read and written, and requests of the backend return or time out.
FairSpec == Spec /\ \A c \in Clients : WF_vars(Step(c))

-----------------------------------------------------------------------------
(* Properties *)

Call == [pc : PCs, input : Changes \cup {NoChange}, next : Vault, previous : Vault,
         bytes : Vault \cup {NoFile}, rollbackFailed : BOOLEAN,
         answer : {"none", "ok", "failed", "trouble"}]

TypeOK ==
  /\ file \in Vault \cup {NoFile}
  /\ legacy \in Keys \cup {NoKey}
  /\ runtime \in Vault \cup {NoBackend}
  /\ backendRuntime \in BOOLEAN /\ recovery \in BOOLEAN
  /\ app \in {"down", "starting", "up", "stuck"}
  /\ tail \in Seq(Clients)
  /\ op \in [Clients -> Call]

\* Calls that have saved their change and do not know yet whether it stays.
Unsettled == {c \in Clients : op[c].pc \in {"applying", "restoring", "reapplying"}}

\* Between two changes the backend serves what the vault holds, however their saving,
\* applying and rolling back went; else recovery is required and changes are refused.
Agree ==
  app = "up" /\ ~recovery /\ runtime # NoBackend /\ Unsettled = {}
    => runtime = Loaded(file)

\* The checks of the controller are those of the vault and of the backend: what they let
\* through is consistent when it is saved, and only the number of profiles can be wrong.
ChangesAreValid == \A c \in Clients : op[c].pc = "saving" => Consistent(op[c].next)

\* The configuration that counts: while a change may still be taken back, the one before it.
Current == IF Unsettled = {} THEN Loaded(file)
           ELSE op[CHOOSE c \in Unsettled : TRUE].previous

\* A change is made as a whole or not at all, and on top of all earlier ones; after a
\* rollback that failed none is made before the next start.
Settings == INSTANCE AtomicSettings WITH
  settings <- Current,
  asked    <- [c \in Clients |-> op[c].input],
  answer   <- [c \in Clients |-> op[c].answer],
  doubt    <- recovery

ImplementsSettings == Settings!Spec

\* Every change asked for is answered, or the application ends; in particular one that
\* throws does not hold up those behind it.
EveryChangeAnswered == \A c \in Clients : op[c].pc # "idle" ~> op[c].pc = "idle"
=============================================================================
