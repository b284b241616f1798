----------------------------- MODULE BundlePipeline -----------------------------
(***************************************************************************)
(* How a bundle of learning resources is made, cancelled, stored and       *)
(* repaired (backend/services/resource_bundle/, resource_db.py).           *)
(*                                                                         *)
(* A task is one call of ResourceBundleService.generate: for a message of  *)
(* the session (stream or chat, under its lock), for POST /resource-bundle *)
(* or for the retry of one artifact (both without the lock).  It plans,    *)
(* lets one specialist per type write and has each text reviewed, and      *)
(* stores what came out; the task names the bundle.                        *)
(*                                                                         *)
(* Everything runs on one event loop: a step reaches from one await to the *)
(* next.  Of the session only the id of its row is kept, and whether it is *)
(* profiled or generating; its lifecycle is the subject of SessionWorkflow.*)
(***************************************************************************)
EXTENDS Naturals, FiniteSets, SafetyReview

CONSTANTS
  Tasks,
  Types,          \* ArtifactType
  Reviewed,       \* the types whose answers are reviewed (_REVIEWED_TYPES)
  Offers,         \* bound: the calls <<task, kind, mode>> that may be made
  MaxConcurrent,  \* _MAX_CONCURRENT: 2 in the code
  MaxRow          \* bound: rows of sessions have the ids 1..MaxRow

Kinds == {"stream", "chat", "route", "retry"}

ASSUME BundleAssumption ==
  /\ Types # {} /\ Reviewed \subseteq Types
  /\ Offers \subseteq Tasks \X Kinds \X {"bundle", "single"}
  /\ MaxConcurrent \in Nat \ {0}
  /\ MaxRow \in Nat \ {0}

VARIABLES
  session,  \* the row of the session
  store,    \* store[b]: the stored bundle of task b
  call,     \* call[b]: the call of generate
  token,    \* token[b]: the BundleCancellation of the bundle
  spec      \* spec[b][t]: the specialist of type t

vars == <<session, store, call, token, spec>>

\* The row of the session.  It is LEFT when it says GENERATING and a closed stream or a
\* commit that failed is the reason that nobody ends that.
Session   == [row : 0..MaxRow, state : {"none", "PROFILED", "GENERATING", "LEFT"}]
NoSession == [row |-> 0, state |-> "none"]

\* An artifact.  Texts are counted in the order the model can write them: the first
\* one, the one that repairs its answers, the one written again for safety; `safe'
\* is the text that a review of artifacts let pass.
Art == [status : {"absent", "SUCCEEDED", "FAILED", "CANCELLED"},
        retryable : BOOLEAN, text : 0..3, safe : 0..3]

NoArt        == [status |-> "absent", retryable |-> FALSE, text |-> 0, safe |-> 0]
FailedArt(r) == [NoArt EXCEPT !.status = "FAILED", !.retryable = r]
CancelledArt == [NoArt EXCEPT !.status = "CANCELLED", !.retryable = TRUE]
Written(n)   == [NoArt EXCEPT !.status = "SUCCEEDED", !.text = n]

Statuses == {"COMPLETED", "PARTIAL", "FAILED", "CANCELLED"}
Bundle   == [status : Statuses \cup {"none"}, arts : [Types -> Art]]
NoBundle == [status |-> "none", arts |-> [t \in Types |-> NoArt]]

\* Generating: the steps between begin_generation and the end of the call
Generating == {"searching", "planning", "reviewing", "working", "closing"}

Call == [pc : {"idle", "gate", "over"} \cup Generating,
         kind : Kinds \cup {"none"},
         types : SUBSET Types,  \* requested_types
         of : Tasks,            \* a retry: the bundle, the copy of it that was read
         copy : Bundle,
         out : Bundle,          \* the result of the pipeline
         detached : BOOLEAN,    \* the stream was closed under the task
         row : 0..MaxRow]       \* the id of the row it has loaded

NoCall(b) == [pc |-> "idle", kind |-> "none", types |-> {}, of |-> b,
              copy |-> NoBundle, out |-> NoBundle, detached |-> FALSE, row |-> 0]

Token   == [registered : BOOLEAN, cancelled : BOOLEAN]
NoToken == [registered |-> FALSE, cancelled |-> FALSE]

\* Calling: a call of the model is made or on its way.  A broken specialist raised outside its handlers.
Calling == {"asked", "repairing", "regenerating"}
Busy    == Calling \cup {"checking", "rechecking"}
Spec1   == [pc : Busy \cup {"none", "waiting", "done", "broken"}, art : Art]
NoSpec  == [pc |-> "none", art |-> NoArt]

Init ==
  /\ session = [row |-> 1, state |-> "PROFILED"]
  /\ store = [b \in Tasks |-> NoBundle]
  /\ call = [b \in Tasks |-> NoCall(b)]
  /\ token = [b \in Tasks |-> NoToken]
  /\ spec = [b \in Tasks |-> [t \in Types |-> NoSpec]]

-----------------------------------------------------------------------------
(***************************************************************************)
(* aggregate_bundle                                                        *)
(***************************************************************************)
Requested(arts) == {t \in Types : arts[t].status # "absent"}
Succeeded(arts) == {t \in Types : arts[t].status = "SUCCEEDED"}

\* compute_bundle_status
Status(arts, cancelled) ==
  CASE cancelled                                                -> "CANCELLED"
    [] ~cancelled /\ Succeeded(arts) = Requested(arts)          -> "COMPLETED"
    [] ~cancelled /\ Succeeded(arts) \notin {{}, Requested(arts)} -> "PARTIAL"
    [] OTHER                                                    -> "FAILED"

Aggregated(arts, cancelled) == [status |-> Status(arts, cancelled), arts |-> arts]

\* every artifact the task asked for is a
Uniform(b, a) == [t \in Types |-> IF t \in call[b].types THEN a ELSE NoArt]

\* _make_failed_bundle
FailedPlan(b, retryable) ==
  [status |-> "FAILED", arts |-> Uniform(b, FailedArt(retryable))]

-----------------------------------------------------------------------------
(***************************************************************************)
(* Calls                                                                   *)
(***************************************************************************)

Now(state) == [session EXCEPT !.state = state]

\* an UPDATE by task b finds a row: that of its session or, when that was deleted, of
\* a new one that was given its id
HasRow(b) == session.row # 0 /\ call[b].row = session.row

\* the lock of the session, which messages take
Locked == \E b \in Tasks : /\ call[b].kind \in {"stream", "chat"} /\ ~call[b].detached
                           /\ call[b].pc \notin {"idle", "over"}

\* derive_requested_types
Asked(mode) == IF mode = "bundle" THEN {Types} ELSE {{t} : t \in Types}

\* the session is read and is found profiled; then gate_request is awaited
Start(b, kind, types) ==
  /\ call[b].pc = "idle" /\ session.state = "PROFILED"
  /\ kind = "route" \/ ~Locked
  /\ call' = [call EXCEPT ![b] = [@ EXCEPT !.pc = "gate", !.kind = kind, !.types = types,
                                           !.row = session.row]]
  /\ UNCHANGED <<session, store, token, spec>>

Retryable(art) == art.status \in {"FAILED", "CANCELLED"} /\ art.retryable

\* retry_artifact reads the bundle, then generates one of its artifacts
Retry(b, of, t) ==
  /\ call[b].pc = "idle" /\ session.state = "PROFILED"
  /\ store[of].status # "none" /\ Retryable(store[of].arts[t])
  /\ call' = [call EXCEPT ![b] = [@ EXCEPT !.pc = "gate", !.kind = "retry", !.types = {t},
                                           !.of = of, !.copy = store[of],
                                           !.row = session.row]]
  /\ UNCHANGED <<session, store, token, spec>>

Restored_Rollback(b) == session

\* fail_to_stable_state, after a rollback, on the row of the task ...
Restored(b) == IF call[b].detached \/ ~HasRow(b) THEN session ELSE Now("PROFILED")

\* ... and what the task leaves behind when that fails as well, or is not reached
Left(b) == IF ~call[b].detached /\ HasRow(b) /\ session.state = "GENERATING"
           THEN Now("LEFT") ELSE session

Over(b) == call' = [call EXCEPT ![b] = [NoCall(b) EXCEPT !.pc = "over",
                      !.row = call[b].row, !.detached = call[b].detached]]

\* The refusal is recorded (a message does it on its copy or on a fresh one), or not.
Refuse(b) == session' \in {session, Restored(b)} /\ Over(b)

\* begin_generation, of the copy that was read before the gate; then the search.  A
\* commit that fails, as it does without the row, ends the call like a refusal.
Begin(b) ==
  \/ /\ HasRow(b) /\ session' = Now("GENERATING")
     /\ call' = [call EXCEPT ![b].pc = "searching"]
  \/ Refuse(b)

Gated(b) ==
  /\ call[b].pc = "gate"
  /\ \E result \in GateResults : IF result = "passed" THEN Begin(b) ELSE Refuse(b)
  /\ UNCHANGED <<store, token, spec>>

\* an exception on the way to the pipeline
Fail(b) ==
  /\ call[b].pc = "searching"
  /\ session' \in {Restored(b), Left(b)}
  /\ Over(b)
  /\ UNCHANGED <<store, token, spec>>

-----------------------------------------------------------------------------
(***************************************************************************)
(* Storing                                                                 *)
(***************************************************************************)

\* the artifact retried replaces the one in the copy, under its id
Merged(b, out) ==
  Aggregated([t \in Types |-> IF t \in call[b].types THEN out.arts[t]
                              ELSE call[b].copy.arts[t]], FALSE)

\* where the result of task b goes
Result(b, out) == [store EXCEPT ![call[b].of] =
                     IF call[b].kind = "retry" THEN Merged(b, out) ELSE out]

\* Store, if save_bundle committed for itself
Store_OwnCommit(b, out) ==
  /\ session' = Restored(b)
  /\ store' = Result(b, out)
  /\ Over(b)

\* save_bundle and finish_bundle_generation commit together; a closed stream's task
\* has no row to commit.  A retry goes on to replace the temporary bundle by the merged
\* one in a commit of its own, and may fail with the temporary one stored.
Store(b, out) ==
  /\ \/ /\ HasRow(b) \/ call[b].detached
        /\ session' = Restored(b)
        /\ store' = Result(b, out)
     \/ /\ HasRow(b) /\ call[b].kind = "retry"
        /\ session' = Restored(b)
        /\ store' = [store EXCEPT ![b] = out]
     \/ session' \in {Restored(b), Left(b)} /\ UNCHANGED store
  /\ Over(b)

\* The pipeline returns and its token is dropped.  For a stream the task that
\* watches the client is awaited first.
Conclude(b, out) ==
  /\ token' = [token EXCEPT ![b].registered = FALSE]
  /\ IF call[b].kind = "stream"
       THEN /\ call' = [call EXCEPT ![b] = [@ EXCEPT !.pc = "closing", !.out = out]]
            /\ UNCHANGED <<session, store>>
       ELSE Store(b, out)

Close(b) ==
  /\ call[b].pc = "closing"
  /\ Store(b, call[b].out)
  /\ token' = [token EXCEPT ![b] = NoToken]
  /\ UNCHANGED spec

-----------------------------------------------------------------------------
(***************************************************************************)
(* BundlePipeline.run                                                      *)
(***************************************************************************)

\* The token is registered, and the planner is asked.
Plan(b) ==
  /\ call[b].pc = "searching"
  /\ token' = [token EXCEPT ![b].registered = TRUE]
  /\ call' = [call EXCEPT ![b].pc = "planning"]
  /\ UNCHANGED <<session, store, spec>>

\* The plan comes and parses, or not, or the cancellation is heard first.
Planned(b) ==
  /\ call[b].pc = "planning"
  /\ \/ /\ call' = [call EXCEPT ![b].pc = "reviewing"]
        /\ UNCHANGED <<session, store, token>>
     \/ Conclude(b, FailedPlan(b, FALSE))
     \/ token[b].cancelled /\ Conclude(b, Aggregated(Uniform(b, CancelledArt), TRUE))
  /\ UNCHANGED spec

PlanReviewed(b) ==
  /\ call[b].pc = "reviewing"
  /\ \E review \in PlanReviews :
       IF review = "passed"
         THEN /\ call' = [call EXCEPT ![b].pc = "working"]
              /\ spec' = [spec EXCEPT ![b] = [t \in Types |->
                            IF t \in call[b].types THEN [NoSpec EXCEPT !.pc = "waiting"]
                            ELSE NoSpec]]
              /\ UNCHANGED <<session, store, token>>
         ELSE /\ Conclude(b, FailedPlan(b, review = "unavailable"))
              /\ UNCHANGED spec

\* Specialist t goes to pc with artifact a.
To(b, t, pc, a) == spec' = [spec EXCEPT ![b][t] = [pc |-> pc, art |-> a]]
Ends(b, t, a)   == To(b, t, "done", a)

\* _complete_or_cancel: the token is looked at once, then the call is made at the next
\* turn of the loop, whatever is cancelled until then.  The reviewer model (of plans and
\* artifacts) is asked without a look at the token.
Asks(b, t, pc, a) ==
  IF token[b].cancelled THEN Ends(b, t, CancelledArt) ELSE To(b, t, pc, a)

\* The call of specialist t does not come back with a text.
Unanswered(b, t) ==
  \/ Ends(b, t, FailedArt(TRUE))
  \/ token[b].cancelled /\ Ends(b, t, CancelledArt)

Run(b, t, pc) == spec[b][t].pc = pc /\ UNCHANGED <<session, store, call, token>>

Inside_Ended(b) == {u \in Types : spec[b][u].pc \in Busy \cup {"done"}}

\* the specialists of b that hold a place of the semaphore
Inside(b) == {u \in Types : spec[b][u].pc \in Busy}

\* one of MaxConcurrent places is free
Enter(b, t) ==
  /\ Run(b, t, "waiting")
  /\ Cardinality(Inside(b)) < MaxConcurrent
  /\ Asks(b, t, "asked", NoArt)

\* The first text does not parse, has answers to repair, or goes to the review.
Answered(b, t) ==
  /\ Run(b, t, "asked")
  /\ \/ Unanswered(b, t)
     \/ Ends(b, t, FailedArt(FALSE))
     \/ t \in Reviewed /\ Asks(b, t, "repairing", Written(1))
     \/ To(b, t, "checking", Written(1))

\* The repair is good, or the first text is kept with a warning.
Repaired(b, t) ==
  /\ Run(b, t, "repairing")
  /\ \/ Unanswered(b, t)
     \/ \E n \in {1, 2} : To(b, t, "checking", Written(n))

\* A reviewed artifact replaces the one under review; where there should be one and
\* is none, emitting it raises outside every handler.
Publish(b, t, review) ==
  LET a == spec[b][t].art IN
  IF review.artifact THEN Ends(b, t, [a EXCEPT !.safe = a.text])
                     ELSE To(b, t, "broken", NoArt)

\* review_artifact, once ...
Checked(b, t) ==
  /\ Run(b, t, "checking")
  /\ \E review \in ArtifactReviews :
       CASE review.action \in {"ALLOW", "REDACT"} -> Publish(b, t, review)
         [] review.action = "REGENERATE"          -> Asks(b, t, "regenerating", NoArt)
         [] OTHER                                 -> Ends(b, t, FailedArt(TRUE))

Regenerated_Trusted(b, t) ==
  /\ Run(b, t, "regenerating")
  /\ Unanswered(b, t) \/ Ends(b, t, Written(3))

\* the text is written again; one that does not parse counts as blocked
Regenerated(b, t) ==
  /\ Run(b, t, "regenerating")
  /\ Unanswered(b, t) \/ To(b, t, "rechecking", Written(3))

\* ... and once more
Rechecked(b, t) ==
  /\ Run(b, t, "rechecking")
  /\ \E review \in ArtifactReviews :
       IF review.action \in {"ALLOW", "REDACT"} THEN Publish(b, t, review)
       ELSE Ends(b, t, FailedArt(TRUE))

\* Gather, if the status were made of the artifacts alone
Gather_Uncancelled(b) ==
  /\ call[b].pc = "working"
  /\ \A t \in call[b].types : spec[b][t].pc = "done"
  /\ Conclude(b, Aggregated([t \in Types |-> spec[b][t].art], FALSE))
  /\ spec' = [spec EXCEPT ![b] = [t \in Types |-> NoSpec]]

\* every specialist returned
Gather(b) ==
  /\ call[b].pc = "working"
  /\ \A t \in call[b].types : spec[b][t].pc = "done"
  /\ Conclude(b, Aggregated([t \in Types |-> spec[b][t].art], token[b].cancelled))
  /\ spec' = [spec EXCEPT ![b] = [t \in Types |-> NoSpec]]

\* one of them raised: the task fails at once, and nobody stops the others
Break(b) ==
  /\ call[b].pc = "working"
  /\ \E t \in call[b].types : spec[b][t].pc = "broken"
  /\ token' = [token EXCEPT ![b].registered = FALSE]
  /\ session' \in {Restored(b), Left(b)}
  /\ Over(b)
  /\ UNCHANGED <<store, spec>>

-----------------------------------------------------------------------------
(***************************************************************************)
(* What happens to a task from outside                                     *)
(***************************************************************************)

\* DELETE /generations, or the watcher of a client that went away.  A call that
\* finds no token does nothing.
Cancel(b) ==
  /\ call[b].kind = "stream" /\ token[b].registered /\ ~token[b].cancelled
  /\ token' = [token EXCEPT ![b].cancelled = TRUE]
  /\ UNCHANGED <<session, store, call, spec>>

\* The client of a stream goes away: the lock is released, the database session is
\* closed, but a task that was started runs on.
Leave(b) ==
  /\ call[b].kind = "stream" /\ ~call[b].detached
  /\ \/ call[b].pc = "gate" /\ Over(b) /\ UNCHANGED session
     \/ /\ call[b].pc \in Generating
        /\ call' = [call EXCEPT ![b].detached = TRUE]
        /\ session' = Left(b)
  /\ UNCHANGED <<store, token, spec>>

\* delete_session deletes the bundles of the session as well
Delete ==
  /\ session # NoSession
  /\ session' = NoSession
  /\ store' = [b \in Tasks |-> NoBundle]
  /\ UNCHANGED <<call, token, spec>>

\* A session of the same name is made, under an id that may be that of an older one,
\* and diagnosed; what an older task does to it until then is not modelled.
Create ==
  /\ session = NoSession
  /\ \E id \in 1..MaxRow : session' = [row |-> id, state |-> "PROFILED"]
  /\ UNCHANGED <<store, call, token, spec>>

\* a message that finds the session generating fails it to its stable state
Decline ==
  /\ session.state \in {"GENERATING", "LEFT"} /\ ~Locked
  /\ session' = Now("PROFILED")
  /\ UNCHANGED <<store, call, token, spec>>

-----------------------------------------------------------------------------
Request(b) ==
  \/ \E kind \in Kinds \ {"retry"}, mode \in {"bundle", "single"} :
       /\ <<b, kind, mode>> \in Offers
       /\ \E types \in Asked(mode) : Start(b, kind, types)
  \/ /\ <<b, "retry", "single">> \in Offers
     /\ \E of \in Tasks, t \in Types : Retry(b, of, t)

Specialist(b, t) ==
  \/ Enter(b, t) \/ Answered(b, t) \/ Repaired(b, t) \/ Checked(b, t)
  \/ Regenerated(b, t) \/ Rechecked(b, t)

Progress(b) ==
  \/ Gated(b) \/ Fail(b) \/ Plan(b) \/ Planned(b) \/ PlanReviewed(b)
  \/ \E t \in Types : Specialist(b, t)
  \/ Gather(b) \/ Break(b) \/ Close(b)

Next ==
  \/ \E b \in Tasks : Request(b) \/ Progress(b) \/ Cancel(b) \/ Leave(b)
  \/ Delete \/ Create \/ Decline

Spec == Init /\ [][Next]_vars

\* What a task awaits comes at some time: calls of the model and the search time out,
\* and a specialist that leaves its place wakes the next.  Nothing is assumed of users.
FairSpec == Spec /\ \A b \in Tasks : WF_vars(Progress(b))

-----------------------------------------------------------------------------
(***************************************************************************)
(* Properties                                                              *)
(***************************************************************************)

\* The variables keep their types.
TypeOK ==
  /\ session \in Session
  /\ store \in [Tasks -> Bundle]
  /\ call \in [Tasks -> Call]
  /\ token \in [Tasks -> Token]
  /\ spec \in [Tasks -> [Types -> Spec1]]

\* The text of an artifact that is given out as a success is the text a safety review
\* let pass, whichever of repair, regeneration and retry produced it.
Cleared(a) == a.status = "SUCCEEDED" => a.text # 0 /\ a.safe = a.text
NothingUnreviewed ==
  \A b \in Tasks, t \in Types :
    /\ Cleared(store[b].arts[t])
    /\ spec[b][t].pc = "done" => Cleared(spec[b][t].art)

\* The status stored with a bundle is the one its artifacts have: also after any
\* number of retries, which replace single artifacts of older copies.
Follows(bundle) ==
  LET requested == Requested(bundle.arts)  succeeded == Succeeded(bundle.arts) IN
  /\ bundle.status = "none"      => requested = {}
  /\ bundle.status # "none"      => requested # {}
  /\ bundle.status = "COMPLETED" => succeeded = requested
  /\ bundle.status = "PARTIAL"   => succeeded \notin {{}, requested}
  /\ bundle.status = "FAILED"    => succeeded = {}
StatusFollows == \A b \in Tasks : Follows(store[b])

\* No bundle survives the row its task worked for or appears without it, other than
\* that of a stream that was closed before: whoever deletes the session meanwhile, the
\* task's last commit fails as a whole, unless a new session has the id of the old one.
BundleOfSession ==
  \A b \in Tasks : store[b].status # "none" => call[b].detached \/ HasRow(b)

\* A session that is generating has somebody who will end it: of all that may go wrong
\* in a task, or between two of them, only a closed stream and a failing commit of the
\* final state leave the session behind (LEFT).
GeneratingHasTask ==
  session.state = "GENERATING" =>
    \E b \in Tasks : call[b].pc \in Generating /\ HasRow(b) /\ ~call[b].detached

\* What a cancelled task stores says so, or that not even the plan came about, at
\* whichever await the cancellation met its specialists.
CancelledIsSaid ==
  [][\A b \in Tasks : token[b].cancelled /\ call[b].pc # "over" /\ store'[b] # store[b]
       => store'[b].status \in {"CANCELLED", "FAILED", "none"}]_vars

\* Every call ends, whatever is refused, fails, is cancelled or abandoned under it.
EveryCallEnds == \A b \in Tasks : call[b].pc # "idle" ~> call[b].pc = "over"

-----------------------------------------------------------------------------
(***************************************************************************)
(* What the design says and the code does not keep                         *)
(***************************************************************************)

\* A specialist that fails costs its own artifact at most: a task whose specialists
\* are at work does not end before each of them has returned.
\* 2026-07-16-five-resource-bundle-design.md, sections 6 and 10.  As a PROPERTY in
\* BundleSafety.cfg it is violated.
SpecialistsFailAlone ==
  [][\A b \in Tasks : call[b].pc = "working" /\ call'[b].pc = "over"
       => \A t \in call[b].types : spec[b][t].pc = "done"]_vars

\* A cancellation stops the work of the specialists: none of them succeeds after it.
\* The design (section 6): "Cancellation stops queued and running specialist work".  The
\* review of a text is neither stopped nor told.  As a PROPERTY it is violated.
CancelStopsWork ==
  [][\A b \in Tasks, t \in Types :
       token[b].cancelled /\ spec[b][t].pc # "done" /\ spec'[b][t].pc = "done"
         => spec'[b][t].art.status # "SUCCEEDED"]_vars

\* A session is generating only while a task is: S-001, section 3, "GENERATING
\* 只在任务执行期间写入，任务完成或失败后必须离开该状态".  As an INVARIANT it is violated.
GeneratingIsLeft == session.state # "LEFT"
=============================================================================
