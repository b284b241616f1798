------------------------------ MODULE BundleProofs ------------------------------
(***************************************************************************)
(* Proofs about BundlePipeline: its types, that nothing unreviewed is      *)
(* given out, that stored statuses follow from the artifacts, that bundles *)
(* and the generating state of the session belong to a task, and what a    *)
(* cancellation does.  Two invariants carry them: BundleInv speaks of the  *)
(* bundles wherever they are kept (stored, copied by a retry, at work, on  *)
(* their way out), TaskInv of the tasks.                                   *)
(***************************************************************************)
EXTENDS BundlePipeline, TLAPS

-----------------------------------------------------------------------------
(* Sessions, artifacts and bundles *)

LEMMA NowIs ==
  ASSUME session \in Session, NEW state \in {"PROFILED", "GENERATING", "LEFT"}
  PROVE  Now(state) \in Session /\ Now(state).row = session.row /\ Now(state).state = state
  BY DEF Now, Session

LEMMA ArtTypes ==
  /\ NoArt \in Art /\ CancelledArt \in Art
  /\ \A r \in BOOLEAN : FailedArt(r) \in Art
  /\ Written(1) \in Art /\ Written(2) \in Art /\ Written(3) \in Art
  <1>1. NoArt \in Art
    BY DEF NoArt, Art
  <1>2. ASSUME NEW a \in Art, NEW r \in BOOLEAN, NEW n \in 0..3
        PROVE  /\ [a EXCEPT !.status = "CANCELLED", !.retryable = r] \in Art
               /\ [a EXCEPT !.status = "FAILED", !.retryable = r] \in Art
               /\ [a EXCEPT !.status = "SUCCEEDED", !.text = n] \in Art
    BY DEF Art
  <1>3. 1 \in 0..3 /\ 2 \in 0..3 /\ 3 \in 0..3
    OBVIOUS
  <1> QED BY <1>1, <1>2, <1>3 DEF CancelledArt, FailedArt, Written

\* a text that passed its review
LEMMA PassedType ==
  ASSUME NEW a \in Art
  PROVE  [a EXCEPT !.safe = a.text] \in Art
  BY DEF Art

LEMMA NoBundleType == NoBundle \in Bundle
  BY ArtTypes DEF NoBundle, Bundle

LEMMA AggregatedType ==
  ASSUME NEW arts \in [Types -> Art], NEW cancelled \in BOOLEAN
  PROVE  /\ Aggregated(arts, cancelled) \in Bundle
         /\ Aggregated(arts, cancelled).status = Status(arts, cancelled)
         /\ Aggregated(arts, cancelled).arts = arts
  <1>1. Status(arts, cancelled) \in Statuses
    BY DEF Status, Statuses
  <1> QED BY <1>1 DEF Aggregated, Bundle

LEMMA UniformType ==
  ASSUME NEW b \in Tasks, NEW a \in Art
  PROVE  /\ Uniform(b, a) \in [Types -> Art]
         /\ \A t \in Types : Uniform(b, a)[t] = IF t \in call[b].types THEN a ELSE NoArt
  BY ArtTypes DEF Uniform

LEMMA FailedPlanType ==
  ASSUME NEW b \in Tasks, NEW r \in BOOLEAN
  PROVE  FailedPlan(b, r) \in Bundle
  <1>1. Uniform(b, FailedArt(r)) \in [Types -> Art]
    BY ArtTypes, UniformType
  <1> QED BY <1>1 DEF FailedPlan, Bundle, Statuses

LEMMA NoCallType == \A b \in Tasks : NoCall(b) \in Call
  BY NoBundleType, BundleAssumption DEF NoCall, Call, Kinds, Generating

LEMMA NoSpecType == NoSpec \in Spec1
  BY ArtTypes DEF NoSpec, Spec1

\* a call that goes on or is given up keeps its type
LEMMA CallTypes ==
  ASSUME NEW b \in Tasks, NEW c \in Call
  PROVE  /\ \A pc \in {"gate", "over"} \cup Generating : [c EXCEPT !.pc = pc] \in Call
         /\ \A out \in Bundle : [c EXCEPT !.pc = "closing", !.out = out] \in Call
         /\ [c EXCEPT !.detached = TRUE] \in Call
         /\ [NoCall(b) EXCEPT !.pc = "over", !.row = c.row, !.detached = c.detached] \in Call
  BY NoCallType DEF Call, NoCall, Generating

LEMMA MergedType ==
  ASSUME TypeOK, NEW b \in Tasks, NEW out \in Bundle
  PROVE  Merged(b, out) \in Bundle
  <1>1. [t \in Types |-> IF t \in call[b].types THEN out.arts[t]
                         ELSE call[b].copy.arts[t]] \in [Types -> Art]
    BY DEF TypeOK, Call, Bundle
  <1> QED BY <1>1, AggregatedType DEF Merged

-----------------------------------------------------------------------------
(* What the parts of an action keep *)

LEMMA OverType ==
  ASSUME TypeOK, NEW b \in Tasks, Over(b)
  PROVE  call' \in [Tasks -> Call]
  BY CallTypes DEF TypeOK, Over

LEMMA EndedType ==
  ASSUME TypeOK, NEW b \in Tasks
  PROVE  Restored(b) \in Session /\ Left(b) \in Session
  BY NowIs DEF TypeOK, Restored, Left

LEMMA ResultType ==
  ASSUME TypeOK, NEW b \in Tasks, NEW out \in Bundle
  PROVE  Result(b, out) \in [Tasks -> Bundle]
  BY MergedType DEF TypeOK, Result

LEMMA StoreType ==
  ASSUME TypeOK, NEW b \in Tasks, NEW out \in Bundle, Store(b, out)
  PROVE  /\ session' \in Session
         /\ store' \in [Tasks -> Bundle]
         /\ call' \in [Tasks -> Call]
  <1>1. call' \in [Tasks -> Call]
    BY OverType DEF Store
  <1>2. session' \in Session
    BY EndedType DEF Store
  <1>3. store' \in [Tasks -> Bundle]
    <2>1. CASE store' = Result(b, out)
      BY <2>1, ResultType
    <2>2. CASE store' = [store EXCEPT ![b] = out]
      BY <2>2 DEF TypeOK
    <2>3. CASE store' = store
      BY <2>3 DEF TypeOK
    <2> QED BY <2>1, <2>2, <2>3 DEF Store
  <1> QED BY <1>1, <1>2, <1>3

LEMMA ConcludeType ==
  ASSUME TypeOK, NEW b \in Tasks, NEW out \in Bundle, Conclude(b, out)
  PROVE  /\ session' \in Session
         /\ store' \in [Tasks -> Bundle]
         /\ call' \in [Tasks -> Call]
         /\ token' \in [Tasks -> Token]
  <1>1. token' \in [Tasks -> Token]
    BY DEF TypeOK, Conclude, Token
  <1>2. CASE call[b].kind = "stream"
    <2>1. [call[b] EXCEPT !.pc = "closing", !.out = out] \in Call
      BY CallTypes DEF TypeOK
    <2> QED BY <1>1, <1>2, <2>1 DEF TypeOK, Conclude
  <1>3. CASE call[b].kind # "stream"
    BY <1>1, <1>3, StoreType DEF Conclude
  <1> QED BY <1>2, <1>3

LEMMA ToType ==
  ASSUME TypeOK, NEW b \in Tasks, NEW t \in Types, NEW a \in Art,
         NEW pc \in Busy \cup {"none", "waiting", "done", "broken"}, To(b, t, pc, a)
  PROVE  spec' \in [Tasks -> [Types -> Spec1]]
  <1>1. [pc |-> pc, art |-> a] \in Spec1
    BY DEF Spec1
  <1> QED BY <1>1 DEF TypeOK, To

LEMMA AsksType ==
  ASSUME TypeOK, NEW b \in Tasks, NEW t \in Types, NEW a \in Art,
         NEW pc \in Busy, Asks(b, t, pc, a)
  PROVE  spec' \in [Tasks -> [Types -> Spec1]]
  BY ToType, ArtTypes DEF Asks, Ends, Busy

LEMMA UnansweredType ==
  ASSUME TypeOK, NEW b \in Tasks, NEW t \in Types, Unanswered(b, t)
  PROVE  spec' \in [Tasks -> [Types -> Spec1]]
  BY ToType, ArtTypes DEF Unanswered, Ends

LEMMA PublishType ==
  ASSUME TypeOK, NEW b \in Tasks, NEW t \in Types, NEW review, Publish(b, t, review)
  PROVE  spec' \in [Tasks -> [Types -> Spec1]]
  <1> DEFINE a == spec[b][t].art
  <1>1. a \in Art
    BY DEF TypeOK, Spec1
  <1>2. [a EXCEPT !.safe = a.text] \in Art
    BY <1>1, PassedType
  <1> QED BY <1>2, ToType, ArtTypes DEF Publish, Ends

LEMMA SpecialistType ==
  ASSUME TypeOK, NEW b \in Tasks, NEW t \in Types, Specialist(b, t)
  PROVE  /\ spec' \in [Tasks -> [Types -> Spec1]]
         /\ UNCHANGED <<session, store, call, token>>
  <1>0. /\ NoArt \in Art /\ Written(1) \in Art /\ Written(2) \in Art /\ Written(3) \in Art
        /\ FailedArt(TRUE) \in Art /\ FailedArt(FALSE) \in Art
        /\ {"asked", "repairing", "regenerating", "checking", "rechecking"} \subseteq Busy
    BY ArtTypes DEF Busy, Calling
  <1>1. CASE Enter(b, t)
    BY <1>0, <1>1, AsksType DEF Enter, Run
  <1>2. CASE Answered(b, t)
    BY <1>0, <1>2, AsksType, UnansweredType, ToType DEF Answered, Run, Ends
  <1>3. CASE Repaired(b, t)
    BY <1>0, <1>3, UnansweredType, ToType DEF Repaired, Run
  <1>4. CASE Checked(b, t)
    <2>1. PICK review \in ArtifactReviews :
            \/ Publish(b, t, review)
            \/ Asks(b, t, "regenerating", NoArt)
            \/ Ends(b, t, FailedArt(TRUE))
      BY <1>4 DEF Checked
    <2>2. Run(b, t, "checking")
      BY <1>4 DEF Checked
    <2> QED BY <1>0, <2>1, <2>2, AsksType, PublishType, ToType DEF Run, Ends
  <1>5. CASE Regenerated(b, t)
    BY <1>0, <1>5, UnansweredType, ToType DEF Regenerated, Run
  <1>6. CASE Rechecked(b, t)
    <2>1. PICK review \in ArtifactReviews :
            Publish(b, t, review) \/ Ends(b, t, FailedArt(TRUE))
      BY <1>6 DEF Rechecked
    <2>2. Run(b, t, "rechecking")
      BY <1>6 DEF Rechecked
    <2> QED BY <1>0, <2>1, <2>2, PublishType, ToType DEF Run, Ends
  <1> QED BY <1>1, <1>2, <1>3, <1>4, <1>5, <1>6 DEF Specialist

-----------------------------------------------------------------------------
(* Types *)

LEMMA TypeInit == Init => TypeOK
  BY NoBundleType, NoCallType, NoSpecType, BundleAssumption
     DEF Init, TypeOK, Token, NoToken, Session

LEMMA TypeNext == TypeOK /\ [Next]_vars => TypeOK'
  <1> SUFFICES ASSUME TypeOK, [Next]_vars
               PROVE  TypeOK'
    OBVIOUS
  <1>1. ASSUME NEW b \in Tasks, Request(b)
        PROVE  TypeOK'
    <2>1. ASSUME NEW kind \in Kinds, NEW types \in SUBSET Types, Start(b, kind, types)
          PROVE  TypeOK'
      <3>1. call[b] \in Call
        BY DEF TypeOK
      <3>2. [call[b] EXCEPT !.pc = "gate", !.kind = kind, !.types = types,
                            !.row = session.row] \in Call
        BY <3>1 DEF Call, TypeOK, Session
      <3> QED BY <2>1, <3>2 DEF Start, TypeOK
    <2>2. ASSUME NEW of \in Tasks, NEW t \in Types, Retry(b, of, t)
          PROVE  TypeOK'
      <3>1. call[b] \in Call /\ store[of] \in Bundle
        BY DEF TypeOK
      <3>2. [call[b] EXCEPT !.pc = "gate", !.kind = "retry", !.types = {t},
                            !.of = of, !.copy = store[of], !.row = session.row] \in Call
        BY <3>1 DEF Call, Kinds, TypeOK, Session
      <3> QED BY <2>2, <3>2 DEF Retry, TypeOK
    <2>3. \A mode \in {"bundle", "single"} : \A types \in Asked(mode) : types \in SUBSET Types
      BY DEF Asked
    <2> QED BY <1>1, <2>1, <2>2, <2>3 DEF Request
  <1>2. ASSUME NEW b \in Tasks, Gated(b)
        PROVE  TypeOK'
    <2>1. CASE session' = Now("GENERATING") /\ call' = [call EXCEPT ![b].pc = "searching"]
      <3>1. [call[b] EXCEPT !.pc = "searching"] \in Call
        BY CallTypes DEF TypeOK, Generating
      <3>2. Now("GENERATING") \in Session
        BY NowIs DEF TypeOK
      <3> QED BY <1>2, <2>1, <3>1, <3>2 DEF Gated, TypeOK
    <2>2. CASE Refuse(b)
      BY <1>2, <2>2, OverType, EndedType DEF Gated, Refuse, TypeOK
    <2> QED BY <1>2, <2>1, <2>2 DEF Gated, Begin
  <1>3. ASSUME NEW b \in Tasks, Fail(b)
        PROVE  TypeOK'
    BY <1>3, OverType, EndedType DEF Fail, TypeOK
  <1>4. ASSUME NEW b \in Tasks, Plan(b)
        PROVE  TypeOK'
    BY <1>4, CallTypes DEF Plan, TypeOK, Token, Generating
  <1>5. ASSUME NEW b \in Tasks, Planned(b)
        PROVE  TypeOK'
    <2>1. /\ FailedPlan(b, FALSE) \in Bundle
          /\ Aggregated(Uniform(b, CancelledArt), TRUE) \in Bundle
      BY FailedPlanType, UniformType, AggregatedType, ArtTypes
    <2>2. [call[b] EXCEPT !.pc = "reviewing"] \in Call
      BY CallTypes DEF TypeOK, Generating
    <2> QED BY <1>5, <2>1, <2>2, ConcludeType DEF Planned, TypeOK
  <1>6. ASSUME NEW b \in Tasks, PlanReviewed(b)
        PROVE  TypeOK'
    <2>1. /\ [call[b] EXCEPT !.pc = "working"] \in Call
          /\ [NoSpec EXCEPT !.pc = "waiting"] \in Spec1
      BY CallTypes, NoSpecType DEF TypeOK, Generating, Spec1
    <2>2. \A r \in BOOLEAN : FailedPlan(b, r) \in Bundle
      BY FailedPlanType
    <2>3. PICK review \in PlanReviews :
            IF review = "passed"
              THEN /\ call' = [call EXCEPT ![b].pc = "working"]
                   /\ spec' = [spec EXCEPT ![b] = [t \in Types |->
                                 IF t \in call[b].types
                                   THEN [NoSpec EXCEPT !.pc = "waiting"] ELSE NoSpec]]
                   /\ UNCHANGED <<session, store, token>>
              ELSE /\ Conclude(b, FailedPlan(b, review = "unavailable"))
                   /\ UNCHANGED spec
      BY <1>6 DEF PlanReviewed
    <2>4. CASE review = "passed"
      <3>1. [t \in Types |-> IF t \in call[b].types THEN [NoSpec EXCEPT !.pc = "waiting"]
                             ELSE NoSpec] \in [Types -> Spec1]
        BY <2>1, NoSpecType
      <3> QED BY <2>1, <2>3, <2>4, <3>1 DEF TypeOK
    <2>5. CASE review # "passed"
      BY <2>2, <2>3, <2>5, ConcludeType DEF TypeOK
    <2> QED BY <2>4, <2>5
  <1>7. ASSUME NEW b \in Tasks, NEW t \in Types, Specialist(b, t)
        PROVE  TypeOK'
    BY <1>7, SpecialistType DEF TypeOK
  <1>8. ASSUME NEW b \in Tasks, Gather(b)
        PROVE  TypeOK'
    <2>1. Aggregated([t \in Types |-> spec[b][t].art], token[b].cancelled) \in Bundle
      BY AggregatedType DEF TypeOK, Spec1, Token
    <2> QED BY <1>8, <2>1, ConcludeType, NoSpecType DEF Gather, TypeOK
  <1>9. ASSUME NEW b \in Tasks, Break(b)
        PROVE  TypeOK'
    BY <1>9, OverType, EndedType DEF Break, TypeOK, Token
  <1>10. ASSUME NEW b \in Tasks, Close(b)
         PROVE  TypeOK'
    <2>1. call[b].out \in Bundle
      BY DEF TypeOK, Call
    <2> QED BY <1>10, <2>1, StoreType DEF Close, TypeOK, Token, NoToken
  <1>11. ASSUME NEW b \in Tasks, Cancel(b)
         PROVE  TypeOK'
    BY <1>11 DEF Cancel, TypeOK, Token
  <1>12. ASSUME NEW b \in Tasks, Leave(b)
         PROVE  TypeOK'
    <2>1. [call[b] EXCEPT !.detached = TRUE] \in Call
      BY CallTypes DEF TypeOK
    <2> QED BY <1>12, <2>1, OverType, EndedType DEF Leave, TypeOK
  <1>13. CASE Delete
    <2>1. 0 \in 0..MaxRow
      BY BundleAssumption
    <2> QED BY <1>13, <2>1, NoBundleType DEF Delete, TypeOK, NoSession, Session
  <1>14. CASE Create \/ Decline
    BY <1>14, NowIs DEF Create, Decline, TypeOK, Session
  <1>15. CASE UNCHANGED vars
    BY <1>15 DEF vars, TypeOK
  <1> QED
    BY <1>1, <1>2, <1>3, <1>4, <1>5, <1>6, <1>7, <1>8, <1>9, <1>10, <1>11, <1>12, <1>13,
       <1>14, <1>15 DEF Next, Progress

\* The session, the bundles, the calls, the tokens and the specialists keep their
\* types whatever tasks, types and offers there are.
THEOREM TypeCorrect == Spec => []TypeOK
  BY TypeInit, TypeNext, PTL DEF Spec
-----------------------------------------------------------------------------
(* What is stored is reviewed, and its status follows from it *)

LEMMA ArtValues ==
  /\ NoArt.status = "absent" /\ CancelledArt.status = "CANCELLED"
  /\ \A r \in BOOLEAN : FailedArt(r).status = "FAILED"
  /\ Written(1).text = 1 /\ Written(2).text = 2 /\ Written(3).text = 3
  /\ \A n : Written(n).status = "SUCCEEDED"
  <1>1. NoArt.status = "absent" /\ NoArt \in Art
    BY ArtTypes DEF NoArt
  <1>2. ASSUME NEW a \in Art, NEW r, NEW n
        PROVE  /\ [a EXCEPT !.status = "CANCELLED", !.retryable = r].status = "CANCELLED"
               /\ [a EXCEPT !.status = "FAILED", !.retryable = r].status = "FAILED"
               /\ [a EXCEPT !.status = "SUCCEEDED", !.text = n].text = n
               /\ [a EXCEPT !.status = "SUCCEEDED", !.text = n].status = "SUCCEEDED"
    BY DEF Art
  <1> QED BY <1>1, <1>2 DEF CancelledArt, FailedArt, Written

LEMMA PassedValues ==
  ASSUME NEW a \in Art
  PROVE  /\ [a EXCEPT !.safe = a.text].safe = a.text
         /\ [a EXCEPT !.safe = a.text].text = a.text
         /\ [a EXCEPT !.safe = a.text].status = a.status
  BY DEF Art

Clear(arts) == \A t \in Types : Cleared(arts[t])

\* a bundle as it may be stored
BundleGood(bundle) == Clear(bundle.arts) /\ Follows(bundle)

\* what a call may conclude with: an artifact of each type it asked for
OutGood(types, out) ==
  BundleGood(out) /\ \A t \in types : out.arts[t].status # "absent"

CallGood(c) ==
  /\ c.pc \notin {"idle", "over"} => c.types # {}
  /\ BundleGood(c.copy)
  /\ c.kind = "retry" => c.copy.status # "none"
  /\ c.pc = "closing" => OutGood(c.types, c.out)

\* A text under review is there; a finished specialist has an artifact, which passed
\* its review if it is a success.
SpecGood(s) ==
  /\ s.pc \in {"checking", "rechecking"} => s.art.status = "SUCCEEDED" /\ s.art.text # 0
  /\ s.pc = "done" => s.art.status # "absent" /\ Cleared(s.art)

\* a specialist nobody asked for has nothing
NoOthers(c, specialists) ==
  c.pc = "working" => \A t \in Types \ c.types : specialists[t] = NoSpec

BundleInv ==
  /\ TypeOK
  /\ \A b \in Tasks : /\ BundleGood(store[b])
                      /\ CallGood(call[b])
                      /\ NoOthers(call[b], spec[b])
                      /\ \A t \in Types : SpecGood(spec[b][t])

LEMMA NoBundleGood == BundleGood(NoBundle)
  <1>1. NoBundle.status = "none" /\ \A t \in Types : NoBundle.arts[t].status = "absent"
    BY ArtValues DEF NoBundle
  <1> QED BY <1>1 DEF BundleGood, Clear, Cleared, Follows, Requested

LEMMA AggregatedGood ==
  ASSUME NEW arts \in [Types -> Art], NEW cancelled \in BOOLEAN,
         Clear(arts), Requested(arts) # {}
  PROVE  BundleGood(Aggregated(arts, cancelled))
  <1> DEFINE bundle == Aggregated(arts, cancelled)
  <1>1. bundle.arts = arts /\ bundle.status = Status(arts, cancelled)
    BY AggregatedType
  <1>2. CASE cancelled
    <2>1. bundle.status = "CANCELLED"
      BY <1>1, <1>2 DEF Status
    <2> QED BY <1>1, <2>1 DEF BundleGood, Follows
  <1>3. CASE ~cancelled
    <2>1. /\ bundle.status \in {"COMPLETED", "PARTIAL", "FAILED"}
          /\ bundle.status = "COMPLETED" => Succeeded(arts) = Requested(arts)
          /\ bundle.status = "PARTIAL" => Succeeded(arts) \notin {{}, Requested(arts)}
          /\ bundle.status = "FAILED" => Succeeded(arts) = {}
      BY <1>1, <1>3 DEF Status
    <2> QED BY <1>1, <2>1 DEF BundleGood, Follows
  <1> QED BY <1>2, <1>3

LEMMA UniformGood ==
  ASSUME TypeOK, NEW b \in Tasks, call[b].types # {}, NEW a \in Art,
         a.status \in {"FAILED", "CANCELLED"}
  PROVE  /\ Clear(Uniform(b, a))
         /\ Requested(Uniform(b, a)) # {}
         /\ Succeeded(Uniform(b, a)) = {}
         /\ \A t \in call[b].types : Uniform(b, a)[t].status # "absent"
  <1>1. /\ call[b].types \subseteq Types
        /\ \A t \in Types : Uniform(b, a)[t] = IF t \in call[b].types THEN a ELSE NoArt
    BY UniformType DEF TypeOK, Call
  <1>2. \A t \in Types : Uniform(b, a)[t].status # "SUCCEEDED"
    BY <1>1, ArtValues
  <1>3. \A t \in call[b].types : t \in Types /\ Uniform(b, a)[t].status # "absent"
    BY <1>1
  <1> QED BY <1>2, <1>3 DEF Clear, Cleared, Requested, Succeeded

LEMMA FailedPlanGood ==
  ASSUME TypeOK, NEW b \in Tasks, call[b].types # {}, NEW r \in BOOLEAN
  PROVE  OutGood(call[b].types, FailedPlan(b, r))
  <1> DEFINE arts == Uniform(b, FailedArt(r))
  <1>1. /\ Clear(arts) /\ Requested(arts) # {} /\ Succeeded(arts) = {}
        /\ \A t \in call[b].types : arts[t].status # "absent"
    BY UniformGood, ArtTypes, ArtValues
  <1>2. FailedPlan(b, r).status = "FAILED" /\ FailedPlan(b, r).arts = arts
    BY DEF FailedPlan
  <1> HIDE DEF arts
  <1> QED BY <1>1, <1>2 DEF OutGood, BundleGood, Follows

LEMMA CancelledGood ==
  ASSUME TypeOK, NEW b \in Tasks, call[b].types # {}
  PROVE  OutGood(call[b].types, Aggregated(Uniform(b, CancelledArt), TRUE))
  <1> DEFINE arts == Uniform(b, CancelledArt)
  <1>1. /\ arts \in [Types -> Art]
        /\ Clear(arts) /\ Requested(arts) # {}
        /\ \A t \in call[b].types : arts[t].status # "absent"
    BY UniformGood, UniformType, ArtTypes, ArtValues
  <1>2. ASSUME NEW any \in [Types -> Art], Clear(any), Requested(any) # {},
               \A t \in call[b].types : any[t].status # "absent"
        PROVE  OutGood(call[b].types, Aggregated(any, TRUE))
    BY <1>2, AggregatedType, AggregatedGood DEF OutGood
  <1> QED BY <1>1, <1>2

LEMMA MergedGood ==
  ASSUME TypeOK, NEW b \in Tasks, NEW out \in Bundle, call[b].types # {},
         CallGood(call[b]), OutGood(call[b].types, out)
  PROVE  BundleGood(Merged(b, out))
  <1> DEFINE arts == [t \in Types |-> IF t \in call[b].types THEN out.arts[t]
                                      ELSE call[b].copy.arts[t]]
  <1>1. arts \in [Types -> Art] /\ call[b].types \subseteq Types
    BY DEF TypeOK, Call, Bundle
  <1>2. Clear(arts)
    BY DEF CallGood, OutGood, BundleGood, Clear
  <1>3. \A t \in call[b].types : t \in Types /\ arts[t].status # "absent"
    BY <1>1 DEF OutGood
  <1>4. Requested(arts) # {}
    BY <1>3 DEF Requested
  <1>5. Merged(b, out) = Aggregated(arts, FALSE)
    BY DEF Merged
  <1> HIDE DEF arts
  <1> QED BY <1>1, <1>2, <1>4, <1>5, AggregatedGood

-----------------------------------------------------------------------------
(* Steps of calls *)

LEMMA OverEffect ==
  ASSUME TypeOK, NEW b \in Tasks, Over(b)
  PROVE  /\ \A c \in Tasks \ {b} : call'[c] = call[c]
         /\ call'[b].pc = "over" /\ call'[b].kind = "none" /\ call'[b].copy = NoBundle
         /\ call'[b].types = {} /\ call'[b].of = b
         /\ call'[b].row = call[b].row /\ call'[b].detached = call[b].detached
  BY DEF TypeOK, Over, NoCall

LEMMA OverGood ==
  ASSUME BundleInv, NEW b \in Tasks, Over(b)
  PROVE  \A c \in Tasks : CallGood(call'[c]) /\ (c # b => call'[c] = call[c])
                         /\ (c = b => call'[c].pc = "over")
  <1>1. CallGood(call'[b])
    BY OverEffect, NoBundleGood DEF BundleInv, CallGood
  <1> QED BY <1>1, OverEffect DEF BundleInv

LEMMA StoreEffect ==
  ASSUME TypeOK, NEW b \in Tasks, NEW out \in Bundle, Store(b, out)
  PROVE  /\ Over(b) /\ session' \in {Restored(b), Left(b)}
         /\ \A c \in Tasks :
              \/ store'[c] = store[c]
              \/ /\ c = call[b].of
                 /\ HasRow(b) \/ call[b].detached
                 /\ store'[c] = IF call[b].kind = "retry" THEN Merged(b, out) ELSE out
              \/ /\ c = b /\ HasRow(b) /\ store'[c] = out
  <1>1. CASE store' = Result(b, out) /\ (HasRow(b) \/ call[b].detached)
    BY <1>1 DEF Store, Result, TypeOK
  <1>2. CASE store' = [store EXCEPT ![b] = out] /\ HasRow(b)
    BY <1>2 DEF Store, TypeOK
  <1>3. CASE store' = store
    BY <1>3 DEF Store
  <1> QED BY <1>1, <1>2, <1>3 DEF Store

LEMMA StoreGood ==
  ASSUME BundleInv, NEW b \in Tasks, NEW out \in Bundle, Store(b, out),
         call[b].types # {}, OutGood(call[b].types, out)
  PROVE  \A c \in Tasks : /\ BundleGood(store'[c])
                          /\ CallGood(call'[c])
                          /\ c # b => call'[c] = call[c]
                          /\ c = b => call'[c].pc = "over"
  <1>1. CallGood(call[b]) /\ TypeOK
    BY DEF BundleInv
  <1>2. BundleGood(Merged(b, out)) /\ BundleGood(out)
    BY <1>1, MergedGood DEF OutGood
  <1> QED BY <1>1, <1>2, StoreEffect, OverGood DEF BundleInv

LEMMA ConcludeGood ==
  ASSUME BundleInv, NEW b \in Tasks, NEW out \in Bundle, Conclude(b, out),
         call[b].types # {}, OutGood(call[b].types, out)
  PROVE  \A c \in Tasks : /\ BundleGood(store'[c])
                          /\ CallGood(call'[c])
                          /\ c # b => call'[c] = call[c]
                          /\ c = b => call'[c].pc \in {"over", "closing"}
  <1>1. CASE call[b].kind = "stream"
    <2>1. /\ store' = store
          /\ \A c \in Tasks \ {b} : call'[c] = call[c]
          /\ call'[b] = [call[b] EXCEPT !.pc = "closing", !.out = out]
      BY <1>1 DEF Conclude, BundleInv, TypeOK
    <2>2. /\ call'[b].pc = "closing" /\ call'[b].out = out /\ call'[b].types = call[b].types
          /\ call'[b].copy = call[b].copy /\ call'[b].kind = call[b].kind
      BY <2>1 DEF BundleInv, TypeOK, Call
    <2>3. CallGood(call'[b])
      BY <2>2 DEF BundleInv, CallGood
    <2> QED BY <2>1, <2>2, <2>3 DEF BundleInv
  <1>2. CASE call[b].kind # "stream"
    BY <1>2, StoreGood DEF Conclude
  <1> QED BY <1>1, <1>2

-----------------------------------------------------------------------------
(* Steps of specialists *)

LEMMA ToGood ==
  ASSUME BundleInv, NEW b \in Tasks, NEW t \in Types, NEW a, NEW pc, To(b, t, pc, a),
         SpecGood([pc |-> pc, art |-> a])
  PROVE  \A c \in Tasks, u \in Types : /\ SpecGood(spec'[c][u])
                                       /\ <<c, u>> # <<b, t>> => spec'[c][u] = spec[c][u]
  BY DEF BundleInv, TypeOK, To

LEMMA EndsGood ==
  ASSUME BundleInv, NEW b \in Tasks, NEW t \in Types, NEW a \in Art, Ends(b, t, a),
         a.status # "absent", Cleared(a)
  PROVE  \A c \in Tasks, u \in Types : /\ SpecGood(spec'[c][u])
                                       /\ <<c, u>> # <<b, t>> => spec'[c][u] = spec[c][u]
  <1>1. SpecGood([pc |-> "done", art |-> a])
    BY DEF SpecGood
  <1> QED BY <1>1, ToGood DEF Ends

\* what a step of specialist t of task b must do
StepGood(b, t) ==
  \A c \in Tasks, u \in Types : /\ SpecGood(spec'[c][u])
                                /\ <<c, u>> # <<b, t>> => spec'[c][u] = spec[c][u]

LEMMA AsksGood ==
  ASSUME BundleInv, NEW b \in Tasks, NEW t \in Types, NEW a, NEW pc \in Calling,
         Asks(b, t, pc, a)
  PROVE  StepGood(b, t)
  <1>1. CASE token[b].cancelled
    <2>1. Ends(b, t, CancelledArt) /\ Cleared(CancelledArt)
      BY <1>1, ArtValues DEF Asks, Cleared
    <2> QED BY <2>1, EndsGood, ArtTypes, ArtValues DEF StepGood
  <1>2. CASE ~token[b].cancelled
    <2>1. SpecGood([pc |-> pc, art |-> a])
      BY DEF SpecGood, Calling
    <2> QED BY <1>2, <2>1, ToGood DEF Asks, StepGood
  <1> QED BY <1>1, <1>2

LEMMA FailsGood ==
  ASSUME BundleInv, NEW b \in Tasks, NEW t \in Types, NEW r \in BOOLEAN,
         Ends(b, t, FailedArt(r))
  PROVE  StepGood(b, t)
  <1>1. FailedArt(r) \in Art /\ FailedArt(r).status = "FAILED" /\ Cleared(FailedArt(r))
    BY ArtTypes, ArtValues DEF Cleared
  <1> QED BY <1>1, EndsGood DEF StepGood

LEMMA UnansweredGood ==
  ASSUME BundleInv, NEW b \in Tasks, NEW t \in Types, Unanswered(b, t)
  PROVE  StepGood(b, t)
  <1>1. CancelledArt \in Art /\ CancelledArt.status = "CANCELLED" /\ Cleared(CancelledArt)
    BY ArtTypes, ArtValues DEF Cleared
  <1>2. CASE Ends(b, t, CancelledArt)
    BY <1>1, <1>2, EndsGood DEF StepGood
  <1> QED BY <1>2, FailsGood DEF Unanswered

\* a text goes to its review
LEMMA SubmitGood ==
  ASSUME BundleInv, NEW b \in Tasks, NEW t \in Types, NEW n \in 1..3,
         NEW pc \in {"checking", "rechecking"}, To(b, t, pc, Written(n))
  PROVE  StepGood(b, t)
  <1>1. Written(n).status = "SUCCEEDED" /\ Written(n).text # 0
    <2>1. n \in {1, 2, 3}
      OBVIOUS
    <2> QED BY <2>1, ArtValues
  <1>2. SpecGood([pc |-> pc, art |-> Written(n)])
    BY <1>1 DEF SpecGood
  <1> QED BY <1>2, ToGood DEF StepGood

\* only a text that was reviewed is published
LEMMA PublishGood ==
  ASSUME BundleInv, NEW b \in Tasks, NEW t \in Types, NEW review, Publish(b, t, review),
         spec[b][t].pc \in {"checking", "rechecking"}
  PROVE  StepGood(b, t)
  <1> DEFINE a == spec[b][t].art
  <1> DEFINE passed == [a EXCEPT !.safe = a.text]
  <1>1. a \in Art /\ a.status = "SUCCEEDED" /\ a.text # 0
    BY DEF BundleInv, TypeOK, Spec1, SpecGood
  <1>2. passed \in Art /\ passed.status = "SUCCEEDED" /\ Cleared(passed)
    BY <1>1, PassedType, PassedValues DEF Cleared
  <1>3. CASE Ends(b, t, passed)
    BY <1>2, <1>3, EndsGood DEF StepGood
  <1>4. CASE To(b, t, "broken", NoArt)
    <2>1. SpecGood([pc |-> "broken", art |-> NoArt])
      BY DEF SpecGood
    <2> QED BY <1>4, <2>1, ToGood DEF StepGood
  <1> QED BY <1>3, <1>4 DEF Publish

LEMMA SpecialistGood ==
  ASSUME BundleInv, NEW b \in Tasks, NEW t \in Types, Specialist(b, t)
  PROVE  StepGood(b, t) /\ spec[b][t].pc # "none"
  <1>1. CASE Enter(b, t)
    BY <1>1, AsksGood DEF Enter, Run, Calling
  <1>2. CASE Answered(b, t)
    <2>1. \/ Unanswered(b, t)
          \/ Ends(b, t, FailedArt(FALSE))
          \/ Asks(b, t, "repairing", Written(1))
          \/ To(b, t, "checking", Written(1))
      BY <1>2 DEF Answered
    <2>2. "repairing" \in Calling /\ 1 \in 1..3 /\ spec[b][t].pc # "none"
      BY <1>2 DEF Answered, Run, Calling
    <2> QED BY <2>1, <2>2, AsksGood, UnansweredGood, FailsGood, SubmitGood
  <1>3. CASE Repaired(b, t)
    BY <1>3, UnansweredGood, SubmitGood DEF Repaired, Run
  <1>4. CASE Checked(b, t)
    <2>1. PICK review \in ArtifactReviews :
            \/ Publish(b, t, review)
            \/ Asks(b, t, "regenerating", NoArt)
            \/ Ends(b, t, FailedArt(TRUE))
      BY <1>4 DEF Checked
    <2>2. spec[b][t].pc = "checking"
      BY <1>4 DEF Checked, Run
    <2> QED BY <2>1, <2>2, PublishGood, AsksGood, FailsGood DEF Calling
  <1>5. CASE Regenerated(b, t)
    BY <1>5, UnansweredGood, SubmitGood DEF Regenerated, Run
  <1>6. CASE Rechecked(b, t)
    <2>1. PICK review \in ArtifactReviews :
            Publish(b, t, review) \/ Ends(b, t, FailedArt(TRUE))
      BY <1>6 DEF Rechecked
    <2>2. spec[b][t].pc = "rechecking"
      BY <1>6 DEF Rechecked, Run
    <2> QED BY <2>1, <2>2, PublishGood, FailsGood
  <1> QED BY <1>1, <1>2, <1>3, <1>4, <1>5, <1>6 DEF Specialist

-----------------------------------------------------------------------------
(* The invariant *)

LEMMA BundleInit == Init => BundleInv
  <1> SUFFICES ASSUME Init
               PROVE  BundleInv
    OBVIOUS
  <1>1. \A b \in Tasks : /\ NoCall(b).pc = "idle" /\ NoCall(b).kind = "none"
                         /\ NoCall(b).copy = NoBundle
    BY DEF NoCall
  <1>2. NoSpec.pc = "none"
    BY DEF NoSpec
  <1> QED BY <1>1, <1>2, TypeInit, NoBundleGood
      DEF Init, BundleInv, CallGood, NoOthers, SpecGood

\* call and store are as before, or as a conclusion of task b leaves them
EndGood(b) ==
  \A c \in Tasks : /\ BundleGood(store'[c])
                   /\ CallGood(call'[c])
                   /\ c # b => call'[c] = call[c]
                   /\ c = b => call'[c].pc # "working"

\* ... of a task whose specialists are none, or have all returned
LEMMA EndStep ==
  ASSUME BundleInv, TypeOK', NEW b \in Tasks, EndGood(b),
         spec' = spec \/ spec' = [spec EXCEPT ![b] = [u \in Types |-> NoSpec]]
  PROVE  BundleInv'
  <1>1. SpecGood(NoSpec)
    BY DEF SpecGood, NoSpec
  <1>2. \A c \in Tasks : /\ c # b => spec'[c] = spec[c]
                         /\ \A t \in Types : SpecGood(spec'[c][t])
    BY <1>1, BundleAssumption DEF BundleInv, TypeOK
  <1>3. ASSUME NEW c \in Tasks
        PROVE  NoOthers(call'[c], spec'[c])
    <2>1. CASE c = b
      BY <2>1 DEF EndGood, NoOthers
    <2>2. CASE c # b
      BY <1>2, <2>2 DEF BundleInv, EndGood
    <2> QED BY <2>1, <2>2
  <1>4. \A c \in Tasks : BundleGood(store'[c]) /\ CallGood(call'[c])
    BY DEF EndGood
  <1> QED BY <1>2, <1>3, <1>4 DEF BundleInv

LEMMA BundleNext == BundleInv /\ [Next]_vars => BundleInv'
  <1> SUFFICES ASSUME BundleInv, [Next]_vars
               PROVE  BundleInv'
    OBVIOUS
  <1>0. TypeOK /\ TypeOK'
    BY TypeNext DEF BundleInv
  <1>1. ASSUME NEW b \in Tasks, Request(b)
        PROVE  BundleInv'
    <2>1. ASSUME NEW kind \in Kinds \ {"retry"}, NEW types \in SUBSET Types, types # {},
                 Start(b, kind, types)
          PROVE  BundleInv'
      <3>1. /\ call'[b].pc = "gate" /\ call'[b].kind = kind /\ call'[b].types = types
            /\ call'[b].copy = call[b].copy
            /\ \A c \in Tasks \ {b} : call'[c] = call[c]
        BY <1>0, <2>1 DEF Start, TypeOK, Call
      <3>2. CallGood(call'[b]) /\ NoOthers(call'[b], spec[b])
        BY <2>1, <3>1 DEF BundleInv, CallGood, NoOthers
      <3> QED BY <1>0, <2>1, <3>1, <3>2 DEF Start, BundleInv
    <2>2. ASSUME NEW of \in Tasks, NEW t \in Types, Retry(b, of, t)
          PROVE  BundleInv'
      <3>1. /\ call'[b].pc = "gate" /\ call'[b].types = {t} /\ call'[b].copy = store[of]
            /\ \A c \in Tasks \ {b} : call'[c] = call[c]
        BY <1>0, <2>2 DEF Retry, TypeOK, Call
      <3>2. CallGood(call'[b]) /\ NoOthers(call'[b], spec[b])
        BY <2>2, <3>1 DEF Retry, BundleInv, CallGood, NoOthers
      <3> QED BY <1>0, <2>2, <3>1, <3>2 DEF Retry, BundleInv
    <2>3. \A mode \in {"bundle", "single"} : \A types \in Asked(mode) :
            types \in SUBSET Types /\ types # {}
      BY BundleAssumption DEF Asked
    <2> QED BY <1>1, <2>1, <2>2, <2>3 DEF Request
  <1>2. ASSUME NEW b \in Tasks, Gated(b)
        PROVE  BundleInv'
    <2>1. CASE Over(b)
      <3>1. store' = store /\ spec' = spec
        BY <1>2 DEF Gated
      <3>2. EndGood(b)
        BY <2>1, <3>1, OverGood DEF EndGood, BundleInv
      <3> QED BY <1>0, <3>1, <3>2, EndStep
    <2>2. CASE call' = [call EXCEPT ![b].pc = "searching"]
      <3>1. /\ call'[b].pc = "searching" /\ call'[b].kind = call[b].kind
            /\ call'[b].types = call[b].types /\ call'[b].copy = call[b].copy
            /\ \A c \in Tasks \ {b} : call'[c] = call[c]
        BY <1>0, <2>2 DEF TypeOK, Call
      <3>2. CallGood(call'[b]) /\ NoOthers(call'[b], spec[b])
        BY <1>2, <3>1 DEF Gated, BundleInv, CallGood, NoOthers
      <3> QED BY <1>0, <1>2, <3>1, <3>2 DEF Gated, BundleInv
    <2> QED BY <1>2, <2>1, <2>2 DEF Gated, Begin, Refuse
  <1>3. ASSUME NEW b \in Tasks, Fail(b)
        PROVE  BundleInv'
    <2>1. EndGood(b)
      BY <1>3, OverGood DEF Fail, EndGood, BundleInv
    <2> QED BY <1>0, <1>3, <2>1, EndStep DEF Fail
  <1>4. ASSUME NEW b \in Tasks, Plan(b)
        PROVE  BundleInv'
    <2>1. /\ call'[b].pc = "planning" /\ call'[b].kind = call[b].kind
          /\ call'[b].types = call[b].types /\ call'[b].copy = call[b].copy
          /\ \A c \in Tasks \ {b} : call'[c] = call[c]
      BY <1>0, <1>4 DEF Plan, TypeOK, Call
    <2>2. CallGood(call'[b]) /\ NoOthers(call'[b], spec[b])
      BY <1>4, <2>1 DEF Plan, BundleInv, CallGood, NoOthers
    <2> QED BY <1>0, <1>4, <2>1, <2>2 DEF Plan, BundleInv
  <1>5. ASSUME NEW b \in Tasks, Planned(b)
        PROVE  BundleInv'
    <2>0. call[b].types # {} /\ spec' = spec
      BY <1>5 DEF Planned, BundleInv, CallGood
    <2>1. CASE call' = [call EXCEPT ![b].pc = "reviewing"] /\ store' = store
      <3>1. /\ call'[b].pc = "reviewing" /\ call'[b].kind = call[b].kind
            /\ call'[b].types = call[b].types /\ call'[b].copy = call[b].copy
            /\ \A c \in Tasks \ {b} : call'[c] = call[c]
        BY <1>0, <2>1 DEF TypeOK, Call
      <3>2. CallGood(call'[b]) /\ NoOthers(call'[b], spec[b])
        BY <2>0, <3>1 DEF BundleInv, CallGood, NoOthers
      <3> QED BY <1>0, <2>0, <2>1, <3>1, <3>2 DEF BundleInv
    <2>2. ASSUME NEW out \in Bundle, Conclude(b, out), OutGood(call[b].types, out)
          PROVE  BundleInv'
      <3>1. EndGood(b)
        BY <2>0, <2>2, ConcludeGood DEF EndGood
      <3> QED BY <1>0, <2>0, <3>1, EndStep
    <2>3. /\ FailedPlan(b, FALSE) \in Bundle
          /\ OutGood(call[b].types, FailedPlan(b, FALSE))
          /\ Aggregated(Uniform(b, CancelledArt), TRUE) \in Bundle
          /\ OutGood(call[b].types, Aggregated(Uniform(b, CancelledArt), TRUE))
      BY <1>0, <2>0, FailedPlanType, FailedPlanGood, CancelledGood, AggregatedType,
         UniformType, ArtTypes
    <2> QED BY <1>5, <2>1, <2>2, <2>3 DEF Planned
  <1>6. ASSUME NEW b \in Tasks, PlanReviewed(b)
        PROVE  BundleInv'
    <2> DEFINE started == [t \in Types |-> IF t \in call[b].types
                             THEN [NoSpec EXCEPT !.pc = "waiting"] ELSE NoSpec]
    <2>0. call[b].types # {}
      BY <1>6 DEF PlanReviewed, BundleInv, CallGood
    <2>1. CASE /\ call' = [call EXCEPT ![b].pc = "working"]
               /\ spec' = [spec EXCEPT ![b] = started]
               /\ store' = store
      <3>1. /\ call'[b].pc = "working" /\ call'[b].kind = call[b].kind
            /\ call'[b].types = call[b].types /\ call'[b].copy = call[b].copy
            /\ \A c \in Tasks \ {b} : call'[c] = call[c]
        BY <1>0, <2>1 DEF TypeOK, Call
      <3>2. spec'[b] = started /\ \A c \in Tasks \ {b} : spec'[c] = spec[c]
        BY <1>0, <2>1 DEF TypeOK
      <3>3. CallGood(call'[b]) /\ NoOthers(call'[b], started)
        BY <2>0, <3>1 DEF BundleInv, CallGood, NoOthers
      <3>4. \A t \in Types : SpecGood(started[t])
        <4>1. NoSpec.pc = "none" /\ [NoSpec EXCEPT !.pc = "waiting"].pc = "waiting"
          BY DEF NoSpec
        <4> QED BY <4>1 DEF SpecGood
      <3> HIDE DEF started
      <3> QED BY <1>0, <2>1, <3>1, <3>2, <3>3, <3>4 DEF BundleInv
    <2>2. ASSUME NEW r \in BOOLEAN, Conclude(b, FailedPlan(b, r)), spec' = spec
          PROVE  BundleInv'
      <3>1. FailedPlan(b, r) \in Bundle /\ OutGood(call[b].types, FailedPlan(b, r))
        BY <1>0, <2>0, FailedPlanType, FailedPlanGood
      <3>2. EndGood(b)
        BY <2>0, <2>2, <3>1, ConcludeGood DEF EndGood
      <3> QED BY <1>0, <2>2, <3>2, EndStep
    <2>3. PICK review \in PlanReviews :
            IF review = "passed"
              THEN /\ call' = [call EXCEPT ![b].pc = "working"]
                   /\ spec' = [spec EXCEPT ![b] = started]
                   /\ UNCHANGED <<session, store, token>>
              ELSE /\ Conclude(b, FailedPlan(b, review = "unavailable"))
                   /\ UNCHANGED spec
      BY <1>6 DEF PlanReviewed
    <2> HIDE DEF started
    <2>4. CASE review = "passed"
      BY <2>1, <2>3, <2>4
    <2>5. CASE review # "passed"
      BY <2>2, <2>3, <2>5
    <2> QED BY <2>4, <2>5
  <1>7. ASSUME NEW b \in Tasks, NEW t \in Types, Specialist(b, t)
        PROVE  BundleInv'
    <2>1. UNCHANGED <<session, store, call, token>>
      BY <1>0, <1>7, SpecialistType
    <2>2. StepGood(b, t) /\ spec[b][t].pc # "none"
      BY <1>7, SpecialistGood
    <2>3. call[b].pc = "working" => t \in call[b].types
      BY <2>2 DEF BundleInv, NoOthers, NoSpec
    <2>4. \A c \in Tasks : NoOthers(call[c], spec'[c])
      <3>1. ASSUME NEW c \in Tasks, call[c].pc = "working", NEW u \in Types \ call[c].types
            PROVE  spec'[c][u] = NoSpec
        <4>1. spec'[c][u] = spec[c][u]
          BY <2>2, <2>3, <3>1 DEF StepGood
        <4> QED BY <3>1, <4>1 DEF BundleInv, NoOthers
      <3> QED BY <3>1 DEF NoOthers
    <2>5. \A c \in Tasks, u \in Types : SpecGood(spec'[c][u])
      BY <2>2 DEF StepGood
    <2> QED BY <1>0, <2>1, <2>4, <2>5 DEF BundleInv
  <1>8. ASSUME NEW b \in Tasks, Gather(b)
        PROVE  BundleInv'
    <2> DEFINE arts == [t \in Types |-> spec[b][t].art]
    <2> DEFINE out == Aggregated(arts, token[b].cancelled)
    <2>0. call[b].pc = "working" /\ CallGood(call[b])
      BY <1>8 DEF Gather, BundleInv
    <2>1. /\ call[b].types # {} /\ call[b].types \subseteq Types
          /\ arts \in [Types -> Art] /\ token[b].cancelled \in BOOLEAN
      <3>1. call[b].types # {}
        BY <2>0 DEF CallGood
      <3>2. call[b].types \subseteq Types /\ token[b].cancelled \in BOOLEAN
        BY <1>0 DEF TypeOK, Call, Token
      <3>3. arts \in [Types -> Art]
        BY <1>0 DEF TypeOK, Spec1
      <3> QED BY <3>1, <3>2, <3>3
    <2>2. \A t \in call[b].types : spec[b][t].art.status # "absent" /\ Cleared(spec[b][t].art)
      BY <1>8, <2>1 DEF Gather, BundleInv, SpecGood
    <2>3. \A t \in Types \ call[b].types : spec[b][t].art = NoArt
      BY <1>8 DEF Gather, BundleInv, NoOthers, NoSpec
    <2>4. Clear(arts)
      BY <2>2, <2>3, ArtValues DEF Clear, Cleared
    <2>5. Requested(arts) # {} /\ \A t \in call[b].types : arts[t].status # "absent"
      BY <2>1, <2>2 DEF Requested
    <2>6. Conclude(b, out) /\ spec' = [spec EXCEPT ![b] = [t \in Types |-> NoSpec]]
      BY <1>8 DEF Gather
    <2> HIDE DEF arts
    <2>7. out \in Bundle /\ OutGood(call[b].types, out)
      BY <2>1, <2>4, <2>5, AggregatedType, AggregatedGood DEF OutGood
    <2> HIDE DEF out
    <2>8. EndGood(b)
      BY <2>1, <2>6, <2>7, ConcludeGood DEF EndGood
    <2> QED BY <1>0, <2>6, <2>8, EndStep
  <1>9. ASSUME NEW b \in Tasks, Break(b)
        PROVE  BundleInv'
    <2>1. EndGood(b)
      BY <1>9, OverGood DEF Break, EndGood, BundleInv
    <2> QED BY <1>0, <1>9, <2>1, EndStep DEF Break
  <1>10. ASSUME NEW b \in Tasks, Close(b)
         PROVE  BundleInv'
    <2>1. /\ call[b].out \in Bundle /\ call[b].types # {}
          /\ OutGood(call[b].types, call[b].out)
      BY <1>0, <1>10 DEF Close, BundleInv, CallGood, TypeOK, Call
    <2>2. EndGood(b)
      BY <1>10, <2>1, StoreGood DEF Close, EndGood
    <2> QED BY <1>0, <1>10, <2>2, EndStep DEF Close
  <1>11. ASSUME NEW b \in Tasks, Cancel(b)
         PROVE  BundleInv'
    BY <1>0, <1>11 DEF Cancel, BundleInv
  <1>12. ASSUME NEW b \in Tasks, Leave(b)
         PROVE  BundleInv'
    <2>1. store' = store /\ spec' = spec
      BY <1>12 DEF Leave
    <2>2. CASE Over(b)
      <3>1. EndGood(b)
        BY <2>1, <2>2, OverGood DEF EndGood, BundleInv
      <3> QED BY <1>0, <2>1, <3>1, EndStep
    <2>3. CASE call' = [call EXCEPT ![b].detached = TRUE]
      <3>1. /\ call'[b].pc = call[b].pc /\ call'[b].kind = call[b].kind
            /\ call'[b].types = call[b].types /\ call'[b].copy = call[b].copy
            /\ call'[b].out = call[b].out
            /\ \A c \in Tasks \ {b} : call'[c] = call[c]
        BY <1>0, <2>3 DEF TypeOK, Call
      <3>2. CallGood(call'[b]) /\ NoOthers(call'[b], spec[b])
        BY <3>1 DEF BundleInv, CallGood, NoOthers
      <3> QED BY <1>0, <2>1, <3>1, <3>2 DEF BundleInv
    <2> QED BY <1>12, <2>2, <2>3 DEF Leave
  <1>13. CASE Delete
    <2>1. \A c \in Tasks : store'[c] = NoBundle
      BY <1>13 DEF Delete
    <2> QED BY <1>0, <1>13, <2>1, NoBundleGood DEF Delete, BundleInv
  <1>14. CASE Create \/ Decline
    BY <1>0, <1>14 DEF Create, Decline, BundleInv
  <1>15. CASE UNCHANGED vars
    BY <1>0, <1>15 DEF vars, BundleInv
  <1> QED
    BY <1>1, <1>2, <1>3, <1>4, <1>5, <1>6, <1>7, <1>8, <1>9, <1>10, <1>11, <1>12, <1>13,
       <1>14, <1>15 DEF Next, Progress

\* No artifact is given out as a success unless its very text passed a review,
\* whichever of repair, regeneration and retry produced it.
THEOREM OnlyReviewed == Spec => []NothingUnreviewed
  <1>1. BundleInv => NothingUnreviewed
    BY DEF BundleInv, BundleGood, Clear, SpecGood, NothingUnreviewed
  <1> QED BY <1>1, BundleInit, BundleNext, PTL DEF Spec

\* The status stored with a bundle is the one its artifacts have, after any number of
\* retries of single artifacts on older copies.
THEOREM StatusIsDerived == Spec => []StatusFollows
  <1>1. BundleInv => StatusFollows
    BY DEF BundleInv, BundleGood, StatusFollows
  <1> QED BY <1>1, BundleInit, BundleNext, PTL DEF Spec

-----------------------------------------------------------------------------
(* Tasks, their session and their tokens *)

\* the steps of a task whose token may be registered
Cancellable == {"planning", "reviewing", "working"}

CallOwns(b) ==
  /\ call[b].pc \in {"idle", "gate"} => ~call[b].detached
  /\ call[b].kind # "retry" => call[b].of = b
  /\ call[b].kind = "retry" => /\ ~call[b].detached
                               /\ call[b].pc \notin {"idle", "over"}
                               /\ call[call[b].of].pc = "over"
                               /\ \/ call[call[b].of].detached
                                  \/ call[call[b].of].row = call[b].row
  /\ store[b].status # "none" => call[b].pc = "over"
  /\ call[b].pc = "closing" => call[b].kind = "stream" /\ call[b].out.status # "none"

TokenOwned(b) ==
  /\ token[b].registered => call[b].pc \in Cancellable
  /\ token[b].cancelled =>
       \/ call[b].pc = "over"
       \/ call[b].pc \in Cancellable /\ call[b].kind = "stream"
       \/ call[b].pc = "closing" /\ call[b].out.status \in {"CANCELLED", "FAILED"}

TaskInv ==
  /\ TypeOK
  /\ GeneratingHasTask
  /\ BundleOfSession
  /\ \A b \in Tasks : CallOwns(b) /\ TokenOwned(b)

LEMMA TaskInit == Init => TaskInv
  <1> SUFFICES ASSUME Init
               PROVE  TaskInv
    OBVIOUS
  <1>1. \A b \in Tasks : /\ NoCall(b).pc = "idle" /\ NoCall(b).kind = "none"
                         /\ NoCall(b).of = b /\ ~NoCall(b).detached
    BY DEF NoCall
  <1>2. /\ NoToken.registered = FALSE /\ NoToken.cancelled = FALSE
        /\ NoBundle.status = "none"
    BY DEF NoToken, NoBundle
  <1> QED BY <1>1, <1>2, TypeInit
      DEF Init, TaskInv, GeneratingHasTask, BundleOfSession, CallOwns, TokenOwned

\* the token of b is taken from the registry, if it was there
Unregistered(b) ==
  /\ ~token'[b].registered
  /\ \A c \in Tasks \ {b} : token'[c] = token[c]

\* The step of task b is no reason for the session to generate, and takes nobody's row:
\* if it generates afterwards it did before, and not on behalf of b.
Clears(b) ==
  /\ session'.row = session.row
  /\ session'.state = "GENERATING" =>
       /\ session.state = "GENERATING"
       /\ call[b].pc \notin Generating \/ call[b].detached \/ ~HasRow(b)

LEMMA EndClears ==
  ASSUME TypeOK, NEW b \in Tasks, session' \in {Restored(b), Left(b)}
  PROVE  Clears(b)
  <1>1. CASE call[b].detached \/ ~HasRow(b)
    BY <1>1 DEF Clears, Restored, Left
  <1>2. CASE ~call[b].detached /\ HasRow(b)
    <2>1. CASE session' = Now("PROFILED")
      BY <2>1, NowIs DEF TypeOK, Clears
    <2>2. CASE session' = Now("LEFT")
      BY <2>2, NowIs DEF TypeOK, Clears
    <2>3. CASE session' = session /\ session.state # "GENERATING"
      BY <2>3 DEF Clears
    <2> QED BY <1>2, <2>1, <2>2, <2>3 DEF Restored, Left
  <1> QED BY <1>1, <1>2

LEMMA RefusalClears ==
  ASSUME TypeOK, NEW b \in Tasks, call[b].pc \notin Generating,
         session' \in {session, Restored(b)}
  PROVE  Clears(b)
  <1>1. CASE session' = session
    BY <1>1 DEF Clears
  <1> QED BY <1>1, EndClears

\* then whoever ends the generation of the session is still there
LEMMA OthersGenerate ==
  ASSUME TaskInv, NEW b \in Tasks, Clears(b), \A c \in Tasks \ {b} : call'[c] = call[c]
  PROVE  GeneratingHasTask'
  <1> SUFFICES ASSUME session'.state = "GENERATING"
               PROVE  \E c \in Tasks : /\ call'[c].pc \in Generating /\ HasRow(c)'
                                       /\ ~call'[c].detached
    BY DEF GeneratingHasTask
  <1>1. PICK c \in Tasks : call[c].pc \in Generating /\ HasRow(c) /\ ~call[c].detached
    BY DEF Clears, TaskInv, GeneratingHasTask
  <1>2. c # b
    BY <1>1 DEF Clears
  <1> QED BY <1>1, <1>2 DEF Clears, HasRow

\* What a task at work does to the others: nothing.
LEMMA OthersOwn ==
  ASSUME TaskInv, NEW b \in Tasks, call[b].pc # "over",
         \A c \in Tasks \ {b} : call'[c] = call[c] /\ token'[c] = token[c],
         \A c \in Tasks : store'[c].status # "none" =>
                            store[c].status # "none" \/ call'[c].pc = "over",
         NEW c \in Tasks, c # b
  PROVE  CallOwns(c)' /\ TokenOwned(c)'
  <1>1. CallOwns(c) /\ TokenOwned(c) /\ call[c].of \in Tasks
    BY DEF TaskInv, TypeOK, Call
  <1>2. call'[c] = call[c] /\ token'[c] = token[c]
    OBVIOUS
  <1>3. call[c].kind = "retry" => call'[call[c].of] = call[call[c].of]
    <2>1. call[c].kind = "retry" => call[c].of # b
      BY <1>1 DEF CallOwns
    <2> QED BY <1>1, <2>1
  <1>4. store'[c].status # "none" => call'[c].pc = "over"
    BY <1>1, <1>2 DEF CallOwns
  <1> QED BY <1>1, <1>2, <1>3, <1>4 DEF CallOwns, TokenOwned

\* A task ends without a bundle.
LEMMA OverKeeps ==
  ASSUME TaskInv, TypeOK', NEW b \in Tasks, Over(b), store' = store, Unregistered(b),
         call[b].pc # "over", Clears(b)
  PROVE  TaskInv'
  <1>1. /\ \A c \in Tasks \ {b} : call'[c] = call[c]
        /\ call'[b].pc = "over" /\ call'[b].kind = "none" /\ call'[b].of = b
        /\ call'[b].row = call[b].row /\ call'[b].detached = call[b].detached
    BY OverEffect DEF TaskInv
  <1>2. GeneratingHasTask'
    BY <1>1, OthersGenerate
  <1>3. BundleOfSession'
    BY <1>1 DEF TaskInv, BundleOfSession, Clears, HasRow
  <1>4. CallOwns(b)' /\ TokenOwned(b)'
    BY <1>1 DEF TaskInv, CallOwns, TokenOwned, Unregistered
  <1>5. \A c \in Tasks : CallOwns(c)' /\ TokenOwned(c)'
    BY <1>1, <1>4, OthersOwn DEF Unregistered
  <1> QED BY <1>2, <1>3, <1>5 DEF TaskInv

\* A task that stores its bundle stores it in the session it belongs to.
LEMMA StoreKeeps ==
  ASSUME TaskInv, TypeOK', NEW b \in Tasks, NEW out \in Bundle, Store(b, out),
         call[b].pc \in Generating, Unregistered(b)
  PROVE  TaskInv'
  <1>0. TypeOK /\ CallOwns(b) /\ call[b].pc # "over"
    BY DEF TaskInv, Generating
  <1>1. /\ \A c \in Tasks \ {b} : call'[c] = call[c]
        /\ call'[b].pc = "over" /\ call'[b].kind = "none" /\ call'[b].of = b
        /\ call'[b].row = call[b].row /\ call'[b].detached = call[b].detached
    BY <1>0, OverEffect DEF Store
  <1>2. Clears(b)
    BY <1>0, StoreEffect, EndClears
  <1>3. GeneratingHasTask'
    BY <1>1, <1>2, OthersGenerate
  <1>4. \A c \in Tasks : \/ store'[c] = store[c]
                         \/ c = call[b].of /\ (HasRow(b) \/ call[b].detached)
                         \/ c = b /\ HasRow(b)
    BY <1>0, StoreEffect
  <1>5. ASSUME NEW c \in Tasks, store'[c].status # "none"
        PROVE  /\ call'[c].detached \/ HasRow(c)'
               /\ store[c].status # "none" \/ call'[c].pc = "over"
    <2>1. HasRow(c)' <=> HasRow(c)
      BY <1>1, <1>2 DEF HasRow, Clears
    <2>2. call'[c].detached = call[c].detached
      BY <1>1
    <2>3. CASE store'[c] = store[c]
      BY <1>5, <2>1, <2>2, <2>3 DEF TaskInv, BundleOfSession
    <2>4. CASE c = call[b].of /\ (HasRow(b) \/ call[b].detached)
      <3>1. CASE call[b].kind = "retry"
        <4>1. /\ HasRow(b) /\ call[c].pc = "over"
              /\ call[c].detached \/ call[c].row = call[b].row
          BY <1>0, <2>4, <3>1 DEF CallOwns
        <4>2. call[c].detached \/ HasRow(c)
          BY <4>1 DEF HasRow
        <4> QED BY <1>0, <1>1, <2>1, <2>2, <4>1, <4>2
      <3>2. CASE call[b].kind # "retry"
        BY <1>0, <1>1, <2>1, <2>2, <2>4, <3>2 DEF CallOwns
      <3> QED BY <3>1, <3>2
    <2>5. CASE c = b /\ HasRow(b)
      BY <1>1, <2>1, <2>5
    <2> QED BY <1>4, <2>3, <2>4, <2>5
  <1>6. BundleOfSession'
    BY <1>5 DEF BundleOfSession
  <1>7. CallOwns(b)' /\ TokenOwned(b)'
    BY <1>1 DEF CallOwns, TokenOwned, Unregistered
  <1>8. \A c \in Tasks : CallOwns(c)' /\ TokenOwned(c)'
    BY <1>0, <1>1, <1>5, <1>7, OthersOwn DEF Unregistered
  <1> QED BY <1>3, <1>6, <1>8 DEF TaskInv

\* The pipeline returns a bundle that says so if it was cancelled.
LEMMA ConcludeKeeps ==
  ASSUME TaskInv, TypeOK', NEW b \in Tasks, NEW out \in Bundle, Conclude(b, out),
         call[b].pc \in Cancellable, out.status # "none",
         token[b].cancelled => out.status \in {"CANCELLED", "FAILED"}
  PROVE  TaskInv'
  <1>1. Unregistered(b) /\ token'[b].cancelled = token[b].cancelled
    BY DEF Conclude, Unregistered, TaskInv, TypeOK, Token
  <1>2. CASE call[b].kind = "stream"
    <2>1. /\ session' = session /\ store' = store
          /\ \A c \in Tasks \ {b} : call'[c] = call[c]
          /\ call'[b] = [call[b] EXCEPT !.pc = "closing", !.out = out]
      BY <1>2 DEF Conclude, TaskInv, TypeOK
    <2>2. /\ call'[b].pc = "closing" /\ call'[b].out = out /\ call'[b].kind = "stream"
          /\ call'[b].of = call[b].of /\ call'[b].row = call[b].row
          /\ call'[b].detached = call[b].detached
      BY <1>2, <2>1 DEF TaskInv, TypeOK, Call
    <2>3. GeneratingHasTask' /\ BundleOfSession'
      <3>1. \A c \in Tasks : /\ HasRow(c)' <=> HasRow(c)
                             /\ call'[c].detached = call[c].detached
                             /\ call[c].pc \in Generating => call'[c].pc \in Generating
        BY <2>1, <2>2 DEF HasRow, Generating
      <3> QED BY <2>1, <3>1 DEF TaskInv, GeneratingHasTask, BundleOfSession
    <2>4. CallOwns(b) /\ call[b].pc \notin {"idle", "gate", "over"}
      BY DEF TaskInv, Cancellable
    <2>5. CallOwns(b)' /\ TokenOwned(b)'
      BY <1>1, <1>2, <2>1, <2>2, <2>4 DEF CallOwns, TokenOwned, Unregistered
    <2>6. \A c \in Tasks : CallOwns(c)' /\ TokenOwned(c)'
      BY <1>1, <2>1, <2>4, <2>5, OthersOwn DEF Unregistered
    <2> QED BY <2>3, <2>6 DEF TaskInv
  <1>3. CASE call[b].kind # "stream"
    BY <1>1, <1>3, StoreKeeps DEF Conclude, Cancellable, Generating
  <1> QED BY <1>2, <1>3

\* A task goes on: its session generates, and its token may be registered.
LEMMA GoesOnKeeps ==
  ASSUME TaskInv, TypeOK', NEW b \in Tasks, NEW pc \in {"searching"} \cup Cancellable,
         call' = [call EXCEPT ![b].pc = pc], store' = store,
         call[b].pc \notin {"idle", "over"}, call[b].pc # "closing",
         \/ session' = session
         \/ session' = Now("GENERATING") /\ HasRow(b) /\ ~call[b].detached,
         \A c \in Tasks \ {b} : token'[c] = token[c],
         token'[b].cancelled = token[b].cancelled,
         token'[b].registered => pc \in Cancellable,
         token[b].cancelled => pc \in Cancellable
  PROVE  TaskInv'
  <1>1. /\ \A c \in Tasks \ {b} : call'[c] = call[c]
        /\ call'[b].pc = pc /\ call'[b].kind = call[b].kind
        /\ call'[b].of = call[b].of /\ call'[b].row = call[b].row
        /\ call'[b].detached = call[b].detached
    BY DEF TaskInv, TypeOK, Call
  <1>2. session'.row = session.row
    BY NowIs DEF TaskInv, TypeOK
  <1>3. \A c \in Tasks : /\ HasRow(c)' <=> HasRow(c)
                         /\ call'[c].detached = call[c].detached
                         /\ call[c].pc \in Generating => call'[c].pc \in Generating
    BY <1>1, <1>2 DEF HasRow, Generating, Cancellable
  <1>4. BundleOfSession'
    BY <1>3 DEF TaskInv, BundleOfSession
  <1>5. GeneratingHasTask'
    <2>1. CASE session' = session
      BY <1>3, <2>1 DEF TaskInv, GeneratingHasTask
    <2>2. CASE HasRow(b) /\ ~call[b].detached
      <3>1. call'[b].pc \in Generating
        BY <1>1 DEF Generating, Cancellable
      <3> QED BY <1>3, <2>2, <3>1 DEF GeneratingHasTask
    <2> QED BY <2>1, <2>2
  <1>6. CallOwns(b)' /\ TokenOwned(b)'
    <2>1. CallOwns(b) /\ TokenOwned(b) /\ store[b].status = "none"
      BY DEF TaskInv, CallOwns
    <2>2. call[b].kind = "retry" => call'[call[b].of] = call[call[b].of]
      BY <1>1, <2>1 DEF CallOwns, TaskInv, TypeOK, Call
    <2>3. CallOwns(b)'
      BY <1>1, <2>1, <2>2 DEF CallOwns, Cancellable
    <2>4. TokenOwned(b)'
      BY <1>1, <2>1 DEF TokenOwned, Cancellable
    <2> QED BY <2>3, <2>4
  <1>7. \A c \in Tasks : CallOwns(c)' /\ TokenOwned(c)'
    BY <1>1, <1>6, OthersOwn
  <1> QED BY <1>4, <1>5, <1>7 DEF TaskInv

\* a call is made, on its own or on a stored bundle
RequestEffect(b) ==
  /\ call[b].pc = "idle" /\ session.state = "PROFILED" /\ UNCHANGED <<session, store, token>>
  /\ \A c \in Tasks \ {b} : call'[c] = call[c]
  /\ call'[b].pc = "gate" /\ call'[b].row = session.row /\ ~call'[b].detached
  /\ \/ call'[b].kind # "retry" /\ call'[b].of = b
     \/ /\ call'[b].kind = "retry" /\ call'[b].of \in Tasks
        /\ store[call'[b].of].status # "none"

LEMMA TaskNext == TaskInv /\ [Next]_vars => TaskInv'
  <1> SUFFICES ASSUME TaskInv, [Next]_vars
               PROVE  TaskInv'
    OBVIOUS
  <1>0. TypeOK /\ TypeOK'
    BY TypeNext DEF TaskInv
  <1>a. ASSUME NEW b \in Tasks, call[b].pc \notin Cancellable, token' = token
        PROVE  Unregistered(b)
    BY <1>a DEF TaskInv, TokenOwned, Unregistered
  <1>1. ASSUME NEW b \in Tasks, Request(b)
        PROVE  TaskInv'
    <2>1. RequestEffect(b)
      <3>1. ASSUME NEW kind \in Kinds \ {"retry"}, NEW types, Start(b, kind, types)
            PROVE  RequestEffect(b)
        BY <1>0, <3>1 DEF Start, TypeOK, Call, TaskInv, CallOwns, RequestEffect
      <3>2. ASSUME NEW of \in Tasks, NEW t \in Types, Retry(b, of, t)
            PROVE  RequestEffect(b)
        BY <1>0, <3>2 DEF Retry, TypeOK, Call, TaskInv, CallOwns, RequestEffect
      <3> QED BY <1>1, <3>1, <3>2 DEF Request
    <2>2. /\ UNCHANGED <<session, store, token>> /\ call[b].pc = "idle"
          /\ \A c \in Tasks \ {b} : call'[c] = call[c]
          /\ session.state = "PROFILED"
      BY <2>1 DEF RequestEffect
    <2>3. CallOwns(b) /\ TokenOwned(b) /\ store[b].status = "none"
      BY <2>2 DEF TaskInv, CallOwns
    <2>4. GeneratingHasTask'
      BY <2>2 DEF GeneratingHasTask
    <2>5. ASSUME NEW c \in Tasks, store'[c].status # "none"
          PROVE  call'[c].detached \/ HasRow(c)'
      <3>1. c # b /\ (call[c].detached \/ HasRow(c))
        BY <2>2, <2>3, <2>5 DEF TaskInv, BundleOfSession
      <3> QED BY <2>2, <3>1 DEF HasRow
    <2>6. CallOwns(b)'
      <3>1. CASE call'[b].kind # "retry"
        BY <2>1, <2>3, <3>1 DEF RequestEffect, CallOwns
      <3>2. CASE call'[b].kind = "retry"
        <4> DEFINE of == call'[b].of
        <4>1. of \in Tasks /\ store[of].status # "none"
          BY <2>1, <3>2 DEF RequestEffect
        <4>2. of # b /\ call'[of] = call[of]
          BY <2>2, <2>3, <4>1
        <4>3. call[of].pc = "over" /\ (call[of].detached \/ call[of].row = session.row)
          BY <4>1 DEF TaskInv, CallOwns, BundleOfSession, HasRow
        <4> QED BY <2>1, <2>3, <3>2, <4>2, <4>3 DEF RequestEffect, CallOwns
      <3> QED BY <3>1, <3>2
    <2>7. TokenOwned(b)'
      BY <2>2, <2>3 DEF TokenOwned, Cancellable
    <2>8. \A c \in Tasks : CallOwns(c)' /\ TokenOwned(c)'
      BY <2>2, <2>6, <2>7, OthersOwn
    <2> QED BY <1>0, <2>4, <2>5, <2>8 DEF TaskInv, BundleOfSession
  <1>2. ASSUME NEW b \in Tasks, Gated(b)
        PROVE  TaskInv'
    <2>1. /\ call[b].pc = "gate" /\ store' = store /\ token' = token
          /\ call[b].pc \notin Cancellable /\ call[b].pc \notin Generating
      BY <1>2 DEF Gated, Cancellable, Generating
    <2>2. CASE Refuse(b)
      BY <1>0, <1>a, <2>1, <2>2, RefusalClears, OverKeeps DEF Refuse
    <2>3. CASE /\ HasRow(b) /\ session' = Now("GENERATING")
               /\ call' = [call EXCEPT ![b].pc = "searching"]
      <3>1. ~token[b].cancelled /\ ~token'[b].registered /\ ~call[b].detached
        BY <2>1 DEF TaskInv, TokenOwned, CallOwns
      <3> QED BY <1>0, <2>1, <2>3, <3>1, GoesOnKeeps
    <2> QED BY <1>2, <2>2, <2>3 DEF Gated, Begin, Refuse
  <1>3. ASSUME NEW b \in Tasks, Fail(b)
        PROVE  TaskInv'
    <2>1. Unregistered(b) /\ Clears(b) /\ call[b].pc # "over"
      BY <1>0, <1>a, <1>3, EndClears DEF Fail, Cancellable
    <2> QED BY <1>0, <1>3, <2>1, OverKeeps DEF Fail
  <1>4. ASSUME NEW b \in Tasks, Plan(b)
        PROVE  TaskInv'
    <2>1. /\ \A c \in Tasks \ {b} : token'[c] = token[c]
          /\ token'[b].cancelled = token[b].cancelled
      BY <1>0, <1>4 DEF Plan, TypeOK, Token
    <2>2. "planning" \in Cancellable
      BY DEF Cancellable
    <2> QED BY <1>0, <1>4, <2>1, <2>2, GoesOnKeeps DEF Plan
  <1>5. ASSUME NEW b \in Tasks, Planned(b)
        PROVE  TaskInv'
    <2>1. call[b].pc = "planning" /\ call[b].pc \in Cancellable /\ "reviewing" \in Cancellable
      BY <1>5 DEF Planned, Cancellable
    <2>2. CASE call' = [call EXCEPT ![b].pc = "reviewing"] /\ UNCHANGED <<session, store, token>>
      BY <1>0, <2>1, <2>2, GoesOnKeeps
    <2>3. CASE Conclude(b, FailedPlan(b, FALSE))
      <3>1. FailedPlan(b, FALSE) \in Bundle /\ FailedPlan(b, FALSE).status = "FAILED"
        BY FailedPlanType DEF FailedPlan
      <3> QED BY <1>0, <2>1, <2>3, <3>1, ConcludeKeeps
    <2>4. CASE Conclude(b, Aggregated(Uniform(b, CancelledArt), TRUE))
      <3>1. /\ Aggregated(Uniform(b, CancelledArt), TRUE) \in Bundle
            /\ Aggregated(Uniform(b, CancelledArt), TRUE).status = "CANCELLED"
        BY AggregatedType, UniformType, ArtTypes DEF Status
      <3> QED BY <1>0, <2>1, <2>4, <3>1, ConcludeKeeps
    <2> QED BY <1>5, <2>2, <2>3, <2>4 DEF Planned
  <1>6. ASSUME NEW b \in Tasks, PlanReviewed(b)
        PROVE  TaskInv'
    <2>1. call[b].pc = "reviewing" /\ call[b].pc \in Cancellable /\ "working" \in Cancellable
      BY <1>6 DEF PlanReviewed, Cancellable
    <2>2. CASE call' = [call EXCEPT ![b].pc = "working"] /\ UNCHANGED <<session, store, token>>
      BY <1>0, <2>1, <2>2, GoesOnKeeps
    <2>3. ASSUME NEW r \in BOOLEAN, Conclude(b, FailedPlan(b, r))
          PROVE  TaskInv'
      <3>1. FailedPlan(b, r) \in Bundle /\ FailedPlan(b, r).status = "FAILED"
        BY FailedPlanType DEF FailedPlan
      <3> QED BY <1>0, <2>1, <2>3, <3>1, ConcludeKeeps
    <2>4. PICK review \in PlanReviews :
            IF review = "passed"
              THEN call' = [call EXCEPT ![b].pc = "working"] /\ UNCHANGED <<session, store, token>>
              ELSE Conclude(b, FailedPlan(b, review = "unavailable"))
      BY <1>6 DEF PlanReviewed
    <2> QED BY <2>2, <2>3, <2>4
  <1>7. ASSUME NEW b \in Tasks, NEW t \in Types, Specialist(b, t)
        PROVE  TaskInv'
    <2>1. UNCHANGED <<session, store, call, token>>
      BY <1>0, <1>7, SpecialistType
    <2> QED BY <1>0, <2>1
        DEF TaskInv, GeneratingHasTask, BundleOfSession, CallOwns, TokenOwned, HasRow
  <1>8. ASSUME NEW b \in Tasks, Gather(b)
        PROVE  TaskInv'
    <2> DEFINE arts == [t \in Types |-> spec[b][t].art]
    <2> DEFINE out == Aggregated(arts, token[b].cancelled)
    <2>1. arts \in [Types -> Art] /\ token[b].cancelled \in BOOLEAN
      BY <1>0 DEF TypeOK, Spec1, Token
    <2>2. Conclude(b, out) /\ call[b].pc \in Cancellable
      BY <1>8 DEF Gather, Cancellable
    <2> HIDE DEF arts
    <2>3. out \in Bundle /\ out.status = Status(arts, token[b].cancelled)
      BY <2>1, AggregatedType
    <2>4. out.status # "none" /\ (token[b].cancelled => out.status = "CANCELLED")
      <3>1. CASE token[b].cancelled
        BY <2>3, <3>1 DEF Status
      <3>2. CASE ~token[b].cancelled
        <4>1. out.status \in {"COMPLETED", "PARTIAL", "FAILED"}
          BY <2>3, <3>2 DEF Status
        <4> QED BY <3>2, <4>1
      <3> QED BY <3>1, <3>2
    <2> HIDE DEF out
    <2> QED BY <1>0, <2>2, <2>3, <2>4, ConcludeKeeps
  <1>9. ASSUME NEW b \in Tasks, Break(b)
        PROVE  TaskInv'
    <2>1. Unregistered(b) /\ Clears(b) /\ call[b].pc # "over"
      BY <1>0, <1>9, EndClears DEF Break, Unregistered, TypeOK, Token
    <2> QED BY <1>0, <1>9, <2>1, OverKeeps DEF Break
  <1>10. ASSUME NEW b \in Tasks, Close(b)
         PROVE  TaskInv'
    <2>1. Unregistered(b)
      BY <1>0, <1>10 DEF Close, Unregistered, TypeOK, NoToken
    <2>2. /\ call[b].pc \in Generating /\ call[b].out \in Bundle /\ Store(b, call[b].out)
      BY <1>0, <1>10 DEF Close, Generating, TypeOK, Call
    <2> QED BY <1>0, <2>1, <2>2, StoreKeeps
  <1>11. ASSUME NEW b \in Tasks, Cancel(b)
         PROVE  TaskInv'
    <2>1. /\ token'[b].registered = token[b].registered
          /\ \A c \in Tasks \ {b} : token'[c] = token[c]
          /\ call[b].pc \in Cancellable /\ call[b].kind = "stream"
          /\ UNCHANGED <<session, store, call>>
      BY <1>0, <1>11 DEF Cancel, TypeOK, Token, TaskInv, TokenOwned
    <2>2. \A c \in Tasks : CallOwns(c)' /\ TokenOwned(c)'
      BY <2>1 DEF TaskInv, CallOwns, TokenOwned
    <2> QED BY <1>0, <2>1, <2>2 DEF TaskInv, GeneratingHasTask, BundleOfSession, HasRow
  <1>12. ASSUME NEW b \in Tasks, Leave(b)
         PROVE  TaskInv'
    <2>1. UNCHANGED <<store, token>> /\ call[b].kind = "stream"
      BY <1>12 DEF Leave
    <2>2. CASE call[b].pc = "gate" /\ Over(b) /\ session' = session
      <3>1. call[b].pc \notin Cancellable /\ call[b].pc \notin Generating
        BY <2>2 DEF Cancellable, Generating
      <3> QED BY <1>0, <1>a, <2>1, <2>2, <3>1, RefusalClears, OverKeeps
    <2>3. CASE /\ call[b].pc \in Generating /\ session' = Left(b)
               /\ call' = [call EXCEPT ![b].detached = TRUE]
      <3>1. /\ call'[b].pc = call[b].pc /\ call'[b].kind = call[b].kind
            /\ call'[b].of = call[b].of /\ call'[b].row = call[b].row
            /\ call'[b].detached /\ call'[b].out = call[b].out
            /\ call[b].pc \notin {"idle", "gate", "over"}
            /\ \A c \in Tasks \ {b} : call'[c] = call[c]
        BY <1>0, <2>3 DEF TypeOK, Call, Generating
      <3>2. Clears(b)
        BY <1>0, <2>3, EndClears
      <3>3. GeneratingHasTask'
        BY <3>1, <3>2, OthersGenerate
      <3>4. BundleOfSession'
        BY <2>1, <3>1, <3>2 DEF TaskInv, BundleOfSession, HasRow, Clears
      <3>5. CallOwns(b)' /\ TokenOwned(b)'
        BY <2>1, <3>1 DEF TaskInv, CallOwns, TokenOwned
      <3>6. \A c \in Tasks : CallOwns(c)' /\ TokenOwned(c)'
        BY <2>1, <3>1, <3>5, OthersOwn
      <3> QED BY <1>0, <3>3, <3>4, <3>6 DEF TaskInv
    <2> QED BY <1>12, <2>2, <2>3 DEF Leave
  <1>13. CASE Delete
    <2>1. \A c \in Tasks : store'[c].status = "none"
      BY <1>13 DEF Delete, NoBundle
    <2>2. session'.state = "none" /\ call' = call /\ token' = token
      BY <1>13 DEF Delete, NoSession
    <2>3. \A c \in Tasks : CallOwns(c)' /\ TokenOwned(c)'
      BY <2>1, <2>2 DEF TaskInv, CallOwns, TokenOwned
    <2> QED BY <1>0, <2>1, <2>2, <2>3 DEF TaskInv, GeneratingHasTask, BundleOfSession
  <1>14. CASE Create \/ Decline
    <2>1. session'.state = "PROFILED" /\ UNCHANGED <<store, call, token>>
      BY <1>0, <1>14, NowIs DEF Create, Decline, TypeOK
    <2>2. session = NoSession \/ session'.row = session.row
      BY <1>0, <1>14, NowIs DEF Create, Decline, TypeOK
    <2>3. \A c \in Tasks : HasRow(c) => HasRow(c)'
      BY <2>1, <2>2 DEF HasRow, NoSession
    <2>4. \A c \in Tasks : CallOwns(c)' /\ TokenOwned(c)'
      BY <2>1 DEF TaskInv, CallOwns, TokenOwned
    <2> QED BY <1>0, <2>1, <2>3, <2>4 DEF TaskInv, GeneratingHasTask, BundleOfSession
  <1>15. CASE UNCHANGED vars
    BY <1>0, <1>15 DEF vars, TaskInv, GeneratingHasTask, BundleOfSession, CallOwns, TokenOwned,
       HasRow
  <1> QED
    BY <1>1, <1>2, <1>3, <1>4, <1>5, <1>6, <1>7, <1>8, <1>9, <1>10, <1>11, <1>12, <1>13,
       <1>14, <1>15 DEF Next, Progress

\* No bundle survives the row of the session its task worked for, or appears without
\* it, other than that of a stream that was closed before.  That a new session has the
\* id of the deleted one is not excluded: it then counts as the row of the task.
THEOREM BundlesGoWithSession == Spec => []BundleOfSession
  <1>1. TaskInv => BundleOfSession
    BY DEF TaskInv
  <1> QED BY <1>1, TaskInit, TaskNext, PTL DEF Spec

\* A session that generates has a task that will end it, whatever fails: unless the
\* stream of its task was closed or the commit of the final state failed (LEFT).
THEOREM NeverLeftGenerating == Spec => []GeneratingHasTask
  <1>1. TaskInv => GeneratingHasTask
    BY DEF TaskInv
  <1> QED BY <1>1, TaskInit, TaskNext, PTL DEF Spec

\* what a task stores after it was cancelled
SaidBy(b) ==
  token[b].cancelled /\ call[b].pc # "over" /\ store'[b] # store[b]
    => store'[b].status \in {"CANCELLED", "FAILED", "none"}

LEMMA SaidStep ==
  ASSUME TaskInv, [Next]_vars, NEW b \in Tasks
  PROVE  SaidBy(b)
  <1> SUFFICES ASSUME token[b].cancelled, call[b].pc # "over", store'[b] # store[b]
               PROVE  store'[b].status \in {"CANCELLED", "FAILED", "none"}
    BY DEF SaidBy
  <1>0. /\ TypeOK /\ CallOwns(b) /\ TokenOwned(b)
        /\ call[b].kind = "stream" \/ call[b].pc = "closing"
        /\ call[b].kind = "stream" /\ call[b].of = b
    BY DEF TaskInv, CallOwns, TokenOwned
  <1>1. ASSUME NEW c \in Tasks, NEW out \in Bundle, Store(c, out)
        PROVE  c = b /\ store'[b] = out
    <2>1. \/ store'[b] = store[b]
          \/ /\ b = call[c].of
             /\ store'[b] = IF call[c].kind = "retry" THEN Merged(c, out) ELSE out
          \/ b = c /\ store'[b] = out
      BY <1>0, <1>1, StoreEffect
    <2>2. CASE call[c].kind = "retry"
      BY <1>0, <2>1, <2>2 DEF TaskInv, CallOwns
    <2>3. CASE call[c].kind # "retry"
      BY <2>1, <2>3 DEF TaskInv, CallOwns
    <2> QED BY <2>2, <2>3
  <1>2. ASSUME NEW c \in Tasks, NEW out \in Bundle, Conclude(c, out)
        PROVE  FALSE
    <2>1. CASE call[c].kind = "stream"
      BY <1>2, <2>1 DEF Conclude
    <2>2. CASE call[c].kind # "stream"
      <3>1. c = b
        BY <1>1, <1>2, <2>2 DEF Conclude
      <3> QED BY <1>0, <2>2, <3>1
    <2> QED BY <2>1, <2>2
  <1>3. ASSUME NEW c \in Tasks, Close(c)
        PROVE  store'[b].status \in {"CANCELLED", "FAILED", "none"}
    <2>1. call[c].out \in Bundle /\ call[c].pc = "closing" /\ Store(c, call[c].out)
      BY <1>0, <1>3 DEF Close, TypeOK, Call
    <2>2. c = b /\ store'[b] = call[b].out
      BY <1>1, <2>1
    <2> QED BY <1>0, <2>1, <2>2 DEF TokenOwned, Cancellable
  <1>4. ASSUME NEW c \in Tasks, Planned(c) \/ PlanReviewed(c) \/ Gather(c)
        PROVE  FALSE
    <2>1. /\ \A r \in BOOLEAN : FailedPlan(c, r) \in Bundle
          /\ Aggregated(Uniform(c, CancelledArt), TRUE) \in Bundle
          /\ Aggregated([t \in Types |-> spec[c][t].art], token[c].cancelled) \in Bundle
      <3>1. /\ [t \in Types |-> spec[c][t].art] \in [Types -> Art]
            /\ token[c].cancelled \in BOOLEAN
        BY <1>0 DEF TypeOK, Spec1, Token
      <3> QED BY <3>1, FailedPlanType, UniformType, AggregatedType, ArtTypes
    <2>2. CASE Planned(c)
      BY <1>2, <2>1, <2>2 DEF Planned
    <2>3. CASE PlanReviewed(c)
      <3>1. PICK review \in PlanReviews :
              store' = store \/ Conclude(c, FailedPlan(c, review = "unavailable"))
        BY <2>3 DEF PlanReviewed
      <3>2. (review = "unavailable") \in BOOLEAN
        OBVIOUS
      <3> QED BY <1>2, <2>1, <3>1, <3>2
    <2>4. CASE Gather(c)
      BY <1>2, <2>1, <2>4 DEF Gather
    <2> QED BY <1>4, <2>2, <2>3, <2>4
  <1>5. CASE Delete
    BY <1>5 DEF Delete, NoBundle
  <1>6. ASSUME \/ Create \/ Decline \/ UNCHANGED vars
               \/ \E c \in Tasks : \/ Request(c) \/ Gated(c) \/ Fail(c) \/ Plan(c) \/ Break(c)
                                   \/ Cancel(c) \/ Leave(c)
                                   \/ \E t \in Types : Specialist(c, t)
        PROVE  FALSE
    <2>1. CASE Create \/ Decline \/ UNCHANGED vars
      BY <2>1 DEF Create, Decline, vars
    <2>2. ASSUME NEW c \in Tasks,
                 Request(c) \/ Gated(c) \/ Fail(c) \/ Plan(c) \/ Break(c) \/ Cancel(c) \/ Leave(c)
          PROVE  FALSE
      BY <2>2 DEF Request, Start, Retry, Gated, Fail, Plan, Break, Cancel, Leave
    <2>3. ASSUME NEW c \in Tasks, NEW t \in Types, Specialist(c, t)
          PROVE  FALSE
      BY <1>0, <2>3, SpecialistType
    <2> QED BY <1>6, <2>1, <2>2, <2>3
  <1> QED BY <1>3, <1>4, <1>5, <1>6 DEF Next, Progress

\* What a cancelled task stores says that it was cancelled, or that there was no plan.
THEOREM CancellationIsStored == Spec => CancelledIsSaid
  <1>1. TaskInv /\ [Next]_vars => [\A b \in Tasks : SaidBy(b)]_vars
    BY SaidStep
  <1> QED BY <1>1, TaskInit, TaskNext, PTL DEF Spec, CancelledIsSaid, SaidBy
=============================================================================
