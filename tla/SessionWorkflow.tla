----------------------------- MODULE SessionWorkflow -----------------------------
(***************************************************************************)
(* The workflow of one learning session: diagnosis, profile, resources     *)
(* (backend/services/orchestrator.py, db.py, resource_bundle/service.py).  *)
(*                                                                         *)
(* Messages (chat, or stream with its events) run one at a time under the  *)
(* asyncio lock of the session.  A resource bundle asked for by its own    *)
(* route, a rediagnosis by its route and a deletion do not take the lock.  *)
(*                                                                         *)
(* Every request has a database session of its own (expire_on_commit is    *)
(* off): it loads the row once into `mine', looks at that copy only, and a *)
(* commit writes the columns in which it changed the copy, WHERE id = its  *)
(* id.  All requests run on one event loop, so a step reaches from one     *)
(* await, or one event of a stream, to the next.                           *)
(***************************************************************************)
EXTENDS Naturals, SequencesExt

CONSTANTS
  Clients,
  Kinds,       \* the requests served: subset of {"chat", "stream", "bundle"}
  Calls,       \* the immediate ones: subset of {"rediagnose", "delete"}
  Faults,      \* subset of {"escape", "crash"}
  MaxTurns,    \* follow-up questions of a diagnosis (4 in the code)
  MaxVersion,  \* bound: no rediagnosis at this profile version
  MaxId,       \* bound: no deletion of the row with this id
  ReuseIds     \* SQLite gives the id of the deleted row to the next one, which
               \* happens when no other session was created after it

ASSUME SessionAssumption ==
  /\ Kinds \subseteq {"chat", "stream", "bundle"}
  /\ Calls \subseteq {"rediagnose", "delete"}
  /\ Faults \subseteq {"escape", "crash"}
  /\ MaxTurns \in Nat \ {0} /\ MaxVersion \in Nat \ {0} /\ MaxId \in Nat \ {0}
  /\ ReuseIds \in BOOLEAN

VARIABLES
  row,      \* the row of the session; id 0: there is none
  made,     \* the last id given to a row
  holding,  \* _workflow_locks: the message that holds the lock of the session,
  waiting,  \* and those that wait for it, in order
  req       \* req[c]: the request of client c

vars == <<row, made, holding, waiting, req>>

States       == {"NEW", "DIAGNOSING", "PROFILE_READY", "PROFILED", "GENERATING"}
StableStates == {"NEW", "DIAGNOSING", "PROFILED"}

Row == [id : Nat, state : States, stable : StableStates,
        turns : 0..MaxTurns, version : Nat]

NoRow == [id |-> 0, state |-> "NEW", stable |-> "NEW", turns |-> 0, version |-> 0]

\* Where a request stands.  One that is over was answered ("done"), failed with
\* its failure recorded ("failed"), or broke off ("idle").
Over    == {"idle", "done", "failed"}
Bundled == {"bgate", "bundling"}          \* inside ResourceBundleService.generate
Working == {"gate", "diagnosing", "profiling", "cached", "starting", "generating"}
PCs     == Over \cup Bundled \cup Working \cup {"queued"}

Req == [pc : PCs, kind : {"none", "chat", "stream", "bundle"}, mine : Row,
        detached : BOOLEAN]    \* the stream was closed under its bundle

NoReq == [pc |-> "idle", kind |-> "none", mine |-> NoRow, detached |-> FALSE]

Init ==
  /\ row = NoRow
  /\ made = 0
  /\ holding = {}
  /\ waiting = <<>>
  /\ req = [c \in Clients |-> NoReq]

-----------------------------------------------------------------------------
(***************************************************************************)
(* Reading and writing the row                                             *)
(***************************************************************************)

\* get_or_create_session, on a row r that may be missing
NextId     == IF ReuseIds THEN 1 ELSE made + 1
Created(r) == IF r.id = 0 THEN [NoRow EXCEPT !.id = NextId] ELSE r
MadeBy(r)  == made' = IF r.id > made THEN r.id ELSE made

\* what is left of row r when a copy that was `old' is committed as `new'
Merged(r, old, new) ==
  [f \in DOMAIN r |-> IF new[f] # old[f] THEN new[f] ELSE r[f]]

Missing_Never(c, r) == FALSE

\* an UPDATE of request c would find no row
Missing(c, r) == r.id # req[c].mine.id

End_KeepsLock(c, how) ==
  /\ req' = [req EXCEPT ![c] = [NoReq EXCEPT !.pc = how]]
  /\ UNCHANGED <<holding, waiting>>

\* the request is over and gives up the lock, if it has it
End(c, how) ==
  /\ req'     = [req EXCEPT ![c] = [NoReq EXCEPT !.pc = how]]
  /\ holding' = holding \ {c}
  /\ UNCHANGED waiting

Goto(c, pc, mine) ==
  /\ req' = [req EXCEPT ![c] = [@ EXCEPT !.pc = pc, !.mine = mine]]
  /\ UNCHANGED <<holding, waiting>>

\* Request c commits its copy as `new' on row r and goes on to `next'.  A missing
\* row ends it with an error that no handler can record.
Commit(c, r, new, next) ==
  IF Missing(c, r) /\ new # req[c].mine
    THEN row' = r /\ End(c, "idle")
    ELSE /\ row' = Merged(r, req[c].mine, new)
         /\ IF next \in Over THEN End(c, next) ELSE Goto(c, next, new)

\* fail_to_stable_state, on the copy, or on a fresh one after a rollback
FailedRows(c) ==
  IF req[c].detached \/ Missing(c, row) THEN {row}
  ELSE {Merged(row, base, [base EXCEPT !.state = base.stable]) :
          base \in IF req[c].pc \in Bundled THEN {row} ELSE {row, req[c].mine}}

-----------------------------------------------------------------------------
(***************************************************************************)
(* Messages: handle_message and stream_message                             *)
(***************************************************************************)
Send(c, kind) ==
  /\ req[c].pc \in Over
  /\ req'     = [req EXCEPT ![c] = [NoReq EXCEPT !.pc = "queued", !.kind = kind]]
  /\ waiting' = Append(waiting, c)
  /\ UNCHANGED <<row, made, holding>>

Enter_WithoutLock(c) ==
  /\ req[c].pc = "queued"
  /\ waiting # <<>> /\ Head(waiting) = c
  /\ holding' = {c}
  /\ waiting' = Tail(waiting)
  /\ row' = Created(row)
  /\ MadeBy(row')
  /\ req' = [req EXCEPT ![c] = [@ EXCEPT !.pc = "gate", !.mine = row']]

\* the lock is taken, the row loaded or created; then _gate_message is awaited
Enter(c) ==
  /\ req[c].pc = "queued" /\ holding = {}
  /\ waiting # <<>> /\ Head(waiting) = c
  /\ holding' = {c}
  /\ waiting' = Tail(waiting)
  /\ row' = Created(row)
  /\ MadeBy(row')
  /\ req' = [req EXCEPT ![c] = [@ EXCEPT !.pc = "gate", !.mine = row']]

\* The gate blocks the message.  A stream records it as a failure, a chat does not.
Block(c) ==
  /\ req[c].pc = "gate"
  /\ \/ req[c].kind = "chat" /\ End(c, "idle") /\ UNCHANGED row
     \/ req[c].kind = "stream" /\ End(c, "failed") /\ row' \in FailedRows(c)
  /\ UNCHANGED made

Restartable_AnyState(s) == s.version < MaxVersion

\* restart_diagnosis; the bound on the version apart, it refuses two states
Restartable(s) == s.state \in StableStates /\ s.version < MaxVersion
Restarted(s)   == [s EXCEPT !.state = "DIAGNOSING", !.turns = 0]

\* set_state(DIAGNOSING), for a new session only
Diagnosing(s) ==
  IF s.state # "NEW" THEN s
  ELSE [s EXCEPT !.state = "DIAGNOSING", !.stable = "DIAGNOSING", !.turns = 0]

\* begin_generation, of a copy found PROFILED
Begun(s) == [s EXCEPT !.state = "GENERATING"]

\* The message is appended, which creates a row that is missing, and a diagnosis
\* starts or goes on, a new one when the message asks for it.
Diagnose(c) ==
  LET mine == req[c].mine IN
  /\ req[c].pc = "gate"
  /\ \E s \in {mine} \cup (IF Restartable(mine) THEN {Restarted(mine)} ELSE {}) :
       /\ s.state \in {"NEW", "DIAGNOSING"}
       /\ Commit(c, Created(row), Diagnosing(s), "diagnosing")
  /\ MadeBy(row')

\* a message on a profiled session: from the cache, a resource, or a bundle
Study(c) ==
  LET mine == req[c].mine IN
  /\ req[c].pc = "gate"
  /\ mine.state = "PROFILED" /\ mine.version > 0
  /\ \/ Commit(c, Created(row), mine, "cached")
     \/ Commit(c, Created(row), Begun(mine), "generating")
     \/ req[c].kind = "chat"   /\ Commit(c, Created(row), Begun(mine), "bundling")
     \/ req[c].kind = "stream" /\ Commit(c, Created(row), mine, "starting")
  /\ MadeBy(row')

Decline_NotRecorded(c) ==
  /\ req[c].pc = "gate"
  /\ req[c].mine.state \notin {"NEW", "DIAGNOSING"}
  /\ row' = Created(row) /\ MadeBy(row')
  /\ End(c, "failed")

\* the state or the profile allows nothing: an error, and fail_to_stable_state
Decline(c) ==
  LET mine == req[c].mine IN
  /\ req[c].pc = "gate"
  /\ mine.state \notin {"NEW", "DIAGNOSING"}
  /\ Commit(c, Created(row), [mine EXCEPT !.state = mine.stable], "failed")
  /\ MadeBy(row')

\* a chat asks for a new diagnosis where there can be none: raised before the try
Refuse(c) ==
  /\ req[c].pc = "gate" /\ req[c].kind = "chat"
  /\ req[c].mine.state \notin StableStates
  /\ row' = Created(row) /\ MadeBy(row')
  /\ End(c, "idle")

\* one more follow-up question
Continue(c) ==
  /\ req[c].pc = "diagnosing" /\ req[c].mine.turns < MaxTurns
  /\ Commit(c, row, [req[c].mine EXCEPT !.turns = @ + 1], "done")
  /\ UNCHANGED made

\* the diagnosis is complete (never before a first question): PROFILE_READY
Ready(c) ==
  /\ req[c].pc = "diagnosing" /\ req[c].mine.turns > 0
  /\ Commit(c, row, [req[c].mine EXCEPT !.state = "PROFILE_READY"], "profiling")
  /\ UNCHANGED made

SaveProfile(c) ==
  /\ req[c].pc = "profiling"
  /\ Commit(c, row, [req[c].mine EXCEPT !.state = "PROFILED", !.stable = "PROFILED",
                                        !.version = @ + 1], "done")
  /\ UNCHANGED made

\* complete_generation, finish_bundle_generation
Finished(s) == [s EXCEPT !.state = "PROFILED", !.stable = "PROFILED"]

Generated(c) ==
  /\ req[c].pc = "generating"
  /\ Commit(c, row, Finished(req[c].mine), "done")
  /\ UNCHANGED made

\* the cached answer is appended, which may create the row again
AnswerCached(c) ==
  /\ req[c].pc = "cached"
  /\ row' = Created(row) /\ MadeBy(row')
  /\ End(c, "done")

-----------------------------------------------------------------------------
(***************************************************************************)
(* Bundles: ResourceBundleService.generate, for a message or for its route *)
(***************************************************************************)

\* the task of a stream's bundle starts; it looks for the row, not for the copy
BeginBundle(c) ==
  /\ req[c].pc = "starting"
  /\ IF Missing(c, row) THEN End(c, "idle") /\ UNCHANGED row
     ELSE Commit(c, row, Begun(req[c].mine), "bundling")
  /\ UNCHANGED made

\* the route: no lock; then gate_request is awaited
AskBundle(c) ==
  /\ req[c].pc \in Over
  /\ row.state = "PROFILED" /\ row.version > 0
  /\ req' = [req EXCEPT ![c] =
               [pc |-> "bgate", kind |-> "bundle", mine |-> row, detached |-> FALSE]]
  /\ UNCHANGED <<row, made, holding, waiting>>

PassBundle(c) ==
  /\ req[c].pc = "bgate"
  /\ Commit(c, row, Begun(req[c].mine), "bundling")
  /\ UNCHANGED made

\* the bundle is saved; under a closed stream the copy is not committed
BundleDone(c) ==
  /\ req[c].pc = "bundling"
  /\ IF req[c].detached THEN End(c, "idle") /\ UNCHANGED row
     ELSE Commit(c, row, Finished(req[c].mine), "done")
  /\ UNCHANGED made

-----------------------------------------------------------------------------
(***************************************************************************)
(* Failures, and the calls that take no lock                               *)
(***************************************************************************)

\* A model or a check fails, the stream is interrupted, cancelled, or its client
\* found gone: the handlers record it.
Fail(c) ==
  /\ req[c].pc \in (Bundled \cup Working) \ {"gate", "cached"}
  /\ row' \in FailedRows(c)
  /\ End(c, IF req[c].detached THEN "idle" ELSE "failed")
  /\ UNCHANGED made

\* Another exception leaves handle_message, or the stream is closed at an await or
\* an event: no handler runs.
Escape(c) ==
  /\ "escape" \in Faults
  /\ req[c].kind \in {"chat", "stream"} /\ ~req[c].detached
  /\ \/ req[c].kind = "chat" /\ req[c].pc \in Working \ {"gate", "cached"}
        /\ End(c, "idle")
     \/ req[c].kind = "stream" /\ req[c].pc \in Working
        /\ End(c, "idle")
     \/ req[c].kind = "stream" /\ req[c].pc = "bundling"
        /\ req' = [req EXCEPT ![c].detached = TRUE]
        /\ holding' = holding \ {c} /\ UNCHANGED waiting
  /\ UNCHANGED <<row, made>>

\* a stream is closed while it waits for the lock
Leave(c) ==
  /\ "escape" \in Faults
  /\ req[c].pc = "queued" /\ req[c].kind = "stream"
  /\ \E i \in 1..Len(waiting) : waiting[i] = c /\ waiting' = RemoveAt(waiting, i)
  /\ req' = [req EXCEPT ![c] = NoReq]
  /\ UNCHANGED <<row, made, holding>>

\* the process ends; at the next start nothing looks at the sessions
Crash ==
  /\ "crash" \in Faults
  /\ req' = [c \in Clients |-> NoReq]
  /\ holding' = {} /\ waiting' = <<>>
  /\ UNCHANGED <<row, made>>

\* POST /rediagnose
Rediagnose ==
  /\ "rediagnose" \in Calls
  /\ LET s == Created(row) IN row' = IF Restartable(s) THEN Restarted(s) ELSE s
  /\ MadeBy(row')
  /\ UNCHANGED <<holding, waiting, req>>

\* DELETE of the session
Delete ==
  /\ "delete" \in Calls
  /\ row.id # 0 /\ made < MaxId
  /\ row' = NoRow
  /\ UNCHANGED <<made, holding, waiting, req>>

-----------------------------------------------------------------------------
Request(c) ==
  \/ \E kind \in Kinds \ {"bundle"} : Send(c, kind)
  \/ "bundle" \in Kinds /\ AskBundle(c)

\* what a request does when its awaits come back
Progress(c) ==
  \/ Enter(c) \/ Block(c) \/ Diagnose(c) \/ Study(c) \/ Decline(c) \/ Refuse(c)
  \/ Continue(c) \/ Ready(c) \/ SaveProfile(c) \/ Generated(c) \/ AnswerCached(c)
  \/ BeginBundle(c) \/ PassBundle(c) \/ BundleDone(c) \/ Fail(c)

Next ==
  \/ \E c \in Clients : Request(c) \/ Progress(c) \/ Escape(c) \/ Leave(c)
  \/ Crash \/ Rediagnose \/ Delete

Spec == Init /\ [][Next]_vars

\* Every await of a request returns or fails: model calls and searches have
\* timeouts.  Nothing is assumed of what the clients ask for.
FairSpec == Spec /\ \A c \in Clients : WF_vars(Progress(c))

-----------------------------------------------------------------------------
(***************************************************************************)
(* Properties                                                              *)
(***************************************************************************)

\* request c generates, for a client that is still there
Generating(c) == req[c].pc \in {"generating", "bundling"} /\ ~req[c].detached

\* The state variables keep their types, and the lock has one holder at most.
TypeOK ==
  /\ row \in Row
  /\ made \in Nat
  /\ holding \in {{}} \cup {{c} : c \in Clients}
  /\ waiting \in Seq(Clients)
  /\ req \in [Clients -> Req]

\* A session that says it is profiled, is generating, or would fall back to being
\* profiled has a profile, whatever copies of the row were committed over each other.
ProfiledHasProfile ==
  row.state \in {"PROFILED", "GENERATING"} \/ row.stable = "PROFILED" => row.version > 0

\* When a request ends with a result, or with its failure recorded in the row, the
\* session (if nobody deleted it meanwhile) is in a stable state, unless another request
\* is at work on it at that moment.  A message that the gate blocks and a rediagnosis that
\* is refused record nothing and count as broken off.
AnsweredIsStable ==
  [][\A c \in Clients :
         /\ req[c].pc \notin Over /\ req'[c].pc \in {"done", "failed"}
         /\ row.id = req[c].mine.id
       => \/ row'.state \in StableStates
          \/ \E d \in Clients \ {c} : Generating(d)' \/ req'[d].pc = "profiling"]_vars

\* A resource is stored for the profile it was generated from and the session has
\* now.
ResourceOfCurrentProfile ==
  [][\A c \in Clients :
       Generating(c) /\ req'[c].pc = "done" => row.version = req[c].mine.version]_vars

\* At most one request generates for the session at a time (the bundle of a closed
\* stream, which nobody stops, not counted).
OneGeneration == \A c, d \in Clients : Generating(c) /\ Generating(d) => c = d

\* Every message sent is over at some time.
EveryMessageEnds ==
  \A c \in Clients : req[c].pc = "queued" ~> req[c].pc \in Over

\* The states of the row follow the lifecycle of a session.
Lifecycle == INSTANCE SessionLifecycle
  WITH state <- row.state, stable <- row.stable, version <- row.version
ImplementsLifecycle == Lifecycle!Spec
=============================================================================
