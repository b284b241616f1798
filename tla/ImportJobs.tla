------------------------------- MODULE ImportJobs -------------------------------
(***************************************************************************)
(* Import jobs of the local knowledge base: the job rows, the executor     *)
(* threads that run them (backend/knowledge/import_service.py), the        *)
(* requests that create, cancel, retry, rebuild, trash, restore and purge  *)
(* (backend/knowledge/service.py, repository.py), shutdown and restart.    *)
(*                                                                         *)
(* One step is one database transaction, or one piece of code that runs    *)
(* without awaiting.  A thread works on a cached job row: seen is the      *)
(* version it last loaded, and transition_job (compare and set on the      *)
(* version) is the only guarded write.  request_cancel and                 *)
(* reset_job_for_retry load the row and write it in two transactions,      *)
(* without a guard.                                                        *)
(*                                                                         *)
(* document.status is not a variable: nothing in the code ever sets it, so *)
(* the test for COMPLETED in create_import_jobs never holds.  Foreign keys *)
(* are not enforced (the engine never turns them on), so a purge leaves    *)
(* the rows of jobs and chunks behind.  A purged document is not imported  *)
(* again here.                                                             *)
(***************************************************************************)
EXTENDS Naturals, FiniteSets

CONSTANTS
  Docs, Jobs,     \* row identifiers
  Clients,        \* requests served at the same time
  None,
  MaxWorkers,     \* threads of the executor
  MaxTries,       \* attempts of _terminal_transition
  MaxEvents,      \* bound: progress events of one run
  MaxVersion,     \* bound: a job at this version is not retried
  Faulty          \* bound: the jobs and clients whose statements may fail anywhere

ASSUME ImportAssumption ==
  /\ None \notin Docs \cup Jobs
  /\ MaxWorkers \in Nat \ {0} /\ MaxTries \in Nat \ {0}
  /\ MaxEvents \in Nat /\ MaxVersion \in Nat
  /\ Faulty \subseteq Jobs \cup Clients

VARIABLES
  doc,      \* doc[d]: the document row, its chunks and its search index
  job,      \* job[j]: the row of the job
  run,      \* run[j]: the executor thread and its locals
  api,      \* api[c]: the request client c is waiting for
  phase,    \* of the coordinator: "up", "marking", "stopping", "hung" or "down"
  pending,  \* the jobs the current phase of shutdown has yet to visit
  unmarked  \* history: jobs whose interruption could not be recorded

vars == <<doc, job, run, api, phase, pending, unmarked>>

Running  == {"VALIDATING", "PARSING", "OCR_RUNNING", "INDEXING"}
Active   == Running \cup {"QUEUED", "OCR_REQUIRED"}
Settled  == {"COMPLETED", "CANCELLED"}

\* what reset_job_for_retry accepts
Retryable == {"FAILED", "INTERRUPTED", "OCR_REQUIRED"}
Statuses  == {"none"} \cup Active \cup Settled \cup Retryable

\* Where a thread is.  Registered: it has put its service where cancel and
\* shutdown find it.  At an await of AwaitPoints its loop runs what they posted.
AwaitPoints == {"spawn", "consume", "stop"}
Registered  == AwaitPoints \cup
  {"load", "validating", "validated", "parsing", "parsed", "consumed", "collect",
   "finish", "indexing", "indexed", "chunk", "index", "clear", "parking",
   "refresh", "terminal"}
Threads == Registered \cup {"starting", "interrupt"}
RunPCs  == Threads \cup {"none", "queued", "skipped", "ended"}

Doc == [state  : {"absent", "active", "trashed", "purged"},
        chunks : Jobs \cup {None},     \* the job whose chunks are stored
        index  : Jobs \cup {None}]     \* the job whose chunks are indexed

Job == [status : Statuses, doc : Docs \cup {None}, cancel : BOOLEAN,
        version : Nat, blocks : BOOLEAN]   \* staged worker output

Run == [pc : RunPCs,
        seen    : Nat,       \* version of the cached row
        saw     : BOOLEAN,   \* its cancel_requested
        proc    : {"none", "running", "terminated", "stopped"},
        want    : {"COMPLETED", "FAILED", "OCR_REQUIRED"},  \* what comes of it
        done    : {"none", "ocr", "partial", "full"},       \* the done event
        failing : BOOLEAN,   \* inside an exception handler of run_job
        tries   : 0..(MaxTries - 1),
        events  : 0..MaxEvents]

NoRun == [pc |-> "none", seen |-> 0, saw |-> FALSE, proc |-> "none",
          want |-> "COMPLETED", done |-> "none", failing |-> FALSE, tries |-> 0,
          events |-> 0]

Api == [pc   : {"idle", "enqueue", "check", "list", "mark", "write", "signal",
                "deliver", "lost", "wait", "finish", "reread", "withdraw", "requeue"},
        op   : {"none", "import", "rebuild", "cancel", "delete", "purge", "retry"},
        doc  : Docs \cup {None},
        mark : SUBSET Jobs,          \* jobs still to flag
        todo : SUBSET Jobs,          \* jobs still to stop
        at   : Jobs \cup {None},     \* the job at hand
        seen : Nat, saw : BOOLEAN]   \* what it loaded of the row

NoApi == [pc |-> "idle", op |-> "none", doc |-> None, mark |-> {}, todo |-> {},
          at |-> None, seen |-> 0, saw |-> FALSE]

Present(d) == doc[d].state \in {"active", "trashed"}
DocOf(j)   == job[j].doc
JobsOf(d)  == {j \in Jobs : job[j].doc = d}

Init ==
  /\ doc = [d \in Docs |-> [state |-> "absent", chunks |-> None, index |-> None]]
  /\ job = [j \in Jobs |-> [status |-> "none", doc |-> None, cancel |-> FALSE,
                            version |-> 0, blocks |-> FALSE]]
  /\ run = [j \in Jobs |-> NoRun]
  /\ api = [c \in Clients |-> NoApi]
  /\ phase = "up"
  /\ pending = {}
  /\ unmarked = {}

-----------------------------------------------------------------------------
(***************************************************************************)
(* The executor thread of a job                                            *)
(***************************************************************************)
Busy == {j \in Jobs : run[j].pc \in Threads}

Start(j) ==
  /\ run[j].pc = "queued"
  /\ Cardinality(Busy) < MaxWorkers
  /\ run' = [run EXCEPT ![j].pc = "starting"]
  /\ UNCHANGED <<doc, job, api, phase, pending, unmarked>>

\* _run opens its session and registers the service, or fails to
Open(j) ==
  /\ run[j].pc = "starting"
  /\ \E next \in {"load", "interrupt"} : run' = [run EXCEPT ![j].pc = next]
  /\ UNCHANGED <<doc, job, api, phase, pending, unmarked>>

\* The guard of transition_job: nobody changed the row since it was loaded.
Fresh(j) == job[j].version = run[j].seen

\* a successful transition_job, up to its commit
SetStatus(j, status) ==
  job' = [job EXCEPT ![j] = [@ EXCEPT !.status = status, !.version = job[j].version + 1]]

\* the thread leaves run_job, and its locals with it
Leaves(j, to) == [run EXCEPT ![j] = [NoRun EXCEPT !.pc = to]]
Ended(j)      == Leaves(j, "ended")

\* an exception reaches a handler of run_job, which needs the process and no other local
Raise(j) ==
  /\ run' = [run EXCEPT ![j] = [NoRun EXCEPT !.pc = "stop", !.want = "FAILED",
                                             !.failing = TRUE, !.proc = run[j].proc]]
  /\ UNCHANGED <<doc, job>>

\* transition_job at `from': on to `to', or StaleKnowledgeJob
Transition(j, from, status, to) ==
  /\ run[j].pc = from
  /\ IF Fresh(j)
       THEN /\ SetStatus(j, status)
            /\ run' = IF to = "ended" THEN Ended(j) ELSE [run EXCEPT ![j].pc = to]
            /\ UNCHANGED doc
       ELSE Raise(j)
  /\ UNCHANGED <<api, phase, pending, unmarked>>

\* load the row again (refresh_job, or the end of transition_job), then go on
Load(j, from, to) ==
  /\ run[j].pc = from
  /\ run' = [run EXCEPT ![j] = [@ EXCEPT !.pc = to, !.seen = job[j].version,
                                         !.saw = job[j].cancel]]
  /\ UNCHANGED <<doc, job, api, phase, pending, unmarked>>

First(j)    == Load(j, "load", "validating")
Validate(j) == Transition(j, "validating", "VALIDATING", "validated")

\* the first look at cancel_requested
Validated(j) ==
  IF job[j].cancel THEN Load(j, "validated", "refresh")
                   ELSE Load(j, "validated", "spawn")

\* _request_for and _start_worker; both may fail
Spawn(j) ==
  /\ run[j].pc = "spawn"
  /\ \/ /\ Present(DocOf(j))
        /\ run' = [run EXCEPT ![j] = [@ EXCEPT !.pc = "parsing", !.proc = "running"]]
        /\ UNCHANGED <<doc, job>>
     \/ Raise(j)
  /\ UNCHANGED <<api, phase, pending, unmarked>>

Parse(j) == Transition(j, "parsing", "PARSING", "parsed")

\* the document is loaded once more before the output is consumed
Parsed(j) ==
  /\ run[j].pc = "parsed"
  /\ \/ Present(DocOf(j)) /\ Load(j, "parsed", "consume")
     \/ ~Present(DocOf(j)) /\ Raise(j) /\ UNCHANGED <<api, phase, pending, unmarked>>

\* _consume: a progress event ...
Progress(j) ==
  /\ run[j].pc = "consume" /\ run[j].events < MaxEvents
  /\ IF Fresh(j)
       THEN /\ \E status \in {"PARSING", "OCR_RUNNING"} : SetStatus(j, status)
            /\ run' = [run EXCEPT ![j] = [@ EXCEPT !.pc = "consumed",
                                                 !.events = run[j].events + 1]]
            /\ UNCHANGED doc
       ELSE Raise(j)
  /\ UNCHANGED <<api, phase, pending, unmarked>>

Progressed(j) == Load(j, "consumed", "consume")

\* ... a block ...
Stage(j) ==
  /\ run[j].pc = "consume"
  /\ job' = [job EXCEPT ![j].blocks = TRUE]
  /\ UNCHANGED <<doc, run, api, phase, pending, unmarked>>

\* ... the done event and a clean exit, which a terminated worker cannot make ...
Done(j) ==
  /\ run[j].pc = "consume" /\ run[j].proc = "running"
  /\ \E done \in {"ocr", "partial", "full"} :
       run' = [run EXCEPT ![j] = [@ EXCEPT !.pc = "collect", !.proc = "none", !.done = done]]
  /\ UNCHANGED <<doc, job, api, phase, pending, unmarked>>

Abort_IgnoresExit(j) ==
  /\ run[j].pc = "consume" /\ run[j].proc = "running"
  /\ Raise(j)
  /\ UNCHANGED <<api, phase, pending, unmarked>>

\* ... a failure event, invalid output, the timeout, an unclean exit: all are
\* handled alike, save for the error code
Abort(j) ==
  /\ run[j].pc = "consume"
  /\ Raise(j)
  /\ UNCHANGED <<api, phase, pending, unmarked>>

\* a handler stops the process (terminate, then kill) and clears the output
Stop(j) ==
  /\ run[j].pc = "stop"
  /\ run' = [run EXCEPT ![j] = [@ EXCEPT
              !.pc = "clear", !.proc = IF run[j].proc = "stopped" THEN "stopped" ELSE "none"]]
  /\ UNCHANGED <<doc, job, api, phase, pending, unmarked>>

\* clear_worker_output
Cleared(j) == [job EXCEPT ![j].blocks = FALSE]

Clear(j) ==
  /\ run[j].pc = "clear"
  /\ job' = Cleared(j)
  /\ run' = [run EXCEPT ![j].pc = IF run[j].want = "OCR_REQUIRED" THEN "parking"
                                  ELSE "refresh"]
  /\ UNCHANGED <<doc, api, phase, pending, unmarked>>

\* the output is complete: the second look at cancel_requested
Collect(j) ==
  /\ run[j].pc = "collect"
  /\ LET ocr == ~job[j].cancel /\ run[j].done = "ocr"
     IN  run' = [run EXCEPT ![j] = [@ EXCEPT
           !.pc   = IF job[j].cancel \/ ocr THEN "clear" ELSE "finish",
           !.want = IF ocr THEN "OCR_REQUIRED" ELSE run[j].want,
           !.seen = job[j].version,
           !.saw  = job[j].cancel]]
  /\ UNCHANGED <<doc, job, api, phase, pending, unmarked>>

Park(j) == Transition(j, "parking", "OCR_REQUIRED", "ended")

\* finish_worker_output; pages that failed end the job, their output is kept
FinishOutput(j) ==
  /\ run[j].pc = "finish"
  /\ IF ~Present(DocOf(j)) THEN Raise(j)
     ELSE /\ run' = IF run[j].done = "partial"
                      THEN [run EXCEPT ![j] = [@ EXCEPT !.pc = "refresh", !.want = "FAILED"]]
                      ELSE [run EXCEPT ![j].pc = "indexing"]
          /\ UNCHANGED <<doc, job>>
  /\ UNCHANGED <<api, phase, pending, unmarked>>

Index(j)   == Transition(j, "indexing", "INDEXING", "indexed")
Indexed(j) == Load(j, "indexed", "chunk")

\* replace_chunks, or an exception in it or in chunk_blocks
ReplaceChunks(j) ==
  /\ run[j].pc = "chunk"
  /\ \/ /\ Present(DocOf(j))
        /\ doc' = [doc EXCEPT ![DocOf(j)].chunks = j]
        /\ run' = [run EXCEPT ![j].pc = "index"]
        /\ UNCHANGED job
     \/ Raise(j)
  /\ UNCHANGED <<api, phase, pending, unmarked>>

IndexedChunks_Old(j) == doc[DocOf(j)].index

\* the chunks replace_document_index finds when it rebuilds the index
IndexedChunks(j) == doc[DocOf(j)].chunks

\* replace_document_index, or an exception in it.  It finds the document among the
\* objects of its session: that it was purged meanwhile goes unnoticed.
ReplaceIndex(j) ==
  /\ run[j].pc = "index"
  /\ \/ /\ doc' = [doc EXCEPT ![DocOf(j)].index = IndexedChunks(j)]
        /\ run' = [run EXCEPT ![j].pc = "clear"]
        /\ UNCHANGED job
     \/ Raise(j)
  /\ UNCHANGED <<api, phase, pending, unmarked>>

\* _terminal_transition: load, then compare and set; a cancel request wins.
\* When every attempt is stale the exception reaches a handler, and out of a
\* handler it ends the thread.
Refresh(j) == Load(j, "refresh", "terminal")

LastTry(j) == run[j].tries + 1 = MaxTries

Terminal(j) ==
  /\ run[j].pc = "terminal"
  /\ \/ /\ Fresh(j)
        /\ SetStatus(j, IF run[j].saw THEN "CANCELLED" ELSE run[j].want)
        /\ run' = Ended(j)
        /\ UNCHANGED doc
     \/ /\ ~Fresh(j) /\ ~LastTry(j)
        /\ run' = [run EXCEPT ![j] = [@ EXCEPT !.pc = "refresh", !.tries = run[j].tries + 1]]
        /\ UNCHANGED <<doc, job>>
     \/ /\ ~Fresh(j) /\ LastTry(j) /\ ~run[j].failing
        /\ Raise(j)
     \/ /\ ~Fresh(j) /\ LastTry(j) /\ run[j].failing
        /\ run' = Leaves(j, "interrupt")
        /\ UNCHANGED <<doc, job>>
  /\ UNCHANGED <<api, phase, pending, unmarked>>

Interrupted_Never(j) == job
Interrupted_Always(j) ==
  [job EXCEPT ![j] = [@ EXCEPT !.status = "INTERRUPTED", !.version = job[j].version + 1]]

\* mark_job_interrupted
Interrupted(j) ==
  IF job[j].status \in Active
    THEN [job EXCEPT ![j] = [@ EXCEPT !.status = "INTERRUPTED",
                                      !.version = job[j].version + 1]]
    ELSE job

\* the exception has left _run; the row may not be written either: a log line, and
\* the thread is gone
Interrupt(j) ==
  /\ run[j].pc = "interrupt"
  /\ \/ job' = Interrupted(j) /\ UNCHANGED unmarked
     \/ j \in Faulty /\ UNCHANGED job /\ unmarked' = unmarked \cup {j}
  /\ run' = Ended(j)
  /\ UNCHANGED <<doc, api, phase, pending>>

\* A statement of run_job fails, and its transaction with it; out of a handler the
\* exception leaves _run.
Fault(j) ==
  /\ j \in Faulty /\ run[j].pc \in Registered
  /\ IF run[j].failing
       THEN /\ run' = Leaves(j, "interrupt")
            /\ UNCHANGED <<doc, job>>
       ELSE Raise(j)
  /\ UNCHANGED <<api, phase, pending, unmarked>>

\* _finish_task; a skipped thread has returned, or never got a worker
FinishTask(j) ==
  /\ run[j].pc \in {"ended", "skipped"}
  /\ run' = [run EXCEPT ![j] = NoRun]
  /\ UNCHANGED <<doc, job, api, phase, pending, unmarked>>

-----------------------------------------------------------------------------
(***************************************************************************)
(* Requests                                                                *)
(***************************************************************************)
Idle(c) == api[c].pc = "idle" /\ phase = "up"

Answered(c) == [api EXCEPT ![c] = NoApi]

\* create_import_jobs, create_job: the job is committed, then enqueued
Create(c, d, op) ==
  /\ Idle(c)
  /\ \E j \in Jobs :
       /\ job[j].status = "none"
       /\ job' = [job EXCEPT ![j] = [@ EXCEPT !.status = "QUEUED", !.doc = d]]
       /\ api' = [api EXCEPT ![c] = [NoApi EXCEPT !.pc = "enqueue", !.op = op,
                                                  !.at = j]]
  /\ UNCHANGED <<run, phase, pending, unmarked>>

Import(c, d) ==
  /\ doc[d].state # "purged"
  /\ Create(c, d, "import")
  /\ doc' = [doc EXCEPT ![d].state = "active"]

Rebuild(c, d) ==
  /\ Present(d)
  /\ Create(c, d, "rebuild")
  /\ UNCHANGED doc

\* coordinator.enqueue, on the event loop
Enqueue(c) ==
  /\ api[c].pc = "enqueue"
  /\ run' = [run EXCEPT ![api[c].at].pc = "queued"]
  /\ api' = Answered(c)
  /\ UNCHANGED <<doc, job, phase, pending, unmarked>>

\* reset_job_for_retry: load ...
Retry(c, j) ==
  /\ Idle(c)
  /\ job[j].status \in Retryable /\ job[j].version < MaxVersion
  /\ api' = [api EXCEPT ![c] = [NoApi EXCEPT !.pc = "requeue", !.op = "retry",
                                             !.at = j, !.seen = job[j].version,
                                             !.saw = job[j].cancel]]
  /\ UNCHANGED <<doc, job, run, phase, pending, unmarked>>

\* ... and write.  The route runs in a thread without an event loop, so enqueue
\* either finds the task of the last run or raises: nothing is scheduled.  Of the
\* columns, those that differ from what was loaded are written.
Requeue(c) ==
  /\ api[c].pc = "requeue"
  /\ LET j == api[c].at
     IN  job' = [job EXCEPT ![j] = [@ EXCEPT !.status = "QUEUED",
                                             !.cancel = job[j].cancel /\ ~api[c].saw,
                                             !.version = api[c].seen + 1]]
  /\ api' = Answered(c)
  /\ UNCHANGED <<doc, run, phase, pending, unmarked>>

\* cancel_job, delete_document and purge_document stop a set of jobs
Cancel(c, j) ==
  /\ Idle(c) /\ job[j].status # "none"
  /\ api' = [api EXCEPT ![c] = [NoApi EXCEPT !.pc = "mark", !.op = "cancel",
                                             !.mark = {j}, !.todo = {j},
                                             !.at = j]]
  /\ UNCHANGED <<doc, job, run, phase, pending, unmarked>>

Delete(c, d) ==
  /\ Idle(c) /\ Present(d)
  /\ api' = [api EXCEPT ![c] = [NoApi EXCEPT !.pc = "list", !.op = "delete",
                                             !.doc = d]]
  /\ UNCHANGED <<doc, job, run, phase, pending, unmarked>>

\* require_trashed
Purge(c, d) ==
  /\ Idle(c) /\ doc[d].state = "trashed"
  /\ api' = [api EXCEPT ![c] = [NoApi EXCEPT !.pc = "list", !.op = "purge",
                                             !.doc = d]]
  /\ UNCHANGED <<doc, job, run, phase, pending, unmarked>>

Restore(c, d) ==
  /\ Idle(c) /\ doc[d].state = "trashed"
  /\ doc' = [doc EXCEPT ![d].state = "active"]
  /\ UNCHANGED <<job, run, api, phase, pending, unmarked>>

ActiveJobIds(d) == {j \in JobsOf(d) : job[j].status \in Active}

\* _prepare_document_deletion lists the active jobs ...
List(c) ==
  /\ api[c].pc = "list"
  /\ api' = IF Present(api[c].doc)
              THEN [api EXCEPT ![c] = [@ EXCEPT
                     !.pc = "mark", !.mark = ActiveJobIds(api[c].doc),
                     !.todo = ActiveJobIds(api[c].doc)]]
              ELSE Answered(c)
  /\ UNCHANGED <<doc, job, run, phase, pending, unmarked>>

\* ... and requests their cancellation.  request_cancel: load ...
Mark(c) ==
  /\ api[c].pc = "mark"
  /\ api' = IF api[c].mark = {} THEN [api EXCEPT ![c].pc = "signal"]
            ELSE LET j == CHOOSE j \in api[c].mark : TRUE
                 IN  IF job[j].cancel
                       THEN [api EXCEPT ![c].mark = @ \ {j}]
                       ELSE [api EXCEPT ![c] = [@ EXCEPT
                              !.pc = "write", !.mark = api[c].mark \ {j}, !.at = j,
                              !.seen = job[j].version]]
  /\ UNCHANGED <<doc, job, run, phase, pending, unmarked>>

\* ... and write
Write(c) ==
  /\ api[c].pc = "write"
  /\ job' = [job EXCEPT ![api[c].at] = [@ EXCEPT !.cancel = TRUE,
                                                  !.version = api[c].seen + 1]]
  /\ api' = [api EXCEPT ![c].pc = "mark"]
  /\ UNCHANGED <<doc, run, phase, pending, unmarked>>

\* the thread has not started: it is told not to
Skippable(j) == run[j].pc \in {"queued", "skipped"}

\* coordinator.cancel: no task; a thread to skip; a thread whose service is gone,
\* to be awaited; or service.cancel is posted to the loop of the thread
Signal(c) ==
  /\ api[c].pc = "signal"
  /\ IF api[c].todo = {}
       THEN /\ api' = [api EXCEPT ![c].pc = "finish"]
            /\ UNCHANGED run
       ELSE LET j == CHOOSE j \in api[c].todo : TRUE IN
            \/ /\ run[j].pc = "none"
               /\ api' = [api EXCEPT ![c].todo = @ \ {j}]
               /\ UNCHANGED run
            \/ /\ Skippable(j)
               /\ run' = [run EXCEPT ![j].pc = "skipped"]
               /\ api' = [api EXCEPT ![c].todo = @ \ {j}]
            \/ /\ run[j].pc \in {"interrupt", "ended"}
               /\ api' = [api EXCEPT ![c] = [@ EXCEPT !.pc = "wait", !.at = j]]
               /\ UNCHANGED run
            \/ /\ run[j].pc \in Registered     \* "starting" waits until it is ready
               /\ api' = [api EXCEPT ![c] = [@ EXCEPT !.pc = "deliver", !.at = j]]
               /\ UNCHANGED run
  /\ UNCHANGED <<doc, job, phase, pending, unmarked>>

Dropped_Never(j) == FALSE

\* the loop of the thread has nothing left to run
Dropped(j) == run[j].pc \notin Registered

\* service.cancel runs while the thread awaits: it loads the row in the session of
\* the thread and terminates a process it finds.  When run_job ends first, asyncio.run
\* cancels service.cancel, and the CancelledError ends the request; or a last round
\* of the loop serves it, or the loop is closed already; or it was posted after the
\* last round and before loop.close(), and its future never gets a result.
Deliver(c) ==
  LET j == api[c].at IN
  /\ api[c].pc = "deliver"
  /\ \/ /\ run[j].pc \in AwaitPoints
        /\ run' = [run EXCEPT ![j] = [@ EXCEPT
             !.seen = job[j].version, !.saw = job[j].cancel,
             !.proc = IF run[j].proc = "running" THEN "terminated" ELSE run[j].proc]]
        /\ api' = [api EXCEPT ![c].pc = "wait"]
     \/ /\ Dropped(j)
        /\ \/ api' = Answered(c)
           \/ \E next \in {"wait", "lost"} : api' = [api EXCEPT ![c].pc = next]
        /\ UNCHANGED run
  /\ UNCHANGED <<doc, job, phase, pending, unmarked>>

\* the task is awaited
Wait(c) ==
  /\ api[c].pc = "wait"
  /\ run[api[c].at].pc \notin Threads
  /\ api' = [api EXCEPT ![c] = [@ EXCEPT !.pc = "signal",
                                           !.todo = api[c].todo \ {api[c].at}]]
  /\ UNCHANGED <<doc, job, run, phase, pending, unmarked>>

\* All jobs are stopped.  delete: soft_delete_documents; purge:
\* _finalize_document_deletion removes the row and the index.
Finish(c) ==
  /\ api[c].pc = "finish" /\ api[c].op \in {"delete", "purge"}
  /\ doc' = IF ~Present(api[c].doc) THEN doc
            ELSE IF api[c].op = "delete"
                   THEN [doc EXCEPT ![api[c].doc].state = "trashed"]
                   ELSE [doc EXCEPT ![api[c].doc] = [@ EXCEPT !.state = "purged",
                                                              !.index = None]]
  /\ api' = Answered(c)
  /\ UNCHANGED <<job, run, phase, pending, unmarked>>

\* cancel_job reads the job once more: it may still be queued ...
Answer(c) ==
  /\ api[c].pc = "finish" /\ api[c].op = "cancel"
  /\ api' = IF job[api[c].at].status = "QUEUED"
              THEN [api EXCEPT ![c].pc = "reread"]
              ELSE Answered(c)
  /\ UNCHANGED <<doc, job, run, phase, pending, unmarked>>

\* ... and then _cancel_queued_job loads it ...
Reread(c) ==
  /\ api[c].pc = "reread"
  /\ api' = IF job[api[c].at].status = "QUEUED"
              THEN [api EXCEPT ![c] = [@ EXCEPT !.pc = "withdraw",
                                                !.seen = job[api[c].at].version]]
              ELSE Answered(c)
  /\ UNCHANGED <<doc, job, run, phase, pending, unmarked>>

\* ... and transitions it, unless the row has changed
Withdraw(c) ==
  /\ api[c].pc = "withdraw"
  /\ IF job[api[c].at].version = api[c].seen
       THEN SetStatus(api[c].at, "CANCELLED")
       ELSE UNCHANGED job
  /\ api' = Answered(c)
  /\ UNCHANGED <<doc, run, phase, pending, unmarked>>

\* A statement of a request fails: the request ends there, what it has committed stays.
RequestFails(c) ==
  /\ c \in Faulty
  /\ api[c].pc \in {"requeue", "list", "mark", "write", "finish", "reread", "withdraw"}
  /\ api[c].pc = "mark" => api[c].mark # {}
  /\ api' = Answered(c)
  /\ UNCHANGED <<doc, job, run, phase, pending, unmarked>>

-----------------------------------------------------------------------------
(***************************************************************************)
(* Shutdown and restart                                                    *)
(***************************************************************************)

\* coordinator.shutdown, once the server has answered all requests: threads that
\* have not started are skipped, and their jobs will be marked
ShutdownBegin ==
  /\ phase = "up" /\ \A c \in Clients : api[c].pc = "idle"
  /\ phase' = "marking"
  /\ pending' = {j \in Jobs : Skippable(j)}
  /\ run' = [j \in Jobs |-> IF Skippable(j) THEN [run[j] EXCEPT !.pc = "skipped"]
                             ELSE run[j]]
  /\ UNCHANGED <<doc, job, api, unmarked>>

\* its exceptions are gathered and dropped
MarkInterrupted(j) ==
  /\ phase = "marking" /\ j \in pending
  /\ job' = Interrupted(j) \/ (j \in Faulty /\ UNCHANGED job)
  /\ pending' = pending \ {j}
  /\ UNCHANGED <<doc, run, api, phase, unmarked>>

\* the services registered by now are told to shut down
Marked ==
  /\ phase = "marking" /\ pending = {}
  /\ phase' = "stopping"
  /\ pending' = {j \in Jobs : run[j].pc \in Registered}
  /\ UNCHANGED <<doc, job, run, api, unmarked>>

\* service.shutdown runs on the loop of the thread and stops the process: there is
\* none yet at "spawn", and at "stop" the thread is stopping it.  Like service.cancel
\* it may be posted too late, and then shutdown waits for it.
StopProcess(j) ==
  /\ phase \in {"stopping", "hung"} /\ j \in pending
  /\ \/ /\ run[j].pc \in AwaitPoints
        /\ run' = IF run[j].pc = "consume" THEN [run EXCEPT ![j].proc = "stopped"]
                  ELSE run
        /\ UNCHANGED phase
     \/ /\ Dropped(j)
        /\ phase' \in {phase, "hung"}
        /\ UNCHANGED run
  /\ pending' = pending \ {j}
  /\ UNCHANGED <<doc, job, api, unmarked>>

\* every task is awaited
Exit ==
  /\ phase = "stopping" /\ pending = {} /\ \A j \in Jobs : run[j].pc = "none"
  /\ phase' = "down"
  /\ UNCHANGED <<doc, job, run, api, pending, unmarked>>

\* The application starts again, after Exit or after a crash:
\* mark_active_jobs_interrupted; when it fails, the application does not start.
Restart ==
  /\ job' = [j \in Jobs |-> IF job[j].status \in Running \cup {"QUEUED"}
                             THEN [job[j] EXCEPT !.status = "INTERRUPTED",
                                                 !.version = job[j].version + 1]
                             ELSE job[j]]
  /\ run' = [j \in Jobs |-> NoRun]
  /\ api' = [c \in Clients |-> NoApi]
  /\ phase' = "up"
  /\ pending' = {}
  /\ unmarked' = {}
  /\ UNCHANGED doc

-----------------------------------------------------------------------------
RunJob(j) ==
  \/ First(j) \/ Validate(j) \/ Validated(j) \/ Spawn(j) \/ Parse(j) \/ Parsed(j)
  \/ Progress(j) \/ Progressed(j) \/ Stage(j) \/ Done(j) \/ Abort(j)
  \/ Stop(j) \/ Clear(j) \/ Collect(j) \/ Park(j) \/ FinishOutput(j)
  \/ Index(j) \/ Indexed(j) \/ ReplaceChunks(j) \/ ReplaceIndex(j)
  \/ Refresh(j) \/ Terminal(j)

Thread(j) == Start(j) \/ Open(j) \/ RunJob(j) \/ Interrupt(j) \/ FinishTask(j)

Request(c) ==
  \/ \E d \in Docs : Import(c, d) \/ Rebuild(c, d) \/ Delete(c, d)
                    \/ Purge(c, d) \/ Restore(c, d)
  \/ \E j \in Jobs : Retry(c, j) \/ Cancel(c, j)

Serve(c) ==
  \/ Enqueue(c) \/ Requeue(c) \/ List(c) \/ Mark(c) \/ Write(c) \/ Signal(c)
  \/ Deliver(c) \/ Wait(c) \/ Finish(c) \/ Answer(c) \/ Reread(c) \/ Withdraw(c)

Shutdown == Marked \/ Exit \/ \E j \in Jobs : MarkInterrupted(j) \/ StopProcess(j)

Next ==
  \/ \E j \in Jobs : Thread(j) \/ Fault(j)
  \/ \E c \in Clients : Request(c) \/ Serve(c) \/ RequestFails(c)
  \/ ShutdownBegin \/ Shutdown \/ Restart

Spec == Init /\ [][Next]_vars

\* Threads, the event loop and shutdown keep going; users and faults are free.
Fairness ==
  /\ \A j \in Jobs : WF_vars(Thread(j))
  /\ \A c \in Clients : WF_vars(Serve(c))
  /\ WF_vars(Shutdown)

FairSpec == Spec /\ Fairness

-----------------------------------------------------------------------------
(***************************************************************************)
(* Properties                                                              *)
(***************************************************************************)

\* Every variable has the shape declared above.
TypeOK ==
  /\ doc \in [Docs -> Doc]
  /\ job \in [Jobs -> Job]
  /\ run \in [Jobs -> Run]
  /\ api \in [Clients -> Api]
  /\ phase \in {"up", "marking", "stopping", "hung", "down"}
  /\ pending \in SUBSET Jobs
  /\ unmarked \in SUBSET Jobs

\* A job whose status says it is being worked on is worked on: whatever fails, is
\* cancelled or stops, no thread leaves such a job behind, unless even the
\* interruption could not be recorded; then the next start of the application does.
ActiveHasWorker ==
  \A j \in Jobs : job[j].status \in Running => run[j].pc \in Threads \/ j \in unmarked

\* When a completed job supplied the chunks of a document, the search index of the
\* document holds these chunks, also when another job of the document ran meanwhile.
CompletedIsSearchable ==
  \A j \in Jobs : LET d == DocOf(j) IN
    (job[j].status = "COMPLETED" /\ Present(d) /\ doc[d].chunks = j)
      => doc[d].index = j

\* What a status means for the life of a job
StageOf(status) ==
  CASE status \in Running                                     -> "running"
    [] status \in {"FAILED", "INTERRUPTED", "OCR_REQUIRED"}   -> "parked"
    [] status = "QUEUED"                                      -> "waiting"
    [] status = "COMPLETED"                                   -> "completed"
    [] status = "CANCELLED"                                   -> "cancelled"
    [] OTHER                                                  -> "none"

Lifecycle == INSTANCE JobLifecycle WITH stage <- [j \in Jobs |-> StageOf(job[j].status)]

\* The rows of the jobs move as JobLifecycle says, whoever writes them.
ImplementsLifecycle == Lifecycle!Spec

\* Cancel, delete and purge do not wait forever for a thread, whatever it is doing
\* when they reach it: every request is answered, or its call was posted to a loop
\* after its last round.
CallsReturnOrAreLost ==
  \A c \in Clients : api[c].pc # "idle" ~> api[c].pc \in {"idle", "lost"}

\* A thread that was scheduled ends, and so does the work on its job.
EveryRunEnds == \A j \in Jobs : run[j].pc = "queued" ~> run[j].pc = "none"

-----------------------------------------------------------------------------
(***************************************************************************)
(* What the documents and the tests promise and the code does not keep     *)
(***************************************************************************)
Becomes(j, status) == job[j].status # status /\ job'[j].status = status

\* A job whose cancellation was recorded does not complete.
\* test_import_service.py, test_cancel_during_indexing_finishes_as_cancelled.  As a
\* PROPERTY in ImportCancel.cfg it is violated.
CancelHonoured == [][\A j \in Jobs : Becomes(j, "COMPLETED") => ~job[j].cancel]_vars

\* Every request is answered: a deletion requests the cancellation of the jobs and
\* waits for their end, which comes.  2026-07-18-knowledge-library-management-design.md:27.
\* As a PROPERTY in ImportLiveness.cfg it is violated: a lost call waits for ever.
EveryCallReturns == \A c \in Clients : api[c].pc # "idle" ~> api[c].pc = "idle"
=============================================================================
