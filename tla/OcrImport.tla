-------------------------------- MODULE OcrImport --------------------------------
(***************************************************************************)
(* Reading one document, page by page: the worker process                  *)
(* (backend/knowledge/worker_main.py, ocr.py), the pipe its events come    *)
(* through, the thread that consumes them (run_job and _consume in         *)
(* import_service.py), and the checkpoint they leave for a retry: the      *)
(* staged blocks and the failed pages of the job row (repository.py).      *)
(*                                                                         *)
(* ImportJobs has the threads, the versions and the requests of many jobs; *)
(* here is the data of one: which pages were read, which are staged, which *)
(* are asked for again and which the index of the document ends up with.   *)
(* A page stands for the block it gives; a blank page gives none.  Failed  *)
(* pages are appended in page order, so a set of them says it all.         *)
(***************************************************************************)
EXTENDS Naturals, Sequences, FiniteSets

CONSTANTS
  PageCount,    \* pages of the document
  Blank,        \* the pages without text
  MaxPipe,      \* bound: events the pipe holds before the worker blocks
  MaxAttempts   \* bound: runs of all jobs of the document

Pages == 1..PageCount
Whole == Pages \ Blank     \* the pages a complete index holds

ASSUME OcrAssumption ==
  /\ PageCount \in Nat
  /\ Blank \subseteq Pages
  /\ MaxPipe \in Nat \ {0} /\ MaxAttempts \in Nat

VARIABLES
  scanned,   \* the pages are images: parsing finds too little text
  document,  \* its chunks and its search index, as sets of pages
  row,       \* the row of its latest job
  staged,    \* the pages whose block that job has staged
  run,       \* the thread in run_job
  worker,    \* the worker process
  pipe,      \* its events that were not read yet
  attempts,  \* runs so far
  cut        \* history: a run was cut short after it had recorded a failed page

vars == <<scanned, document, row, staged, run, worker, pipe, attempts, cut>>

Working  == {"VALIDATING", "PARSING", "OCR_RUNNING", "INDEXING"}
Statuses == Working \cup
  {"none", "QUEUED", "OCR_REQUIRED", "COMPLETED", "FAILED", "CANCELLED", "INTERRUPTED"}

Document == [chunks : SUBSET Pages, index : SUBSET Pages]
Row      == [status : Statuses, failed : SUBSET Pages, cancel : BOOLEAN]
Run      == [pc   : {"idle", "validate", "request", "parsing", "consume", "exiting",
                     "collect", "finish", "indexing", "chunk", "index", "stop", "clear",
                     "end"},
             want   : {"COMPLETED", "FAILED", "OCR_REQUIRED"},   \* what comes of it
             ocr    : BOOLEAN,           \* the done event asks for OCR
             failed : SUBSET Pages,      \* its failed pages
             failing : BOOLEAN]          \* inside an exception handler
Worker   == [pc     : {"none", "start", "parse", "page", "report", "written", "exited",
                      "broken"},
             pages  : SUBSET Pages,                 \* of the request; none means all
             todo   : SUBSET Pages,                 \* still to read
             failed : SUBSET Pages]

NoRow    == [status |-> "none", failed |-> {}, cancel |-> FALSE]
NoRun    == [pc |-> "idle", want |-> "COMPLETED", ocr |-> FALSE, failed |-> {},
             failing |-> FALSE]
NoWorker == [pc |-> "none", pages |-> {}, todo |-> {}, failed |-> {}]

Init ==
  /\ scanned \in BOOLEAN
  /\ document = [chunks |-> {}, index |-> {}]
  /\ row = NoRow
  /\ staged = {}
  /\ run = NoRun
  /\ worker = NoWorker
  /\ pipe = <<>>
  /\ attempts = 0
  /\ cut = FALSE

-----------------------------------------------------------------------------
(***************************************************************************)
(* The worker process                                                      *)
(***************************************************************************)
Event == [type   : {"progress", "block", "done", "failure"},
          ocr    : BOOLEAN,         \* stage ocr; of done: OCR is required
          page   : Pages \cup {0},  \* of a block
          failed : SUBSET Pages]

Progress(ocr, failed)   == [type |-> "progress", ocr |-> ocr, page |-> 0, failed |-> failed]
Block(p)                == [type |-> "block", ocr |-> FALSE, page |-> p, failed |-> {}]
DoneEvent(ocr, failed)  == [type |-> "done", ocr |-> ocr, page |-> 0, failed |-> failed]
Failure                 == [type |-> "failure", ocr |-> FALSE, page |-> 0, failed |-> {}]

\* Write an event and go on as `next'; a full pipe blocks the worker.
Emit(e, next) ==
  /\ Len(pipe) < MaxPipe
  /\ pipe' = Append(pipe, e)
  /\ worker' = next
  /\ UNCHANGED <<scanned, document, row, staged, run, attempts, cut>>

\* Any exception ends as a failure event and a non-zero exit.
Fail == Emit(Failure, [worker EXCEPT !.pc = "broken"])

Start ==
  /\ worker.pc = "start"
  /\ Emit(Progress(FALSE, {}), [worker EXCEPT !.pc = "parse"]) \/ Fail

\* Selected, if an empty request read nothing
Selected_Sent(pages) == pages

\* ocr_pdf: the pages asked for; `or None' makes an empty request all pages
Selected(pages) == IF pages = {} THEN Pages ELSE pages

\* _parse_pdf: the pages with text; too little of it on average means a scan
Parsed == IF scanned THEN Selected(worker.pages) ELSE Whole

\* Parsing finds the text, or that it takes OCR.  Its own progress events repeat the
\* one of Start.
Parse ==
  /\ worker.pc = "parse"
  /\ worker' = [worker EXCEPT !.pc = "page", !.todo = Parsed]
  /\ UNCHANGED <<scanned, document, row, staged, run, pipe, attempts, cut>>

\* OCR is needed and not installed
NeedOcr ==
  /\ worker.pc = "parse" /\ scanned
  /\ Emit(DoneEvent(TRUE, {}), [worker EXCEPT !.pc = "written"])

\* parse_document does not accept the document: format, signature, archive, limits
Refuse == worker.pc = "parse" /\ Fail

\* the page that is read next: in page order
NextPage == {p \in worker.todo : worker.pc = "page" /\ \A q \in worker.todo : p <= q}

\* The next page is recognised, and its block goes out before its progress ...
Recognise ==
  \E p \in NextPage \ Blank :
    Emit(Block(p), [worker EXCEPT !.pc = "report", !.todo = @ \ {p}])

\* ... or it is blank, or OCR fails on it or is out of time: no block
Pass(p, failed) ==
  /\ worker' = [worker EXCEPT !.pc = "report", !.todo = @ \ {p}, !.failed = failed]
  /\ UNCHANGED <<scanned, document, row, staged, run, pipe, attempts, cut>>

BlankPage == scanned /\ \E p \in NextPage \cap Blank : Pass(p, worker.failed)

FailPage == scanned /\ \E p \in NextPage : Pass(p, worker.failed \cup {p})

Report ==
  /\ worker.pc = "report"
  /\ Emit(Progress(scanned, worker.failed), [worker EXCEPT !.pc = "page"])

Finish ==
  /\ worker.pc = "page" /\ worker.todo = {}
  /\ Emit(DoneEvent(FALSE, worker.failed), [worker EXCEPT !.pc = "written"])

\* its last event is out, and it ends with exit code zero
Exit ==
  /\ worker.pc = "written"
  /\ worker' = [worker EXCEPT !.pc = "exited"]
  /\ UNCHANGED <<scanned, document, row, staged, run, pipe, attempts, cut>>

\* the PDF cannot be rendered, the engine does not close, a block is too large
Break == worker.pc \in {"page", "report"} /\ Fail

\* it is killed from outside
Die ==
  /\ worker.pc \in {"start", "parse", "page", "report", "written"}
  /\ worker' = [worker EXCEPT !.pc = "broken"]
  /\ UNCHANGED <<scanned, document, row, staged, run, pipe, attempts, cut>>

-----------------------------------------------------------------------------
(***************************************************************************)
(* The thread in run_job                                                   *)
(***************************************************************************)
At(pc)       == run.pc = pc
Goes(pc)     == run' = [run EXCEPT !.pc = pc]
Status(s)    == row' = [row EXCEPT !.status = s]
Raise        == run' = [run EXCEPT !.pc = "stop", !.want = "FAILED", !.failed = {},
                                    !.failing = TRUE]

Validate ==
  /\ At("validate")
  /\ Status("VALIDATING") /\ Goes("request")
  /\ UNCHANGED <<scanned, document, staged, worker, pipe, attempts, cut>>

\* retry_page_numbers
RetryPages == row.failed

\* the first look at cancel_requested, then _request_for and _start_worker
Spawn ==
  /\ At("request")
  /\ \/ /\ row.cancel
        /\ Goes("end")
        /\ UNCHANGED <<worker, pipe>>
     \/ /\ ~row.cancel
        /\ worker' = [NoWorker EXCEPT !.pc = "start", !.pages = RetryPages]
        /\ pipe' = <<>>
        /\ Goes("parsing")
  /\ UNCHANGED <<scanned, document, row, staged, attempts, cut>>

Parsing ==
  /\ At("parsing")
  /\ Status("PARSING") /\ Goes("consume")
  /\ UNCHANGED <<scanned, document, staged, worker, pipe, attempts, cut>>

\* _consume handles one event
Consume ==
  /\ At("consume") /\ pipe # <<>>
  /\ LET e == Head(pipe) IN
     \/ /\ e.type = "progress"
        /\ row' = [row EXCEPT !.status = IF e.ocr THEN "OCR_RUNNING" ELSE "PARSING",
                              !.failed = e.failed]
        /\ UNCHANGED <<staged, run>>
     \/ /\ e.type = "block"
        /\ staged' = staged \cup {e.page}
        /\ UNCHANGED <<row, run>>
     \/ /\ e.type = "done"
        /\ run' = [run EXCEPT !.pc = "exiting", !.ocr = e.ocr, !.failed = e.failed]
        /\ UNCHANGED <<row, staged>>
     \/ /\ e.type = "failure"
        /\ Raise
        /\ UNCHANGED <<row, staged>>
  /\ pipe' = Tail(pipe)
  /\ UNCHANGED <<scanned, document, worker, attempts, cut>>

\* the exit code after the done event
Exited ==
  /\ At("exiting")
  /\ \/ worker.pc = "exited" /\ Goes("collect")
     \/ worker.pc = "broken" /\ Raise
  /\ UNCHANGED <<scanned, document, row, staged, worker, pipe, attempts, cut>>

\* MayThrow, if no timeout watched the output
MayThrow_NoTimeout == run.pc \notin {"idle", "consume", "exiting"} /\ ~run.failing

MayThrow == run.pc # "idle" /\ ~run.failing

\* An exception in run_job: the timeout, the end of the output without a done event,
\* an invalid line, a stale row, a lost database or document.
Throw ==
  /\ MayThrow
  /\ Raise
  /\ UNCHANGED <<scanned, document, row, staged, worker, pipe, attempts, cut>>

\* the second look at cancel_requested, and what the done event says
Collect ==
  /\ At("collect")
  /\ run' = [run EXCEPT
       !.pc   = IF row.cancel \/ run.ocr THEN "clear" ELSE "finish",
       !.want = IF ~row.cancel /\ run.ocr THEN "OCR_REQUIRED" ELSE @]
  /\ UNCHANGED <<scanned, document, row, staged, worker, pipe, attempts, cut>>

\* Succeeds, if failed pages did not matter
Succeeds_Always == TRUE

\* whether the output goes on to the index
Succeeds == run.failed = {}

\* AfterPartial, if the output were cleared as after any other failure
AfterPartial_Clears == "clear"

\* failed pages end the job, the staged blocks stay for the retry
AfterPartial == "end"

FinishOutput ==
  /\ At("finish")
  /\ run' = IF Succeeds THEN [run EXCEPT !.pc = "indexing"]
                        ELSE [run EXCEPT !.pc = AfterPartial, !.want = "FAILED"]
  /\ UNCHANGED <<scanned, document, row, staged, worker, pipe, attempts, cut>>

Indexing ==
  /\ At("indexing")
  /\ Status("INDEXING") /\ Goes("chunk")
  /\ UNCHANGED <<scanned, document, staged, worker, pipe, attempts, cut>>

\* chunk_blocks and replace_chunks: blocks of different pages never merge
ReplaceChunks ==
  /\ At("chunk")
  /\ document' = [document EXCEPT !.chunks = staged]
  /\ Goes("index")
  /\ UNCHANGED <<scanned, row, staged, worker, pipe, attempts, cut>>

ReplaceIndex ==
  /\ At("index")
  /\ document' = [document EXCEPT !.index = document.chunks]
  /\ Goes("clear")
  /\ UNCHANGED <<scanned, row, staged, worker, pipe, attempts, cut>>

\* A failed page is on record and the run that recorded it does not finish.
CutIn(statuses) == cut \/ (row.failed # {} /\ row.status \in statuses)

\* a handler stops the process and clears what is staged; the failed pages stay
Stop ==
  /\ At("stop")
  /\ worker' = NoWorker /\ pipe' = <<>>
  /\ Goes("clear")
  /\ UNCHANGED <<scanned, document, row, staged, attempts, cut>>

\* clear_worker_output
Clear ==
  /\ At("clear")
  /\ staged' = {}
  /\ cut' = IF run.failing THEN CutIn(Statuses) ELSE cut
  /\ Goes("end")
  /\ UNCHANGED <<scanned, document, row, worker, pipe, attempts>>

\* the final transition; a cancel request wins, save over OCR_REQUIRED.  The failed
\* pages are reset by a success and written by the failure they cause, else they stay
\* (but for a cancelled job, which is never retried).
End ==
  /\ At("end")
  /\ row' = [row EXCEPT
       !.status = IF row.cancel /\ run.want # "OCR_REQUIRED" THEN "CANCELLED"
                  ELSE run.want,
       !.failed = IF run.want = "COMPLETED" \/ run.failed # {}
                  THEN run.failed ELSE @]
  /\ run' = NoRun
  /\ worker' = NoWorker /\ pipe' = <<>>
  /\ UNCHANGED <<scanned, document, staged, attempts, cut>>

\* the work ends without a handler of run_job, its row is parked as interrupted
Interrupted ==
  /\ row' = IF row.status \in Working \cup {"QUEUED"}
              THEN [row EXCEPT !.status = "INTERRUPTED"] ELSE row
  /\ cut' = CutIn({"OCR_RUNNING"})
  /\ run' = NoRun
  /\ worker' = NoWorker /\ pipe' = <<>>
  /\ UNCHANGED <<scanned, document, staged, attempts>>

\* mark_job_interrupted: a handler itself raised
HandlerFails == run.failing /\ Interrupted

-----------------------------------------------------------------------------
(***************************************************************************)
(* Requests, shutdown and restart                                          *)
(***************************************************************************)
\* a job is created by an import or a rebuild, or an earlier one is retried
NewJob ==
  /\ run.pc = "idle" /\ attempts < MaxAttempts
  /\ row.status \notin Working \cup {"QUEUED"}
  /\ row' = [NoRow EXCEPT !.status = "QUEUED"]
  /\ staged' = {}
  /\ attempts' = attempts + 1
  /\ UNCHANGED <<scanned, document, run, worker, pipe, cut>>

\* reset_job_for_retry
Retry ==
  /\ run.pc = "idle" /\ attempts < MaxAttempts
  /\ row.status \in {"FAILED", "OCR_REQUIRED", "INTERRUPTED"}
  /\ row' = [row EXCEPT !.status = "QUEUED", !.cancel = FALSE]
  /\ attempts' = attempts + 1
  /\ UNCHANGED <<scanned, document, staged, run, worker, pipe, cut>>

\* a thread of the executor takes the job
Begin ==
  /\ run.pc = "idle" /\ row.status = "QUEUED"
  /\ Goes("validate")
  /\ UNCHANGED <<scanned, document, row, staged, worker, pipe, attempts, cut>>

\* request_cancel; a job no thread has taken is withdrawn
Cancel ==
  /\ row.status \in Working \cup {"QUEUED"} /\ ~row.cancel
  /\ row' = [row EXCEPT !.cancel = TRUE,
               !.status = IF run.pc = "idle" THEN "CANCELLED" ELSE @]
  /\ UNCHANGED <<scanned, document, staged, run, worker, pipe, attempts, cut>>

\* service.cancel and service.shutdown terminate the process
Terminate == run.pc \in {"parsing", "consume", "exiting"} /\ Die

\* the application is killed, and recovers when it starts again
Restart == row.status \in Working \cup {"QUEUED"} /\ Interrupted

-----------------------------------------------------------------------------
WorkerStep ==
  Start \/ Parse \/ NeedOcr \/ Refuse \/ Recognise \/ BlankPage \/ FailPage \/ Report \/ Finish
    \/ Exit \/ Break

RunStep ==
  \/ Validate \/ Spawn \/ Parsing \/ Consume \/ Exited \/ Throw \/ Collect
  \/ FinishOutput \/ Indexing \/ ReplaceChunks \/ ReplaceIndex \/ Stop \/ Clear \/ End
  \/ HandlerFails

Request == NewJob \/ Retry \/ Begin \/ Cancel \/ Terminate \/ Restart

Next == WorkerStep \/ RunStep \/ Request

Spec == Init /\ [][Next]_vars

\* The event loop of the thread goes on, and asyncio.wait_for sees that _consume ends
\* (Throw): nothing is asked of the worker, which may hang.
Fairness == WF_vars(RunStep)
FairSpec == Spec /\ Fairness

-----------------------------------------------------------------------------
(***************************************************************************)
(* Properties                                                              *)
(***************************************************************************)

\* Every variable has the shape declared above.
TypeOK ==
  /\ scanned \in BOOLEAN
  /\ document \in Document
  /\ row \in Row
  /\ staged \in SUBSET Pages
  /\ run \in Run
  /\ worker \in Worker
  /\ pipe \in Seq(Event) /\ Len(pipe) <= MaxPipe
  /\ attempts \in 0..MaxAttempts
  /\ cut \in BOOLEAN

\* The search index of a document holds none of its pages or all that have text,
\* whatever run of OCR was partial, failed, was cancelled, retried or killed: a run
\* that did not read everything leaves the earlier index alone.
IndexNeverPartial == ~cut => document.index \in {{}, Whole}

\* A job that completed has put the whole document into the index, also when pages
\* failed first and were read again by later runs, unless a run was cut short while
\* a failed page was on record (see CompletedIsWhole).
WholeUnlessCut == row.status = "COMPLETED" /\ ~cut => document.index = Whole

\* A page that the worker is not asked to read again is on record already: the
\* request of a retry and the staged blocks fit together.
SkippedIsStaged ==
  worker.pc \notin {"none", "exited"} /\ scanned /\ ~cut
    => Pages \ Selected(worker.pages) \subseteq staged \cup Blank

\* A run comes to its end although the worker may hang, die or fill the pipe.
EveryRunEnds == run.pc # "idle" ~> run.pc = "idle"

-----------------------------------------------------------------------------
(***************************************************************************)
(* What the design promises and the code does not keep                     *)
(***************************************************************************)
\* A completed job has put every page with text into the index: a retry reads the
\* failed pages and the missing ones.  2026-07-18-offline-ocr-page-citations-design.md.
\* As an INVARIANT in OcrResume.cfg it is violated.
CompletedIsWhole == row.status = "COMPLETED" => document.index = Whole
=============================================================================
