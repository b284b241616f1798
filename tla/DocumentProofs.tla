-------------------------------- MODULE DocumentProofs --------------------------------
(***************************************************************************)
(* Proofs about documents.                                                 *)
(*                                                                         *)
(* Of OcrImport, for documents of any number of pages, any of them blank,  *)
(* pipes of any size and any number of runs: every variable keeps its      *)
(* type, what a retry does not ask for is staged, and the index of a       *)
(* document holds the whole document or nothing.  The argument follows the *)
(* pages: those that a run does not ask for are staged (NotAskedIsStaged); *)
(* of those it asks for, each is still to read, failed, blank, in the pipe *)
(* or staged (ReadIsSent); so what the done event leaves out is staged, or *)
(* in front of it in the pipe (DoneFits), and when it is consumed with no  *)
(* failed page, what is staged is the whole document (RunFits).            *)
(*                                                                         *)
(* Of DocumentText, for texts and documents of any length: a phrase is in  *)
(* one piece, the chunks are the pieces in groups, a paragraph has the     *)
(* headings above it and the prompt stays in its limit.  The functions are *)
(* recursive.  Each is unfolded first (...Unfolds, PiecesExist): CHOOSE    *)
(* finds a function with the equation, since the values up to any number   *)
(* give the next one, by induction.  Induction is that a set of numbers    *)
(* has a least element.  Then an invariant of the steps is proved as in a  *)
(* state machine: Rendered, SplitsFrom, CutInto, InOrder, ReadTo, WordTo.  *)
(***************************************************************************)
EXTENDS
  OcrImport, DocumentText,
  FiniteSetTheorems, SequenceTheorems, WellFoundedInduction, TLAPS

-----------------------------------------------------------------------------
(* OcrImport: the invariant *)

\* The pages whose block is in the pipe.
Sent == {p \in Pages : \E i \in DOMAIN pipe : pipe[i].type = "block" /\ pipe[i].page = p}

\* Blocks come from pages with text.
BlocksHaveText ==
  /\ staged \cap Blank = {}
  /\ \A i \in DOMAIN pipe : pipe[i].type = "block" => pipe[i].page \in Whole

Live == {"start", "parse", "page", "report"}

\* The worker says in its events what it has recorded, and nothing follows the event
\* that says it is done or has failed.
EventsFit ==
  \A i \in DOMAIN pipe :
    /\ pipe[i].failed \subseteq worker.failed
    /\ pipe[i].type = "progress" /\ ~pipe[i].ocr => pipe[i].failed = {}
    /\ pipe[i].type \in {"done", "failure"} => i = Len(pipe) /\ worker.pc \notin Live
    /\ pipe[i].type = "done" => /\ pipe[i].failed = worker.failed
                                /\ pipe[i].ocr => pipe[i].failed = {}

\* Only OCR fails, and no page failed before the first is read.
WorkerFits == ~scanned \/ worker.pc \in {"none", "start", "parse"} => worker.failed = {}

\* Where the worker can be for each place of the thread.
PlacesFit ==
  /\ run.pc \in {"idle", "validate", "request"} => worker = NoWorker /\ pipe = <<>>
  /\ run.pc = "exiting" => pipe = <<>> /\ worker.pc \in {"written", "exited", "broken"}
  /\ run.pc \in {"collect", "finish", "indexing", "chunk", "index"} =>
       pipe = <<>> /\ worker.pc = "exited"
  /\ run.pc \in {"clear", "end"} => pipe = <<>> /\ worker.pc \in {"none", "exited"}
  /\ run.pc \in {"idle", "validate", "request", "parsing", "consume"} =>
       run = [NoRun EXCEPT !.pc = run.pc]
  /\ run.pc \in {"parsing", "consume"} => worker.pc # "none"
  /\ run.pc = "validate" => row.status = "QUEUED"
  /\ run.pc = "request" => row.status = "VALIDATING"
  /\ run.pc = "parsing" => row.status = "VALIDATING"
  /\ run.pc \in {"exiting", "collect", "finish", "indexing", "chunk", "index"} =>
       run.want = "COMPLETED" /\ (run.ocr => run.failed = {})
  /\ run.pc = "stop" => run.failing
  /\ run.failing => run.pc \in {"stop", "clear", "end"} /\ run.want = "FAILED" /\ run.failed = {}

\* No progress of this worker was consumed: it has still to say that it started.
Unbegun ==
  \/ pipe = <<>> /\ worker.pc \in {"start", "broken"}
  \/ pipe # <<>> /\ pipe[1] \in {Progress(FALSE, {}), Failure}

\* The row has the failed pages that the worker told of.
Told ==
  /\ row.failed \subseteq worker.failed
  /\ row.failed # {} => row.status = "OCR_RUNNING"

RowFits ==
  /\ run.pc = "parsing" => Unbegun
  /\ run.pc = "consume" => Unbegun \/ Told
  /\ run.pc \in {"exiting", "collect", "finish"} =>
       row.failed \subseteq run.failed /\ (row.failed # {} => row.status = "OCR_RUNNING")
  /\ run.pc \in {"indexing", "chunk", "index"} => row.failed = {} /\ run.failed = {}
  /\ row.status = "INDEXING" => row.failed = {}

\* The pages that the worker does not ask for are staged, ...
NotAskedIsStaged ==
  ~cut /\ worker.pc \notin {"none", "exited"} =>
    Pages \ Parsed \subseteq staged \cup Blank

\* ... those it has read are in the pipe or staged, ...
ReadIsSent ==
  worker.pc \in {"page", "report"} =>
    (Parsed \ worker.todo) \ worker.failed \subseteq staged \cup Blank \cup Sent

\* ... and so are those it does not report as failed when it is done.
DoneFits ==
  ~cut => \A i \in DOMAIN pipe :
    pipe[i].type = "done" /\ ~pipe[i].ocr =>
      Pages \ pipe[i].failed \subseteq staged \cup Blank \cup Sent

RunFits ==
  ~cut =>
    /\ run.pc \in {"exiting", "collect"} /\ ~run.ocr => Pages \ run.failed \subseteq staged \cup Blank
    /\ run.pc = "finish" => Pages \ run.failed \subseteq staged \cup Blank
    /\ run.pc \in {"indexing", "chunk"} => staged = Whole
    /\ run.pc = "index" => document.chunks = Whole

\* What the handlers leave behind.
EndFits ==
  /\ run.pc = "clear" /\ ~run.failing =>
       /\ run.want \in {"COMPLETED", "OCR_REQUIRED"}
       /\ row.failed # {} => row.status = "OCR_RUNNING"
  /\ run.pc \in {"clear", "end"} /\ run.want = "OCR_REQUIRED" => row.failed = {} /\ run.failed = {}
  /\ run.pc \in {"clear", "end"} /\ run.want = "COMPLETED" /\ ~row.cancel /\ ~cut =>
       document.index = Whole
  /\ run.pc = "end" /\ run.failing => cut \/ row.failed = {}
  /\ run.pc = "end" /\ run.want = "FAILED" /\ ~run.failing /\ ~cut =>
       run.failed # {} /\ Pages \ run.failed \subseteq staged \cup Blank

\* A page that a retry of the job would not ask for is staged.
RetryFits ==
  ~cut /\ row.failed # {}
       /\ row.status \in {"QUEUED", "VALIDATING", "PARSING", "FAILED", "OCR_REQUIRED", "INTERRUPTED"} =>
    Pages \ row.failed \subseteq staged \cup Blank

Inv ==
  /\ BlocksHaveText /\ EventsFit /\ WorkerFits /\ PlacesFit /\ RowFits
  /\ NotAskedIsStaged /\ ReadIsSent /\ DoneFits /\ RunFits /\ EndFits /\ RetryFits
  /\ IndexNeverPartial /\ WholeUnlessCut
-----------------------------------------------------------------------------
(* Steps of the worker *)

LEMMA EventTypes ==
  /\ \A ocr \in BOOLEAN, failed \in SUBSET Pages :
       Progress(ocr, failed) \in Event /\ DoneEvent(ocr, failed) \in Event
  /\ \A p \in Pages : Block(p) \in Event
  /\ Failure \in Event
  BY DEF Progress, DoneEvent, Block, Failure, Event

\* The pipe with one more event.
LEMMA EmitPipe ==
  ASSUME pipe \in Seq(Event), NEW e \in Event, pipe' = Append(pipe, e)
  PROVE  /\ pipe' \in Seq(Event) /\ pipe' # <<>>
         /\ Len(pipe') = Len(pipe) + 1
         /\ DOMAIN pipe' = DOMAIN pipe \cup {Len(pipe) + 1}
         /\ pipe'[Len(pipe) + 1] = e
         /\ \A i \in DOMAIN pipe : pipe'[i] = pipe[i] /\ i # Len(pipe) + 1
         /\ Sent \subseteq Sent'
         /\ e.type = "block" /\ e.page \in Pages => e.page \in Sent'
  <1>1. /\ pipe' \in Seq(Event) /\ pipe' # <<>>
        /\ Len(pipe') = Len(pipe) + 1
        /\ DOMAIN pipe' = DOMAIN pipe \cup {Len(pipe) + 1}
        /\ pipe'[Len(pipe) + 1] = e
        /\ \A i \in DOMAIN pipe : pipe'[i] = pipe[i] /\ i # Len(pipe) + 1
    OBVIOUS
  <1>2. Sent' = {p \in Pages : \E i \in DOMAIN pipe' : pipe'[i].type = "block" /\ pipe'[i].page = p}
    BY DEF Sent, Pages
  <1>3. Sent \subseteq Sent' BY <1>1, <1>2 DEF Sent
  <1>4. e.type = "block" /\ e.page \in Pages => e.page \in Sent' BY <1>1, <1>2
  <1> QED BY <1>1, <1>3, <1>4

\* The pipe without its first event.
LEMMA ConsumePipe ==
  ASSUME pipe \in Seq(Event), pipe # <<>>, pipe' = Tail(pipe)
  PROVE  /\ pipe' \in Seq(Event) /\ Len(pipe) \in Nat \ {0}
         /\ Len(pipe') = Len(pipe) - 1
         /\ DOMAIN pipe' = 1..(Len(pipe) - 1)
         /\ Head(pipe) = pipe[1] /\ 1 \in DOMAIN pipe
         /\ \A i \in DOMAIN pipe' : pipe'[i] = pipe[i + 1] /\ i + 1 \in DOMAIN pipe
         /\ Sent \subseteq Sent' \cup (IF pipe[1].type = "block" THEN {pipe[1].page} ELSE {})
  <1>1. /\ pipe' \in Seq(Event) /\ Len(pipe) \in Nat \ {0}
        /\ Len(pipe') = Len(pipe) - 1
        /\ DOMAIN pipe' = 1..(Len(pipe) - 1) /\ DOMAIN pipe = 1..Len(pipe)
        /\ Head(pipe) = pipe[1]
        /\ \A i \in 1..(Len(pipe) - 1) : pipe'[i] = pipe[i + 1]
    OBVIOUS
  <1>2. ASSUME NEW p \in Sent, ~(pipe[1].type = "block" /\ pipe[1].page = p) PROVE p \in Sent'
    <2>1. PICK i \in DOMAIN pipe : pipe[i].type = "block" /\ pipe[i].page = p BY DEF Sent
    <2>2. i # 1 BY <1>2, <2>1
    <2>3. i - 1 \in DOMAIN pipe' /\ pipe'[i - 1] = pipe[i] BY <1>1, <2>2
    <2>4. p \in Pages BY DEF Sent
    <2>5. Sent' = {x \in Pages : \E k \in DOMAIN pipe' : pipe'[k].type = "block" /\ pipe'[k].page = x}
      BY DEF Sent, Pages
    <2> QED BY <2>1, <2>3, <2>4, <2>5
  <1>3. \A i \in DOMAIN pipe' : i + 1 \in DOMAIN pipe BY <1>1
  <1>4. 1 \in DOMAIN pipe BY <1>1
  <1> QED BY <1>1, <1>2, <1>3, <1>4

\* What only the thread and the requests change.
LEMMA WorkerFrame ==
  ASSUME Inv, UNCHANGED <<scanned, document, row, staged, run, attempts, cut>>
  PROVE  RunFits' /\ EndFits' /\ RetryFits' /\ IndexNeverPartial' /\ WholeUnlessCut'
  BY DEF Inv, RunFits, EndFits, RetryFits, IndexNeverPartial, WholeUnlessCut, Whole, Pages

\* A worker that is alive has its thread in _consume, on its way there, or in a handler.
LEMMA LivePlaces ==
  ASSUME Inv, TypeOK, worker.pc \in Live
  PROVE  run.pc \in {"parsing", "consume", "stop"}
  BY DEF Inv, PlacesFit, Live, NoWorker, TypeOK, Run

LEMMA EmitStep ==
  ASSUME TypeOK, Inv, worker.pc \in Live, NEW e \in Event, NEW w \in Worker, Emit(e, w),
         w.pages = worker.pages, w.failed = worker.failed, w.pc \notin {"none", "exited", "start"},
         w.pc \in {"start", "parse"} => w.failed = {},
         e.failed \subseteq w.failed,
         e.type = "block" => e.page \in Whole,
         e.type = "progress" /\ ~e.ocr => e.failed = {},
         e.type \in {"done", "failure"} => w.pc \notin Live,
         e.type = "done" => e.failed = w.failed /\ (e.ocr => e.failed = {}),
         worker.pc = "start" => e \in {Progress(FALSE, {}), Failure},
         w.pc \in {"page", "report"} =>
           (Parsed \ w.todo) \ w.failed \subseteq
             staged \cup Blank \cup Sent \cup (IF e.type = "block" THEN {e.page} ELSE {}),
         ~cut /\ e.type = "done" /\ ~e.ocr => Pages \ e.failed \subseteq staged \cup Blank \cup Sent
  PROVE  TypeOK' /\ Inv'
  <1>1. /\ Len(pipe) < MaxPipe /\ pipe' = Append(pipe, e) /\ worker' = w
        /\ UNCHANGED <<scanned, document, row, staged, run, attempts, cut>>
    BY DEF Emit
  <1>2. pipe \in Seq(Event) /\ Len(pipe) \in Nat BY DEF TypeOK
  <1>3. /\ pipe' \in Seq(Event) /\ pipe' # <<>>
        /\ Len(pipe') = Len(pipe) + 1
        /\ DOMAIN pipe' = DOMAIN pipe \cup {Len(pipe) + 1}
        /\ pipe'[Len(pipe) + 1] = e
        /\ \A i \in DOMAIN pipe : pipe'[i] = pipe[i] /\ i # Len(pipe) + 1
        /\ Sent \subseteq Sent'
        /\ e.type = "block" /\ e.page \in Pages => e.page \in Sent'
    BY <1>1, <1>2, EmitPipe
  <1>4. TypeOK'
    <2>1. Len(pipe') <= MaxPipe BY <1>1, <1>2, <1>3, OcrAssumption
    <2> QED BY <1>1, <1>3, <2>1 DEF TypeOK, Document, Row, Run, Worker, Event, Pages
  <1>5. run.pc \in {"parsing", "consume", "stop"} BY LivePlaces
  <1>6. Parsed' = Parsed BY <1>1 DEF Parsed, Selected, Whole, Pages
  <1>7. BlocksHaveText' BY <1>1, <1>3 DEF Inv, BlocksHaveText, Whole, Pages
  <1>8. EventsFit'
    <2>1. \A i \in DOMAIN pipe : pipe[i].type \notin {"done", "failure"}
      BY DEF Inv, EventsFit
    <2> QED BY <1>1, <1>3, <2>1 DEF Inv, EventsFit
  <1>9. WorkerFits' BY <1>1 DEF Inv, WorkerFits
  <1>10. PlacesFit' BY <1>1, <1>5 DEF Inv, PlacesFit
  <1>11. RowFits'
    <2>1. CASE Unbegun
      <3>1. Unbegun'
        <4>1. CASE pipe = <<>>
          <5>1. worker.pc = "start" BY <2>1, <4>1 DEF Unbegun, Live
          <5>2. pipe'[1] = e BY <1>3, <4>1
          <5> QED BY <1>3, <5>1, <5>2 DEF Unbegun, Progress, Failure
        <4>2. CASE pipe # <<>>
          <5>1. 1 \in DOMAIN pipe BY <1>2, <4>2
          <5>2. pipe'[1] = pipe[1] BY <1>3, <5>1
          <5> QED BY <1>3, <2>1, <4>2, <5>2 DEF Unbegun, Progress, Failure
        <4> QED BY <4>1, <4>2
      <3> QED BY <1>1, <1>5, <3>1 DEF Inv, RowFits
    <2>2. CASE ~Unbegun
      <3>1. run.pc = "consume" => Told' BY <1>1, <2>2 DEF Inv, RowFits, Told
      <3>2. run.pc # "parsing" BY <2>2 DEF Inv, RowFits
      <3> QED BY <1>1, <1>5, <3>1, <3>2 DEF Inv, RowFits
    <2> QED BY <2>1, <2>2
  <1>12. NotAskedIsStaged' BY <1>1, <1>6 DEF Inv, NotAskedIsStaged, Live, Pages
  <1>13. ReadIsSent'
    <2>1. CASE e.type = "block"
      <3>1. e.page \in Sent' BY <1>3, <2>1 DEF Whole
      <3> QED BY <1>1, <1>3, <1>6, <2>1, <3>1 DEF ReadIsSent
    <2>2. CASE e.type # "block" BY <1>1, <1>3, <1>6, <2>2 DEF ReadIsSent
    <2> QED BY <2>1, <2>2
  <1>14. DoneFits'
    <2>1. \A i \in DOMAIN pipe : pipe[i].type # "done" BY DEF Inv, EventsFit
    <2>2. Pages' = Pages BY DEF Pages
    <2> QED BY <1>1, <1>3, <2>1, <2>2 DEF DoneFits
  <1> QED BY <1>1, <1>4, <1>7, <1>8, <1>9, <1>10, <1>11, <1>12, <1>13, <1>14, WorkerFrame DEF Inv

\* A step that only the worker itself sees.
LEMMA QuietStep ==
  ASSUME TypeOK, Inv, worker.pc \in Live \cup {"written"}, NEW w \in Worker, worker' = w,
         UNCHANGED <<scanned, document, row, staged, run, pipe, attempts, cut>>,
         w.pages = worker.pages, w.pc \notin {"none", "start"},
         worker.failed \subseteq w.failed, worker.pc \notin Live => w.failed = worker.failed,
         worker.pc \notin Live => w.pc \in {"exited", "broken"},
         worker.pc \in Live => w.pc # "exited",
         worker.pc = "start" => w.pc = "broken",
         ~scanned \/ w.pc = "parse" => w.failed = {},
         w.pc \in {"page", "report"} =>
           (Parsed \ w.todo) \ w.failed \subseteq staged \cup Blank \cup Sent
  PROVE  TypeOK' /\ Inv'
  <1>1. TypeOK' BY DEF TypeOK, Document, Row, Run, Worker, Event, Pages
  <1>2. Parsed' = Parsed /\ Sent' = Sent
    BY DEF Parsed, Selected, Whole, Pages, Sent
  <1>3. worker.pc \in Live => run.pc \in {"parsing", "consume", "stop"} BY LivePlaces
  <1>4. worker.pc \notin Live => run.pc \in {"parsing", "consume", "stop", "exiting"}
    BY DEF Inv, PlacesFit, NoWorker, TypeOK, Run
  <1>5. BlocksHaveText' BY DEF Inv, BlocksHaveText, Whole, Pages
  <1>6. EventsFit'
    <2>1. CASE worker.pc \in Live
      <3>1. \A i \in DOMAIN pipe : pipe[i].type \notin {"done", "failure"}
        BY <2>1 DEF Inv, EventsFit
      <3> QED BY <3>1 DEF Inv, EventsFit
    <2>2. CASE worker.pc \notin Live
      <3>1. worker'.failed = worker.failed /\ worker'.pc \notin Live BY <2>2 DEF Live
      <3> QED BY <3>1 DEF Inv, EventsFit
    <2> QED BY <2>1, <2>2
  <1>7. WorkerFits' BY DEF Inv, WorkerFits
  <1>8. PlacesFit' BY <1>3, <1>4 DEF Inv, PlacesFit
  <1>9. RowFits'
    <2>1. Unbegun => Unbegun'
      <3>1. Unbegun /\ pipe = <<>> => worker.pc = "start" BY DEF Unbegun, Live
      <3> QED BY <3>1 DEF Unbegun, Progress, Failure
    <2>2. Told => Told' BY DEF Told
    <2> QED BY <1>3, <1>4, <2>1, <2>2 DEF Inv, RowFits
  <1>10. NotAskedIsStaged' BY <1>2 DEF Inv, NotAskedIsStaged, Live, Pages
  <1>11. ReadIsSent' BY <1>2 DEF ReadIsSent
  <1>12. DoneFits' BY <1>2 DEF Inv, DoneFits, Pages
  <1> QED BY <1>1, <1>5, <1>6, <1>7, <1>8, <1>9, <1>10, <1>11, <1>12, WorkerFrame DEF Inv

LEMMA WorkerKeeps == ASSUME TypeOK, Inv, WorkerStep PROVE TypeOK' /\ Inv'
  <1>0. /\ worker \in Worker /\ worker.pages \in SUBSET Pages /\ worker.failed \in SUBSET Pages
        /\ worker.todo \in SUBSET Pages /\ scanned \in BOOLEAN /\ Parsed \in SUBSET Pages
    BY DEF TypeOK, Worker, Parsed, Selected, Whole
  <1>1. ASSUME Fail, worker.pc \in Live PROVE TypeOK' /\ Inv'
    <2> DEFINE w == [worker EXCEPT !.pc = "broken"]
    <2>1. Emit(Failure, w) BY <1>1 DEF Fail
    <2>2. /\ w \in Worker /\ w.pages = worker.pages /\ w.failed = worker.failed
          /\ w.pc = "broken"
      BY <1>0 DEF Worker
    <2>3. Failure \in Event /\ Failure.type = "failure" /\ Failure.failed = {}
      BY EventTypes DEF Failure
    <2> HIDE DEF w
    <2> QED BY <1>1, <2>1, <2>2, <2>3, EmitStep DEF Live
  <1>2. CASE Start
    <2>1. worker.pc = "start" BY <1>2 DEF Start
    <2>2. CASE Emit(Progress(FALSE, {}), [worker EXCEPT !.pc = "parse"])
      <3> DEFINE w == [worker EXCEPT !.pc = "parse"]
                 e == Progress(FALSE, {})
      <3>1. /\ w \in Worker /\ w.pages = worker.pages /\ w.failed = worker.failed
            /\ w.pc = "parse"
        BY <1>0 DEF Worker
      <3>2. e \in Event /\ e.type = "progress" /\ e.failed = {} BY EventTypes DEF Progress
      <3>3. worker.failed = {} BY <2>1 DEF Inv, WorkerFits
      <3>4. Emit(e, w) BY <2>2
      <3>5. e = Progress(FALSE, {}) OBVIOUS
      <3> HIDE DEF w, e
      <3> QED BY <2>1, <3>1, <3>2, <3>3, <3>4, <3>5, EmitStep DEF Live
    <2> QED BY <1>1, <1>2, <2>1, <2>2 DEF Start, Live
  <1>3. CASE Parse
    <2> DEFINE w == [worker EXCEPT !.pc = "page", !.todo = Parsed]
    <2>1. /\ worker.pc = "parse" /\ worker' = w
          /\ UNCHANGED <<scanned, document, row, staged, run, pipe, attempts, cut>>
      BY <1>3 DEF Parse
    <2>2. /\ w \in Worker /\ w.pages = worker.pages /\ w.failed = worker.failed
          /\ w.pc = "page" /\ w.todo = Parsed
      BY <1>0 DEF Worker
    <2>3. worker.failed = {} BY <2>1 DEF Inv, WorkerFits
    <2> HIDE DEF w
    <2> QED BY <2>1, <2>2, <2>3, QuietStep DEF Live
  <1>4. CASE NeedOcr
    <2> DEFINE w == [worker EXCEPT !.pc = "written"]
               e == DoneEvent(TRUE, {})
    <2>1. worker.pc = "parse" /\ Emit(e, w) BY <1>4 DEF NeedOcr
    <2>2. /\ w \in Worker /\ w.pages = worker.pages /\ w.failed = worker.failed
          /\ w.pc = "written"
      BY <1>0 DEF Worker
    <2>3. e \in Event /\ e.type = "done" /\ e.failed = {} /\ e.ocr = TRUE
      BY EventTypes DEF DoneEvent
    <2>4. worker.failed = {} BY <2>1 DEF Inv, WorkerFits
    <2> HIDE DEF w, e
    <2> QED BY <2>1, <2>2, <2>3, <2>4, EmitStep DEF Live
  <1>5. CASE Refuse BY <1>1, <1>5 DEF Refuse, Live
  <1>6. CASE Recognise
    <2>1. PICK p \in NextPage \ Blank :
            Emit(Block(p), [worker EXCEPT !.pc = "report", !.todo = @ \ {p}])
      BY <1>6 DEF Recognise
    <2> DEFINE w == [worker EXCEPT !.pc = "report", !.todo = @ \ {p}]
               e == Block(p)
    <2>2. p \in worker.todo /\ worker.pc = "page" /\ p \notin Blank /\ p \in Pages
      BY <1>0 DEF NextPage
    <2>3. /\ w \in Worker /\ w.pages = worker.pages /\ w.failed = worker.failed
          /\ w.pc = "report" /\ w.todo = worker.todo \ {p}
      BY <1>0 DEF Worker
    <2>4. e \in Event /\ e.type = "block" /\ e.page = p /\ e.failed = {}
      BY <2>2, EventTypes DEF Block
    <2>5. Emit(e, w) BY <2>1
    <2> HIDE DEF w, e
    <2>6. (Parsed \ w.todo) \ w.failed \subseteq staged \cup Blank \cup Sent \cup {e.page}
      BY <2>2, <2>3, <2>4 DEF Inv, ReadIsSent
    <2>7. e.page \in Whole BY <2>2, <2>4 DEF Whole
    <2> QED BY <2>2, <2>3, <2>4, <2>5, <2>6, <2>7, EmitStep DEF Live
  <1>7. CASE BlankPage
    <2>1. PICK p \in NextPage \cap Blank : Pass(p, worker.failed)
      BY <1>7 DEF BlankPage
    <2> DEFINE w == [worker EXCEPT !.pc = "report", !.todo = @ \ {p}, !.failed = worker.failed]
    <2>2. /\ worker' = w
          /\ UNCHANGED <<scanned, document, row, staged, run, pipe, attempts, cut>>
      BY <2>1 DEF Pass
    <2>3. worker.pc = "page" /\ p \in Blank /\ scanned BY <1>7 DEF NextPage, BlankPage
    <2>4. /\ w \in Worker /\ w.pages = worker.pages /\ w.failed = worker.failed
          /\ w.pc = "report" /\ w.todo = worker.todo \ {p}
      BY <1>0 DEF Worker
    <2> HIDE DEF w
    <2>5. (Parsed \ w.todo) \ w.failed \subseteq staged \cup Blank \cup Sent
      BY <2>3, <2>4 DEF Inv, ReadIsSent
    <2> QED BY <2>2, <2>3, <2>4, <2>5, QuietStep DEF Live
  <1>8. CASE FailPage
    <2>1. PICK p \in NextPage : Pass(p, worker.failed \cup {p})
      BY <1>8 DEF FailPage
    <2> DEFINE w == [worker EXCEPT !.pc = "report", !.todo = @ \ {p},
                                   !.failed = worker.failed \cup {p}]
    <2>2. /\ worker' = w
          /\ UNCHANGED <<scanned, document, row, staged, run, pipe, attempts, cut>>
      BY <2>1 DEF Pass
    <2>3. worker.pc = "page" /\ p \in Pages /\ scanned BY <1>0, <1>8 DEF NextPage, FailPage
    <2>4. /\ w \in Worker /\ w.pages = worker.pages /\ w.failed = worker.failed \cup {p}
          /\ w.pc = "report" /\ w.todo = worker.todo \ {p}
      BY <1>0, <2>3 DEF Worker
    <2> HIDE DEF w
    <2>5. (Parsed \ w.todo) \ w.failed \subseteq staged \cup Blank \cup Sent
      BY <2>3, <2>4 DEF Inv, ReadIsSent
    <2> QED BY <2>2, <2>3, <2>4, <2>5, QuietStep DEF Live
  <1>9. CASE Report
    <2> DEFINE w == [worker EXCEPT !.pc = "page"]
               e == Progress(scanned, worker.failed)
    <2>1. worker.pc = "report" /\ Emit(e, w) BY <1>9 DEF Report
    <2>2. /\ w \in Worker /\ w.pages = worker.pages /\ w.failed = worker.failed
          /\ w.pc = "page" /\ w.todo = worker.todo
      BY <1>0 DEF Worker
    <2>3. e \in Event /\ e.type = "progress" /\ e.failed = worker.failed /\ e.ocr = scanned
      BY <1>0, EventTypes DEF Progress
    <2>4. ~scanned => worker.failed = {} BY DEF Inv, WorkerFits
    <2> HIDE DEF w, e
    <2>5. (Parsed \ w.todo) \ w.failed \subseteq staged \cup Blank \cup Sent
      BY <2>1, <2>2 DEF Inv, ReadIsSent
    <2> QED BY <2>1, <2>2, <2>3, <2>4, <2>5, EmitStep DEF Live
  <1>10. CASE Finish
    <2> DEFINE w == [worker EXCEPT !.pc = "written"]
               e == DoneEvent(FALSE, worker.failed)
    <2>1. worker.pc = "page" /\ worker.todo = {} /\ Emit(e, w) BY <1>10 DEF Finish
    <2>2. /\ w \in Worker /\ w.pages = worker.pages /\ w.failed = worker.failed
          /\ w.pc = "written"
      BY <1>0 DEF Worker
    <2>3. e \in Event /\ e.type = "done" /\ e.failed = worker.failed
      BY <1>0, EventTypes DEF DoneEvent
    <2>5. e.ocr = FALSE BY DEF DoneEvent
    <2> HIDE DEF w, e
    <2>4. ~cut => Pages \ e.failed \subseteq staged \cup Blank \cup Sent
      BY <2>1, <2>3 DEF Inv, ReadIsSent, NotAskedIsStaged
    <2> QED BY <2>1, <2>2, <2>3, <2>4, <2>5, EmitStep DEF Live
  <1>11. CASE Exit
    <2> DEFINE w == [worker EXCEPT !.pc = "exited"]
    <2>1. /\ worker.pc = "written" /\ worker' = w
          /\ UNCHANGED <<scanned, document, row, staged, run, pipe, attempts, cut>>
      BY <1>11 DEF Exit
    <2>2. /\ w \in Worker /\ w.pages = worker.pages /\ w.failed = worker.failed
          /\ w.pc = "exited"
      BY <1>0 DEF Worker
    <2>3. ~scanned => worker.failed = {} BY DEF Inv, WorkerFits
    <2> HIDE DEF w
    <2> QED BY <2>1, <2>2, <2>3, QuietStep DEF Live
  <1>12. CASE Break BY <1>1, <1>12 DEF Break, Live
  <1> QED BY <1>2, <1>3, <1>4, <1>5, <1>6, <1>7, <1>8, <1>9, <1>10, <1>11, <1>12 DEF WorkerStep

LEMMA DieKeeps == ASSUME TypeOK, Inv, Die PROVE TypeOK' /\ Inv'
  <1> DEFINE w == [worker EXCEPT !.pc = "broken"]
  <1>1. /\ worker.pc \in Live \cup {"written"} /\ worker' = w
        /\ UNCHANGED <<scanned, document, row, staged, run, pipe, attempts, cut>>
    BY DEF Die, Live
  <1>2. /\ w \in Worker /\ w.pages = worker.pages /\ w.failed = worker.failed
        /\ w.pc = "broken"
    BY DEF Worker, TypeOK
  <1>3. ~scanned => worker.failed = {} BY DEF Inv, WorkerFits
  <1> HIDE DEF w
  <1> QED BY <1>1, <1>2, <1>3, QuietStep

-----------------------------------------------------------------------------
(* Steps of the thread *)

\* What a step keeps that concerns neither the worker nor what is staged.
LEMMA ThreadFrame ==
  ASSUME Inv, UNCHANGED <<scanned, staged, worker, pipe, cut>>
  PROVE  /\ BlocksHaveText' /\ EventsFit' /\ WorkerFits'
         /\ NotAskedIsStaged' /\ ReadIsSent' /\ DoneFits'
         /\ Unbegun' = Unbegun
  <1>1. Parsed' = Parsed /\ Sent' = Sent /\ Pages' = Pages /\ Whole' = Whole
    BY DEF Parsed, Selected, Whole, Pages, Sent
  <1>2. Unbegun' = Unbegun BY DEF Unbegun, Progress, Failure
  <1> QED BY <1>1, <1>2 DEF Inv, BlocksHaveText, EventsFit, WorkerFits, NotAskedIsStaged,
                            ReadIsSent, DoneFits

\* A run that leaves its path for a handler.
LEMMA RaiseKeeps ==
  ASSUME TypeOK, Inv, run.pc # "idle", Raise,
         UNCHANGED <<scanned, document, row, staged, worker, pipe, attempts, cut>>
  PROVE  TypeOK' /\ Inv'
  <1>1. run' \in Run /\ run'.pc = "stop" /\ run'.want = "FAILED" /\ run'.failed = {}
        /\ run'.failing = TRUE
    BY DEF Raise, TypeOK, Run
  <1>2. TypeOK' BY <1>1 DEF TypeOK, Document, Row, Worker, Event, Pages
  <1>3. PlacesFit' BY <1>1 DEF PlacesFit
  <1>4. RowFits' BY <1>1 DEF Inv, RowFits
  <1>5. RunFits' /\ EndFits' BY <1>1 DEF RunFits, EndFits
  <1>6. RetryFits' /\ IndexNeverPartial' /\ WholeUnlessCut'
    BY DEF Inv, RetryFits, IndexNeverPartial, WholeUnlessCut, Pages, Whole
  <1> QED BY <1>2, <1>3, <1>4, <1>5, <1>6, ThreadFrame DEF Inv

LEMMA ConsumeKeeps == ASSUME TypeOK, Inv, Consume PROVE TypeOK' /\ Inv'
  <1> DEFINE e == pipe[1]
  <1>1. /\ run.pc = "consume" /\ pipe # <<>> /\ pipe' = Tail(pipe)
        /\ UNCHANGED <<scanned, document, worker, attempts, cut>>
    BY DEF Consume, At
  <1>2. /\ pipe' \in Seq(Event) /\ Len(pipe) \in Nat \ {0}
        /\ Len(pipe') = Len(pipe) - 1
        /\ DOMAIN pipe' = 1..(Len(pipe) - 1)
        /\ Head(pipe) = e /\ 1 \in DOMAIN pipe
        /\ \A i \in DOMAIN pipe' : pipe'[i] = pipe[i + 1] /\ i + 1 \in DOMAIN pipe
        /\ Sent \subseteq Sent' \cup (IF e.type = "block" THEN {e.page} ELSE {})
    BY <1>1, ConsumePipe DEF TypeOK
  <1>3. \/ /\ e.type = "progress"
           /\ row' = [row EXCEPT !.status = IF e.ocr THEN "OCR_RUNNING" ELSE "PARSING",
                                 !.failed = e.failed]
           /\ UNCHANGED <<staged, run>>
        \/ /\ e.type = "block"
           /\ staged' = staged \cup {e.page}
           /\ UNCHANGED <<row, run>>
        \/ /\ e.type = "done"
           /\ run' = [run EXCEPT !.pc = "exiting", !.ocr = e.ocr, !.failed = e.failed]
           /\ UNCHANGED <<row, staged>>
        \/ /\ e.type = "failure"
           /\ Raise
           /\ UNCHANGED <<row, staged>>
    BY <1>2 DEF Consume
  <1>4. e \in Event /\ e.failed \subseteq worker.failed /\ e.failed \in SUBSET Pages
    <2>1. pipe \in Seq(Event) /\ 1 \in DOMAIN pipe BY <1>2 DEF TypeOK
    <2>2. e \in Event BY <2>1
    <2>3. e.failed \subseteq worker.failed BY <2>1 DEF Inv, EventsFit
    <2> QED BY <2>2, <2>3 DEF Event
  <1>5. Len(pipe') <= MaxPipe BY <1>2, OcrAssumption DEF TypeOK
  <1>6. /\ run = [NoRun EXCEPT !.pc = "consume"]
        /\ run.want = "COMPLETED" /\ run.failing = FALSE /\ run.failed = {}
    BY <1>1 DEF Inv, PlacesFit, NoRun
  <1>7. EventsFit'
    <2>1. \A i \in DOMAIN pipe' : i + 1 = Len(pipe) <=> i = Len(pipe') BY <1>2
    <2> QED BY <1>1, <1>2, <2>1 DEF Inv, EventsFit
  <1>8. WorkerFits' BY <1>1 DEF Inv, WorkerFits
  <1>9. Parsed' = Parsed /\ Pages' = Pages /\ Whole' = Whole
    BY <1>1 DEF Parsed, Selected, Whole, Pages
  <1>10. IndexNeverPartial' BY <1>1, <1>9 DEF Inv, IndexNeverPartial
  <1> HIDE DEF e
  <1>11. Unbegun => e \in {Progress(FALSE, {}), Failure} BY <1>1 DEF Unbegun, e
  <1>12. e.type # "block" /\ staged' = staged =>
           BlocksHaveText' /\ NotAskedIsStaged' /\ ReadIsSent' /\ DoneFits'
    <2> SUFFICES ASSUME e.type # "block", staged' = staged
                 PROVE  BlocksHaveText' /\ NotAskedIsStaged' /\ ReadIsSent' /\ DoneFits'
      OBVIOUS
    <2>1. Sent \subseteq Sent' BY <1>2
    <2>2. BlocksHaveText' BY <1>2, <1>9 DEF Inv, BlocksHaveText
    <2>3. NotAskedIsStaged' BY <1>1, <1>9 DEF Inv, NotAskedIsStaged
    <2>4. ReadIsSent' BY <1>1, <1>9, <2>1 DEF Inv, ReadIsSent
    <2>5. DoneFits' BY <1>1, <1>2, <1>9, <2>1 DEF Inv, DoneFits
    <2> QED BY <2>2, <2>3, <2>4, <2>5
  <1>13. CASE e.type = "progress"
    <2>1. /\ row' = [row EXCEPT !.status = IF e.ocr THEN "OCR_RUNNING" ELSE "PARSING",
                                !.failed = e.failed]
          /\ UNCHANGED <<staged, run>>
      BY <1>3, <1>13
    <2>2. /\ row' \in Row /\ row'.failed = e.failed
          /\ row'.status = IF e.ocr THEN "OCR_RUNNING" ELSE "PARSING"
      BY <1>4, <2>1 DEF TypeOK, Row, Statuses, Working
    <2>3. ~e.ocr => e.failed = {} BY <1>2, <1>13 DEF Inv, EventsFit, e
    <2>4. TypeOK' BY <1>1, <1>2, <1>5, <2>1, <2>2 DEF TypeOK, Document, Run, Worker, Pages
    <2>5. PlacesFit' BY <1>1, <2>1 DEF Inv, PlacesFit
    <2>6. RowFits'
      <3>1. Told' BY <1>1, <1>4, <2>2, <2>3 DEF Told
      <3> QED BY <1>1, <2>1, <2>2, <3>1 DEF RowFits
    <2>7. RunFits' /\ EndFits' BY <1>1, <2>1 DEF RunFits, EndFits
    <2>8. RetryFits' BY <2>2, <2>3 DEF RetryFits
    <2>9. WholeUnlessCut' BY <2>2 DEF WholeUnlessCut
    <2> QED BY <1>7, <1>8, <1>10, <1>12, <1>13, <2>1, <2>4, <2>5, <2>6, <2>7, <2>8, <2>9 DEF Inv
  <1>14. CASE e.type = "block"
    <2>1. staged' = staged \cup {e.page} /\ UNCHANGED <<row, run>> BY <1>3, <1>14
    <2>2. e.page \in Whole BY <1>2, <1>14 DEF Inv, BlocksHaveText, e
    <2>3. TypeOK'
      <3>1. staged' \in SUBSET Pages BY <2>1, <2>2 DEF TypeOK, Whole
      <3> QED BY <1>1, <1>2, <1>5, <2>1, <3>1 DEF TypeOK, Document, Row, Run, Worker, Pages
    <2>4. BlocksHaveText' BY <1>2, <1>9, <2>1, <2>2 DEF Inv, BlocksHaveText, Whole
    <2>5. NotAskedIsStaged' BY <1>1, <1>9, <2>1 DEF Inv, NotAskedIsStaged
    <2>6. Sent \subseteq Sent' \cup {e.page} BY <1>2, <1>14
    <2>7. ReadIsSent' BY <1>1, <1>9, <2>1, <2>6 DEF Inv, ReadIsSent
    <2>8. DoneFits' BY <1>1, <1>2, <1>9, <2>1, <2>6 DEF Inv, DoneFits
    <2>9. PlacesFit' BY <1>1, <2>1 DEF Inv, PlacesFit
    <2>10. RowFits'
      <3>1. ~Unbegun BY <1>11, <1>14 DEF Progress, Failure
      <3>2. Told' BY <1>1, <2>1, <3>1 DEF Inv, RowFits, Told
      <3> QED BY <1>1, <2>1, <3>2 DEF Inv, RowFits
    <2>11. RunFits' /\ EndFits' BY <1>1, <2>1 DEF RunFits, EndFits
    <2>12. RetryFits' BY <1>1, <1>9, <2>1 DEF Inv, RetryFits
    <2>13. WholeUnlessCut' BY <1>1, <1>9, <2>1 DEF Inv, WholeUnlessCut
    <2> QED BY <1>7, <1>8, <1>10, <2>3, <2>4, <2>5, <2>7, <2>8, <2>9, <2>10, <2>11, <2>12, <2>13
        DEF Inv
  <1>15. CASE e.type = "done"
    <2>1. /\ run' = [run EXCEPT !.pc = "exiting", !.ocr = e.ocr, !.failed = e.failed]
          /\ UNCHANGED <<row, staged>>
      BY <1>3, <1>15
    <2>2. /\ run' \in Run /\ run'.pc = "exiting" /\ run'.ocr = e.ocr /\ run'.failed = e.failed
          /\ run'.failing = FALSE
      BY <1>4, <1>6, <2>1 DEF TypeOK, Run, Event
    <2>3. TypeOK' BY <1>1, <1>2, <1>5, <2>1, <2>2 DEF TypeOK, Document, Row, Worker, Pages
    <2>4. 1 = Len(pipe) /\ worker.pc \notin Live /\ e.failed = worker.failed
      BY <1>2, <1>15 DEF Inv, EventsFit, e
    <2>5. pipe' = <<>>
      <3>1. Len(pipe') = Len(pipe) - 1 /\ pipe' \in Seq(Event) BY <1>2
      <3>2. Len(pipe) = 1 BY <2>4
      <3>3. Len(pipe') = 0 BY <3>1, <3>2
      <3> QED BY <3>1, <3>3
    <2>6. worker.pc \in {"written", "exited", "broken"}
      <3>1. worker.pc # "none"
        BY <1>1, <1>15 DEF Inv, PlacesFit
      <3> QED BY <2>4, <3>1 DEF TypeOK, Worker, Live
    <2>7. PlacesFit'
      <3>1. run'.want = "COMPLETED" BY <1>6, <2>1 DEF TypeOK, Run
      <3>2. run'.ocr => run'.failed = {} BY <1>2, <1>15, <2>2 DEF Inv, EventsFit, e
      <3> QED BY <1>1, <2>2, <2>5, <2>6, <3>1, <3>2 DEF PlacesFit
    <2>8. RowFits'
      <3>1. ~Unbegun BY <1>11, <1>15 DEF Progress, Failure
      <3>2. Told BY <1>1, <3>1 DEF Inv, RowFits
      <3> QED BY <2>1, <2>2, <2>4, <3>2 DEF Inv, RowFits, Told
    <2>9. RunFits'
      <3>1. Sent' = {} BY <2>5 DEF Sent
      <3>2. Sent = {}
        <4>1. \A i \in DOMAIN pipe : i = 1 BY <2>4 DEF TypeOK
        <4> QED BY <1>15, <4>1 DEF Sent, e
      <3>3. ~cut /\ ~e.ocr => Pages \ e.failed \subseteq staged \cup Blank
        BY <1>2, <1>15, <3>2 DEF Inv, DoneFits, e
      <3> QED BY <1>1, <1>9, <2>1, <2>2, <3>3 DEF RunFits
    <2>10. EndFits' BY <2>2 DEF EndFits
    <2>11. RetryFits' /\ WholeUnlessCut'
      BY <1>1, <1>9, <2>1 DEF Inv, RetryFits, WholeUnlessCut
    <2> QED BY <1>7, <1>8, <1>10, <1>12, <1>15, <2>1, <2>3, <2>7, <2>8, <2>9, <2>10, <2>11 DEF Inv
  <1>16. CASE e.type = "failure"
    <2>1. Raise /\ UNCHANGED <<row, staged>> BY <1>3, <1>16
    <2>2. run' \in Run /\ run'.pc = "stop" /\ run'.want = "FAILED" /\ run'.failed = {}
          /\ run'.failing = TRUE
      BY <2>1 DEF Raise, TypeOK, Run
    <2>3. TypeOK' BY <1>1, <1>2, <1>5, <2>1, <2>2 DEF TypeOK, Document, Row, Worker, Pages
    <2>4. PlacesFit' BY <2>2 DEF PlacesFit
    <2>5. RowFits' BY <2>1, <2>2 DEF Inv, RowFits
    <2>6. RunFits' /\ EndFits' BY <2>2 DEF RunFits, EndFits
    <2>7. RetryFits' /\ WholeUnlessCut'
      BY <1>1, <1>9, <2>1 DEF Inv, RetryFits, WholeUnlessCut
    <2> QED BY <1>7, <1>8, <1>10, <1>12, <1>16, <2>1, <2>3, <2>4, <2>5, <2>6, <2>7 DEF Inv
  <1> QED BY <1>3, <1>13, <1>14, <1>15, <1>16

\* The steps of the thread on its path.
LEMMA PathKeeps ==
  ASSUME TypeOK, Inv,
         \/ Validate \/ Spawn \/ Parsing \/ Exited \/ Throw \/ Collect
         \/ FinishOutput \/ Indexing \/ ReplaceChunks \/ ReplaceIndex
  PROVE  TypeOK' /\ Inv'
  <1>0. run \in Run /\ row \in Row /\ worker \in Worker BY DEF TypeOK
  <1>1. CASE Validate
    <2>1. /\ run.pc = "validate"
          /\ row' = [row EXCEPT !.status = "VALIDATING"] /\ run' = [run EXCEPT !.pc = "request"]
          /\ UNCHANGED <<scanned, document, staged, worker, pipe, attempts, cut>>
      BY <1>1 DEF Validate, At, Status, Goes
    <2>2. /\ row' \in Row /\ row'.status = "VALIDATING" /\ row'.failed = row.failed
          /\ run' \in Run /\ run'.pc = "request"
      BY <1>0, <2>1 DEF Row, Run, Statuses, Working
    <2>3. run = [NoRun EXCEPT !.pc = "validate"] /\ worker = NoWorker /\ pipe = <<>>
      BY <2>1 DEF Inv, PlacesFit
    <2>4. TypeOK' BY <2>1, <2>2 DEF TypeOK, Document, Worker, Event, Pages
    <2>5. PlacesFit'
      <3>1. run' = [NoRun EXCEPT !.pc = "request"] BY <2>1, <2>3 DEF NoRun
      <3>2. run'.failing = FALSE BY <3>1 DEF NoRun
      <3> QED BY <2>1, <2>2, <2>3, <3>1, <3>2 DEF PlacesFit, NoRun, NoWorker
    <2>6. RowFits' /\ RunFits' /\ EndFits' BY <2>2 DEF RowFits, RunFits, EndFits
    <2>7. RetryFits' /\ IndexNeverPartial' /\ WholeUnlessCut'
      <3>1. row.status = "QUEUED" BY <2>1 DEF Inv, PlacesFit
      <3> QED BY <2>1, <2>2, <3>1 DEF Inv, RetryFits, IndexNeverPartial, WholeUnlessCut, Pages, Whole
    <2> QED BY <2>1, <2>4, <2>5, <2>6, <2>7, ThreadFrame DEF Inv
  <1>2. CASE Spawn
    <2>1. run.pc = "request" /\ UNCHANGED <<scanned, document, row, staged, attempts, cut>>
      BY <1>2 DEF Spawn, At
    <2>2. run = [NoRun EXCEPT !.pc = "request"] /\ worker = NoWorker /\ pipe = <<>>
          /\ row.status = "VALIDATING"
      BY <2>1 DEF Inv, PlacesFit
    <2>3. IndexNeverPartial' /\ WholeUnlessCut' /\ RetryFits'
      BY <2>1 DEF Inv, IndexNeverPartial, WholeUnlessCut, RetryFits, Pages, Whole
    <2>4. CASE row.cancel /\ Goes("end") /\ UNCHANGED <<worker, pipe>>
      <3>1. /\ run' = [run EXCEPT !.pc = "end"] /\ UNCHANGED <<worker, pipe>> /\ row.cancel
        BY <2>4 DEF Goes
      <3>2. /\ run' \in Run /\ run'.pc = "end" /\ run'.want = "COMPLETED" /\ run'.failed = {}
            /\ run'.failing = FALSE /\ run'.ocr = FALSE
        BY <1>0, <2>2, <3>1 DEF Run, NoRun
      <3>3. TypeOK' BY <2>1, <3>1, <3>2 DEF TypeOK, Document, Row, Worker, Event, Pages
      <3>4. PlacesFit' BY <2>1, <2>2, <3>1, <3>2 DEF PlacesFit, NoWorker
      <3>5. RowFits' BY <2>1, <2>2, <3>2 DEF RowFits
      <3>6. RunFits' /\ EndFits' BY <2>1, <3>1, <3>2 DEF RunFits, EndFits
      <3> QED BY <2>1, <2>3, <3>1, <3>3, <3>4, <3>5, <3>6, ThreadFrame DEF Inv
    <2>5. CASE /\ worker' = [NoWorker EXCEPT !.pc = "start", !.pages = RetryPages]
               /\ pipe' = <<>> /\ Goes("parsing")
      <3>1. /\ worker' \in Worker /\ worker'.pc = "start" /\ worker'.pages = row.failed
            /\ worker'.failed = {} /\ worker'.todo = {}
        BY <1>0, <2>5 DEF Worker, NoWorker, RetryPages, Row
      <3>2. /\ run' \in Run /\ run'.pc = "parsing" /\ run' = [NoRun EXCEPT !.pc = "parsing"]
            /\ run'.failing = FALSE
        BY <1>0, <2>2, <2>5 DEF Run, NoRun, Goes
      <3>3. pipe' = <<>> /\ DOMAIN pipe' = {} BY <2>5
      <3>4. TypeOK'
        <4>1. pipe' \in Seq(Event) /\ Len(pipe') <= MaxPipe BY <3>3, OcrAssumption
        <4> QED BY <2>1, <3>1, <3>2, <4>1 DEF TypeOK, Document, Row, Event, Pages
      <3>5. Pages' = Pages /\ Whole' = Whole BY DEF Pages, Whole
      <3>6. BlocksHaveText' /\ EventsFit' /\ DoneFits'
        BY <2>1, <3>3 DEF Inv, BlocksHaveText, EventsFit, DoneFits
      <3>7. WorkerFits' BY <3>1 DEF WorkerFits
      <3>8. PlacesFit' BY <2>1, <2>2, <3>1, <3>2 DEF PlacesFit
      <3>9. RowFits' BY <2>1, <2>2, <3>1, <3>2, <3>3 DEF RowFits, Unbegun
      <3>10. NotAskedIsStaged'
        <4>1. Parsed' = IF scanned THEN Selected(row.failed) ELSE Whole
          BY <2>1, <3>1, <3>5 DEF Parsed, Selected
        <4>2. ~cut => Pages \ Selected(row.failed) \subseteq staged \cup Blank
          BY <2>2 DEF Inv, RetryFits, Selected
        <4>3. Pages \ Whole \subseteq Blank BY DEF Whole
        <4> QED BY <2>1, <3>5, <4>1, <4>2, <4>3 DEF NotAskedIsStaged
      <3>11. ReadIsSent' BY <3>1 DEF ReadIsSent
      <3>12. RunFits' /\ EndFits' BY <3>2 DEF RunFits, EndFits
      <3> QED BY <2>3, <3>4, <3>6, <3>7, <3>8, <3>9, <3>10, <3>11, <3>12 DEF Inv
    <2> QED BY <1>2, <2>4, <2>5 DEF Spawn
  <1>3. CASE Parsing
    <2>1. /\ run.pc = "parsing"
          /\ row' = [row EXCEPT !.status = "PARSING"] /\ run' = [run EXCEPT !.pc = "consume"]
          /\ UNCHANGED <<scanned, document, staged, worker, pipe, attempts, cut>>
      BY <1>3 DEF Parsing, At, Status, Goes
    <2>2. /\ row' \in Row /\ row'.status = "PARSING" /\ row'.failed = row.failed
          /\ run' \in Run /\ run'.pc = "consume"
      BY <1>0, <2>1 DEF Row, Run, Statuses, Working
    <2>3. run = [NoRun EXCEPT !.pc = "parsing"] /\ worker.pc # "none" /\ Unbegun
          /\ row.status = "VALIDATING"
      BY <2>1 DEF Inv, PlacesFit, RowFits
    <2>4. TypeOK' BY <2>1, <2>2 DEF TypeOK, Document, Worker, Event, Pages
    <2>5. PlacesFit'
      <3>1. run' = [NoRun EXCEPT !.pc = "consume"] BY <2>1, <2>3 DEF NoRun
      <3>2. run'.failing = FALSE BY <3>1 DEF NoRun
      <3> QED BY <2>1, <2>2, <2>3, <3>1, <3>2 DEF PlacesFit, NoRun
    <2>6. Unbegun' BY <2>1, <2>3, ThreadFrame
    <2>7. RowFits' /\ RunFits' /\ EndFits' BY <2>2, <2>6 DEF RowFits, RunFits, EndFits
    <2>8. RetryFits' /\ IndexNeverPartial' /\ WholeUnlessCut'
      BY <2>1, <2>2, <2>3 DEF Inv, RetryFits, IndexNeverPartial, WholeUnlessCut, Pages, Whole
    <2> QED BY <2>1, <2>4, <2>5, <2>7, <2>8, ThreadFrame DEF Inv
  <1>4. CASE Exited
    <2>1. run.pc = "exiting" /\ UNCHANGED <<scanned, document, row, staged, worker, pipe, attempts, cut>>
      BY <1>4 DEF Exited, At
    <2>2. CASE worker.pc = "exited" /\ Goes("collect")
      <3>1. /\ run' \in Run /\ run'.pc = "collect" /\ run'.failed = run.failed
            /\ run'.ocr = run.ocr /\ run'.failing = run.failing /\ run'.want = run.want
        BY <1>0, <2>2 DEF Run, Goes
      <3>2. pipe = <<>> /\ ~run.failing /\ run.want = "COMPLETED" /\ (run.ocr => run.failed = {})
        BY <2>1 DEF Inv, PlacesFit
      <3>3. TypeOK' BY <2>1, <3>1 DEF TypeOK, Document, Row, Worker, Event, Pages
      <3>4. PlacesFit' BY <2>1, <2>2, <3>1, <3>2 DEF PlacesFit
      <3>5. RowFits' /\ RunFits' /\ EndFits'
        BY <2>1, <3>1 DEF Inv, RowFits, RunFits, EndFits, Pages
      <3>6. RetryFits' /\ IndexNeverPartial' /\ WholeUnlessCut'
        BY <2>1 DEF Inv, RetryFits, IndexNeverPartial, WholeUnlessCut, Pages, Whole
      <3> QED BY <2>1, <3>3, <3>4, <3>5, <3>6, ThreadFrame DEF Inv
    <2>3. CASE Raise BY <2>1, <2>3, RaiseKeeps
    <2> QED BY <1>4, <2>2, <2>3 DEF Exited
  <1>5. CASE Throw BY <1>5, RaiseKeeps DEF Throw, MayThrow
  <1>6. CASE Collect
    <2>1. /\ run.pc = "collect"
          /\ run' = [run EXCEPT
               !.pc   = IF row.cancel \/ run.ocr THEN "clear" ELSE "finish",
               !.want = IF ~row.cancel /\ run.ocr THEN "OCR_REQUIRED" ELSE @]
          /\ UNCHANGED <<scanned, document, row, staged, worker, pipe, attempts, cut>>
      BY <1>6 DEF Collect, At
    <2>2. /\ run' \in Run /\ run'.failed = run.failed /\ run'.failing = run.failing
          /\ run'.ocr = run.ocr
          /\ run'.pc = IF row.cancel \/ run.ocr THEN "clear" ELSE "finish"
          /\ run'.want = IF ~row.cancel /\ run.ocr THEN "OCR_REQUIRED" ELSE run.want
      BY <1>0, <2>1 DEF Run
    <2>3. /\ pipe = <<>> /\ worker.pc = "exited" /\ ~run.failing /\ run.want = "COMPLETED"
          /\ run.ocr => run.failed = {}
      BY <2>1 DEF Inv, PlacesFit
    <2>4. TypeOK' BY <2>1, <2>2 DEF TypeOK, Document, Row, Worker, Event, Pages
    <2>5. PlacesFit' BY <2>1, <2>2, <2>3 DEF PlacesFit
    <2>6. row.failed \subseteq run.failed /\ (row.failed # {} => row.status = "OCR_RUNNING")
      BY <2>1 DEF Inv, RowFits
    <2>7. RowFits' BY <2>1, <2>2, <2>6 DEF Inv, RowFits
    <2>8. RunFits' BY <2>1, <2>2 DEF Inv, RunFits, Pages
    <2>9. EndFits' BY <2>1, <2>2, <2>3, <2>6 DEF EndFits
    <2>10. RetryFits' /\ IndexNeverPartial' /\ WholeUnlessCut'
      BY <2>1 DEF Inv, RetryFits, IndexNeverPartial, WholeUnlessCut, Pages, Whole
    <2> QED BY <2>1, <2>4, <2>5, <2>7, <2>8, <2>9, <2>10, ThreadFrame DEF Inv
  <1>7. CASE FinishOutput
    <2>1. /\ run.pc = "finish"
          /\ UNCHANGED <<scanned, document, row, staged, worker, pipe, attempts, cut>>
          /\ run' = IF run.failed = {} THEN [run EXCEPT !.pc = "indexing"]
                    ELSE [run EXCEPT !.pc = "end", !.want = "FAILED"]
      BY <1>7 DEF FinishOutput, At, Succeeds, AfterPartial
    <2>2. /\ run' \in Run /\ run'.failed = run.failed /\ run'.failing = run.failing
          /\ run'.pc = IF run.failed = {} THEN "indexing" ELSE "end"
          /\ run'.want = IF run.failed = {} THEN run.want ELSE "FAILED"
      BY <1>0, <2>1 DEF Run
    <2>3. pipe = <<>> /\ worker.pc = "exited" /\ ~run.failing /\ run.want = "COMPLETED"
      BY <2>1 DEF Inv, PlacesFit
    <2>4. TypeOK' BY <2>1, <2>2 DEF TypeOK, Document, Row, Worker, Event, Pages
    <2>5. PlacesFit' BY <2>1, <2>2, <2>3 DEF PlacesFit
    <2>6. row.failed \subseteq run.failed /\ (row.failed # {} => row.status = "OCR_RUNNING")
      BY <2>1 DEF Inv, RowFits
    <2>7. RowFits' BY <2>1, <2>2, <2>6 DEF Inv, RowFits
    <2>8. ~cut => Pages \ run.failed \subseteq staged \cup Blank BY <2>1 DEF Inv, RunFits
    <2>9. RunFits'
      <3>1. staged \in SUBSET Pages /\ staged \cap Blank = {}
        BY DEF TypeOK, Inv, BlocksHaveText
      <3>2. ~cut /\ run.failed = {} => staged = Whole BY <2>8, <3>1 DEF Whole
      <3>3. Whole' = Whole BY DEF Whole, Pages
      <3> QED BY <2>1, <2>2, <3>2, <3>3 DEF RunFits
    <2>10. EndFits' BY <2>1, <2>2, <2>3, <2>8 DEF EndFits, Pages
    <2>11. RetryFits' /\ IndexNeverPartial' /\ WholeUnlessCut'
      BY <2>1 DEF Inv, RetryFits, IndexNeverPartial, WholeUnlessCut, Pages, Whole
    <2> QED BY <2>1, <2>4, <2>5, <2>7, <2>9, <2>10, <2>11, ThreadFrame DEF Inv
  <1>8. CASE Indexing
    <2>1. /\ run.pc = "indexing"
          /\ row' = [row EXCEPT !.status = "INDEXING"] /\ run' = [run EXCEPT !.pc = "chunk"]
          /\ UNCHANGED <<scanned, document, staged, worker, pipe, attempts, cut>>
      BY <1>8 DEF Indexing, At, Status, Goes
    <2>2. /\ row' \in Row /\ row'.status = "INDEXING" /\ row'.failed = row.failed
          /\ run' \in Run /\ run'.pc = "chunk" /\ run'.failing = run.failing
          /\ run'.failed = run.failed /\ run'.want = run.want
      BY <1>0, <2>1 DEF Row, Run, Statuses, Working
    <2>3. /\ pipe = <<>> /\ worker.pc = "exited" /\ ~run.failing
          /\ row.failed = {} /\ run.failed = {} /\ run.want = "COMPLETED"
      BY <2>1 DEF Inv, PlacesFit, RowFits
    <2>4. TypeOK' BY <2>1, <2>2 DEF TypeOK, Document, Worker, Event, Pages
    <2>5. PlacesFit' BY <2>1, <2>2, <2>3 DEF PlacesFit
    <2>6. RowFits' /\ EndFits' BY <2>2, <2>3 DEF RowFits, EndFits
    <2>7. RunFits' BY <2>1, <2>2 DEF Inv, RunFits, Whole, Pages
    <2>8. RetryFits' /\ IndexNeverPartial' /\ WholeUnlessCut'
      BY <2>1, <2>2 DEF Inv, RetryFits, IndexNeverPartial, WholeUnlessCut, Pages, Whole
    <2> QED BY <2>1, <2>4, <2>5, <2>6, <2>7, <2>8, ThreadFrame DEF Inv
  <1>9. CASE ReplaceChunks
    <2>1. /\ run.pc = "chunk"
          /\ document' = [document EXCEPT !.chunks = staged] /\ run' = [run EXCEPT !.pc = "index"]
          /\ UNCHANGED <<scanned, row, staged, worker, pipe, attempts, cut>>
      BY <1>9 DEF ReplaceChunks, At, Goes
    <2>2. /\ document' \in Document /\ document'.chunks = staged
          /\ document'.index = document.index
          /\ run' \in Run /\ run'.pc = "index" /\ run'.failing = run.failing
          /\ run'.failed = run.failed
      BY <1>0, <2>1 DEF TypeOK, Document, Run
    <2>3. /\ pipe = <<>> /\ worker.pc = "exited" /\ ~run.failing
          /\ row.failed = {} /\ run.failed = {} /\ run.want = "COMPLETED"
      BY <2>1 DEF Inv, PlacesFit, RowFits
    <2>4. TypeOK' BY <2>1, <2>2 DEF TypeOK, Row, Worker, Event, Pages
    <2>5. PlacesFit' BY <2>1, <2>2, <2>3 DEF PlacesFit
    <2>6. RowFits' /\ EndFits' BY <2>1, <2>2, <2>3 DEF Inv, RowFits, EndFits
    <2>7. RunFits' BY <2>1, <2>2 DEF Inv, RunFits, Whole, Pages
    <2>8. RetryFits' /\ IndexNeverPartial' /\ WholeUnlessCut'
      BY <2>1, <2>2 DEF Inv, RetryFits, IndexNeverPartial, WholeUnlessCut, Pages, Whole
    <2> QED BY <2>1, <2>4, <2>5, <2>6, <2>7, <2>8, ThreadFrame DEF Inv
  <1>10. CASE ReplaceIndex
    <2>1. /\ run.pc = "index"
          /\ document' = [document EXCEPT !.index = document.chunks]
          /\ run' = [run EXCEPT !.pc = "clear"]
          /\ UNCHANGED <<scanned, row, staged, worker, pipe, attempts, cut>>
      BY <1>10 DEF ReplaceIndex, At, Goes
    <2>2. /\ document' \in Document /\ document'.index = document.chunks
          /\ run' \in Run /\ run'.pc = "clear" /\ run'.failing = run.failing
          /\ run'.failed = run.failed /\ run'.want = run.want
      BY <1>0, <2>1 DEF TypeOK, Document, Run
    <2>3. /\ pipe = <<>> /\ worker.pc = "exited" /\ ~run.failing
          /\ row.failed = {} /\ run.failed = {} /\ run.want = "COMPLETED"
      BY <2>1 DEF Inv, PlacesFit, RowFits
    <2>4. TypeOK' BY <2>1, <2>2 DEF TypeOK, Row, Worker, Event, Pages
    <2>5. PlacesFit' BY <2>1, <2>2, <2>3 DEF PlacesFit
    <2>6. ~cut => document'.index = Whole BY <2>1, <2>2 DEF Inv, RunFits
    <2>7. RowFits' /\ RunFits' BY <2>1, <2>2, <2>3 DEF Inv, RowFits, RunFits
    <2>8. Whole' = Whole /\ Pages' = Pages BY DEF Whole, Pages
    <2>9. EndFits' BY <2>1, <2>2, <2>3, <2>6, <2>8 DEF EndFits
    <2>10. RetryFits' /\ IndexNeverPartial' /\ WholeUnlessCut'
      BY <2>1, <2>6, <2>8 DEF Inv, RetryFits, IndexNeverPartial, WholeUnlessCut
    <2> QED BY <2>1, <2>4, <2>5, <2>7, <2>9, <2>10, ThreadFrame DEF Inv
  <1> QED BY <1>1, <1>2, <1>3, <1>4, <1>5, <1>6, <1>7, <1>8, <1>9, <1>10

\* The steps of the handlers and the end of a run.
LEMMA InterruptedKeeps == ASSUME TypeOK, Inv, Interrupted PROVE TypeOK' /\ Inv'
  <1>1. /\ row' = IF row.status \in Working \cup {"QUEUED"}
                  THEN [row EXCEPT !.status = "INTERRUPTED"] ELSE row
        /\ cut' = CutIn({"OCR_RUNNING"})
        /\ run' = NoRun /\ worker' = NoWorker /\ pipe' = <<>>
        /\ UNCHANGED <<scanned, document, staged, attempts>>
    BY DEF Interrupted
  <1>2. row \in Row /\ row.status \in Statuses BY DEF TypeOK, Row
  <1>3. row' \in Row /\ row'.failed = row.failed
        /\ (row'.status = "INTERRUPTED" \/ (row' = row /\ row.status \notin Working))
    <2>1. CASE row.status \in Working \cup {"QUEUED"}
      <3>1. row' = [row EXCEPT !.status = "INTERRUPTED"] BY <1>1, <2>1
      <3> QED BY <1>2, <3>1 DEF Row, Statuses
    <2>2. CASE row.status \notin Working \cup {"QUEUED"}
      <3>1. row' = row BY <1>1, <2>2
      <3> QED BY <1>2, <2>2, <3>1
    <2> QED BY <2>1, <2>2
  <1>4. cut' \in BOOLEAN /\ (~cut' => ~cut /\ (row.failed = {} \/ row.status # "OCR_RUNNING"))
    BY <1>1 DEF CutIn, TypeOK
  <1>5. /\ run'.pc = "idle" /\ run'.want = "COMPLETED" /\ run'.failed = {} /\ run'.failing = FALSE
        /\ run' = [NoRun EXCEPT !.pc = "idle"] /\ run' \in Run
        /\ worker'.pc = "none" /\ worker'.failed = {} /\ worker' \in Worker /\ DOMAIN pipe' = {}
    BY <1>1 DEF NoRun, NoWorker, Run, Worker
  <1>6. TypeOK'
    <2>1. pipe' \in Seq(Event) /\ Len(pipe') <= MaxPipe BY <1>1, OcrAssumption
    <2> QED BY <1>1, <1>3, <1>4, <1>5, <2>1 DEF TypeOK, Document, Event, Pages
  <1>7. BlocksHaveText' /\ EventsFit' /\ WorkerFits' /\ DoneFits'
    BY <1>1, <1>5 DEF Inv, BlocksHaveText, EventsFit, WorkerFits, DoneFits
  <1>8. PlacesFit' BY <1>1, <1>5 DEF PlacesFit
  <1>9. RowFits'
    <2>1. row'.status # "INDEXING" BY <1>3 DEF Working
    <2> QED BY <1>5, <2>1 DEF RowFits
  <1>10. NotAskedIsStaged' /\ ReadIsSent' BY <1>5 DEF NotAskedIsStaged, ReadIsSent
  <1>11. RunFits' /\ EndFits' BY <1>5 DEF RunFits, EndFits
  <1>12. Pages' = Pages /\ Whole' = Whole BY DEF Pages, Whole
  <1>13. RetryFits'
    <2> SUFFICES ASSUME ~cut', row'.failed # {},
                        row'.status \in {"QUEUED", "VALIDATING", "PARSING", "FAILED",
                                         "OCR_REQUIRED", "INTERRUPTED"}
                 PROVE  Pages \ row.failed \subseteq staged \cup Blank
      BY <1>1, <1>3, <1>12 DEF RetryFits
    <2>1. row.status \notin {"none", "CANCELLED", "COMPLETED"}
      BY <1>1 DEF Working
    <2>2. row.status \notin {"INDEXING", "OCR_RUNNING"}
      BY <1>3, <1>4 DEF Inv, RowFits
    <2> QED BY <1>2, <1>3, <1>4, <2>1, <2>2 DEF Inv, RetryFits, Statuses, Working
  <1>14. IndexNeverPartial' /\ WholeUnlessCut'
    BY <1>1, <1>3, <1>4, <1>12 DEF Inv, IndexNeverPartial, WholeUnlessCut
  <1> QED BY <1>6, <1>7, <1>8, <1>9, <1>10, <1>11, <1>13, <1>14 DEF Inv

LEMMA HandlerKeeps ==
  ASSUME TypeOK, Inv, Stop \/ Clear \/ End \/ HandlerFails
  PROVE  TypeOK' /\ Inv'
  <1>0. run \in Run /\ row \in Row /\ worker \in Worker BY DEF TypeOK
  <1>n. NoWorker.pc = "none" /\ NoWorker.failed = {} /\ NoWorker \in Worker
    BY DEF NoWorker, Worker
  <1>p. Pages' = Pages /\ Whole' = Whole BY DEF Pages, Whole
  <1>1. CASE Stop
    <2>1. /\ run.pc = "stop" /\ worker' = NoWorker /\ pipe' = <<>>
          /\ run' = [run EXCEPT !.pc = "clear"]
          /\ UNCHANGED <<scanned, document, row, staged, attempts, cut>>
      BY <1>1 DEF Stop, At, Goes
    <2>2. /\ run' \in Run /\ run'.pc = "clear" /\ run'.want = run.want
          /\ run'.failed = run.failed /\ run'.failing = run.failing
      BY <1>0, <2>1 DEF Run
    <2>3. run.failing /\ run.want = "FAILED" /\ run.failed = {} BY <2>1 DEF Inv, PlacesFit
    <2>4. TypeOK'
      <3>1. pipe' \in Seq(Event) /\ Len(pipe') <= MaxPipe BY <2>1, OcrAssumption
      <3> QED BY <1>n, <2>1, <2>2, <3>1 DEF TypeOK, Document, Row, Event, Pages
    <2>5. DOMAIN pipe' = {} BY <2>1
    <2>6. BlocksHaveText' /\ EventsFit' /\ WorkerFits' /\ DoneFits'
      BY <1>n, <2>1, <2>5 DEF Inv, BlocksHaveText, EventsFit, WorkerFits, DoneFits
    <2>7. PlacesFit' BY <1>n, <2>1, <2>2, <2>3 DEF PlacesFit
    <2>8. RowFits' BY <2>1, <2>2 DEF Inv, RowFits
    <2>9. NotAskedIsStaged' /\ ReadIsSent' BY <1>n, <2>1 DEF NotAskedIsStaged, ReadIsSent
    <2>10. RunFits' /\ EndFits' BY <2>1, <2>2, <2>3 DEF RunFits, EndFits
    <2>11. RetryFits' /\ IndexNeverPartial' /\ WholeUnlessCut'
      BY <1>p, <2>1 DEF Inv, RetryFits, IndexNeverPartial, WholeUnlessCut
    <2> QED BY <2>4, <2>6, <2>7, <2>8, <2>9, <2>10, <2>11 DEF Inv
  <1>2. CASE Clear
    <2>1. /\ run.pc = "clear" /\ staged' = {}
          /\ cut' = IF run.failing THEN CutIn(Statuses) ELSE cut
          /\ run' = [run EXCEPT !.pc = "end"]
          /\ UNCHANGED <<scanned, document, row, worker, pipe, attempts>>
      BY <1>2 DEF Clear, At, Goes
    <2>2. /\ run' \in Run /\ run'.pc = "end" /\ run'.want = run.want
          /\ run'.failed = run.failed /\ run'.failing = run.failing
      BY <1>0, <2>1 DEF Run
    <2>3. pipe = <<>> /\ worker.pc \in {"none", "exited"} BY <2>1 DEF Inv, PlacesFit
    <2>4. /\ cut' \in BOOLEAN /\ (cut => cut')
          /\ run.failing /\ ~cut' => row.failed = {}
      BY <1>0, <2>1 DEF CutIn, TypeOK, Row
    <2>5. TypeOK' BY <2>1, <2>2, <2>4 DEF TypeOK, Document, Row, Worker, Event, Pages
    <2>6. DOMAIN pipe' = {} BY <2>1, <2>3
    <2>7. BlocksHaveText' /\ EventsFit' /\ WorkerFits' /\ DoneFits'
      BY <2>1, <2>6 DEF Inv, BlocksHaveText, EventsFit, WorkerFits, DoneFits
    <2>8. PlacesFit' BY <2>1, <2>2, <2>3 DEF Inv, PlacesFit
    <2>9. RowFits' BY <2>1, <2>2 DEF Inv, RowFits
    <2>10. NotAskedIsStaged' /\ ReadIsSent' BY <2>1, <2>3 DEF NotAskedIsStaged, ReadIsSent
    <2>11. RunFits' BY <2>2 DEF RunFits
    <2>12. EndFits' BY <1>p, <2>1, <2>2, <2>4 DEF Inv, EndFits
    <2>13. RetryFits'
      <3>1. ~run.failing /\ row.failed # {} => row.status = "OCR_RUNNING"
        BY <2>1 DEF Inv, EndFits
      <3> QED BY <2>1, <2>4, <3>1 DEF RetryFits
    <2>14. IndexNeverPartial' /\ WholeUnlessCut'
      BY <1>p, <2>1, <2>4 DEF Inv, IndexNeverPartial, WholeUnlessCut
    <2> QED BY <2>5, <2>7, <2>8, <2>9, <2>10, <2>11, <2>12, <2>13, <2>14 DEF Inv
  <1>3. CASE End
    <2>1. /\ run.pc = "end" /\ run' = NoRun /\ worker' = NoWorker /\ pipe' = <<>>
          /\ row' = [row EXCEPT
               !.status = IF row.cancel /\ run.want # "OCR_REQUIRED" THEN "CANCELLED"
                          ELSE run.want,
               !.failed = IF run.want = "COMPLETED" \/ run.failed # {}
                          THEN run.failed ELSE @]
          /\ UNCHANGED <<scanned, document, staged, attempts, cut>>
      BY <1>3 DEF End, At
    <2>2. run.want \in {"COMPLETED", "FAILED", "OCR_REQUIRED"} /\ run.failed \in SUBSET Pages
      BY <1>0 DEF Run
    <2>3. /\ row'.status = IF row.cancel /\ run.want # "OCR_REQUIRED" THEN "CANCELLED"
                           ELSE run.want
          /\ row'.failed = IF run.want = "COMPLETED" \/ run.failed # {}
                           THEN run.failed ELSE row.failed
          /\ row' \in Row
      BY <1>0, <2>1, <2>2 DEF Row, Statuses, Working
    <2>4. /\ run'.pc = "idle" /\ run'.failing = FALSE /\ run' = [NoRun EXCEPT !.pc = "idle"]
          /\ run' \in Run
      BY <2>1 DEF NoRun, Run
    <2>5. TypeOK'
      <3>1. pipe' \in Seq(Event) /\ Len(pipe') <= MaxPipe BY <2>1, OcrAssumption
      <3> QED BY <1>n, <2>1, <2>3, <2>4, <3>1 DEF TypeOK, Document, Event, Pages
    <2>6. DOMAIN pipe' = {} BY <2>1
    <2>7. BlocksHaveText' /\ EventsFit' /\ WorkerFits' /\ DoneFits'
      BY <1>n, <2>1, <2>6 DEF Inv, BlocksHaveText, EventsFit, WorkerFits, DoneFits
    <2>8. PlacesFit' BY <1>n, <2>1, <2>4 DEF PlacesFit
    <2>9. RowFits' BY <2>2, <2>3, <2>4 DEF RowFits
    <2>10. NotAskedIsStaged' /\ ReadIsSent' BY <1>n, <2>1 DEF NotAskedIsStaged, ReadIsSent
    <2>11. RunFits' /\ EndFits' BY <2>4 DEF RunFits, EndFits
    <2>12. RetryFits'
      <3> SUFFICES ASSUME ~cut, row'.failed # {}, row'.status \in {"FAILED", "OCR_REQUIRED"}
                   PROVE  Pages \ row'.failed \subseteq staged \cup Blank
        BY <1>p, <2>1, <2>2, <2>3 DEF RetryFits
      <3>1. run.want = row'.status BY <2>3
      <3>2. run.want = "FAILED" BY <2>1, <2>3, <3>1 DEF Inv, EndFits
      <3>3. CASE run.failing
        <4>1. run.failed = {} BY <3>3 DEF Inv, PlacesFit
        <4> QED BY <2>1, <2>3, <3>2, <3>3, <4>1 DEF Inv, EndFits
      <3>4. CASE ~run.failing BY <2>1, <2>3, <3>2, <3>4 DEF Inv, EndFits
      <3> QED BY <3>3, <3>4
    <2>13. IndexNeverPartial' /\ WholeUnlessCut'
      BY <1>p, <2>1, <2>2, <2>3 DEF Inv, IndexNeverPartial, WholeUnlessCut, EndFits
    <2> QED BY <2>5, <2>7, <2>8, <2>9, <2>10, <2>11, <2>12, <2>13 DEF Inv
  <1>4. CASE HandlerFails BY <1>4, InterruptedKeeps DEF HandlerFails
  <1> QED BY <1>1, <1>2, <1>3, <1>4

-----------------------------------------------------------------------------
(* Requests *)

LEMMA RequestKeeps == ASSUME TypeOK, Inv, Request PROVE TypeOK' /\ Inv'
  <1>0. run \in Run /\ row \in Row BY DEF TypeOK
  <1>p. Pages' = Pages /\ Whole' = Whole BY DEF Pages, Whole
  <1>1. CASE NewJob
    <2>1. /\ run.pc = "idle" /\ attempts < MaxAttempts
          /\ row' = [NoRow EXCEPT !.status = "QUEUED"] /\ staged' = {}
          /\ attempts' = attempts + 1
          /\ UNCHANGED <<scanned, document, run, worker, pipe, cut>>
      BY <1>1 DEF NewJob
    <2>2. row' \in Row /\ row'.status = "QUEUED" /\ row'.failed = {}
      BY <2>1 DEF NoRow, Row, Statuses
    <2>3. worker = NoWorker /\ pipe = <<>> /\ worker.pc = "none" /\ DOMAIN pipe' = {}
      BY <2>1 DEF Inv, PlacesFit, NoWorker
    <2>4. TypeOK'
      <3>1. attempts' \in 0..MaxAttempts BY <2>1, OcrAssumption DEF TypeOK
      <3> QED BY <2>1, <2>2, <3>1 DEF TypeOK, Document, Run, Worker, Event, Pages
    <2>5. BlocksHaveText' /\ EventsFit' /\ WorkerFits' /\ DoneFits'
      BY <2>1, <2>3 DEF Inv, BlocksHaveText, EventsFit, WorkerFits, DoneFits
    <2>6. PlacesFit' BY <2>1 DEF Inv, PlacesFit
    <2>7. RowFits' /\ RunFits' /\ EndFits' /\ RetryFits'
      BY <2>1, <2>2 DEF RowFits, RunFits, EndFits, RetryFits
    <2>8. NotAskedIsStaged' /\ ReadIsSent' BY <2>1, <2>3 DEF NotAskedIsStaged, ReadIsSent
    <2>9. IndexNeverPartial' /\ WholeUnlessCut'
      BY <1>p, <2>1, <2>2 DEF Inv, IndexNeverPartial, WholeUnlessCut
    <2> QED BY <2>4, <2>5, <2>6, <2>7, <2>8, <2>9 DEF Inv
  <1>2. CASE Retry
    <2>1. /\ run.pc = "idle" /\ attempts < MaxAttempts
          /\ row.status \in {"FAILED", "OCR_REQUIRED", "INTERRUPTED"}
          /\ row' = [row EXCEPT !.status = "QUEUED", !.cancel = FALSE]
          /\ attempts' = attempts + 1
          /\ UNCHANGED <<scanned, document, staged, run, worker, pipe, cut>>
      BY <1>2 DEF Retry
    <2>2. row' \in Row /\ row'.status = "QUEUED" /\ row'.failed = row.failed
      BY <1>0, <2>1 DEF Row, Statuses
    <2>3. TypeOK'
      <3>1. attempts' \in 0..MaxAttempts BY <2>1, OcrAssumption DEF TypeOK
      <3> QED BY <2>1, <2>2, <3>1 DEF TypeOK, Document, Run, Worker, Event, Pages
    <2>4. PlacesFit' BY <2>1 DEF Inv, PlacesFit
    <2>5. RowFits' /\ RunFits' /\ EndFits' BY <2>1, <2>2 DEF RowFits, RunFits, EndFits
    <2>6. RetryFits' /\ IndexNeverPartial' /\ WholeUnlessCut'
      BY <1>p, <2>1, <2>2 DEF Inv, RetryFits, IndexNeverPartial, WholeUnlessCut
    <2> QED BY <2>1, <2>3, <2>4, <2>5, <2>6, ThreadFrame DEF Inv
  <1>3. CASE Begin
    <2>1. /\ run.pc = "idle" /\ row.status = "QUEUED" /\ run' = [run EXCEPT !.pc = "validate"]
          /\ UNCHANGED <<scanned, document, row, staged, worker, pipe, attempts, cut>>
      BY <1>3 DEF Begin, Goes
    <2>2. run = [NoRun EXCEPT !.pc = "idle"] /\ worker = NoWorker /\ pipe = <<>>
      BY <2>1 DEF Inv, PlacesFit
    <2>3. /\ run' \in Run /\ run'.pc = "validate" /\ run' = [NoRun EXCEPT !.pc = "validate"]
          /\ run'.failing = FALSE
      BY <1>0, <2>1, <2>2 DEF Run, NoRun
    <2>4. TypeOK' BY <2>1, <2>3 DEF TypeOK, Document, Row, Worker, Event, Pages
    <2>5. PlacesFit' BY <2>1, <2>2, <2>3 DEF PlacesFit
    <2>6. RowFits' BY <2>1, <2>3 DEF RowFits
    <2>7. RunFits' /\ EndFits' BY <2>3 DEF RunFits, EndFits
    <2>8. RetryFits' /\ IndexNeverPartial' /\ WholeUnlessCut'
      BY <1>p, <2>1 DEF Inv, RetryFits, IndexNeverPartial, WholeUnlessCut
    <2> QED BY <2>1, <2>4, <2>5, <2>6, <2>7, <2>8, ThreadFrame DEF Inv
  <1>4. CASE Cancel
    <2>1. /\ row.status \in Working \cup {"QUEUED"}
          /\ row' = [row EXCEPT !.cancel = TRUE,
                       !.status = IF run.pc = "idle" THEN "CANCELLED" ELSE @]
          /\ UNCHANGED <<scanned, document, staged, run, worker, pipe, attempts, cut>>
      BY <1>4 DEF Cancel
    <2>2. /\ row' \in Row /\ row'.failed = row.failed /\ row'.cancel = TRUE
          /\ row'.status = IF run.pc = "idle" THEN "CANCELLED" ELSE row.status
      BY <1>0, <2>1 DEF Row, Statuses
    <2>3. TypeOK' BY <2>1, <2>2 DEF TypeOK, Document, Run, Worker, Event, Pages
    <2>4. PlacesFit' BY <2>1, <2>2 DEF Inv, PlacesFit
    <2>5. Unbegun' = Unbegun BY <2>1, ThreadFrame
    <2>6. RowFits' BY <2>1, <2>2, <2>5 DEF Inv, RowFits, Told
    <2>7. RunFits' BY <1>p, <2>1 DEF Inv, RunFits
    <2>8. EndFits' BY <1>p, <2>1, <2>2 DEF Inv, EndFits
    <2>9. RetryFits' /\ IndexNeverPartial' /\ WholeUnlessCut'
      BY <1>p, <2>1, <2>2 DEF Inv, RetryFits, IndexNeverPartial, WholeUnlessCut
    <2> QED BY <2>1, <2>3, <2>4, <2>6, <2>7, <2>8, <2>9, ThreadFrame DEF Inv
  <1>5. CASE Terminate BY <1>5, DieKeeps DEF Terminate
  <1>6. CASE Restart BY <1>6, InterruptedKeeps DEF Restart
  <1> QED BY <1>1, <1>2, <1>3, <1>4, <1>5, <1>6 DEF Request

-----------------------------------------------------------------------------
(* What follows *)

LEMMA InitHolds == Init => TypeOK /\ Inv
  <1> SUFFICES ASSUME Init PROVE TypeOK /\ Inv
    OBVIOUS
  <1>1. /\ scanned \in BOOLEAN /\ document = [chunks |-> {}, index |-> {}]
        /\ row = NoRow /\ staged = {} /\ run = NoRun /\ worker = NoWorker /\ pipe = <<>>
        /\ attempts = 0 /\ cut = FALSE
    BY DEF Init
  <1>2. /\ row \in Row /\ row.status = "none" /\ row.failed = {}
        /\ run \in Run /\ run.pc = "idle" /\ run.failing = FALSE /\ run = [NoRun EXCEPT !.pc = "idle"]
        /\ worker \in Worker /\ worker.pc = "none" /\ worker.failed = {}
        /\ document \in Document /\ document.index = {}
        /\ DOMAIN pipe = {}
    BY <1>1 DEF Row, Statuses, NoRow, Run, NoRun, Worker, NoWorker, Document
  <1>3. TypeOK
    <2>1. pipe \in Seq(Event) /\ Len(pipe) <= MaxPipe BY <1>1, OcrAssumption
    <2>2. attempts \in 0..MaxAttempts BY <1>1, OcrAssumption
    <2> QED BY <1>1, <1>2, <2>1, <2>2 DEF TypeOK
  <1>4. BlocksHaveText /\ EventsFit /\ WorkerFits /\ DoneFits
    BY <1>1, <1>2 DEF BlocksHaveText, EventsFit, WorkerFits, DoneFits
  <1>5. PlacesFit BY <1>1, <1>2 DEF PlacesFit
  <1>6. RowFits /\ NotAskedIsStaged /\ ReadIsSent
    BY <1>2 DEF RowFits, NotAskedIsStaged, ReadIsSent
  <1>7. RunFits /\ EndFits /\ RetryFits BY <1>2 DEF RunFits, EndFits, RetryFits
  <1>8. IndexNeverPartial /\ WholeUnlessCut BY <1>2 DEF IndexNeverPartial, WholeUnlessCut
  <1> QED BY <1>3, <1>4, <1>5, <1>6, <1>7, <1>8 DEF Inv

LEMMA StepKeeps == TypeOK /\ Inv /\ [Next]_vars => TypeOK' /\ Inv'
  <1> SUFFICES ASSUME TypeOK, Inv, [Next]_vars PROVE TypeOK' /\ Inv'
    OBVIOUS
  <1>1. CASE WorkerStep BY <1>1, WorkerKeeps
  <1>2. CASE RunStep
    <2>1. CASE Consume BY <2>1, ConsumeKeeps
    <2>2. CASE \/ Validate \/ Spawn \/ Parsing \/ Exited \/ Throw \/ Collect
               \/ FinishOutput \/ Indexing \/ ReplaceChunks \/ ReplaceIndex
      BY <2>2, PathKeeps
    <2>3. CASE Stop \/ Clear \/ End \/ HandlerFails BY <2>3, HandlerKeeps
    <2> QED BY <1>2, <2>1, <2>2, <2>3 DEF RunStep
  <1>3. CASE Request BY <1>3, RequestKeeps
  <1>4. CASE UNCHANGED vars
    <2>1. UNCHANGED <<scanned, document, row, staged, run, worker, pipe, attempts, cut>>
      BY <1>4 DEF vars
    <2>2. TypeOK' BY <2>1 DEF TypeOK, Document, Row, Run, Worker, Event, Pages
    <2>3. Unbegun' = Unbegun BY <2>1, ThreadFrame
    <2>4. PlacesFit' /\ RowFits' BY <2>1, <2>3 DEF Inv, PlacesFit, RowFits, Told
    <2> QED BY <2>1, <2>2, <2>4, ThreadFrame, WorkerFrame DEF Inv
  <1> QED BY <1>1, <1>2, <1>3, <1>4 DEF Next

LEMMA Invariant == Spec => [](TypeOK /\ Inv)
  BY InitHolds, StepKeeps, PTL DEF Spec

\* The document, the row, the thread, the worker and its pipe keep their shape.
THEOREM TypeCorrect == Spec => []TypeOK
  BY Invariant, PTL

\* What a retry does not ask the worker for is staged already.
THEOREM RetriesSkipWhatIsStaged == Spec => []SkippedIsStaged
  <1>1. ASSUME Inv PROVE SkippedIsStaged
    BY <1>1 DEF Inv, SkippedIsStaged, NotAskedIsStaged, Parsed
  <1> QED BY <1>1, Invariant, PTL

\* The index of a document holds the whole document or nothing of it, whatever came
\* of the runs before.
THEOREM IndexIsAllOrNothing == Spec => []IndexNeverPartial
  <1>1. Inv => IndexNeverPartial BY DEF Inv
  <1> QED BY <1>1, Invariant, PTL

\* A job completes with the whole document in the index, also when its pages were
\* read by several runs.
THEOREM CompletesWhole == Spec => []WholeUnlessCut
  <1>1. Inv => WholeUnlessCut BY DEF Inv
  <1> QED BY <1>1, Invariant, PTL

-----------------------------------------------------------------------------
(* Induction: a property of numbers is a set of them, and a set has a least element *)

\* A set of numbers that is not empty has a least one.
LEMMA LeastNumber ==
  ASSUME NEW S, S \subseteq Nat, S # {}
  PROVE  Min(S) \in S /\ \A y \in S : Min(S) <= y
<1>1. PICK x \in S : \A y \in S : ~(<<y, x>> \in OpToRel(<, Nat))
  BY NatLessThanWellFounded, WFMin
<1>2. ASSUME NEW y \in S PROVE x <= y
  <2>1. CASE y < x
    <3>1. <<y, x>> \in Nat \X Nat
      OBVIOUS
    <3>2. <<y, x>> \in OpToRel(<, Nat)
      BY <2>1, <3>1 DEF OpToRel
    <3>3. QED BY <1>1, <3>2
  <2>2. CASE ~(y < x)
    BY <2>2
  <2>3. QED BY <2>1, <2>2
<1>3. QED BY <1>2 DEF Min

\* A set of numbers that has 0, and with a number the next one, has all of them.
LEMMA Induction ==
  ASSUME NEW S, 0 \in S, \A n \in Nat : n \in S => n + 1 \in S
  PROVE  Nat \subseteq S
<1> DEFINE T == Nat \ S
<1>1. SUFFICES ASSUME T # {} PROVE FALSE
  OBVIOUS
<1>2. Min(T) \in T /\ \A y \in T : Min(T) <= y
  BY <1>1, LeastNumber
<1>3. Min(T) \in Nat /\ Min(T) # 0
  BY <1>2
<1>4. Min(T) - 1 \in Nat /\ ~(Min(T) <= Min(T) - 1)
  BY <1>3
<1>5. Min(T) - 1 \in S
  BY <1>2, <1>4
<1>6. (Min(T) - 1) + 1 = Min(T)
  BY <1>3
<1>7. QED BY <1>2, <1>4, <1>5, <1>6

\* A bounded set of numbers that is not empty has a greatest one.
LEMMA GreatestNumber ==
  ASSUME NEW S, S \subseteq Nat, S # {}, NEW top \in Nat, \A y \in S : y <= top
  PROVE  Max(S) \in S /\ \A y \in S : y <= Max(S)
<1> DEFINE T == {k \in Nat : \A y \in S : y <= k}
<1>1. T \subseteq Nat /\ T # {}
  OBVIOUS
<1>2. Min(T) \in T /\ \A k \in T : Min(T) <= k
  BY <1>1, LeastNumber
<1> DEFINE m == Min(T)
<1> HIDE DEF m
<1>3. m \in Nat /\ (\A y \in S : y <= m) /\ (\A k \in T : m <= k)
  BY <1>2 DEF m
<1>4. m \in S
  <2>1. SUFFICES ASSUME m \notin S PROVE FALSE
    OBVIOUS
  <2>2. \A y \in S : y < m
    BY <1>3, <2>1
  <2>3. m # 0 /\ m - 1 \in Nat
    <3>1. PICK y \in S : TRUE
      OBVIOUS
    <3>2. y \in Nat /\ y < m
      BY <2>2
    <3>3. QED BY <1>3, <3>2
  <2>4. \A y \in S : y <= m - 1
    BY <2>2, <2>3, <1>3
  <2>5. m <= m - 1
    BY <2>3, <2>4, <1>3
  <2>6. QED BY <2>5, <1>3
<1>5. \A y \in S : m >= y
  BY <1>3
<1>6. \E x \in S : \A y \in S : x >= y
  BY <1>4, <1>5
<1>7. Max(S) \in S /\ \A y \in S : Max(S) >= y
  BY <1>6 DEF Max
<1>8. QED BY <1>7

\* g has the base at 0 and takes a step to each next number.
Recursive(g, n, base, step) ==
  g[0] = base /\ \A i \in 1..n : g[i] = step[<<i, g[i - 1]>>]

\* h has the base for no numbers and takes a step to a set from what is before its greatest.
Folding(h, n, base, step) ==
  \A s \in SUBSET (1..n) :
    h[s] = IF s = {} THEN base ELSE step[<<h[s \ {Max(s)}], Max(s)>>]

\* What is defined by the value before, from a first value, is a function.
LEMMA RecursionExists ==
  ASSUME NEW n \in Nat, NEW S, NEW base \in S, NEW step \in [(1..n) \X S -> S]
  PROVE  \E g \in [0..n -> S] : Recursive(g, n, base, step)
<1> DEFINE Upto(k, g) == g[0] = base /\ \A i \in 1..k : g[i] = step[<<i, g[i - 1]>>]
           T == {k \in Nat : k <= n => \E g \in [0..k -> S] : Upto(k, g)}
<1>1. 0 \in T
  <2>1. [i \in 0..0 |-> base] \in [0..0 -> S] /\ Upto(0, [i \in 0..0 |-> base])
    OBVIOUS
  <2>2. QED BY <2>1
<1>2. ASSUME NEW k \in Nat, k \in T PROVE k + 1 \in T
  <2>1. SUFFICES ASSUME k + 1 <= n PROVE \E g \in [0..(k + 1) -> S] : Upto(k + 1, g)
    OBVIOUS
  <2>2. PICK g \in [0..k -> S] : Upto(k, g)
    BY <1>2, <2>1
  <2> DEFINE h == [i \in 0..(k + 1) |-> IF i = k + 1 THEN step[<<i, g[k]>>] ELSE g[i]]
  <2>3. g[k] \in S /\ k + 1 \in 1..n
    BY <2>1
  <2>4. step[<<k + 1, g[k]>>] \in S
    BY <2>3
  <2>5. h \in [0..(k + 1) -> S]
    BY <2>4
  <2>6. ASSUME NEW i \in 1..(k + 1) PROVE h[i] = step[<<i, h[i - 1]>>]
    <3>1. CASE i = k + 1
      BY <3>1
    <3>2. CASE i # k + 1
      <4>1. i \in 1..k /\ i - 1 \in 0..k /\ i - 1 # k + 1 /\ i - 1 \in 0..(k + 1)
        BY <3>2
      <4>2. h[i] = g[i] /\ h[i - 1] = g[i - 1]
        BY <4>1, <3>2
      <4>3. QED BY <4>1, <4>2, <2>2
    <3>3. QED BY <3>1, <3>2
  <2>7. h[0] = base
    BY <2>2
  <2>8. QED BY <2>5, <2>6, <2>7
<1>3. n \in T
  BY <1>1, <1>2, Induction
<1>4. QED BY <1>3 DEF Recursive

\* The last of the first numbers, and what is before it.
LEMMA LastOfFirst ==
  ASSUME NEW n \in Nat, n # 0
  PROVE  Max(1..n) = n /\ (1..n) \ {n} = 1..(n - 1) /\ 1..n # {}
<1>1. n \in 1..n /\ (\A y \in 1..n : y <= n) /\ 1..n \subseteq Nat /\ 1..n # {}
  OBVIOUS
<1>2. Max(1..n) \in 1..n /\ \A y \in 1..n : y <= Max(1..n)
  BY <1>1, GreatestNumber
<1>3. Max(1..n) = n
  BY <1>1, <1>2
<1>4. (1..n) \ {n} = 1..(n - 1)
  OBVIOUS
<1>5. QED BY <1>1, <1>3, <1>4

\* What MapThenFoldSet defines by the set without its greatest number is a function.
LEMMA FoldExists ==
  ASSUME NEW n \in Nat, NEW S, NEW base \in S, NEW step \in [S \X (1..n) -> S]
  PROVE  \E h \in [SUBSET (1..n) -> S] : Folding(h, n, base, step)
<1> DEFINE Upto(k, h) ==
             \A s \in SUBSET (1..k) :
               h[s] = IF s = {} THEN base ELSE step[<<h[s \ {Max(s)}], Max(s)>>]
           Good(k) == \E h \in [SUBSET (1..k) -> S] : Upto(k, h)
           T == {k \in Nat : k <= n => Good(k)}
<1>1. 0 \in T
  <2> DEFINE h == [s \in SUBSET (1..0) |-> base]
  <2>1. h \in [SUBSET (1..0) -> S] /\ \A s \in SUBSET (1..0) : s = {} /\ h[s] = base
    OBVIOUS
  <2>2. Upto(0, h)
    BY <2>1
  <2>3. QED BY <2>1, <2>2
<1>2. ASSUME NEW k \in Nat, k \in T PROVE k + 1 \in T
  <2>1. SUFFICES ASSUME k + 1 <= n PROVE Good(k + 1)
    <3> HIDE DEF Good
    <3>1. QED OBVIOUS
  <2>2. PICK g \in [SUBSET (1..k) -> S] : Upto(k, g)
    <3>1. Good(k)
      <4> HIDE DEF Good
      <4>1. k <= n
        BY <2>1
      <4>2. QED BY <1>2, <4>1
    <3>2. QED BY <3>1
  <2> DEFINE h == [s \in SUBSET (1..(k + 1)) |->
                     IF k + 1 \in s THEN step[<<g[s \ {k + 1}], k + 1>>] ELSE g[s]]
  <2>3. ASSUME NEW s \in SUBSET (1..(k + 1)), k + 1 \in s
        PROVE  s \ {k + 1} \in SUBSET (1..k) /\ Max(s) = k + 1 /\ s # {}
    <3>1. s \subseteq Nat /\ (\A y \in s : y <= k + 1) /\ s # {} /\ k + 1 \in Nat
      BY <2>3
    <3>2. Max(s) \in s /\ \A y \in s : y <= Max(s)
      BY <3>1, GreatestNumber
    <3>3. Max(s) = k + 1
      <4>1. Max(s) \in Nat /\ Max(s) <= k + 1
        BY <3>1, <3>2
      <4>2. k + 1 <= Max(s)
        BY <3>2, <2>3
      <4>3. QED BY <4>1, <4>2
    <3>4. \A y \in s \ {k + 1} : y \in 1..k
      OBVIOUS
    <3>5. QED BY <3>1, <3>3, <3>4
  <2>4. ASSUME NEW s \in SUBSET (1..(k + 1)), k + 1 \notin s
        PROVE  s \in SUBSET (1..k)
    <3>1. \A y \in s : y \in 1..(k + 1) /\ y # k + 1
      BY <2>4
    <3>2. \A y \in s : y \in 1..k
      BY <3>1
    <3>3. QED BY <3>2
  <2>5. k + 1 \in 1..n
    BY <2>1
  <2>6. ASSUME NEW s \in SUBSET (1..(k + 1)) PROVE h[s] \in S
    <3>1. CASE k + 1 \in s
      <4>1. g[s \ {k + 1}] \in S
        BY <2>3, <3>1
      <4>2. QED BY <4>1, <3>1, <2>5
    <3>2. CASE k + 1 \notin s
      BY <3>2, <2>4
    <3>3. QED BY <3>1, <3>2
  <2>7. h \in [SUBSET (1..(k + 1)) -> S]
    BY <2>6
  <2>8. ASSUME NEW s \in SUBSET (1..k)
        PROVE  h[s] = g[s] /\ s \in SUBSET (1..(k + 1))
    <3>1. s \in SUBSET (1..(k + 1)) /\ k + 1 \notin s
      OBVIOUS
    <3>2. QED BY <3>1
  <2>9. ASSUME NEW s \in SUBSET (1..(k + 1))
        PROVE  h[s] = IF s = {} THEN base ELSE step[<<h[s \ {Max(s)}], Max(s)>>]
    <3>1. CASE k + 1 \in s
      <4>1. h[s] = step[<<g[s \ {k + 1}], k + 1>>]
        BY <3>1
      <4>2. h[s \ {k + 1}] = g[s \ {k + 1}]
        BY <2>3, <2>8, <3>1
      <4>3. Max(s) = k + 1 /\ s # {}
        BY <2>3, <3>1
      <4> HIDE DEF h
      <4>4. QED BY <4>1, <4>2, <4>3
    <3>2. CASE k + 1 \notin s
      <4>1. s \in SUBSET (1..k)
        BY <3>2, <2>4
      <4>2. h[s] = g[s] /\ h[s \ {Max(s)}] = g[s \ {Max(s)}]
        <5>1. s \ {Max(s)} \in SUBSET (1..k)
          BY <4>1
        <5> HIDE DEF h
        <5>2. QED BY <4>1, <5>1, <2>8
      <4>3. g[s] = IF s = {} THEN base ELSE step[<<g[s \ {Max(s)}], Max(s)>>]
        BY <4>1, <2>2
      <4> HIDE DEF h
      <4>4. QED BY <4>2, <4>3
    <3>3. QED BY <3>1, <3>2
  <2> HIDE DEF h
  <2>10. QED BY <2>7, <2>9
<1>3. n \in T
  <2> HIDE DEF T
  <2>1. QED BY <1>1, <1>2, Induction
<1>4. Good(n)
  <2> HIDE DEF Good
  <2>1. QED BY <1>3
<1>5. QED BY <1>4 DEF Folding

\* The sum of a sequence, number by number.
LEMMA SumUnfolds ==
  ASSUME NEW t \in Seq(Nat)
  PROVE  \E r \in [0..Len(t) -> Nat] :
           /\ r[0] = 0 /\ \A i \in 1..Len(t) : r[i] = r[i - 1] + t[i]
           /\ FoldLeft(+, 0, t) = r[Len(t)]
<1> DEFINE n == Len(t)
           step == [p \in Nat \X (1..n) |-> p[1] + t[p[2]]]
           Is(h) == h = [s \in SUBSET DOMAIN t |->
                           IF s = {} THEN 0 ELSE h[s \ {Max(s)}] + t[Max(s)]]
           f == CHOOSE h : Is(h)
<1>1. n \in Nat /\ DOMAIN t = 1..n /\ \A i \in 1..n : t[i] \in Nat
  OBVIOUS
<1>2. step \in [Nat \X (1..n) -> Nat]
  BY <1>1
<1> HIDE DEF n
<1>3. PICK h \in [SUBSET (1..n) -> Nat] : Folding(h, n, 0, step)
  <2> HIDE DEF step
  <2>1. 0 \in Nat
    OBVIOUS
  <2>2. QED BY <1>1, <1>2, <2>1, FoldExists
<1>4. ASSUME NEW s \in SUBSET (1..n)
      PROVE  h[s] = IF s = {} THEN 0 ELSE h[s \ {Max(s)}] + t[Max(s)]
  <2>1. CASE s # {}
    <3>1. s \subseteq Nat /\ \A y \in s : y <= n
      OBVIOUS
    <3>2. Max(s) \in s
      BY <1>1, <2>1, <3>1, GreatestNumber
    <3>3. QED BY <1>3, <2>1, <3>2 DEF Folding
  <2>2. QED BY <1>3, <2>1 DEF Folding
<1>5. Is(h)
  BY <1>1, <1>4
<1>6. Is(f)
  <2> HIDE DEF Is
  <2>1. QED BY <1>5
<1>7. \A s \in SUBSET (1..n) : f[s] = IF s = {} THEN 0 ELSE f[s \ {Max(s)}] + t[Max(s)]
  <2> HIDE DEF f
  <2>1. QED BY <1>6, <1>1
<1>8. FoldLeft(+, 0, t) = f[1..n]
  BY <1>1 DEF FoldLeft, MapThenFoldSet
<1> HIDE DEF f
<1>9. f[1..0] = 0
  <2>1. 1..0 = {} /\ {} \in SUBSET (1..n)
    OBVIOUS
  <2>2. f[{}] = 0
    BY <2>1, <1>7
  <2>3. QED BY <2>1, <2>2
<1>10. ASSUME NEW i \in 1..n PROVE f[1..i] = f[1..(i - 1)] + t[i]
  <2>1. i \in Nat /\ i # 0 /\ 1..i \in SUBSET (1..n)
    BY <1>1
  <2>2. Max(1..i) = i /\ (1..i) \ {i} = 1..(i - 1) /\ 1..i # {}
    BY <2>1, LastOfFirst
  <2>3. QED BY <1>7, <2>1, <2>2
<1> DEFINE T == {i \in Nat : i <= n => f[1..i] \in Nat}
<1>11. 0 \in T
  BY <1>9
<1>12. ASSUME NEW i \in Nat, i \in T PROVE i + 1 \in T
  <2>1. SUFFICES ASSUME i + 1 <= n PROVE f[1..(i + 1)] \in Nat
    OBVIOUS
  <2>2. i + 1 \in 1..n /\ (i + 1) - 1 = i /\ i <= n
    BY <1>1, <2>1
  <2>3. f[1..(i + 1)] = f[1..i] + t[i + 1]
    BY <1>10, <2>2
  <2>4. f[1..i] \in Nat
    BY <1>12, <2>2
  <2>5. QED BY <1>1, <2>2, <2>3, <2>4
<1>13. Nat \subseteq T
  <2> HIDE DEF T
  <2>1. QED BY <1>11, <1>12, Induction
<1> DEFINE r == [i \in 0..n |-> f[1..i]]
<1>14. r \in [0..n -> Nat]
  BY <1>1, <1>13
<1>15. r[0] = 0 /\ r[n] = f[1..n]
  BY <1>1, <1>9
<1>16. ASSUME NEW i \in 1..n PROVE r[i] = r[i - 1] + t[i]
  <2>1. i \in 0..n /\ i - 1 \in 0..n
    BY <1>1
  <2>2. QED BY <2>1, <1>10
<1> HIDE DEF r
<1>17. QED BY <1>8, <1>14, <1>15, <1>16 DEF n

\* One more number is added to the sum of those before it ...
LEMMA SumAppend ==
  ASSUME NEW t \in Seq(Nat), NEW x \in Nat
  PROVE  /\ FoldLeft(+, 0, t) \in Nat
         /\ FoldLeft(+, 0, Append(t, x)) = FoldLeft(+, 0, t) + x
<1> DEFINE u == Append(t, x)
           n == Len(t)
<1>1. u \in Seq(Nat) /\ Len(u) = n + 1 /\ u[n + 1] = x /\ n \in Nat
  OBVIOUS
<1>2. \A i \in 1..n : u[i] = t[i]
  OBVIOUS
<1>3. PICK r \in [0..n -> Nat] :
        /\ r[0] = 0 /\ \A i \in 1..n : r[i] = r[i - 1] + t[i]
        /\ FoldLeft(+, 0, t) = r[n]
  BY SumUnfolds
<1> HIDE DEF u
<1>4. PICK q \in [0..(n + 1) -> Nat] :
        /\ q[0] = 0 /\ \A i \in 1..(n + 1) : q[i] = q[i - 1] + u[i]
        /\ FoldLeft(+, 0, u) = q[n + 1]
  <2>1. PICK q \in [0..Len(u) -> Nat] :
          /\ q[0] = 0 /\ \A i \in 1..Len(u) : q[i] = q[i - 1] + u[i]
          /\ FoldLeft(+, 0, u) = q[Len(u)]
    BY <1>1, SumUnfolds
  <2>2. QED BY <1>1, <2>1
<1> DEFINE T == {i \in Nat : i <= n => q[i] = r[i]}
<1>5. 0 \in T
  BY <1>3, <1>4
<1>6. ASSUME NEW i \in Nat, i \in T PROVE i + 1 \in T
  <2>1. SUFFICES ASSUME i + 1 <= n PROVE q[i + 1] = r[i + 1]
    OBVIOUS
  <2>2. i + 1 \in 1..n /\ i + 1 \in 1..(n + 1) /\ (i + 1) - 1 = i /\ i <= n
    BY <1>1, <2>1
  <2>3. r[i + 1] = r[i] + t[i + 1] /\ q[i + 1] = q[i] + u[i + 1]
    BY <1>3, <1>4, <2>2
  <2>4. q[i] = r[i] /\ u[i + 1] = t[i + 1]
    BY <1>2, <1>6, <2>2
  <2>5. QED BY <2>3, <2>4
<1>7. Nat \subseteq T
  <2> HIDE DEF T
  <2>1. QED BY <1>5, <1>6, Induction
<1>8. q[n] = r[n]
  <2>1. n \in T /\ n <= n
    BY <1>1, <1>7
  <2>2. QED BY <2>1
<1>9. q[n + 1] = q[n] + x
  <2>1. n + 1 \in 1..(n + 1) /\ (n + 1) - 1 = n
    BY <1>1
  <2>2. QED BY <1>1, <1>4, <2>1
<1>10. r[n] \in Nat
  <2>1. n \in 0..n
    BY <1>1
  <2>2. QED BY <1>3, <2>1
<1>11. QED BY <1>3, <1>4, <1>8, <1>9, <1>10 DEF u

\* ... and there is nothing to add at first.
LEMMA SumEmpty == FoldLeft(+, 0, <<>>) = 0
<1>1. <<>> \in Seq(Nat) /\ Len(<<>>) = 0
  OBVIOUS
<1>2. QED BY <1>1, SumUnfolds

\* The lesser of two numbers ...
LEMMA LesserOfTwo ==
  ASSUME NEW a \in Nat, NEW b \in Nat
  PROVE  Min({a, b}) = IF a <= b THEN a ELSE b
<1>1. {a, b} \subseteq Nat /\ {a, b} # {}
  OBVIOUS
<1>2. Min({a, b}) \in {a, b} /\ \A y \in {a, b} : Min({a, b}) <= y
  BY <1>1, LeastNumber
<1>3. QED BY <1>2

\* ... and the greater one.
LEMMA GreaterOfTwo ==
  ASSUME NEW a \in Nat, NEW b \in Nat
  PROVE  Max({a, b}) = IF a <= b THEN b ELSE a
<1>1. {a, b} \subseteq Nat /\ {a, b} # {} /\ a + b \in Nat /\ \A y \in {a, b} : y <= a + b
  OBVIOUS
<1>2. Max({a, b}) \in {a, b} /\ \A y \in {a, b} : y <= Max({a, b})
  BY <1>1, GreatestNumber
<1>3. QED BY <1>2

-----------------------------------------------------------------------------
(* The prompt stays in its limit *)

\* The lengths of a hit: its prefix has text.
HitSizes == [prefix : Nat \ {0}, text : Nat \ {0}]

\* The lengths of texts, and with the separators.
Sum(texts)   == FoldLeft(+, 0, texts)
Total(texts) == Sum(texts) + 2 * Len(texts)

\* One more text of the prompt.
LEMMA SumGrows ==
  ASSUME NEW t \in Seq(Nat), NEW x \in Nat
  PROVE  Sum(t) \in Nat /\ Sum(Append(t, x)) = Sum(t) + x /\ Sum(<<>>) = 0
BY SumAppend, SumEmpty DEF Sum

\* What is rendered of the first i hits is in the limit, and stopped where there was no room.
Rendered(s, items, i) ==
  /\ s.done \in BOOLEAN /\ s.texts \in Seq(Nat) /\ s.remaining \in Nat
  /\ Len(s.texts) <= i
  /\ s.texts = <<>> => s.remaining = PromptLimit
  /\ s.texts # <<>> => s.remaining + Total(s.texts) = PromptLimit + 2
  /\ \A k \in 1..Len(s.texts) : s.texts[k] > items[k].prefix
  /\ ~s.done => Len(s.texts) = i
  /\ s.done => /\ Len(s.texts) < i
               /\ Available(s.remaining, s.texts, items[Len(s.texts) + 1]) = 0

\* The step of the recursive function of Render.
RenderStep(s, item) ==
  LET room == Available(s.remaining, s.texts, item)
      size == item.prefix + Min({room, item.text})
  IN IF s.done \/ room = 0 THEN [s EXCEPT !.done = TRUE]
     ELSE [s EXCEPT !.texts = Append(@, size),
                    !.remaining = @ - Separator(s.texts) - size]

\* What it keeps.
Shelf == [done : BOOLEAN, texts : Seq(Nat), remaining : Nat]

\* One more element of a sequence.
LEMMA OneMore ==
  ASSUME NEW S, NEW t \in Seq(S), NEW x \in S
  PROVE  /\ Append(t, x) \in Seq(S) /\ Len(Append(t, x)) = Len(t) + 1 /\ Append(t, x) # <<>>
         /\ \A k \in 1..Len(t) : Append(t, x)[k] = t[k]
         /\ Append(t, x)[Len(t) + 1] = x
BY AppendProperties

\* A step of render_untrusted_context keeps the shape of what is rendered ...
LEMMA RenderStepIsTyped ==
  ASSUME NEW item \in HitSizes, NEW s \in Shelf
  PROVE  RenderStep(s, item) \in Shelf
<1> DEFINE room == Available(s.remaining, s.texts, item)
           size == item.prefix + Min({room, item.text})
<1>1. /\ item.prefix \in Nat \ {0} /\ item.text \in Nat \ {0}
      /\ s.texts \in Seq(Nat) /\ s.remaining \in Nat
  BY DEF HitSizes, Shelf
<1>2. Separator(s.texts) \in Nat
  BY DEF Separator
<1>3. /\ room \in Nat
      /\ room # 0 => s.remaining = room + Separator(s.texts) + item.prefix
  BY <1>1, <1>2 DEF Available
<1> HIDE DEF room
<1>4. size \in Nat /\ size <= item.prefix + room
  BY <1>1, <1>3, LesserOfTwo
<1> HIDE DEF size
<1>5. CASE s.done \/ room = 0
  BY <1>5 DEF RenderStep, Shelf, room
<1>6. CASE ~(s.done \/ room = 0)
  <2>1. Append(s.texts, size) \in Seq(Nat) /\ s.remaining - Separator(s.texts) - size \in Nat
    <3>1. s.remaining = room + Separator(s.texts) + item.prefix
      BY <1>3, <1>6
    <3>2. s.remaining - Separator(s.texts) - size \in Nat
      BY <1>1, <1>2, <1>3, <1>4, <3>1
    <3>3. QED BY <1>1, <1>4, <3>2
  <2>2. QED BY <1>6, <2>1 DEF RenderStep, Shelf, room, size
<1>7. QED BY <1>5, <1>6

\* ... and stays in the limit, stopping only where there is no room.
LEMMA RenderStepFits ==
  ASSUME NEW items \in Seq(HitSizes), NEW i \in 1..Len(items), NEW s \in Shelf,
         Rendered(s, items, i - 1)
  PROVE  RenderStep(s, items[i]) \in Shelf /\ Rendered(RenderStep(s, items[i]), items, i)
<1> DEFINE item == items[i]
           room == Available(s.remaining, s.texts, item)
           size == item.prefix + Min({room, item.text})
           new  == RenderStep(s, item)
<1>1. /\ item.prefix \in Nat \ {0} /\ item.text \in Nat \ {0}
      /\ s.done \in BOOLEAN /\ s.texts \in Seq(Nat) /\ s.remaining \in Nat
      /\ i \in Nat /\ i # 0 /\ Len(items) \in Nat /\ PromptLimit \in Nat
  <2>1. items[i] \in HitSizes
    BY ElementOfSeq
  <2>2. QED BY <2>1, TextAssumption DEF HitSizes, Shelf
<1>2. Separator(s.texts) = IF s.texts = <<>> THEN 0 ELSE 2
  BY DEF Separator
<1>3. room \in Nat
  BY <1>1, <1>2 DEF Available
<1>4. Len(s.texts) \in Nat /\ (s.texts = <<>> <=> Len(s.texts) = 0)
  BY <1>1
<1> HIDE DEF item, room
<1>5. CASE s.done \/ room = 0
  <2>1. new = [s EXCEPT !.done = TRUE]
    BY <1>5 DEF RenderStep, room
  <2>2. new \in Shelf /\ new.done = TRUE /\ new.texts = s.texts /\ new.remaining = s.remaining
    BY <2>1 DEF Shelf
  <2>3. Len(s.texts) < i /\ Available(s.remaining, s.texts, items[Len(s.texts) + 1]) = 0
    <3>1. CASE s.done
      BY <3>1, <1>1, <1>4 DEF Rendered
    <3>2. CASE ~s.done
      <4>1. room = 0 /\ Len(s.texts) = i - 1
        BY <3>2, <1>5 DEF Rendered
      <4>2. Len(s.texts) < i /\ Len(s.texts) + 1 = i
        BY <4>1, <1>1
      <4>3. QED BY <4>1, <4>2 DEF room, item
    <3>3. QED BY <3>1, <3>2
  <2> HIDE DEF new
  <2>4. Rendered(new, items, i)
    <3>1. /\ Len(s.texts) <= i
          /\ s.texts = <<>> => s.remaining = PromptLimit
          /\ s.texts # <<>> => s.remaining + Total(s.texts) = PromptLimit + 2
          /\ \A k \in 1..Len(s.texts) : s.texts[k] > items[k].prefix
      BY <2>3, <1>1, <1>4 DEF Rendered
    <3>2. QED BY <2>2, <2>3, <3>1, <1>1 DEF Rendered
  <2>5. QED BY <2>2, <2>4 DEF new, item
<1>6. CASE ~s.done /\ room # 0
  <2>1. Min({room, item.text}) = IF room <= item.text THEN room ELSE item.text
    BY <1>1, <1>3, LesserOfTwo
  <2>2. /\ size \in Nat /\ size > item.prefix /\ size <= item.prefix + room
    <3> DEFINE least == Min({room, item.text})
    <3>1. least \in Nat /\ least # 0 /\ least <= room
      BY <1>1, <1>3, <2>1, <1>6
    <3>2. size = item.prefix + least /\ item.prefix \in Nat
      BY <1>1
    <3> HIDE DEF least, size, room
    <3>3. QED BY <1>3, <3>1, <3>2
  <2>3. room + Separator(s.texts) + item.prefix = s.remaining
    BY <1>1, <1>2, <1>3, <1>6 DEF Available, room
  <2>4. new = [s EXCEPT !.texts = Append(@, size),
                        !.remaining = @ - Separator(s.texts) - size]
    BY <1>6 DEF RenderStep, room
  <2> HIDE DEF size, new
  <2>5. /\ new.done = s.done /\ new.texts = Append(s.texts, size)
        /\ new.remaining = s.remaining - Separator(s.texts) - size
    BY <2>4 DEF Shelf
  <2>6. Append(s.texts, size) \in Seq(Nat) /\ new.remaining \in Nat
    <3>1. Append(s.texts, size) \in Seq(Nat)
      BY <1>1, <2>2
    <3>2. Separator(s.texts) \in Nat
      BY <1>2
    <3>3. s.remaining - Separator(s.texts) - size \in Nat
      BY <1>1, <3>2, <1>3, <2>2, <2>3
    <3>4. QED BY <2>5, <3>1, <3>3
  <2>7. new \in Shelf
    BY <2>4, <2>5, <2>6, <1>1 DEF Shelf
  <2>8. /\ Len(new.texts) = Len(s.texts) + 1 /\ new.texts # <<>>
        /\ \A k \in 1..Len(s.texts) : new.texts[k] = s.texts[k]
        /\ new.texts[Len(s.texts) + 1] = size
    <3> DEFINE texts  == s.texts
               longer == Append(texts, size)
    <3>1. texts \in Seq(Nat) /\ size \in Nat
      BY <1>1, <2>2
    <3>2. new.texts = longer
      BY <2>5
    <3> HIDE DEF texts, size, new
    <3>3. /\ Len(longer) = Len(texts) + 1 /\ longer # <<>>
          /\ \A k \in 1..Len(texts) : longer[k] = texts[k]
          /\ longer[Len(texts) + 1] = size
      BY <3>1, OneMore
    <3> HIDE DEF longer
    <3>4. QED BY <3>2, <3>3 DEF texts
  <2>9. Len(s.texts) = i - 1 /\ Len(new.texts) = i
    BY <1>6, <1>1, <2>8 DEF Rendered
  <2>10. new.remaining + Total(new.texts) = PromptLimit + 2
    <3>1. /\ Sum(s.texts) \in Nat
          /\ Sum(new.texts) = Sum(s.texts) + size
      BY <1>1, <2>2, <2>5, SumGrows
    <3>2. CASE s.texts = <<>>
      <4>1. Sum(s.texts) = 0 /\ Len(s.texts) = 0
        BY <3>2, <1>1, <1>4, SumGrows
      <4>2. s.remaining = PromptLimit /\ Separator(s.texts) = 0
        BY <3>2, <1>2 DEF Rendered
      <4>3. Total(new.texts) = size + 2
        BY <3>1, <4>1, <2>8, <2>2, <2>9, <1>1 DEF Total
      <4>4. QED BY <4>2, <4>3, <2>5, <2>2, <1>1
    <3>3. CASE s.texts # <<>>
      <4>1. s.remaining + Total(s.texts) = PromptLimit + 2 /\ Separator(s.texts) = 2
        BY <3>3, <1>2 DEF Rendered
      <4>2. Total(new.texts) = Total(s.texts) + size + 2 /\ Total(s.texts) \in Nat
        <5>1. Len(new.texts) = Len(s.texts) + 1
          BY <2>8
        <5>2. QED BY <3>1, <5>1, <2>2, <1>4 DEF Total
      <4>3. QED BY <4>1, <4>2, <2>5, <2>2, <1>1
    <3>4. QED BY <3>2, <3>3
  <2>11. ASSUME NEW k \in 1..Len(new.texts) PROVE new.texts[k] > items[k].prefix
    <3>1. CASE k = i
      BY <3>1, <2>2, <2>8, <2>9, <1>1 DEF item
    <3>2. CASE k # i
      <4>1. k \in 1..Len(s.texts)
        BY <3>2, <2>8, <2>9, <1>4
      <4>2. s.texts[k] > items[k].prefix
        BY <4>1 DEF Rendered
      <4>3. QED BY <4>1, <4>2, <2>8
    <3>3. QED BY <3>1, <3>2
  <2>12. Rendered(new, items, i)
    BY <1>1, <1>6, <2>5, <2>6, <2>8, <2>9, <2>10, <2>11 DEF Rendered
  <2>13. QED BY <2>7, <2>12 DEF new, item
<1>7. QED BY <1>3, <1>5, <1>6

\* So is the whole of it: the recursive function of Render is unfolded item by item.
LEMMA RenderIsBounded ==
  ASSUME NEW items \in Seq(HitSizes)
  PROVE  LET m == Min({MaxItems, Len(items)})
         IN /\ m \in Nat /\ m <= MaxItems /\ m <= Len(items)
            /\ \E s \in Shelf : Render(items) = s.texts /\ Rendered(s, items, m)
<1> DEFINE m == Min({MaxItems, Len(items)})
           bounded == SubSeq(items, 1, m)
           empty == [done |-> FALSE, texts |-> <<>>, remaining |-> PromptLimit]
           step == [p \in (1..m) \X Shelf |-> RenderStep(p[2], items[p[1]])]
           Is(g) == g = [i \in 0..Len(bounded) |->
                           IF i = 0 THEN empty ELSE RenderStep(g[i - 1], bounded[i])]
           f == CHOOSE g : Is(g)
<1>1. m \in Nat /\ m <= MaxItems /\ m <= Len(items)
  <2>1. MaxItems \in Nat /\ Len(items) \in Nat
    BY TextAssumption
  <2>2. QED BY <2>1, LesserOfTwo
<1> HIDE DEF m
<1>2. Len(bounded) = m /\ \A i \in 1..m : bounded[i] = items[i]
  <2>1. \A i \in 1..m : items[i] \in HitSizes
    BY <1>1, ElementOfSeq
  <2>2. 1 \in Int /\ m \in Int
    BY <1>1
  <2>3. /\ Len(bounded) = IF 1 <= m THEN m - 1 + 1 ELSE 0
        /\ \A i \in 1..(m - 1 + 1) : bounded[i] = items[1 + i - 1]
    BY <2>1, <2>2, SubSeqProperties
  <2>4. \A i \in 1..m : i \in 1..(m - 1 + 1) /\ 1 + i - 1 = i
    BY <1>1
  <2> HIDE DEF bounded
  <2>5. QED BY <1>1, <2>3, <2>4
<1> HIDE DEF bounded
<1>3. empty \in Shelf /\ Rendered(empty, items, 0)
  BY TextAssumption DEF Shelf, Rendered
<1>4. ASSUME NEW i \in 1..m, NEW s \in Shelf, Rendered(s, items, i - 1)
      PROVE  RenderStep(s, items[i]) \in Shelf /\ Rendered(RenderStep(s, items[i]), items, i)
  <2>1. i \in 1..Len(items)
    BY <1>1
  <2>2. QED BY <1>4, <2>1, RenderStepFits
<1>5. step \in [(1..m) \X Shelf -> Shelf]
  <2>1. \A p \in (1..m) \X Shelf : items[p[1]] \in HitSizes /\ p[2] \in Shelf
    <3>1. \A i \in 1..m : items[i] \in HitSizes
      BY <1>1, ElementOfSeq
    <3>2. QED BY <3>1
  <2>2. QED BY <2>1, RenderStepIsTyped
<1> HIDE DEF empty
<1>6. PICK g \in [0..m -> Shelf] : Recursive(g, m, empty, step)
  <2> HIDE DEF step
  <2>1. QED BY <1>1, <1>3, <1>5, RecursionExists
<1>7. Is(g)
  <2>1. ASSUME NEW i \in 1..m PROVE g[i] = RenderStep(g[i - 1], bounded[i])
    <3>1. i - 1 \in 0..m
      BY <1>1
    <3>2. QED BY <1>6, <1>2, <3>1 DEF Recursive
  <2>2. g[0] = empty /\ \A i \in 0..m : i # 0 => i \in 1..m
    BY <1>1, <1>6 DEF Recursive
  <2>3. QED BY <1>2, <2>1, <2>2
<1>8. Is(f)
  <2> HIDE DEF Is
  <2>1. QED BY <1>7
<1>9. Render(items) = f[m].texts
  BY <1>2 DEF Render, RenderStep, bounded, m, empty
<1> HIDE DEF f
<1>10. \A i \in 0..m : f[i] = IF i = 0 THEN empty ELSE RenderStep(f[i - 1], bounded[i])
  BY <1>2, <1>8
<1> DEFINE T == {i \in Nat : i <= m => f[i] \in Shelf /\ Rendered(f[i], items, i)}
<1>11. 0 \in T
  BY <1>3, <1>10, <1>1
<1>12. ASSUME NEW i \in Nat, i \in T PROVE i + 1 \in T
  <2>1. SUFFICES ASSUME i + 1 <= m
                 PROVE  f[i + 1] \in Shelf /\ Rendered(f[i + 1], items, i + 1)
    OBVIOUS
  <2>2. i + 1 \in 1..m /\ i + 1 \in 0..m /\ (i + 1) - 1 = i /\ i + 1 # 0 /\ i <= m
    BY <1>1, <2>1
  <2>3. f[i] \in Shelf /\ Rendered(f[i], items, (i + 1) - 1)
    BY <1>12, <2>2
  <2>4. f[i + 1] = RenderStep(f[i], items[i + 1])
    BY <1>2, <1>10, <2>2
  <2>5. QED BY <1>4, <2>2, <2>3, <2>4
<1>13. Nat \subseteq T
  <2> HIDE DEF T
  <2>1. QED BY <1>11, <1>12, Induction
<1>14. f[m] \in Shelf /\ Rendered(f[m], items, m)
  BY <1>1, <1>13
<1>15. QED BY <1>1, <1>9, <1>14 DEF m

\* The prompt stays in its limit, quotes the first hits with some text of each and stops only
\* before one that has no room (PromptFits: render_untrusted_context), for hits of every
\* number and size.
THEOREM PromptIsBounded ==
  ASSUME input \in [kind : {"hits"}, of : Seq(HitSizes)]
  PROVE  PromptFits
<1> DEFINE items == input.of
           m == Min({MaxItems, Len(items)})
<1>1. items \in Seq(HitSizes)
  OBVIOUS
<1>2. PICK s \in Shelf : Render(items) = s.texts /\ Rendered(s, items, m)
  BY <1>1, RenderIsBounded
<1>3. m \in Nat /\ m <= MaxItems /\ m <= Len(items) /\ Len(items) \in Nat /\ MaxItems \in Nat
  <2>1. m \in Nat /\ m <= MaxItems /\ m <= Len(items)
    BY <1>1, RenderIsBounded
  <2>2. QED BY <1>1, <2>1, TextAssumption
<1> HIDE DEF items, m
<1> DEFINE texts == s.texts
<1>4. texts \in Seq(Nat) /\ s.remaining \in Nat /\ PromptLimit \in Nat /\ Sum(texts) \in Nat
  BY TextAssumption, SumGrows DEF Shelf
<1>5. SUFFICES ASSUME texts # <<>>
               PROVE  /\ Total(texts) - 2 <= PromptLimit
                      /\ Len(texts) <= MaxItems
                      /\ \A k \in DOMAIN texts : texts[k] > items[k].prefix
                      /\ Len(texts) < m => Total(texts) + items[Len(texts) + 1].prefix >= PromptLimit
  BY <1>2 DEF PromptFits, Total, Sum, items, m
<1>6. /\ s.remaining + Total(texts) = PromptLimit + 2
      /\ Len(texts) \in Nat /\ Len(texts) <= m /\ Total(texts) \in Nat
  BY <1>2, <1>4, <1>5 DEF Rendered, Total
<1>7. \A k \in DOMAIN texts : texts[k] > items[k].prefix
  <2>1. DOMAIN texts = 1..Len(texts)
    BY <1>4
  <2>2. QED BY <1>2, <2>1 DEF Rendered
<1>8. ASSUME Len(texts) < m PROVE Total(texts) + items[Len(texts) + 1].prefix >= PromptLimit
  <2> DEFINE item == items[Len(texts) + 1]
  <2>1. Available(s.remaining, texts, item) = 0
    BY <1>2, <1>3, <1>6, <1>8 DEF Rendered, Shelf
  <2>2. item.prefix \in Nat
    <3>1. Len(texts) + 1 \in 1..Len(items)
      BY <1>3, <1>6, <1>8
    <3>2. item \in HitSizes
      BY <1>1, <3>1, ElementOfSeq
    <3>3. QED BY <3>2 DEF HitSizes
  <2>3. s.remaining <= 2 + item.prefix
    <3> HIDE DEF item
    <3>1. Separator(texts) = 2
      BY <1>5 DEF Separator
    <3>2. Available(s.remaining, texts, item) =
            IF s.remaining < 2 + item.prefix THEN 0 ELSE s.remaining - 2 - item.prefix
      BY <3>1 DEF Available
    <3>3. QED BY <1>4, <2>1, <2>2, <3>2
  <2> HIDE DEF item
  <2>4. Total(texts) + item.prefix >= PromptLimit
    BY <1>4, <1>6, <2>2, <2>3
  <2>5. QED BY <2>4 DEF item
<1>9. QED BY <1>3, <1>4, <1>6, <1>7, <1>8

-----------------------------------------------------------------------------
(* A phrase is in one piece of its text *)

\* A span of a text, and where a text has ink.
Span == [from : Nat, to : Nat]

InkIn(t, from, to) == {i \in from..to : t[i] \notin Blanks}

\* What strip() leaves of a text is from its first ink to its last.
LEMMA StrippedIsInk ==
  ASSUME NEW t, NEW from \in Nat, NEW to \in Nat
  PROVE  /\ InkIn(t, from, to) = {} => Stripped(t, from, to) = <<>>
         /\ InkIn(t, from, to) # {} =>
              \E p \in Span :
                /\ Stripped(t, from, to) = <<p>>
                /\ p.from \in InkIn(t, from, to) /\ p.to \in InkIn(t, from, to)
                /\ \A i \in InkIn(t, from, to) : p.from <= i /\ i <= p.to
<1> DEFINE ink == InkIn(t, from, to)
<1>1. ink \subseteq Nat /\ \A i \in ink : i <= to
  BY DEF InkIn
<1> HIDE DEF ink
<1>2. Stripped(t, from, to) = IF ink = {} THEN <<>> ELSE <<[from |-> Min(ink), to |-> Max(ink)]>>
  BY DEF Stripped, InkIn, ink
<1>3. ASSUME ink # {}
      PROVE  \E p \in Span : /\ Stripped(t, from, to) = <<p>>
                             /\ p.from \in ink /\ p.to \in ink
                             /\ \A i \in ink : p.from <= i /\ i <= p.to
  <2>1. Min(ink) \in ink /\ \A i \in ink : Min(ink) <= i
    BY <1>1, <1>3, LeastNumber
  <2>2. Max(ink) \in ink /\ \A i \in ink : i <= Max(ink)
    BY <1>1, <1>3, GreatestNumber
  <2> DEFINE p == [from |-> Min(ink), to |-> Max(ink)]
  <2>3. p \in Span /\ p.from = Min(ink) /\ p.to = Max(ink)
    BY <1>1, <2>1, <2>2 DEF Span
  <2>4. Stripped(t, from, to) = <<p>>
    BY <1>2, <1>3
  <2> HIDE DEF p
  <2>5. QED BY <2>1, <2>2, <2>3, <2>4
<1>4. QED BY <1>2, <1>3 DEF ink

\* Stripped gives spans, ...
LEMMA StrippedIsTyped ==
  ASSUME NEW t, NEW from \in Nat, NEW to \in Nat
  PROVE  Stripped(t, from, to) \in Seq(Span)
<1>1. CASE InkIn(t, from, to) = {}
  BY <1>1, StrippedIsInk, EmptySeq
<1>2. CASE InkIn(t, from, to) # {}
  <2>1. PICK p \in Span : Stripped(t, from, to) = <<p>>
    BY <1>2, StrippedIsInk
  <2>2. QED BY <2>1
<1>3. QED BY <1>1, <1>2

\* ... Boundary is between the smallest and the largest piece ...
LEMMA BoundaryIsNear ==
  ASSUME NEW t, NEW start \in Nat
  PROVE  Boundary(t, start) \in (start + ChunkMin)..(start + ChunkMax - 1)
<1> DEFINE ends == {i \in (start + ChunkMin)..(start + ChunkMax - 1) : t[i] \in Breaks}
<1>1. ChunkMin \in Nat /\ ChunkMax \in Nat /\ ChunkMin < ChunkMax
  BY TextAssumption
<1>2. CASE ends = {}
  BY <1>1, <1>2 DEF Boundary
<1>3. CASE ends # {}
  <2>1. ends \subseteq Nat /\ start + ChunkMax \in Nat /\ \A i \in ends : i <= start + ChunkMax
    BY <1>1
  <2>2. ends \subseteq (start + ChunkMin)..(start + ChunkMax - 1)
    OBVIOUS
  <2>3. Max(ends) \in ends
    <3> HIDE DEF ends
    <3>1. QED BY <1>3, <2>1, GreatestNumber
  <2>4. Boundary(t, start) = Max(ends)
    BY <1>3 DEF Boundary
  <2> HIDE DEF ends
  <2>5. QED BY <2>2, <2>3, <2>4
<1>4. QED BY <1>2, <1>3

\* ... and NextStart goes on, by at least one character, ...
LEMMA NextStartIsAhead ==
  ASSUME NEW t, NEW start \in Nat
  PROVE  LET bd == Boundary(t, start)
         IN /\ NextStart(start, bd) = bd - ChunkOverlap + 1
            /\ NextStart(start, bd) \in (start + 1)..(start + ChunkMax)
<1> DEFINE bd == Boundary(t, start)
<1>1. /\ ChunkMin \in Nat /\ ChunkMax \in Nat /\ ChunkOverlap \in Nat
      /\ ChunkOverlap < ChunkMin /\ ChunkMin < ChunkMax
  BY TextAssumption
<1>2. bd \in (start + ChunkMin)..(start + ChunkMax - 1)
  BY BoundaryIsNear
<1> HIDE DEF bd
<1>3. bd - ChunkOverlap + 1 \in Nat /\ start + 1 \in Nat /\ start + 1 <= bd - ChunkOverlap + 1
  BY <1>1, <1>2
<1>4. NextStart(start, bd) = bd - ChunkOverlap + 1
  <2>1. Max({bd - ChunkOverlap + 1, start + 1}) =
          IF bd - ChunkOverlap + 1 <= start + 1 THEN start + 1 ELSE bd - ChunkOverlap + 1
    BY <1>3, GreaterOfTwo
  <2>2. QED BY <1>3, <2>1 DEF NextStart
<1>5. QED BY <1>1, <1>2, <1>3, <1>4 DEF bd

\* What pieces is, in SplitText, from a start on.
PiecesFrom(t, stop, start, rest) ==
  IF stop - start + 1 <= ChunkMax THEN Stripped(t, start, stop)
  ELSE Stripped(t, start, Boundary(t, start)) \o rest[NextStart(start, Boundary(t, start))]

\* ... inside the text that is left.
LEMMA NextStartIsInside ==
  ASSUME NEW t, NEW stop \in Nat, NEW start \in Nat, ~(stop - start + 1 <= ChunkMax)
  PROVE  /\ NextStart(start, Boundary(t, start)) \in (start + 1)..stop
         /\ Boundary(t, start) \in start..(stop - 1)
<1>1. ChunkMax \in Nat /\ ChunkMin \in Nat
  BY TextAssumption
<1>2. NextStart(start, Boundary(t, start)) \in (start + 1)..(start + ChunkMax)
  BY NextStartIsAhead
<1>3. Boundary(t, start) \in (start + ChunkMin)..(start + ChunkMax - 1)
  BY BoundaryIsNear
<1>4. QED BY <1>1, <1>2, <1>3

\* What pieces is from a start on is spans, ...
LEMMA PiecesFromIsTyped ==
  ASSUME NEW t, NEW stop \in Nat, NEW start \in Nat, start <= stop,
         NEW rest, \A i \in (start + 1)..stop : rest[i] \in Seq(Span)
  PROVE  PiecesFrom(t, stop, start, rest) \in Seq(Span)
<1>1. CASE stop - start + 1 <= ChunkMax
  BY <1>1, StrippedIsTyped DEF PiecesFrom
<1>2. CASE ~(stop - start + 1 <= ChunkMax)
  <2> DEFINE bd == Boundary(t, start)
  <2>1. NextStart(start, bd) \in (start + 1)..stop /\ bd \in Nat
    <3>1. NextStart(start, bd) \in (start + 1)..stop /\ bd \in start..(stop - 1)
      BY <1>2, NextStartIsInside
    <3> HIDE DEF bd
    <3>2. QED BY <3>1
  <2>2. Stripped(t, start, bd) \in Seq(Span) /\ rest[NextStart(start, bd)] \in Seq(Span)
    BY <2>1, StrippedIsTyped
  <2>3. PiecesFrom(t, stop, start, rest) = Stripped(t, start, bd) \o rest[NextStart(start, bd)]
    BY <1>2 DEF PiecesFrom
  <2> HIDE DEF bd
  <2>4. QED BY <2>2, <2>3, ConcatProperties
<1>3. QED BY <1>1, <1>2

\* ... depends on later starts only, ...
LEMMA PiecesFromIsLocal ==
  ASSUME NEW t, NEW stop \in Nat, NEW start \in Nat,
         NEW f, NEW g, \A i \in (start + 1)..stop : f[i] = g[i]
  PROVE  PiecesFrom(t, stop, start, f) = PiecesFrom(t, stop, start, g)
<1>1. CASE stop - start + 1 <= ChunkMax
  BY <1>1 DEF PiecesFrom
<1>2. CASE ~(stop - start + 1 <= ChunkMax)
  BY <1>2, NextStartIsInside DEF PiecesFrom
<1>3. QED BY <1>1, <1>2

\* ... and so there is such a function, by induction from the end of the text.
LEMMA PiecesExist ==
  ASSUME NEW t, NEW first \in Nat, NEW stop \in Nat, first <= stop
  PROVE  \E g \in [first..stop -> Seq(Span)] :
           \A start \in first..stop : g[start] = PiecesFrom(t, stop, start, g)
<1> DEFINE Good(k) == \E g \in [(stop - k)..stop -> Seq(Span)] :
                        \A start \in (stop - k)..stop : g[start] = PiecesFrom(t, stop, start, g)
           T == {k \in Nat : k <= stop - first => Good(k)}
<1>1. Good(0)
  <2> DEFINE none == [i \in stop..stop |-> <<>>]
             g == [i \in stop..stop |-> PiecesFrom(t, stop, stop, none)]
  <2>1. PiecesFrom(t, stop, stop, none) \in Seq(Span)
    <3>1. \A i \in (stop + 1)..stop : none[i] \in Seq(Span)
      OBVIOUS
    <3> HIDE DEF none
    <3>2. QED BY <3>1, PiecesFromIsTyped
  <2>2. g \in [stop..stop -> Seq(Span)]
    BY <2>1
  <2>3. \A i \in (stop + 1)..stop : none[i] = g[i]
    OBVIOUS
  <2>4. \A start \in stop..stop : start = stop /\ g[start] = PiecesFrom(t, stop, stop, none)
    OBVIOUS
  <2> HIDE DEF none, g
  <2>5. PiecesFrom(t, stop, stop, none) = PiecesFrom(t, stop, stop, g)
    BY <2>3, PiecesFromIsLocal
  <2>6. stop - 0 = stop
    OBVIOUS
  <2>7. QED BY <2>2, <2>4, <2>5, <2>6
<1>2. ASSUME NEW k \in Nat, k \in T PROVE k + 1 \in T
  <2>1. SUFFICES ASSUME k + 1 <= stop - first PROVE Good(k + 1)
    <3> HIDE DEF Good
    <3>1. QED OBVIOUS
  <2>2. Good(k)
    <3> HIDE DEF Good
    <3>1. k <= stop - first
      BY <2>1
    <3>2. QED BY <1>2, <3>1
  <2>3. PICK g \in [(stop - k)..stop -> Seq(Span)] :
          \A start \in (stop - k)..stop : g[start] = PiecesFrom(t, stop, start, g)
    BY <2>2
  <2> DEFINE a == stop - (k + 1)
             h == [i \in a..stop |-> IF i = a THEN PiecesFrom(t, stop, a, g) ELSE g[i]]
  <2>4. a \in Nat /\ a <= stop /\ a + 1 = stop - k
    BY <2>1
  <2> HIDE DEF a
  <2>5. PiecesFrom(t, stop, a, g) \in Seq(Span)
    <3>1. \A i \in (a + 1)..stop : g[i] \in Seq(Span)
      BY <2>4
    <3>2. QED BY <2>4, <3>1, PiecesFromIsTyped
  <2>6. \A i \in (a + 1)..stop : i \in a..stop /\ i # a /\ i \in (stop - k)..stop
    BY <2>4
  <2>7. h \in [a..stop -> Seq(Span)]
    <3>1. \A i \in a..stop : i # a => i \in (stop - k)..stop
      BY <2>4
    <3>2. QED BY <2>5, <3>1
  <2>8. \A i \in (a + 1)..stop : g[i] = h[i]
    BY <2>6
  <2>9. ASSUME NEW start \in a..stop PROVE h[start] = PiecesFrom(t, stop, start, h)
    <3>1. start \in Nat /\ \A i \in (start + 1)..stop : i \in (a + 1)..stop
      BY <2>4
    <3>2. PiecesFrom(t, stop, start, g) = PiecesFrom(t, stop, start, h)
      <4> HIDE DEF h
      <4>1. QED BY <2>8, <3>1, PiecesFromIsLocal
    <3>3. h[start] = PiecesFrom(t, stop, start, g)
      <4>1. CASE start = a
        BY <4>1
      <4>2. CASE start # a
        <5>1. start \in (a + 1)..stop
          BY <4>2, <2>4
        <5>2. h[start] = g[start]
          BY <5>1, <2>8
        <5> HIDE DEF h
        <5>3. QED BY <5>1, <5>2, <2>3, <2>6
      <4>3. QED BY <4>1, <4>2
    <3> HIDE DEF h
    <3>4. QED BY <3>2, <3>3
  <2> HIDE DEF h
  <2>10. QED BY <2>7, <2>9 DEF a
<1>3. stop - first \in T
  <2> HIDE DEF T
  <2>1. stop - first \in Nat
    OBVIOUS
  <2>2. 0 \in T
    BY <1>1 DEF T
  <2>3. QED BY <1>2, <2>1, <2>2, Induction
<1>4. Good(stop - first)
  <2> HIDE DEF Good
  <2>1. QED BY <1>3
<1>5. stop - (stop - first) = first
  OBVIOUS
<1>6. QED BY <1>4, <1>5

\* The pieces of a text from a start on cover every phrase, and none is empty or too long.
SplitsFrom(t, start, stop, ps) ==
  /\ ps \in Seq(Span)
  /\ \A k \in 1..Len(ps) : /\ start <= ps[k].from /\ ps[k].from <= ps[k].to
                           /\ ps[k].to <= stop /\ ps[k].to - ps[k].from < ChunkMax
  /\ \A a, b \in start..stop :
       a <= b /\ b <= a + ChunkOverlap /\ t[a] \notin Blanks /\ t[b] \notin Blanks
         => \E k \in 1..Len(ps) : ps[k].from <= a /\ b <= ps[k].to

\* The last piece, or one that is cut before a boundary.
LEMMA StrippedPiece ==
  ASSUME NEW t, NEW from \in Nat, NEW to \in Nat, to - from < ChunkMax
  PROVE  SplitsFrom(t, from, to, Stripped(t, from, to))
<1>1. CASE InkIn(t, from, to) = {}
  <2>1. Stripped(t, from, to) = <<>>
    BY <1>1, StrippedIsInk
  <2>2. \A a \in from..to : t[a] \in Blanks
    BY <1>1 DEF InkIn
  <2>3. QED BY <2>1, <2>2, EmptySeq DEF SplitsFrom
<1>2. CASE InkIn(t, from, to) # {}
  <2>1. PICK p \in Span :
          /\ Stripped(t, from, to) = <<p>>
          /\ p.from \in InkIn(t, from, to) /\ p.to \in InkIn(t, from, to)
          /\ \A i \in InkIn(t, from, to) : p.from <= i /\ i <= p.to
    BY <1>2, StrippedIsInk
  <2>2. /\ from <= p.from /\ p.from <= p.to /\ p.to <= to
        /\ p.from \in Nat /\ p.to \in Nat
    BY <2>1 DEF InkIn, Span
  <2>3. ChunkMax \in Nat
    BY TextAssumption
  <2>4. p.to - p.from < ChunkMax
    BY <2>2, <2>3
  <2>5. \A a \in from..to : t[a] \notin Blanks => p.from <= a /\ a <= p.to
    BY <2>1 DEF InkIn
  <2>6. <<p>> \in Seq(Span) /\ Len(<<p>>) = 1 /\ <<p>>[1] = p
    OBVIOUS
  <2>7. QED BY <2>1, <2>2, <2>4, <2>5, <2>6 DEF SplitsFrom
<1>3. QED BY <1>1, <1>2

\* A text longer than a piece: what is cut off and the rest overlap.
LEMMA SplitsOnward ==
  ASSUME NEW t, NEW stop \in Nat, NEW start \in Nat, ~(stop - start + 1 <= ChunkMax),
         NEW ps, SplitsFrom(t, NextStart(start, Boundary(t, start)), stop, ps)
  PROVE  SplitsFrom(t, start, stop, Stripped(t, start, Boundary(t, start)) \o ps)
<1> DEFINE bd   == Boundary(t, start)
           next == NextStart(start, bd)
           cuts  == Stripped(t, start, bd)
           all  == cuts \o ps
<1>1. ChunkMax \in Nat /\ ChunkMin \in Nat /\ ChunkOverlap \in Nat
  BY TextAssumption
<1>2. /\ next \in (start + 1)..stop /\ bd \in start..(stop - 1)
      /\ bd \in (start + ChunkMin)..(start + ChunkMax - 1)
      /\ next = bd - ChunkOverlap + 1
  BY NextStartIsInside, NextStartIsAhead, BoundaryIsNear
<1> HIDE DEF bd, next
<1>3. SplitsFrom(t, start, bd, cuts)
  <2>1. bd \in Nat /\ bd - start < ChunkMax
    BY <1>1, <1>2
  <2>2. QED BY <2>1, StrippedPiece
<1>4. cuts \in Seq(Span) /\ ps \in Seq(Span) /\ SplitsFrom(t, next, stop, ps)
  BY <1>3 DEF SplitsFrom, next, bd
<1> HIDE DEF cuts
<1>5. /\ all \in Seq(Span) /\ Len(all) = Len(cuts) + Len(ps)
      /\ \A i \in 1..(Len(cuts) + Len(ps)) :
           all[i] = IF i <= Len(cuts) THEN cuts[i] ELSE ps[i - Len(cuts)]
      /\ Len(cuts) \in Nat /\ Len(ps) \in Nat
  BY <1>4, ConcatProperties
<1> HIDE DEF all
<1>6. ASSUME NEW k \in 1..Len(all)
      PROVE  /\ start <= all[k].from /\ all[k].from <= all[k].to
             /\ all[k].to <= stop /\ all[k].to - all[k].from < ChunkMax
  <2>1. CASE k <= Len(cuts)
    <3>1. k \in 1..Len(cuts) /\ all[k] = cuts[k]
      BY <2>1, <1>5
    <3>2. cuts[k] \in Span
      BY <1>4, <3>1, ElementOfSeq
    <3>3. /\ start <= cuts[k].from /\ cuts[k].from <= cuts[k].to
          /\ cuts[k].to <= bd /\ cuts[k].to - cuts[k].from < ChunkMax
      BY <1>3, <3>1 DEF SplitsFrom
    <3>4. cuts[k].to <= stop
      BY <1>2, <3>2, <3>3 DEF Span
    <3>5. QED BY <3>1, <3>3, <3>4
  <2>2. CASE ~(k <= Len(cuts))
    <3> DEFINE j == k - Len(cuts)
    <3>1. j \in 1..Len(ps) /\ all[k] = ps[j]
      BY <2>2, <1>5
    <3> HIDE DEF j
    <3>2. ps[j] \in Span
      BY <1>4, <3>1, ElementOfSeq
    <3>3. /\ next <= ps[j].from /\ ps[j].from <= ps[j].to
          /\ ps[j].to <= stop /\ ps[j].to - ps[j].from < ChunkMax
      BY <1>4, <3>1 DEF SplitsFrom
    <3>4. start <= ps[j].from
      BY <1>2, <3>2, <3>3 DEF Span
    <3>5. QED BY <3>1, <3>3, <3>4
  <2>3. QED BY <2>1, <2>2
<1>7. ASSUME NEW a \in start..stop, NEW b \in start..stop, a <= b, b <= a + ChunkOverlap,
             t[a] \notin Blanks, t[b] \notin Blanks
      PROVE  \E k \in 1..Len(all) : all[k].from <= a /\ b <= all[k].to
  <2>1. CASE b <= bd
    <3>1. a \in start..bd /\ b \in start..bd
      BY <1>2, <1>7, <2>1
    <3>2. PICK k \in 1..Len(cuts) : cuts[k].from <= a /\ b <= cuts[k].to
      BY <1>3, <1>7, <3>1 DEF SplitsFrom
    <3>3. k \in 1..Len(all) /\ all[k] = cuts[k]
      BY <1>5
    <3>4. QED BY <3>2, <3>3
  <2>2. CASE ~(b <= bd)
    <3>1. a \in next..stop /\ b \in next..stop
      BY <1>1, <1>2, <1>7, <2>2
    <3>2. PICK j \in 1..Len(ps) : ps[j].from <= a /\ b <= ps[j].to
      BY <1>4, <1>7, <3>1 DEF SplitsFrom
    <3>3. j + Len(cuts) \in 1..Len(all) /\ all[j + Len(cuts)] = ps[j]
      <4>1. j + Len(cuts) \in 1..(Len(cuts) + Len(ps)) /\ ~(j + Len(cuts) <= Len(cuts))
            /\ (j + Len(cuts)) - Len(cuts) = j
        BY <1>5
      <4>2. QED BY <1>5, <4>1
    <3>4. QED BY <3>2, <3>3
  <2>3. QED BY <2>1, <2>2
<1>8. SplitsFrom(t, start, stop, all)
  BY <1>5, <1>6, <1>7 DEF SplitsFrom
<1>9. QED BY <1>8 DEF all, cuts, bd

\* The pieces of a text.
LEMMA SplitTextSplits ==
  ASSUME NEW t, Len(t) \in Nat
  PROVE  SplitsFrom(t, 1, Len(t), SplitText(t))
<1>1. CASE InkIn(t, 1, Len(t)) = {}
  <2>1. Stripped(t, 1, Len(t)) = <<>>
    BY <1>1, StrippedIsInk
  <2>2. SplitText(t) = <<>>
    BY <2>1 DEF SplitText
  <2>3. \A a \in 1..Len(t) : t[a] \in Blanks
    BY <1>1 DEF InkIn
  <2>4. QED BY <2>2, <2>3, EmptySeq DEF SplitsFrom
<1>2. CASE InkIn(t, 1, Len(t)) # {}
  <2>1. PICK p \in Span :
          /\ Stripped(t, 1, Len(t)) = <<p>>
          /\ p.from \in InkIn(t, 1, Len(t)) /\ p.to \in InkIn(t, 1, Len(t))
          /\ \A i \in InkIn(t, 1, Len(t)) : p.from <= i /\ i <= p.to
    BY <1>2, StrippedIsInk
  <2> DEFINE first == p.from
             stop  == p.to
             Is(g) == g = [start \in first..stop |-> PiecesFrom(t, stop, start, g)]
             f     == CHOOSE g : Is(g)
  <2>2. first \in Nat /\ stop \in Nat /\ first <= stop /\ 1 <= first /\ stop <= Len(t)
    BY <2>1 DEF Span, InkIn
  <2>3. SplitText(t) = f[first]
    <3>1. Stripped(t, 1, Len(t)) # <<>> /\ Stripped(t, 1, Len(t))[1] = p
      BY <2>1
    <3>2. QED BY <3>1 DEF SplitText, PiecesFrom
  <2> HIDE DEF first, stop
  <2>4. PICK g \in [first..stop -> Seq(Span)] :
          \A start \in first..stop : g[start] = PiecesFrom(t, stop, start, g)
    BY <2>2, PiecesExist
  <2>5. Is(g)
    BY <2>4
  <2>6. Is(f)
    <3> HIDE DEF Is
    <3>1. QED BY <2>5
  <2> HIDE DEF f
  <2>7. \A start \in first..stop : f[start] = PiecesFrom(t, stop, start, f)
    BY <2>6
  <2> DEFINE Bad == {start \in first..stop : ~SplitsFrom(t, start, stop, f[start])}
  <2>8. Bad = {}
    <3>1. SUFFICES ASSUME Bad # {} PROVE FALSE
      OBVIOUS
    <3>2. Bad \subseteq Nat /\ \A y \in Bad : y <= stop
      BY <2>2
    <3> DEFINE m == Max(Bad)
    <3>3. m \in Bad /\ \A y \in Bad : y <= m
      <4> HIDE DEF Bad
      <4>1. QED BY <2>2, <3>1, <3>2, GreatestNumber
    <3> HIDE DEF m
    <3>4. m \in first..stop /\ m \in Nat /\ ~SplitsFrom(t, m, stop, f[m])
      BY <2>2, <3>3
    <3>5. \A y \in (m + 1)..stop : SplitsFrom(t, y, stop, f[y])
      BY <2>2, <3>3, <3>4
    <3>6. CASE stop - m + 1 <= ChunkMax
      <4>1. f[m] = Stripped(t, m, stop)
        BY <2>7, <3>4, <3>6 DEF PiecesFrom
      <4>2. stop - m < ChunkMax
        BY <2>2, <3>4, <3>6, TextAssumption
      <4>3. QED BY <2>2, <3>4, <4>1, <4>2, StrippedPiece
    <3>7. CASE ~(stop - m + 1 <= ChunkMax)
      <4> DEFINE next == NextStart(m, Boundary(t, m))
      <4>1. f[m] = Stripped(t, m, Boundary(t, m)) \o f[next]
        BY <2>7, <3>4, <3>7 DEF PiecesFrom
      <4>2. next \in (m + 1)..stop
        BY <2>2, <3>4, <3>7, NextStartIsInside
      <4>3. SplitsFrom(t, next, stop, f[next])
        BY <3>5, <4>2
      <4>4. QED BY <2>2, <3>4, <3>7, <4>1, <4>3, SplitsOnward
    <3>8. QED BY <3>6, <3>7
  <2>9. SplitsFrom(t, first, stop, f[first])
    BY <2>2, <2>8
  <2>10. \A a \in 1..Len(t) : t[a] \notin Blanks => a \in first..stop
    BY <2>1, <2>2 DEF InkIn, first, stop
  <2>11. f[first] \in Seq(Span)
    BY <2>9 DEF SplitsFrom
  <2>12. ASSUME NEW k \in 1..Len(f[first])
         PROVE  1 <= f[first][k].from /\ f[first][k].to <= Len(t)
    <3>1. f[first][k] \in Span
      BY <2>11, ElementOfSeq
    <3>2. first <= f[first][k].from /\ f[first][k].to <= stop
      BY <2>9 DEF SplitsFrom
    <3> DEFINE piece == f[first][k]
    <3>3. piece \in Span /\ first <= piece.from /\ piece.to <= stop
      BY <3>1, <3>2
    <3> HIDE DEF piece
    <3>4. 1 <= piece.from /\ piece.to <= Len(t)
      BY <2>2, <3>3 DEF Span
    <3>5. QED BY <3>4 DEF piece
  <2>13. SplitsFrom(t, 1, Len(t), f[first])
    BY <2>9, <2>10, <2>12 DEF SplitsFrom
  <2>14. QED BY <2>3, <2>13
<1>3. QED BY <1>1, <1>2

\* A pair of neighbours.
LEMMA PairIs ==
  ASSUME NEW S, NEW s \in Seq(S), NEW i \in 1..(Len(s) - 1)
  PROVE  SubSeq(s, i, i + 1) = <<s[i], s[i + 1]>>
<1> DEFINE u == SubSeq(s, i, i + 1)
<1>1. i \in Int /\ i + 1 \in Int /\ i <= i + 1 /\ (i + 1) - i + 1 = 2
      /\ \A k \in i..(i + 1) : s[k] \in S
  <2>1. Len(s) \in Nat
    OBVIOUS
  <2>2. \A k \in i..(i + 1) : k \in 1..Len(s)
    BY <2>1
  <2>3. QED BY <2>2, ElementOfSeq
<1> DEFINE j == i + 1
<1>2. u \in Seq(S) /\ Len(u) = 2 /\ \A k \in 1..2 : u[k] = s[i + k - 1]
  <2>1. i \in Int /\ j \in Int /\ i <= j /\ j - i + 1 = 2 /\ \A k \in i..j : s[k] \in S
    BY <1>1
  <2> HIDE DEF j
  <2>2. /\ SubSeq(s, i, j) \in Seq(S) /\ Len(SubSeq(s, i, j)) = 2
        /\ \A k \in 1..(j - i + 1) : SubSeq(s, i, j)[k] = s[i + k - 1]
    BY <2>1, SubSeqProperties
  <2>3. QED BY <2>1, <2>2 DEF j
<1> HIDE DEF u
<1>3. u[1] = s[i] /\ u[2] = s[i + 1]
  <2>1. i + 1 - 1 = i /\ i + 2 - 1 = i + 1
    OBVIOUS
  <2>2. QED BY <1>2, <2>1
<1>4. u = <<s[i], s[i + 1]>>
  <2>1. <<s[i], s[i + 1]>> \in Seq(S)
    BY <1>1
  <2>2. QED BY <1>2, <1>3, <2>1, SeqEqual
<1>5. QED BY <1>4 DEF u

\* A token of a part of a text is one of the text around it.
LEMMA TokensOfPart ==
  ASSUME NEW Chars, NEW t \in Seq(Chars), NEW a \in 1..Len(t), NEW b \in 1..Len(t), a <= b,
         NEW from \in 1..Len(t), NEW to \in 1..Len(t), from <= a, b <= to
  PROVE  Tokens(SubSeq(t, a, b)) \subseteq Tokens(SubSeq(t, from, to))
<1> DEFINE u == SubSeq(t, a, b)
           v == SubSeq(t, from, to)
           d == a - from
<1>1. DOMAIN t = 1..Len(t) /\ Len(t) \in Nat /\ \A i \in 1..Len(t) : t[i] \in Chars
  BY LenProperties, ElementOfSeq
<1>2. /\ u \in Seq(Chars) /\ Len(u) = b - a + 1 /\ \A i \in 1..(b - a + 1) : u[i] = t[a + i - 1]
  <2>1. a \in Int /\ b \in Int /\ \A i \in a..b : t[i] \in Chars
    BY <1>1
  <2>2. QED BY <2>1, <1>1, SubSeqProperties
<1>3. /\ v \in Seq(Chars) /\ Len(v) = to - from + 1
      /\ \A i \in 1..(to - from + 1) : v[i] = t[from + i - 1]
  <2>1. from \in Int /\ to \in Int /\ from <= to /\ \A i \in from..to : t[i] \in Chars
    BY <1>1
  <2>2. QED BY <2>1, <1>1, SubSeqProperties
<1> HIDE DEF u, v
<1>5. d \in Nat /\ d + Len(u) <= Len(v) /\ Len(u) \in Nat /\ Len(v) \in Nat
  BY <1>1, <1>2, <1>3
<1>6. \A i \in 1..Len(u) : i + d \in 1..Len(v) /\ v[i + d] = u[i]
  <2>1. SUFFICES ASSUME NEW i \in 1..Len(u) PROVE i + d \in 1..Len(v) /\ v[i + d] = u[i]
    OBVIOUS
  <2>2. i + d \in 1..(to - from + 1) /\ from + (i + d) - 1 = a + i - 1
    <3>1. i \in 1..(b - a + 1)
      BY <1>2
    <3>2. QED BY <1>1, <3>1
  <2>3. QED BY <1>2, <1>3, <2>2
<1> HIDE DEF d
<1>7. DOMAIN u = 1..Len(u) /\ DOMAIN v = 1..Len(v)
  BY <1>2, <1>3, LenProperties
<1>8. ASSUME NEW i \in DOMAIN u, u[i] \notin Blanks \cup Breaks PROVE <<u[i]>> \in Tokens(v)
  <2>1. i + d \in DOMAIN v /\ v[i + d] = u[i]
    BY <1>6, <1>7
  <2>2. QED BY <1>8, <2>1 DEF Tokens
<1>9. ASSUME NEW i \in 1..(Len(u) - 1), {u[i], u[i + 1]} \cap (Blanks \cup Breaks) = {}
      PROVE  SubSeq(u, i, i + 1) \in Tokens(v)
  <2>1. i \in 1..Len(u) /\ i + 1 \in 1..Len(u) /\ i + d \in 1..(Len(v) - 1)
        /\ (i + 1) + d = (i + d) + 1
    BY <1>5
  <2>2. v[i + d] = u[i] /\ v[(i + d) + 1] = u[i + 1]
    BY <1>6, <2>1
  <2>3. SubSeq(u, i, i + 1) = SubSeq(v, i + d, (i + d) + 1)
    <3>1. SubSeq(u, i, i + 1) = <<u[i], u[i + 1]>>
      BY <1>2, PairIs
    <3>2. SubSeq(v, i + d, (i + d) + 1) = <<v[i + d], v[(i + d) + 1]>>
      BY <1>3, <2>1, PairIs
    <3>3. QED BY <2>2, <3>1, <3>2
  <2>4. {v[i + d], v[(i + d) + 1]} \cap (Blanks \cup Breaks) = {}
    BY <1>9, <2>2
  <2>5. QED BY <2>1, <2>3, <2>4 DEF Tokens
<1>10. \A x \in Tokens(u) : x \in Tokens(v)
  BY <1>8, <1>9 DEF Tokens
<1>11. QED BY <1>10 DEF u, v

\* A phrase no longer than the overlap is in one piece of its text with all its tokens
\* (PhraseIsInOnePiece: _split_text and cjk_search_tokens), for every text and every size of
\* the pieces that TextAssumption allows.
THEOREM PhraseIsFound ==
  ASSUME NEW Chars, input \in [kind : {"block"}, of : Seq(Chars)]
  PROVE  PhraseIsInOnePiece
<1> DEFINE t      == input.of
           pieces == SplitText(t)
<1>1. t \in Seq(Chars)
  OBVIOUS
<1> HIDE DEF t
<1>2. DOMAIN t = 1..Len(t) /\ Len(t) \in Nat
  BY <1>1, LenProperties
<1>3. SplitsFrom(t, 1, Len(t), pieces)
  BY <1>2, SplitTextSplits
<1> HIDE DEF pieces
<1>4. pieces \in Seq(Span) /\ DOMAIN pieces = 1..Len(pieces)
  BY <1>3, LenProperties DEF SplitsFrom
<1>5. ASSUME NEW k \in DOMAIN pieces
      PROVE  /\ pieces[k] \in Span /\ pieces[k].from \in DOMAIN t /\ pieces[k].to \in DOMAIN t
             /\ pieces[k].from <= pieces[k].to /\ pieces[k].to - pieces[k].from < ChunkMax
  <2>1. pieces[k] \in Span
    BY <1>4, ElementOfSeq
  <2>2. /\ 1 <= pieces[k].from /\ pieces[k].from <= pieces[k].to
        /\ pieces[k].to <= Len(t) /\ pieces[k].to - pieces[k].from < ChunkMax
    BY <1>3, <1>4 DEF SplitsFrom
  <2>3. QED BY <1>2, <2>1, <2>2 DEF Span
<1>6. ASSUME NEW k \in DOMAIN pieces PROVE Len(Cut(t, pieces[k])) \in 1..ChunkMax
  <2> DEFINE p == pieces[k]
  <2>1. p.from \in Int /\ p.to \in Int /\ p.from <= p.to /\ p.to - p.from < ChunkMax
        /\ ChunkMax \in Nat /\ \A i \in p.from..p.to : t[i] \in Chars
    <3>1. \A i \in 1..Len(t) : t[i] \in Chars
      BY <1>1, ElementOfSeq
    <3>2. QED BY <1>2, <1>5, <3>1, TextAssumption
  <2> HIDE DEF p
  <2>2. Len(SubSeq(t, p.from, p.to)) = p.to - p.from + 1
    BY <2>1, SubSeqProperties
  <2>3. QED BY <2>1, <2>2 DEF Cut, p
<1>7. ASSUME NEW a \in DOMAIN t, NEW b \in DOMAIN t, a <= b, b <= a + ChunkOverlap,
             t[a] \notin Blanks, t[b] \notin Blanks
      PROVE  \E k \in DOMAIN pieces :
               /\ pieces[k].from <= a /\ b <= pieces[k].to
               /\ Tokens(SubSeq(t, a, b)) \subseteq Tokens(Cut(t, pieces[k]))
  <2>1. PICK k \in DOMAIN pieces : pieces[k].from <= a /\ b <= pieces[k].to
    BY <1>2, <1>3, <1>4, <1>7 DEF SplitsFrom
  <2>2. Tokens(SubSeq(t, a, b)) \subseteq Tokens(Cut(t, pieces[k]))
    BY <1>1, <1>2, <1>5, <1>7, <2>1, TokensOfPart DEF Cut
  <2>3. QED BY <2>1, <2>2
<1>8. QED BY <1>6, <1>7 DEF PhraseIsInOnePiece, pieces, t

-----------------------------------------------------------------------------
(* Folds over sequences, step by step *)

\* f is the function that MapThenFoldSet chooses, as far as its values are typed.
FoldsIn(f, n, S, base, step) ==
  /\ f[{}] = base
  /\ \A s \in SUBSET (1..n) :
       s # {} /\ f[s \ {Max(s)}] \in S => f[s] = step[<<f[s \ {Max(s)}], Max(s)>>]

\* The steps of a fold over a sequence.
Runs(r, n, base, step) ==
  r[0] = base /\ \A i \in 1..n : r[i] = step[<<r[i - 1], i>>]

\* A fold over a sequence is the last of its steps.
LEMMA FoldRuns ==
  ASSUME NEW n \in Nat, NEW S, NEW base \in S, NEW step \in [S \X (1..n) -> S],
         NEW f, FoldsIn(f, n, S, base, step)
  PROVE  \E r \in [0..n -> S] : r[n] = f[1..n] /\ Runs(r, n, base, step)
<1> DEFINE T == {i \in Nat : i <= n => f[1..i] \in S}
<1>1. f[1..0] = base
  <2>1. 1..0 = {}
    OBVIOUS
  <2>2. QED BY <2>1 DEF FoldsIn
<1>2. ASSUME NEW i \in 1..n, f[1..(i - 1)] \in S
      PROVE  f[1..i] = step[<<f[1..(i - 1)], i>>] /\ f[1..i] \in S
  <2>1. i \in Nat /\ i # 0 /\ 1..i \in SUBSET (1..n)
    OBVIOUS
  <2>2. Max(1..i) = i /\ (1..i) \ {i} = 1..(i - 1) /\ 1..i # {}
    BY <2>1, LastOfFirst
  <2>3. f[1..i] = step[<<f[1..(i - 1)], i>>]
    BY <1>2, <2>1, <2>2 DEF FoldsIn
  <2>4. QED BY <1>2, <2>3
<1>3. 0 \in T
  BY <1>1
<1>4. ASSUME NEW i \in Nat, i \in T PROVE i + 1 \in T
  <2>1. SUFFICES ASSUME i + 1 <= n PROVE f[1..(i + 1)] \in S
    OBVIOUS
  <2>2. i + 1 \in 1..n /\ (i + 1) - 1 = i /\ i <= n
    BY <2>1
  <2>3. f[1..((i + 1) - 1)] \in S
    BY <1>4, <2>2
  <2>4. QED BY <1>2, <2>2, <2>3
<1>5. Nat \subseteq T
  <2> HIDE DEF T
  <2>1. QED BY <1>3, <1>4, Induction
<1> DEFINE r == [i \in 0..n |-> f[1..i]]
<1>6. \A i \in 0..n : f[1..i] \in S
  BY <1>5
<1>7. r \in [0..n -> S] /\ r[n] = f[1..n] /\ r[0] = base
  BY <1>1, <1>6
<1>8. ASSUME NEW i \in 1..n PROVE r[i] = step[<<r[i - 1], i>>]
  <2>1. i \in 0..n /\ i - 1 \in 0..n
    OBVIOUS
  <2>2. QED BY <1>2, <1>6, <2>1
<1> HIDE DEF r
<1>9. QED BY <1>7, <1>8 DEF Runs

\* What combining the texts of pieces does with the next one.
JoinStep(t, p) == IF t = <<>> THEN p.text ELSE Combined(t, p.text)

\* Joined, step by step.
Joining(r, ps, n) ==
  r[n] = Joined(ps) /\ r[0] = <<>> /\ \A i \in 1..n : r[i] = JoinStep(r[i - 1], ps[i])

\* Joined, piece by piece.
LEMMA JoinedUnfolds ==
  ASSUME NEW Chars, "/" \in Chars, NEW ps, NEW n \in Nat, DOMAIN ps = 1..n,
         \A i \in 1..n : ps[i].text \in Seq(Chars)
  PROVE  \E r \in [0..n -> Seq(Chars)] : Joining(r, ps, n)
<1> DEFINE S == Seq(Chars)
           step == [p \in S \X (1..n) |-> JoinStep(p[1], ps[p[2]])]
           Is(h) == h = [s \in SUBSET DOMAIN ps |->
                           IF s = {} THEN <<>> ELSE JoinStep(h[s \ {Max(s)}], ps[Max(s)])]
           f == CHOOSE h : Is(h)
<1>1. ASSUME NEW t \in S, NEW i \in 1..n PROVE JoinStep(t, ps[i]) \in S
  <2>1. <<"/", "/">> \in S
    OBVIOUS
  <2>2. t \o <<"/", "/">> \o ps[i].text \in S
    BY <2>1, ConcatProperties
  <2>3. QED BY <2>2 DEF JoinStep, Combined
<1>2. step \in [S \X (1..n) -> S] /\ <<>> \in S
  BY <1>1, EmptySeq
<1>3. PICK h \in [SUBSET (1..n) -> S] : Folding(h, n, <<>>, step)
  <2> HIDE DEF step, S
  <2>1. QED BY <1>2, FoldExists
<1>4. \A s \in SUBSET (1..n) : s # {} => Max(s) \in s /\ Max(s) \in 1..n /\ s \ {Max(s)} \in SUBSET (1..n)
  <2>1. SUFFICES ASSUME NEW s \in SUBSET (1..n), s # {} PROVE Max(s) \in s
    OBVIOUS
  <2>2. s \subseteq Nat /\ \A y \in s : y <= n
    OBVIOUS
  <2>3. QED BY <2>1, <2>2, GreatestNumber
<1>5. ASSUME NEW s \in SUBSET (1..n)
      PROVE  h[s] = IF s = {} THEN <<>> ELSE JoinStep(h[s \ {Max(s)}], ps[Max(s)])
  <2>1. CASE s # {}
    <3>1. h[s] = step[<<h[s \ {Max(s)}], Max(s)>>]
      <4> HIDE DEF step
      <4>1. QED BY <1>3, <2>1 DEF Folding
    <3>2. QED BY <1>4, <2>1, <3>1
  <2>2. QED BY <1>3, <2>1 DEF Folding
<1>6. Is(h)
  BY <1>5
<1>7. Is(f)
  <2> HIDE DEF Is
  <2>1. QED BY <1>6
<1>8. Joined(ps) = f[1..n]
  BY DEF Joined, FoldLeft, MapThenFoldSet, JoinStep
<1> HIDE DEF f
<1>9. \A s \in SUBSET (1..n) : f[s] = IF s = {} THEN <<>> ELSE JoinStep(f[s \ {Max(s)}], ps[Max(s)])
  BY <1>7
<1>10. f[{}] = <<>>
  BY <1>9
<1>11. ASSUME NEW s \in SUBSET (1..n), s # {}, f[s \ {Max(s)}] \in S
       PROVE  f[s] = step[<<f[s \ {Max(s)}], Max(s)>>]
  BY <1>4, <1>9, <1>11
<1>12. PICK r \in [0..n -> S] :
         r[n] = f[1..n] /\ Runs(r, n, <<>>, step)
  <2> HIDE DEF step, S
  <2>1. FoldsIn(f, n, S, <<>>, step)
    BY <1>10, <1>11 DEF FoldsIn
  <2>2. QED BY <1>2, <2>1, FoldRuns
<1>13. ASSUME NEW i \in 1..n PROVE r[i] = JoinStep(r[i - 1], ps[i])
  <2>1. r[i] = step[<<r[i - 1], i>>]
    <3> HIDE DEF step, S
    <3>1. QED BY <1>12 DEF Runs
  <2>2. i - 1 \in 0..n
    OBVIOUS
  <2>3. r[i - 1] \in S
    BY <1>12, <2>2
  <2>4. QED BY <2>1, <2>3
<1>14. r[0] = <<>>
  <2> HIDE DEF step, S
  <2>1. QED BY <1>12 DEF Runs
<1>15. QED BY <1>8, <1>12, <1>13, <1>14 DEF Joining

\* The last of some numbers.
LEMMA MaxOfSome ==
  ASSUME NEW n \in Nat, NEW s \in SUBSET (1..n), s # {}
  PROVE  Max(s) \in s /\ Max(s) \in 1..n /\ s \ {Max(s)} \in SUBSET (1..n)
<1>1. s \subseteq Nat /\ \A y \in s : y <= n
  OBVIOUS
<1>2. Max(s) \in s
  BY <1>1, GreatestNumber
<1>3. QED BY <1>2

-----------------------------------------------------------------------------
(* The chunks of a document are its pieces in groups *)

\* The kinds of blocks, and blocks.
Kinds == {"page", "slide", "sheet_rows", "paragraph"}
BlockSet(Chars, Headings) ==
  [text : Seq(Chars), heading : Headings, kind : Kinds, start : Nat, end : Nat, sheet : Nat]

\* A sequence is what is before its last element, and that.
LEMMA FrontAndLast ==
  ASSUME NEW S, NEW s \in Seq(S), s # <<>>
  PROVE  /\ Last(s) \in S /\ Last(s) = s[Len(s)] /\ Len(s) \in Nat \ {0}
         /\ Front(s) \in Seq(S) /\ Len(Front(s)) = Len(s) - 1
         /\ \A i \in 1..(Len(s) - 1) : Front(s)[i] = s[i]
<1>1. Len(s) \in Nat /\ Len(s) # 0
  OBVIOUS
<1>2. Last(s) = s[Len(s)] /\ Last(s) \in S
  BY <1>1, ElementOfSeq DEF Last
<1>3. \A i \in 1..(Len(s) - 1) : s[i] \in S
  BY <1>1, ElementOfSeq
<1>4. 1 \in Int /\ Len(s) - 1 \in Int
  BY <1>1
<1>5. /\ SubSeq(s, 1, Len(s) - 1) \in Seq(S)
      /\ Len(SubSeq(s, 1, Len(s) - 1)) = IF 1 <= Len(s) - 1 THEN (Len(s) - 1) - 1 + 1 ELSE 0
      /\ \A i \in 1..((Len(s) - 1) - 1 + 1) : SubSeq(s, 1, Len(s) - 1)[i] = s[1 + i - 1]
  BY <1>3, <1>4, SubSeqProperties
<1> DEFINE u == SubSeq(s, 1, Len(s) - 1)
<1>6. Front(s) = u
  BY DEF Front
<1> HIDE DEF u
<1>7. u \in Seq(S) /\ Len(u) = Len(s) - 1
  <2>1. Len(u) = IF 1 <= Len(s) - 1 THEN (Len(s) - 1) - 1 + 1 ELSE 0
    BY <1>5 DEF u
  <2>2. u \in Seq(S)
    BY <1>5 DEF u
  <2> DEFINE n == Len(s)
  <2>3. n \in Nat /\ n # 0 /\ Len(u) = IF 1 <= n - 1 THEN (n - 1) - 1 + 1 ELSE 0
    BY <1>1, <2>1
  <2> HIDE DEF n
  <2>4. Len(u) = n - 1
    BY <2>3
  <2>5. QED BY <2>2, <2>4 DEF n
<1>8. ASSUME NEW i \in 1..(Len(s) - 1) PROVE u[i] = s[i]
  <2>1. i \in 1..((Len(s) - 1) - 1 + 1) /\ 1 + i - 1 = i
    BY <1>1
  <2>2. QED BY <1>5, <2>1 DEF u
<1>9. QED BY <1>1, <1>2, <1>6, <1>7, <1>8

\* Two texts with an empty line between them.
LEMMA CombinedIs ==
  ASSUME NEW Chars, "/" \in Chars, NEW t \in Seq(Chars), NEW u \in Seq(Chars)
  PROVE  Combined(t, u) \in Seq(Chars) /\ Len(Combined(t, u)) = Len(t) + Len(u) + 2
<1>1. <<"/", "/">> \in Seq(Chars) /\ Len(<<"/", "/">>) = 2
  OBVIOUS
<1>2. /\ t \o <<"/", "/">> \in Seq(Chars)
      /\ Len(t \o <<"/", "/">>) = Len(t) + 2
  BY <1>1, ConcatProperties
<1>3. /\ (t \o <<"/", "/">>) \o u \in Seq(Chars)
      /\ Len((t \o <<"/", "/">>) \o u) = Len(t) + 2 + Len(u)
  BY <1>2, ConcatProperties
<1>4. Len(t) \in Nat /\ Len(u) \in Nat
  OBVIOUS
<1>5. QED BY <1>3, <1>4 DEF Combined

\* The chunk that takes in one more piece.
Grown(old, piece) ==
  [old EXCEPT !.text = Combined(old.text, piece.text),
                !.end = Max({old.end, piece.end})]

\* A piece joins the chunk.
Joins(old, piece) ==
  Compatible(old, piece) /\ Len(Combined(old.text, piece.text)) <= ChunkMax

\* Merge takes a piece into the last chunk or starts one.
LEMMA MergeIs ==
  ASSUME NEW Chars, NEW Headings, "/" \in Chars,
         NEW m \in Seq(BlockSet(Chars, Headings)), NEW b \in BlockSet(Chars, Headings)
  PROVE  /\ Merge(m, b) \in Seq(BlockSet(Chars, Headings))
         /\ m = <<>> => Merge(m, b) = <<b>>
         /\ m # <<>> => /\ Grown(Last(m), b) \in BlockSet(Chars, Headings)
                        /\ Joins(Last(m), b) => Merge(m, b) = Append(Front(m), Grown(Last(m), b))
                        /\ ~Joins(Last(m), b) => Merge(m, b) = Append(m, b)
<1> DEFINE B == BlockSet(Chars, Headings)
<1>1. CASE m = <<>>
  <2>1. Merge(m, b) = <<b>>
    BY <1>1 DEF Merge
  <2> HIDE DEF B
  <2>2. b \in B
    BY DEF B
  <2>3. <<b>> \in Seq(B)
    BY <2>2
  <2>4. QED BY <1>1, <2>1, <2>3 DEF B
<1>2. CASE m # <<>>
  <2> DEFINE c == Last(m)
  <2>1. c \in B /\ Front(m) \in Seq(B)
    <3> HIDE DEF B
    <3>1. m \in Seq(B)
      BY DEF B
    <3>2. QED BY <1>2, <3>1, FrontAndLast
  <2> HIDE DEF c
  <2>2. /\ c.text \in Seq(Chars) /\ b.text \in Seq(Chars)
        /\ c.end \in Nat /\ b.end \in Nat
    BY <2>1 DEF BlockSet
  <2>3. Combined(c.text, b.text) \in Seq(Chars)
    BY <2>2, CombinedIs
  <2>4. Max({c.end, b.end}) \in Nat
    BY <2>2, GreaterOfTwo
  <2>5. Grown(c, b) \in B
    BY <2>1, <2>3, <2>4 DEF Grown, BlockSet
  <2>6. Merge(m, b) = IF Joins(c, b) THEN Append(Front(m), Grown(c, b)) ELSE Append(m, b)
    BY <1>2 DEF Merge, Joins, Grown, c
  <2>7. Merge(m, b) \in Seq(B)
    <3> HIDE DEF B
    <3>1. m \in Seq(B) /\ b \in B
      BY DEF B
    <3>2. QED BY <2>1, <2>5, <2>6, <3>1, AppendProperties
  <2>8. QED BY <1>2, <2>5, <2>6, <2>7 DEF c
<1>3. QED BY <1>1, <1>2

\* MergeBlocks, piece by piece.
Merging(r, ps, n) ==
  r[n] = MergeBlocks(ps) /\ r[0] = <<>> /\ \A i \in 1..n : r[i] = Merge(r[i - 1], ps[i])

\* The chunks, one more piece at a time, have their shape.
LEMMA MergeUnfolds ==
  ASSUME NEW Chars, NEW Headings, "/" \in Chars, NEW n \in Nat,
         NEW ps, DOMAIN ps = 1..n, \A i \in 1..n : ps[i] \in BlockSet(Chars, Headings)
  PROVE  \E r \in [0..n -> Seq(BlockSet(Chars, Headings))] : Merging(r, ps, n)
<1> DEFINE S == Seq(BlockSet(Chars, Headings))
           step == [p \in S \X (1..n) |-> Merge(p[1], ps[p[2]])]
           Is(h) == h = [s \in SUBSET DOMAIN ps |->
                           IF s = {} THEN <<>>
                           ELSE Merge(h[s \ {Max(s)}], ps[Max(s)])]
           f == CHOOSE h : Is(h)
<1>1. ASSUME NEW t \in S, NEW i \in 1..n PROVE Merge(t, ps[i]) \in S
  BY MergeIs
<1>2. step \in [S \X (1..n) -> S] /\ <<>> \in S
  BY <1>1, EmptySeq
<1>3. PICK h \in [SUBSET (1..n) -> S] : Folding(h, n, <<>>, step)
  <2> HIDE DEF step, S
  <2>1. QED BY <1>2, FoldExists
<1>4. ASSUME NEW s \in SUBSET (1..n), s # {}
      PROVE  Max(s) \in s /\ Max(s) \in 1..n /\ s \ {Max(s)} \in SUBSET (1..n)
  BY <1>4, MaxOfSome
<1>5. ASSUME NEW s \in SUBSET (1..n)
      PROVE  h[s] = IF s = {} THEN <<>> ELSE Merge(h[s \ {Max(s)}], ps[Max(s)])
  <2>1. CASE s # {}
    <3>1. h[s] = step[<<h[s \ {Max(s)}], Max(s)>>]
      <4> HIDE DEF step
      <4>1. QED BY <1>3, <2>1 DEF Folding
    <3>2. h[s \ {Max(s)}] \in S /\ Max(s) \in 1..n
      <4> HIDE DEF S, step
      <4>1. QED BY <1>3, <1>4, <2>1
    <3>3. QED BY <2>1, <3>1, <3>2
  <2>2. QED BY <1>3, <2>1 DEF Folding
<1>6. Is(h)
  BY <1>5, <1>3
<1>7. Is(f)
  <2> HIDE DEF Is
  <2>1. QED BY <1>6
<1>8. MergeBlocks(ps) = f[1..n]
  BY DEF MergeBlocks, FoldLeft, MapThenFoldSet
<1> HIDE DEF f
<1>9. \A s \in SUBSET (1..n) :
        f[s] = IF s = {} THEN <<>> ELSE Merge(f[s \ {Max(s)}], ps[Max(s)])
  BY <1>7
<1>10. f[{}] = <<>>
  BY <1>9
<1>11. ASSUME NEW s \in SUBSET (1..n), s # {}, f[s \ {Max(s)}] \in S
       PROVE  f[s] = step[<<f[s \ {Max(s)}], Max(s)>>]
  <2>1. f[s] = Merge(f[s \ {Max(s)}], ps[Max(s)]) /\ Max(s) \in 1..n
    BY <1>4, <1>9, <1>11
  <2>2. QED BY <1>11, <2>1
<1>12. PICK r \in [0..n -> S] : r[n] = f[1..n] /\ Runs(r, n, <<>>, step)
  <2> HIDE DEF step, S
  <2>1. FoldsIn(f, n, S, <<>>, step)
    BY <1>10, <1>11 DEF FoldsIn
  <2>2. QED BY <1>2, <2>1, FoldRuns
<1>13. ASSUME NEW i \in 1..n PROVE r[i] = Merge(r[i - 1], ps[i])
  <2>1. r[i] = step[<<r[i - 1], i>>]
    <3> HIDE DEF step, S
    <3>1. QED BY <1>12 DEF Runs
  <2>2. r[i - 1] \in S
    <3> HIDE DEF step, S
    <3>1. i - 1 \in 0..n
      OBVIOUS
    <3>2. QED BY <1>12, <3>1
  <2>3. QED BY <2>1, <2>2
<1>14. r[0] = <<>>
  <2> HIDE DEF step, S
  <2>1. QED BY <1>12 DEF Runs
<1>15. QED BY <1>8, <1>12, <1>13, <1>14 DEF Merging

\* The text of one piece ...
LEMMA JoinedOne ==
  ASSUME NEW Chars, "/" \in Chars, NEW Headings, NEW b \in BlockSet(Chars, Headings)
  PROVE  Joined(<<b>>) = b.text
<1>1. DOMAIN <<b>> = 1..1 /\ <<b>>[1] = b /\ b.text \in Seq(Chars) /\ 1 \in Nat
  BY DEF BlockSet
<1>2. \A i \in 1..1 : <<b>>[i].text \in Seq(Chars)
  BY <1>1
<1>3. PICK r \in [0..1 -> Seq(Chars)] :
        Joining(r, <<b>>, 1)
  BY <1>1, <1>2, JoinedUnfolds
<1>4. 1 \in 1..1 /\ 1 - 1 = 0
  OBVIOUS
<1>5. r[1] = JoinStep(<<>>, b)
  BY <1>1, <1>3, <1>4 DEF Joining
<1>6. QED BY <1>3, <1>5 DEF JoinStep, Joining

\* ... and of one more.
LEMMA JoinedGrows ==
  ASSUME NEW Chars, "/" \in Chars, NEW Headings, NEW b \in BlockSet(Chars, Headings),
         NEW g \in Seq(BlockSet(Chars, Headings))
  PROVE  /\ Joined(g) \in Seq(Chars)
         /\ Joined(Append(g, b)) = JoinStep(Joined(g), b)
<1> DEFINE B == BlockSet(Chars, Headings)
           u == Append(g, b)
           n == Len(g)
<1>1. \A x \in B : x.text \in Seq(Chars)
  BY DEF BlockSet
<1>2. g \in Seq(B) /\ b \in B
  OBVIOUS
<1> HIDE DEF B
<1>3. n \in Nat /\ DOMAIN g = 1..n /\ \A i \in 1..n : g[i] \in B
  BY <1>2, LenProperties, ElementOfSeq
<1>4. /\ u \in Seq(B) /\ Len(u) = n + 1 /\ u[n + 1] = b /\ \A i \in 1..n : u[i] = g[i]
  BY <1>2, AppendProperties
<1> HIDE DEF u, n
<1>5. n + 1 \in Nat /\ DOMAIN u = 1..(n + 1) /\ \A i \in 1..(n + 1) : u[i] \in B
  BY <1>3, <1>4, LenProperties, ElementOfSeq
<1>6. PICK r \in [0..n -> Seq(Chars)] :
        Joining(r, g, n)
  <2>1. \A i \in 1..n : g[i].text \in Seq(Chars)
    BY <1>1, <1>3
  <2>2. QED BY <1>3, <2>1, JoinedUnfolds
<1>7. PICK q \in [0..(n + 1) -> Seq(Chars)] :
        Joining(q, u, n + 1)
  <2>1. \A i \in 1..(n + 1) : u[i].text \in Seq(Chars)
    BY <1>1, <1>5
  <2>2. QED BY <1>5, <2>1, JoinedUnfolds
<1> DEFINE T == {i \in Nat : i <= n => q[i] = r[i]}
<1>8. 0 \in T
  BY <1>6, <1>7 DEF Joining
<1>9. ASSUME NEW i \in Nat, i \in T PROVE i + 1 \in T
  <2>1. SUFFICES ASSUME i + 1 <= n PROVE q[i + 1] = r[i + 1]
    OBVIOUS
  <2>2. i + 1 \in 1..n /\ i + 1 \in 1..(n + 1) /\ (i + 1) - 1 = i /\ i <= n
    BY <1>3, <2>1
  <2>3. r[i + 1] = JoinStep(r[i], g[i + 1]) /\ q[i + 1] = JoinStep(q[i], u[i + 1])
    BY <1>6, <1>7, <2>2 DEF Joining
  <2>4. q[i] = r[i] /\ u[i + 1] = g[i + 1]
    BY <1>4, <1>9, <2>2
  <2>5. QED BY <2>3, <2>4
<1>10. Nat \subseteq T
  <2> HIDE DEF T
  <2>1. QED BY <1>8, <1>9, Induction
<1>11. q[n] = r[n]
  BY <1>3, <1>10
<1>12. q[n + 1] = JoinStep(q[n], u[n + 1])
  <2>1. n + 1 \in 1..(n + 1) /\ (n + 1) - 1 = n
    BY <1>3
  <2>2. QED BY <1>7, <2>1 DEF Joining
<1>13. r[n] \in Seq(Chars)
  <2>1. n \in 0..n
    BY <1>3
  <2>2. QED BY <1>6, <2>1
<1>14. QED BY <1>4, <1>6, <1>7, <1>11, <1>12, <1>13 DEF u, Joining

\* A block that has one place, and fits.
IsPiece(b) ==
  b.text # <<>> /\ Len(b.text) <= ChunkMax /\ b.start = b.end

\* A chunk of one piece keeps its place, ...
LEMMA OnePieceKeepsPlace ==
  ASSUME NEW Chars, "/" \in Chars, NEW Headings, NEW b \in BlockSet(Chars, Headings), IsPiece(b)
  PROVE  KeepsPlace(b, <<b>>)
<1>1. Joined(<<b>>) = b.text
  BY JoinedOne
<1>2. ToSet(<<b>>) = {b}
  BY DEF ToSet
<1>3. b.start \in Nat /\ b.start = b.end
  BY DEF BlockSet, IsPiece
<1>4. {p.start : p \in ToSet(<<b>>)} = b.start..b.end
  BY <1>2, <1>3
<1>5. Len(b.text) <= ChunkMax
  BY DEF IsPiece
<1>6. QED BY <1>1, <1>2, <1>3, <1>4, <1>5 DEF KeepsPlace

\* ... and so does one that takes in a piece that comes after its own.
LEMMA GrownKeepsPlace ==
  ASSUME NEW Chars, "/" \in Chars, NEW Headings,
         NEW b \in BlockSet(Chars, Headings), NEW c \in BlockSet(Chars, Headings),
         NEW g \in Seq(BlockSet(Chars, Headings)), g # <<>>,
         IsPiece(b), c.text # <<>>, KeepsPlace(c, g), Joins(c, b),
         \A p \in ToSet(g) : p.sheet = b.sheet => p.start <= b.start
  PROVE  KeepsPlace(Grown(c, b), Append(g, b)) /\ Grown(c, b).text # <<>>
<1> DEFINE B == BlockSet(Chars, Headings)
           d == Grown(c, b)
           u == Append(g, b)
<1>1. /\ c.text \in Seq(Chars) /\ b.text \in Seq(Chars)
      /\ c.start \in Nat /\ c.end \in Nat /\ b.start \in Nat /\ b.end = b.start
  BY DEF BlockSet, IsPiece
<1>2. /\ d.text = Combined(c.text, b.text) /\ d.end = Max({c.end, b.end})
      /\ d.heading = c.heading /\ d.kind = c.kind /\ d.sheet = c.sheet /\ d.start = c.start
  BY DEF Grown, BlockSet
<1> HIDE DEF d
<1>3. /\ c.text = Joined(g)
      /\ {p.start : p \in ToSet(g)} = c.start..c.end
      /\ \A p \in ToSet(g) :
           /\ p.heading = c.heading /\ p.sheet = c.sheet /\ p.kind = c.kind
           /\ p.kind = "page" => c.start = c.end
  BY DEF KeepsPlace
<1>4. /\ c.kind = b.kind /\ c.sheet = b.sheet /\ c.heading = b.heading
      /\ c.kind = "page" => c.start = b.start /\ c.end = b.end
      /\ b.start <= c.end + 1 /\ Len(Combined(c.text, b.text)) <= ChunkMax
  BY DEF Joins, Compatible
<1>5. ToSet(g) # {} /\ ToSet(u) = ToSet(g) \cup {b}
  <2>1. Len(g) \in Nat /\ Len(g) # 0 /\ DOMAIN g = 1..Len(g)
    OBVIOUS
  <2>2. /\ Len(u) = Len(g) + 1 /\ u[Len(g) + 1] = b /\ (\A i \in 1..Len(g) : u[i] = g[i])
        /\ u \in Seq(B)
    BY AppendProperties
  <2>3. DOMAIN u = 1..(Len(g) + 1)
    BY <2>2, LenProperties
  <2>4. \A i \in 1..(Len(g) + 1) : i \in 1..Len(g) \/ i = Len(g) + 1
    BY <2>1
  <2> HIDE DEF u
  <2>5. 1 \in DOMAIN g
    BY <2>1
  <2>6. ToSet(g) # {}
    BY <2>5 DEF ToSet
  <2>7. \A x \in ToSet(u) : x \in ToSet(g) \cup {b}
    BY <2>1, <2>2, <2>3, <2>4 DEF ToSet
  <2>8. \A x \in ToSet(g) : x \in ToSet(u)
    <3>1. \A i \in DOMAIN g : i \in DOMAIN u /\ u[i] = g[i]
      BY <2>1, <2>2, <2>3
    <3>2. QED BY <3>1 DEF ToSet
  <2>9. b \in ToSet(u)
    <3>1. Len(g) + 1 \in DOMAIN u
      BY <2>1, <2>3
    <3>2. QED BY <2>2, <3>1 DEF ToSet
  <2>10. QED BY <2>6, <2>7, <2>8, <2>9
<1>6. c.start <= c.end
  <2>1. PICK p \in ToSet(g) : TRUE
    BY <1>5
  <2>2. p.start \in c.start..c.end
    BY <1>3, <2>1
  <2>3. QED BY <1>1, <2>2
<1>7. c.end <= b.start
  <2>1. c.end \in c.start..c.end
    BY <1>1, <1>6
  <2>2. PICK p \in ToSet(g) : p.start = c.end
    BY <1>3, <2>1
  <2>3. p.sheet = b.sheet
    BY <1>3, <1>4, <2>2
  <2>4. QED BY <2>2, <2>3
<1>8. d.end = b.start
  <2>1. Max({c.end, b.end}) = IF c.end <= b.end THEN b.end ELSE c.end
    BY <1>1, GreaterOfTwo
  <2>2. QED BY <1>1, <1>2, <1>7, <2>1
<1>9. {p.start : p \in ToSet(u)} = d.start..d.end
  <2>1. {p.start : p \in ToSet(u)} = (c.start..c.end) \cup {b.start}
    BY <1>3, <1>5
  <2>2. (c.start..c.end) \cup {b.start} = c.start..b.start
    BY <1>1, <1>4, <1>6, <1>7
  <2>3. QED BY <1>2, <1>8, <2>1, <2>2
<1>10. d.text = Joined(u)
  <2>1. Joined(u) = JoinStep(Joined(g), b)
    BY JoinedGrows
  <2>2. Joined(g) # <<>>
    BY <1>3
  <2>3. QED BY <1>2, <1>3, <2>1, <2>2 DEF JoinStep
<1>11. \A p \in ToSet(u) :
         /\ p.heading = d.heading /\ p.sheet = d.sheet /\ p.kind = d.kind
         /\ p.kind = "page" => d.start = d.end
  BY <1>1, <1>2, <1>3, <1>4, <1>5, <1>8
<1>12. d.text # <<>>
  <2> DEFINE ct == c.text
             bt == b.text
  <2>1. ct \in Seq(Chars) /\ bt \in Seq(Chars) /\ d.text = Combined(ct, bt)
    BY <1>1, <1>2
  <2> HIDE DEF ct, bt
  <2>2. /\ Combined(ct, bt) \in Seq(Chars)
        /\ Len(Combined(ct, bt)) = Len(ct) + Len(bt) + 2
        /\ Len(ct) \in Nat /\ Len(bt) \in Nat
    <3>1. ct \in Seq(Chars) /\ bt \in Seq(Chars)
      BY <2>1
    <3>2. Len(Combined(ct, bt)) = Len(ct) + Len(bt) + 2 /\ Combined(ct, bt) \in Seq(Chars)
      BY <3>1, CombinedIs
    <3>3. Len(ct) \in Nat /\ Len(bt) \in Nat
      BY <3>1
    <3>4. QED BY <3>2, <3>3
  <2>3. Len(Combined(ct, bt)) # 0
    BY <2>2
  <2>4. QED BY <2>1, <2>3
<1> HIDE DEF u
<1>13. KeepsPlace(d, u)
  BY <1>2, <1>4, <1>9, <1>10, <1>11 DEF KeepsPlace
<1>14. QED BY <1>12, <1>13 DEF d, u

\* A part of a sequence, ...
LEMMA PartOf ==
  ASSUME NEW S, NEW s \in Seq(S), NEW lo \in Nat, NEW hi \in Nat, lo <= hi, hi <= Len(s)
  PROVE  /\ SubSeq(s, lo + 1, hi) \in Seq(S) /\ Len(SubSeq(s, lo + 1, hi)) = hi - lo
         /\ \A k \in 1..(hi - lo) : SubSeq(s, lo + 1, hi)[k] = s[lo + k]
<1> DEFINE n == Len(s)
           u == SubSeq(s, lo + 1, hi)
<1>1. n \in Nat /\ hi <= n /\ \A k \in 1..n : s[k] \in S
  BY ElementOfSeq
<1> HIDE DEF n
<1>2. lo + 1 \in Int /\ hi \in Int /\ \A k \in (lo + 1)..hi : s[k] \in S
  BY <1>1
<1>3. /\ u \in Seq(S) /\ Len(u) = IF lo + 1 <= hi THEN hi - (lo + 1) + 1 ELSE 0
      /\ \A k \in 1..(hi - (lo + 1) + 1) : u[k] = s[(lo + 1) + k - 1]
  BY <1>2, SubSeqProperties
<1> HIDE DEF u
<1>4. Len(u) = hi - lo
  <2>1. Len(u) = IF lo + 1 <= hi THEN hi - (lo + 1) + 1 ELSE 0
    BY <1>3
  <2>2. QED BY <2>1
<1>5. ASSUME NEW k \in 1..(hi - lo) PROVE u[k] = s[lo + k]
  <2>1. k \in 1..(hi - (lo + 1) + 1) /\ (lo + 1) + k - 1 = lo + k
    OBVIOUS
  <2>2. QED BY <1>3, <2>1
<1>6. QED BY <1>3, <1>4, <1>5 DEF u

\* ... one that is an element longer, ...
LEMMA PartGrows ==
  ASSUME NEW S, NEW s \in Seq(S), NEW lo \in Nat, NEW hi \in Nat, lo <= hi, hi < Len(s)
  PROVE  SubSeq(s, lo + 1, hi + 1) = Append(SubSeq(s, lo + 1, hi), s[hi + 1])
<1> DEFINE n == Len(s)
           u == SubSeq(s, lo + 1, hi)
           v == SubSeq(s, lo + 1, hi + 1)
           w == Append(u, s[hi + 1])
<1>1. n \in Nat /\ hi < n /\ \A k \in 1..n : s[k] \in S
  BY ElementOfSeq
<1>2. u \in Seq(S) /\ Len(u) = hi - lo /\ \A k \in 1..(hi - lo) : u[k] = s[lo + k]
  <2>1. hi <= Len(s)
    BY <1>1
  <2>2. QED BY <2>1, PartOf
<1>3. v \in Seq(S) /\ Len(v) = (hi + 1) - lo /\ \A k \in 1..((hi + 1) - lo) : v[k] = s[lo + k]
  <2>1. hi + 1 <= Len(s) /\ lo <= hi + 1 /\ hi + 1 \in Nat
    BY <1>1
  <2>2. QED BY <2>1, PartOf
<1> HIDE DEF n, u, v
<1>4. s[hi + 1] \in S
  BY <1>1
<1>5. /\ w \in Seq(S) /\ Len(w) = Len(u) + 1 /\ (\A k \in 1..Len(u) : w[k] = u[k])
      /\ w[Len(u) + 1] = s[hi + 1]
  <2>1. u \in Seq(S)
    BY <1>2
  <2> DEFINE x == s[hi + 1]
  <2>2. x \in S
    BY <1>4
  <2> HIDE DEF x
  <2>3. /\ Append(u, x) \in Seq(S) /\ Len(Append(u, x)) = Len(u) + 1
        /\ (\A k \in 1..Len(u) : Append(u, x)[k] = u[k]) /\ Append(u, x)[Len(u) + 1] = x
    BY <2>1, <2>2, OneMore
  <2>4. QED BY <2>3 DEF x
<1> HIDE DEF w
<1>6. Len(v) = Len(w)
  BY <1>2, <1>3, <1>5
<1>7. ASSUME NEW k \in 1..Len(v) PROVE v[k] = w[k]
  <2>1. v[k] = s[lo + k]
    BY <1>3
  <2>2. CASE k = hi + 1 - lo
    <3>1. lo + k = hi + 1 /\ k = Len(u) + 1
      BY <1>2, <2>2
    <3>2. QED BY <1>5, <2>1, <3>1
  <2>3. CASE k # hi + 1 - lo
    <3>1. k \in 1..(hi - lo)
      BY <1>3, <2>3
    <3>2. QED BY <1>2, <1>5, <2>1, <3>1
  <2>4. QED BY <2>2, <2>3
<1>8. v = w
  BY <1>3, <1>5, <1>6, <1>7, SeqEqual
<1>9. QED BY <1>8 DEF v, w, u

\* ... and one of a single element.
LEMMA PartIsOne ==
  ASSUME NEW S, NEW s \in Seq(S), NEW i \in Nat, i < Len(s)
  PROVE  SubSeq(s, i + 1, i + 1) = <<s[i + 1]>>
<1> DEFINE v == SubSeq(s, i + 1, i + 1)
           n == Len(s)
<1>1. n \in Nat /\ i < n /\ \A k \in 1..n : s[k] \in S
  BY ElementOfSeq
<1>2. i <= i + 1 /\ i + 1 \in Nat /\ i + 1 <= Len(s)
  BY <1>1
<1>3. v \in Seq(S) /\ Len(v) = (i + 1) - i /\ \A k \in 1..((i + 1) - i) : v[k] = s[i + k]
  BY <1>2, PartOf
<1> HIDE DEF v, n
<1>4. Len(v) = 1 /\ v[1] = s[i + 1] /\ s[i + 1] \in S
  <2>1. (i + 1) - i = 1 /\ 1 \in 1..1 /\ i + 1 \in 1..n
    BY <1>1
  <2>2. QED BY <1>1, <1>3, <2>1
<1> DEFINE w == <<s[i + 1]>>
<1>5. w \in Seq(S) /\ Len(w) = 1 /\ w[1] = s[i + 1]
  BY <1>4
<1> HIDE DEF w
<1>6. \A k \in 1..Len(v) : v[k] = w[k]
  BY <1>4, <1>5
<1>7. v = w
  BY <1>3, <1>4, <1>5, <1>6, SeqEqual
<1>8. QED BY <1>7 DEF v, w

\* The pieces that a document makes, in their order.
PiecesOf(ps, Chars, Headings) ==
  /\ ps \in Seq(BlockSet(Chars, Headings))
  /\ \A i \in 1..Len(ps) : IsPiece(ps[i])
  /\ \A i, j \in 1..Len(ps) : i <= j /\ ps[i].sheet = ps[j].sheet => ps[i].start <= ps[j].start

\* The chunks m are the first i pieces, cut where cut says.
CutInto(ps, i, m, cuts) ==
  /\ cuts \in [0..Len(m) -> 0..i] /\ cuts[0] = 0 /\ cuts[Len(m)] = i
  /\ \A j \in 1..Len(m) : /\ cuts[j - 1] < cuts[j] /\ m[j].text # <<>>
                          /\ KeepsPlace(m[j], SubSeq(ps, cuts[j - 1] + 1, cuts[j]))
  /\ \A j \in 2..Len(m) : ~Joins(m[j - 1], ps[cuts[j - 1] + 1])

\* The first chunk is the first piece.
LEMMA MergeStarts ==
  ASSUME NEW Chars, NEW Headings, "/" \in Chars, NEW ps, PiecesOf(ps, Chars, Headings),
         Len(ps) # 0
  PROVE  \E cuts : CutInto(ps, 1, <<ps[1]>>, cuts)
<1> DEFINE b == ps[1]
           cuts == [j \in 0..1 |-> j]
           m == <<b>>
<1>1. /\ 1 \in 1..Len(ps) /\ b \in BlockSet(Chars, Headings) /\ IsPiece(b)
      /\ ps \in Seq(BlockSet(Chars, Headings))
  <2>1. ps \in Seq(BlockSet(Chars, Headings))
    BY DEF PiecesOf
  <2>2. Len(ps) \in Nat
    BY <2>1
  <2>3. 1 \in 1..Len(ps)
    BY <2>2
  <2>4. QED BY <2>1, <2>3, ElementOfSeq DEF PiecesOf
<1> HIDE DEF b
<1>2. KeepsPlace(b, <<b>>) /\ b.text # <<>>
  BY <1>1, OnePieceKeepsPlace DEF IsPiece
<1>3. SubSeq(ps, 0 + 1, 1) = <<b>>
  <2>1. 0 < Len(ps) /\ 0 + 1 = 1
    BY <1>1
  <2>2. SubSeq(ps, 0 + 1, 0 + 1) = <<ps[0 + 1]>>
    BY <1>1, <2>1, PartIsOne
  <2>3. QED BY <2>1, <2>2 DEF b
<1>4. Len(m) = 1 /\ m[1] = b
  OBVIOUS
<1> HIDE DEF m
<1>5. cuts \in [0..1 -> 0..1] /\ cuts[0] = 0 /\ cuts[1] = 1
  OBVIOUS
<1> HIDE DEF cuts
<1>6. \A j \in 1..1 : j = 1 /\ j - 1 = 0
  OBVIOUS
<1>7. \A j \in 1..1 : /\ cuts[j - 1] < cuts[j] /\ m[j].text # <<>>
                      /\ KeepsPlace(m[j], SubSeq(ps, cuts[j - 1] + 1, cuts[j]))
  <2>1. SubSeq(ps, cuts[0] + 1, cuts[1]) = <<b>> /\ cuts[0] < cuts[1]
    BY <1>3, <1>5
  <2>2. m[1].text # <<>> /\ KeepsPlace(m[1], SubSeq(ps, cuts[0] + 1, cuts[1]))
    BY <1>2, <1>4, <2>1
  <2>3. QED BY <1>6, <2>1, <2>2
<1>8. 2..1 = {}
  OBVIOUS
<1>9. CutInto(ps, 1, m, cuts)
  BY <1>4, <1>5, <1>7, <1>8 DEF CutInto
<1>10. QED BY <1>9 DEF m, b

\* A piece that starts a chunk is a new cut, ...
LEMMA MergeAppends ==
  ASSUME NEW Chars, NEW Headings, "/" \in Chars, NEW ps, PiecesOf(ps, Chars, Headings),
         NEW i \in Nat, i < Len(ps), NEW m \in Seq(BlockSet(Chars, Headings)), m # <<>>,
         NEW cuts, CutInto(ps, i, m, cuts), ~Joins(Last(m), ps[i + 1])
  PROVE  \E c : CutInto(ps, i + 1, Append(m, ps[i + 1]), c)
<1> DEFINE B == BlockSet(Chars, Headings)
           b == ps[i + 1]
           n == Len(m)
           u == Append(m, b)
           c == [j \in 0..(n + 1) |-> IF j = n + 1 THEN i + 1 ELSE cuts[j]]
<1>1. ps \in Seq(B) /\ i + 1 \in 1..Len(ps) /\ b \in B /\ IsPiece(b)
  <2>1. ps \in Seq(B)
    BY DEF PiecesOf
  <2>2. Len(ps) \in Nat
    BY <2>1
  <2>3. i + 1 \in 1..Len(ps)
    BY <2>2
  <2> HIDE DEF B
  <2>4. b \in B
    BY <2>1, <2>3, ElementOfSeq
  <2>5. QED BY <2>1, <2>3, <2>4 DEF PiecesOf
<1>2. m \in Seq(B) /\ Last(m) = m[n]
  BY DEF Last
<1> HIDE DEF b
<1>3. n \in Nat /\ n # 0
  BY <1>2
<1>4. /\ cuts \in [0..n -> 0..i] /\ cuts[0] = 0 /\ cuts[n] = i
      /\ \A j \in 1..n : /\ cuts[j - 1] < cuts[j] /\ m[j].text # <<>>
                         /\ KeepsPlace(m[j], SubSeq(ps, cuts[j - 1] + 1, cuts[j]))
      /\ \A j \in 2..n : ~Joins(m[j - 1], ps[cuts[j - 1] + 1])
  BY DEF CutInto
<1>5. Len(u) = n + 1 /\ u[n + 1] = b /\ \A j \in 1..n : u[j] = m[j]
  <2> HIDE DEF B
  <2>1. QED BY <1>1, <1>2, AppendProperties
<1> HIDE DEF n, u, B
<1>6. \A j \in 0..n : j \in 0..(n + 1) /\ j # n + 1
  BY <1>3
<1>7. (\A j \in 0..n : c[j] = cuts[j]) /\ c[n + 1] = i + 1
  BY <1>3, <1>6
<1>8. c \in [0..(n + 1) -> 0..(i + 1)]
  <2>1. \A j \in 0..n : cuts[j] \in 0..(i + 1)
    BY <1>4
  <2>2. \A j \in 0..(n + 1) : j # n + 1 => j \in 0..n
    BY <1>3
  <2>3. i + 1 \in 0..(i + 1)
    OBVIOUS
  <2>4. QED BY <2>1, <2>2, <2>3
<1> HIDE DEF c
<1>9. ASSUME NEW j \in 1..(n + 1)
      PROVE  /\ c[j - 1] < c[j] /\ u[j].text # <<>>
             /\ KeepsPlace(u[j], SubSeq(ps, c[j - 1] + 1, c[j]))
  <2>1. CASE j = n + 1
    <3>1. j - 1 = n /\ n \in 0..n
      BY <1>3, <2>1
    <3>2. c[j - 1] = i /\ c[j] = i + 1 /\ u[j] = b
      BY <1>4, <1>5, <1>7, <2>1, <3>1
    <3>3. SubSeq(ps, i + 1, i + 1) = <<b>>
      BY <1>1, PartIsOne DEF b
    <3>4. KeepsPlace(b, <<b>>) /\ b.text # <<>>
      BY <1>1, OnePieceKeepsPlace DEF IsPiece, B
    <3>5. SubSeq(ps, c[j - 1] + 1, c[j]) = <<b>> /\ c[j - 1] < c[j]
      BY <3>2, <3>3
    <3>6. QED BY <3>2, <3>4, <3>5
  <2>2. CASE j # n + 1
    <3>1. j \in 1..n /\ j \in 0..n /\ j - 1 \in 0..n
      BY <1>3, <2>2
    <3>2. c[j - 1] = cuts[j - 1] /\ c[j] = cuts[j] /\ u[j] = m[j]
      BY <1>5, <1>7, <3>1
    <3>3. QED BY <1>4, <3>1, <3>2
  <2>3. QED BY <2>1, <2>2
<1>10. ASSUME NEW j \in 2..(n + 1) PROVE ~Joins(u[j - 1], ps[c[j - 1] + 1])
  <2>1. j - 1 \in 1..n /\ j - 1 \in 0..n
    BY <1>3
  <2>2. u[j - 1] = m[j - 1] /\ c[j - 1] = cuts[j - 1]
    BY <1>5, <1>7, <2>1
  <2>3. CASE j = n + 1
    <3>1. j - 1 = n
      BY <1>3, <2>3
    <3>2. QED BY <1>2, <1>4, <2>2, <3>1 DEF b
  <2>4. CASE j # n + 1
    <3>1. j \in 2..n
      BY <1>3, <2>4
    <3>2. QED BY <1>4, <2>2, <3>1
  <2>5. QED BY <2>3, <2>4
<1>11. c[0] = 0
  BY <1>3, <1>4, <1>7
<1>12. CutInto(ps, i + 1, u, c)
  BY <1>5, <1>7, <1>8, <1>9, <1>10, <1>11 DEF CutInto
<1>13. QED BY <1>12 DEF u, b

\* ... one that is taken in moves the last cut on, ...
LEMMA MergeGrows ==
  ASSUME NEW Chars, NEW Headings, "/" \in Chars, NEW ps, PiecesOf(ps, Chars, Headings),
         NEW i \in Nat, i < Len(ps), NEW m \in Seq(BlockSet(Chars, Headings)), m # <<>>,
         NEW cuts, CutInto(ps, i, m, cuts), Joins(Last(m), ps[i + 1])
  PROVE  \E c : CutInto(ps, i + 1, Append(Front(m), Grown(Last(m), ps[i + 1])), c)
<1> DEFINE B == BlockSet(Chars, Headings)
           b == ps[i + 1]
           n == Len(m)
           d == Grown(Last(m), b)
           u == Append(Front(m), d)
           c == [j \in 0..n |-> IF j = n THEN i + 1 ELSE cuts[j]]
<1>1. ps \in Seq(B) /\ i + 1 \in 1..Len(ps) /\ b \in B /\ IsPiece(b)
  <2>1. ps \in Seq(B)
    BY DEF PiecesOf
  <2>2. Len(ps) \in Nat
    BY <2>1
  <2>3. i + 1 \in 1..Len(ps)
    BY <2>2
  <2> HIDE DEF B
  <2>4. b \in B
    BY <2>1, <2>3, ElementOfSeq
  <2>5. QED BY <2>1, <2>3, <2>4 DEF PiecesOf
<1>2. /\ Last(m) = m[n] /\ m[n] \in B /\ n \in Nat \ {0}
      /\ Front(m) \in Seq(B) /\ Len(Front(m)) = n - 1
      /\ \A j \in 1..(n - 1) : Front(m)[j] = m[j]
  <2> HIDE DEF B
  <2>1. m \in Seq(B)
    BY DEF B
  <2>2. QED BY <2>1, FrontAndLast
<1>3. d \in B
  BY <1>1, <1>2, MergeIs
<1>4. /\ cuts \in [0..n -> 0..i] /\ cuts[0] = 0 /\ cuts[n] = i
      /\ \A j \in 1..n : /\ cuts[j - 1] < cuts[j] /\ m[j].text # <<>>
                         /\ KeepsPlace(m[j], SubSeq(ps, cuts[j - 1] + 1, cuts[j]))
      /\ \A j \in 2..n : ~Joins(m[j - 1], ps[cuts[j - 1] + 1])
  BY DEF CutInto
<1> HIDE DEF b, d
<1>5. Len(u) = n /\ u[n] = d /\ \A j \in 1..(n - 1) : u[j] = m[j]
  <2> DEFINE w == Front(m)
  <2> HIDE DEF B, w, n
  <2>1. w \in Seq(B) /\ Len(w) = n - 1 /\ n \in Nat \ {0} /\ \A j \in 1..(n - 1) : w[j] = m[j]
    BY <1>2 DEF w
  <2>2. /\ Len(Append(w, d)) = Len(w) + 1 /\ Append(w, d)[Len(w) + 1] = d
        /\ \A j \in 1..Len(w) : Append(w, d)[j] = w[j]
    BY <1>3, <2>1, AppendProperties
  <2>3. Len(w) + 1 = n
    BY <2>1
  <2>4. QED BY <2>1, <2>2, <2>3 DEF w
<1> HIDE DEF n, u, B
<1>6. \A j \in 0..(n - 1) : j \in 0..n /\ j # n
  BY <1>2
<1>7. (\A j \in 0..(n - 1) : c[j] = cuts[j]) /\ c[n] = i + 1
  BY <1>2, <1>6
<1>8. c \in [0..n -> 0..(i + 1)]
  <2>1. \A j \in 0..n : cuts[j] \in 0..(i + 1)
    BY <1>4
  <2>2. i + 1 \in 0..(i + 1)
    OBVIOUS
  <2>3. QED BY <2>1, <2>2
<1> HIDE DEF c
<1> DEFINE lo == cuts[n - 1]
           g  == SubSeq(ps, lo + 1, i)
<1>9. lo \in Nat /\ lo < i /\ n - 1 \in 0..n /\ n \in 1..n
  <2>1. n - 1 \in 0..n /\ n \in 1..n
    BY <1>2
  <2>2. lo \in 0..i /\ lo < cuts[n]
    BY <1>4, <2>1
  <2>3. QED BY <1>4, <2>1, <2>2
<1> HIDE DEF lo
<1>10. KeepsPlace(m[n], g) /\ m[n].text # <<>>
  BY <1>4, <1>9 DEF lo
<1>11. /\ g \in Seq(B) /\ Len(g) = i - lo /\ \A k \in 1..(i - lo) : g[k] = ps[lo + k]
       /\ SubSeq(ps, lo + 1, i + 1) = Append(g, b)
  <2> DEFINE s == Len(ps)
  <2>1. lo <= i /\ i <= Len(ps)
    <3>1. s \in Nat /\ i < s
      BY <1>1
    <3> HIDE DEF s
    <3>2. lo <= i /\ i <= s
      BY <1>9, <3>1
    <3>3. QED BY <3>2 DEF s
  <2>2. QED BY <1>1, <1>9, <2>1, PartOf, PartGrows DEF b
<1> HIDE DEF g
<1>12. g # <<>> /\ \A p \in ToSet(g) : p.sheet = b.sheet => p.start <= b.start
  <2>1. g # <<>>
    <3>1. i - lo # 0
      BY <1>9
    <3>2. QED BY <1>11, <3>1
  <2>2. DOMAIN g = 1..(i - lo)
    BY <1>11, LenProperties
  <2>3. ASSUME NEW k \in 1..(i - lo), g[k].sheet = b.sheet PROVE g[k].start <= b.start
    <3>1. lo + k \in 1..Len(ps) /\ lo + k <= i + 1
      <4> DEFINE s == Len(ps)
      <4>1. s \in Nat /\ i < s
        BY <1>1
      <4> HIDE DEF s
      <4>2. lo + k \in 1..s /\ lo + k <= i + 1
        BY <1>9, <4>1
      <4>3. QED BY <4>2 DEF s
    <3>2. g[k] = ps[lo + k]
      BY <1>11
    <3>3. QED BY <1>1, <2>3, <3>1, <3>2 DEF PiecesOf, b
  <2>4. QED BY <2>1, <2>2, <2>3 DEF ToSet
<1>13. KeepsPlace(d, Append(g, b)) /\ d.text # <<>>
  <2>1. Joins(m[n], b)
    BY <1>2 DEF b
  <2>2. d = Grown(m[n], b)
    BY <1>2 DEF d
  <2>3. QED BY <1>1, <1>2, <1>10, <1>11, <1>12, <2>1, <2>2, GrownKeepsPlace DEF B
<1>14. ASSUME NEW j \in 1..n
       PROVE  /\ c[j - 1] < c[j] /\ u[j].text # <<>>
              /\ KeepsPlace(u[j], SubSeq(ps, c[j - 1] + 1, c[j]))
  <2>1. CASE j = n
    <3>1. j - 1 = n - 1 /\ n - 1 \in 0..(n - 1)
      BY <1>2, <2>1
    <3>2. c[j - 1] = lo /\ c[j] = i + 1 /\ u[j] = d
      BY <1>5, <1>7, <2>1, <3>1 DEF lo
    <3>3. SubSeq(ps, c[j - 1] + 1, c[j]) = Append(g, b)
      BY <1>11, <3>2
    <3>4. lo < i + 1
      BY <1>9
    <3>5. QED BY <1>13, <3>2, <3>3, <3>4
  <2>2. CASE j # n
    <3>1. j \in 1..(n - 1) /\ j \in 0..(n - 1) /\ j - 1 \in 0..(n - 1)
      BY <1>2, <2>2
    <3>2. c[j - 1] = cuts[j - 1] /\ c[j] = cuts[j] /\ u[j] = m[j]
      BY <1>5, <1>7, <3>1
    <3>3. QED BY <1>4, <3>1, <3>2
  <2>3. QED BY <2>1, <2>2
<1>15. ASSUME NEW j \in 2..n PROVE ~Joins(u[j - 1], ps[c[j - 1] + 1])
  <2>1. j - 1 \in 1..(n - 1) /\ j - 1 \in 0..(n - 1)
    BY <1>2
  <2>2. u[j - 1] = m[j - 1] /\ c[j - 1] = cuts[j - 1]
    BY <1>5, <1>7, <2>1
  <2>3. QED BY <1>4, <2>2
<1>16. c[0] = 0
  <2>1. 0 \in 0..(n - 1)
    BY <1>2
  <2>2. QED BY <1>4, <1>7, <2>1
<1>17. CutInto(ps, i + 1, u, c)
  BY <1>5, <1>7, <1>8, <1>14, <1>15, <1>16 DEF CutInto
<1>18. QED BY <1>17 DEF u, d, b

\* ... so that the chunks are always the pieces up to now, cut somewhere.
LEMMA MergeKeepsCuts ==
  ASSUME NEW Chars, NEW Headings, "/" \in Chars, NEW ps, PiecesOf(ps, Chars, Headings),
         NEW i \in Nat, i < Len(ps), NEW m \in Seq(BlockSet(Chars, Headings)),
         NEW cuts, CutInto(ps, i, m, cuts)
  PROVE  /\ Merge(m, ps[i + 1]) \in Seq(BlockSet(Chars, Headings))
         /\ \E c : CutInto(ps, i + 1, Merge(m, ps[i + 1]), c)
<1> DEFINE B == BlockSet(Chars, Headings)
           b == ps[i + 1]
           s == Len(ps)
<1>1. ps \in Seq(B)
  BY DEF PiecesOf
<1>2. s \in Nat /\ i < s
  BY <1>1
<1> HIDE DEF s
<1>3. i + 1 \in 1..s /\ s # 0
  BY <1>2
<1>4. b \in B
  <2> HIDE DEF B
  <2>1. QED BY <1>1, <1>3, ElementOfSeq DEF s
<1>5. Merge(m, b) \in Seq(B)
  BY <1>4, MergeIs
<1>6. CASE m = <<>>
  <2>1. Merge(m, b) = <<b>>
    BY <1>6 DEF Merge
  <2>2. i = 0
    <3>1. Len(m) = 0
      BY <1>6
    <3>2. QED BY <3>1 DEF CutInto
  <2>3. \E c : CutInto(ps, 1, <<ps[1]>>, c)
    BY <1>3, MergeStarts DEF s
  <2>4. QED BY <1>5, <2>1, <2>2, <2>3
<1>7. CASE m # <<>> /\ Joins(Last(m), b)
  <2>1. Merge(m, b) = Append(Front(m), Grown(Last(m), b))
    BY <1>4, <1>7, MergeIs
  <2>2. QED BY <1>5, <1>7, <2>1, MergeGrows
<1>8. CASE m # <<>> /\ ~Joins(Last(m), b)
  <2>1. Merge(m, b) = Append(m, b)
    BY <1>4, <1>8, MergeIs
  <2>2. QED BY <1>5, <1>8, <2>1, MergeAppends
<1>9. QED BY <1>6, <1>7, <1>8

\* The chunks of the pieces of a document are the pieces in groups.
LEMMA MergeBlocksCuts ==
  ASSUME NEW Chars, NEW Headings, "/" \in Chars, NEW ps, PiecesOf(ps, Chars, Headings)
  PROVE  /\ MergeBlocks(ps) \in Seq(BlockSet(Chars, Headings))
         /\ \E cuts : CutInto(ps, Len(ps), MergeBlocks(ps), cuts)
<1> DEFINE B == BlockSet(Chars, Headings)
           n == Len(ps)
<1>1. ps \in Seq(B)
  BY DEF PiecesOf
<1>2. n \in Nat /\ DOMAIN ps = 1..n /\ \A i \in 1..n : ps[i] \in B
  <2> HIDE DEF B
  <2>1. QED BY <1>1, LenProperties, ElementOfSeq
<1> HIDE DEF n
<1>3. PICK r \in [0..n -> Seq(B)] : Merging(r, ps, n)
  BY <1>2, MergeUnfolds
<1> HIDE DEF B
<1> DEFINE T == {i \in Nat : i <= n => r[i] \in Seq(B) /\ \E cuts : CutInto(ps, i, r[i], cuts)}
<1>4. 0 \in T
  <2>1. r[0] = <<>>
    BY <1>3 DEF Merging
  <2> DEFINE c == [j \in 0..0 |-> 0]
  <2>2. c \in [0..0 -> 0..0] /\ c[0] = 0 /\ Len(<<>>) = 0 /\ 1..0 = {} /\ 2..0 = {}
    OBVIOUS
  <2> HIDE DEF c
  <2>3. CutInto(ps, 0, <<>>, c)
    BY <2>2 DEF CutInto
  <2>4. QED BY <2>1, <2>3, EmptySeq
<1>5. ASSUME NEW i \in Nat, i \in T PROVE i + 1 \in T
  <2>1. SUFFICES ASSUME i + 1 <= n
                 PROVE  r[i + 1] \in Seq(B) /\ \E cuts : CutInto(ps, i + 1, r[i + 1], cuts)
    OBVIOUS
  <2>2. i + 1 \in 1..n /\ (i + 1) - 1 = i /\ i <= n /\ i < n
    BY <1>2, <2>1
  <2>3. r[i + 1] = Merge(r[i], ps[i + 1])
    BY <1>3, <2>2 DEF Merging
  <2>4. PICK cuts : CutInto(ps, i, r[i], cuts)
    BY <1>5, <2>2
  <2>5. r[i] \in Seq(B)
    BY <1>5, <2>2
  <2>6. QED BY <2>2, <2>3, <2>4, <2>5, MergeKeepsCuts DEF n, B
<1>6. Nat \subseteq T
  <2> HIDE DEF T
  <2>1. QED BY <1>4, <1>5, Induction
<1>7. r[n] = MergeBlocks(ps)
  BY <1>3 DEF Merging
<1>8. r[n] \in Seq(B) /\ \E cuts : CutInto(ps, n, r[n], cuts)
  BY <1>2, <1>6
<1>9. QED BY <1>7, <1>8 DEF n, B

\* An ascending sequence of numbers.
Rising(c, n) ==
  c \in [1..n -> Nat] /\ \A i, j \in 1..n : i < j => c[i] < c[j]

\* Ascending gives the ascending sequence of a set back.
LEMMA AscendingIs ==
  ASSUME NEW n \in Nat, NEW c, Rising(c, n)
  PROVE  LET S == {c[i] : i \in 1..n}
         IN /\ IsFiniteSet(S) /\ Cardinality(S) = n /\ Ascending(S) = c
<1> DEFINE S == {c[i] : i \in 1..n}
           Low(x) == {y \in S : y <= x}
<1>1. c \in [1..n -> Nat] /\ \A i, j \in 1..n : i < j => c[i] < c[j]
  BY DEF Rising
<1>2. ASSUME NEW k \in 0..n
      PROVE  LET P == {c[i] : i \in 1..k} IN IsFiniteSet(P) /\ Cardinality(P) = k
  <2> DEFINE P == {c[i] : i \in 1..k}
             f == [i \in 1..k |-> c[i]]
  <2>1. \A i \in 1..k : i \in 1..n
    OBVIOUS
  <2>2. f \in [1..k -> P] /\ (\A a, b \in 1..k : f[a] = f[b] => a = b)
    <3>1. ASSUME NEW a \in 1..k, NEW b \in 1..k, f[a] = f[b] PROVE a = b
      <4>1. c[a] = c[b] /\ c[a] \in Nat /\ a \in 1..n /\ b \in 1..n
        BY <1>1, <2>1, <3>1
      <4>2. ~(c[a] < c[b]) /\ ~(c[b] < c[a])
        BY <4>1
      <4>3. ~(a < b) /\ ~(b < a)
        BY <1>1, <4>1, <4>2
      <4>4. QED BY <4>3
    <3>2. QED BY <3>1
  <2>3. \A t \in P : \E s \in 1..k : f[s] = t
    OBVIOUS
  <2> HIDE DEF f
  <2>4. f \in Bijection(1..k, P)
    BY <2>2, <2>3 DEF Bijection, Injection, Surjection, IsInjective
  <2> HIDE DEF P
  <2>9. Bijection(1..k, P) # {} /\ k \in Nat
    BY <2>4
  <2>5. ExistsBijection(1..k, P) /\ k \in Nat
    BY <2>9 DEF ExistsBijection
  <2>6. IsFiniteSet(P)
    BY <2>5, FS_NatBijection
  <2>7. Cardinality(P) = k
    BY <2>5, FS_CountingElements
  <2>8. QED BY <2>6, <2>7 DEF P
<1>3. IsFiniteSet(S) /\ Cardinality(S) = n
  <2>1. n \in 0..n
    OBVIOUS
  <2>2. QED BY <1>2, <2>1
<1>4. ASSUME NEW k \in 1..n PROVE Cardinality(Low(c[k])) = k
  <2> DEFINE P == {c[i] : i \in 1..k}
  <2>1. Low(c[k]) = P
    <3>1. ASSUME NEW y \in S, y <= c[k] PROVE y \in P
      <4>1. PICK i \in 1..n : y = c[i]
        OBVIOUS
      <4>2. c[i] \in Nat /\ c[k] \in Nat
        BY <1>1
      <4>3. ~(c[k] < c[i])
        BY <3>1, <4>1, <4>2
      <4>4. ~(k < i)
        BY <1>1, <4>3
      <4>5. i \in 1..k
        BY <4>4
      <4>6. QED BY <4>1, <4>5
    <3>2. ASSUME NEW y \in P PROVE y \in S /\ y <= c[k]
      <4>1. PICK i \in 1..k : y = c[i]
        OBVIOUS
      <4>2. i \in 1..n /\ c[i] \in Nat /\ c[k] \in Nat
        BY <1>1
      <4>3. c[i] <= c[k]
        <5>1. CASE i = k
          BY <4>2, <5>1
        <5>2. CASE i # k
          <6>1. i < k
            BY <5>2
          <6>2. c[i] < c[k]
            BY <1>1, <4>2, <6>1
          <6>3. QED BY <4>2, <6>2
        <5>3. QED BY <5>1, <5>2
      <4>4. QED BY <4>1, <4>2, <4>3
    <3>3. QED BY <3>1, <3>2
  <2>2. k \in 0..n
    OBVIOUS
  <2>3. Cardinality(P) = k
    BY <1>2, <2>2
  <2>4. QED BY <2>1, <2>3
<1> HIDE DEF Low
<1>5. ASSUME NEW k \in 1..n
      PROVE  (CHOOSE x \in S : Cardinality(Low(x)) = k) = c[k]
  <2>1. c[k] \in S /\ Cardinality(Low(c[k])) = k
    BY <1>4
  <2> DEFINE z == CHOOSE x \in S : Cardinality(Low(x)) = k
  <2>2. z \in S /\ Cardinality(Low(z)) = k
    <3> HIDE DEF S
    <3>1. QED BY <2>1
  <2> HIDE DEF z
  <2>3. PICK i \in 1..n : z = c[i]
    BY <2>2
  <2>4. Cardinality(Low(z)) = i
    BY <1>4, <2>3
  <2>5. i = k
    BY <2>2, <2>4
  <2>6. QED BY <2>3, <2>5 DEF z
<1>6. Ascending(S) = [k \in 1..n |-> c[k]]
  <2>1. Ascending(S) = [k \in 1..n |-> CHOOSE x \in S : Cardinality(Low(x)) = k]
    BY <1>3 DEF Ascending, Low
  <2> HIDE DEF S
  <2>2. QED BY <1>5, <2>1
<1>7. [k \in 1..n |-> c[k]] = c
  BY <1>1
<1>8. QED BY <1>3, <1>6, <1>7

\* Places that rise from each to the next one rise all the way.
LEMMA RisesThroughout ==
  ASSUME NEW n \in Nat, NEW c \in [0..n -> Nat], \A j \in 1..n : c[j - 1] < c[j]
  PROVE  \A i, j \in 0..n : i < j => c[i] < c[j]
<1> DEFINE T == {d \in Nat : \A i \in 0..n : i + d <= n /\ d # 0 => c[i] < c[i + d]}
<1>1. 0 \in T
  OBVIOUS
<1>2. ASSUME NEW d \in Nat, d \in T PROVE d + 1 \in T
  <2>1. SUFFICES ASSUME NEW i \in 0..n, i + (d + 1) <= n PROVE c[i] < c[i + (d + 1)]
    OBVIOUS
  <2> DEFINE k == i + d
  <2>2. k \in 0..n /\ k + 1 \in 1..n /\ (k + 1) - 1 = k /\ k + 1 = i + (d + 1) /\ k + 1 \in 0..n
    BY <2>1
  <2>3. c[k] < c[k + 1]
    <3> HIDE DEF k
    <3>1. c[(k + 1) - 1] < c[k + 1]
      BY <2>2
    <3>2. QED BY <2>2, <3>1
  <2>4. CASE d = 0
    <3>1. k = i
      BY <2>4
    <3>2. QED BY <2>2, <2>3, <3>1
  <2>5. CASE d # 0
    <3>1. c[i] < c[k]
      BY <1>2, <2>2, <2>5
    <3>2. c[i] \in Nat /\ c[k] \in Nat /\ c[k + 1] \in Nat
      BY <2>2
    <3>3. c[i] < c[k + 1]
      BY <2>3, <3>1, <3>2
    <3>4. QED BY <2>2, <3>3
  <2>6. QED BY <2>4, <2>5
<1>3. Nat \subseteq T
  <2> HIDE DEF T
  <2>1. QED BY <1>1, <1>2, Induction
<1>4. ASSUME NEW i \in 0..n, NEW j \in 0..n, i < j PROVE c[i] < c[j]
  <2>1. j - i \in Nat /\ i + (j - i) = j /\ i + (j - i) <= n /\ j - i # 0
    BY <1>4
  <2>2. j - i \in T
    BY <1>3, <2>1
  <2>3. c[i] < c[i + (j - i)]
    BY <2>1, <2>2
  <2>4. QED BY <2>1, <2>3
<1>5. QED BY <1>4

\* Chunks that are cut somewhere are groups of the pieces.
LEMMA CutsAreGroups ==
  ASSUME NEW Chars, NEW Headings, "/" \in Chars, NEW ps, PiecesOf(ps, Chars, Headings),
         NEW m \in Seq(BlockSet(Chars, Headings)), NEW cuts, CutInto(ps, Len(ps), m, cuts)
  PROVE  \E ends \in SUBSET DOMAIN ps : GroupedAs(ps, m, ends)
<1> DEFINE B == BlockSet(Chars, Headings)
           n == Len(m)
           s == Len(ps)
           c == [j \in 1..n |-> cuts[j]]
           ends == {c[j] : j \in 1..n}
           u == <<0>> \o Ascending(ends)
<1>1. ps \in Seq(B) /\ m \in Seq(B)
  BY DEF PiecesOf
<1>2. s \in Nat /\ DOMAIN ps = 1..s /\ n \in Nat /\ DOMAIN m = 1..n
  <2> HIDE DEF B
  <2>1. QED BY <1>1, LenProperties
<1>3. /\ cuts \in [0..n -> 0..s] /\ cuts[0] = 0 /\ cuts[n] = s
      /\ \A j \in 1..n : /\ cuts[j - 1] < cuts[j] /\ m[j].text # <<>>
                         /\ KeepsPlace(m[j], SubSeq(ps, cuts[j - 1] + 1, cuts[j]))
      /\ \A j \in 2..n : ~Joins(m[j - 1], ps[cuts[j - 1] + 1])
  BY DEF CutInto
<1> HIDE DEF n, s, B
<1>4. \A i, j \in 0..n : i < j => cuts[i] < cuts[j]
  <2>1. cuts \in [0..n -> Nat]
    BY <1>2, <1>3
  <2>2. QED BY <1>2, <1>3, <2>1, RisesThroughout
<1>5. Rising(c, n)
  <2>1. \A i \in 1..n : i \in 0..n /\ cuts[i] \in Nat
    <3>1. \A i \in 1..n : i \in 0..n
      OBVIOUS
    <3>2. QED BY <1>2, <1>3, <3>1
  <2>2. \A i, j \in 1..n : i < j => c[i] < c[j]
    BY <1>4, <2>1
  <2>3. QED BY <2>1, <2>2 DEF Rising
<1>6. \A j \in 1..n : c[j] = cuts[j]
  OBVIOUS
<1>7. c \in Seq(Nat) /\ Len(c) = n
  BY <1>2, <1>5 DEF Rising
<1> HIDE DEF c
<1>8. Cardinality(ends) = n /\ Ascending(ends) = c
  BY <1>2, <1>5, AscendingIs
<1>9. ends \in SUBSET DOMAIN ps
  <2>1. SUFFICES ASSUME NEW j \in 1..n PROVE cuts[j] \in 1..s
    BY <1>2, <1>6
  <2>2. 0 \in 0..n /\ j \in 0..n /\ 0 < j
    BY <1>2
  <2>3. cuts[0] < cuts[j] /\ cuts[j] \in 0..s
    BY <1>3, <1>4, <2>2
  <2>4. QED BY <1>2, <1>3, <2>3
<1> HIDE DEF ends
<1>10. u \in Seq(Nat) /\ Len(u) = n + 1 /\ \A j \in 1..(n + 1) : u[j] = cuts[j - 1]
  <2>1. u = <<0>> \o c
    BY <1>8
  <2>2. <<0>> \in Seq(Nat) /\ Len(<<0>>) = 1 /\ <<0>>[1] = 0
    OBVIOUS
  <2> DEFINE z == <<0>>
  <2> HIDE DEF u, z
  <2>3. z \in Seq(Nat) /\ Len(z) = 1 /\ z[1] = 0 /\ u = z \o c
    BY <2>1, <2>2 DEF z
  <2>4. /\ u \in Seq(Nat) /\ Len(u) = 1 + n
        /\ \A j \in 1..(1 + n) : u[j] = IF j <= 1 THEN z[j] ELSE c[j - 1]
    <3>1. /\ z \o c \in Seq(Nat) /\ Len(z \o c) = Len(z) + Len(c)
          /\ \A j \in 1..(Len(z) + Len(c)) :
               (z \o c)[j] = IF j <= Len(z) THEN z[j] ELSE c[j - Len(z)]
      BY <1>7, <2>3, ConcatProperties
    <3>2. QED BY <1>7, <2>3, <3>1
  <2>5. ASSUME NEW j \in 1..(n + 1) PROVE u[j] = cuts[j - 1]
    <3>1. j \in 1..(1 + n)
      BY <1>2
    <3>2. CASE j = 1
      <4>1. j - 1 = 0 /\ j <= 1
        BY <3>2
      <4>2. QED BY <1>3, <2>3, <2>4, <3>1, <3>2, <4>1
    <3>3. CASE j # 1
      <4>1. j - 1 \in 1..n /\ ~(j <= 1)
        BY <1>2, <3>3
      <4>2. QED BY <1>6, <2>4, <3>1, <4>1
    <3>4. QED BY <3>2, <3>3
  <2>6. 1 + n = n + 1
    BY <1>2
  <2>7. QED BY <2>4, <2>5, <2>6
<1> HIDE DEF u
<1>11. Last(u) = s
  <2>1. n + 1 \in 1..(n + 1) /\ (n + 1) - 1 = n
    BY <1>2
  <2>2. QED BY <1>3, <1>10, <2>1 DEF Last
<1> DEFINE Group(i) == SubSeq(ps, u[i] + 1, u[i + 1])
           MustStart(left, right) ==
             ~Compatible(left, right) \/ Len(Combined(left.text, right.text)) > ChunkMax
<1>12. ASSUME NEW i \in 1..n
       PROVE  KeepsPlace(m[i], Group(i)) /\ (i > 1 => MustStart(m[i - 1], Head(Group(i))))
  <2>1. i \in 1..(n + 1) /\ i + 1 \in 1..(n + 1) /\ (i + 1) - 1 = i /\ i - 1 \in 0..n /\ i \in 0..n
    BY <1>2
  <2>2. u[i] = cuts[i - 1] /\ u[i + 1] = cuts[i]
    BY <1>10, <2>1
  <2>3. KeepsPlace(m[i], Group(i))
    BY <1>3, <2>2
  <2>4. ASSUME i > 1 PROVE MustStart(m[i - 1], Head(Group(i)))
    <3> DEFINE lo == cuts[i - 1] + 1
               hi == cuts[i]
    <3>1. cuts[i - 1] < cuts[i] /\ cuts[i - 1] \in 0..s /\ cuts[i] \in 0..s
      BY <1>3, <2>1
    <3>2. lo \in 1..Len(ps) /\ hi \in lo..Len(ps)
      <4>1. lo \in 1..s /\ hi \in lo..s
        BY <1>2, <3>1
      <4>2. QED BY <4>1 DEF s
    <3> HIDE DEF lo, hi
    <3>3. Head(SubSeq(ps, lo, hi)) = ps[lo]
      BY <1>1, <3>2, HeadTailOfSubSeq
    <3>4. Head(Group(i)) = ps[cuts[i - 1] + 1]
      BY <2>2, <3>3 DEF lo, hi
    <3> HIDE DEF Group
    <3>5. i \in 2..n
      BY <1>2, <2>4
    <3>6. ~Joins(m[i - 1], ps[cuts[i - 1] + 1])
      BY <1>3, <3>5
    <3>7. i - 1 \in 1..n
      BY <1>2, <3>5
    <3>8. ps[lo] \in B /\ m[i - 1] \in B
      <4>1. i - 1 \in 1..Len(m)
        BY <3>7 DEF n
      <4>2. QED BY <1>1, <3>2, <4>1, ElementOfSeq
    <3> DEFINE a == m[i - 1]
               b == ps[cuts[i - 1] + 1]
               k == Len(Combined(a.text, b.text))
    <3>9. a.text \in Seq(Chars) /\ b.text \in Seq(Chars)
      BY <3>8 DEF B, BlockSet, lo
    <3> HIDE DEF a, b
    <3>10. k \in Nat
      <4>1. Combined(a.text, b.text) \in Seq(Chars)
        BY <3>9, CombinedIs
      <4>2. QED BY <4>1
    <3>11. ~(Compatible(a, b) /\ k <= ChunkMax)
      BY <3>6 DEF Joins, a, b
    <3> HIDE DEF k
    <3>12. ChunkMax \in Nat
      BY TextAssumption
    <3>13. ~Compatible(a, b) \/ k > ChunkMax
      BY <3>10, <3>11, <3>12
    <3>14. Head(Group(i)) = b
      BY <3>4 DEF b
    <3>15. QED BY <3>13, <3>14 DEF a, k
  <2>5. QED BY <2>3, <2>4
<1>13. GroupedAs(ps, m, ends)
  BY <1>2, <1>8, <1>11, <1>12 DEF GroupedAs, u, s, n
<1>14. QED BY <1>9, <1>13

-----------------------------------------------------------------------------
(* The pieces of a document are in the order of its places *)

\* Every element of a sequence is related to itself and to those after it.
InOrder(s, R) ==
  \A a, b \in 1..Len(s) : a <= b => <<s[a], s[b]>> \in R
Before(s, t, R) ==
  \A a \in 1..Len(s), b \in 1..Len(t) : <<s[a], t[b]>> \in R

\* Two sequences in order, one after the other, are in order.
LEMMA ConcatInOrder ==
  ASSUME NEW S, NEW R, NEW s \in Seq(S), NEW t \in Seq(S),
         InOrder(s, R), InOrder(t, R), Before(s, t, R)
  PROVE  InOrder(s \o t, R)
<1> DEFINE u == s \o t
           m == Len(s)
           n == Len(t)
<1>1. m \in Nat /\ n \in Nat
  OBVIOUS
<1>2. Len(u) = m + n /\ \A i \in 1..(m + n) : u[i] = IF i <= m THEN s[i] ELSE t[i - m]
  BY ConcatProperties
<1>3. \A a, b \in 1..m : a <= b => <<s[a], s[b]>> \in R
  BY DEF InOrder
<1>4. \A a, b \in 1..n : a <= b => <<t[a], t[b]>> \in R
  BY DEF InOrder
<1>5. \A a \in 1..m, b \in 1..n : <<s[a], t[b]>> \in R
  BY DEF Before
<1> HIDE DEF u, m, n
<1>6. ASSUME NEW a \in 1..(m + n), NEW b \in 1..(m + n), a <= b
      PROVE  <<u[a], u[b]>> \in R
  <2>1. CASE a <= m /\ b <= m
    <3>1. a \in 1..m /\ b \in 1..m /\ u[a] = s[a] /\ u[b] = s[b]
      BY <1>1, <1>2, <2>1
    <3>2. QED BY <1>3, <1>6, <3>1
  <2>2. CASE a <= m /\ ~(b <= m)
    <3>1. a \in 1..m /\ b - m \in 1..n /\ u[a] = s[a] /\ u[b] = t[b - m]
      BY <1>1, <1>2, <2>2
    <3>2. QED BY <1>5, <3>1
  <2>3. CASE ~(a <= m)
    <3>1. ~(b <= m) /\ a - m \in 1..n /\ b - m \in 1..n /\ a - m <= b - m
      BY <1>1, <1>6, <2>3
    <3>2. u[a] = t[a - m] /\ u[b] = t[b - m]
      BY <1>2, <2>3, <3>1
    <3>3. QED BY <1>4, <3>1, <3>2
  <2>4. QED BY <2>1, <2>2, <2>3
<1>7. InOrder(u, R)
  BY <1>2, <1>6 DEF InOrder
<1>8. QED BY <1>7 DEF u

\* What FlattenSeq builds, sequence by sequence.
Flattening(r, ss, n) ==
  r[n] = FlattenSeq(ss) /\ r[0] = <<>> /\ \A i \in 1..n : r[i] = r[i - 1] \o ss[i]

\* The recursive function of FlattenSeq has its values.
LEMMA FlattenUnfolds ==
  ASSUME NEW S, NEW n \in Nat, NEW ss \in Seq(Seq(S)), Len(ss) = n
  PROVE  \E r \in [0..n -> Seq(S)] : Flattening(r, ss, n)
<1> DEFINE step == [p \in (1..n) \X Seq(S) |-> p[2] \o ss[p[1]]]
<1>1. ASSUME NEW i \in 1..n PROVE ss[i] \in Seq(S)
  <2> DEFINE Q == Seq(S)
  <2> HIDE DEF Q
  <2>1. ss \in Seq(Q)
    BY DEF Q
  <2>2. QED BY <2>1, ElementOfSeq DEF Q
<1>2. step \in [(1..n) \X Seq(S) -> Seq(S)]
  <2>1. ASSUME NEW i \in 1..n, NEW t \in Seq(S) PROVE t \o ss[i] \in Seq(S)
    BY <1>1, ConcatProperties
  <2>2. QED BY <2>1
<1>3. <<>> \in Seq(S)
  BY EmptySeq
<1>4. PICK r \in [0..n -> Seq(S)] : Recursive(r, n, <<>>, step)
  <2> HIDE DEF step
  <2>1. QED BY <1>2, <1>3, RecursionExists
<1>5. r[0] = <<>> /\ \A i \in 1..n : r[i] = r[i - 1] \o ss[i]
  <2>1. ASSUME NEW i \in 1..n PROVE r[i] = r[i - 1] \o ss[i]
    <3>1. i - 1 \in 0..n
      OBVIOUS
    <3>2. r[i - 1] \in Seq(S)
      BY <1>4, <3>1
    <3>3. r[i] = step[<<i, r[i - 1]>>]
      BY <1>4 DEF Recursive
    <3>4. QED BY <3>2, <3>3
  <2>2. QED BY <1>4, <2>1 DEF Recursive
<1>6. CASE n = 0
  <2>1. FlattenSeq(ss) = ss /\ ss = <<>>
    BY <1>6 DEF FlattenSeq
  <2>2. QED BY <1>4, <1>5, <1>6, <2>1 DEF Flattening
<1>7. CASE n # 0
  <2> DEFINE Is(g) == g = [i \in 1..n |-> IF i = 1 THEN ss[i] ELSE g[i - 1] \o ss[i]]
             f == CHOOSE g : Is(g)
             h == [i \in 1..n |-> r[i]]
  <2>1. FlattenSeq(ss) = f[n]
    BY <1>7 DEF FlattenSeq
  <2>2. r[1] = ss[1]
    <3>1. 1 \in 1..n /\ 1 - 1 = 0
      BY <1>7
    <3>2. r[1] = <<>> \o ss[1] /\ ss[1] \in Seq(S)
      BY <1>1, <1>5, <3>1
    <3>3. QED BY <3>2, ConcatEmptySeq
  <2>3. ASSUME NEW i \in 1..n PROVE h[i] = IF i = 1 THEN ss[i] ELSE h[i - 1] \o ss[i]
    <3>1. CASE i = 1
      BY <2>2, <3>1
    <3>2. CASE i # 1
      <4>1. i - 1 \in 1..n
        BY <3>2
      <4>2. h[i - 1] = r[i - 1]
        BY <4>1
      <4>3. QED BY <1>5, <3>2, <4>2
    <3>3. QED BY <3>1, <3>2
  <2>4. Is(h)
    BY <2>3
  <2>5. Is(f)
    <3> HIDE DEF Is
    <3>1. QED BY <2>4
  <2> HIDE DEF f
  <2>6. \A i \in 1..n : f[i] = IF i = 1 THEN ss[i] ELSE f[i - 1] \o ss[i]
    BY <2>5
  <2> DEFINE T == {i \in Nat : i \in 1..n => f[i] = r[i]}
  <2>7. 0 \in T
    OBVIOUS
  <2>8. ASSUME NEW i \in Nat, i \in T PROVE i + 1 \in T
    <3>1. SUFFICES ASSUME i + 1 \in 1..n PROVE f[i + 1] = r[i + 1]
      OBVIOUS
    <3>2. CASE i = 0
      <4>1. f[1] = ss[1]
        BY <2>6, <3>1, <3>2
      <4>2. QED BY <2>2, <3>2, <4>1
    <3>3. CASE i # 0
      <4>1. i \in 1..n /\ (i + 1) - 1 = i /\ i + 1 # 1
        BY <3>1, <3>3
      <4>2. f[i + 1] = f[i] \o ss[i + 1]
        BY <2>6, <3>1, <4>1
      <4>3. r[i + 1] = r[i] \o ss[i + 1]
        BY <1>5, <3>1, <4>1
      <4>4. QED BY <2>8, <4>1, <4>2, <4>3
    <3>4. QED BY <3>2, <3>3
  <2>9. Nat \subseteq T
    <3> HIDE DEF T
    <3>1. QED BY <2>7, <2>8, Induction
  <2>10. f[n] = r[n]
    <3>1. n \in 1..n
      BY <1>7
    <3>2. QED BY <2>9, <3>1
  <2>11. QED BY <1>4, <1>5, <2>1, <2>10 DEF Flattening
<1>8. QED BY <1>6, <1>7

\* Sequences in order, one after the other, are one in order.
LEMMA FlattenInOrder ==
  ASSUME NEW S, NEW R, NEW n \in Nat, NEW ss \in Seq(Seq(S)), Len(ss) = n,
         \A i \in 1..n : InOrder(ss[i], R),
         \A i, j \in 1..n : i < j => Before(ss[i], ss[j], R)
  PROVE  FlattenSeq(ss) \in Seq(S) /\ InOrder(FlattenSeq(ss), R)
<1>1. PICK r \in [0..n -> Seq(S)] : Flattening(r, ss, n)
  BY FlattenUnfolds
<1>2. ASSUME NEW i \in 1..n PROVE ss[i] \in Seq(S)
  <2> DEFINE Q == Seq(S)
  <2> HIDE DEF Q
  <2>1. ss \in Seq(Q)
    BY DEF Q
  <2>2. QED BY <2>1, ElementOfSeq DEF Q
<1> DEFINE T == {i \in Nat : i <= n => /\ InOrder(r[i], R)
                                       /\ \A j \in 1..n : i < j => Before(r[i], ss[j], R)}
<1>3. 0 \in T
  <2>1. r[0] = <<>> /\ 1..Len(<<>>) = {}
    BY <1>1 DEF Flattening
  <2>2. QED BY <2>1 DEF InOrder, Before
<1>4. ASSUME NEW i \in Nat, i \in T PROVE i + 1 \in T
  <2>1. SUFFICES ASSUME i + 1 <= n
                 PROVE  /\ InOrder(r[i + 1], R)
                        /\ \A j \in 1..n : i + 1 < j => Before(r[i + 1], ss[j], R)
    OBVIOUS
  <2>2. i + 1 \in 1..n /\ (i + 1) - 1 = i /\ i \in 0..n /\ i < i + 1
    BY <2>1
  <2>3. r[i + 1] = r[i] \o ss[i + 1]
    BY <1>1, <2>2 DEF Flattening
  <2>4. r[i] \in Seq(S) /\ ss[i + 1] \in Seq(S)
    BY <1>1, <1>2, <2>2
  <2>5. InOrder(r[i], R) /\ Before(r[i], ss[i + 1], R)
    BY <1>4, <2>2
  <2>6. InOrder(r[i + 1], R)
    BY <2>2, <2>3, <2>4, <2>5, ConcatInOrder
  <2>7. ASSUME NEW j \in 1..n, i + 1 < j PROVE Before(r[i + 1], ss[j], R)
    <3>1. Before(r[i], ss[j], R) /\ Before(ss[i + 1], ss[j], R)
      BY <1>4, <2>2, <2>7
    <3> DEFINE s == r[i]
               t == ss[i + 1]
               m == Len(s)
               k == Len(t)
    <3>2. /\ Len(s \o t) = m + k
          /\ \A x \in 1..(m + k) : (s \o t)[x] = IF x <= m THEN s[x] ELSE t[x - m]
      BY <2>4, ConcatProperties
    <3>3. m \in Nat /\ k \in Nat
      BY <2>4
    <3>4. /\ \A a \in 1..m, b \in 1..Len(ss[j]) : <<s[a], ss[j][b]>> \in R
          /\ \A a \in 1..k, b \in 1..Len(ss[j]) : <<t[a], ss[j][b]>> \in R
      BY <3>1 DEF Before
    <3> HIDE DEF m, k, s, t
    <3>5. ASSUME NEW a \in 1..(m + k), NEW b \in 1..Len(ss[j])
          PROVE  <<(s \o t)[a], ss[j][b]>> \in R
      <4>1. CASE a <= m
        <5>1. a \in 1..m /\ (s \o t)[a] = s[a]
          BY <3>2, <3>3, <4>1
        <5>2. QED BY <3>4, <5>1
      <4>2. CASE ~(a <= m)
        <5>1. a - m \in 1..k /\ (s \o t)[a] = t[a - m]
          BY <3>2, <3>3, <4>2
        <5>2. QED BY <3>4, <5>1
      <4>3. QED BY <4>1, <4>2
    <3>6. Before(s \o t, ss[j], R)
      BY <3>2, <3>5 DEF Before
    <3>7. QED BY <2>3, <3>6 DEF s, t
  <2>8. QED BY <2>6, <2>7
<1>5. Nat \subseteq T
  <2> HIDE DEF T
  <2>1. QED BY <1>3, <1>4, Induction
<1>6. r[n] = FlattenSeq(ss)
  BY <1>1 DEF Flattening
<1>7. r[n] \in Seq(S) /\ InOrder(r[n], R)
  <2>1. n \in 0..n /\ n <= n
    OBVIOUS
  <2>2. QED BY <1>1, <1>5, <2>1
<1>8. QED BY <1>6, <1>7

\* Flattening keeps the type.
LEMMA FlattenIsTyped ==
  ASSUME NEW S, NEW n \in Nat, NEW ss \in Seq(Seq(S)), Len(ss) = n
  PROVE  FlattenSeq(ss) \in Seq(S)
<1>1. PICK r \in [0..n -> Seq(S)] : Flattening(r, ss, n)
  BY FlattenUnfolds
<1>2. r[n] = FlattenSeq(ss) /\ n \in 0..n
  BY <1>1 DEF Flattening
<1>3. QED BY <1>1, <1>2

\* The blocks of one place, and which of them may follow which.
PlacedBlocks(Chars, Headings) == {b \in BlockSet(Chars, Headings) : b.start = b.end}
OnwardIn(P) ==
  {x \in P \X P : x[1].sheet = x[2].sheet => x[1].start <= x[2].start}

\* A function on the first numbers is a sequence.
LEMMA FunctionIsSeq ==
  ASSUME NEW S, NEW n \in Nat, NEW f \in [1..n -> S]
  PROVE  f \in Seq(S) /\ Len(f) = n
OBVIOUS

\* Every part is at the place of its block.
AtPlaces(ss, bs, n) ==
  \A i \in 1..n : \A a \in 1..Len(ss[i]) :
    ss[i][a].sheet = bs[i].sheet /\ ss[i][a].start = bs[i].start

\* What is made of blocks, each at the place of its block, is in their order.
LEMMA PartsInOrder ==
  ASSUME NEW P, NEW S \in SUBSET P, NEW n \in Nat, NEW bs, Len(bs) = n,
         InOrder(bs, OnwardIn(P)), NEW ss \in Seq(Seq(S)), Len(ss) = n, AtPlaces(ss, bs, n)
  PROVE  FlattenSeq(ss) \in Seq(S) /\ InOrder(FlattenSeq(ss), OnwardIn(P))
<1>1. ASSUME NEW i \in 1..n PROVE ss[i] \in Seq(S)
  <2> DEFINE Q == Seq(S)
  <2> HIDE DEF Q
  <2>1. ss \in Seq(Q)
    BY DEF Q
  <2>2. QED BY <2>1, ElementOfSeq DEF Q
<1>2. ASSUME NEW i \in 1..n, NEW j \in 1..n, i <= j,
             NEW a \in 1..Len(ss[i]), NEW b \in 1..Len(ss[j])
      PROVE  <<ss[i][a], ss[j][b]>> \in OnwardIn(P)
  <2>1. ss[i][a] \in P /\ ss[j][b] \in P
    <3>1. ss[i][a] \in S /\ ss[j][b] \in S
      BY <1>1, ElementOfSeq
    <3>2. QED BY <3>1
  <2>2. <<bs[i], bs[j]>> \in OnwardIn(P)
    BY <1>2 DEF InOrder
  <2>3. bs[i].sheet = bs[j].sheet => bs[i].start <= bs[j].start
    BY <2>2 DEF OnwardIn
  <2>4. QED BY <2>1, <2>3 DEF OnwardIn, AtPlaces
<1>3. \A i \in 1..n : InOrder(ss[i], OnwardIn(P))
  <2>1. \A i \in 1..n : i <= i
    OBVIOUS
  <2>2. QED BY <1>2, <2>1 DEF InOrder
<1>4. \A i, j \in 1..n : i < j => Before(ss[i], ss[j], OnwardIn(P))
  <2>1. \A i, j \in 1..n : i < j => i <= j
    OBVIOUS
  <2>2. QED BY <1>2, <2>1 DEF Before
<1>5. QED BY <1>3, <1>4, FlattenInOrder

\* A stripped text is a text.
LEMMA StripIs ==
  ASSUME NEW Chars, NEW t \in Seq(Chars)
  PROVE  Strip(t) \in Seq(Chars)
<1>1. Len(t) \in Nat /\ \A i \in 1..Len(t) : t[i] \in Chars
  BY ElementOfSeq
<1>2. CASE InkIn(t, 1, Len(t)) = {}
  <2>1. Stripped(t, 1, Len(t)) = <<>>
    BY <1>1, <1>2, StrippedIsInk
  <2>2. QED BY <2>1, EmptySeq DEF Strip
<1>3. CASE InkIn(t, 1, Len(t)) # {}
  <2>1. PICK p \in Span :
          /\ Stripped(t, 1, Len(t)) = <<p>>
          /\ p.from \in InkIn(t, 1, Len(t)) /\ p.to \in InkIn(t, 1, Len(t))
    BY <1>1, <1>3, StrippedIsInk
  <2>2. Strip(t) = SubSeq(t, p.from, p.to)
    <3>1. Stripped(t, 1, Len(t)) # <<>> /\ Stripped(t, 1, Len(t))[1] = p
      BY <2>1
    <3>2. QED BY <3>1 DEF Strip, Cut
  <2>3. p.from \in 1..Len(t) /\ p.to \in 1..Len(t)
    BY <2>1 DEF InkIn
  <2>4. p.from \in Int /\ p.to \in Int /\ \A i \in p.from..p.to : t[i] \in Chars
    BY <1>1, <2>3
  <2>5. QED BY <2>2, <2>4, SubSeqProperties
<1>4. QED BY <1>2, <1>3

\* The collector keeps a block at its place, stripped and with text, or nothing.
LEMMA KeptIs ==
  ASSUME NEW Chars, NEW Headings, NEW b \in PlacedBlocks(Chars, Headings)
  PROVE  /\ KeptBlock(b) \in Seq(PlacedBlocks(Chars, Headings))
         /\ \A a \in 1..Len(KeptBlock(b)) : KeptBlock(b)[a].sheet = b.sheet /\ KeptBlock(b)[a].start = b.start
<1> DEFINE t == Strip(b.text)
           d == [b EXCEPT !.text = t]
           P == PlacedBlocks(Chars, Headings)
<1>1. t \in Seq(Chars)
  BY StripIs DEF PlacedBlocks, BlockSet
<1>2. KeptBlock(b) = IF t = <<>> THEN <<>> ELSE <<d>>
  BY DEF KeptBlock
<1> HIDE DEF t
<1>3. d \in P /\ d.sheet = b.sheet /\ d.start = b.start
  BY <1>1 DEF PlacedBlocks, BlockSet
<1> HIDE DEF d, P
<1>4. CASE t = <<>>
  <2>1. KeptBlock(b) = <<>> /\ 1..Len(KeptBlock(b)) = {}
    BY <1>2, <1>4
  <2>2. QED BY <2>1, EmptySeq DEF P
<1>5. CASE t # <<>>
  <2>1. KeptBlock(b) = <<d>> /\ <<d>> \in Seq(P) /\ Len(<<d>>) = 1 /\ <<d>>[1] = d
    BY <1>2, <1>3, <1>5
  <2>2. \A a \in 1..Len(KeptBlock(b)) : KeptBlock(b)[a] = d
    BY <2>1
  <2>3. QED BY <1>3, <2>1, <2>2 DEF P
<1>6. QED BY <1>4, <1>5

\* What the collector keeps of blocks in order is in order.
LEMMA CollectedInOrder ==
  ASSUME NEW Chars, NEW Headings, NEW bs \in Seq(PlacedBlocks(Chars, Headings)),
         InOrder(bs, OnwardIn(PlacedBlocks(Chars, Headings))), Collected(bs) # TooLarge
  PROVE  /\ Collected(bs) \in Seq(PlacedBlocks(Chars, Headings))
         /\ InOrder(Collected(bs), OnwardIn(PlacedBlocks(Chars, Headings)))
<1> DEFINE P == PlacedBlocks(Chars, Headings)
           n == Len(bs)
           ss == [i \in DOMAIN bs |-> KeptBlock(bs[i])]
<1>1. Collected(bs) = FlattenSeq(ss)
  BY DEF Collected
<1>2. n \in Nat /\ DOMAIN bs = 1..n /\ \A i \in 1..n : bs[i] \in P
  <2> HIDE DEF P
  <2>1. bs \in Seq(P)
    BY DEF P
  <2>2. QED BY <2>1, LenProperties, ElementOfSeq
<1>3. \A i \in 1..n : /\ KeptBlock(bs[i]) \in Seq(P)
                      /\ \A a \in 1..Len(KeptBlock(bs[i])) : /\ KeptBlock(bs[i])[a].sheet = bs[i].sheet
                                                             /\ KeptBlock(bs[i])[a].start = bs[i].start
  <2>1. SUFFICES ASSUME NEW i \in 1..n
                 PROVE  /\ KeptBlock(bs[i]) \in Seq(P)
                        /\ \A a \in 1..Len(KeptBlock(bs[i])) :
                             /\ KeptBlock(bs[i])[a].sheet = bs[i].sheet
                             /\ KeptBlock(bs[i])[a].start = bs[i].start
    OBVIOUS
  <2> DEFINE b == bs[i]
  <2>2. b \in P
    BY <1>2
  <2> HIDE DEF b
  <2>3. QED BY <2>2, KeptIs DEF b
<1> HIDE DEF n
<1>4. ss \in [1..n -> Seq(P)] /\ \A i \in 1..n : ss[i] = KeptBlock(bs[i])
  BY <1>2, <1>3
<1> HIDE DEF ss, P
<1>5. ss \in Seq(Seq(P)) /\ Len(ss) = n
  BY <1>2, <1>4, FunctionIsSeq
<1>6. Len(bs) = n /\ InOrder(bs, OnwardIn(P)) /\ P \subseteq P
  BY DEF n, P
<1>7. FlattenSeq(ss) \in Seq(P) /\ InOrder(FlattenSeq(ss), OnwardIn(P))
  <2>1. AtPlaces(ss, bs, n) /\ P \in SUBSET P
    BY <1>3, <1>4 DEF AtPlaces
  <2>2. QED BY <1>2, <1>5, <1>6, <2>1, PartsInOrder
<1>8. QED BY <1>1, <1>7 DEF P

\* The pieces of one block.
Parts(b) ==
  LET spans == SplitText(b.text)
  IN [k \in DOMAIN spans |-> [b EXCEPT !.text = Cut(@, spans[k])]]

\* The pieces of a block fit, have text and are where the block is.
LEMMA PartsAre ==
  ASSUME NEW Chars, NEW Headings, NEW b \in PlacedBlocks(Chars, Headings)
  PROVE  /\ Parts(b) \in Seq({c \in PlacedBlocks(Chars, Headings) : IsPiece(c)})
         /\ \A a \in 1..Len(Parts(b)) : Parts(b)[a].sheet = b.sheet /\ Parts(b)[a].start = b.start
<1> DEFINE P == PlacedBlocks(Chars, Headings)
           S == {c \in P : IsPiece(c)}
           t == b.text
           spans == SplitText(t)
           n == Len(spans)
           piece(k) == [b EXCEPT !.text = Cut(t, spans[k])]
<1>1. b \in BlockSet(Chars, Headings) /\ t \in Seq(Chars) /\ b.start = b.end
  BY DEF PlacedBlocks, BlockSet
<1>2. Len(t) \in Nat /\ \A i \in 1..Len(t) : t[i] \in Chars
  BY <1>1, ElementOfSeq
<1>3. SplitsFrom(t, 1, Len(t), spans)
  BY <1>2, SplitTextSplits
<1>4. Parts(b) = [k \in DOMAIN spans |-> piece(k)]
  BY DEF Parts
<1> HIDE DEF t, spans
<1>5. n \in Nat /\ DOMAIN spans = 1..n /\ \A k \in 1..n : spans[k] \in Span
  <2>1. spans \in Seq(Span)
    BY <1>3 DEF SplitsFrom
  <2>2. QED BY <2>1, LenProperties, ElementOfSeq
<1>6. ASSUME NEW k \in 1..n
      PROVE  Cut(t, spans[k]) \in Seq(Chars) /\ Len(Cut(t, spans[k])) \in 1..ChunkMax
  <2> DEFINE p == spans[k]
  <2>1. /\ p \in Span /\ 1 <= p.from /\ p.from <= p.to /\ p.to <= Len(t)
        /\ p.to - p.from < ChunkMax
    BY <1>3, <1>5 DEF SplitsFrom
  <2> HIDE DEF p, n
  <2>2. /\ p.from \in Int /\ p.to \in Int /\ ChunkMax \in Nat
        /\ \A i \in p.from..p.to : t[i] \in Chars
    BY <1>2, <2>1, TextAssumption DEF Span
  <2>3. /\ SubSeq(t, p.from, p.to) \in Seq(Chars)
        /\ Len(SubSeq(t, p.from, p.to)) = p.to - p.from + 1
    BY <2>1, <2>2, SubSeqProperties
  <2>4. p.to - p.from + 1 \in 1..ChunkMax
    BY <2>1, <2>2
  <2>5. QED BY <2>3, <2>4 DEF Cut, p
<1> HIDE DEF n
<1>7. ASSUME NEW k \in 1..n
      PROVE  piece(k) \in S /\ piece(k).sheet = b.sheet /\ piece(k).start = b.start
  <2> DEFINE u == Cut(t, spans[k])
  <2>1. u \in Seq(Chars) /\ Len(u) \in 1..ChunkMax
    BY <1>6
  <2>2. u # <<>> /\ Len(u) <= ChunkMax
    <3>1. Len(u) # 0 /\ Len(u) <= ChunkMax
      BY <2>1, TextAssumption
    <3>2. QED BY <3>1
  <2> HIDE DEF u
  <2> DEFINE d == [b EXCEPT !.text = u]
  <2>3. d \in BlockSet(Chars, Headings)
    BY <1>1, <2>1 DEF BlockSet
  <2>4. d.text = u /\ d.start = b.start /\ d.end = b.end /\ d.sheet = b.sheet
    BY <1>1 DEF BlockSet
  <2> HIDE DEF d
  <2>5. d \in S
    BY <1>1, <2>2, <2>3, <2>4 DEF PlacedBlocks, IsPiece
  <2>6. piece(k) = d
    BY DEF d, u
  <2>7. QED BY <2>4, <2>5, <2>6
<1>8. Parts(b) \in [1..n -> S] /\ \A k \in 1..n : Parts(b)[k] = piece(k)
  <2> HIDE DEF S
  <2>1. QED BY <1>4, <1>5, <1>7
<1>9. Parts(b) \in Seq(S) /\ Len(Parts(b)) = n
  <2> HIDE DEF S
  <2>1. QED BY <1>5, <1>8, FunctionIsSeq
<1>10. QED BY <1>7, <1>8, <1>9

\* The pieces of blocks in order are those that MergeBlocks expects.
LEMMA ExpandedInOrder ==
  ASSUME NEW Chars, NEW Headings, NEW bs \in Seq(PlacedBlocks(Chars, Headings)),
         InOrder(bs, OnwardIn(PlacedBlocks(Chars, Headings)))
  PROVE  PiecesOf(Expanded(bs), Chars, Headings)
<1> DEFINE P == PlacedBlocks(Chars, Headings)
           S == {c \in P : IsPiece(c)}
           n == Len(bs)
           ss == [i \in DOMAIN bs |-> Parts(bs[i])]
           ps == FlattenSeq(ss)
<1>1. Expanded(bs) = ps
  BY DEF Expanded, Parts
<1>2. n \in Nat /\ DOMAIN bs = 1..n /\ \A i \in 1..n : bs[i] \in P
  <2> HIDE DEF P
  <2>1. bs \in Seq(P)
    BY DEF P
  <2>2. QED BY <2>1, LenProperties, ElementOfSeq
<1>3. \A i \in 1..n : /\ Parts(bs[i]) \in Seq(S)
                      /\ \A a \in 1..Len(Parts(bs[i])) :
                           /\ Parts(bs[i])[a].sheet = bs[i].sheet
                           /\ Parts(bs[i])[a].start = bs[i].start
  <2>1. SUFFICES ASSUME NEW i \in 1..n
                 PROVE  /\ Parts(bs[i]) \in Seq(S)
                        /\ \A a \in 1..Len(Parts(bs[i])) :
                             /\ Parts(bs[i])[a].sheet = bs[i].sheet
                             /\ Parts(bs[i])[a].start = bs[i].start
    OBVIOUS
  <2> DEFINE b == bs[i]
  <2>2. b \in P
    BY <1>2
  <2> HIDE DEF b
  <2>3. QED BY <2>2, PartsAre DEF b
<1>4. S \subseteq P
  OBVIOUS
<1> HIDE DEF n, S
<1>5. ss \in [1..n -> Seq(S)] /\ \A i \in 1..n : ss[i] = Parts(bs[i])
  BY <1>2, <1>3
<1> HIDE DEF ss, P
<1>6. ss \in Seq(Seq(S)) /\ Len(ss) = n
  BY <1>2, <1>5, FunctionIsSeq
<1>7. Len(bs) = n /\ InOrder(bs, OnwardIn(P))
  BY DEF n, P
<1>8. ps \in Seq(S) /\ InOrder(ps, OnwardIn(P))
  <2>1. \A i \in 1..n : \A a \in 1..Len(ss[i]) :
          ss[i][a].sheet = bs[i].sheet /\ ss[i][a].start = bs[i].start
    BY <1>3, <1>5
  <2>2. n \in Nat /\ S \subseteq P
    BY <1>2, <1>4
  <2>3. FlattenSeq(ss) \in Seq(S) /\ InOrder(FlattenSeq(ss), OnwardIn(P))
    <3>1. ss \in Seq(Seq(S)) /\ Len(ss) = n /\ Len(bs) = n /\ InOrder(bs, OnwardIn(P))
      BY <1>6, <1>7
    <3>2. AtPlaces(ss, bs, n) /\ S \in SUBSET P
      BY <2>1, <2>2 DEF AtPlaces
    <3>3. QED BY <2>2, <3>1, <3>2, PartsInOrder
  <2>4. QED BY <2>3
<1> HIDE DEF ps
<1>9. \A i \in 1..Len(ps) : ps[i] \in P /\ IsPiece(ps[i])
  <2>1. \A i \in 1..Len(ps) : ps[i] \in S
    BY <1>8, ElementOfSeq
  <2>2. QED BY <2>1 DEF S
<1>10. ps \in Seq(BlockSet(Chars, Headings))
  <2>1. S \subseteq BlockSet(Chars, Headings)
    BY <1>4 DEF P, PlacedBlocks
  <2>2. QED BY <1>8, <2>1, SeqMonotonic
<1>11. ASSUME NEW i \in 1..Len(ps), NEW j \in 1..Len(ps), i <= j, ps[i].sheet = ps[j].sheet
       PROVE  ps[i].start <= ps[j].start
  <2>1. <<ps[i], ps[j]>> \in OnwardIn(P)
    BY <1>8, <1>11 DEF InOrder
  <2>2. QED BY <1>11, <2>1 DEF OnwardIn
<1>12. QED BY <1>1, <1>9, <1>10, <1>11 DEF PiecesOf

\* From blocks in order to chunks.
LEMMA BlocksInOrderKeepTheirPlace ==
  ASSUME NEW Chars, NEW Headings, "/" \in Chars, NEW bs \in Seq(PlacedBlocks(Chars, Headings)),
         InOrder(bs, OnwardIn(PlacedBlocks(Chars, Headings)))
  PROVE  LET blocks == Collected(bs)
             pieces == Expanded(blocks)
         IN \/ blocks = TooLarge
            \/ \E ends \in SUBSET DOMAIN pieces : GroupedAs(pieces, MergeBlocks(pieces), ends)
<1> DEFINE blocks == Collected(bs)
           pieces == Expanded(blocks)
<1>1. SUFFICES ASSUME blocks # TooLarge
               PROVE  \E ends \in SUBSET DOMAIN pieces : GroupedAs(pieces, MergeBlocks(pieces), ends)
  OBVIOUS
<1>2. /\ blocks \in Seq(PlacedBlocks(Chars, Headings))
      /\ InOrder(blocks, OnwardIn(PlacedBlocks(Chars, Headings)))
  BY <1>1, CollectedInOrder
<1> HIDE DEF blocks
<1>3. PiecesOf(pieces, Chars, Headings)
  BY <1>2, ExpandedInOrder
<1> HIDE DEF pieces
<1>4. MergeBlocks(pieces) \in Seq(BlockSet(Chars, Headings))
  BY <1>3, MergeBlocksCuts
<1>5. PICK cuts : CutInto(pieces, Len(pieces), MergeBlocks(pieces), cuts)
  BY <1>3, MergeBlocksCuts
<1>6. QED BY <1>3, <1>4, <1>5, CutsAreGroups

\* Blocks of one sheet, numbered from 1.
Numbered(bs, n, sheet) ==
  \A i \in 1..n : bs[i].sheet = sheet /\ bs[i].start = i

\* Blocks that are numbered from 1 are in order.
LEMMA NumberedInOrder ==
  ASSUME NEW P, NEW n \in Nat, NEW bs \in [1..n -> P], NEW sheet, Numbered(bs, n, sheet)
  PROVE  bs \in Seq(P) /\ Len(bs) = n /\ InOrder(bs, OnwardIn(P))
<1>1. bs \in Seq(P) /\ Len(bs) = n
  BY FunctionIsSeq
<1>2. ASSUME NEW a \in 1..n, NEW b \in 1..n, a <= b
      PROVE  <<bs[a], bs[b]>> \in OnwardIn(P)
  <2>1. bs[a] \in P /\ bs[b] \in P /\ bs[a].start <= bs[b].start
    BY <1>2 DEF Numbered
  <2>2. QED BY <2>1 DEF OnwardIn
<1>3. QED BY <1>1, <1>2 DEF InOrder

\* What a sequence is.
LEMMA LengthAndElements ==
  ASSUME NEW S, NEW s \in Seq(S)
  PROVE  Len(s) \in Nat /\ DOMAIN s = 1..Len(s) /\ \A i \in 1..Len(s) : s[i] \in S
BY LenProperties, ElementOfSeq

\* Every page of a PDF is a block.
LEMMA PagesKeepTheirPlace ==
  ASSUME NEW Chars, "/" \in Chars, NEW pages \in Seq(Seq(Chars))
  PROVE  LET blocks == ParsePdf(pages)
             pieces == Expanded(blocks)
         IN \/ blocks = TooLarge
            \/ \E ends \in SUBSET DOMAIN pieces : GroupedAs(pieces, MergeBlocks(pieces), ends)
<1> DEFINE Q == Seq(Chars)
           n == Len(pages)
           Headings == {<<>>}
           P == PlacedBlocks(Chars, Headings)
           bs == [i \in DOMAIN pages |-> StructuredBlock(pages[i], <<>>, "page", i, 0)]
<1>1. n \in Nat /\ DOMAIN pages = 1..n /\ \A i \in 1..n : pages[i] \in Seq(Chars)
  <2> HIDE DEF Q
  <2>1. pages \in Seq(Q)
    BY DEF Q
  <2>2. QED BY <2>1, LengthAndElements DEF Q
<1> HIDE DEF n
<1>2. ASSUME NEW i \in 1..n
      PROVE  LET b == StructuredBlock(pages[i], <<>>, "page", i, 0)
             IN b \in P /\ b.sheet = 0 /\ b.start = i
  <2>1. i \in Nat /\ pages[i] \in Seq(Chars) /\ <<>> \in Headings
    BY <1>1
  <2> HIDE DEF Headings
  <2>2. "page" \in Kinds /\ 0 \in Nat
    BY DEF Kinds
  <2>3. QED BY <2>1, <2>2 DEF StructuredBlock, PlacedBlocks, BlockSet
<1> HIDE DEF P
<1>3. bs \in [1..n -> P] /\ Numbered(bs, n, 0)
  BY <1>1, <1>2 DEF Numbered
<1>4. ParsePdf(pages) = Collected(bs)
  BY DEF ParsePdf
<1> HIDE DEF bs
<1>5. bs \in Seq(P) /\ InOrder(bs, OnwardIn(P))
  BY <1>1, <1>3, NumberedInOrder
<1> HIDE DEF Headings
<1>6. QED BY <1>4, <1>5, BlocksInOrderKeepTheirPlace DEF P

\* Every slide is a block under its title.
LEMMA SlidesKeepTheirPlace ==
  ASSUME NEW Chars, "/" \in Chars, NEW slides \in Seq([title : Seq(Chars), text : Seq(Chars)])
  PROVE  LET blocks == ParsePptx(slides)
             pieces == Expanded(blocks)
         IN \/ blocks = TooLarge
            \/ \E ends \in SUBSET DOMAIN pieces : GroupedAs(pieces, MergeBlocks(pieces), ends)
<1> DEFINE Q == [title : Seq(Chars), text : Seq(Chars)]
           n == Len(slides)
           Headings == Seq(Seq(Chars))
           P == PlacedBlocks(Chars, Headings)
           Slide(i) == LET title == Strip(slides[i].title)
                       IN StructuredBlock(title \o <<"/">> \o slides[i].text,
                                IF title = <<>> THEN <<>> ELSE <<title>>, "slide", i, 0)
           bs == [i \in DOMAIN slides |-> Slide(i)]
<1>1. n \in Nat /\ DOMAIN slides = 1..n /\ \A i \in 1..n : slides[i] \in Q
  <2> HIDE DEF Q
  <2>1. slides \in Seq(Q)
    BY DEF Q
  <2>2. QED BY <2>1, LengthAndElements
<1> HIDE DEF n
<1>2. ASSUME NEW i \in 1..n PROVE Slide(i) \in P /\ Slide(i).sheet = 0 /\ Slide(i).start = i
  <2> DEFINE title == Strip(slides[i].title)
             text == title \o <<"/">> \o slides[i].text
             heading == IF title = <<>> THEN <<>> ELSE <<title>>
  <2>1. i \in Nat /\ slides[i].title \in Seq(Chars) /\ slides[i].text \in Seq(Chars)
    BY <1>1
  <2>2. title \in Seq(Chars)
    BY <2>1, StripIs
  <2> HIDE DEF title
  <2>3. text \in Seq(Chars)
    <3>1. <<"/">> \in Seq(Chars)
      OBVIOUS
    <3>2. title \o <<"/">> \in Seq(Chars)
      BY <2>2, <3>1, ConcatProperties
    <3>3. QED BY <2>1, <3>2, ConcatProperties
  <2>4. heading \in Headings
    <3>1. <<>> \in Headings
      BY EmptySeq
    <3>2. <<title>> \in Headings
      BY <2>2
    <3>3. QED BY <3>1, <3>2
  <2>5. Slide(i) = StructuredBlock(text, heading, "slide", i, 0)
    BY DEF title
  <2> HIDE DEF text, heading, Headings, Slide
  <2>6. "slide" \in Kinds /\ 0 \in Nat
    BY DEF Kinds
  <2>7. QED BY <2>1, <2>3, <2>4, <2>5, <2>6 DEF StructuredBlock, PlacedBlocks, BlockSet
<1> HIDE DEF P
<1>3. bs \in [1..n -> P] /\ Numbered(bs, n, 0)
  <2> HIDE DEF Slide
  <2>1. QED BY <1>1, <1>2 DEF Numbered
<1>4. ParsePptx(slides) = Collected(bs)
  BY DEF ParsePptx
<1> HIDE DEF bs
<1>5. bs \in Seq(P) /\ InOrder(bs, OnwardIn(P))
  BY <1>1, <1>3, NumberedInOrder
<1> HIDE DEF Headings
<1>6. QED BY <1>4, <1>5, BlocksInOrderKeepTheirPlace DEF P

\* Every row of every sheet is a block.
LEMMA RowsKeepTheirPlace ==
  ASSUME NEW Chars, "/" \in Chars, NEW sheets \in Seq(Seq(Seq(Chars)))
  PROVE  LET blocks == ParseXlsx(sheets)
             pieces == Expanded(blocks)
         IN \/ blocks = TooLarge
            \/ \E ends \in SUBSET DOMAIN pieces : GroupedAs(pieces, MergeBlocks(pieces), ends)
<1> DEFINE Q == Seq(Chars)
           n == Len(sheets)
           Headings == {<<>>}
           P == PlacedBlocks(Chars, Headings)
           Rows(s) == [i \in DOMAIN sheets[s] |-> StructuredBlock(sheets[s][i], <<>>, "sheet_rows", i, s)]
           ss == [s \in DOMAIN sheets |-> Rows(s)]
           bs == FlattenSeq(ss)
<1>1. n \in Nat /\ DOMAIN sheets = 1..n /\ \A s \in 1..n : sheets[s] \in Seq(Q)
  <2> DEFINE D == Seq(Q)
  <2> HIDE DEF D
  <2>1. sheets \in Seq(D)
    BY DEF D
  <2>2. QED BY <2>1, LengthAndElements DEF D
<1> HIDE DEF n
<1>2. ASSUME NEW s \in 1..n
      PROVE  Rows(s) \in Seq(P) /\ Numbered(Rows(s), Len(Rows(s)), s) /\ InOrder(Rows(s), OnwardIn(P))
  <2> DEFINE m == Len(sheets[s])
  <2>1. m \in Nat /\ DOMAIN sheets[s] = 1..m /\ \A i \in 1..m : sheets[s][i] \in Seq(Chars)
    <3> HIDE DEF Q
    <3>1. sheets[s] \in Seq(Q)
      BY <1>1
    <3>2. QED BY <3>1, LengthAndElements DEF Q
  <2> HIDE DEF m
  <2>2. s \in Nat /\ <<>> \in Headings
    BY <1>1
  <2> HIDE DEF Headings
  <2>3. \A i \in 1..m : LET b == StructuredBlock(sheets[s][i], <<>>, "sheet_rows", i, s)
                        IN b \in P /\ b.sheet = s /\ b.start = i
    <3>1. (\A i \in 1..m : i \in Nat) /\ "sheet_rows" \in Kinds
      BY DEF Kinds
    <3>2. QED BY <2>1, <2>2, <3>1 DEF StructuredBlock, PlacedBlocks, BlockSet
  <2> HIDE DEF P
  <2>4. Rows(s) \in [1..m -> P] /\ Numbered(Rows(s), m, s)
    BY <2>1, <2>3 DEF Numbered
  <2> HIDE DEF Rows
  <2>5. Rows(s) \in Seq(P) /\ Len(Rows(s)) = m /\ InOrder(Rows(s), OnwardIn(P))
    BY <2>1, <2>4, NumberedInOrder
  <2>6. QED BY <2>4, <2>5
<1> HIDE DEF P, Rows
<1>3. ss \in [1..n -> Seq(P)] /\ \A s \in 1..n : ss[s] = Rows(s)
  BY <1>1, <1>2
<1>4. ParseXlsx(sheets) = Collected(bs)
  BY DEF ParseXlsx, Rows
<1> HIDE DEF ss
<1>5. ss \in Seq(Seq(P)) /\ Len(ss) = n
  BY <1>1, <1>3, FunctionIsSeq
<1>6. \A s \in 1..n : InOrder(ss[s], OnwardIn(P))
  BY <1>2, <1>3
<1>7. ASSUME NEW s \in 1..n, NEW z \in 1..n, s < z PROVE Before(ss[s], ss[z], OnwardIn(P))
  <2>1. ASSUME NEW a \in 1..Len(ss[s]), NEW b \in 1..Len(ss[z])
        PROVE  <<ss[s][a], ss[z][b]>> \in OnwardIn(P)
    <3>1. ss[s][a] \in P /\ ss[z][b] \in P
      BY <1>2, <1>3, <2>1, ElementOfSeq
    <3>2. ss[s][a].sheet = s /\ ss[z][b].sheet = z
      BY <1>2, <1>3, <2>1 DEF Numbered
    <3>3. s # z
      BY <1>7
    <3>4. QED BY <3>1, <3>2, <3>3 DEF OnwardIn
  <2>2. QED BY <2>1 DEF Before
<1>8. bs \in Seq(P) /\ InOrder(bs, OnwardIn(P))
  BY <1>1, <1>5, <1>6, <1>7, FlattenInOrder
<1> HIDE DEF Headings, bs
<1>9. QED BY <1>4, <1>8, BlocksInOrderKeepTheirPlace DEF P

-----------------------------------------------------------------------------
(* The lines of a document make paragraphs at their places *)

\* What is read of a document, line by line.
ReadBy(r, lines, is, n) ==
  /\ r[n] = FoldLeft(LAMBDA a, i : ReadLine(a, lines, i), Reading, is)
  /\ r[0] = Reading /\ \A i \in 1..n : r[i] = ReadLine(r[i - 1], lines, is[i])

LEMMA ReadingUnfolds ==
  ASSUME NEW n \in Nat, NEW lines, NEW is, DOMAIN is = 1..n, NEW Readings, Reading \in Readings,
         \A t \in Readings, i \in 1..n : ReadLine(t, lines, is[i]) \in Readings
  PROVE  \E r \in [0..n -> Readings] : ReadBy(r, lines, is, n)
<1> DEFINE S == Readings
           step == [p \in S \X (1..n) |-> ReadLine(p[1], lines, is[p[2]])]
           Is(h) == h = [s \in SUBSET DOMAIN is |->
                           IF s = {} THEN Reading
                           ELSE ReadLine(h[s \ {Max(s)}], lines, is[Max(s)])]
           f == CHOOSE h : Is(h)
<1>1. ASSUME NEW t \in S, NEW i \in 1..n PROVE ReadLine(t, lines, is[i]) \in S
  OBVIOUS
<1>2. step \in [S \X (1..n) -> S] /\ Reading \in S
  BY <1>1
<1>3. PICK h \in [SUBSET (1..n) -> S] : Folding(h, n, Reading, step)
  <2> HIDE DEF step, S
  <2>1. QED BY <1>2, FoldExists
<1>4. ASSUME NEW s \in SUBSET (1..n), s # {}
      PROVE  Max(s) \in s /\ Max(s) \in 1..n /\ s \ {Max(s)} \in SUBSET (1..n)
  BY <1>4, MaxOfSome
<1>5. ASSUME NEW s \in SUBSET (1..n)
      PROVE  h[s] = IF s = {} THEN Reading ELSE ReadLine(h[s \ {Max(s)}], lines, is[Max(s)])
  <2>1. CASE s # {}
    <3>1. h[s] = step[<<h[s \ {Max(s)}], Max(s)>>]
      <4> HIDE DEF step
      <4>1. QED BY <1>3, <2>1 DEF Folding
    <3>2. h[s \ {Max(s)}] \in S /\ Max(s) \in 1..n
      <4> HIDE DEF S, step
      <4>1. QED BY <1>3, <1>4, <2>1
    <3>3. QED BY <2>1, <3>1, <3>2
  <2>2. QED BY <1>3, <2>1 DEF Folding
<1>6. Is(h)
  BY <1>5, <1>3
<1>7. Is(f)
  <2> HIDE DEF Is
  <2>1. QED BY <1>6
<1>8. FoldLeft(LAMBDA a, i : ReadLine(a, lines, i), Reading, is) = f[1..n]
  BY DEF FoldLeft, MapThenFoldSet
<1> HIDE DEF f
<1>9. \A s \in SUBSET (1..n) :
        f[s] = IF s = {} THEN Reading ELSE ReadLine(f[s \ {Max(s)}], lines, is[Max(s)])
  BY <1>7
<1>10. f[{}] = Reading
  BY <1>9
<1>11. ASSUME NEW s \in SUBSET (1..n), s # {}, f[s \ {Max(s)}] \in S
       PROVE  f[s] = step[<<f[s \ {Max(s)}], Max(s)>>]
  <2>1. f[s] = ReadLine(f[s \ {Max(s)}], lines, is[Max(s)]) /\ Max(s) \in 1..n
    BY <1>4, <1>9, <1>11
  <2>2. QED BY <1>11, <2>1
<1>12. PICK r \in [0..n -> S] : r[n] = f[1..n] /\ Runs(r, n, Reading, step)
  <2> HIDE DEF step, S
  <2>1. FoldsIn(f, n, S, Reading, step)
    BY <1>10, <1>11 DEF FoldsIn
  <2>2. QED BY <1>2, <2>1, FoldRuns
<1>13. ASSUME NEW i \in 1..n PROVE r[i] = ReadLine(r[i - 1], lines, is[i])
  <2>1. r[i] = step[<<r[i - 1], i>>]
    <3> HIDE DEF step, S
    <3>1. QED BY <1>12 DEF Runs
  <2>2. r[i - 1] \in S
    <3> HIDE DEF step, S
    <3>1. i - 1 \in 0..n
      OBVIOUS
    <3>2. QED BY <1>12, <3>1
  <2>3. QED BY <2>1, <2>2
<1>14. r[0] = Reading
  <2> HIDE DEF step, S
  <2>1. QED BY <1>12 DEF Runs
<1>15. QED BY <1>8, <1>12, <1>13, <1>14 DEF ReadBy

\* What has been read of the first lines of a document: blocks in order, none of them
\* numbered above the count.
LinesOf(Chars) == [level : Nat, text : Seq(Chars)]
Outlined(Chars) == PlacedBlocks(Chars, Seq(Nat))
ReadSoFar(Chars, n) ==
  {r \in [headings : Seq(Nat), lines : Seq(1..n), blocks : Seq(Outlined(Chars)), count : Nat] :
     /\ InOrder(r.blocks, OnwardIn(Outlined(Chars)))
     /\ \A a \in 1..Len(r.blocks) : r.blocks[a].sheet = 0 /\ r.blocks[a].start <= r.count}

\* One more block, with the next number.
LEMMA NextBlockInOrder ==
  ASSUME NEW P, NEW bs \in Seq(P), NEW count \in Nat, NEW b \in P,
         b.sheet = 0, b.start = count + 1, InOrder(bs, OnwardIn(P)),
         \A x \in P : x.start \in Nat,
         \A a \in 1..Len(bs) : bs[a].sheet = 0 /\ bs[a].start <= count
  PROVE  /\ Append(bs, b) \in Seq(P) /\ InOrder(Append(bs, b), OnwardIn(P))
         /\ \A a \in 1..Len(Append(bs, b)) :
              Append(bs, b)[a].sheet = 0 /\ Append(bs, b)[a].start <= count + 1
<1> DEFINE u == Append(bs, b)
           one == <<b>>
           n == Len(bs)
<1>1. n \in Nat /\ \A a \in 1..n : bs[a] \in P /\ bs[a].start \in Nat
  BY ElementOfSeq
<1>2. /\ u \in Seq(P) /\ Len(u) = n + 1 /\ u[n + 1] = b /\ \A a \in 1..n : u[a] = bs[a]
  BY AppendProperties
<1>3. one \in Seq(P) /\ Len(one) = 1 /\ one[1] = b /\ u = bs \o one
  BY AppendIsConcat
<1> HIDE DEF u, one
<1>4. InOrder(one, OnwardIn(P))
  <2>1. <<b, b>> \in OnwardIn(P)
    <3>1. b.start <= b.start
      OBVIOUS
    <3>2. QED BY <3>1 DEF OnwardIn
  <2>2. QED BY <1>3, <2>1 DEF InOrder
<1>5. Before(bs, one, OnwardIn(P))
  <2>1. ASSUME NEW a \in 1..n PROVE <<bs[a], b>> \in OnwardIn(P)
    <3>1. bs[a].start <= b.start
      BY <1>1
    <3>2. QED BY <1>1, <3>1 DEF OnwardIn
  <2>2. QED BY <1>3, <2>1 DEF Before
<1>6. InOrder(u, OnwardIn(P))
  BY <1>3, <1>4, <1>5, ConcatInOrder
<1> HIDE DEF n
<1>7. ASSUME NEW a \in 1..(n + 1) PROVE u[a].sheet = 0 /\ u[a].start <= count + 1
  <2>1. CASE a = n + 1
    BY <1>2, <2>1
  <2>2. CASE a # n + 1
    <3>1. a \in 1..n
      BY <1>1, <2>2
    <3>2. bs[a].sheet = 0 /\ bs[a].start <= count /\ bs[a].start \in Nat
      BY <1>1, <3>1 DEF n
    <3>3. QED BY <1>2, <3>1, <3>2
  <2>3. QED BY <2>1, <2>2
<1>8. QED BY <1>2, <1>6, <1>7 DEF u

\* The lines of a paragraph make a text.
LEMMA LinesOfParagraph ==
  ASSUME NEW Chars, "/" \in Chars, NEW lines \in Seq(LinesOf(Chars)), NEW n \in Nat,
         Len(lines) = n, NEW is \in Seq(1..n)
  PROVE  Strip(FlattenSeq([k \in DOMAIN is |-> Append(lines[is[k]].text, "/")])) \in Seq(Chars)
<1> DEFINE m == Len(is)
           ss == [k \in DOMAIN is |-> Append(lines[is[k]].text, "/")]
<1>1. m \in Nat /\ DOMAIN is = 1..m /\ \A k \in 1..m : is[k] \in 1..n
  BY LengthAndElements
<1> HIDE DEF m
<1>2. ASSUME NEW k \in 1..m PROVE Append(lines[is[k]].text, "/") \in Seq(Chars)
  <2>1. lines[is[k]] \in LinesOf(Chars)
    BY <1>1, ElementOfSeq
  <2>2. lines[is[k]].text \in Seq(Chars)
    BY <2>1 DEF LinesOf
  <2>3. QED BY <2>2, AppendProperties
<1>3. ss \in [1..m -> Seq(Chars)]
  BY <1>1, <1>2
<1> HIDE DEF ss
<1>4. ss \in Seq(Seq(Chars)) /\ Len(ss) = m
  BY <1>1, <1>3, FunctionIsSeq
<1>5. FlattenSeq(ss) \in Seq(Chars)
  BY <1>1, <1>4, FlattenIsTyped
<1>6. QED BY <1>5, StripIs DEF ss

\* flush keeps the shape of what has been read, ...
LEMMA FlushReads ==
  ASSUME NEW Chars, "/" \in Chars, NEW lines \in Seq(LinesOf(Chars)), NEW n \in Nat,
         Len(lines) = n, NEW r \in ReadSoFar(Chars, n)
  PROVE  Flush(r, lines) \in ReadSoFar(Chars, n)
<1> DEFINE P == Outlined(Chars)
           text == Strip(FlattenSeq([k \in DOMAIN r.lines |-> Append(lines[r.lines[k]].text, "/")]))
           b == StructuredBlock(text, r.headings, "paragraph", r.count + 1, 0)
           bs == Append(r.blocks, b)
           c == r.count + 1
<1>1. /\ r \in [headings : Seq(Nat), lines : Seq(1..n), blocks : Seq(P), count : Nat]
      /\ InOrder(r.blocks, OnwardIn(P))
      /\ \A a \in 1..Len(r.blocks) : r.blocks[a].sheet = 0 /\ r.blocks[a].start <= r.count
  BY DEF ReadSoFar
<1>2. r.lines \in Seq(1..n) /\ r.headings \in Seq(Nat) /\ r.count \in Nat /\ r.blocks \in Seq(P)
  BY <1>1
<1>3. text \in Seq(Chars)
  BY <1>2, LinesOfParagraph
<1>4. Flush(r, lines) = IF text = <<>> THEN [r EXCEPT !.lines = <<>>]
                        ELSE [r EXCEPT !.lines = <<>>, !.count = c, !.blocks = bs]
  BY <1>1 DEF Flush
<1> HIDE DEF text
<1>5. b \in P /\ b.sheet = 0 /\ b.start = c
  BY <1>2, <1>3 DEF StructuredBlock, Outlined, PlacedBlocks, BlockSet, Kinds
<1>6. \A x \in P : x.start \in Nat
  BY DEF Outlined, PlacedBlocks, BlockSet
<1> HIDE DEF b, P
<1>7. /\ bs \in Seq(P) /\ InOrder(bs, OnwardIn(P))
      /\ \A a \in 1..Len(bs) : bs[a].sheet = 0 /\ bs[a].start <= c
  BY <1>1, <1>2, <1>5, <1>6, NextBlockInOrder
<1> HIDE DEF bs
<1>8. <<>> \in Seq(1..n) /\ c \in Nat
  BY <1>2, EmptySeq
<1> HIDE DEF c
<1>9. CASE text = <<>>
  <2> DEFINE f == [r EXCEPT !.lines = <<>>]
  <2>1. /\ f \in [headings : Seq(Nat), lines : Seq(1..n), blocks : Seq(P), count : Nat]
        /\ f.blocks = r.blocks /\ f.count = r.count
    BY <1>1, <1>8
  <2> HIDE DEF f
  <2>2. f \in ReadSoFar(Chars, n)
    BY <1>1, <2>1 DEF ReadSoFar, P
  <2>3. QED BY <1>4, <1>9, <2>2 DEF f
<1>10. CASE text # <<>>
  <2> DEFINE f == [r EXCEPT !.lines = <<>>, !.count = c, !.blocks = bs]
  <2>1. /\ f \in [headings : Seq(Nat), lines : Seq(1..n), blocks : Seq(P), count : Nat]
        /\ f.blocks = bs /\ f.count = c
    BY <1>1, <1>7, <1>8
  <2> HIDE DEF f
  <2>2. f \in ReadSoFar(Chars, n)
    BY <1>7, <2>1 DEF ReadSoFar, P
  <2>3. QED BY <1>4, <1>10, <2>2 DEF f
<1>11. QED BY <1>9, <1>10

\* ... so does a heading ...
LEMMA HeadingsAreNumbers ==
  ASSUME NEW h \in Seq(Nat), NEW line, line.level \in Nat, IsHeading(line), NEW i \in Nat
  PROVE  UnderHeading(h, line, i) \in Seq(Nat)
<1> DEFINE n == Len(h)
           k == line.level - 1
           m == Min({k, n})
<1>1. k \in Nat /\ n \in Nat
  BY DEF IsHeading
<1>2. m \in Nat /\ m <= n
  <2> HIDE DEF k, n
  <2>1. m = IF k <= n THEN k ELSE n
    BY <1>1, LesserOfTwo
  <2> HIDE DEF m
  <2>2. QED BY <1>1, <2>1
<1>3. Shortened(h, k) = SubSeq(h, 1, m)
  BY DEF Shortened
<1> HIDE DEF k, m
<1>4. \A j \in 1..m : h[j] \in Nat
  <2>1. \A j \in 1..m : j \in 1..n
    BY <1>1, <1>2
  <2>2. QED BY <2>1, ElementOfSeq
<1>5. SubSeq(h, 1, m) \in Seq(Nat)
  <2>1. 1 \in Int /\ m \in Int
    BY <1>2
  <2>2. QED BY <1>4, <2>1, SubSeqProperties
<1>6. QED BY <1>3, <1>5, AppendProperties DEF UnderHeading, k

\* ... and every line, ...
LEMMA ReadLineReads ==
  ASSUME NEW Chars, "/" \in Chars, NEW lines \in Seq(LinesOf(Chars)), NEW n \in Nat,
         Len(lines) = n, NEW r \in ReadSoFar(Chars, n), NEW i \in 1..n
  PROVE  ReadLine(r, lines, i) \in ReadSoFar(Chars, n)
<1> DEFINE P == Outlined(Chars)
           R == [headings : Seq(Nat), lines : Seq(1..n), blocks : Seq(P), count : Nat]
           f == Flush(r, lines)
<1>1. f \in ReadSoFar(Chars, n)
  BY FlushReads
<1> HIDE DEF f
<1>2. lines[i] \in LinesOf(Chars)
  BY ElementOfSeq
<1>3. lines[i].level \in Nat
  BY <1>2 DEF LinesOf
<1>4. CASE IsHeading(lines[i])
  <2> DEFINE h == UnderHeading(f.headings, lines[i], i)
             g == [f EXCEPT !.headings = h]
  <2>1. f \in R
    BY <1>1 DEF ReadSoFar
  <2>2. h \in Seq(Nat)
    <3>1. f.headings \in Seq(Nat) /\ i \in Nat
      BY <2>1
    <3>2. QED BY <1>3, <1>4, <3>1, HeadingsAreNumbers
  <2>3. ReadLine(r, lines, i) = g
    BY <1>4, <2>1 DEF ReadLine, f
  <2> HIDE DEF h
  <2>4. g \in R /\ g.blocks = f.blocks /\ g.count = f.count
    BY <2>1, <2>2
  <2> HIDE DEF g
  <2>5. g \in ReadSoFar(Chars, n)
    BY <1>1, <2>4 DEF ReadSoFar
  <2>6. QED BY <2>3, <2>5
<1>5. CASE ~IsHeading(lines[i]) /\ Strip(lines[i].text) # <<>>
  <2> DEFINE ls == Append(r.lines, i)
             g == [r EXCEPT !.lines = ls]
  <2>1. r \in R
    BY DEF ReadSoFar
  <2>2. ls \in Seq(1..n)
    <3>1. r.lines \in Seq(1..n)
      BY <2>1
    <3>2. QED BY <3>1, AppendProperties
  <2>3. ReadLine(r, lines, i) = g
    BY <1>5, <2>1 DEF ReadLine
  <2> HIDE DEF ls
  <2>4. g \in R /\ g.blocks = r.blocks /\ g.count = r.count
    BY <2>1, <2>2
  <2> HIDE DEF g
  <2>5. g \in ReadSoFar(Chars, n)
    BY <2>4 DEF ReadSoFar
  <2>6. QED BY <2>3, <2>5
<1>6. CASE ~IsHeading(lines[i]) /\ ~(Strip(lines[i].text) # <<>>)
  BY <1>1, <1>6 DEF ReadLine, f
<1>7. QED BY <1>4, <1>5, <1>6

\* ... and it has that shape at first.
LEMMA ReadingIsTyped ==
  ASSUME NEW Chars, NEW n \in Nat
  PROVE  Reading \in ReadSoFar(Chars, n)
<1> DEFINE P == Outlined(Chars)
           o == Reading
<1>1. /\ <<>> \in Seq(Nat) /\ <<>> \in Seq(1..n) /\ <<>> \in Seq(P) /\ 0 \in Nat
      /\ Len(<<>>) = 0 /\ 1..0 = {}
  BY EmptySeq
<1>2. /\ o \in [headings : Seq(Nat), lines : Seq(1..n), blocks : Seq(P), count : Nat]
      /\ o.blocks = <<>>
  BY <1>1 DEF Reading
<1> HIDE DEF o
<1>3. InOrder(o.blocks, OnwardIn(P)) /\ 1..Len(o.blocks) = {}
  BY <1>1, <1>2 DEF InOrder
<1>4. o \in ReadSoFar(Chars, n)
  BY <1>2, <1>3 DEF ReadSoFar
<1>5. QED BY <1>4 DEF o

\* Every paragraph of a Markdown document is a block.
LEMMA ParagraphsKeepTheirPlace ==
  ASSUME NEW Chars, "/" \in Chars, NEW lines \in Seq(LinesOf(Chars))
  PROVE  LET blocks == ParseMarkdown(lines)
             pieces == Expanded(blocks)
         IN \/ blocks = TooLarge
            \/ \E ends \in SUBSET DOMAIN pieces : GroupedAs(pieces, MergeBlocks(pieces), ends)
<1> DEFINE n == Len(lines)
           F == ReadSoFar(Chars, n)
           P == Outlined(Chars)
           is == [i \in DOMAIN lines |-> i]
           stop == FoldLeft(LAMBDA r, i : ReadLine(r, lines, i), Reading, is)
           bs == Flush(stop, lines).blocks
<1>1. n \in Nat /\ DOMAIN lines = 1..n
  BY LengthAndElements
<1>2. ParseMarkdown(lines) = Collected(bs)
  BY DEF ParseMarkdown
<1>3. DOMAIN is = 1..n /\ \A i \in 1..n : is[i] = i
  BY <1>1
<1> HIDE DEF is
<1>4. Reading \in F
  BY <1>1, ReadingIsTyped
<1>5. \A t \in F, i \in 1..n : ReadLine(t, lines, is[i]) \in F
  <2>1. ASSUME NEW t \in F, NEW i \in 1..n PROVE ReadLine(t, lines, i) \in F
    BY <1>1, ReadLineReads
  <2>2. QED BY <1>3, <2>1
<1>6. stop \in F
  <2> HIDE DEF F, n, stop
  <2>1. PICK r \in [0..n -> F] : ReadBy(r, lines, is, n)
    BY <1>1, <1>3, <1>4, <1>5, ReadingUnfolds
  <2>2. r[n] = stop
    BY <2>1 DEF ReadBy, stop
  <2>3. n \in 0..n
    BY <1>1
  <2>4. QED BY <2>1, <2>2, <2>3
<1> HIDE DEF stop
<1>7. Flush(stop, lines) \in F
  BY <1>1, <1>6, FlushReads
<1>8. bs \in Seq(P) /\ InOrder(bs, OnwardIn(P))
  BY <1>7 DEF ReadSoFar
<1> HIDE DEF bs
<1>9. QED BY <1>2, <1>8, BlocksInOrderKeepTheirPlace DEF Outlined

\* The chunks of every document are its pieces in groups, each at the place it names
\* (ChunksKeepTheirPlace: the parsers, _split_text and _merge_blocks), for every text.
THEOREM PlaceIsKept ==
  ASSUME NEW Chars, "/" \in Chars,
         \/ input \in [kind : {"pdf", "csv", "text"}, of : Seq(Seq(Chars))]
         \/ input \in [kind : {"pptx"}, of : Seq([title : Seq(Chars), text : Seq(Chars)])]
         \/ input \in [kind : {"xlsx"}, of : Seq(Seq(Seq(Chars)))]
         \/ input \in [kind : {"outline"}, of : Seq([level : Nat, text : Seq(Chars)])]
  PROVE  ChunksKeepTheirPlace
<1> DEFINE Good(blocks) ==
             LET pieces == Expanded(blocks)
             IN \/ blocks = TooLarge
                \/ \E ends \in SUBSET DOMAIN pieces :
                     GroupedAs(pieces, MergeBlocks(pieces), ends)
           of == input.of
<1>1. CASE input.kind = "pdf"
  <2>1. of \in Seq(Seq(Chars)) /\ ParseDocument(input) = ParsePdf(of)
    BY <1>1 DEF ParseDocument
  <2>2. Good(ParsePdf(of))
    BY <2>1, PagesKeepTheirPlace
  <2>3. QED BY <2>1, <2>2 DEF ChunksKeepTheirPlace
<1>2. CASE input.kind = "pptx"
  <2>1. /\ of \in Seq([title : Seq(Chars), text : Seq(Chars)])
        /\ ParseDocument(input) = ParsePptx(of)
    BY <1>2 DEF ParseDocument
  <2>2. Good(ParsePptx(of))
    BY <2>1, SlidesKeepTheirPlace
  <2>3. QED BY <2>1, <2>2 DEF ChunksKeepTheirPlace
<1>3. CASE input.kind = "xlsx"
  <2>1. of \in Seq(Seq(Seq(Chars))) /\ ParseDocument(input) = ParseXlsx(of)
    BY <1>3 DEF ParseDocument
  <2>2. Good(ParseXlsx(of))
    BY <2>1, RowsKeepTheirPlace
  <2>3. QED BY <2>1, <2>2 DEF ChunksKeepTheirPlace
<1>4. CASE input.kind = "csv"
  <2>1. of \in Seq(Seq(Chars)) /\ ParseDocument(input) = ParseXlsx(<<of>>)
    BY <1>4 DEF ParseDocument, ParseCsv
  <2> HIDE DEF of
  <2>2. <<of>> \in Seq(Seq(Seq(Chars)))
    <3> DEFINE Q == Seq(Seq(Chars))
    <3>1. of \in Q
      BY <2>1
    <3> HIDE DEF Q
    <3>2. <<of>> \in Seq(Q)
      BY <3>1
    <3>3. QED BY <3>2 DEF Q
  <2>3. Good(ParseXlsx(<<of>>))
    BY <2>2, RowsKeepTheirPlace
  <2>4. QED BY <2>1, <2>3 DEF ChunksKeepTheirPlace
<1>5. CASE input.kind = "text"
  <2> DEFINE lines == [i \in DOMAIN of |-> Line(0, of[i])]
  <2>1. of \in Seq(Seq(Chars)) /\ ParseDocument(input) = ParseText(of)
    BY <1>5 DEF ParseDocument
  <2>2. ParseText(of) = ParseMarkdown(lines)
    BY DEF ParseText
  <2> HIDE DEF of
  <2>3. lines \in Seq(LinesOf(Chars))
    <3> DEFINE Q == Seq(Chars)
               n == Len(of)
    <3>1. n \in Nat /\ DOMAIN of = 1..n /\ \A i \in 1..n : of[i] \in Q
      <4>1. of \in Seq(Q)
        BY <2>1
      <4> HIDE DEF Q
      <4>2. QED BY <4>1, LengthAndElements
    <3> HIDE DEF n
    <3>2. lines \in [1..n -> LinesOf(Chars)]
      <4>1. \A i \in 1..n : Line(0, of[i]) \in LinesOf(Chars)
        BY <3>1 DEF Line, LinesOf
      <4>2. QED BY <3>1, <4>1
    <3>3. QED BY <3>1, <3>2, FunctionIsSeq
  <2> HIDE DEF lines
  <2>4. Good(ParseMarkdown(lines))
    BY <2>3, ParagraphsKeepTheirPlace
  <2>5. QED BY <2>1, <2>2, <2>4 DEF ChunksKeepTheirPlace
<1>6. CASE input.kind = "outline"
  <2>1. of \in Seq(LinesOf(Chars)) /\ ParseDocument(input) = ParseMarkdown(of)
    BY <1>6 DEF ParseDocument, LinesOf
  <2>2. Good(ParseMarkdown(of))
    BY <2>1, ParagraphsKeepTheirPlace
  <2>3. QED BY <2>1, <2>2 DEF ChunksKeepTheirPlace
<1>7. QED BY <1>1, <1>2, <1>3, <1>4, <1>5, <1>6 DEF ChunksKeepTheirPlace

-----------------------------------------------------------------------------
(* The headings of a paragraph are the ones it is under *)

\* strip() leaves something of a text with ink only, and nothing more to strip.
LEMMA StripKeepsInk ==
  ASSUME NEW Chars, NEW t \in Seq(Chars)
  PROVE  /\ Strip(t) # <<>> <=> InkIn(t, 1, Len(t)) # {}
         /\ Strip(Strip(t)) = Strip(t)
<1> DEFINE n == Len(t)
<1>1. n \in Nat /\ \A i \in 1..n : t[i] \in Chars
  BY ElementOfSeq
<1>2. CASE InkIn(t, 1, n) = {}
  <2>1. Stripped(t, 1, n) = <<>>
    BY <1>1, <1>2, StrippedIsInk
  <2>2. Strip(t) = <<>>
    BY <2>1 DEF Strip
  <2>3. InkIn(<<>>, 1, Len(<<>>)) = {} /\ Len(<<>>) \in Nat
    BY DEF InkIn
  <2>4. Stripped(<<>>, 1, Len(<<>>)) = <<>>
    BY <2>3, StrippedIsInk
  <2>5. Strip(<<>>) = <<>>
    BY <2>4 DEF Strip
  <2>6. QED BY <1>2, <2>2, <2>5
<1>3. CASE InkIn(t, 1, n) # {}
  <2>1. PICK p \in Span :
          /\ Stripped(t, 1, n) = <<p>>
          /\ p.from \in InkIn(t, 1, n) /\ p.to \in InkIn(t, 1, n)
          /\ \A i \in InkIn(t, 1, n) : p.from <= i /\ i <= p.to
    BY <1>1, <1>3, StrippedIsInk
  <2> DEFINE a == p.from
             b == p.to
             u == SubSeq(t, a, b)
             m == b - a + 1
  <2>2. Strip(t) = u
    <3>1. Stripped(t, 1, n) # <<>> /\ Stripped(t, 1, n)[1] = p
      BY <2>1
    <3>2. QED BY <3>1 DEF Strip, Cut
  <2>3. /\ a \in 1..n /\ b \in 1..n /\ a <= b
        /\ t[a] \notin Blanks /\ t[b] \notin Blanks
    BY <2>1 DEF InkIn
  <2> HIDE DEF a, b, n
  <2>4. /\ u \in Seq(Chars) /\ Len(u) = m
        /\ \A i \in 1..m : u[i] = t[a + i - 1]
    <3>1. a \in Int /\ b \in Int /\ \A i \in a..b : t[i] \in Chars
      BY <1>1, <2>3
    <3>2. QED BY <2>3, <3>1, SubSeqProperties
  <2>5. m \in Nat /\ m >= 1 /\ a + 1 - 1 = a /\ a + m - 1 = b
    BY <1>1, <2>3
  <2> HIDE DEF u, m
  <2>6. 1 \in InkIn(u, 1, m) /\ m \in InkIn(u, 1, m)
    BY <2>3, <2>4, <2>5 DEF InkIn
  <2>7. PICK q \in Span :
          /\ Stripped(u, 1, m) = <<q>>
          /\ q.from \in InkIn(u, 1, m) /\ q.to \in InkIn(u, 1, m)
          /\ \A i \in InkIn(u, 1, m) : q.from <= i /\ i <= q.to
    BY <2>5, <2>6, StrippedIsInk
  <2>8. q.from = 1 /\ q.to = m
    <3>1. q.from <= 1 /\ m <= q.to /\ q.from \in 1..m /\ q.to \in 1..m
      BY <2>6, <2>7 DEF InkIn
    <3>2. QED BY <2>5, <3>1
  <2>9. Strip(u) = u
    <3>1. Stripped(u, 1, Len(u)) # <<>> /\ Stripped(u, 1, Len(u))[1] = q
      BY <2>4, <2>7
    <3>2. Strip(u) = SubSeq(u, 1, m)
      BY <2>8, <3>1 DEF Strip, Cut
    <3>3. QED BY <2>4, <3>2, SubSeqFull
  <2>10. u # <<>>
    BY <2>4, <2>5
  <2>11. QED BY <1>3, <2>2, <2>9, <2>10 DEF n
<1>4. QED BY <1>2, <1>3 DEF n

\* Blocks that are stripped and have text are all kept.
LEMMA CollectedIsAll ==
  ASSUME NEW Chars, NEW Headings, NEW bs \in Seq(PlacedBlocks(Chars, Headings)),
         \A i \in 1..Len(bs) : bs[i].text # <<>> /\ Strip(bs[i].text) = bs[i].text,
         Collected(bs) # TooLarge
  PROVE  Collected(bs) = bs
<1> DEFINE P == PlacedBlocks(Chars, Headings)
           n == Len(bs)
           ss == [i \in DOMAIN bs |-> KeptBlock(bs[i])]
<1>1. Collected(bs) = FlattenSeq(ss)
  BY DEF Collected
<1>2. n \in Nat /\ DOMAIN bs = 1..n /\ \A i \in 1..n : bs[i] \in P
  <2> HIDE DEF P
  <2>1. bs \in Seq(P)
    BY DEF P
  <2>2. QED BY <2>1, LengthAndElements
<1>3. \A i \in 1..n : KeptBlock(bs[i]) = <<bs[i]>>
  <2>1. SUFFICES ASSUME NEW i \in 1..n PROVE KeptBlock(bs[i]) = <<bs[i]>>
    OBVIOUS
  <2>2. [bs[i] EXCEPT !.text = bs[i].text] = bs[i]
    BY <1>2 DEF PlacedBlocks, BlockSet
  <2>3. bs[i].text # <<>> /\ Strip(bs[i].text) = bs[i].text
    BY <2>1
  <2>4. QED BY <2>2, <2>3 DEF KeptBlock
<1> HIDE DEF P, n
<1>4. ss \in [1..n -> Seq(P)] /\ \A i \in 1..n : ss[i] = <<bs[i]>>
  <2>1. \A i \in 1..n : <<bs[i]>> \in Seq(P)
    BY <1>2
  <2>2. \A i \in 1..n : KeptBlock(bs[i]) \in Seq(P)
    BY <1>3, <2>1
  <2>3. QED BY <1>2, <1>3, <2>2
<1> HIDE DEF ss
<1>5. ss \in Seq(Seq(P)) /\ Len(ss) = n
  BY <1>2, <1>4, FunctionIsSeq
<1>6. PICK r \in [0..n -> Seq(P)] : Flattening(r, ss, n)
  BY <1>2, <1>5, FlattenUnfolds
<1> DEFINE T == {i \in Nat : i <= n => Len(r[i]) = i /\ \A a \in 1..i : r[i][a] = bs[a]}
<1>7. 0 \in T
  <2>1. r[0] = <<>> /\ Len(<<>>) = 0 /\ 1..0 = {}
    BY <1>6 DEF Flattening
  <2>2. QED BY <2>1
<1>8. ASSUME NEW i \in Nat, i \in T PROVE i + 1 \in T
  <2>1. SUFFICES ASSUME i + 1 <= n
                 PROVE  Len(r[i + 1]) = i + 1 /\ \A a \in 1..(i + 1) : r[i + 1][a] = bs[a]
    OBVIOUS
  <2>2. i + 1 \in 1..n /\ (i + 1) - 1 = i /\ i \in 0..n /\ i <= n
    BY <1>2, <2>1
  <2> DEFINE s == r[i]
             u == <<bs[i + 1]>>
             w == r[i + 1]
  <2>3. w = s \o u
    BY <1>4, <1>6, <2>2 DEF Flattening
  <2>4. u \in Seq(P) /\ Len(u) = 1 /\ u[1] = bs[i + 1]
    BY <1>2, <2>2
  <2>5. s \in Seq(P) /\ Len(s) = i /\ \A a \in 1..i : s[a] = bs[a]
    BY <1>6, <1>8, <2>2
  <2> HIDE DEF s, u, w
  <2>6. /\ Len(w) = i + 1
        /\ \A a \in 1..(i + 1) : w[a] = IF a <= i THEN s[a] ELSE u[a - i]
    <3>1. /\ Len(s \o u) = Len(s) + Len(u)
          /\ \A a \in 1..(Len(s) + Len(u)) : (s \o u)[a] = IF a <= Len(s) THEN s[a] ELSE u[a - Len(s)]
      BY <2>4, <2>5, ConcatProperties
    <3>2. QED BY <2>3, <2>4, <2>5, <3>1
  <2>7. ASSUME NEW a \in 1..(i + 1) PROVE w[a] = bs[a]
    <3>1. CASE a <= i
      <4>1. a \in 1..i
        BY <3>1
      <4>2. QED BY <2>5, <2>6, <3>1, <4>1
    <3>2. CASE ~(a <= i)
      <4>1. a = i + 1 /\ a - i = 1
        BY <3>2
      <4>2. QED BY <2>4, <2>6, <3>2, <4>1
    <3>3. QED BY <3>1, <3>2
  <2>8. QED BY <2>6, <2>7 DEF w
<1>9. Nat \subseteq T
  <2> HIDE DEF T
  <2>1. QED BY <1>7, <1>8, Induction
<1>10. /\ r[n] \in Seq(P) /\ bs \in Seq(P) /\ Len(r[n]) = Len(bs)
       /\ \A a \in 1..Len(r[n]) : r[n][a] = bs[a]
  <2>1. n \in 0..n /\ n <= n /\ n \in Nat
    BY <1>2
  <2>2. r[n] \in Seq(P) /\ bs \in Seq(P)
    BY <1>6, <2>1 DEF P
  <2>3. Len(r[n]) = n /\ \A a \in 1..n : r[n][a] = bs[a]
    BY <1>9, <2>1
  <2>4. QED BY <2>2, <2>3 DEF n
<1>11. r[n] = bs
  BY <1>10, SeqEqual
<1>12. r[n] = FlattenSeq(ss)
  BY <1>6 DEF Flattening
<1>13. QED BY <1>1, <1>11, <1>12

\* Which headings a line is under changes at headings only.
LEMMA OverOfText ==
  ASSUME NEW lines, NEW i \in Nat, i # 0, ~IsHeading(lines[i])
  PROVE  Over(lines, i + 1) = Over(lines, i)
<1>1. (i + 1) - 1 = i
  OBVIOUS
<1>2. ASSUME NEW j \in Over(lines, i + 1) PROVE j \in Over(lines, i)
  <2>1. j \in 1..i /\ IsHeading(lines[j])
        /\ \A k \in (j + 1)..i : IsHeading(lines[k]) => lines[k].level > lines[j].level
    BY <1>1 DEF Over
  <2>2. j # i
    BY <2>1
  <2>3. j \in 1..(i - 1) /\ \A k \in (j + 1)..(i - 1) : k \in (j + 1)..i
    BY <2>1, <2>2
  <2>4. QED BY <2>1, <2>3 DEF Over
<1>3. ASSUME NEW j \in Over(lines, i) PROVE j \in Over(lines, i + 1)
  <2>1. j \in 1..(i - 1) /\ IsHeading(lines[j])
        /\ \A k \in (j + 1)..(i - 1) : IsHeading(lines[k]) => lines[k].level > lines[j].level
    BY DEF Over
  <2>2. j \in 1..i /\ \A k \in (j + 1)..i : k = i \/ k \in (j + 1)..(i - 1)
    BY <2>1
  <2>3. QED BY <1>1, <2>1, <2>2 DEF Over
<1>4. QED BY <1>2, <1>3

\* A heading hides those before it that are not of a higher rank.
LEMMA OverOfHeading ==
  ASSUME NEW lines, NEW i \in Nat, i # 0, IsHeading(lines[i])
  PROVE  Over(lines, i + 1) = {j \in Over(lines, i) : lines[i].level > lines[j].level} \cup {i}
<1>1. (i + 1) - 1 = i
  OBVIOUS
<1>2. ASSUME NEW j \in Over(lines, i + 1), j # i
      PROVE  j \in Over(lines, i) /\ lines[i].level > lines[j].level
  <2>1. j \in 1..i /\ IsHeading(lines[j])
        /\ \A k \in (j + 1)..i : IsHeading(lines[k]) => lines[k].level > lines[j].level
    BY <1>1 DEF Over
  <2>2. i \in (j + 1)..i /\ j \in 1..(i - 1) /\ \A k \in (j + 1)..(i - 1) : k \in (j + 1)..i
    BY <1>2, <2>1
  <2>3. QED BY <2>1, <2>2 DEF Over
<1>3. ASSUME NEW j \in Over(lines, i), lines[i].level > lines[j].level
      PROVE  j \in Over(lines, i + 1)
  <2>1. j \in 1..(i - 1) /\ IsHeading(lines[j])
        /\ \A k \in (j + 1)..(i - 1) : IsHeading(lines[k]) => lines[k].level > lines[j].level
    BY DEF Over
  <2>2. j \in 1..i /\ \A k \in (j + 1)..i : k = i \/ k \in (j + 1)..(i - 1)
    BY <2>1
  <2>3. QED BY <1>1, <1>3, <2>1, <2>2 DEF Over
<1>4. i \in Over(lines, i + 1)
  <2>1. i \in 1..i /\ (i + 1)..i = {}
    OBVIOUS
  <2>2. QED BY <1>1, <2>1 DEF Over
<1>5. QED BY <1>2, <1>3, <1>4

\* The lines of a run are under the same headings.
LEMMA OverOfRun ==
  ASSUME NEW lines, NEW from \in Nat, from # 0, NEW m \in Nat,
         \A k \in from..(from + m - 1) : ~IsHeading(lines[k])
  PROVE  Over(lines, from + m) = Over(lines, from)
<1> DEFINE T == {k \in Nat : k <= m => Over(lines, from + k) = Over(lines, from)}
<1>1. 0 \in T
  <2>1. from + 0 = from
    OBVIOUS
  <2>2. QED BY <2>1
<1>2. ASSUME NEW k \in Nat, k \in T PROVE k + 1 \in T
  <2>1. SUFFICES ASSUME k + 1 <= m PROVE Over(lines, from + (k + 1)) = Over(lines, from)
    OBVIOUS
  <2> DEFINE i == from + k
  <2>2. i \in Nat /\ i # 0 /\ i \in from..(from + m - 1) /\ from + (k + 1) = i + 1 /\ k <= m
    BY <2>1
  <2>3. ~IsHeading(lines[i])
    BY <2>2
  <2>4. Over(lines, i) = Over(lines, from)
    BY <1>2, <2>2
  <2> HIDE DEF i
  <2>5. QED BY <2>2, <2>3, <2>4, OverOfText
<1>3. Nat \subseteq T
  <2> HIDE DEF T
  <2>1. QED BY <1>1, <1>2, Induction
<1>4. QED BY <1>3

\* The stack of headings over a line: one of every level, from the first.
Stacked(lines, h, i) ==
  /\ h \in Seq(Nat) /\ ToSet(h) = Over(lines, i)
  /\ \A j \in 1..Len(h) : lines[h[j]].level = j

\* headings[:level - 1] and the new one are the stack over the next line.
LEMMA StackGrows ==
  ASSUME NEW Chars, NEW lines \in Seq(LinesOf(Chars)), SkipsNoLevel(lines),
         NEW i \in 1..Len(lines), IsHeading(lines[i]), NEW h, Stacked(lines, h, i)
  PROVE  Stacked(lines, UnderHeading(h, lines[i], i), i + 1)
<1> DEFINE n == Len(h)
           level == lines[i].level
           k == level - 1
           cuts == SubSeq(h, 1, k)
           u == Append(cuts, i)
<1>1. /\ h \in Seq(Nat) /\ ToSet(h) = Over(lines, i) /\ \A j \in 1..n : lines[h[j]].level = j
  BY DEF Stacked
<1>2. n \in Nat /\ DOMAIN h = 1..n /\ \A j \in 1..n : h[j] \in Nat
  BY <1>1, LengthAndElements
<1>3. i \in Nat /\ i # 0 /\ i \in DOMAIN lines /\ level \in Nat /\ level # 0
  <2>1. lines[i] \in LinesOf(Chars) /\ DOMAIN lines = 1..Len(lines)
    BY LengthAndElements
  <2>2. level \in Nat
    BY <2>1 DEF LinesOf
  <2>3. QED BY <2>1, <2>2 DEF IsHeading
<1> HIDE DEF n, level
<1>4. \A x \in ToSet(h) : \E j \in 1..n : x = h[j]
  BY <1>2 DEF ToSet
<1>5. \A j \in 1..n : h[j] \in ToSet(h)
  BY <1>2 DEF ToSet
<1>6. {0} \cup {lines[x].level : x \in Over(lines, i)} = 0..n
  <2>1. ASSUME NEW x \in Over(lines, i) PROVE lines[x].level \in 0..n
    <3>1. PICK j \in 1..n : x = h[j]
      BY <1>1, <1>4
    <3>2. lines[x].level = j
      BY <1>1, <3>1
    <3>3. QED BY <1>2, <3>2
  <2>2. ASSUME NEW j \in 0..n, j # 0 PROVE \E x \in Over(lines, i) : lines[x].level = j
    <3>1. j \in 1..n
      BY <2>2
    <3>2. h[j] \in Over(lines, i) /\ lines[h[j]].level = j
      BY <1>1, <1>5, <3>1
    <3>3. QED BY <3>2
  <2>3. 0 \in 0..n
    BY <1>2
  <2>4. QED BY <2>1, <2>2, <2>3
<1>7. Max(0..n) = n
  <2> DEFINE s == 0..n
  <2>1. s \subseteq Nat /\ n \in s /\ \A y \in s : y <= n
    BY <1>2
  <2> HIDE DEF s
  <2>2. Max(s) \in s /\ n <= Max(s)
    BY <1>2, <2>1, GreatestNumber
  <2>3. QED BY <1>2, <2>2 DEF s
<1>8. level <= 1 + n
  BY <1>3, <1>6, <1>7 DEF SkipsNoLevel, level
<1>9. k \in Nat /\ k <= n /\ k + 1 = level
  BY <1>2, <1>3, <1>8
<1>10. UnderHeading(h, lines[i], i) = u
  <2>1. Min({k, n}) = k
    <3> HIDE DEF k
    <3>1. Min({k, n}) = IF k <= n THEN k ELSE n
      BY <1>2, <1>9, LesserOfTwo
    <3>2. QED BY <1>9, <3>1
  <2>2. Shortened(h, k) = cuts
    BY <2>1 DEF Shortened, n
  <2>3. QED BY <2>2 DEF UnderHeading, level
<1> HIDE DEF k
<1>11. cuts \in Seq(Nat) /\ Len(cuts) = k /\ \A j \in 1..k : cuts[j] = h[j]
  <2>1. 1 \in Int /\ k \in Int /\ \A j \in 1..k : h[j] \in Nat
    BY <1>2, <1>9
  <2>2. /\ cuts \in Seq(Nat) /\ Len(cuts) = (IF 1 <= k THEN k - 1 + 1 ELSE 0)
        /\ \A j \in 1..(k - 1 + 1) : cuts[j] = h[1 + j - 1]
    BY <2>1, SubSeqProperties
  <2> HIDE DEF cuts
  <2>3. k - 1 + 1 = k /\ \A j \in 1..k : 1 + j - 1 = j
    BY <1>9
  <2>4. Len(cuts) = k
    BY <1>9, <2>2
  <2>5. QED BY <2>2, <2>3, <2>4
<1> HIDE DEF cuts
<1>12. /\ u \in Seq(Nat) /\ Len(u) = level /\ u[level] = i /\ \A j \in 1..k : u[j] = h[j]
  <2>1. /\ Append(cuts, i) \in Seq(Nat) /\ Len(Append(cuts, i)) = Len(cuts) + 1
        /\ (\A j \in 1..Len(cuts) : Append(cuts, i)[j] = cuts[j])
        /\ Append(cuts, i)[Len(cuts) + 1] = i
    BY <1>3, <1>11, AppendProperties
  <2>2. QED BY <1>9, <1>11, <2>1
<1>13. DOMAIN u = 1..level
  BY <1>12, LengthAndElements
<1> HIDE DEF u
<1>14. ToSet(u) = {h[j] : j \in 1..k} \cup {i}
  <2>1. \A j \in 1..level : j = level \/ j \in 1..k
    BY <1>3, <1>9
  <2>2. level \in 1..level /\ \A j \in 1..k : j \in 1..level
    BY <1>3, <1>9
  <2>3. QED BY <1>12, <1>13, <2>1, <2>2 DEF ToSet
<1>15. {h[j] : j \in 1..k} = {x \in Over(lines, i) : level > lines[x].level}
  <2>1. ASSUME NEW j \in 1..k PROVE h[j] \in Over(lines, i) /\ level > lines[h[j]].level
    <3>1. j \in 1..n /\ level > j
      BY <1>2, <1>9
    <3>2. QED BY <1>1, <1>5, <3>1
  <2>2. ASSUME NEW x \in Over(lines, i), level > lines[x].level
        PROVE  \E j \in 1..k : x = h[j]
    <3>1. PICK j \in 1..n : x = h[j]
      BY <1>1, <1>4
    <3>2. lines[x].level = j
      BY <1>1, <3>1
    <3>3. j \in 1..k
      BY <1>2, <1>9, <2>2, <3>2
    <3>4. QED BY <3>1, <3>3
  <2>3. QED BY <2>1, <2>2
<1>16. ToSet(u) = Over(lines, i + 1)
  <2>1. Over(lines, i + 1) = {j \in Over(lines, i) : lines[i].level > lines[j].level} \cup {i}
    BY <1>3, OverOfHeading
  <2>2. Over(lines, i + 1) = {x \in Over(lines, i) : level > lines[x].level} \cup {i}
    BY <2>1 DEF level
  <2>3. QED BY <1>14, <1>15, <2>2
<1>17. ASSUME NEW j \in 1..level PROVE lines[u[j]].level = j
  <2>1. CASE j = level
    BY <1>12, <2>1 DEF level
  <2>2. CASE j # level
    <3>1. j \in 1..k /\ j \in 1..n
      BY <1>2, <1>9, <2>2
    <3>2. QED BY <1>1, <1>12, <3>1
  <2>3. QED BY <2>1, <2>2
<1>18. Stacked(lines, u, i + 1)
  BY <1>12, <1>16, <1>17 DEF Stacked
<1>19. QED BY <1>10, <1>18

\* The blocks bs are at the places S, in their order.
Numbers(c, n, S) == Rising(c, n) /\ {c[k] : k \in 1..n} = S
Below(S, x)     == \A y \in S : y < x
Longer(c, n, x) == [k \in 1..(n + 1) |-> IF k = n + 1 THEN x ELSE c[k]]

Lengthens(d, c, n, S, x) ==
  Numbers(d, n + 1, S \cup {x}) /\ d[n + 1] = x /\ \A k \in 1..n : d[k] = c[k]

\* One more block, at a later place.
LEMMA NumbersGrow ==
  ASSUME NEW n \in Nat, NEW c, NEW S, Numbers(c, n, S), NEW x \in Nat, Below(S, x)
  PROVE  Lengthens(Longer(c, n, x), c, n, S, x)
<1> DEFINE d == Longer(c, n, x)
<1>1. /\ c \in [1..n -> Nat] /\ (\A i, j \in 1..n : i < j => c[i] < c[j])
      /\ {c[k] : k \in 1..n} = S
  BY DEF Numbers, Rising
<1>2. d[n + 1] = x /\ \A k \in 1..n : d[k] = c[k]
  BY DEF Longer
<1>3. d \in [1..(n + 1) -> Nat]
  <2>1. \A k \in 1..(n + 1) : k # n + 1 => c[k] \in Nat
    BY <1>1
  <2>2. QED BY <2>1 DEF Longer
<1> HIDE DEF d
<1>4. \A k \in 1..(n + 1) : k = n + 1 \/ k \in 1..n
  OBVIOUS
<1>5. ASSUME NEW i \in 1..(n + 1), NEW j \in 1..(n + 1), i < j PROVE d[i] < d[j]
  <2>1. i \in 1..n
    BY <1>5
  <2>2. CASE j = n + 1
    <3>1. c[i] \in S
      BY <1>1, <2>1
    <3>2. QED BY <1>2, <2>1, <2>2, <3>1 DEF Below
  <2>3. CASE j \in 1..n
    BY <1>1, <1>2, <1>5, <2>1, <2>3
  <2>4. QED BY <1>4, <2>2, <2>3
<1>6. {d[k] : k \in 1..(n + 1)} = S \cup {x}
  <2>1. \A k \in 1..n : k \in 1..(n + 1)
    OBVIOUS
  <2>2. n + 1 \in 1..(n + 1)
    OBVIOUS
  <2>3. QED BY <1>1, <1>2, <1>4, <2>1, <2>2
<1>7. QED BY <1>2, <1>3, <1>5, <1>6 DEF Numbers, Rising, Lengthens, d

\* No blocks are at no places.
LEMMA NoNumbers == Numbers([k \in 1..0 |-> 0], 0, {})
<1>1. 1..0 = {}
  OBVIOUS
<1>2. QED BY <1>1 DEF Numbers, Rising

\* Where the runs of lines of text begin and end.
FirstOf(lines) == {i \in TextLines(lines) : i - 1 \notin TextLines(lines)}
FinalOf(lines) == {i \in TextLines(lines) : i + 1 \notin TextLines(lines)}
Upto(S, top)   == {i \in S : i <= top}

\* The blocks are the runs of the first lines.
IsRun(b, lines, from, to) ==
  /\ ToSet(b.heading) = Over(lines, from) /\ b.text = RunOfLines(lines, from, to)
  /\ b.text # <<>> /\ Strip(b.text) = b.text
Covers(bs, lines, top, c, d) ==
  /\ Numbers(c, Len(bs), Upto(FirstOf(lines), top))
  /\ Numbers(d, Len(bs), Upto(FinalOf(lines), top))
  /\ \A k \in 1..Len(bs) : IsRun(bs[k], lines, c[k], d[k])

\* One more run.
LEMMA CoverGrows ==
  ASSUME NEW P, NEW n \in Nat, NEW bs \in Seq(P), Len(bs) = n, NEW b \in P,
         NEW lines, TextLines(lines) \subseteq Nat,
         NEW top \in Nat, NEW c, NEW d, Covers(bs, lines, top, c, d),
         NEW from \in Nat, NEW to \in Nat, top < from, top < to,
         Upto(FirstOf(lines), to) = Upto(FirstOf(lines), top) \cup {from},
         Upto(FinalOf(lines), to) = Upto(FinalOf(lines), top) \cup {to},
         IsRun(b, lines, from, to)
  PROVE  Covers(Append(bs, b), lines, to, Longer(c, n, from), Longer(d, n, to))
<1> DEFINE u == Append(bs, b)
           c2 == Longer(c, n, from)
           d2 == Longer(d, n, to)
           F == Upto(FirstOf(lines), top)
           G == Upto(FinalOf(lines), top)
<1>1. n \in Nat /\ Len(u) = n + 1 /\ u[n + 1] = b /\ \A k \in 1..n : u[k] = bs[k]
  BY AppendProperties
<1>2. /\ Numbers(c, n, F) /\ Numbers(d, n, G)
      /\ \A k \in 1..n : IsRun(bs[k], lines, c[k], d[k])
  BY DEF Covers
<1>3. Below(F, from) /\ Below(G, to)
  <2>1. \A y \in F : y \in Nat /\ y <= top
    BY DEF Upto, FirstOf
  <2>2. \A y \in G : y \in Nat /\ y <= top
    BY DEF Upto, FinalOf
  <2>3. QED BY <2>1, <2>2 DEF Below
<1> HIDE DEF u, F, G
<1>4. /\ Numbers(c2, n + 1, F \cup {from})
      /\ c2[n + 1] = from /\ \A k \in 1..n : c2[k] = c[k]
  <2>1. Lengthens(c2, c, n, F, from)
    BY <1>2, <1>3, NumbersGrow
  <2>2. QED BY <2>1 DEF Lengthens
<1>5. /\ Numbers(d2, n + 1, G \cup {to})
      /\ d2[n + 1] = to /\ \A k \in 1..n : d2[k] = d[k]
  <2>1. Lengthens(d2, d, n, G, to)
    BY <1>2, <1>3, NumbersGrow
  <2>2. QED BY <2>1 DEF Lengthens
<1> HIDE DEF c2, d2
<1>6. ASSUME NEW k \in 1..(n + 1) PROVE IsRun(u[k], lines, c2[k], d2[k])
  <2>1. CASE k = n + 1
    BY <1>1, <1>4, <1>5, <2>1
  <2>2. CASE k # n + 1
    <3>1. k \in 1..n
      BY <1>1, <2>2
    <3>2. QED BY <1>1, <1>2, <1>4, <1>5, <3>1
  <2>3. QED BY <2>1, <2>2
<1>7. /\ Numbers(c2, Len(u), Upto(FirstOf(lines), to))
      /\ Numbers(d2, Len(u), Upto(FinalOf(lines), to))
  BY <1>1, <1>4, <1>5 DEF F, G
<1>8. Covers(u, lines, to, c2, d2)
  BY <1>1, <1>6, <1>7 DEF Covers
<1>9. QED BY <1>8 DEF u, c2, d2

\* What FlattenSeq makes of texts has the ink of the last of them.
LEMMA FlattenHasInk ==
  ASSUME NEW Chars, NEW n \in Nat, n # 0, NEW ss \in Seq(Seq(Chars)), Len(ss) = n,
         NEW a \in 1..Len(ss[n]), ss[n][a] \notin Blanks
  PROVE  FlattenSeq(ss) \in Seq(Chars) /\ InkIn(FlattenSeq(ss), 1, Len(FlattenSeq(ss))) # {}
<1>1. PICK r \in [0..n -> Seq(Chars)] : Flattening(r, ss, n)
  BY FlattenUnfolds
<1> DEFINE s == r[n - 1]
           t == ss[n]
           w == FlattenSeq(ss)
<1>2. n \in 1..n /\ n - 1 \in 0..n
  OBVIOUS
<1>3. s \in Seq(Chars) /\ t \in Seq(Chars)
  <2> DEFINE Q == Seq(Chars)
  <2>1. ss \in Seq(Q)
    OBVIOUS
  <2>2. ss[n] \in Q
    <3> HIDE DEF Q
    <3>1. QED BY <1>2, <2>1, ElementOfSeq
  <2>3. QED BY <1>1, <1>2, <2>2
<1>4. w = s \o t
  BY <1>1, <1>2 DEF Flattening
<1> DEFINE p == Len(s)
           q == Len(t)
<1>5. p \in Nat /\ q \in Nat /\ a \in 1..q /\ t[a] \notin Blanks
  BY <1>3
<1> HIDE DEF s, t, w
<1>6. /\ s \o t \in Seq(Chars) /\ Len(s \o t) = p + q
      /\ \A i \in 1..(p + q) : (s \o t)[i] = IF i <= p THEN s[i] ELSE t[i - p]
  BY <1>3, ConcatProperties
<1> HIDE DEF p, q
<1>7. p + a \in 1..(p + q) /\ ~(p + a <= p) /\ (p + a) - p = a
  BY <1>5
<1>8. (s \o t)[p + a] = t[a]
  BY <1>6, <1>7
<1>9. p + a \in InkIn(w, 1, Len(w))
  BY <1>4, <1>5, <1>6, <1>7, <1>8 DEF InkIn
<1>10. QED BY <1>4, <1>6, <1>9 DEF w

\* The lines of a document, and which of them are text.
LEMMA TextLineIs ==
  ASSUME NEW Chars, NEW lines \in Seq(LinesOf(Chars))
  PROVE  /\ TextLines(lines) \subseteq 1..Len(lines) /\ Len(lines) \in Nat
         /\ \A i \in 1..Len(lines) : lines[i].text \in Seq(Chars) /\ lines[i].level \in Nat
         /\ \A i \in 1..Len(lines) :
              i \in TextLines(lines) <=> ~IsHeading(lines[i]) /\ Strip(lines[i].text) # <<>>
<1>1. /\ Len(lines) \in Nat /\ DOMAIN lines = 1..Len(lines)
      /\ \A i \in 1..Len(lines) : lines[i] \in LinesOf(Chars)
  BY LengthAndElements
<1>2. \A i \in 1..Len(lines) : lines[i].text \in Seq(Chars) /\ lines[i].level \in Nat
  BY <1>1 DEF LinesOf
<1>3. QED BY <1>1, <1>2 DEF TextLines

\* The text of a run of lines of text.
LEMMA RunHasInk ==
  ASSUME NEW Chars, "/" \in Chars, NEW lines \in Seq(LinesOf(Chars)),
         NEW from \in Nat, NEW to \in Nat, from <= to,
         \A k \in from..to : k \in TextLines(lines)
  PROVE  /\ RunOfLines(lines, from, to) \in Seq(Chars) /\ RunOfLines(lines, from, to) # <<>>
         /\ Strip(RunOfLines(lines, from, to)) = RunOfLines(lines, from, to)
<1> DEFINE n == to - from + 1
           L(k) == lines[from + k - 1].text
           ss == [k \in 1..n |-> Append(L(k), "/")]
           w == FlattenSeq(ss)
<1>1. n \in Nat /\ n # 0 /\ n \in 1..n
  OBVIOUS
<1>2. ASSUME NEW k \in 1..n PROVE L(k) \in Seq(Chars) /\ Strip(L(k)) # <<>>
  <2>1. from + k - 1 \in from..to
    OBVIOUS
  <2>2. from + k - 1 \in TextLines(lines)
    BY <2>1
  <2> DEFINE i == from + k - 1
  <2> HIDE DEF i
  <2>3. i \in TextLines(lines)
    BY <2>2 DEF i
  <2>4. i \in 1..Len(lines)
    BY <2>3, TextLineIs
  <2>5. lines[i].text \in Seq(Chars) /\ Strip(lines[i].text) # <<>>
    BY <2>3, <2>4, TextLineIs
  <2>6. QED BY <2>5 DEF i
<1>3. ASSUME NEW k \in 1..n
      PROVE  /\ Append(L(k), "/") \in Seq(Chars) /\ Len(Append(L(k), "/")) = Len(L(k)) + 1
             /\ \A a \in 1..Len(L(k)) : Append(L(k), "/")[a] = L(k)[a]
  <2> HIDE DEF L
  <2>1. QED BY <1>2, AppendProperties
<1>4. RunOfLines(lines, from, to) = Strip(w)
  BY DEF RunOfLines
<1> HIDE DEF n, L
<1>5. ss \in [1..n -> Seq(Chars)] /\ ss[n] = Append(L(n), "/")
  BY <1>1, <1>3
<1> HIDE DEF ss
<1>6. ss \in Seq(Seq(Chars)) /\ Len(ss) = n
  BY <1>1, <1>5, FunctionIsSeq
<1>7. PICK a \in 1..Len(L(n)) : L(n)[a] \notin Blanks
  <2>1. L(n) \in Seq(Chars) /\ Strip(L(n)) # <<>>
    BY <1>1, <1>2
  <2> DEFINE l == L(n)
  <2> HIDE DEF l
  <2>2. l \in Seq(Chars) /\ Strip(l) # <<>>
    BY <2>1 DEF l
  <2>3. InkIn(l, 1, Len(l)) # {}
    BY <2>2, StripKeepsInk
  <2>4. QED BY <2>3 DEF InkIn, l
<1>8. a \in 1..Len(ss[n]) /\ ss[n][a] \notin Blanks
  <2>1. Len(ss[n]) = Len(L(n)) + 1 /\ ss[n][a] = L(n)[a]
    BY <1>1, <1>3, <1>5, <1>7
  <2>2. Len(L(n)) \in Nat
    BY <1>1, <1>2
  <2> DEFINE m == Len(L(n))
  <2> HIDE DEF m
  <2>3. a \in 1..m /\ m \in Nat /\ Len(ss[n]) = m + 1
    BY <1>7, <2>1, <2>2 DEF m
  <2>4. a \in 1..(m + 1)
    BY <2>3
  <2>5. QED BY <1>7, <2>1, <2>3, <2>4
<1>9. w \in Seq(Chars) /\ InkIn(w, 1, Len(w)) # {}
  BY <1>1, <1>6, <1>8, FlattenHasInk
<1> HIDE DEF w
<1>10. Strip(w) # <<>> /\ Strip(Strip(w)) = Strip(w) /\ Strip(w) \in Seq(Chars)
  BY <1>9, StripKeepsInk, StripIs
<1>11. QED BY <1>4, <1>10

\* What has been read of the first i lines of Markdown: the blocks are the runs before
\* the one whose lines are kept.
ReadTo(r, lines, i) ==
  /\ Stacked(lines, r.headings, i + 1)
  /\ Len(r.lines) <= i /\ i - Len(r.lines) \notin TextLines(lines)
  /\ \A k \in 1..Len(r.lines) :
       /\ r.lines[k] = i - Len(r.lines) + k
       /\ i - Len(r.lines) + k \in TextLines(lines)
  /\ \E c, d : Covers(r.blocks, lines, i - Len(r.lines), c, d)

\* flush ends the run of the lines that are kept.
LEMMA RunIsFlushed ==
  ASSUME NEW Chars, "/" \in Chars, NEW lines \in Seq(LinesOf(Chars)), NEW n \in Nat,
         Len(lines) = n, NEW r \in ReadSoFar(Chars, n), NEW i \in 0..n, ReadTo(r, lines, i),
         i + 1 \notin TextLines(lines)
  PROVE  /\ Flush(r, lines).lines = <<>> /\ Flush(r, lines).headings = r.headings
         /\ \E c, d : Covers(Flush(r, lines).blocks, lines, i, c, d)
<1> DEFINE P == Outlined(Chars)
           m == Len(r.lines)
           top == i - m
           from == top + 1
           ss == [k \in DOMAIN r.lines |-> Append(lines[r.lines[k]].text, "/")]
           text == Strip(FlattenSeq(ss))
           b == StructuredBlock(text, r.headings, "paragraph", r.count + 1, 0)
           TL == TextLines(lines)
<1>1. r \in [headings : Seq(Nat), lines : Seq(1..n), blocks : Seq(P), count : Nat]
  BY DEF ReadSoFar
<1>2. /\ r.lines \in Seq(1..n) /\ r.headings \in Seq(Nat)
      /\ r.count \in Nat /\ r.blocks \in Seq(P)
  BY <1>1
<1>3. m \in Nat /\ DOMAIN r.lines = 1..m
  BY <1>2, LengthAndElements
<1>4. Flush(r, lines) = IF text = <<>> THEN [r EXCEPT !.lines = <<>>]
                        ELSE [r EXCEPT !.lines = <<>>, !.count = r.count + 1,
                                       !.blocks = Append(r.blocks, b)]
  BY <1>1 DEF Flush
<1>5. /\ Stacked(lines, r.headings, i + 1) /\ m <= i /\ top \notin TL
      /\ \A k \in 1..m : r.lines[k] = top + k /\ top + k \in TL
  BY DEF ReadTo
<1>6. PICK c, d : Covers(r.blocks, lines, top, c, d)
  BY DEF ReadTo
<1>7. TL \subseteq 1..n /\ \A k \in 1..n : k \in TL => ~IsHeading(lines[k])
  BY TextLineIs
<1>8. i + 1 \notin TL
  OBVIOUS
<1> HIDE DEF m, TL, P
<1>9. top \in Nat /\ from \in Nat /\ from = top + 1 /\ top < from /\ i = top + m /\ i \in Nat
  BY <1>3, <1>5
<1> HIDE DEF top, from
<1>10. CASE m = 0
  <2>1. top = i
    BY <1>9, <1>10
  <2>2. text = <<>>
    <3>1. ss \in [1..0 -> Seq(Chars)]
      BY <1>3, <1>10
    <3>2. ss \in Seq(Seq(Chars)) /\ Len(ss) = 0
      <4> HIDE DEF ss
      <4>1. QED BY <3>1, FunctionIsSeq
    <3> HIDE DEF ss
    <3>3. FlattenSeq(ss) = <<>>
      <4>1. ss = <<>> /\ FlattenSeq(ss) = ss
        BY <3>2 DEF FlattenSeq
      <4>2. QED BY <4>1
    <3>4. <<>> \in Seq(Chars) /\ Len(<<>>) = 0
      OBVIOUS
    <3>5. InkIn(<<>>, 1, 0) = {}
      BY DEF InkIn
    <3>6. Strip(<<>>) = <<>>
      BY <3>4, <3>5, StripKeepsInk
    <3>7. QED BY <3>3, <3>6
  <2> HIDE DEF text, b
  <2>3. Flush(r, lines) = [r EXCEPT !.lines = <<>>]
    BY <1>4, <2>2
  <2>4. QED BY <1>1, <1>6, <2>1, <2>3
<1>11. CASE m # 0
  <2>1. from <= i /\ i \in Nat /\ i = top + m /\ i - from + 1 = m
    BY <1>3, <1>9, <1>11
  <2>2. \A k \in from..i : k \in TL
    <3>1. SUFFICES ASSUME NEW k \in from..i PROVE k \in TL
      OBVIOUS
    <3>2. k - top \in 1..m /\ top + (k - top) = k
      <4>1. top \in Nat /\ m \in Nat /\ k \in (top + 1)..(top + m)
        BY <1>3, <1>9
      <4>2. QED BY <4>1
    <3>3. top + (k - top) \in TL
      BY <1>5, <3>2
    <3>4. QED BY <3>2, <3>3
  <2>3. text = RunOfLines(lines, from, i)
    <3>1. \A k \in 1..m : r.lines[k] = from + k - 1
      <4>1. \A k \in 1..m : top + k = from + k - 1
        BY <1>9
      <4>2. QED BY <1>5, <4>1
    <3>2. ss = [k \in 1..(i - from + 1) |-> Append(lines[from + k - 1].text, "/")]
      BY <1>3, <2>1, <3>1
    <3>3. QED BY <3>2 DEF RunOfLines
  <2> HIDE DEF ss, text
  <2>4. text \in Seq(Chars) /\ text # <<>> /\ Strip(text) = text
    BY <1>9, <2>1, <2>2, <2>3, RunHasInk DEF TL
  <2>5. b \in P /\ b.text = text /\ b.heading = r.headings
    BY <1>2, <2>4 DEF StructuredBlock, Outlined, PlacedBlocks, BlockSet, Kinds, P
  <2> HIDE DEF b
  <2>6. ToSet(r.headings) = Over(lines, from)
    <3>1. \A k \in from..(from + m - 1) : ~IsHeading(lines[k])
      <4>1. from + m - 1 = i
        BY <1>3, <1>9
      <4>2. QED BY <1>7, <2>2, <4>1
    <3>2. from # 0 /\ from + m = i + 1
      BY <1>3, <1>9
    <3>3. Over(lines, from + m) = Over(lines, from)
      BY <1>3, <1>9, <3>1, <3>2, OverOfRun
    <3>4. QED BY <1>5, <3>2, <3>3 DEF Stacked
  <2>7. IsRun(b, lines, from, i)
    BY <2>3, <2>4, <2>5, <2>6 DEF IsRun
  <2>8. Upto(FirstOf(lines), i) = Upto(FirstOf(lines), top) \cup {from}
    <3>1. \A x \in TL : x \in Nat
      BY <1>7
    <3>2. ASSUME NEW x \in Upto(FirstOf(lines), i), ~(x <= top) PROVE x = from
      <4>1. x \in TL /\ x - 1 \notin TL /\ x <= i
        BY DEF Upto, FirstOf, TL
      <4>2. x \in Nat
        BY <3>1, <4>1
      <4>3. CASE x - 1 \in from..i
        BY <2>2, <4>1, <4>3
      <4>4. CASE x - 1 \notin from..i
        BY <1>9, <2>1, <3>2, <4>1, <4>2, <4>4
      <4>5. QED BY <4>3, <4>4
    <3>3. from \in Upto(FirstOf(lines), i)
      <4>1. from \in TL /\ from - 1 = top
        BY <1>9, <2>1, <2>2
      <4>2. QED BY <1>5, <2>1, <4>1 DEF Upto, FirstOf, TL
    <3>4. ASSUME NEW x \in Upto(FirstOf(lines), top) PROVE x \in Upto(FirstOf(lines), i)
      <4>1. x \in TL /\ x <= top
        BY DEF Upto, FirstOf, TL
      <4>2. x <= i
        BY <1>9, <2>1, <3>1, <4>1
      <4>3. QED BY <4>2 DEF Upto
    <3>5. ASSUME NEW x \in Upto(FirstOf(lines), i), x <= top
          PROVE  x \in Upto(FirstOf(lines), top)
      BY <3>5 DEF Upto
    <3>6. QED BY <3>2, <3>3, <3>4, <3>5
  <2>9. Upto(FinalOf(lines), i) = Upto(FinalOf(lines), top) \cup {i}
    <3>1. \A x \in TL : x \in Nat
      BY <1>7
    <3>2. ASSUME NEW x \in Upto(FinalOf(lines), i), ~(x <= top) PROVE x = i
      <4>1. x \in TL /\ x + 1 \notin TL /\ x <= i
        BY DEF Upto, FinalOf, TL
      <4>2. x \in Nat
        BY <3>1, <4>1
      <4>3. CASE x + 1 \in from..i
        BY <2>2, <4>1, <4>3
      <4>4. CASE x + 1 \notin from..i
        BY <1>9, <2>1, <3>2, <4>1, <4>2, <4>4
      <4>5. QED BY <4>3, <4>4
    <3>3. i \in Upto(FinalOf(lines), i)
      <4>1. i \in TL /\ i <= i
        BY <1>9, <2>1, <2>2
      <4>2. QED BY <1>8, <4>1 DEF Upto, FinalOf, TL
    <3>4. ASSUME NEW x \in Upto(FinalOf(lines), top) PROVE x \in Upto(FinalOf(lines), i)
      <4>1. x \in TL /\ x <= top
        BY DEF Upto, FinalOf, TL
      <4>2. x <= i
        BY <1>9, <2>1, <3>1, <4>1
      <4>3. QED BY <4>2 DEF Upto
    <3>5. ASSUME NEW x \in Upto(FinalOf(lines), i), x <= top
          PROVE  x \in Upto(FinalOf(lines), top)
      BY <3>5 DEF Upto
    <3>6. QED BY <3>2, <3>3, <3>4, <3>5
  <2>10. Flush(r, lines) = [r EXCEPT !.lines = <<>>, !.count = r.count + 1,
                                     !.blocks = Append(r.blocks, b)]
    BY <1>4, <2>4
  <2> DEFINE q == Len(r.blocks)
             bs == r.blocks
  <2>11. q \in Nat /\ bs \in Seq(P) /\ Len(bs) = q
    BY <1>2
  <2>12. TextLines(lines) \subseteq Nat /\ top < i /\ Covers(bs, lines, top, c, d)
    BY <1>6, <1>7, <1>9, <2>1 DEF TL
  <2> HIDE DEF q, bs
  <2>13. Covers(Append(bs, b), lines, i, Longer(c, q, from), Longer(d, q, i))
    BY <1>9, <2>1, <2>5, <2>7, <2>8, <2>9, <2>11, <2>12, CoverGrows
  <2>14. \E x, y : Covers(Append(bs, b), lines, i, x, y)
    BY <2>13
  <2>15. Flush(r, lines).blocks = Append(bs, b) /\ Flush(r, lines).lines = <<>>
         /\ Flush(r, lines).headings = r.headings
    BY <1>1, <2>10 DEF bs
  <2>16. QED BY <2>14, <2>15
<1>12. QED BY <1>10, <1>11

\* What no line of text adds to.
LEMMA CoversOnward ==
  ASSUME NEW Chars, NEW lines \in Seq(LinesOf(Chars)), NEW i \in Nat,
         i + 1 \notin TextLines(lines),
         NEW bs, NEW c, NEW d, Covers(bs, lines, i, c, d)
  PROVE  Covers(bs, lines, i + 1, c, d)
<1>1. \A x \in TextLines(lines) : x \in Nat
  BY TextLineIs
<1>2. \A x \in TextLines(lines) : x <= i + 1 <=> x <= i
  <2>1. SUFFICES ASSUME NEW x \in TextLines(lines) PROVE x <= i + 1 <=> x <= i
    OBVIOUS
  <2>2. x \in Nat /\ x # i + 1
    BY <1>1
  <2>3. QED BY <2>2
<1>3. /\ Upto(FirstOf(lines), i + 1) = Upto(FirstOf(lines), i)
      /\ Upto(FinalOf(lines), i + 1) = Upto(FinalOf(lines), i)
  BY <1>2 DEF Upto, FirstOf, FinalOf
<1>4. QED BY <1>3 DEF Covers

\* Before the first line nothing is read.
LEMMA NothingIsRead ==
  ASSUME NEW Chars, NEW lines \in Seq(LinesOf(Chars))
  PROVE  Stacked(lines, <<>>, 1) /\ \E c, d : Covers(<<>>, lines, 0, c, d)
<1>1. Len(<<>>) = 0 /\ 1..0 = {} /\ DOMAIN <<>> = {} /\ <<>> \in Seq(Nat)
  OBVIOUS
<1>2. Over(lines, 1) = {}
  <2>1. 1..(1 - 1) = {}
    OBVIOUS
  <2>2. QED BY <2>1 DEF Over
<1>3. Stacked(lines, <<>>, 1)
  <2>1. ToSet(<<>>) = {}
    BY <1>1 DEF ToSet
  <2>2. QED BY <1>1, <1>2, <2>1 DEF Stacked
<1>4. Upto(FirstOf(lines), 0) = {} /\ Upto(FinalOf(lines), 0) = {}
  <2>1. \A x \in TextLines(lines) : ~(x <= 0)
    BY TextLineIs
  <2>2. QED BY <2>1 DEF Upto, FirstOf, FinalOf
<1> DEFINE c == [k \in 1..0 |-> 0]
<1>5. Numbers(c, 0, {})
  BY NoNumbers
<1> HIDE DEF c
<1>6. Covers(<<>>, lines, 0, c, c)
  BY <1>1, <1>4, <1>5 DEF Covers
<1>7. QED BY <1>3, <1>6

\* Every line of Markdown keeps it so.
LEMMA ReadLineOnward ==
  ASSUME NEW Chars, "/" \in Chars, NEW lines \in Seq(LinesOf(Chars)), NEW n \in Nat,
         Len(lines) = n, SkipsNoLevel(lines),
         NEW r \in ReadSoFar(Chars, n), NEW i \in 0..n, i < n, ReadTo(r, lines, i)
  PROVE  ReadTo(ReadLine(r, lines, i + 1), lines, i + 1)
<1> DEFINE P == Outlined(Chars)
           R == [headings : Seq(Nat), lines : Seq(1..n), blocks : Seq(P), count : Nat]
           j == i + 1
           f == Flush(r, lines)
           g == ReadLine(r, lines, j)
           TL == TextLines(lines)
<1>1. j \in 1..n /\ j \in Nat /\ j # 0 /\ i \in Nat /\ j \in 1..Len(lines)
  OBVIOUS
<1>2. /\ TL \subseteq 1..n
      /\ j \in TL <=> ~IsHeading(lines[j]) /\ Strip(lines[j].text) # <<>>
  BY <1>1, TextLineIs
<1>3. f \in R /\ r \in R
  <2>1. f \in ReadSoFar(Chars, n)
    BY FlushReads
  <2>2. QED BY <2>1 DEF ReadSoFar
<1>4. Stacked(lines, r.headings, j)
  BY DEF ReadTo
<1>5. ~IsHeading(lines[j]) => Stacked(lines, r.headings, j + 1)
  <2>1. SUFFICES ASSUME ~IsHeading(lines[j]) PROVE Stacked(lines, r.headings, j + 1)
    OBVIOUS
  <2> HIDE DEF j
  <2>2. Over(lines, j + 1) = Over(lines, j)
    BY <1>1, <2>1, OverOfText
  <2>3. QED BY <1>4, <2>2 DEF Stacked
<1>6. ASSUME j \notin TL
      PROVE  /\ f.lines = <<>> /\ f.headings = r.headings
             /\ \E c, d : Covers(f.blocks, lines, j, c, d)
  <2>1. /\ f.lines = <<>> /\ f.headings = r.headings
        /\ \E c, d : Covers(f.blocks, lines, i, c, d)
    BY <1>6, RunIsFlushed
  <2> HIDE DEF f
  <2>2. PICK c, d : Covers(f.blocks, lines, i, c, d)
    BY <2>1
  <2>3. Covers(f.blocks, lines, j, c, d)
    BY <1>1, <1>6, <2>2, CoversOnward
  <2>4. QED BY <2>1, <2>3
<1>7. ASSUME NEW q, q.lines = <<>>, Stacked(lines, q.headings, j + 1), j \notin TL,
             \E c, d : Covers(q.blocks, lines, j, c, d)
      PROVE  ReadTo(q, lines, j)
  <2>1. Len(q.lines) = 0 /\ 1..0 = {} /\ 0 <= j /\ j - 0 = j
    BY <1>1, <1>7
  <2> HIDE DEF j
  <2>2. QED BY <1>7, <2>1 DEF ReadTo, TL
<1> HIDE DEF f, j
<1>8. CASE IsHeading(lines[j])
  <2> DEFINE h == UnderHeading(f.headings, lines[j], j)
  <2>1. g = [f EXCEPT !.headings = h]
    BY <1>3, <1>8 DEF ReadLine, f
  <2>2. j \notin TL
    BY <1>2, <1>8
  <2>3. Stacked(lines, h, j + 1)
    BY <1>1, <1>4, <1>6, <1>8, <2>2, StackGrows
  <2> HIDE DEF h
  <2>4. g.lines = <<>> /\ g.headings = h /\ g.blocks = f.blocks
    BY <1>3, <1>6, <2>1, <2>2
  <2> HIDE DEF g
  <2>5. ReadTo(g, lines, j)
    BY <1>6, <1>7, <2>2, <2>3, <2>4
  <2>6. QED BY <2>5 DEF g, j
<1>9. CASE ~IsHeading(lines[j]) /\ ~(Strip(lines[j].text) # <<>>)
  <2>1. g = f
    BY <1>9 DEF ReadLine, f
  <2>2. j \notin TL
    BY <1>2, <1>9
  <2> HIDE DEF g
  <2>3. ReadTo(f, lines, j)
    BY <1>5, <1>6, <1>7, <1>9, <2>2
  <2>4. QED BY <2>1, <2>3 DEF g, j
<1>10. CASE ~IsHeading(lines[j]) /\ Strip(lines[j].text) # <<>>
  <2> DEFINE m == Len(r.lines)
             ls == Append(r.lines, j)
  <2>1. g = [r EXCEPT !.lines = ls]
    BY <1>3, <1>10 DEF ReadLine
  <2>2. r.lines \in Seq(1..n)
    BY <1>3
  <2>3. m \in Nat /\ Len(ls) = m + 1 /\ ls[m + 1] = j /\ \A k \in 1..m : ls[k] = r.lines[k]
    BY <1>1, <2>2, AppendProperties
  <2>4. /\ m <= i /\ i - m \notin TL
        /\ \A k \in 1..m : r.lines[k] = i - m + k /\ i - m + k \in TL
        /\ \E c, d : Covers(r.blocks, lines, i - m, c, d)
    BY DEF ReadTo
  <2> HIDE DEF ls, m
  <2>5. g.lines = ls /\ g.headings = r.headings /\ g.blocks = r.blocks
    BY <1>3, <2>1
  <2> HIDE DEF g
  <2>6. j = i + 1 /\ j - (m + 1) = i - m /\ m + 1 <= j
    BY <1>1, <2>3, <2>4 DEF j
  <2>7. ASSUME NEW k \in 1..(m + 1) PROVE ls[k] = i - m + k /\ i - m + k \in TL
    <3>1. CASE k = m + 1
      <4>1. i - m + k = j
        BY <1>1, <2>3, <2>6, <3>1
      <4>2. QED BY <1>2, <1>10, <2>3, <3>1, <4>1
    <3>2. CASE k # m + 1
      <4>1. k \in 1..m
        BY <2>3, <3>2
      <4>2. QED BY <2>3, <2>4, <4>1
    <3>3. QED BY <3>1, <3>2
  <2>8. Len(g.lines) = m + 1 /\ j - Len(g.lines) = i - m
    BY <2>3, <2>5, <2>6
  <2>9. Stacked(lines, g.headings, j + 1)
    BY <1>5, <1>10, <2>5
  <2>10. \A k \in 1..Len(g.lines) : /\ g.lines[k] = j - Len(g.lines) + k
                                    /\ j - Len(g.lines) + k \in TextLines(lines)
    BY <2>5, <2>7, <2>8 DEF TL
  <2>11. j - Len(g.lines) \notin TextLines(lines) /\ Len(g.lines) <= j
    BY <2>4, <2>6, <2>8 DEF TL
  <2>12. \E c, d : Covers(g.blocks, lines, j - Len(g.lines), c, d)
    BY <2>4, <2>5, <2>8
  <2>13. ReadTo(g, lines, j)
    BY <2>9, <2>10, <2>11, <2>12 DEF ReadTo
  <2>14. QED BY <2>13 DEF g, j
<1>11. QED BY <1>8, <1>9, <1>10

\* The paragraphs of Markdown are its runs of lines of text, under their headings.
LEMMA MarkdownIsRuns ==
  ASSUME NEW Chars, "/" \in Chars, NEW lines \in Seq(LinesOf(Chars)), SkipsNoLevel(lines),
         ParseMarkdown(lines) # TooLarge
  PROVE  /\ ParseMarkdown(lines) \in Seq(Outlined(Chars))
         /\ \E c, d : Covers(ParseMarkdown(lines), lines, Len(lines), c, d)
<1> DEFINE n == Len(lines)
           F == ReadSoFar(Chars, n)
           P == Outlined(Chars)
           is == [i \in DOMAIN lines |-> i]
           stop == FoldLeft(LAMBDA r, i : ReadLine(r, lines, i), Reading, is)
           bs == Flush(stop, lines).blocks
<1>1. n \in Nat /\ DOMAIN lines = 1..n
  BY LengthAndElements
<1>2. ParseMarkdown(lines) = Collected(bs)
  BY DEF ParseMarkdown
<1>3. DOMAIN is = 1..n /\ \A i \in 1..n : is[i] = i
  BY <1>1
<1> HIDE DEF is
<1>4. Reading \in F
  BY <1>1, ReadingIsTyped
<1>5. \A t \in F, i \in 1..n : ReadLine(t, lines, is[i]) \in F
  <2>1. ASSUME NEW t \in F, NEW i \in 1..n PROVE ReadLine(t, lines, i) \in F
    BY <1>1, ReadLineReads
  <2>2. QED BY <1>3, <2>1
<1> HIDE DEF n, F, stop
<1>6. PICK r \in [0..n -> F] : ReadBy(r, lines, is, n)
  BY <1>1, <1>3, <1>4, <1>5, ReadingUnfolds
<1>7. r[n] = stop /\ r[0] = Reading
  BY <1>6 DEF ReadBy, stop
<1> DEFINE T == {i \in Nat : i <= n => ReadTo(r[i], lines, i)}
<1>8. 0 \in T
  <2> DEFINE o == Reading
  <2>1. o.headings = <<>> /\ o.lines = <<>> /\ o.blocks = <<>>
    BY DEF Reading
  <2> HIDE DEF o
  <2>2. Len(<<>>) = 0 /\ 1..0 = {} /\ 0 - 0 = 0 /\ 0 <= 0 /\ 0 + 1 = 1
    OBVIOUS
  <2>3. 0 \notin TextLines(lines)
    BY TextLineIs
  <2>4. ReadTo(o, lines, 0)
    BY <2>1, <2>2, <2>3, NothingIsRead DEF ReadTo
  <2>5. QED BY <1>7, <2>4 DEF o
<1>9. ASSUME NEW i \in Nat, i \in T PROVE i + 1 \in T
  <2>1. SUFFICES ASSUME i + 1 <= n PROVE ReadTo(r[i + 1], lines, i + 1)
    OBVIOUS
  <2>2. i + 1 \in 1..n /\ (i + 1) - 1 = i /\ i \in 0..n /\ i < n
    BY <1>1, <2>1
  <2>3. r[i + 1] = ReadLine(r[i], lines, i + 1)
    BY <1>3, <1>6, <2>2 DEF ReadBy
  <2>4. r[i] \in F /\ ReadTo(r[i], lines, i)
    BY <1>6, <1>9, <2>2
  <2>5. QED BY <1>1, <2>2, <2>3, <2>4, ReadLineOnward DEF F, n
<1>10. Nat \subseteq T
  <2> HIDE DEF T
  <2>1. QED BY <1>8, <1>9, Induction
<1>11. stop \in F /\ ReadTo(stop, lines, n) /\ n \in 0..n
  <2>1. n \in 0..n /\ n <= n
    BY <1>1
  <2>2. QED BY <1>1, <1>6, <1>7, <1>10, <2>1
<1>12. n + 1 \notin TextLines(lines)
  <2>1. TextLines(lines) \subseteq 1..n
    BY TextLineIs DEF n
  <2>2. QED BY <1>1, <2>1
<1>13. bs \in Seq(P) /\ \E c, d : Covers(bs, lines, n, c, d)
  <2>1. \E c, d : Covers(bs, lines, n, c, d)
    BY <1>1, <1>11, <1>12, RunIsFlushed DEF F, n
  <2>2. Flush(stop, lines) \in F
    BY <1>1, <1>11, FlushReads DEF F, n
  <2>3. QED BY <2>1, <2>2 DEF F, ReadSoFar
<1> HIDE DEF bs
<1>14. \A k \in 1..Len(bs) : bs[k].text # <<>> /\ Strip(bs[k].text) = bs[k].text
  BY <1>13 DEF Covers, IsRun
<1>15. Collected(bs) = bs
  BY <1>2, <1>13, <1>14, CollectedIsAll DEF P, Outlined
<1>16. QED BY <1>2, <1>13, <1>15 DEF n

\* What is read of a Word document, paragraph by paragraph.
WordBy(r, lines, is, n) ==
  /\ r[n] = FoldLeft(LAMBDA a, i : ReadParagraph(a, lines, i), Reading, is)
  /\ r[0] = Reading /\ \A i \in 1..n : r[i] = ReadParagraph(r[i - 1], lines, is[i])

LEMMA WordUnfolds ==
  ASSUME NEW n \in Nat, NEW lines, NEW is, DOMAIN is = 1..n, NEW Readings, Reading \in Readings,
         \A t \in Readings, i \in 1..n : ReadParagraph(t, lines, is[i]) \in Readings
  PROVE  \E r \in [0..n -> Readings] : WordBy(r, lines, is, n)
<1> DEFINE S == Readings
           step == [p \in S \X (1..n) |-> ReadParagraph(p[1], lines, is[p[2]])]
           Is(h) == h = [s \in SUBSET DOMAIN is |->
                           IF s = {} THEN Reading
                           ELSE ReadParagraph(h[s \ {Max(s)}], lines, is[Max(s)])]
           f == CHOOSE h : Is(h)
<1>1. ASSUME NEW t \in S, NEW i \in 1..n PROVE ReadParagraph(t, lines, is[i]) \in S
  OBVIOUS
<1>2. step \in [S \X (1..n) -> S] /\ Reading \in S
  BY <1>1
<1>3. PICK h \in [SUBSET (1..n) -> S] : Folding(h, n, Reading, step)
  <2> HIDE DEF step, S
  <2>1. QED BY <1>2, FoldExists
<1>4. ASSUME NEW s \in SUBSET (1..n), s # {}
      PROVE  Max(s) \in s /\ Max(s) \in 1..n /\ s \ {Max(s)} \in SUBSET (1..n)
  BY <1>4, MaxOfSome
<1>5. ASSUME NEW s \in SUBSET (1..n)
      PROVE  h[s] = IF s = {} THEN Reading ELSE ReadParagraph(h[s \ {Max(s)}], lines, is[Max(s)])
  <2>1. CASE s # {}
    <3>1. h[s] = step[<<h[s \ {Max(s)}], Max(s)>>]
      <4> HIDE DEF step
      <4>1. QED BY <1>3, <2>1 DEF Folding
    <3>2. h[s \ {Max(s)}] \in S /\ Max(s) \in 1..n
      <4> HIDE DEF S, step
      <4>1. QED BY <1>3, <1>4, <2>1
    <3>3. QED BY <2>1, <3>1, <3>2
  <2>2. QED BY <1>3, <2>1 DEF Folding
<1>6. Is(h)
  BY <1>5, <1>3
<1>7. Is(f)
  <2> HIDE DEF Is
  <2>1. QED BY <1>6
<1>8. FoldLeft(LAMBDA a, i : ReadParagraph(a, lines, i), Reading, is) = f[1..n]
  BY DEF FoldLeft, MapThenFoldSet
<1> HIDE DEF f
<1>9. \A s \in SUBSET (1..n) :
        f[s] = IF s = {} THEN Reading ELSE ReadParagraph(f[s \ {Max(s)}], lines, is[Max(s)])
  BY <1>7
<1>10. f[{}] = Reading
  BY <1>9
<1>11. ASSUME NEW s \in SUBSET (1..n), s # {}, f[s \ {Max(s)}] \in S
       PROVE  f[s] = step[<<f[s \ {Max(s)}], Max(s)>>]
  <2>1. f[s] = ReadParagraph(f[s \ {Max(s)}], lines, is[Max(s)]) /\ Max(s) \in 1..n
    BY <1>4, <1>9, <1>11
  <2>2. QED BY <1>11, <2>1
<1>12. PICK r \in [0..n -> S] : r[n] = f[1..n] /\ Runs(r, n, Reading, step)
  <2> HIDE DEF step, S
  <2>1. FoldsIn(f, n, S, Reading, step)
    BY <1>10, <1>11 DEF FoldsIn
  <2>2. QED BY <1>2, <2>1, FoldRuns
<1>13. ASSUME NEW i \in 1..n PROVE r[i] = ReadParagraph(r[i - 1], lines, is[i])
  <2>1. r[i] = step[<<r[i - 1], i>>]
    <3> HIDE DEF step, S
    <3>1. QED BY <1>12 DEF Runs
  <2>2. r[i - 1] \in S
    <3> HIDE DEF step, S
    <3>1. i - 1 \in 0..n
      OBVIOUS
    <3>2. QED BY <1>12, <3>1
  <2>3. QED BY <2>1, <2>2
<1>14. r[0] = Reading
  <2> HIDE DEF step, S
  <2>1. QED BY <1>12 DEF Runs
<1>15. QED BY <1>8, <1>12, <1>13, <1>14 DEF WordBy

\* What has been read of a Word document, and that its blocks are the lines of text.
WordSoFar(Chars) ==
  [headings : Seq(Nat), lines : {<<>>}, blocks : Seq(Outlined(Chars)), count : Nat]
IsParagraph(b, lines, at) ==
  /\ ToSet(b.heading) = Over(lines, at) /\ b.text = Strip(lines[at].text)
  /\ b.text # <<>> /\ Strip(b.text) = b.text
Words(bs, lines, top, c) ==
  /\ Numbers(c, Len(bs), Upto(TextLines(lines), top))
  /\ \A k \in 1..Len(bs) : IsParagraph(bs[k], lines, c[k])
WordTo(r, lines, i) ==
  /\ Stacked(lines, r.headings, i + 1)
  /\ \E c : Words(r.blocks, lines, i, c)

\* One more paragraph.
LEMMA WordsGrow ==
  ASSUME NEW P, NEW bs \in Seq(P), NEW b \in P, NEW lines, TextLines(lines) \subseteq Nat,
         NEW i \in Nat, NEW c, Words(bs, lines, i, c),
         i + 1 \in TextLines(lines), IsParagraph(b, lines, i + 1)
  PROVE  \E d : Words(Append(bs, b), lines, i + 1, d)
<1> DEFINE n == Len(bs)
           j == i + 1
           u == Append(bs, b)
           d == Longer(c, n, j)
           S == Upto(TextLines(lines), i)
<1>1. n \in Nat /\ Len(u) = n + 1 /\ u[n + 1] = b /\ \A k \in 1..n : u[k] = bs[k]
  BY AppendProperties
<1>2. Numbers(c, n, S) /\ \A k \in 1..n : IsParagraph(bs[k], lines, c[k])
  BY DEF Words
<1>3. Below(S, j)
  <2>1. \A y \in S : y \in Nat /\ y <= i
    BY DEF Upto
  <2> HIDE DEF S
  <2>2. \A y \in S : y < j
    BY <2>1
  <2>3. QED BY <2>2 DEF Below
<1>4. Upto(TextLines(lines), j) = S \cup {j}
  <2>1. \A x \in TextLines(lines) : x <= j <=> x <= i \/ x = j
    <3>1. SUFFICES ASSUME NEW x \in TextLines(lines) PROVE x <= j <=> x <= i \/ x = j
      OBVIOUS
    <3>2. x \in Nat
      OBVIOUS
    <3>3. QED BY <3>2
  <2>2. j \in TextLines(lines) /\ j <= j
    OBVIOUS
  <2>3. QED BY <2>1, <2>2 DEF Upto
<1>5. j \in Nat
  OBVIOUS
<1>6. IsParagraph(b, lines, j)
  OBVIOUS
<1> HIDE DEF n, j, u, S
<1>7. /\ Numbers(d, n + 1, S \cup {j})
      /\ d[n + 1] = j /\ \A k \in 1..n : d[k] = c[k]
  <2>1. Lengthens(d, c, n, S, j)
    BY <1>1, <1>2, <1>3, <1>5, NumbersGrow
  <2>2. QED BY <2>1 DEF Lengthens
<1> HIDE DEF d
<1>8. ASSUME NEW k \in 1..(n + 1) PROVE IsParagraph(u[k], lines, d[k])
  <2>1. CASE k = n + 1
    BY <1>1, <1>6, <1>7, <2>1
  <2>2. CASE k # n + 1
    <3>1. k \in 1..n
      BY <1>1, <2>2
    <3>2. QED BY <1>1, <1>2, <1>7, <3>1
  <2>3. QED BY <2>1, <2>2
<1>9. Words(u, lines, j, d)
  BY <1>1, <1>4, <1>7, <1>8 DEF Words
<1>10. QED BY <1>9 DEF u, j

\* Every paragraph of Word keeps it so.
LEMMA ReadParagraphOnward ==
  ASSUME NEW Chars, NEW lines \in Seq(LinesOf(Chars)), NEW n \in Nat, Len(lines) = n,
         NEW r \in WordSoFar(Chars), NEW i \in 0..n, i < n
  PROVE  /\ ReadParagraph(r, lines, i + 1) \in WordSoFar(Chars)
         /\ SkipsNoLevel(lines) /\ WordTo(r, lines, i)
            /\ (\A k \in 1..n : IsHeading(lines[k]) => Strip(lines[k].text) # <<>>)
              => WordTo(ReadParagraph(r, lines, i + 1), lines, i + 1)
<1> DEFINE P == Outlined(Chars)
           j == i + 1
           g == ReadParagraph(r, lines, j)
           text == Strip(lines[j].text)
           b == StructuredBlock(text, r.headings, "paragraph", r.count + 1, 0)
           bs == Append(r.blocks, b)
           h == UnderHeading(r.headings, lines[j], j)
           TL == TextLines(lines)
           Texted == \A k \in 1..n : IsHeading(lines[k]) => Strip(lines[k].text) # <<>>
<1>1. j \in 1..n /\ j \in Nat /\ j # 0 /\ i \in Nat /\ j \in 1..Len(lines)
  OBVIOUS
<1>2. /\ TL \subseteq 1..n /\ TL \subseteq Nat
      /\ j \in TL <=> ~IsHeading(lines[j]) /\ text # <<>>
      /\ lines[j].text \in Seq(Chars) /\ lines[j].level \in Nat
  BY <1>1, TextLineIs
<1>3. /\ r.headings \in Seq(Nat) /\ r.lines = <<>> /\ r.blocks \in Seq(P) /\ r.count \in Nat
      /\ r \in [headings : Seq(Nat), lines : {<<>>}, blocks : Seq(P), count : Nat]
  BY DEF WordSoFar
<1>4. text \in Seq(Chars) /\ Strip(text) = text
  BY <1>2, StripIs, StripKeepsInk
<1>5. WordTo(r, lines, i) => Stacked(lines, r.headings, j) /\ \E c : Words(r.blocks, lines, i, c)
  BY DEF WordTo
<1>6. ~IsHeading(lines[j]) => Over(lines, j + 1) = Over(lines, j)
  <2> HIDE DEF j
  <2>1. QED BY <1>1, OverOfText
<1>7. ASSUME WordTo(r, lines, i), j \notin TL
      PROVE  \E c : Words(r.blocks, lines, j, c)
  <2>1. PICK c : Words(r.blocks, lines, i, c)
    BY <1>5, <1>7
  <2>2. \A x \in TL : x <= j <=> x <= i
    <3>1. SUFFICES ASSUME NEW x \in TL PROVE x <= j <=> x <= i
      OBVIOUS
    <3>2. x \in Nat /\ x # j
      BY <1>2, <1>7
    <3> HIDE DEF TL
    <3>3. QED BY <1>1, <3>2
  <2>3. Upto(TL, j) = Upto(TL, i)
    <3> HIDE DEF j, TL
    <3>1. QED BY <2>2 DEF Upto
  <2> HIDE DEF j
  <2>4. QED BY <2>1, <2>3 DEF Words
<1>8. CASE text = <<>>
  <2>1. g = r
    BY <1>8 DEF ReadParagraph
  <2>2. ASSUME SkipsNoLevel(lines), WordTo(r, lines, i), Texted PROVE WordTo(r, lines, j)
    <3>1. ~IsHeading(lines[j]) /\ j \notin TL
      BY <1>1, <1>2, <1>8, <2>2
    <3> HIDE DEF j
    <3>2. Stacked(lines, r.headings, j + 1)
      BY <1>5, <1>6, <2>2, <3>1 DEF Stacked
    <3>3. QED BY <1>7, <2>2, <3>1, <3>2 DEF WordTo
  <2>3. QED BY <2>1, <2>2
<1>9. CASE text # <<>> /\ IsHeading(lines[j])
  <2>1. g = [r EXCEPT !.headings = h]
    BY <1>3, <1>9 DEF ReadParagraph
  <2>2. h \in Seq(Nat)
    BY <1>1, <1>2, <1>3, <1>9, HeadingsAreNumbers
  <2> HIDE DEF h
  <2>3. g \in WordSoFar(Chars) /\ g.headings = h /\ g.blocks = r.blocks
    BY <1>3, <2>1, <2>2 DEF WordSoFar
  <2> HIDE DEF g
  <2>4. ASSUME SkipsNoLevel(lines), WordTo(r, lines, i), Texted PROVE WordTo(g, lines, j)
    <3>1. j \notin TL
      BY <1>2, <1>9
    <3> HIDE DEF j
    <3>2. Stacked(lines, h, j + 1)
      BY <1>1, <1>5, <1>9, <2>4, StackGrows DEF h
    <3>3. QED BY <1>7, <2>3, <2>4, <3>1, <3>2 DEF WordTo
  <2>5. QED BY <2>3, <2>4 DEF g
<1>10. CASE text # <<>> /\ ~IsHeading(lines[j])
  <2>1. g = [r EXCEPT !.count = r.count + 1, !.blocks = bs]
    BY <1>3, <1>10 DEF ReadParagraph
  <2> HIDE DEF text
  <2>2. b \in P /\ b.text = text /\ b.heading = r.headings
    BY <1>3, <1>4 DEF StructuredBlock, Outlined, PlacedBlocks, BlockSet, Kinds
  <2> HIDE DEF b, P
  <2>3. bs \in Seq(P) /\ r.count + 1 \in Nat
    BY <1>3, <2>2, AppendProperties
  <2> HIDE DEF bs
  <2>4. g \in WordSoFar(Chars) /\ g.headings = r.headings /\ g.blocks = bs
    BY <1>3, <2>1, <2>3 DEF WordSoFar, P
  <2> HIDE DEF g
  <2>5. ASSUME SkipsNoLevel(lines), WordTo(r, lines, i), Texted PROVE WordTo(g, lines, j)
    <3>1. j \in TL
      BY <1>2, <1>10 DEF text
    <3>2. Stacked(lines, r.headings, j) /\ \E c : Words(r.blocks, lines, i, c)
      BY <1>5, <2>5
    <3>3. IsParagraph(b, lines, j)
      <4>1. ToSet(b.heading) = Over(lines, j)
        BY <2>2, <3>2 DEF Stacked
      <4>2. b.text = Strip(lines[j].text) /\ b.text # <<>> /\ Strip(b.text) = b.text
        BY <1>4, <1>10, <2>2 DEF text
      <4>3. QED BY <4>1, <4>2 DEF IsParagraph
    <3>4. \E c : Words(bs, lines, j, c)
      <4>1. PICK c : Words(r.blocks, lines, i, c)
        BY <3>2
      <4>2. \E d : Words(Append(r.blocks, b), lines, i + 1, d)
        BY <1>1, <1>2, <1>3, <2>2, <3>1, <3>3, <4>1, WordsGrow
      <4>3. QED BY <4>2 DEF bs
    <3> HIDE DEF j
    <3>5. Stacked(lines, r.headings, j + 1)
      BY <1>6, <1>10, <3>2 DEF Stacked
    <3>6. QED BY <2>4, <3>4, <3>5 DEF WordTo
  <2>6. QED BY <2>4, <2>5 DEF g
<1>11. QED BY <1>8, <1>9, <1>10

\* Without tables there is nothing to append.
LEMMA NothingIsCollected ==
  ASSUME NEW ss, ss = <<>>
  PROVE  FlattenSeq(ss) = <<>>
<1>1. Len(ss) = 0
  OBVIOUS
<1>2. FlattenSeq(ss) = ss
  BY <1>1 DEF FlattenSeq
<1>3. QED BY <1>2

\* The paragraphs of a Word document are its lines of text, under their headings.
LEMMA WordIsLines ==
  ASSUME NEW Chars, NEW lines \in Seq(LinesOf(Chars)), SkipsNoLevel(lines),
         \A k \in 1..Len(lines) : IsHeading(lines[k]) => Strip(lines[k].text) # <<>>,
         ParseDocx(lines, <<>>) # TooLarge
  PROVE  /\ ParseDocx(lines, <<>>) \in Seq(Outlined(Chars))
         /\ \E c : Words(ParseDocx(lines, <<>>), lines, Len(lines), c)
<1> DEFINE n == Len(lines)
           F == WordSoFar(Chars)
           P == Outlined(Chars)
           is == [i \in DOMAIN lines |-> i]
           stop == FoldLeft(LAMBDA r, i : ReadParagraph(r, lines, i), Reading, is)
           bs == stop.blocks
           none == FlattenSeq([k \in DOMAIN <<>> |-> ReadTable(<<>>[k])])
           more == [k \in DOMAIN none |->
                      StructuredBlock(none[k], stop.headings, "paragraph", stop.count + k, 0)]
<1>1. n \in Nat /\ DOMAIN lines = 1..n
  BY LengthAndElements
<1>2. ParseDocx(lines, <<>>) = Collected(bs \o more)
  BY DEF ParseDocx
<1>3. DOMAIN is = 1..n /\ \A i \in 1..n : is[i] = i
  BY <1>1
<1> HIDE DEF is
<1>4. more = <<>>
  <2>1. DOMAIN <<>> = {}
    OBVIOUS
  <2>2. [k \in DOMAIN <<>> |-> ReadTable(<<>>[k])] = <<>>
    BY <2>1
  <2>3. none = <<>>
    BY <2>2, NothingIsCollected
  <2> HIDE DEF none
  <2>4. DOMAIN none = {}
    BY <2>1, <2>3
  <2>5. QED BY <2>4
<1> HIDE DEF more, none
<1>5. Reading \in F
  <2>1. <<>> \in Seq(Nat) /\ <<>> \in Seq(P) /\ 0 \in Nat
    BY EmptySeq
  <2>2. QED BY <2>1 DEF Reading, WordSoFar
<1>6. ASSUME NEW t \in F, NEW i \in 1..n PROVE ReadParagraph(t, lines, i) \in F
  <2>1. i - 1 \in 0..n /\ i - 1 < n /\ (i - 1) + 1 = i
    BY <1>1
  <2> DEFINE k == i - 1
  <2> HIDE DEF k, n, F
  <2>2. k \in 0..n /\ k < n /\ k + 1 = i
    BY <2>1 DEF k
  <2>3. ReadParagraph(t, lines, k + 1) \in F
    BY <1>1, <2>2, ReadParagraphOnward DEF F, n
  <2>4. QED BY <2>2, <2>3
<1>7. \A t \in F, i \in 1..n : ReadParagraph(t, lines, is[i]) \in F
  BY <1>3, <1>6
<1> HIDE DEF n, F, stop
<1>8. PICK r \in [0..n -> F] : WordBy(r, lines, is, n)
  BY <1>1, <1>3, <1>5, <1>7, WordUnfolds
<1>9. r[n] = stop /\ r[0] = Reading
  BY <1>8 DEF WordBy, stop
<1> DEFINE T == {i \in Nat : i <= n => WordTo(r[i], lines, i)}
<1>10. 0 \in T
  <2> DEFINE o == Reading
  <2>1. o.headings = <<>> /\ o.blocks = <<>>
    BY DEF Reading
  <2> HIDE DEF o
  <2>2. Stacked(lines, o.headings, 0 + 1)
    <3>1. 0 + 1 = 1
      OBVIOUS
    <3>2. QED BY <2>1, <3>1, NothingIsRead
  <2>3. \E c : Words(o.blocks, lines, 0, c)
    <3>1. Len(<<>>) = 0 /\ 1..0 = {}
      OBVIOUS
    <3>2. Upto(TextLines(lines), 0) = {}
      <4>1. \A x \in TextLines(lines) : ~(x <= 0)
        BY TextLineIs
      <4>2. QED BY <4>1 DEF Upto
    <3> DEFINE c == [k \in 1..0 |-> 0]
    <3>3. Numbers(c, 0, {})
      BY NoNumbers
    <3> HIDE DEF c
    <3>4. Words(o.blocks, lines, 0, c)
      BY <2>1, <3>1, <3>2, <3>3 DEF Words
    <3>5. QED BY <3>4
  <2>4. WordTo(o, lines, 0)
    BY <2>2, <2>3 DEF WordTo
  <2>5. QED BY <1>9, <2>4 DEF o
<1>11. ASSUME NEW i \in Nat, i \in T PROVE i + 1 \in T
  <2>1. SUFFICES ASSUME i + 1 <= n PROVE WordTo(r[i + 1], lines, i + 1)
    OBVIOUS
  <2>2. i + 1 \in 1..n /\ (i + 1) - 1 = i /\ i \in 0..n /\ i < n
    BY <1>1, <2>1
  <2>3. r[i + 1] = ReadParagraph(r[i], lines, i + 1)
    BY <1>3, <1>8, <2>2 DEF WordBy
  <2>4. r[i] \in F /\ WordTo(r[i], lines, i)
    BY <1>8, <1>11, <2>2
  <2>5. QED BY <1>1, <2>2, <2>3, <2>4, ReadParagraphOnward DEF F, n
<1>12. Nat \subseteq T
  <2> HIDE DEF T
  <2>1. QED BY <1>10, <1>11, Induction
<1>13. stop \in F /\ WordTo(stop, lines, n)
  <2>1. n \in 0..n /\ n <= n
    BY <1>1
  <2>2. QED BY <1>1, <1>8, <1>9, <1>12, <2>1
<1>14. bs \in Seq(P) /\ \E c : Words(bs, lines, n, c)
  BY <1>13 DEF F, WordSoFar, WordTo
<1> HIDE DEF bs
<1>15. bs \o more = bs
  BY <1>4, <1>14, ConcatEmptySeq
<1>16. \A k \in 1..Len(bs) : bs[k].text # <<>> /\ Strip(bs[k].text) = bs[k].text
  BY <1>14 DEF Words, IsParagraph
<1>17. Collected(bs) = bs
  BY <1>2, <1>14, <1>15, <1>16, CollectedIsAll DEF P, Outlined
<1>18. QED BY <1>2, <1>14, <1>15, <1>17 DEF n

\* The places of the blocks are the ascending sequence of the set of their places.
LEMMA NumbersAscend ==
  ASSUME NEW n \in Nat, NEW c, NEW S, Numbers(c, n, S)
  PROVE  Ascending(S) = c /\ Len(c) = n
<1>1. Rising(c, n) /\ {c[k] : k \in 1..n} = S
  BY DEF Numbers
<1>2. c \in Seq(Nat) /\ Len(c) = n
  <2>1. c \in [1..n -> Nat]
    BY <1>1 DEF Rising
  <2>2. QED BY <2>1, FunctionIsSeq
<1>3. QED BY <1>1, <1>2, AscendingIs

\* Every paragraph of a document that skips no heading level has the headings it is under,
\* and no line of text is left out (HeadingsAreAbove: _parse_markdown and _parse_docx), for
\* outlines of every length and depth.  An empty paragraph of Word is dropped before its
\* style is looked at, so that a heading has a text.
THEOREM HeadingsAreKept ==
  ASSUME NEW Chars, "/" \in Chars, input.kind = "outline",
         input.of \in Seq([level : Nat, text : Seq(Chars)]),
         \A k \in DOMAIN input.of : IsHeading(input.of[k]) => Strip(input.of[k].text) # <<>>
  PROVE  HeadingsAreAbove
<1> DEFINE lines == input.of
           n == Len(lines)
           texts == TextLines(lines)
           firsts == {i \in texts : i - 1 \notin texts}
           finals == {i \in texts : i + 1 \notin texts}
           first == Ascending(firsts)
           final == Ascending(finals)
           every == Ascending(texts)
           Under(blocks, starts) ==
             /\ Len(blocks) = Len(starts)
             /\ \A k \in DOMAIN blocks : ToSet(blocks[k].heading) = Over(lines, starts[k])
           markdown == ParseMarkdown(lines)
           docx     == ParseDocx(lines, <<>>)
<1>1. SUFFICES ASSUME SkipsNoLevel(lines)
               PROVE  /\ \/ markdown = TooLarge
                         \/ /\ Under(markdown, first)
                            /\ \A k \in DOMAIN markdown :
                                 markdown[k].text = RunOfLines(lines, first[k], final[k])
                      /\ \/ docx = TooLarge
                         \/ /\ Under(docx, every)
                            /\ \A k \in DOMAIN docx :
                                 docx[k].text = Strip(lines[every[k]].text)
  BY DEF HeadingsAreAbove
<1> HIDE DEF lines
<1>2. lines \in Seq(LinesOf(Chars))
  BY DEF lines, LinesOf
<1>3. DOMAIN lines = 1..n
  BY <1>2, LengthAndElements
<1>4. \A k \in 1..n : IsHeading(lines[k]) => Strip(lines[k].text) # <<>>
  BY <1>3 DEF lines
<1>5. n \in Nat /\ texts \subseteq 1..n
  BY <1>2, TextLineIs
<1>6. Upto(texts, n) = texts
  BY <1>5 DEF Upto
<1>7. Upto(FirstOf(lines), n) = firsts /\ Upto(FinalOf(lines), n) = finals
  BY <1>5 DEF Upto, FirstOf, FinalOf
<1> HIDE DEF texts, firsts, finals, first, final, every, n, markdown, docx
<1>8. ASSUME markdown # TooLarge
      PROVE  /\ Under(markdown, first)
             /\ \A k \in DOMAIN markdown : markdown[k].text = RunOfLines(lines, first[k], final[k])
  <2>1. /\ markdown \in Seq(Outlined(Chars))
        /\ \E c, d : Covers(markdown, lines, n, c, d)
    BY <1>1, <1>2, <1>8, MarkdownIsRuns DEF markdown, n
  <2>2. PICK c, d : Covers(markdown, lines, n, c, d)
    BY <2>1
  <2> DEFINE m == Len(markdown)
  <2>3. m \in Nat /\ DOMAIN markdown = 1..m
    BY <2>1, LengthAndElements
  <2>4. /\ Numbers(c, m, firsts) /\ Numbers(d, m, finals)
        /\ \A k \in 1..m : IsRun(markdown[k], lines, c[k], d[k])
    BY <1>7, <2>2 DEF Covers
  <2>5. first = c /\ final = d /\ Len(first) = m
    BY <2>3, <2>4, NumbersAscend DEF first, final
  <2>6. QED BY <2>3, <2>4, <2>5 DEF IsRun
<1>9. ASSUME docx # TooLarge
      PROVE  /\ Under(docx, every)
             /\ \A k \in DOMAIN docx : docx[k].text = Strip(lines[every[k]].text)
  <2>1. /\ docx \in Seq(Outlined(Chars))
        /\ \E c : Words(docx, lines, n, c)
    BY <1>1, <1>2, <1>4, <1>9, WordIsLines DEF docx, n
  <2>2. PICK c : Words(docx, lines, n, c)
    BY <2>1
  <2> DEFINE m == Len(docx)
  <2>3. m \in Nat /\ DOMAIN docx = 1..m
    BY <2>1, LengthAndElements
  <2>4. Numbers(c, m, texts) /\ \A k \in 1..m : IsParagraph(docx[k], lines, c[k])
    BY <1>6, <2>2 DEF Words, texts
  <2>5. every = c /\ Len(every) = m
    BY <2>3, <2>4, NumbersAscend DEF every
  <2>6. QED BY <2>3, <2>4, <2>5 DEF IsParagraph
<1>10. QED BY <1>1, <1>8, <1>9

=============================================================================
