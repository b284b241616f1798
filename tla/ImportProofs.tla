------------------------------ MODULE ImportProofs ------------------------------
(***************************************************************************)
(* Proofs about ImportJobs.                                                *)
(*                                                                         *)
(* The argument: a job is scheduled at most once.  Its thread is the one   *)
(* that moves the row, except for a cancel under way, which may reach a    *)
(* job whose thread has yet to start; such a job is doomed: every row the  *)
(* thread loads from then on asks it to stop.  So whoever finds the job    *)
(* retryable finds it dead, nobody files a thread for a job that works,    *)
(* and the thread alone decides about COMPLETED.                           *)
(* A job whose interruption could not be recorded keeps its status and has *)
(* no thread; nobody can retry or file it, so nobody else moves it either. *)
(***************************************************************************)
EXTENDS ImportJobs, TLAPS

-----------------------------------------------------------------------------
(***************************************************************************)
(* The inductive invariant                                                 *)
(***************************************************************************)

\* a filed job belongs to a document, and only a filed job runs
Filed ==
  \A j \in Jobs :
    /\ job[j].status # "none" => job[j].doc \in Docs
    /\ run[j].pc # "none" => job[j].status # "none"

\* a request has the job or the document its next step works on
AtJob == {"enqueue", "requeue", "write", "deliver", "wait", "reread", "withdraw"}

RequestFits(c) ==
  /\ api[c].pc \in AtJob => api[c].at \in Jobs
  /\ api[c].op = "cancel" =>
       /\ api[c].at \in Jobs /\ job[api[c].at].status # "none"
       /\ api[c].mark \subseteq {api[c].at} /\ api[c].todo \subseteq {api[c].at}
  /\ api[c].op \in {"delete", "purge"} => api[c].doc \in Docs
  /\ api[c].pc = "list" => api[c].op \in {"delete", "purge"}

RequestsFit == \A c \in Clients : RequestFits(c)

Typed == TypeOK /\ Filed /\ RequestsFit

Live     == Threads \cup {"queued"}
Unheard  == {"none", "queued", "skipped", "starting", "load", "interrupt"}
Leaving  == {"validating", "validated", "terminal"}
Early    == Live \ {"stop", "index", "clear", "parking", "refresh", "terminal", "interrupt"}
Working  == Registered \ {"load", "validating"}

Filing(j) == \E c \in Clients : api[c].pc = "enqueue" /\ api[c].at = j

\* no thread works or will work on the job
Dead(j) == run[j].pc \notin Live /\ ~Filing(j)

\* its thread was told to stop before it loaded the row
Doomed(j) ==
  /\ job[j].cancel
  /\ \/ run[j].pc \in Unheard \cup {"stop", "refresh"}
     \/ run[j].pc = "clear" /\ run[j].want = "FAILED"
     \/ run[j].pc \in Leaving /\ run[j].saw

Spent(j) == Dead(j) \/ Doomed(j)

\* what a thread is about
ThreadFits(j) ==
  /\ run[j].pc \in Live => job[j].status \in Running \cup {"QUEUED", "CANCELLED"}
  /\ run[j].pc = "stop" \/ run[j].failing => run[j].want = "FAILED"
  /\ run[j].want = "FAILED" => run[j].pc \in {"stop", "clear", "refresh", "terminal", "interrupt"}
  /\ run[j].pc \in Working /\ run[j].want # "FAILED"
       => job[j].status \in Running \cup {"CANCELLED"}

StatusFits(j) ==
  /\ job[j].status \in Running => run[j].pc \in Threads \/ j \in unmarked
  /\ job[j].status = "CANCELLED" => Spent(j)

\* the chunks of a job
ChunksFit(j) ==
  /\ run[j].pc \in Early \/ Filing(j) \/ job[j].status = "none"
       => \A d \in Docs : doc[d].chunks # j
  /\ \A d \in Docs :
       (d = DocOf(j) /\ doc[d].state # "purged" /\ doc[d].chunks = j /\ doc[d].index # j)
         => /\ job[j].status # "COMPLETED"
            /\ run[j].pc \in Registered \ {"index"} => run[j].want # "COMPLETED"

JobFits(j) == ThreadFits(j) /\ StatusFits(j) /\ ChunksFit(j)

\* a request that has signalled has told the thread, or there is none
Signalled(c) ==
  \/ api[c].pc \in {"finish", "reread", "withdraw"}
  \/ api[c].pc = "signal" /\ api[c].todo = {}

CallFits(c) ==
  /\ api[c].pc = "enqueue" => /\ run[api[c].at].pc = "none"
                              /\ job[api[c].at].status \in {"QUEUED", "CANCELLED"}
  /\ api[c].pc = "requeue" => /\ Dead(api[c].at)
                              /\ job[api[c].at].status \notin Running \cup {"COMPLETED", "none"}
  /\ api[c].op = "cancel" =>
       /\ api[c].pc \in {"mark", "write"} => api[c].todo = {api[c].at}
       /\ api[c].pc \in {"signal", "deliver", "wait"} \/ (api[c].pc = "mark" /\ api[c].mark = {})
            => Dead(api[c].at) \/ job[api[c].at].cancel
       /\ Signalled(c) => Spent(api[c].at)
  /\ api[c].pc = "withdraw" => /\ api[c].op = "cancel"
                               /\ job[api[c].at].status # "COMPLETED"
  /\ api[c].pc = "reread" => api[c].op = "cancel"

OneEnqueue ==
  \A c, e \in Clients :
    api[c].pc = "enqueue" /\ api[e].pc = "enqueue" /\ api[c].at = api[e].at => c = e

PhaseFits ==
  /\ phase # "up" => \A c \in Clients : api[c].pc = "idle"
  /\ phase = "marking" => \A j \in pending : run[j].pc \in {"skipped", "none"}

Safe ==
  /\ \A j \in Jobs : JobFits(j)
  /\ \A c \in Clients : CallFits(c)
  /\ OneEnqueue
  /\ PhaseFits

IInv == Typed /\ Safe

\* what the thread of a job and a request may do, faults included
Works(j) == Thread(j) \/ Fault(j)
Acts(c)  == Request(c) \/ Serve(c) \/ RequestFails(c)

-----------------------------------------------------------------------------
(***************************************************************************)
(* The types                                                               *)
(***************************************************************************)

\* Constants a thread or a request starts with.
LEMMA Blank == NoRun \in Run /\ NoApi \in Api
BY ImportAssumption DEF NoRun, Run, RunPCs, Threads, Registered, AwaitPoints, NoApi, Api

LEMMA EndedType ==
  ASSUME NEW j \in Jobs, run \in [Jobs -> Run]
  PROVE  /\ Ended(j) \in [Jobs -> Run]
         /\ Leaves(j, "interrupt") \in [Jobs -> Run]
<1>1. /\ [NoRun EXCEPT !.pc = "ended"] \in Run
      /\ [NoRun EXCEPT !.pc = "interrupt"] \in Run
  BY Blank DEF NoRun, Run, RunPCs, Threads
<1> QED
  BY <1>1 DEF Ended, Leaves

LEMMA RunFields ==
  ASSUME NEW r \in Run, NEW pc \in RunPCs
  PROVE  /\ \A p \in {"none", "running", "terminated", "stopped"} :
              [r EXCEPT !.pc = pc, !.proc = p] \in Run
         /\ \A p \in {"none", "running", "terminated", "stopped"},
               d \in {"none", "ocr", "partial", "full"} :
              [r EXCEPT !.pc = pc, !.proc = p, !.done = d] \in Run
         /\ \A n \in 0..MaxEvents : [r EXCEPT !.pc = pc, !.events = n] \in Run
         /\ \A n \in 0..(MaxTries - 1) : [r EXCEPT !.pc = pc, !.tries = n] \in Run
         /\ \A w \in {"COMPLETED", "FAILED", "OCR_REQUIRED"} :
              [r EXCEPT !.pc = pc, !.want = w] \in Run
         /\ \A n \in Nat, b \in BOOLEAN :
              [r EXCEPT !.pc = pc, !.seen = n, !.saw = b] \in Run
         /\ \A n \in Nat, b \in BOOLEAN, w \in {"COMPLETED", "FAILED", "OCR_REQUIRED"} :
              [r EXCEPT !.pc = pc, !.want = w, !.seen = n, !.saw = b] \in Run
         /\ \A p \in {"none", "running", "terminated", "stopped"} :
              [r EXCEPT !.pc = pc, !.want = "FAILED", !.failing = TRUE, !.proc = p] \in Run
<1>1. \A p \in {"none", "running", "terminated", "stopped"} :
        [r EXCEPT !.pc = pc, !.proc = p] \in Run
  BY Zenon DEF Run
<1>2. \A p \in {"none", "running", "terminated", "stopped"},
         d \in {"none", "ocr", "partial", "full"} :
        [r EXCEPT !.pc = pc, !.proc = p, !.done = d] \in Run
  BY Zenon DEF Run
<1>3. \A n \in 0..MaxEvents : [r EXCEPT !.pc = pc, !.events = n] \in Run
  BY Zenon DEF Run
<1>4. \A n \in 0..(MaxTries - 1) : [r EXCEPT !.pc = pc, !.tries = n] \in Run
  BY Zenon DEF Run
<1>5. \A w \in {"COMPLETED", "FAILED", "OCR_REQUIRED"} :
        [r EXCEPT !.pc = pc, !.want = w] \in Run
  BY Zenon DEF Run
<1>6. \A n \in Nat, b \in BOOLEAN : [r EXCEPT !.pc = pc, !.seen = n, !.saw = b] \in Run
  BY Zenon DEF Run
<1>7. \A n \in Nat, b \in BOOLEAN, w \in {"COMPLETED", "FAILED", "OCR_REQUIRED"} :
        [r EXCEPT !.pc = pc, !.want = w, !.seen = n, !.saw = b] \in Run
  BY Zenon DEF Run
<1>8. \A p \in {"none", "running", "terminated", "stopped"} :
        [r EXCEPT !.pc = pc, !.want = "FAILED", !.failing = TRUE, !.proc = p] \in Run
  BY Zenon DEF Run
<1> QED
  BY <1>1, <1>2, <1>3, <1>4, <1>5, <1>6, <1>7, <1>8, Zenon

\* what the thread and its row are after a step
Turns(j, pc, saw, want, failing, status) ==
  /\ run'[j].pc = pc /\ run'[j].saw = saw /\ run'[j].want = want
  /\ run'[j].failing = failing
  /\ job'[j].status = status /\ job'[j].cancel = job[j].cancel /\ job'[j].doc = job[j].doc

LEMMA EndedRun ==
  ASSUME run \in [Jobs -> Run], NEW j \in Jobs
  PROVE  /\ Ended(j)[j].pc = "ended" /\ ~Ended(j)[j].failing /\ Ended(j)[j].want = "COMPLETED"
         /\ \A k \in Jobs \ {j} : Ended(j)[k] = run[k]
BY DEF Ended, Leaves, NoRun

LEMMA LeftTurns ==
  ASSUME TypeOK, NEW j \in Jobs, run' = Leaves(j, "interrupt"), UNCHANGED job
  PROVE  Turns(j, "interrupt", FALSE, "COMPLETED", FALSE, job[j].status)
BY DEF TypeOK, Leaves, NoRun, Turns

LEMMA StaysUnmarked ==
  ASSUME TypeOK, NEW j \in Jobs, Works(j)
  PROVE  /\ unmarked' \in SUBSET Jobs
         /\ \A k \in Jobs : k \in unmarked => k \in unmarked'
         /\ \A k \in Jobs \ {j} : k \in unmarked' => k \in unmarked
<1>1. CASE Interrupt(j)
  BY <1>1 DEF Interrupt, TypeOK
<1>2. CASE UNCHANGED unmarked
  BY <1>2 DEF TypeOK
<1> QED
  BY <1>1, <1>2
     DEF Works, Thread, RunJob, Start, Open, First, Validate, Validated, Transition, Load,
         Spawn, Parse, Parsed, Progress, Progressed, Stage, Done, Abort, Stop, Clear, Collect,
         Park, FinishOutput, Index, Indexed, ReplaceChunks, ReplaceIndex, Refresh, Terminal,
         FinishTask, Fault

\* What a step of a thread does to the type of each variable.
LEMMA ThreadRunType ==
  ASSUME TypeOK, NEW j \in Jobs, Works(j)
  PROVE  run' \in [Jobs -> Run]
<1>1. /\ run \in [Jobs -> Run] /\ run[j] \in Run
      /\ job[j].version \in Nat /\ job[j].cancel \in BOOLEAN
  BY DEF TypeOK, Job
<1>2. \A r \in Run : [run EXCEPT ![j] = r] \in [Jobs -> Run]
  BY <1>1
<1>3. \A pc \in {"starting", "load", "interrupt", "validating", "validated", "spawn",
                 "parsing", "parsed", "consume", "consumed", "collect", "stop", "clear",
                 "parking", "refresh", "finish", "indexing", "indexed", "chunk", "index",
                 "terminal", "ended"} : pc \in RunPCs
  BY DEF RunPCs, Threads, Registered, AwaitPoints
<1>4. \A pc \in RunPCs : [run EXCEPT ![j].pc = pc] \in [Jobs -> Run]
  BY <1>1 DEF Run
<1>5. Ended(j) \in [Jobs -> Run] /\ Leaves(j, "interrupt") \in [Jobs -> Run]
  BY <1>1, EndedType
<1>6. ASSUME Raise(j)
      PROVE  run' \in [Jobs -> Run]
  <2>1. run[j].proc \in {"none", "running", "terminated", "stopped"}
    BY <1>1 DEF Run
  <2>2. [NoRun EXCEPT !.pc = "stop", !.want = "FAILED", !.failing = TRUE, !.proc = run[j].proc]
          \in Run
    BY <1>3, <2>1, Blank, RunFields
  <2> QED
    BY <1>2, <1>6, <2>2, Zenon DEF Raise
<1>7. ASSUME NEW from, NEW status, NEW to \in RunPCs, Transition(j, from, status, to)
      PROVE  run' \in [Jobs -> Run]
  BY <1>4, <1>5, <1>6, <1>7, Zenon DEF Transition
<1>8. ASSUME NEW from, NEW to \in RunPCs, Load(j, from, to)
      PROVE  run' \in [Jobs -> Run]
  BY <1>1, <1>2, <1>8, RunFields, Zenon DEF Load
<1>9. CASE Start(j) \/ Open(j)
  BY <1>3, <1>4, <1>9 DEF Start, Open
<1>10. CASE First(j) \/ Validated(j) \/ Progressed(j) \/ Indexed(j) \/ Refresh(j)
  BY <1>3, <1>8, <1>10 DEF First, Validated, Progressed, Indexed, Refresh
<1>11. CASE Validate(j) \/ Parse(j) \/ Park(j) \/ Index(j)
  BY <1>3, <1>7, <1>11 DEF Validate, Parse, Park, Index
<1>12. CASE Spawn(j)
  <2>1. [run[j] EXCEPT !.pc = "parsing", !.proc = "running"] \in Run
    BY <1>1, <1>3, RunFields
  <2> QED
    BY <1>2, <1>6, <1>12, <2>1, Zenon DEF Spawn
<1>13. CASE Parsed(j)
  BY <1>3, <1>6, <1>8, <1>13 DEF Parsed
<1>14. CASE Progress(j)
  <2>1. run[j].events < MaxEvents => run[j].events + 1 \in 0..MaxEvents
    BY <1>1, ImportAssumption DEF Run
  <2> QED
    BY <1>1, <1>2, <1>3, <1>6, <1>14, <2>1, RunFields, Zenon DEF Progress
<1>15. CASE Done(j)
  <2>1. \A d \in {"ocr", "partial", "full"} :
          [run[j] EXCEPT !.pc = "collect", !.proc = "none", !.done = d] \in Run
    BY <1>1, <1>3, RunFields
  <2> QED
    BY <1>2, <1>15, <2>1, Zenon DEF Done
<1>16. CASE Abort(j)
  BY <1>6, <1>16 DEF Abort
<1>17. CASE Stop(j)
  <2>1. (IF run[j].proc = "stopped" THEN "stopped" ELSE "none")
          \in {"none", "running", "terminated", "stopped"}
    OBVIOUS
  <2> QED
    BY <1>1, <1>2, <1>3, <1>17, <2>1, RunFields, Zenon DEF Stop
<1>18. CASE Clear(j)
  BY <1>3, <1>4, <1>18 DEF Clear
<1>19. CASE Collect(j)
  <2> DEFINE ocr == ~job[j].cancel /\ run[j].done = "ocr"
             pc  == IF job[j].cancel \/ ocr THEN "clear" ELSE "finish"
             w   == IF ocr THEN "OCR_REQUIRED" ELSE run[j].want
             r   == [run[j] EXCEPT !.pc = pc, !.want = w, !.seen = job[j].version,
                                   !.saw = job[j].cancel]
  <2>1. pc \in RunPCs /\ w \in {"COMPLETED", "FAILED", "OCR_REQUIRED"}
    BY <1>1, <1>3 DEF Run
  <2>2. run' = [run EXCEPT ![j] = r]
    BY <1>19, Zenon DEF Collect
  <2>3. r \in Run
    <3> HIDE DEF ocr, pc, w
    <3> QED
      BY <1>1, <2>1, RunFields
  <2> QED
    BY <1>2, <2>2, <2>3, Zenon
<1>20. CASE FinishOutput(j)
  <2>1. [run[j] EXCEPT !.pc = "refresh", !.want = "FAILED"] \in Run
    BY <1>1, <1>3, RunFields
  <2>2. [run EXCEPT ![j].pc = "indexing"] \in [Jobs -> Run]
    BY <1>3, <1>4
  <2> QED
    BY <1>2, <1>6, <1>20, <2>1, <2>2, Zenon DEF FinishOutput
<1>21. CASE ReplaceChunks(j) \/ ReplaceIndex(j)
  BY <1>3, <1>4, <1>6, <1>21 DEF ReplaceChunks, ReplaceIndex
<1>22. CASE Terminal(j)
  <2>1. CASE Raise(j)
    BY <1>6, <2>1
  <2>2. CASE run' = Ended(j)
    BY <1>5, <2>2
  <2>3. CASE /\ ~LastTry(j)
             /\ run' = [run EXCEPT ![j] = [@ EXCEPT !.pc = "refresh", !.tries = run[j].tries + 1]]
    <3>1. run[j].tries + 1 \in 0..(MaxTries - 1)
      BY <1>1, <2>3, ImportAssumption DEF LastTry, Run
    <3> QED
      BY <1>1, <1>2, <1>3, <2>3, <3>1, RunFields, Zenon
  <2>4. CASE run' = Leaves(j, "interrupt")
    BY <1>5, <2>4
  <2> QED
    BY <1>22, <2>1, <2>2, <2>3, <2>4 DEF Terminal
<1>23. CASE Interrupt(j)
  BY <1>5, <1>23 DEF Interrupt
<1>24. CASE FinishTask(j)
  BY <1>2, <1>24, Blank DEF FinishTask
<1>25. CASE Stage(j)
  BY <1>1, <1>25 DEF Stage
<1>26. CASE Fault(j)
  BY <1>5, <1>6, <1>26 DEF Fault
<1> QED
  BY <1>9, <1>10, <1>11, <1>12, <1>13, <1>14, <1>15, <1>16, <1>17, <1>18, <1>19, <1>20,
     <1>21, <1>22, <1>23, <1>24, <1>25, <1>26, Zenon DEF Works, Thread, RunJob

LEMMA StatusType ==
  ASSUME job \in [Jobs -> Job], NEW j \in Jobs, NEW status \in Statuses, SetStatus(j, status)
  PROVE  job' \in [Jobs -> Job]
<1> DEFINE r == [job[j] EXCEPT !.status = status, !.version = job[j].version + 1]
<1>1. job[j] \in Job /\ job[j].version + 1 \in Nat
  BY DEF Job
<1>2. r \in Job
  BY <1>1, Zenon DEF Job
<1> QED
  BY <1>2, Zenon DEF SetStatus

LEMMA ThreadJobType ==
  ASSUME TypeOK, NEW j \in Jobs, Works(j)
  PROVE  job' \in [Jobs -> Job]
<1> USE DEF TypeOK
<1>1. \A status \in Statuses : SetStatus(j, status) => job' \in [Jobs -> Job]
  BY StatusType
<1>2. \A status : status \in Active \cup Settled \cup Retryable => status \in Statuses
  BY DEF Statuses
<1>3. ASSUME NEW from, NEW status \in Statuses, NEW to, Transition(j, from, status, to)
      PROVE  job' \in [Jobs -> Job]
  BY <1>1, <1>3 DEF Transition, Raise
<1>4. CASE Validate(j) \/ Parse(j) \/ Park(j) \/ Index(j)
  BY <1>2, <1>3, <1>4 DEF Validate, Parse, Park, Index, Active, Running, Retryable
<1>5. CASE Progress(j)
  BY <1>1, <1>2, <1>5 DEF Progress, Raise, Active, Running
<1>6. CASE Stage(j) \/ Clear(j)
  <2>1. \A b \in BOOLEAN : [job EXCEPT ![j].blocks = b] \in [Jobs -> Job]
    BY DEF Job
  <2> QED
    BY <1>6, <2>1 DEF Stage, Clear, Cleared
<1>7. CASE Terminal(j)
  BY <1>1, <1>2, <1>7 DEF Terminal, Raise, Run, Settled, Retryable
<1>8. CASE Interrupt(j)
  BY <1>1, <1>2, <1>8 DEF Interrupt, Interrupted, Retryable, SetStatus
<1>9. CASE UNCHANGED job
  BY <1>9
<1> QED
  BY <1>4, <1>5, <1>6, <1>7, <1>8, <1>9
     DEF Works, Thread, RunJob, Start, Open, First, Validated, Progressed, Indexed, Refresh,
         Load, Spawn, Parsed, Done, Abort, Raise, Stop, Collect, FinishOutput, ReplaceChunks,
         ReplaceIndex, FinishTask, Fault

LEMMA ThreadDocType ==
  ASSUME Typed, NEW j \in Jobs, Works(j)
  PROVE  doc' \in [Docs -> Doc]
<1> USE DEF Typed, TypeOK, Doc
<1>1. CASE ReplaceChunks(j)
  BY <1>1 DEF ReplaceChunks, Raise
<1>2. CASE ReplaceIndex(j)
  BY <1>2 DEF ReplaceIndex, IndexedChunks, Raise, DocOf, Filed
<1>3. CASE UNCHANGED doc
  BY <1>3
<1> QED
  BY <1>1, <1>2, <1>3
     DEF Works, Thread, RunJob, Start, Open, First, Validate, Validated, Transition, Load,
         Raise, Spawn, Parse, Parsed, Progress, Progressed, Stage, Done, Abort, Stop, Clear,
         Collect, Park, FinishOutput, Index, Indexed, Refresh, Terminal, Interrupt, FinishTask,
         Fault

\* What a request does to the type of api.
\* the values of a request
ApiPCs == {"idle", "enqueue", "check", "list", "mark", "write", "signal", "deliver",
           "lost", "wait", "finish", "reread", "withdraw", "requeue"}
ApiOps == {"import", "rebuild", "cancel", "delete", "purge", "retry"}

LEMMA JobCall ==
  ASSUME NEW pc \in ApiPCs, NEW op \in ApiOps, NEW j \in Jobs
  PROVE  [NoApi EXCEPT !.pc = pc, !.op = op, !.at = j] \in Api
BY Blank, Zenon DEF Api, ApiPCs, ApiOps

LEMMA DocCall ==
  ASSUME NEW pc \in ApiPCs, NEW op \in ApiOps, NEW d \in Docs
  PROVE  [NoApi EXCEPT !.pc = pc, !.op = op, !.doc = d] \in Api
BY Blank, Zenon DEF Api, ApiPCs, ApiOps

LEMMA StopCall ==
  ASSUME NEW pc \in ApiPCs, NEW op \in ApiOps, NEW j \in Jobs
  PROVE  [NoApi EXCEPT !.pc = pc, !.op = op, !.mark = {j}, !.todo = {j}, !.at = j] \in Api
BY Blank, Zenon DEF Api, ApiPCs, ApiOps

LEMMA RowCall ==
  ASSUME NEW pc \in ApiPCs, NEW op \in ApiOps, NEW j \in Jobs, NEW n \in Nat, NEW b \in BOOLEAN
  PROVE  [NoApi EXCEPT !.pc = pc, !.op = op, !.at = j, !.seen = n, !.saw = b] \in Api
BY Blank, Zenon DEF Api, ApiPCs, ApiOps

LEMMA StepType ==
  ASSUME api \in [Clients -> Api], NEW c \in Clients,
         NEW pc \in ApiPCs
  PROVE  [api EXCEPT ![c].pc = pc] \in [Clients -> Api]
<1> DEFINE r == [api[c] EXCEPT !.pc = pc]
<1>1. api[c] \in Api
  OBVIOUS
<1>2. r \in Api
  BY <1>1, Zenon DEF Api, ApiPCs
<1>3. [api EXCEPT ![c].pc = pc] = [api EXCEPT ![c] = r]
  BY Zenon
<1> QED
  BY <1>2, <1>3, Zenon

LEMMA ListType ==
  ASSUME api \in [Clients -> Api], NEW c \in Clients,
         NEW pc \in ApiPCs, NEW S \in SUBSET Jobs
  PROVE  [api EXCEPT ![c] = [@ EXCEPT !.pc = pc, !.mark = S, !.todo = S]] \in [Clients -> Api]
<1> DEFINE r == [api[c] EXCEPT !.pc = pc, !.mark = S, !.todo = S]
<1>1. api[c] \in Api
  OBVIOUS
<1>2. r \in Api
  BY <1>1, Zenon DEF Api, ApiPCs
<1>3. [api EXCEPT ![c] = [@ EXCEPT !.pc = pc, !.mark = S, !.todo = S]] = [api EXCEPT ![c] = r]
  BY Zenon
<1> QED
  BY <1>2, <1>3, Zenon

LEMMA MarkType ==
  ASSUME api \in [Clients -> Api], NEW c \in Clients,
         NEW S \in SUBSET Jobs
  PROVE  [api EXCEPT ![c].mark = S] \in [Clients -> Api]
<1> DEFINE r == [api[c] EXCEPT !.mark = S]
<1>1. api[c] \in Api
  OBVIOUS
<1>2. r \in Api
  BY <1>1, Zenon DEF Api, ApiPCs
<1>3. [api EXCEPT ![c].mark = S] = [api EXCEPT ![c] = r]
  BY Zenon
<1> QED
  BY <1>2, <1>3, Zenon

LEMMA TodoType ==
  ASSUME api \in [Clients -> Api], NEW c \in Clients,
         NEW S \in SUBSET Jobs
  PROVE  [api EXCEPT ![c].todo = S] \in [Clients -> Api]
<1> DEFINE r == [api[c] EXCEPT !.todo = S]
<1>1. api[c] \in Api
  OBVIOUS
<1>2. r \in Api
  BY <1>1, Zenon DEF Api, ApiPCs
<1>3. [api EXCEPT ![c].todo = S] = [api EXCEPT ![c] = r]
  BY Zenon
<1> QED
  BY <1>2, <1>3, Zenon

LEMMA WaitType ==
  ASSUME api \in [Clients -> Api], NEW c \in Clients,
         NEW pc \in ApiPCs, NEW S \in SUBSET Jobs
  PROVE  [api EXCEPT ![c] = [@ EXCEPT !.pc = pc, !.todo = S]] \in [Clients -> Api]
<1> DEFINE r == [api[c] EXCEPT !.pc = pc, !.todo = S]
<1>1. api[c] \in Api
  OBVIOUS
<1>2. r \in Api
  BY <1>1, Zenon DEF Api, ApiPCs
<1>3. [api EXCEPT ![c] = [@ EXCEPT !.pc = pc, !.todo = S]] = [api EXCEPT ![c] = r]
  BY Zenon
<1> QED
  BY <1>2, <1>3, Zenon

LEMMA AtType ==
  ASSUME api \in [Clients -> Api], NEW c \in Clients,
         NEW pc \in ApiPCs, NEW j \in Jobs
  PROVE  [api EXCEPT ![c] = [@ EXCEPT !.pc = pc, !.at = j]] \in [Clients -> Api]
<1> DEFINE r == [api[c] EXCEPT !.pc = pc, !.at = j]
<1>1. api[c] \in Api
  OBVIOUS
<1>2. r \in Api
  BY <1>1, Zenon DEF Api, ApiPCs
<1>3. [api EXCEPT ![c] = [@ EXCEPT !.pc = pc, !.at = j]] = [api EXCEPT ![c] = r]
  BY Zenon
<1> QED
  BY <1>2, <1>3, Zenon

LEMMA SeenType ==
  ASSUME api \in [Clients -> Api], NEW c \in Clients,
         NEW pc \in ApiPCs, NEW n \in Nat
  PROVE  [api EXCEPT ![c] = [@ EXCEPT !.pc = pc, !.seen = n]] \in [Clients -> Api]
<1> DEFINE r == [api[c] EXCEPT !.pc = pc, !.seen = n]
<1>1. api[c] \in Api
  OBVIOUS
<1>2. r \in Api
  BY <1>1, Zenon DEF Api, ApiPCs
<1>3. [api EXCEPT ![c] = [@ EXCEPT !.pc = pc, !.seen = n]] = [api EXCEPT ![c] = r]
  BY Zenon
<1> QED
  BY <1>2, <1>3, Zenon

LEMMA FlagType ==
  ASSUME api \in [Clients -> Api], NEW c \in Clients,
         NEW pc \in ApiPCs, NEW S \in SUBSET Jobs, NEW j \in Jobs, NEW n \in Nat
  PROVE  [api EXCEPT ![c] = [@ EXCEPT !.pc = pc, !.mark = S, !.at = j, !.seen = n]] \in [Clients -> Api]
<1> DEFINE r == [api[c] EXCEPT !.pc = pc, !.mark = S, !.at = j, !.seen = n]
<1>1. api[c] \in Api
  OBVIOUS
<1>2. r \in Api
  BY <1>1, Zenon DEF Api, ApiPCs
<1>3. [api EXCEPT ![c] = [@ EXCEPT !.pc = pc, !.mark = S, !.at = j, !.seen = n]] = [api EXCEPT ![c] = r]
  BY Zenon
<1> QED
  BY <1>2, <1>3, Zenon

LEMMA RequestApiType ==
  ASSUME Typed, NEW c \in Clients, Request(c)
  PROVE  api' \in [Clients -> Api]
<1> USE DEF Typed, TypeOK
<1>1. \A r \in Api : [api EXCEPT ![c] = r] \in [Clients -> Api]
  OBVIOUS
<1>2. \A k \in Jobs : job[k].version \in Nat /\ job[k].cancel \in BOOLEAN
  BY DEF Job
<1>3. ASSUME NEW d \in Docs, NEW op \in {"import", "rebuild"}, Create(c, d, op)
      PROVE  api' \in [Clients -> Api]
  <2>1. "enqueue" \in ApiPCs /\ op \in ApiOps
    BY DEF ApiPCs, ApiOps
  <2>2. PICK j \in Jobs :
          api' = [api EXCEPT ![c] = [NoApi EXCEPT !.pc = "enqueue", !.op = op, !.at = j]]
    BY <1>3 DEF Create
  <2>3. [NoApi EXCEPT !.pc = "enqueue", !.op = op, !.at = j] \in Api
    BY <2>1, JobCall
  <2> QED
    BY <1>1, <2>2, <2>3
<1>4. ASSUME NEW d \in Docs, Import(c, d) \/ Rebuild(c, d)
      PROVE  api' \in [Clients -> Api]
  BY <1>3, <1>4, Zenon DEF Import, Rebuild
<1>5. ASSUME NEW d \in Docs, Delete(c, d) \/ Purge(c, d)
      PROVE  api' \in [Clients -> Api]
  <2>1. "list" \in ApiPCs /\ "delete" \in ApiOps /\ "purge" \in ApiOps
    BY DEF ApiPCs, ApiOps
  <2> QED
    BY <1>1, <1>5, <2>1, DocCall, Zenon DEF Delete, Purge
<1>6. ASSUME NEW k \in Jobs, Retry(c, k) \/ Cancel(c, k)
      PROVE  api' \in [Clients -> Api]
  <2>1. /\ "requeue" \in ApiPCs /\ "mark" \in ApiPCs
        /\ "retry" \in ApiOps /\ "cancel" \in ApiOps
    BY DEF ApiPCs, ApiOps
  <2>2. /\ [NoApi EXCEPT !.pc = "mark", !.op = "cancel", !.mark = {k}, !.todo = {k},
                         !.at = k] \in Api
        /\ [NoApi EXCEPT !.pc = "requeue", !.op = "retry", !.at = k,
                         !.seen = job[k].version, !.saw = job[k].cancel] \in Api
    BY <1>2, <2>1, StopCall, RowCall
  <2> QED
    BY <1>1, <1>6, <2>2 DEF Retry, Cancel
<1> QED
  BY <1>4, <1>5, <1>6 DEF Request, Restore

LEMMA ServeApiType ==
  ASSUME Typed, NEW c \in Clients, Serve(c) \/ RequestFails(c)
  PROVE  api' \in [Clients -> Api]
<1> USE DEF Typed, TypeOK
<1>1. \A r \in Api : [api EXCEPT ![c] = r] \in [Clients -> Api]
  OBVIOUS
<1>2. Answered(c) \in [Clients -> Api]
  BY <1>1, Blank DEF Answered
<1>3. \A k \in Jobs : job[k].version \in Nat /\ job[k].cancel \in BOOLEAN
  BY DEF Job
<1>4. /\ api[c] \in Api /\ api[c].mark \subseteq Jobs /\ api[c].todo \subseteq Jobs
      /\ api[c].mark \ {api[c].at} \in SUBSET Jobs
      /\ api[c].todo \ {api[c].at} \in SUBSET Jobs
  BY DEF Api
<1>5. CASE api' = Answered(c) \/ UNCHANGED api
  BY <1>2, <1>5
<1>6. \A pc \in {"mark", "signal", "finish", "wait", "lost", "reread"} :
        [api EXCEPT ![c].pc = pc] \in [Clients -> Api]
  BY StepType DEF ApiPCs
<1>7. CASE List(c)
  <2>1. ActiveJobIds(api[c].doc) \in SUBSET Jobs
    BY DEF ActiveJobIds, JobsOf
  <2>2. [api EXCEPT ![c] = [@ EXCEPT !.pc = "mark", !.mark = ActiveJobIds(api[c].doc),
                    !.todo = ActiveJobIds(api[c].doc)]] \in [Clients -> Api]
    BY <2>1, ListType, Zenon DEF ApiPCs
  <2> QED
    BY <1>2, <1>7, <2>2 DEF List
<1>8. CASE Mark(c)
  <2>1. CASE api[c].mark = {}
    BY <1>6, <1>8, <2>1 DEF Mark
  <2>2. CASE api[c].mark # {}
    <3>1. PICK j \in api[c].mark : j = CHOOSE k \in api[c].mark : TRUE
      BY <2>2
    <3>2. api[c].mark \ {j} \in SUBSET Jobs /\ j \in Jobs
      BY <1>4
    <3>3. [api EXCEPT ![c].mark = api[c].mark \ {j}] \in [Clients -> Api]
      BY <3>2, MarkType
    <3>4. "write" \in ApiPCs
      BY DEF ApiPCs
    <3>5. [api EXCEPT ![c] = [@ EXCEPT !.pc = "write", !.mark = api[c].mark \ {j},
                                       !.at = j, !.seen = job[j].version]]
            \in [Clients -> Api]
      BY <1>3, <3>2, <3>4, FlagType
    <3> QED
      BY <1>8, <2>2, <3>1, <3>3, <3>5 DEF Mark
  <2> QED
    BY <2>1, <2>2
<1>9. CASE Signal(c)
  <2>1. CASE api[c].todo = {}
    BY <1>6, <1>9, <2>1 DEF Signal
  <2>2. CASE api[c].todo # {}
    <3>1. PICK j \in api[c].todo : j = CHOOSE k \in api[c].todo : TRUE
      BY <2>2
    <3>2. api[c].todo \ {j} \in SUBSET Jobs /\ j \in Jobs
      BY <1>4
    <3>3. /\ [api EXCEPT ![c].todo = api[c].todo \ {j}] \in [Clients -> Api]
          /\ [api EXCEPT ![c] = [@ EXCEPT !.pc = "wait", !.at = j]] \in [Clients -> Api]
          /\ [api EXCEPT ![c] = [@ EXCEPT !.pc = "deliver", !.at = j]] \in [Clients -> Api]
      BY <3>2, TodoType, AtType, Zenon DEF ApiPCs
    <3> QED
      BY <1>9, <2>2, <3>1, <3>3 DEF Signal
  <2> QED
    BY <2>1, <2>2
<1>10. CASE Deliver(c) \/ Answer(c)
  BY <1>2, <1>6, <1>10 DEF Deliver, Answer
<1>11. CASE Wait(c)
  <2>1. [api EXCEPT ![c] = [@ EXCEPT !.pc = "signal", !.todo = api[c].todo \ {api[c].at}]]
          \in [Clients -> Api]
    BY <1>4, WaitType, Zenon DEF ApiPCs
  <2> QED
    BY <1>11, <2>1 DEF Wait
<1>12. CASE Reread(c)
  <2>1. job[api[c].at].status = "QUEUED" =>
          [api EXCEPT ![c] = [@ EXCEPT !.pc = "withdraw", !.seen = job[api[c].at].version]]
            \in [Clients -> Api]
    <3>1. api[c].pc = "reread" /\ api[c].at \in Jobs
      BY <1>12 DEF Reread, RequestsFit, RequestFits, AtJob
    <3>2. job[api[c].at].version \in Nat /\ "withdraw" \in ApiPCs
      BY <1>3, <3>1 DEF ApiPCs
    <3> QED
      BY <3>2, SeenType
  <2> QED
    BY <1>2, <1>12, <2>1 DEF Reread
<1> QED
  BY <1>5, <1>6, <1>7, <1>8, <1>9, <1>10, <1>11, <1>12
     DEF Serve, Enqueue, Requeue, Write, Finish, Withdraw, RequestFails

LEMMA DeliverType ==
  ASSUME run \in [Jobs -> Run], NEW j \in Jobs, NEW n \in Nat, NEW b \in BOOLEAN,
         NEW p \in {"terminated", run[j].proc}
  PROVE  [run EXCEPT ![j] = [@ EXCEPT !.seen = n, !.saw = b, !.proc = p]] \in [Jobs -> Run]
<1> DEFINE r == [run[j] EXCEPT !.seen = n, !.saw = b, !.proc = p]
<1>1. p \in {"none", "running", "terminated", "stopped"}
  BY DEF Run
<1>2. run[j] \in Run
  OBVIOUS
<1>3. r \in Run
  BY <1>1, <1>2, Zenon DEF Run
<1>4. [run EXCEPT ![j] = [@ EXCEPT !.seen = n, !.saw = b, !.proc = p]] = [run EXCEPT ![j] = r]
  BY Zenon
<1> QED
  BY <1>3, <1>4, Zenon

LEMMA RequeueType ==
  ASSUME job \in [Jobs -> Job], NEW j \in Jobs, NEW status \in Statuses,
         NEW b \in BOOLEAN, NEW n \in Nat
  PROVE  [job EXCEPT ![j] = [@ EXCEPT !.status = status, !.cancel = b, !.version = n]]
            \in [Jobs -> Job]
<1> DEFINE r == [job[j] EXCEPT !.status = status, !.cancel = b, !.version = n]
<1>1. job[j] \in Job
  OBVIOUS
<1>2. r \in Job
  BY <1>1, Zenon DEF Job
<1>3. [job EXCEPT ![j] = [@ EXCEPT !.status = status, !.cancel = b, !.version = n]]
        = [job EXCEPT ![j] = r]
  BY Zenon
<1> QED
  BY <1>2, <1>3, Zenon

LEMMA WriteType ==
  ASSUME job \in [Jobs -> Job], NEW j \in Jobs, NEW n \in Nat
  PROVE  [job EXCEPT ![j] = [@ EXCEPT !.cancel = TRUE, !.version = n]] \in [Jobs -> Job]
<1> DEFINE r == [job[j] EXCEPT !.cancel = TRUE, !.version = n]
<1>1. job[j] \in Job
  OBVIOUS
<1>2. r \in Job
  BY <1>1, Zenon DEF Job
<1>3. [job EXCEPT ![j] = [@ EXCEPT !.cancel = TRUE, !.version = n]] = [job EXCEPT ![j] = r]
  BY Zenon
<1> QED
  BY <1>2, <1>3, Zenon

LEMMA PurgeType ==
  ASSUME doc \in [Docs -> Doc], NEW d \in Docs
  PROVE  [doc EXCEPT ![d] = [@ EXCEPT !.state = "purged", !.index = None]] \in [Docs -> Doc]
<1> DEFINE r == [doc[d] EXCEPT !.state = "purged", !.index = None]
<1>1. doc[d] \in Doc
  OBVIOUS
<1>2. r \in Doc
  BY <1>1, Zenon DEF Doc
<1>3. [doc EXCEPT ![d] = [@ EXCEPT !.state = "purged", !.index = None]] = [doc EXCEPT ![d] = r]
  BY Zenon
<1> QED
  BY <1>2, <1>3, Zenon

\* What a request does to the type of the other variables.
LEMMA RequestTypes ==
  ASSUME Typed, NEW c \in Clients, Acts(c)
  PROVE  run' \in [Jobs -> Run] /\ doc' \in [Docs -> Doc]
         /\ UNCHANGED <<phase, pending, unmarked>>
<1> USE DEF Typed, TypeOK
<1>1. run' \in [Jobs -> Run]
  <2>1. CASE UNCHANGED run
    BY <2>1
  <2>2. \A pc \in {"queued", "skipped"}, j \in Jobs :
          [run EXCEPT ![j].pc = pc] \in [Jobs -> Run]
    BY DEF Run, RunPCs
  <2>3. CASE Enqueue(c) \/ Signal(c)
    <3>1. api[c].pc = "enqueue" => api[c].at \in Jobs
      BY DEF RequestsFit, RequestFits, AtJob
    <3>2. api[c].todo # {} => (CHOOSE j \in api[c].todo : TRUE) \in Jobs
      BY DEF Api
    <3>3. CASE Enqueue(c)
      BY <2>2, <3>1, <3>3 DEF Enqueue
    <3>4. CASE Signal(c)
      <4>1. ASSUME NEW j, j = CHOOSE k \in api[c].todo : TRUE, api[c].todo # {}
            PROVE  run' \in [Jobs -> Run]
        <5>1. UNCHANGED run \/ run' = [run EXCEPT ![j].pc = "skipped"]
          BY <3>4, <4>1, Zenon DEF Signal
        <5>2. j \in Jobs
          BY <3>2, <4>1, Zenon
        <5>3. [run EXCEPT ![j].pc = "skipped"] \in [Jobs -> Run]
          BY <2>2, <5>2
        <5> QED
          BY <2>1, <5>1, <5>3
      <4> QED
        BY <2>1, <3>4, <4>1 DEF Signal
    <3> QED
      BY <2>3, <3>3, <3>4
  <2>4. CASE Deliver(c)
    <3> DEFINE j == api[c].at
    <3>1. j \in Jobs /\ job[j].version \in Nat /\ job[j].cancel \in BOOLEAN
      BY <2>4 DEF Deliver, RequestsFit, RequestFits, AtJob, Job
    <3>2. \A n \in Nat, b \in BOOLEAN, p \in {"terminated", run[j].proc} :
            [run EXCEPT ![j] = [@ EXCEPT !.seen = n, !.saw = b, !.proc = p]] \in [Jobs -> Run]
      BY <3>1, DeliverType
    <3>3. ASSUME NEW p, p = IF run[j].proc = "running" THEN "terminated" ELSE run[j].proc
          PROVE  run' \in [Jobs -> Run]
      <4>1. p \in {"terminated", run[j].proc}
        BY <3>3
      <4>2. \/ run' = [run EXCEPT ![j] = [@ EXCEPT !.seen = job[j].version, !.saw = job[j].cancel,
                                 !.proc = p]]
            \/ UNCHANGED run
        BY <2>4, <3>3, Zenon DEF Deliver
      <4>3. [run EXCEPT ![j] = [@ EXCEPT !.seen = job[j].version, !.saw = job[j].cancel,
                        !.proc = p]] \in [Jobs -> Run]
        BY <3>1, <3>2, <4>1, Zenon
      <4> QED
        BY <2>1, <4>2, <4>3
    <3> QED
      BY <3>3
  <2> QED
    BY <2>1, <2>3, <2>4
       DEF Acts, Request, Serve, Import, Rebuild, Create, Delete, Purge, Restore, Retry, Cancel,
           Requeue, List, Mark, Write, Wait, Finish, Answer, Reread, Withdraw, RequestFails
<1>2. doc' \in [Docs -> Doc]
  <2>1. CASE UNCHANGED doc
    BY <2>1
  <2>2. ASSUME NEW d \in Docs, Import(c, d) \/ Restore(c, d)
        PROVE  doc' \in [Docs -> Doc]
    BY <2>2 DEF Import, Restore, Doc
  <2>3. CASE Finish(c)
    <3>1. CASE ~Present(api[c].doc)
      BY <2>3, <3>1 DEF Finish
    <3>2. CASE Present(api[c].doc) /\ api[c].op = "delete"
      BY <2>3, <3>2 DEF Finish, Doc
    <3>3. CASE Present(api[c].doc) /\ api[c].op = "purge"
      <4>1. doc' = [doc EXCEPT ![api[c].doc] = [@ EXCEPT !.state = "purged", !.index = None]]
        BY <2>3, <3>3 DEF Finish
      <4>2. api[c].doc \in Docs
        BY <3>3 DEF RequestsFit, RequestFits
      <4> QED
        BY <4>1, <4>2, PurgeType
    <3> QED
      BY <2>3, <3>1, <3>2, <3>3 DEF Finish
  <2> QED
    BY <2>1, <2>2, <2>3
       DEF Acts, Request, Serve, Rebuild, Create, Delete, Purge, Retry, Cancel, Enqueue,
           Requeue, List, Mark, Write, Signal, Deliver, Wait, Answer, Reread, Withdraw,
           RequestFails
<1>3. UNCHANGED <<phase, pending, unmarked>>
  BY DEF Acts, Request, Serve, Import, Rebuild, Create, Delete, Purge, Restore, Retry, Cancel,
         Enqueue, Requeue, List, Mark, Write, Signal, Deliver, Wait, Finish, Answer,
         Reread, Withdraw, RequestFails
<1> QED
  BY <1>1, <1>2, <1>3

LEMMA RequestJobType ==
  ASSUME Typed, NEW c \in Clients, Acts(c)
  PROVE  job' \in [Jobs -> Job]
<1> USE DEF Typed, TypeOK
<1>1. CASE UNCHANGED job
  BY <1>1
<1>2. "QUEUED" \in Statuses /\ "CANCELLED" \in Statuses
  BY DEF Statuses, Active, Settled
<1>3. ASSUME NEW d \in Docs, NEW op, Create(c, d, op)
      PROVE  job' \in [Jobs -> Job]
  <2>1. PICK j \in Jobs : job' = [job EXCEPT ![j] = [@ EXCEPT !.status = "QUEUED", !.doc = d]]
    BY <1>3 DEF Create
  <2> QED
    BY <1>2, <2>1 DEF Job
<1>4. CASE Requeue(c)
  <2>1. api[c].seen + 1 \in Nat /\ api[c].at \in Jobs
    BY <1>4 DEF Api, Requeue, RequestsFit, RequestFits, AtJob
  <2>2. (job[api[c].at].cancel /\ ~api[c].saw) \in BOOLEAN
    OBVIOUS
  <2> QED
    BY <1>2, <1>4, <2>1, <2>2, RequeueType DEF Requeue
<1>5. CASE Write(c)
  <2>1. api[c].seen + 1 \in Nat /\ api[c].at \in Jobs
    BY <1>5 DEF Api, Write, RequestsFit, RequestFits, AtJob
  <2> QED
    BY <1>5, <2>1, WriteType DEF Write
<1>6. CASE Withdraw(c)
  <2>1. api[c].at \in Jobs
    BY <1>6 DEF Withdraw, RequestsFit, RequestFits, AtJob
  <2> QED
    BY <1>1, <1>2, <1>6, <2>1, StatusType DEF Withdraw
<1> QED
  BY <1>1, <1>3, <1>4, <1>5, <1>6
     DEF Acts, Request, Serve, Import, Rebuild, Delete, Purge, Restore, Retry, Cancel, Enqueue,
         List, Mark, Signal, Deliver, Wait, Finish, Answer, Reread, RequestFails

\* the stages a job may go through
MayBecome(a, b) ==
  \/ a = b
  \/ a = "none" /\ b = "waiting"
  \/ a \in {"waiting", "cancelled"} /\ b = "running"
  \/ a = "running" /\ b = "completed"
  \/ a \in {"waiting", "running", "parked"} /\ b = "cancelled"
  \/ a \in {"running", "waiting"} /\ b = "parked"
  \/ a \in {"parked", "cancelled"} /\ b = "waiting"

\* what a step of the thread of j keeps, as far as the row and the thread go
Keeps(j) ==
  /\ ThreadFits(j)' /\ StatusFits(j)'
  /\ Spent(j) => Spent(j)' /\ (job'[j].status = "COMPLETED" => job[j].status = "COMPLETED")
  /\ Dead(j) => Dead(j)' /\ job'[j] = job[j]
  /\ MayBecome(StageOf(job[j].status), StageOf(job'[j].status))
  /\ job'[j].doc = job[j].doc /\ job'[j].cancel = job[j].cancel
  /\ job'[j].status = "none" <=> job[j].status = "none"
  /\ run'[j].pc \in Early => run[j].pc \in Early
  /\ run'[j].pc \in Registered /\ run'[j].want = "COMPLETED"
       => run[j].want = "COMPLETED" /\ run[j].pc \in Registered \cup {"starting"}
  /\ job'[j].status = "COMPLETED" =>
       job[j].status = "COMPLETED" \/ (run[j].pc = "terminal" /\ run[j].want = "COMPLETED")
  /\ run[j].pc # "none"
  /\ run[j].pc = "skipped" => run'[j].pc = "none"

LEMMA LoadTurns ==
  ASSUME TypeOK, NEW j \in Jobs, NEW from, NEW to, Load(j, from, to)
  PROVE  /\ run[j].pc = from
         /\ Turns(j, to, job[j].cancel, run[j].want, run[j].failing, job[j].status)
BY DEF TypeOK, Run, Load, Turns

LEMMA RaiseTurns ==
  ASSUME TypeOK, NEW j \in Jobs, Raise(j)
  PROVE  Turns(j, "stop", FALSE, "FAILED", TRUE, job[j].status)
BY DEF TypeOK, NoRun, Raise, Turns

LEMMA MoveTurns ==
  ASSUME TypeOK, NEW j \in Jobs, NEW pc, run' = [run EXCEPT ![j].pc = pc], UNCHANGED job
  PROVE  Turns(j, pc, run[j].saw, run[j].want, run[j].failing, job[j].status)
BY DEF TypeOK, Run, Turns

LEMMA StatusTurns ==
  ASSUME TypeOK, NEW j \in Jobs, NEW status, SetStatus(j, status)
  PROVE  /\ job'[j].status = status /\ job'[j].cancel = job[j].cancel
         /\ job'[j].doc = job[j].doc
         /\ \A k \in Jobs \ {j} : job'[k] = job[k]
BY DEF TypeOK, Job, SetStatus

LEMMA TransitionTurns ==
  ASSUME TypeOK, NEW j \in Jobs, NEW from, NEW status, NEW to, to # "ended",
         Transition(j, from, status, to)
  PROVE  /\ run[j].pc = from
         /\ \/ Turns(j, to, run[j].saw, run[j].want, run[j].failing, status)
            \/ Turns(j, "stop", FALSE, "FAILED", TRUE, job[j].status)
<1>1. CASE Fresh(j)
  <2>1. SetStatus(j, status) /\ run' = [run EXCEPT ![j].pc = to]
    BY <1>1 DEF Transition
  <2> QED
    BY <2>1, StatusTurns DEF Transition, TypeOK, Run, Turns
<1>2. CASE ~Fresh(j)
  BY <1>2, RaiseTurns DEF Transition
<1> QED
  BY <1>1, <1>2

LEMMA ThreadKeeps ==
  ASSUME TypeOK, NEW j \in Jobs, Works(j), ThreadFits(j), StatusFits(j),
         Filing(j) => run[j].pc = "none", Filing(j)' = Filing(j)
  PROVE  Keeps(j)
<1> DEFINE Moved(from, to) == /\ run[j].pc = from
                              /\ Turns(j, to, run[j].saw, run[j].want, run[j].failing,
                                       job[j].status)
           Loaded(from, to) == /\ run[j].pc = from
                               /\ Turns(j, to, job[j].cancel, run[j].want, run[j].failing,
                                        job[j].status)
           Raised(from) == /\ run[j].pc = from
                           /\ Turns(j, "stop", FALSE, "FAILED", TRUE, job[j].status)
           Left(from) == /\ run[j].pc = from
                         /\ Turns(j, "interrupt", FALSE, "COMPLETED", FALSE, job[j].status)
<1>1. ASSUME Start(j) \/ Open(j)
      PROVE  Moved("queued", "starting") \/ Moved("starting", "load") \/ Moved("starting", "interrupt")
  BY <1>1, MoveTurns DEF Start, Open
<1>2. ASSUME First(j) \/ Progressed(j) \/ Indexed(j) \/ Refresh(j)
      PROVE  \/ Loaded("load", "validating") \/ Loaded("consumed", "consume")
             \/ Loaded("indexed", "chunk") \/ Loaded("refresh", "terminal")
  BY <1>2, LoadTurns DEF First, Progressed, Indexed, Refresh
<1>3. ASSUME Validate(j)
      PROVE  \/ run[j].pc = "validating" /\ Turns(j, "validated", run[j].saw, run[j].want,
                                                   run[j].failing, "VALIDATING")
             \/ Raised("validating")
  BY <1>3, TransitionTurns DEF Validate
<1>4. ASSUME Validated(j)
      PROVE  \/ job[j].cancel /\ Loaded("validated", "refresh")
             \/ ~job[j].cancel /\ Loaded("validated", "spawn")
  <2>1. CASE job[j].cancel
    <3>1. Load(j, "validated", "refresh")
      BY <1>4, <2>1 DEF Validated
    <3>2. Loaded("validated", "refresh")
      BY <3>1, LoadTurns
    <3> QED
      BY <2>1, <3>2, Zenon
  <2>2. CASE ~job[j].cancel
    BY <1>4, <2>2, LoadTurns DEF Validated, Turns
  <2> QED
    BY <2>1, <2>2
<1>5. ASSUME Spawn(j)
      PROVE  \/ Moved("spawn", "parsing") \/ Raised("spawn")
  <2>1. CASE Raise(j)
    BY <1>5, <2>1, RaiseTurns DEF Spawn
  <2>2. CASE /\ run' = [run EXCEPT ![j] = [@ EXCEPT !.pc = "parsing", !.proc = "running"]]
             /\ UNCHANGED job
    <3>1. Turns(j, "parsing", run[j].saw, run[j].want, run[j].failing, job[j].status)
      BY <2>2 DEF TypeOK, Run, Turns
    <3> QED
      BY <1>5, <3>1 DEF Spawn
  <2> QED
    BY <1>5, <2>1, <2>2, Zenon DEF Spawn
<1>6. ASSUME Parse(j)
      PROVE  \/ run[j].pc = "parsing" /\ Turns(j, "parsed", run[j].saw, run[j].want,
                                                run[j].failing, "PARSING")
             \/ Raised("parsing")
  BY <1>6, TransitionTurns DEF Parse
<1>7. ASSUME Parsed(j)
      PROVE  Loaded("parsed", "consume") \/ Raised("parsed")
  BY <1>7, LoadTurns, RaiseTurns DEF Parsed
<1>8. ASSUME Progress(j)
      PROVE  \/ \E status \in {"PARSING", "OCR_RUNNING"} :
                  run[j].pc = "consume" /\ Turns(j, "consumed", run[j].saw, run[j].want,
                                                 run[j].failing, status)
             \/ Raised("consume")
  <2>1. CASE Fresh(j)
    <3>1. PICK status \in {"PARSING", "OCR_RUNNING"} : SetStatus(j, status)
      BY <1>8, <2>1 DEF Progress
    <3>2. run' = [run EXCEPT ![j] = [@ EXCEPT !.pc = "consumed", !.events = run[j].events + 1]]
      BY <1>8, <2>1 DEF Progress
    <3>3. /\ run'[j].pc = "consumed" /\ run'[j].saw = run[j].saw
          /\ run'[j].want = run[j].want /\ run'[j].failing = run[j].failing
      BY <3>2 DEF TypeOK, Run
    <3>4. Turns(j, "consumed", run[j].saw, run[j].want, run[j].failing, status)
      BY <3>1, <3>3, StatusTurns, Zenon DEF Turns
    <3> QED
      BY <1>8, <3>4 DEF Progress
  <2>2. CASE ~Fresh(j)
    BY <1>8, <2>2, RaiseTurns DEF Progress
  <2> QED
    BY <2>1, <2>2
<1>9. ASSUME Stage(j) \/ Done(j) \/ Abort(j)
      PROVE  Moved("consume", "consume") \/ Moved("consume", "collect") \/ Raised("consume")
  <2>1. CASE Stage(j)
    <3>1. /\ job'[j].status = job[j].status /\ job'[j].cancel = job[j].cancel
          /\ job'[j].doc = job[j].doc
      BY <2>1 DEF Stage, TypeOK, Job
    <3> QED
      BY <2>1, <3>1 DEF Stage, Turns
  <2>2. CASE Done(j)
    <3>1. PICK done : run' = [run EXCEPT ![j] = [@ EXCEPT !.pc = "collect", !.proc = "none",
                                                          !.done = done]]
      BY <2>2 DEF Done
    <3>2. /\ run'[j].pc = "collect" /\ run'[j].saw = run[j].saw
          /\ run'[j].want = run[j].want /\ run'[j].failing = run[j].failing
      BY <3>1 DEF TypeOK, Run
    <3> QED
      BY <2>2, <3>2 DEF Done, Turns
  <2>3. CASE Abort(j)
    BY <2>3, RaiseTurns DEF Abort
  <2> QED
    BY <1>9, <2>1, <2>2, <2>3
<1>10. ASSUME Stop(j)
      PROVE  Moved("stop", "clear")
  BY <1>10 DEF Stop, TypeOK, Run, Turns
<1>11. ASSUME Clear(j)
      PROVE  \/ run[j].want = "OCR_REQUIRED" /\ Moved("clear", "parking")
             \/ run[j].want # "OCR_REQUIRED" /\ Moved("clear", "refresh")
  <2>1. /\ job'[j].status = job[j].status /\ job'[j].cancel = job[j].cancel
        /\ job'[j].doc = job[j].doc /\ job'[j].cancel = job[j].cancel
    BY <1>11 DEF Clear, Cleared, TypeOK, Job
  <2>2. ASSUME NEW pc, run' = [run EXCEPT ![j].pc = pc]
        PROVE  Turns(j, pc, run[j].saw, run[j].want, run[j].failing, job[j].status)
    BY <2>1, <2>2 DEF TypeOK, Run, Turns
  <2>3. run[j].pc = "clear"
    BY <1>11 DEF Clear
  <2>4. CASE run[j].want = "OCR_REQUIRED"
    BY <1>11, <2>2, <2>3, <2>4 DEF Clear
  <2>5. CASE run[j].want # "OCR_REQUIRED"
    BY <1>11, <2>2, <2>3, <2>5 DEF Clear
  <2> QED
    BY <2>4, <2>5
<1>12. ASSUME Collect(j)
      PROVE  \E to \in {"clear", "finish"}, want \in {"OCR_REQUIRED", run[j].want} :
               run[j].pc = "collect" /\ Turns(j, to, job[j].cancel, want, run[j].failing,
                                              job[j].status)
  BY <1>12 DEF Collect, TypeOK, Run, Turns
<1>13. ASSUME Park(j)
      PROVE  \/ run[j].pc = "parking" /\ run'[j].pc = "ended" /\ ~run'[j].failing /\ run'[j].want = "COMPLETED"
                /\ job'[j].status = "OCR_REQUIRED" /\ job'[j].doc = job[j].doc /\ job'[j].cancel = job[j].cancel
             \/ Raised("parking")
  <2>1. CASE Fresh(j)
    BY <1>13, <2>1, StatusTurns, EndedRun DEF Park, Transition, TypeOK
  <2>2. CASE ~Fresh(j)
    BY <1>13, <2>2, RaiseTurns DEF Park, Transition
  <2> QED
    BY <2>1, <2>2
<1>14. ASSUME FinishOutput(j)
      PROVE  \/ Raised("finish") \/ Moved("finish", "indexing")
             \/ run[j].pc = "finish" /\ Turns(j, "refresh", run[j].saw, "FAILED", run[j].failing,
                                               job[j].status)
  <2> run[j].pc = "finish"
    BY <1>14 DEF FinishOutput
  <2>1. CASE Raise(j)
    BY <2>1, RaiseTurns, Zenon
  <2>2. CASE run' = [run EXCEPT ![j].pc = "indexing"] /\ UNCHANGED job
    BY <2>2, MoveTurns, Zenon
  <2>3. CASE /\ run' = [run EXCEPT ![j] = [@ EXCEPT !.pc = "refresh", !.want = "FAILED"]]
             /\ UNCHANGED job
    <3>1. Turns(j, "refresh", run[j].saw, "FAILED", run[j].failing, job[j].status)
      BY <2>3 DEF TypeOK, Run, Turns
    <3> QED
      BY <3>1, Zenon
  <2> QED
    BY <1>14, <2>1, <2>2, <2>3, Zenon DEF FinishOutput
<1>15. ASSUME Index(j)
      PROVE  \/ run[j].pc = "indexing" /\ Turns(j, "indexed", run[j].saw, run[j].want,
                                                 run[j].failing, "INDEXING")
             \/ Raised("indexing")
  BY <1>15, TransitionTurns DEF Index
<1>16. ASSUME ReplaceChunks(j) \/ ReplaceIndex(j)
      PROVE  \/ Moved("chunk", "index") \/ Raised("chunk")
             \/ Moved("index", "clear") \/ Raised("index")
  BY <1>16, RaiseTurns, MoveTurns DEF ReplaceChunks, ReplaceIndex
<1>17. ASSUME Terminal(j)
      PROVE  \/ /\ run[j].pc = "terminal" /\ run'[j].pc = "ended" /\ ~run'[j].failing /\ run'[j].want = "COMPLETED"
                /\ job'[j].status = IF run[j].saw THEN "CANCELLED" ELSE run[j].want
                /\ job'[j].doc = job[j].doc /\ job'[j].cancel = job[j].cancel
             \/ Raised("terminal") \/ Moved("terminal", "refresh") \/ Left("terminal")
  <2> run[j].pc = "terminal"
    BY <1>17 DEF Terminal
  <2>1. CASE Fresh(j)
    <3>1. /\ SetStatus(j, IF run[j].saw THEN "CANCELLED" ELSE run[j].want)
          /\ run' = Ended(j)
      BY <1>17, <2>1 DEF Terminal
    <3>2. /\ job'[j].status = IF run[j].saw THEN "CANCELLED" ELSE run[j].want
          /\ job'[j].doc = job[j].doc /\ job'[j].cancel = job[j].cancel
      BY <3>1, StatusTurns
    <3>3. run'[j].pc = "ended" /\ ~run'[j].failing /\ run'[j].want = "COMPLETED"
      BY <3>1, EndedRun DEF TypeOK
    <3> QED
      BY <3>2, <3>3, Zenon
  <2>2. CASE Raise(j)
    BY <1>17, <2>2, RaiseTurns DEF Terminal
  <2>3. CASE run' = Leaves(j, "interrupt") /\ UNCHANGED job
    BY <1>17, <2>3, LeftTurns DEF Terminal
  <2>4. CASE /\ run' = [run EXCEPT ![j] = [@ EXCEPT !.pc = "refresh", !.tries = run[j].tries + 1]]
             /\ UNCHANGED job
    <3>1. Turns(j, "refresh", run[j].saw, run[j].want, run[j].failing, job[j].status)
      BY <2>4 DEF TypeOK, Run, Turns
    <3> QED
      BY <1>17, <3>1 DEF Terminal
  <2> QED
    BY <1>17, <2>1, <2>2, <2>3, <2>4, Zenon DEF Terminal
<1>18. ASSUME Interrupt(j)
      PROVE  /\ run[j].pc = "interrupt" /\ run'[j].pc = "ended" /\ ~run'[j].failing /\ run'[j].want = "COMPLETED"
             /\ \/ job'[j].status = IF job[j].status \in Active THEN "INTERRUPTED"
                                    ELSE job[j].status
                \/ job'[j].status = job[j].status /\ j \in unmarked'
             /\ job'[j].doc = job[j].doc /\ job'[j].cancel = job[j].cancel
  <2>1. run'[j].pc = "ended" /\ ~run'[j].failing /\ run'[j].want = "COMPLETED"
    BY <1>18, EndedRun DEF Interrupt, TypeOK
  <2>3. run[j].pc = "interrupt"
    BY <1>18 DEF Interrupt
  <2>2. /\ \/ job'[j].status = IF job[j].status \in Active THEN "INTERRUPTED"
                               ELSE job[j].status
           \/ job'[j].status = job[j].status /\ j \in unmarked'
        /\ job'[j].doc = job[j].doc /\ job'[j].cancel = job[j].cancel
    BY <1>18 DEF Interrupt, Interrupted, TypeOK, Job
  <2> QED
    BY <2>1, <2>2, <2>3, Zenon
<1>19. ASSUME Fault(j)
       PROVE  run[j].pc \in Registered /\ (Raised(run[j].pc) \/ (run[j].failing /\ Left(run[j].pc)))
  <2>1. CASE run[j].failing
    BY <1>19, <2>1, LeftTurns DEF Fault
  <2>2. CASE ~run[j].failing
    BY <1>19, <2>2, RaiseTurns DEF Fault
  <2> QED
    BY <1>19, <2>1, <2>2 DEF Fault
<1>20. j \in unmarked => j \in unmarked'
  BY StaysUnmarked
<1> USE <1>20 DEF Running, Live, Early, Threads, Registered, AwaitPoints, Unheard, Leaving, Working, Keeps,
            ThreadFits, StatusFits, Spent, Dead, Doomed, StageOf, MayBecome, Turns
<1>21. CASE Start(j) \/ Open(j)
  BY <1>1, <1>21
<1>22. CASE First(j) \/ Progressed(j) \/ Indexed(j) \/ Refresh(j)
  BY <1>2, <1>22
<1>23. CASE Validate(j)
  BY <1>3, <1>23
<1>24. CASE Validated(j)
  BY <1>4, <1>24
<1>25. CASE Spawn(j)
  BY <1>5, <1>25
<1>26. CASE Parse(j)
  BY <1>6, <1>26
<1>27. CASE Parsed(j)
  BY <1>7, <1>27
<1>28. CASE Progress(j)
  BY <1>8, <1>28
<1>29. CASE Stage(j) \/ Done(j) \/ Abort(j)
  BY <1>9, <1>29
<1>30. CASE Stop(j)
  BY <1>10, <1>30
<1>31. CASE Clear(j)
  BY <1>11, <1>31
<1>32. CASE Collect(j)
  <2>1. PICK to \in {"clear", "finish"}, want \in {"OCR_REQUIRED", run[j].want} :
          run[j].pc = "collect" /\ Turns(j, to, job[j].cancel, want, run[j].failing, job[j].status)
    BY <1>12, <1>32, Zenon
  <2>2. CASE to = "clear"
    BY <2>1, <2>2
  <2>3. CASE to = "finish"
    BY <2>1, <2>3
  <2> QED
    BY <2>1, <2>2, <2>3
<1>33. CASE Park(j)
  BY <1>13, <1>33
<1>34. CASE FinishOutput(j)
  BY <1>14, <1>34
<1>35. CASE Index(j)
  BY <1>15, <1>35
<1>36. CASE ReplaceChunks(j) \/ ReplaceIndex(j)
  BY <1>16, <1>36
<1>37. CASE Terminal(j)
  <2>2. run[j].want \in {"COMPLETED", "FAILED", "OCR_REQUIRED"}
    BY DEF TypeOK, Run
  <2>3. CASE Raised("terminal") \/ Moved("terminal", "refresh") \/ Left("terminal")
    BY <1>37, <2>2, <2>3
  <2>4. CASE /\ run[j].pc = "terminal" /\ run'[j].pc = "ended" /\ ~run'[j].failing /\ run'[j].want = "COMPLETED"
             /\ job'[j].status = IF run[j].saw THEN "CANCELLED" ELSE run[j].want
             /\ job'[j].doc = job[j].doc /\ job'[j].cancel = job[j].cancel
    <3>1. CASE run[j].saw
      BY <2>2, <2>4, <3>1
    <3>2. CASE ~run[j].saw
      BY <2>2, <2>4, <3>2
    <3> QED
      BY <3>1, <3>2
  <2> QED
    BY <1>17, <1>37, <2>3, <2>4, Zenon
<1>38. CASE Interrupt(j)
  <2>1. CASE job[j].status \in Active
    BY <1>18, <1>38, <2>1 DEF Active
  <2>2. CASE job[j].status \notin Active
    BY <1>18, <1>38, <2>2 DEF Active
  <2> QED
    BY <2>1, <2>2
<1>39. CASE FinishTask(j)
  BY <1>39 DEF FinishTask, NoRun, TypeOK, Run, Job
<1>40. CASE Fault(j)
  <2>1. CASE Raised(run[j].pc)
    BY <1>19, <1>40, <2>1
  <2>2. CASE run[j].failing /\ Left(run[j].pc)
    BY <1>19, <1>40, <2>2
  <2> QED
    BY <1>19, <1>40, <2>1, <2>2
<1> QED
  BY <1>21, <1>22, <1>23, <1>24, <1>25, <1>26, <1>27, <1>28, <1>29, <1>30, <1>31, <1>32, <1>33, <1>34, <1>35, <1>36, <1>37, <1>38, <1>39, <1>40, Zenon
     DEF Works, Thread, RunJob

\* A thread touches its own row, and no request or shutdown.
LEMMA ThreadFootprint ==
  ASSUME TypeOK, NEW j \in Jobs, Works(j)
  PROVE  /\ UNCHANGED <<api, phase, pending>>
         /\ \A k \in Jobs \ {j} : /\ job'[k] = job[k] /\ run'[k] = run[k]
                                  /\ k \in unmarked' <=> k \in unmarked
<1> USE DEF TypeOK
<1>1. UNCHANGED <<api, phase, pending>>
  BY DEF Works, Thread, RunJob, Start, Open, First, Validate, Validated, Transition, Load, Spawn,
         Parse, Parsed, Progress, Progressed, Stage, Done, Abort, Stop, Clear, Collect, Park,
         FinishOutput, Index, Indexed, ReplaceChunks, ReplaceIndex, Refresh, Terminal,
         Interrupt, FinishTask, Fault
<1>2. ASSUME NEW k \in Jobs \ {j}
      PROVE  job'[k] = job[k]
  <2>1. \A status : SetStatus(j, status) => job'[k] = job[k]
    BY <1>2 DEF SetStatus
  <2>2. \/ UNCHANGED job
        \/ \E status : SetStatus(j, status)
        \/ \E r : job' = [job EXCEPT ![j] = r]
    <3>1. CASE Validate(j) \/ Parse(j) \/ Park(j) \/ Index(j)
      BY <3>1, Zenon DEF Validate, Parse, Park, Index, Transition, Raise
    <3>2. CASE Progress(j) \/ Terminal(j)
      BY <3>2, Zenon DEF Progress, Terminal, Raise
    <3>3. CASE Stage(j)
      BY <3>3, Zenon DEF Stage
    <3>4. CASE Clear(j)
      BY <3>4, Zenon DEF Clear, Cleared
    <3>5. CASE Interrupt(j)
      BY <3>5, Zenon DEF Interrupt, Interrupted
    <3> QED
      BY <3>1, <3>2, <3>3, <3>4, <3>5
         DEF Works, Thread, RunJob, Start, Open, First, Validated, Progressed, Indexed, Refresh,
             Load, Spawn, Parsed, Done, Abort, Raise, Stop, Collect, FinishOutput,
             ReplaceChunks, ReplaceIndex, FinishTask, Fault
  <2> QED
    BY <1>2, <2>1, <2>2
<1>3. ASSUME NEW k \in Jobs \ {j}
      PROVE  run'[k] = run[k]
  <2>1. UNCHANGED run \/ \E r : run' = [run EXCEPT ![j] = r]
    <3>1. Raise(j) => \E r : run' = [run EXCEPT ![j] = r]
      BY Zenon DEF Raise
    <3>2. \A from, to : Load(j, from, to) => \E r : run' = [run EXCEPT ![j] = r]
      BY Zenon DEF Load
    <3>3. \A from, status, to :
            Transition(j, from, status, to) => \E r : run' = [run EXCEPT ![j] = r]
      BY <3>1, Zenon DEF Transition, Ended, Leaves
    <3>4. CASE Start(j) \/ Open(j)
      BY <3>4, Zenon DEF Start, Open
    <3>5. CASE First(j) \/ Validated(j) \/ Progressed(j) \/ Indexed(j) \/ Refresh(j)
      BY <3>2, <3>5, Zenon DEF First, Validated, Progressed, Indexed, Refresh
    <3>6. CASE Validate(j) \/ Parse(j) \/ Park(j) \/ Index(j)
      BY <3>3, <3>6, Zenon DEF Validate, Parse, Park, Index
    <3>7. CASE Spawn(j)
      BY <3>1, <3>7, Zenon DEF Spawn
    <3>8. CASE Parsed(j) \/ Abort(j)
      BY <3>1, <3>2, <3>8, Zenon DEF Parsed, Abort
    <3>9. CASE Progress(j)
      BY <3>1, <3>9, Zenon DEF Progress
    <3>10. CASE Stage(j)
      BY <3>10 DEF Stage
    <3>11. CASE Done(j) \/ Stop(j)
      BY <3>11, Zenon DEF Done, Stop
    <3>12. CASE Clear(j)
      BY <3>12, Zenon DEF Clear
    <3>13. CASE Collect(j)
      BY <3>13, Zenon DEF Collect
    <3>14. CASE FinishOutput(j)
      BY <3>1, <3>14, Zenon DEF FinishOutput
    <3>15. CASE ReplaceChunks(j) \/ ReplaceIndex(j)
      BY <3>1, <3>15, Zenon DEF ReplaceChunks, ReplaceIndex
    <3>16. CASE Terminal(j)
      BY <3>1, <3>16, Zenon DEF Terminal, Ended, Leaves
    <3>17. CASE Interrupt(j) \/ FinishTask(j)
      BY <3>17, Zenon DEF Interrupt, FinishTask, Ended, Leaves
    <3>18. CASE Fault(j)
      BY <3>1, <3>18, Zenon DEF Fault, Leaves
    <3> QED
      BY <3>4, <3>5, <3>6, <3>7, <3>8, <3>9, <3>10, <3>11, <3>12, <3>13, <3>14, <3>15, <3>16,
         <3>17, <3>18, Zenon DEF Works, Thread, RunJob
  <2> QED
    BY <1>3, <2>1
<1> QED
  BY <1>1, <1>2, <1>3, StaysUnmarked

\* The two steps of a thread that change a document.
ChunksReplaced(j) ==
  /\ run[j].pc = "chunk" /\ run'[j].pc = "index"
  /\ doc' = [doc EXCEPT ![DocOf(j)].chunks = j]
  /\ UNCHANGED job

IndexReplaced(j) ==
  /\ run[j].pc = "index" /\ run'[j].pc = "clear"
  /\ doc' = [doc EXCEPT ![DocOf(j)].index = doc[DocOf(j)].chunks]
  /\ UNCHANGED job

LEMMA ThreadDocuments ==
  ASSUME TypeOK, NEW j \in Jobs, Works(j), ThreadFits(j)
  PROVE  \/ UNCHANGED doc /\ (run[j].pc = "index" => run'[j].want = "FAILED")
         \/ ChunksReplaced(j)
         \/ IndexReplaced(j)
<1>1. CASE ReplaceChunks(j)
  <2>1. CASE Raise(j)
    BY <1>1, <2>1 DEF ReplaceChunks, Raise
  <2>2. CASE ~Raise(j)
    <3>1. run[j].pc = "chunk" /\ run'[j].pc = "index"
      BY <1>1, <2>2 DEF ReplaceChunks, TypeOK, Run
    <3> QED
      BY <1>1, <2>2, <3>1, Zenon DEF ReplaceChunks, ChunksReplaced
  <2> QED
    BY <2>1, <2>2
<1>2. CASE ReplaceIndex(j)
  <2>1. CASE Raise(j)
    BY <2>1, RaiseTurns DEF Raise, Turns
  <2>2. CASE ~Raise(j)
    <3>1. run[j].pc = "index" /\ run'[j].pc = "clear"
      BY <1>2, <2>2 DEF ReplaceIndex, TypeOK, Run
    <3> QED
      BY <1>2, <2>2, <3>1, Zenon DEF ReplaceIndex, IndexedChunks, IndexReplaced
  <2> QED
    BY <2>1, <2>2
<1>3. CASE UNCHANGED doc /\ run[j].pc # "index"
  BY <1>3
<1>4. CASE Fault(j)
  <2>1. CASE Raise(j)
    BY <2>1, RaiseTurns DEF Raise, Turns
  <2>2. CASE run[j].failing /\ UNCHANGED doc
    BY <2>2 DEF ThreadFits
  <2> QED
    BY <1>4, <2>1, <2>2 DEF Fault
<1> QED
  BY <1>1, <1>2, <1>3, <1>4
     DEF Works, Thread, RunJob, Start, Open, First, Validate, Validated, Transition, Load,
         Raise, Spawn, Parse, Parsed, Progress, Progressed, Stage, Done, Abort, Stop, Clear,
         Collect, Park, FinishOutput, Index, Indexed, Refresh, Terminal, Interrupt, FinishTask,
         Fault

LEMMA ThreadChunks ==
  ASSUME Typed, NEW j \in Jobs, Works(j), Keeps(j), Filing(j) => run[j].pc = "none",
         ThreadFits(j), NEW k \in Jobs, ChunksFit(k)
  PROVE  ChunksFit(k)'
<1>1. /\ \A i \in Jobs \ {j} : job'[i] = job[i] /\ run'[i] = run[i]
      /\ \A i \in Jobs : Filing(i)' = Filing(i)
  BY ThreadFootprint DEF Typed, Filing
<1>2. /\ run[j].pc # "none" /\ ~Filing(j) /\ ~Filing(j)' /\ job[j].status # "none"
      /\ job'[j].status # "none" /\ DocOf(j) \in Docs
      /\ \A i \in Jobs : DocOf(i)' = DocOf(i)
  BY <1>1 DEF Typed, Filed, Keeps, DocOf
<1>3. CASE UNCHANGED doc /\ (run[j].pc = "index" => run'[j].want = "FAILED")
  <2>1. CASE k # j
    BY <1>1, <1>2, <1>3, <2>1 DEF ChunksFit
  <2>2. CASE k = j
    <3> USE DEF ChunksFit
    <3>1. run'[j].pc \in Early => \A d \in Docs : doc'[d].chunks # j
      BY <1>3, <2>2 DEF Keeps
    <3>2. ASSUME NEW d \in Docs, d = DocOf(j), doc[d].state # "purged", doc[d].chunks = j,
                 doc[d].index # j
          PROVE  /\ job'[j].status # "COMPLETED"
                 /\ run'[j].pc \in Registered \ {"index"} => run'[j].want # "COMPLETED"
      <4>1. /\ job[j].status # "COMPLETED" /\ run[j].pc \notin Early
            /\ run[j].pc \in Registered \ {"index"} => run[j].want # "COMPLETED"
        BY <2>2, <3>2
      <4>2. "terminal" \in Registered /\ "starting" \in Early
        BY DEF Registered, Early, Live, Threads
      <4> QED
        BY <1>3, <4>1, <4>2 DEF Keeps
    <3> QED
      BY <1>2, <1>3, <2>2, <3>1, <3>2
  <2> QED
    BY <2>1, <2>2
<1>4. doc \in [Docs -> Doc] /\ \A d \in Docs : doc[d] \in Doc
  BY DEF Typed, TypeOK
<1>5. CASE ChunksReplaced(j)
  <2> USE DEF ChunksReplaced
  <2>1. \A d \in Docs :
          /\ doc'[d].state = doc[d].state /\ doc'[d].index = doc[d].index
          /\ doc'[d].chunks = IF d = DocOf(j) THEN j ELSE doc[d].chunks
    BY <1>2, <1>4, <1>5 DEF Doc
  <2>2. CASE k # j
    BY <1>1, <1>2, <2>1, <2>2 DEF ChunksFit
  <2>3. CASE k = j
    <3>1. "index" \notin Early /\ "chunk" \in Live
      BY DEF Early, Live, Threads, Registered
    <3>2. job'[j].status # "COMPLETED"
      BY <1>5, <3>1 DEF ThreadFits, Running
    <3> QED
      BY <1>2, <1>5, <2>3, <3>1, <3>2 DEF ChunksFit
  <2> QED
    BY <2>2, <2>3
<1>6. CASE IndexReplaced(j)
  <2> USE DEF IndexReplaced
  <2>1. \A d \in Docs :
          /\ doc'[d].state = doc[d].state /\ doc'[d].chunks = doc[d].chunks
          /\ doc'[d].index = IF d = DocOf(j) THEN doc[d].chunks ELSE doc[d].index
    BY <1>2, <1>4, <1>6 DEF Doc
  <2>2. CASE k # j
    BY <1>1, <1>2, <2>1, <2>2 DEF ChunksFit
  <2>3. CASE k = j
    <3>1. "clear" \notin Early
      BY DEF Early
    <3> QED
      BY <1>2, <1>6, <2>1, <2>3, <3>1 DEF ChunksFit
  <2> QED
    BY <2>2, <2>3
<1> QED
  BY <1>3, <1>5, <1>6, ThreadDocuments DEF Typed

\* Whatever a thread does, the requests keep what they know.
LEMMA ThreadTyped ==
  ASSUME Typed, NEW j \in Jobs, Works(j), Keeps(j)
  PROVE  Typed'
<1>1. /\ UNCHANGED <<api, phase, pending>>
      /\ \A i \in Jobs \ {j} : job'[i] = job[i] /\ run'[i] = run[i]
  BY ThreadFootprint DEF Typed
<1>2. TypeOK'
  BY <1>1, ThreadRunType, ThreadJobType, ThreadDocType, StaysUnmarked DEF Typed, TypeOK
<1>3. Filed'
  BY <1>1 DEF Typed, Filed, Keeps
<1>4. RequestsFit'
  <2> SUFFICES ASSUME NEW c \in Clients
               PROVE  RequestFits(c)'
    BY DEF RequestsFit
  <2>1. \A i \in Jobs : job'[i].status = "none" <=> job[i].status = "none"
    BY <1>1 DEF Keeps
  <2> QED
    BY <1>1, <2>1 DEF Typed, RequestsFit, RequestFits
<1> QED
  BY <1>2, <1>3, <1>4 DEF Typed

LEMMA ThreadSafe ==
  ASSUME IInv, NEW j \in Jobs, Works(j)
  PROVE  IInv' /\ Keeps(j)
<1> USE DEF IInv
<1>1. /\ UNCHANGED <<api, phase, pending>>
      /\ \A i \in Jobs \ {j} : /\ job'[i] = job[i] /\ run'[i] = run[i]
                               /\ i \in unmarked' <=> i \in unmarked
      /\ \A i \in Jobs : Filing(i)' = Filing(i)
  BY ThreadFootprint DEF Typed, Filing
<1>2. \A i \in Jobs : Filing(i) => run[i].pc = "none"
  BY DEF Filing, Safe, CallFits
<1>3. \A i \in Jobs : ThreadFits(i) /\ StatusFits(i) /\ ChunksFit(i)
  BY DEF Safe, JobFits
<1>4. Keeps(j)
  BY <1>1, <1>2, <1>3, ThreadKeeps DEF Typed
<1>5. Typed'
  BY <1>4, ThreadTyped
<1>6. \A i \in Jobs : JobFits(i)'
  <2> SUFFICES ASSUME NEW i \in Jobs
               PROVE  JobFits(i)'
    OBVIOUS
  <2>1. ChunksFit(i)'
    BY <1>2, <1>3, <1>4, ThreadChunks
  <2>2. CASE i = j
    BY <1>4, <2>1, <2>2 DEF Keeps, JobFits
  <2>3. CASE i # j
    BY <1>1, <1>3, <2>1, <2>3 DEF JobFits, ThreadFits, StatusFits, Spent, Dead, Doomed
  <2> QED
    BY <2>2, <2>3
<1>7. \A i \in Jobs : /\ Spent(i) => Spent(i)'
                      /\ Dead(i) => Dead(i)' /\ job'[i] = job[i]
                      /\ job'[i].cancel = job[i].cancel
                      /\ Spent(i) /\ job[i].status # "COMPLETED" => job'[i].status # "COMPLETED"
                      /\ run[i].pc = "none" => run'[i].pc = run[i].pc /\ job'[i] = job[i]
                      /\ run[i].pc = "skipped" => run'[i].pc \in {"skipped", "none"}
  BY <1>1, <1>4 DEF Spent, Dead, Doomed, Keeps
<1>8. \A c \in Clients : CallFits(c)'
  <2> SUFFICES ASSUME NEW c \in Clients
               PROVE  CallFits(c)'
    OBVIOUS
  <2>1. CallFits(c) /\ RequestFits(c)
    BY DEF Safe, Typed, RequestsFit
  <2> QED
    BY <1>1, <1>7, <2>1 DEF CallFits, Signalled, RequestFits, AtJob
<1>9. OneEnqueue'
  BY <1>1 DEF Safe, OneEnqueue
<1>10. PhaseFits'
  BY <1>1, <1>7 DEF Safe, PhaseFits, Typed, TypeOK
<1> QED
  BY <1>4, <1>5, <1>6, <1>8, <1>9, <1>10 DEF Safe

-----------------------------------------------------------------------------
(***************************************************************************)
(* A request                                                               *)
(***************************************************************************)

\* what the others rely on: of a filed job, while client c takes a step
Holds(c, i) == job[i].status # "none" =>
  /\ Dead(i) => Dead(i)'
  /\ Spent(i) => Spent(i)'
  /\ Dead(i) \/ job[i].cancel => Dead(i)' \/ job'[i].cancel
  /\ job'[i].status # "none"
  /\ job[i].status # "COMPLETED" => job'[i].status # "COMPLETED"
  /\ job[i].status \notin Running => job'[i].status \notin Running
  /\ run[i].pc = "none" /\ job[i].status \in {"QUEUED", "CANCELLED"}
       /\ (\E e \in Clients \ {c} : api[e].pc = "enqueue" /\ api[e].at = i)
     => run'[i].pc = "none" /\ job'[i].status \in {"QUEUED", "CANCELLED"}

LEMMA OthersFit ==
  ASSUME Typed, NEW c, \A i \in Jobs : Holds(c, i),
         NEW e \in Clients \ {c}, api'[e] = api[e], CallFits(e)
  PROVE  CallFits(e)' /\ RequestFits(e)'
<1>1. RequestFits(e)
  BY DEF Typed, RequestsFit
<1>2. RequestFits(e)'
  BY <1>1 DEF RequestFits, Holds
<1>3. api[e].pc = "enqueue" => /\ run'[api[e].at].pc = "none"
                               /\ job'[api[e].at].status \in {"QUEUED", "CANCELLED"}
  BY <1>1 DEF CallFits, RequestFits, AtJob, Holds
<1>4. api[e].pc = "requeue" => /\ Dead(api[e].at)'
                               /\ job'[api[e].at].status \notin Running \cup {"COMPLETED", "none"}
  BY <1>1 DEF CallFits, RequestFits, AtJob, Holds
<1>5. api[e].op = "cancel" =>
        /\ job'[api[e].at].status # "none"
        /\ Spent(api[e].at) => Spent(api[e].at)'
        /\ Dead(api[e].at) \/ job[api[e].at].cancel => Dead(api[e].at)' \/ job'[api[e].at].cancel
        /\ job[api[e].at].status # "COMPLETED" => job'[api[e].at].status # "COMPLETED"
  BY <1>1 DEF RequestFits, Holds
<1> QED
  BY <1>2, <1>3, <1>4, <1>5 DEF CallFits, Signalled

\* A step of client c keeps the invariant when it does right by the jobs, by the
\* other requests and by its own.
LEMMA RequestFrame ==
  ASSUME IInv, NEW c \in Clients, TypeOK', Filed', phase = "up", UNCHANGED phase,
         \A e \in Clients \ {c} : api'[e] = api[e],
         \A i \in Jobs : Holds(c, i) /\ JobFits(i)',
         CallFits(c)', RequestFits(c)',
         api'[c].pc = "enqueue" =>
           \A e \in Clients \ {c} : api[e].pc = "enqueue" => api[e].at # api'[c].at
  PROVE  IInv'
<1>1. \A e \in Clients : CallFits(e)' /\ RequestFits(e)'
  BY OthersFit DEF IInv, Safe
<1>2. OneEnqueue'
  BY DEF IInv, Safe, OneEnqueue
<1>3. PhaseFits'
  BY DEF PhaseFits
<1> QED
  BY <1>1, <1>2, <1>3 DEF IInv, Typed, Safe, RequestsFit

\* Steps that only change what a request knows.
LEMMA QuietStep ==
  ASSUME IInv, NEW c \in Clients, TypeOK', phase = "up",
         UNCHANGED <<job, run, phase, unmarked>>,
         \A e \in Clients \ {c} : api'[e] = api[e],
         \A d \in Docs : /\ doc'[d].chunks = doc[d].chunks
                         /\ doc'[d].state # "purged" =>
                              doc[d].state # "purged" /\ doc'[d].index = doc[d].index,
         api[c].pc # "enqueue", api'[c].pc # "enqueue",
         CallFits(c)', RequestFits(c)'
  PROVE  IInv'
<1>1. \A i \in Jobs : Filing(i)' = Filing(i)
  BY DEF Filing
<1>2. \A i \in Jobs : Dead(i)' = Dead(i) /\ Spent(i)' = Spent(i)
  BY <1>1 DEF Dead, Spent, Doomed
<1>3. \A i \in Jobs : Holds(c, i)
  BY <1>2 DEF Holds
<1>4. \A i \in Jobs : JobFits(i)'
  <2> SUFFICES ASSUME NEW i \in Jobs
               PROVE  JobFits(i)'
    OBVIOUS
  <2>1. JobFits(i)
    BY DEF IInv, Safe
  <2>2. ThreadFits(i)' /\ StatusFits(i)'
    BY <1>2, <2>1 DEF JobFits, ThreadFits, StatusFits
  <2>3. ChunksFit(i)'
    BY <1>1, <2>1 DEF JobFits, ChunksFit, DocOf
  <2> QED
    BY <2>2, <2>3 DEF JobFits
<1>5. Filed'
  BY DEF IInv, Typed, Filed
<1> QED
  BY <1>3, <1>4, <1>5, RequestFrame

LEMMA RequestFootprint ==
  ASSUME IInv, NEW c \in Clients, Acts(c)
  PROVE  /\ TypeOK' /\ phase = "up" /\ UNCHANGED <<phase, unmarked>>
         /\ \A e \in Clients \ {c} : api'[e] = api[e]
<1> USE DEF IInv, Typed
<1>1. UNCHANGED <<phase, pending, unmarked>> /\ TypeOK'
  BY RequestTypes, RequestJobType, RequestApiType, ServeApiType DEF TypeOK, Acts
<1>2. phase = "up"
  <2>1. CASE Request(c)
    BY <2>1 DEF Request, Import, Rebuild, Create, Delete, Purge, Restore, Retry, Cancel, Idle
  <2>2. CASE Serve(c) \/ RequestFails(c)
    <3>1. api[c].pc # "idle"
      BY <2>2 DEF Serve, Enqueue, Requeue, List, Mark, Write, Signal, Deliver, Wait, Finish,
                  Answer, Reread, Withdraw, RequestFails
    <3> QED
      BY <3>1 DEF Safe, PhaseFits
  <2> QED
    BY <2>1, <2>2 DEF Acts
<1>3. ASSUME NEW e \in Clients \ {c}
      PROVE  api'[e] = api[e]
  <2>1. UNCHANGED api \/ \E r : api' = [api EXCEPT ![c] = r]
    <3>1. CASE Request(c)
      <4>1. ASSUME NEW d \in Docs, Import(c, d) \/ Rebuild(c, d)
            PROVE  \E r : api' = [api EXCEPT ![c] = r]
        BY <4>1, Zenon DEF Import, Rebuild, Create
      <4>2. ASSUME NEW d \in Docs, Delete(c, d) \/ Purge(c, d)
            PROVE  \E r : api' = [api EXCEPT ![c] = r]
        BY <4>2, Zenon DEF Delete, Purge
      <4>3. ASSUME NEW d \in Docs, Restore(c, d)
            PROVE  UNCHANGED api
        BY <4>3 DEF Restore
      <4>4. ASSUME NEW j \in Jobs, Retry(c, j) \/ Cancel(c, j)
            PROVE  \E r : api' = [api EXCEPT ![c] = r]
        BY <4>4, Zenon DEF Retry, Cancel
      <4> QED
        BY <3>1, <4>1, <4>2, <4>3, <4>4, Zenon DEF Request
    <3>2. CASE Enqueue(c) \/ Requeue(c) \/ Finish(c) \/ Withdraw(c) \/ RequestFails(c)
      BY <3>2, Zenon DEF Enqueue, Requeue, Finish, Withdraw, Answered, RequestFails
    <3>3. CASE List(c) \/ Answer(c) \/ Reread(c)
      BY <3>3, Zenon DEF List, Answer, Reread, Answered
    <3>4. CASE Mark(c)
      BY <3>4, Zenon DEF Mark
    <3>5. CASE Write(c) \/ Wait(c)
      BY <3>5, Zenon DEF Write, Wait
    <3>6. CASE Signal(c)
      BY <3>6, Zenon DEF Signal
    <3>7. CASE Deliver(c)
      BY <3>7, Zenon DEF Deliver, Answered
    <3> QED
      BY <3>1, <3>2, <3>3, <3>4, <3>5, <3>6, <3>7 DEF Acts, Serve
  <2> QED
    BY <1>3, <2>1 DEF TypeOK
<1> QED
  BY <1>1, <1>2, <1>3

LEMMA AnsweredCall ==
  ASSUME api \in [Clients -> Api], NEW c \in Clients, api' = Answered(c)
  PROVE  api'[c].pc = "idle" /\ CallFits(c)' /\ RequestFits(c)'
<1>1. api'[c].pc = "idle" /\ api'[c].op = "none"
  BY DEF Answered, NoApi
<1> QED
  BY <1>1 DEF CallFits, RequestFits, Signalled, AtJob

\* A request for a document, or for a job that is there.
LEMMA QuietRequest ==
  ASSUME IInv, NEW c \in Clients,
         \/ \E d \in Docs : Delete(c, d) \/ Purge(c, d) \/ Restore(c, d)
         \/ \E j \in Jobs : Retry(c, j) \/ Cancel(c, j)
  PROVE  IInv'
<1> USE DEF IInv, Typed, TypeOK
<1>1. /\ TypeOK' /\ phase = "up" /\ UNCHANGED <<phase, unmarked>>
      /\ \A e \in Clients \ {c} : api'[e] = api[e]
  BY RequestFootprint DEF Acts, Request
<1>2. ASSUME NEW d \in Docs, Delete(c, d) \/ Purge(c, d)
      PROVE  IInv'
  <2>1. /\ api[c].pc = "idle" /\ UNCHANGED <<doc, job, run>>
        /\ api'[c].pc = "list" /\ api'[c].op \in {"delete", "purge"} /\ api'[c].doc = d
    BY <1>2 DEF Delete, Purge, Idle, NoApi
  <2>2. CallFits(c)' /\ RequestFits(c)'
    BY <2>1 DEF CallFits, RequestFits, Signalled, AtJob
  <2> QED
    BY <1>1, <2>1, <2>2, QuietStep
<1>3. ASSUME NEW d \in Docs, Restore(c, d)
      PROVE  IInv'
  <2>1. /\ api[c].pc = "idle" /\ UNCHANGED <<job, run, api>>
        /\ \A e \in Docs : /\ doc'[e].chunks = doc[e].chunks
                           /\ doc'[e].state # "purged" =>
                                doc[e].state # "purged" /\ doc'[e].index = doc[e].index
    BY <1>3 DEF Restore, Idle, Doc
  <2>2. RequestFits(c)
    BY DEF RequestsFit
  <2>3. api[c].op = "cancel" => ~Signalled(c)
    BY <2>1 DEF Signalled
  <2>4. CallFits(c)' /\ RequestFits(c)'
    BY <2>1, <2>2, <2>3 DEF CallFits, RequestFits, Signalled, AtJob
  <2> QED
    BY <1>1, <2>1, <2>4, QuietStep
<1>4. ASSUME NEW j \in Jobs, Retry(c, j)
      PROVE  IInv'
  <2>1. /\ api[c].pc = "idle" /\ UNCHANGED <<doc, job, run>>
        /\ api'[c].pc = "requeue" /\ api'[c].op = "retry" /\ api'[c].at = j
        /\ job[j].status \in Retryable
    BY <1>4 DEF Retry, Idle, NoApi
  <2>2. ~Filing(j) /\ ~Filing(j)'
    <3>1. ~Filing(j)
      BY <2>1 DEF Filing, Safe, CallFits, Retryable
    <3> QED
      BY <1>1, <2>1, <3>1 DEF Filing
  <2>3. run[j].pc \notin Live
    BY <2>1 DEF Safe, JobFits, ThreadFits, Retryable, Running
  <2>4. Dead(j)' /\ job'[j].status \notin Running \cup {"COMPLETED", "none"}
    BY <2>1, <2>2, <2>3 DEF Dead, Retryable, Running
  <2>5. CallFits(c)' /\ RequestFits(c)'
    BY <2>1, <2>4 DEF CallFits, RequestFits, Signalled, AtJob
  <2> QED
    BY <1>1, <2>1, <2>5, QuietStep
<1>5. ASSUME NEW j \in Jobs, Cancel(c, j)
      PROVE  IInv'
  <2>1. /\ api[c].pc = "idle" /\ UNCHANGED <<doc, job, run>>
        /\ api'[c].pc = "mark" /\ api'[c].op = "cancel" /\ api'[c].at = j
        /\ api'[c].mark = {j} /\ api'[c].todo = {j} /\ job[j].status # "none"
    BY <1>5 DEF Cancel, Idle, NoApi
  <2>2. CallFits(c)' /\ RequestFits(c)'
    BY <2>1 DEF CallFits, RequestFits, Signalled, AtJob
  <2> QED
    BY <1>1, <2>1, <2>2, QuietStep
<1> QED
  BY <1>2, <1>3, <1>4, <1>5

\* A row of api with some fields changed.
LEMMA ApiRow ==
  ASSUME api \in [Clients -> Api], NEW c \in Clients, NEW r, api' = [api EXCEPT ![c] = r]
  PROVE  api'[c] = r
OBVIOUS

\* The steps of a request that only look.
LEMMA QuietServe ==
  ASSUME IInv, NEW c \in Clients,
         \/ List(c) \/ Mark(c) \/ Wait(c) \/ Finish(c) \/ Answer(c) \/ Reread(c)
         \/ RequestFails(c)
  PROVE  IInv'
<1> USE DEF IInv, Typed, TypeOK
<1>1. /\ TypeOK' /\ phase = "up" /\ UNCHANGED <<phase, unmarked>>
      /\ \A e \in Clients \ {c} : api'[e] = api[e]
  BY RequestFootprint DEF Acts, Serve
<1>2. CallFits(c) /\ RequestFits(c) /\ api[c] \in Api
  BY DEF Safe, RequestsFit
<1>3. \A i \in Jobs : Filing(i) => run[i].pc = "none"
  BY DEF Filing, Safe, CallFits
<1>4. ASSUME api' = Answered(c)
      PROVE  api'[c].pc = "idle" /\ CallFits(c)' /\ RequestFits(c)'
  BY <1>4, AnsweredCall
<1>5. ASSUME UNCHANGED <<run, job>>, api[c].pc # "enqueue", api'[c].pc # "enqueue"
      PROVE  /\ \A i \in Jobs : Filing(i)' = Filing(i)
             /\ \A i \in Jobs : Dead(i)' = Dead(i) /\ Spent(i)' = Spent(i)
  <2>1. \A i \in Jobs : Filing(i)' = Filing(i)
    BY <1>1, <1>5 DEF Filing
  <2> QED
    BY <1>5, <2>1 DEF Dead, Spent, Doomed
<1>6. CASE List(c)
  <2>1. UNCHANGED <<doc, job, run>> /\ api[c].pc = "list" /\ api[c].op \in {"delete", "purge"}
    BY <1>2, <1>6 DEF List, RequestFits
  <2>2. CASE api' = Answered(c)
    BY <1>1, <1>4, <2>1, <2>2, QuietStep
  <2>3. CASE api' # Answered(c)
    <3>1. /\ api'[c].pc = "mark" /\ api'[c].op = api[c].op /\ api'[c].doc = api[c].doc
      BY <1>6, <2>3 DEF List, Api
    <3>2. CallFits(c)' /\ RequestFits(c)'
      BY <1>2, <2>1, <3>1 DEF CallFits, RequestFits, Signalled, AtJob
    <3> QED
      BY <1>1, <2>1, <3>1, <3>2, QuietStep
  <2> QED
    BY <2>2, <2>3
<1>7. CASE Mark(c)
  <2>1. UNCHANGED <<doc, job, run>> /\ api[c].pc = "mark"
    BY <1>7 DEF Mark
  <2>2. CASE api[c].mark = {}
    <3>1. /\ api'[c].pc = "signal" /\ api'[c].op = api[c].op /\ api'[c].doc = api[c].doc
          /\ api'[c].mark = api[c].mark /\ api'[c].todo = api[c].todo /\ api'[c].at = api[c].at
      BY <1>7, <2>2 DEF Mark, Api
    <3>2. /\ \A i \in Jobs : Dead(i)' = Dead(i) /\ Spent(i)' = Spent(i)
      BY <1>5, <2>1, <3>1
    <3>3. CallFits(c)' /\ RequestFits(c)'
      BY <1>2, <2>1, <2>2, <3>1, <3>2 DEF CallFits, RequestFits, Signalled, AtJob
    <3> QED
      BY <1>1, <2>1, <3>1, <3>3, QuietStep
  <2>3. CASE api[c].mark # {}
    <3>1. PICK j \in api[c].mark : j = CHOOSE k \in api[c].mark : TRUE
      BY <2>3
    <3>2. j \in Jobs
      BY <1>2 DEF Api
    <3>3. CASE job[j].cancel
      <4>1. api' = [api EXCEPT ![c].mark = api[c].mark \ {j}]
        BY <1>7, <2>3, <3>1, <3>3 DEF Mark
      <4>2. /\ api'[c].pc = "mark" /\ api'[c].op = api[c].op /\ api'[c].doc = api[c].doc
            /\ api'[c].mark = api[c].mark \ {j} /\ api'[c].todo = api[c].todo
            /\ api'[c].at = api[c].at
        BY <2>1, <4>1 DEF Api
      <4>3. CallFits(c)' /\ RequestFits(c)'
        BY <1>2, <2>1, <3>1, <3>3, <4>2 DEF CallFits, RequestFits, Signalled, AtJob
      <4> QED
        BY <1>1, <2>1, <4>2, <4>3, QuietStep
    <3>4. CASE ~job[j].cancel
      <4>1. api' = [api EXCEPT ![c] = [@ EXCEPT !.pc = "write", !.mark = api[c].mark \ {j},
                                                !.at = j, !.seen = job[j].version]]
        BY <1>7, <2>3, <3>1, <3>4 DEF Mark
      <4>2. /\ api'[c].pc = "write" /\ api'[c].op = api[c].op /\ api'[c].doc = api[c].doc
            /\ api'[c].mark = api[c].mark \ {j} /\ api'[c].todo = api[c].todo
            /\ api'[c].at = j
        BY <2>1, <4>1 DEF Api
      <4>3. CallFits(c)' /\ RequestFits(c)'
        BY <1>2, <2>1, <3>1, <3>2, <4>2 DEF CallFits, RequestFits, Signalled, AtJob
      <4> QED
        BY <1>1, <2>1, <4>2, <4>3, QuietStep
    <3> QED
      BY <3>3, <3>4
  <2> QED
    BY <2>2, <2>3
<1>8. CASE Wait(c)
  <2>1. /\ UNCHANGED <<doc, job, run>> /\ api[c].pc = "wait"
        /\ run[api[c].at].pc \notin Threads
    BY <1>8 DEF Wait
  <2>2. /\ api'[c].pc = "signal" /\ api'[c].op = api[c].op /\ api'[c].doc = api[c].doc
        /\ api'[c].mark = api[c].mark /\ api'[c].todo = api[c].todo \ {api[c].at}
        /\ api'[c].at = api[c].at
    BY <1>8 DEF Wait, Api
  <2>3. \A i \in Jobs : Dead(i)' = Dead(i) /\ Spent(i)' = Spent(i)
    BY <1>5, <2>1, <2>2
  <2>4. api[c].op = "cancel" => Spent(api[c].at)
    <3>1. HAVE api[c].op = "cancel"
    <3>2. api[c].at \in Jobs /\ (Dead(api[c].at) \/ job[api[c].at].cancel)
      BY <1>2, <2>1, <3>1 DEF CallFits, RequestFits
    <3>3. CASE run[api[c].at].pc = "ended"
      BY <1>3, <3>2, <3>3 DEF Spent, Dead, Live, Threads, Registered, AwaitPoints
    <3>4. CASE run[api[c].at].pc # "ended"
      <4>1. run[api[c].at].pc \in Unheard
        BY <2>1, <3>2, <3>4 DEF Run, RunPCs, Unheard
      <4> QED
        BY <3>2, <4>1 DEF Spent, Doomed
    <3> QED
      BY <3>3, <3>4
  <2>5. CallFits(c)' /\ RequestFits(c)'
    BY <1>2, <2>1, <2>2, <2>3, <2>4 DEF CallFits, RequestFits, Signalled, AtJob
  <2> QED
    BY <1>1, <2>1, <2>2, <2>5, QuietStep
<1>9. CASE Finish(c)
  <2>1. /\ UNCHANGED <<job, run>> /\ api[c].pc = "finish" /\ api' = Answered(c)
        /\ api[c].doc \in Docs
    BY <1>2, <1>9 DEF Finish, RequestFits
  <2>2. \A d \in Docs : /\ doc'[d].chunks = doc[d].chunks
                        /\ doc'[d].state # "purged" =>
                             doc[d].state # "purged" /\ doc'[d].index = doc[d].index
    <3>1. CASE ~Present(api[c].doc)
      BY <1>9, <3>1 DEF Finish
    <3>2. CASE Present(api[c].doc) /\ api[c].op = "delete"
      BY <1>9, <2>1, <3>2 DEF Finish, Doc, Present
    <3>3. CASE Present(api[c].doc) /\ api[c].op = "purge"
      <4>1. doc' = [doc EXCEPT ![api[c].doc] = [@ EXCEPT !.state = "purged", !.index = None]]
        BY <1>9, <3>3 DEF Finish
      <4> QED
        BY <2>1, <4>1 DEF Doc
    <3> QED
      BY <1>9, <3>1, <3>2, <3>3 DEF Finish
  <2> QED
    BY <1>1, <1>4, <2>1, <2>2, QuietStep
<1>10. CASE Answer(c) \/ Reread(c)
  <2>1. /\ UNCHANGED <<doc, job, run>> /\ api[c].pc \in {"finish", "reread"}
        /\ api[c].op = "cancel" /\ api[c].at \in Jobs /\ Spent(api[c].at)
    BY <1>2, <1>10 DEF Answer, Reread, CallFits, Signalled, RequestFits
  <2>2. CASE api' = Answered(c)
    BY <1>1, <1>4, <2>1, <2>2, QuietStep
  <2>3. CASE api' # Answered(c)
    <3>1. /\ api'[c].pc \in {"reread", "withdraw"}
          /\ api'[c].op = api[c].op /\ api'[c].doc = api[c].doc
          /\ api'[c].mark = api[c].mark /\ api'[c].todo = api[c].todo /\ api'[c].at = api[c].at
          /\ job[api[c].at].status = "QUEUED"
      <4>1. CASE Answer(c)
        BY <2>3, <4>1 DEF Answer, Api
      <4>2. CASE Reread(c)
        BY <2>3, <4>2 DEF Reread, Api
      <4> QED
        BY <1>10, <4>1, <4>2
    <3>2. \A i \in Jobs : Dead(i)' = Dead(i) /\ Spent(i)' = Spent(i)
      BY <1>5, <2>1, <3>1
    <3>3. CallFits(c)' /\ RequestFits(c)'
      BY <1>2, <2>1, <3>1, <3>2 DEF CallFits, RequestFits, Signalled, AtJob
    <3> QED
      BY <1>1, <2>1, <3>1, <3>3, QuietStep
  <2> QED
    BY <2>2, <2>3
<1>11. CASE RequestFails(c)
  BY <1>1, <1>4, <1>11, QuietStep DEF RequestFails
<1> QED
  BY <1>6, <1>7, <1>8, <1>9, <1>10, <1>11

\* A job that is filed and not yet scheduled.
LEMMA FilingJob ==
  ASSUME IInv, NEW i \in Jobs, Filing(i)
  PROVE  /\ run[i].pc = "none" /\ job[i].status \in {"QUEUED", "CANCELLED"}
         /\ \A d \in Docs : doc[d].chunks # i
BY DEF Filing, IInv, Safe, CallFits, JobFits, ChunksFit

\* A job that no step touches.
LEMMA OtherJob ==
  ASSUME NEW i \in Jobs, JobFits(i), job'[i] = job[i], run'[i] = run[i],
         Filing(i)' = Filing(i), i \in unmarked' <=> i \in unmarked,
         \A d \in Docs : /\ doc'[d].chunks = doc[d].chunks
                         /\ doc'[d].state # "purged" =>
                              doc[d].state # "purged" /\ doc'[d].index = doc[d].index,
         NEW c
  PROVE  JobFits(i)' /\ Holds(c, i)
<1>1. Dead(i)' = Dead(i) /\ Spent(i)' = Spent(i)
  BY DEF Dead, Spent, Doomed
<1>2. ThreadFits(i)' /\ StatusFits(i)'
  BY <1>1 DEF JobFits, ThreadFits, StatusFits
<1>3. ChunksFit(i)'
  BY DEF JobFits, ChunksFit, DocOf
<1> QED
  BY <1>1, <1>2, <1>3 DEF JobFits, Holds

\* A new job starts dead, and nobody knows it yet.
LEMMA CreateKeeps ==
  ASSUME IInv, NEW c \in Clients, NEW d \in Docs, Import(c, d) \/ Rebuild(c, d)
  PROVE  IInv'
<1> USE DEF IInv, Typed, TypeOK
<1>1. /\ TypeOK' /\ phase = "up" /\ UNCHANGED <<phase, run, unmarked>>
      /\ \A e \in Clients \ {c} : api'[e] = api[e]
  BY RequestFootprint DEF Acts, Request, Import, Rebuild, Create
<1>2. PICK op \in {"import", "rebuild"} : Create(c, d, op)
  BY DEF Import, Rebuild
<1>3. PICK j \in Jobs :
        /\ job[j].status = "none"
        /\ job' = [job EXCEPT ![j] = [@ EXCEPT !.status = "QUEUED", !.doc = d]]
        /\ api' = [api EXCEPT ![c] = [NoApi EXCEPT !.pc = "enqueue", !.op = op, !.at = j]]
  BY <1>2, Zenon DEF Create
<1>4. /\ api[c].pc = "idle"
      /\ api'[c].pc = "enqueue" /\ api'[c].op = op /\ api'[c].at = j
  BY <1>2, <1>3 DEF Create, Idle, NoApi
<1>5. /\ job'[j].status = "QUEUED" /\ job'[j].doc = d
      /\ \A i \in Jobs \ {j} : job'[i] = job[i]
  BY <1>3 DEF Job
<1>6. run[j].pc = "none" /\ ~Filing(j)
  BY <1>3, FilingJob DEF Filed
<1>7. \A i \in Jobs \ {j} : Filing(i)' = Filing(i)
  BY <1>1, <1>4 DEF Filing
<1>8. \A e \in Docs : /\ doc'[e].chunks = doc[e].chunks
                      /\ doc'[e].state # "purged" =>
                           doc[e].state # "purged" /\ doc'[e].index = doc[e].index
  <2>1. CASE Import(c, d)
    BY <2>1 DEF Import, Doc
  <2>2. CASE Rebuild(c, d)
    BY <2>2 DEF Rebuild
  <2> QED
    BY <2>1, <2>2
<1>9. \A i \in Jobs : JobFits(i)
  BY DEF Safe
<1>10. JobFits(j)'
  <2>1. \A e \in Docs : doc'[e].chunks # j
    BY <1>3, <1>8, <1>9 DEF JobFits, ChunksFit
  <2>2. ChunksFit(j)'
    BY <2>1 DEF ChunksFit
  <2>3. ThreadFits(j)'
    BY <1>1, <1>6, <1>9 DEF JobFits, ThreadFits, Live, Threads, Working, Registered, AwaitPoints
  <2>4. StatusFits(j)'
    BY <1>5 DEF StatusFits, Running
  <2> QED
    BY <2>2, <2>3, <2>4 DEF JobFits
<1>11. \A i \in Jobs : JobFits(i)' /\ Holds(c, i)
  <2> SUFFICES ASSUME NEW i \in Jobs
               PROVE  JobFits(i)' /\ Holds(c, i)
    OBVIOUS
  <2>1. CASE i = j
    BY <1>3, <1>5, <1>10, <2>1 DEF Holds, Running
  <2>2. CASE i # j
    BY <1>1, <1>5, <1>7, <1>8, <1>9, <2>2, OtherJob
  <2> QED
    BY <2>1, <2>2
<1>12. CallFits(c)' /\ RequestFits(c)'
  BY <1>1, <1>4, <1>5, <1>6 DEF CallFits, RequestFits, Signalled, AtJob
<1>13. \A e \in Clients : api[e].pc = "enqueue" => api[e].at # j
  BY <1>6 DEF Filing
<1>14. Filed'
  BY <1>1, <1>5 DEF Filed
<1> QED
  BY <1>1, <1>4, <1>11, <1>12, <1>13, <1>14, RequestFrame

LEMMA EnqueueKeeps ==
  ASSUME IInv, NEW c \in Clients, Enqueue(c)
  PROVE  IInv'
<1> USE DEF IInv, Typed, TypeOK
<1> PICK j \in Jobs : j = api[c].at
  BY DEF Enqueue, RequestsFit, RequestFits, AtJob
<1>1. /\ TypeOK' /\ phase = "up" /\ UNCHANGED <<phase, job, doc, unmarked>>
      /\ \A e \in Clients \ {c} : api'[e] = api[e]
  BY RequestFootprint DEF Acts, Serve, Enqueue
<1>2. /\ api[c].pc = "enqueue" /\ api' = Answered(c) /\ Filing(j)
      /\ run' = [run EXCEPT ![j].pc = "queued"]
  BY DEF Enqueue, Filing
<1>3. /\ run[j].pc = "none" /\ job[j].status \in {"QUEUED", "CANCELLED"}
      /\ \A d \in Docs : doc[d].chunks # j
  BY <1>2, FilingJob
<1>4. /\ run'[j].pc = "queued" /\ run'[j].want = run[j].want /\ run'[j].failing = run[j].failing
      /\ \A i \in Jobs \ {j} : run'[i] = run[i]
  BY <1>2 DEF Run
<1>5. api'[c].pc = "idle" /\ CallFits(c)' /\ RequestFits(c)'
  BY <1>2, AnsweredCall
<1>6. \A i \in Jobs \ {j} : Filing(i)' = Filing(i)
  BY <1>1, <1>2, <1>5 DEF Filing
<1>7. /\ ~\E e \in Clients \ {c} : api[e].pc = "enqueue" /\ api[e].at = j
      /\ ~Filing(j)'
  <2>1. ~\E e \in Clients \ {c} : api[e].pc = "enqueue" /\ api[e].at = j
    BY <1>2 DEF Safe, OneEnqueue
  <2> QED
    BY <1>1, <1>5, <2>1 DEF Filing
<1>8. \A i \in Jobs : JobFits(i)
  BY DEF Safe
<1>9. ~Dead(j) /\ (Spent(j) => Doomed(j)')
  BY <1>1, <1>2, <1>4 DEF Dead, Spent, Doomed, Unheard
<1>10. JobFits(j)'
  <2>1. ThreadFits(j)'
    BY <1>1, <1>3, <1>4, <1>8 DEF JobFits, ThreadFits, Working, Registered, AwaitPoints
  <2>2. StatusFits(j)'
    BY <1>1, <1>3, <1>8, <1>9 DEF JobFits, StatusFits, Spent, Running
  <2>3. ChunksFit(j)'
    BY <1>1, <1>3 DEF ChunksFit
  <2> QED
    BY <2>1, <2>2, <2>3 DEF JobFits
<1>11. \A i \in Jobs : JobFits(i)' /\ Holds(c, i)
  <2> SUFFICES ASSUME NEW i \in Jobs
               PROVE  JobFits(i)' /\ Holds(c, i)
    OBVIOUS
  <2>1. CASE i = j
    BY <1>1, <1>7, <1>9, <1>10, <2>1 DEF Holds, Spent
  <2>2. CASE i # j
    BY <1>1, <1>4, <1>6, <1>8, <2>2, OtherJob
  <2> QED
    BY <2>1, <2>2
<1>12. Filed'
  BY <1>1, <1>3, <1>4 DEF Filed
<1> QED
  BY <1>1, <1>5, <1>11, <1>12, RequestFrame

\* A request that writes the row of job j and nothing else.
LEMMA RowStep ==
  ASSUME IInv, NEW c \in Clients, NEW j \in Jobs, TypeOK', phase = "up",
         UNCHANGED <<phase, run, doc, unmarked>>, \A e \in Clients \ {c} : api'[e] = api[e],
         api[c].pc # "enqueue", api'[c].pc # "enqueue",
         \A i \in Jobs \ {j} : job'[i] = job[i],
         job'[j].doc = job[j].doc, job[j].status # "none",
         JobFits(j)', Holds(c, j), CallFits(c)', RequestFits(c)'
  PROVE  IInv'
<1>1. \A i \in Jobs : JobFits(i)
  BY DEF IInv, Safe
<1>2. \A i \in Jobs : Filing(i)' = Filing(i)
  BY DEF Filing
<1>3. \A i \in Jobs : JobFits(i)' /\ Holds(c, i)
  BY <1>1, <1>2, OtherJob
<1>4. Filed'
  BY DEF IInv, Typed, Filed, Holds
<1> QED
  BY <1>3, <1>4, RequestFrame

\* A retry files nothing: it only makes a dead job look queued.
LEMMA RequeueKeeps ==
  ASSUME IInv, NEW c \in Clients, Requeue(c)
  PROVE  IInv'
<1> USE DEF IInv, Typed, TypeOK
<1> PICK j \in Jobs : j = api[c].at
  BY DEF Requeue, RequestsFit, RequestFits, AtJob
<1>1. /\ TypeOK' /\ phase = "up" /\ UNCHANGED <<phase, run, doc, unmarked>>
      /\ \A e \in Clients \ {c} : api'[e] = api[e]
  BY RequestFootprint DEF Acts, Serve, Requeue
<1>2. api[c].pc = "requeue" /\ api' = Answered(c)
  BY DEF Requeue
<1>3. /\ job'[j].status = "QUEUED" /\ job'[j].doc = job[j].doc
      /\ \A i \in Jobs \ {j} : job'[i] = job[i]
  BY DEF Requeue, Job
<1>4. api'[c].pc = "idle" /\ CallFits(c)' /\ RequestFits(c)'
  BY <1>2, AnsweredCall
<1>5. Dead(j) /\ job[j].status \notin {"COMPLETED", "none"} /\ JobFits(j)
  BY <1>2 DEF Safe, CallFits
<1>6. Filing(j)' = Filing(j)
  BY <1>1, <1>2, <1>4 DEF Filing
<1>7. Dead(j)'
  BY <1>1, <1>5, <1>6 DEF Dead
<1>8. JobFits(j)'
  <2>1. run[j].pc \notin Live /\ ~Filing(j)
    BY <1>5 DEF Dead
  <2>2. run[j].pc \notin Registered
    BY <2>1 DEF Live, Threads
  <2>3. ThreadFits(j)'
    BY <1>1, <1>5, <2>1, <2>2 DEF JobFits, ThreadFits, Working
  <2>4. StatusFits(j)'
    BY <1>3 DEF StatusFits, Running
  <2>5. ChunksFit(j)'
    BY <1>1, <1>3, <1>6, <2>1, <2>2 DEF ChunksFit, Early
  <2> QED
    BY <2>3, <2>4, <2>5 DEF JobFits
<1>9. Holds(c, j)
  <2>1. ~\E e \in Clients \ {c} : api[e].pc = "enqueue" /\ api[e].at = j
    BY <1>5 DEF Dead, Filing
  <2> QED
    BY <1>3, <1>7, <2>1 DEF Holds, Spent, Running
<1> QED
  BY <1>1, <1>2, <1>3, <1>4, <1>5, <1>8, <1>9, RowStep

\* The cancellation is recorded, whoever works on the row.
LEMMA WriteKeeps ==
  ASSUME IInv, NEW c \in Clients, Write(c)
  PROVE  IInv'
<1> USE DEF IInv, Typed, TypeOK
<1> PICK j \in Jobs : j = api[c].at
  BY DEF Write, RequestsFit, RequestFits, AtJob
<1>1. /\ TypeOK' /\ phase = "up" /\ UNCHANGED <<phase, run, doc, unmarked>>
      /\ \A e \in Clients \ {c} : api'[e] = api[e]
  BY RequestFootprint DEF Acts, Serve, Write
<1>2. /\ api[c].pc = "write" /\ api'[c].pc = "mark"
      /\ api'[c].op = api[c].op /\ api'[c].doc = api[c].doc /\ api'[c].mark = api[c].mark
      /\ api'[c].todo = api[c].todo /\ api'[c].at = j
  BY DEF Write, Api
<1>3. /\ job'[j].status = job[j].status /\ job'[j].doc = job[j].doc /\ job'[j].cancel
      /\ \A i \in Jobs \ {j} : job'[i] = job[i]
  BY DEF Write, Job
<1>4. \A i \in Jobs : Filing(i)' = Filing(i)
  BY <1>1, <1>2 DEF Filing
<1>5. JobFits(j) /\ CallFits(c) /\ RequestFits(c)
  BY DEF Safe, RequestsFit
<1>6. Dead(j)' = Dead(j) /\ (Spent(j) => Spent(j)')
  BY <1>1, <1>3, <1>4 DEF Dead, Spent, Doomed
<1>7. JobFits(j)'
  <2>1. ThreadFits(j)'
    BY <1>1, <1>3, <1>5 DEF JobFits, ThreadFits
  <2>2. StatusFits(j)'
    BY <1>1, <1>3, <1>5, <1>6 DEF JobFits, StatusFits
  <2>3. ChunksFit(j)'
    BY <1>1, <1>3, <1>4, <1>5 DEF JobFits, ChunksFit, DocOf
  <2> QED
    BY <2>1, <2>2, <2>3 DEF JobFits
<1>8. Holds(c, j)
  BY <1>1, <1>3, <1>6 DEF Holds
<1>9. CallFits(c)' /\ RequestFits(c)'
  BY <1>2, <1>3, <1>5 DEF CallFits, RequestFits, Signalled, AtJob
<1>10. CASE job[j].status # "none"
  BY <1>1, <1>2, <1>3, <1>7, <1>8, <1>9, <1>10, RowStep
<1>11. CASE job[j].status = "none"
  <2>1. \A i \in Jobs : JobFits(i)' /\ Holds(c, i)
    <3> SUFFICES ASSUME NEW i \in Jobs
                 PROVE  JobFits(i)' /\ Holds(c, i)
      OBVIOUS
    <3>1. CASE i # j
      BY <1>1, <1>3, <1>4, <3>1, OtherJob DEF Safe
    <3> QED
      BY <1>7, <1>8, <3>1
  <2>2. Filed'
    BY <1>1, <1>3 DEF Filed
  <2> QED
    BY <1>1, <1>2, <1>9, <2>1, <2>2, RequestFrame
<1> QED
  BY <1>10, <1>11

\* A queued job is withdrawn: nobody works on it, or who will has been told.
LEMMA WithdrawKeeps ==
  ASSUME IInv, NEW c \in Clients, Withdraw(c)
  PROVE  IInv'
<1> USE DEF IInv, Typed, TypeOK
<1> PICK j \in Jobs : j = api[c].at
  BY DEF Withdraw, RequestsFit, RequestFits, AtJob
<1>1. /\ TypeOK' /\ phase = "up" /\ UNCHANGED <<phase, run, doc, unmarked>>
      /\ \A e \in Clients \ {c} : api'[e] = api[e]
  BY RequestFootprint DEF Acts, Serve, Withdraw
<1>2. api[c].pc = "withdraw" /\ api' = Answered(c)
  BY DEF Withdraw
<1>3. api'[c].pc = "idle" /\ CallFits(c)' /\ RequestFits(c)'
  BY <1>2, AnsweredCall
<1>4. JobFits(j) /\ Spent(j) /\ job[j].status \notin {"COMPLETED", "none"}
  BY <1>2 DEF Safe, CallFits, RequestsFit, RequestFits, Signalled
<1>5. \A i \in Jobs : Filing(i)' = Filing(i)
  BY <1>1, <1>2, <1>3 DEF Filing
<1>6. CASE UNCHANGED job
  BY <1>1, <1>2, <1>3, <1>6, QuietStep
<1>7. CASE SetStatus(j, "CANCELLED")
  <2>1. /\ job'[j].status = "CANCELLED" /\ job'[j].doc = job[j].doc
        /\ job'[j].cancel = job[j].cancel
        /\ \A i \in Jobs \ {j} : job'[i] = job[i]
    BY <1>7, StatusTurns
  <2>2. Dead(j)' = Dead(j) /\ Spent(j)' = Spent(j)
    BY <1>1, <1>5, <2>1 DEF Dead, Spent, Doomed
  <2>3. JobFits(j)'
    <3>1. ThreadFits(j)'
      BY <1>1, <1>4, <2>1 DEF JobFits, ThreadFits
    <3>2. StatusFits(j)'
      BY <1>4, <2>1, <2>2 DEF StatusFits, Running
    <3>3. ChunksFit(j)'
      BY <1>1, <1>4, <1>5, <2>1 DEF JobFits, ChunksFit, DocOf
    <3> QED
      BY <3>1, <3>2, <3>3 DEF JobFits
  <2>4. Holds(c, j)
    BY <1>1, <2>1, <2>2 DEF Holds, Running
  <2> QED
    BY <1>1, <1>2, <1>3, <1>4, <2>1, <2>3, <2>4, RowStep
<1> QED
  BY <1>6, <1>7 DEF Withdraw

\* A job whose thread is told not to start.
LEMMA SkippedFits ==
  ASSUME NEW j \in Jobs, JobFits(j), Skippable(j), ~Filing(j), Filing(j)' = Filing(j),
         UNCHANGED <<job, doc, unmarked>>, run'[j].pc = "skipped", run'[j].want = run[j].want,
         run'[j].failing = run[j].failing
  PROVE  JobFits(j)' /\ Dead(j)'
<1>1. run[j].pc \in {"queued", "skipped"} /\ Dead(j)'
  BY DEF Skippable, Dead, Live, Threads, Registered, AwaitPoints
<1>2. ThreadFits(j)'
  BY <1>1 DEF JobFits, ThreadFits, Live, Threads, Working, Registered, AwaitPoints
<1>3. StatusFits(j)'
  BY <1>1 DEF JobFits, StatusFits, Spent, Threads, Registered, AwaitPoints
<1>4. ChunksFit(j)'
  <2>1. /\ run'[j].pc \notin Early /\ run'[j].pc \notin Registered
        /\ run[j].pc \notin Registered
    BY <1>1 DEF Early, Live, Threads, Registered, AwaitPoints
  <2> QED
    BY <1>1, <2>1 DEF JobFits, ChunksFit, DocOf
<1> QED
  BY <1>1, <1>2, <1>3, <1>4 DEF JobFits

\* A thread that has not started is told not to; else the request goes on to wait
\* for it.
LEMMA SignalKeeps ==
  ASSUME IInv, NEW c \in Clients, Signal(c)
  PROVE  IInv'
<1> USE DEF IInv, Typed, TypeOK
<1>1. /\ TypeOK' /\ phase = "up" /\ UNCHANGED <<phase, job, doc, unmarked>>
      /\ \A e \in Clients \ {c} : api'[e] = api[e]
  BY RequestFootprint DEF Acts, Serve, Signal
<1>2. CallFits(c) /\ RequestFits(c) /\ api[c] \in Api /\ api[c].pc = "signal"
  BY DEF Safe, RequestsFit, Signal
<1>3. ASSUME UNCHANGED run, api'[c].pc # "enqueue"
      PROVE  \A i \in Jobs : Dead(i)' = Dead(i) /\ Spent(i)' = Spent(i)
  <2>1. \A i \in Jobs : Filing(i)' = Filing(i)
    BY <1>1, <1>2, <1>3 DEF Filing
  <2> QED
    BY <1>1, <1>3, <2>1 DEF Dead, Spent, Doomed
<1>4. CASE api[c].todo = {}
  <2>1. UNCHANGED run /\ api' = [api EXCEPT ![c].pc = "finish"]
    BY <1>4 DEF Signal
  <2>2. /\ api'[c].pc = "finish" /\ api'[c].op = api[c].op /\ api'[c].doc = api[c].doc
        /\ api'[c].mark = api[c].mark /\ api'[c].todo = api[c].todo /\ api'[c].at = api[c].at
    BY <2>1 DEF Api
  <2>3. \A i \in Jobs : Dead(i)' = Dead(i) /\ Spent(i)' = Spent(i)
    BY <1>3, <2>1, <2>2
  <2>4. CallFits(c)' /\ RequestFits(c)'
    BY <1>1, <1>2, <1>4, <2>2, <2>3 DEF CallFits, RequestFits, Signalled, AtJob
  <2> QED
    BY <1>1, <1>2, <2>1, <2>2, <2>4, QuietStep
<1>5. CASE api[c].todo # {}
  <2>1. PICK j \in api[c].todo : j = CHOOSE k \in api[c].todo : TRUE
    BY <1>5
  <2>2. j \in Jobs /\ (api[c].op = "cancel" => j = api[c].at)
    BY <1>2 DEF Api, RequestFits
  <2>3. CASE UNCHANGED run /\ run[j].pc = "none" /\ api' = [api EXCEPT ![c].todo = api[c].todo \ {j}]
    <3>1. /\ api'[c].pc = "signal" /\ api'[c].op = api[c].op /\ api'[c].doc = api[c].doc
          /\ api'[c].mark = api[c].mark /\ api'[c].todo = api[c].todo \ {j}
          /\ api'[c].at = api[c].at
      BY <1>2, <2>3 DEF Api
    <3>2. \A i \in Jobs : Dead(i)' = Dead(i) /\ Spent(i)' = Spent(i)
      BY <1>3, <2>3, <3>1
    <3>3. api[c].op = "cancel" => Spent(j)
      BY <1>2, <2>2, <2>3 DEF CallFits, Spent, Doomed, Unheard
    <3>4. CallFits(c)' /\ RequestFits(c)'
      BY <1>1, <1>2, <2>2, <3>1, <3>2, <3>3 DEF CallFits, RequestFits, Signalled, AtJob
    <3> QED
      BY <1>1, <1>2, <2>3, <3>1, <3>4, QuietStep
  <2>4. CASE \E pc \in {"wait", "deliver"} :
               UNCHANGED run /\ api' = [api EXCEPT ![c] = [@ EXCEPT !.pc = pc, !.at = j]]
    <3>1. PICK pc \in {"wait", "deliver"} :
            UNCHANGED run /\ api' = [api EXCEPT ![c] = [@ EXCEPT !.pc = pc, !.at = j]]
      BY <2>4
    <3>2. /\ api'[c].pc = pc /\ api'[c].op = api[c].op /\ api'[c].doc = api[c].doc
          /\ api'[c].mark = api[c].mark /\ api'[c].todo = api[c].todo /\ api'[c].at = j
      BY <3>1 DEF Api
    <3>3. \A i \in Jobs : Dead(i)' = Dead(i) /\ Spent(i)' = Spent(i)
      BY <1>3, <3>1, <3>2
    <3>4. CallFits(c)' /\ RequestFits(c)'
      BY <1>1, <1>2, <2>2, <3>2, <3>3 DEF CallFits, RequestFits, Signalled, AtJob
    <3> QED
      BY <1>1, <1>2, <3>1, <3>2, <3>4, QuietStep
  <2>5. CASE /\ Skippable(j) /\ run' = [run EXCEPT ![j].pc = "skipped"]
             /\ api' = [api EXCEPT ![c].todo = api[c].todo \ {j}]
    <3>1. /\ api'[c].pc = "signal" /\ api'[c].op = api[c].op /\ api'[c].doc = api[c].doc
          /\ api'[c].mark = api[c].mark /\ api'[c].todo = api[c].todo \ {j}
          /\ api'[c].at = api[c].at
      BY <1>2, <2>5 DEF Api
    <3>2. /\ run'[j].pc = "skipped" /\ run'[j].want = run[j].want
          /\ run'[j].failing = run[j].failing
          /\ \A i \in Jobs \ {j} : run'[i] = run[i]
      BY <2>2, <2>5 DEF Run
    <3>3. \A i \in Jobs : Filing(i)' = Filing(i)
      BY <1>1, <1>2, <3>1 DEF Filing
    <3>4. ~Filing(j) /\ run[j].pc \in {"queued", "skipped"}
      BY <2>2, <2>5, FilingJob DEF Skippable
    <3>5. \A i \in Jobs : JobFits(i)
      BY DEF Safe
    <3>6. JobFits(j)' /\ Dead(j)'
      BY <1>1, <2>2, <2>5, <3>2, <3>3, <3>4, <3>5, SkippedFits
    <3>7. Spent(j)'
      BY <3>6 DEF Spent
    <3>8. Holds(c, j)
      <4>1. ~\E e \in Clients \ {c} : api[e].pc = "enqueue" /\ api[e].at = j
        BY <3>4 DEF Filing
      <4> QED
        BY <1>1, <3>6, <3>7, <4>1 DEF Holds
    <3>9. \A i \in Jobs : JobFits(i)' /\ Holds(c, i)
      <4> SUFFICES ASSUME NEW i \in Jobs
                   PROVE  JobFits(i)' /\ Holds(c, i)
        OBVIOUS
      <4>1. CASE i = j
        BY <3>6, <3>8, <4>1
      <4>2. CASE i # j
        BY <1>1, <3>2, <3>3, <3>5, <4>2, OtherJob
      <4> QED
        BY <4>1, <4>2
    <3>10. \A i \in Jobs : Dead(i) => Dead(i)'
      BY <3>2, <3>3, <3>6 DEF Dead
    <3>11. CallFits(c)' /\ RequestFits(c)'
      BY <1>1, <1>2, <2>2, <3>1, <3>7, <3>10 DEF CallFits, RequestFits, Signalled, AtJob
    <3>12. Filed'
      BY <1>1, <2>2, <3>2, <3>4 DEF Filed
    <3> QED
      BY <1>1, <3>1, <3>9, <3>11, <3>12, RequestFrame
  <2> QED
    BY <1>5, <2>1, <2>3, <2>4, <2>5, Zenon DEF Signal
<1> QED
  BY <1>4, <1>5

\* The thread hears of the cancellation, or is gone.
LEMMA DeliverKeeps ==
  ASSUME IInv, NEW c \in Clients, Deliver(c)
  PROVE  IInv'
<1> USE DEF IInv, Typed, TypeOK
<1> PICK j \in Jobs : j = api[c].at
  BY DEF Deliver, RequestsFit, RequestFits, AtJob
<1>1. /\ TypeOK' /\ phase = "up" /\ UNCHANGED <<phase, job, doc, unmarked>>
      /\ \A e \in Clients \ {c} : api'[e] = api[e]
  BY RequestFootprint DEF Acts, Serve, Deliver
<1>2. api[c].pc = "deliver" /\ CallFits(c) /\ RequestFits(c)
  BY DEF Deliver, Safe, RequestsFit
<1>3. CASE api' = Answered(c) /\ UNCHANGED run
  <2>1. api'[c].pc = "idle" /\ CallFits(c)' /\ RequestFits(c)'
    BY <1>3, AnsweredCall
  <2> QED
    BY <1>1, <1>2, <1>3, <2>1, QuietStep
<1>4. CASE run[j].pc \in AwaitPoints
  <2>1. /\ run[j].pc \in AwaitPoints
        /\ \E p : run' = [run EXCEPT ![j] = [@ EXCEPT
                    !.seen = job[j].version, !.saw = job[j].cancel, !.proc = p]]
        /\ api' = [api EXCEPT ![c].pc = "wait"]
    <3>1. ~Dropped(j)
      BY <1>4 DEF Dropped, Registered
    <3> QED
      BY <1>4, <3>1, Zenon DEF Deliver
  <2>2. /\ run'[j].pc = run[j].pc /\ run'[j].want = run[j].want
        /\ run'[j].failing = run[j].failing /\ run'[j].saw = job[j].cancel
        /\ \A i \in Jobs \ {j} : run'[i] = run[i]
    BY <2>1 DEF Run
  <2>3. /\ api'[c].pc = "wait" /\ api'[c].op = api[c].op /\ api'[c].doc = api[c].doc
        /\ api'[c].mark = api[c].mark /\ api'[c].todo = api[c].todo /\ api'[c].at = j
    BY <2>1 DEF Api
  <2>4. \A i \in Jobs : Filing(i)' = Filing(i)
    BY <1>1, <1>2, <2>3 DEF Filing
  <2>5. \A i \in Jobs : JobFits(i)
    BY DEF Safe
  <2>6. Dead(j)' = Dead(j) /\ (Spent(j) => Spent(j)')
    BY <1>1, <2>2, <2>4 DEF Dead, Spent, Doomed
  <2>7. JobFits(j)'
    <3>1. ThreadFits(j)'
      BY <1>1, <2>2, <2>5 DEF JobFits, ThreadFits
    <3>2. StatusFits(j)'
      BY <1>1, <2>2, <2>5, <2>6 DEF JobFits, StatusFits
    <3>3. ChunksFit(j)'
      BY <1>1, <2>2, <2>4, <2>5 DEF JobFits, ChunksFit, DocOf
    <3> QED
      BY <3>1, <3>2, <3>3 DEF JobFits
  <2>8. Holds(c, j)
    BY <1>1, <2>2, <2>6 DEF Holds
  <2>9. \A i \in Jobs : JobFits(i)' /\ Holds(c, i)
    <3> SUFFICES ASSUME NEW i \in Jobs
                 PROVE  JobFits(i)' /\ Holds(c, i)
      OBVIOUS
    <3>1. CASE i = j
      BY <2>7, <2>8, <3>1
    <3>2. CASE i # j
      BY <1>1, <2>2, <2>4, <2>5, <3>2, OtherJob
    <3> QED
      BY <3>1, <3>2
  <2>10. CallFits(c)' /\ RequestFits(c)'
    BY <1>1, <1>2, <2>3, <2>6 DEF CallFits, RequestFits, Signalled, AtJob
  <2>11. Filed'
    BY <1>1, <2>2 DEF Filed
  <2> QED
    BY <1>1, <2>3, <2>9, <2>10, <2>11, RequestFrame
<1>5. ASSUME NEW next \in {"wait", "lost"}, UNCHANGED run, api' = [api EXCEPT ![c].pc = next]
      PROVE  IInv'
  <2>1. /\ api'[c].pc = next /\ api'[c].op = api[c].op /\ api'[c].doc = api[c].doc
        /\ api'[c].mark = api[c].mark /\ api'[c].todo = api[c].todo /\ api'[c].at = j
    BY <1>5 DEF Api
  <2>2. \A i \in Jobs : Filing(i)' = Filing(i)
    BY <1>1, <1>2, <2>1 DEF Filing
  <2>3. \A i \in Jobs : Dead(i)' = Dead(i)
    BY <1>1, <1>5, <2>2 DEF Dead
  <2>4. CallFits(c)' /\ RequestFits(c)'
    BY <1>1, <1>2, <2>1, <2>3 DEF CallFits, RequestFits, Signalled, AtJob
  <2> QED
    BY <1>1, <1>2, <1>5, <2>1, <2>4, QuietStep
<1> QED
  BY <1>3, <1>4, <1>5, Zenon DEF Deliver

LEMMA RequestSafe ==
  ASSUME IInv, NEW c \in Clients, Acts(c)
  PROVE  IInv'
BY CreateKeeps, QuietRequest, QuietServe, EnqueueKeeps, RequeueKeeps, WriteKeeps,
   WithdrawKeeps, SignalKeeps, DeliverKeeps, Zenon DEF Acts, Request, Serve

-----------------------------------------------------------------------------
(***************************************************************************)
(* Shutdown and restart                                                    *)
(***************************************************************************)

\* When nobody waits for an answer only the jobs matter.
LEMMA IdleFrame ==
  ASSUME IInv, TypeOK', Filed', UNCHANGED api, \A c \in Clients : api[c].pc = "idle",
         \A i \in Jobs : job[i].status # "none" => job'[i].status # "none",
         \A i \in Jobs : JobFits(i)', PhaseFits'
  PROVE  IInv'
<1>1. \A c \in Clients : RequestFits(c)'
  BY DEF IInv, Typed, RequestsFit, RequestFits, AtJob
<1>2. \A c \in Clients : CallFits(c)'
  BY DEF CallFits, Signalled
<1>3. OneEnqueue'
  BY DEF OneEnqueue
<1> QED
  BY <1>1, <1>2, <1>3 DEF IInv, Typed, Safe, RequestsFit

LEMMA ShutdownBeginKeeps ==
  ASSUME IInv, ShutdownBegin
  PROVE  IInv'
<1> USE DEF IInv, Typed, TypeOK
<1>1. /\ UNCHANGED <<doc, job, api, unmarked>> /\ phase' = "marking"
      /\ pending' = {j \in Jobs : Skippable(j)}
      /\ \A c \in Clients : api[c].pc = "idle"
      /\ run' = [j \in Jobs |-> IF Skippable(j) THEN [run[j] EXCEPT !.pc = "skipped"]
                                 ELSE run[j]]
  BY DEF ShutdownBegin
<1>2. ASSUME NEW i \in Jobs, Skippable(i)
      PROVE  /\ run'[i] \in Run /\ run'[i].pc = "skipped" /\ run'[i].want = run[i].want
             /\ run'[i].failing = run[i].failing
  BY <1>1, <1>2 DEF Run, RunPCs
<1>3. ASSUME NEW i \in Jobs, ~Skippable(i)
      PROVE  run'[i] = run[i]
  BY <1>1, <1>3
<1>4. TypeOK'
  <2>1. \A i \in Jobs : run'[i] \in Run
    BY <1>2, <1>3
  <2> QED
    BY <1>1, <2>1
<1>5. Filed'
  BY <1>1, <1>2, <1>3 DEF Filed, Skippable
<1>6. \A i \in Jobs : ~Filing(i) /\ Filing(i)' = Filing(i)
  BY <1>1 DEF Filing
<1>7. \A i \in Jobs : JobFits(i)'
  <2> SUFFICES ASSUME NEW i \in Jobs
               PROVE  JobFits(i)'
    OBVIOUS
  <2>1. JobFits(i)
    BY DEF Safe
  <2>2. CASE Skippable(i)
    BY <1>1, <1>2, <1>6, <2>1, <2>2, SkippedFits
  <2>3. CASE ~Skippable(i)
    BY <1>1, <1>3, <1>6, <2>1, <2>3, OtherJob
  <2> QED
    BY <2>2, <2>3
<1>8. PhaseFits'
  BY <1>1, <1>2 DEF PhaseFits
<1> QED
  BY <1>1, <1>4, <1>5, <1>7, <1>8, IdleFrame

LEMMA InterruptedRow ==
  ASSUME job \in [Jobs -> Job], NEW j \in Jobs, job' = Interrupted(j)
  PROVE  /\ job' \in [Jobs -> Job]
         /\ job'[j].status = IF job[j].status \in Active THEN "INTERRUPTED" ELSE job[j].status
         /\ job'[j].doc = job[j].doc
         /\ \A k \in Jobs \ {j} : job'[k] = job[k]
<1>1. CASE job[j].status \in Active
  <2>1. SetStatus(j, "INTERRUPTED")
    BY <1>1 DEF Interrupted, SetStatus
  <2>2. "INTERRUPTED" \in Statuses
    BY DEF Statuses, Retryable
  <2>3. job' \in [Jobs -> Job]
    BY <2>1, <2>2, StatusType
  <2> QED
    BY <1>1, <2>1, <2>3 DEF SetStatus, Job
<1>2. CASE job[j].status \notin Active
  BY <1>2 DEF Interrupted
<1> QED
  BY <1>1, <1>2

LEMMA ShutdownKeeps ==
  ASSUME IInv, Shutdown
  PROVE  IInv'
<1> USE DEF IInv, Typed, TypeOK
<1>1. /\ UNCHANGED <<doc, api, unmarked>> /\ phase # "up"
  BY DEF Shutdown, Marked, Exit, MarkInterrupted, StopProcess
<1>2. \A c \in Clients : api[c].pc = "idle"
  BY <1>1 DEF Safe, PhaseFits
<1>3. \A i \in Jobs : JobFits(i) /\ ~Filing(i) /\ Filing(i)' = Filing(i)
  BY <1>1, <1>2 DEF Safe, Filing
<1>4. CASE Marked \/ Exit
  <2>1. /\ UNCHANGED <<job, run>> /\ phase' \in {"stopping", "down"} /\ pending' \subseteq Jobs
    BY <1>4 DEF Marked, Exit
  <2>2. \A i \in Jobs : JobFits(i)'
    BY <1>1, <1>3, <2>1, OtherJob
  <2>3. TypeOK' /\ Filed' /\ PhaseFits'
    BY <1>1, <1>2, <2>1 DEF Filed, PhaseFits
  <2> QED
    BY <1>1, <1>2, <2>1, <2>2, <2>3, IdleFrame
<1>5. ASSUME NEW j \in Jobs, MarkInterrupted(j), UNCHANGED job
      PROVE  IInv'
  <2>1. UNCHANGED <<run, phase>> /\ pending' \subseteq pending
    BY <1>5 DEF MarkInterrupted
  <2>2. \A i \in Jobs : JobFits(i)'
    BY <1>1, <1>3, <1>5, <2>1, OtherJob
  <2>3. TypeOK' /\ Filed' /\ PhaseFits'
    BY <1>1, <1>2, <1>5, <2>1 DEF Filed, Safe, PhaseFits
  <2> QED
    BY <1>1, <1>2, <1>5, <2>2, <2>3, IdleFrame
<1>6. ASSUME NEW j \in Jobs, MarkInterrupted(j), job' = Interrupted(j)
      PROVE  IInv'
  <2>1. /\ UNCHANGED <<run, phase>> /\ pending' \subseteq pending
        /\ job' = Interrupted(j) /\ run[j].pc \in {"skipped", "none"}
    BY <1>6 DEF MarkInterrupted, Safe, PhaseFits
  <2>2. /\ job' \in [Jobs -> Job]
        /\ job'[j].status = IF job[j].status \in Active THEN "INTERRUPTED" ELSE job[j].status
        /\ job'[j].doc = job[j].doc
        /\ \A k \in Jobs \ {j} : job'[k] = job[k]
    BY <2>1, InterruptedRow
  <2>3. job'[j].status \in {"INTERRUPTED", job[j].status}
        /\ job'[j].status \notin Running /\ (job[j].status = "none" <=> job'[j].status = "none")
    BY <2>2 DEF Active, Running
  <2>4. JobFits(j)'
    <3>1. run[j].pc \notin Live /\ run[j].pc \notin Registered
      BY <2>1 DEF Live, Threads, Registered, AwaitPoints
    <3>2. ThreadFits(j)'
      BY <1>3, <2>1, <3>1 DEF JobFits, ThreadFits, Working
    <3>3. StatusFits(j)'
      BY <1>3, <2>1, <2>3, <3>1 DEF StatusFits, Spent, Dead
    <3>4. ChunksFit(j)'
      BY <1>1, <1>3, <2>1, <2>2, <2>3, <3>1 DEF JobFits, ChunksFit, DocOf, Early
    <3> QED
      BY <3>2, <3>3, <3>4 DEF JobFits
  <2>5. \A i \in Jobs \ {j} : JobFits(i)'
    BY <1>1, <1>3, <2>1, <2>2, OtherJob
  <2>6. TypeOK' /\ Filed' /\ PhaseFits'
    BY <1>1, <1>2, <2>1, <2>2, <2>3 DEF Filed, Safe, PhaseFits
  <2>7. \A i \in Jobs : job[i].status # "none" => job'[i].status # "none"
    BY <2>2, <2>3
  <2> QED
    BY <1>1, <1>2, <2>4, <2>5, <2>6, <2>7, IdleFrame
<1>7. ASSUME NEW j \in Jobs, StopProcess(j)
      PROVE  IInv'
  <2>1. /\ UNCHANGED job /\ phase' \in {"stopping", "hung"} /\ pending' \subseteq Jobs
        /\ \/ UNCHANGED run
           \/ run' = [run EXCEPT ![j].proc = "stopped"]
    BY <1>7 DEF StopProcess
  <2>2. /\ run' \in [Jobs -> Run]
        /\ run'[j].pc = run[j].pc /\ run'[j].want = run[j].want
        /\ run'[j].failing = run[j].failing /\ run'[j].saw = run[j].saw
        /\ \A i \in Jobs \ {j} : run'[i] = run[i]
    BY <2>1 DEF Run
  <2>3. Spent(j)' = Spent(j)
    BY <1>3, <2>1, <2>2 DEF Spent, Dead, Doomed
  <2>4. JobFits(j)'
    <3>1. ThreadFits(j)'
      BY <1>3, <2>1, <2>2 DEF JobFits, ThreadFits
    <3>2. StatusFits(j)'
      BY <1>1, <1>3, <2>1, <2>2, <2>3 DEF JobFits, StatusFits
    <3>3. ChunksFit(j)'
      BY <1>1, <1>3, <2>1, <2>2 DEF JobFits, ChunksFit, DocOf
    <3> QED
      BY <3>1, <3>2, <3>3 DEF JobFits
  <2>5. \A i \in Jobs \ {j} : JobFits(i)'
    BY <1>1, <1>3, <2>1, <2>2, OtherJob
  <2>6. TypeOK' /\ Filed' /\ PhaseFits'
    BY <1>1, <1>2, <2>1, <2>2 DEF Filed, PhaseFits
  <2> QED
    BY <1>1, <1>2, <2>1, <2>4, <2>5, <2>6, IdleFrame
<1> QED
  BY <1>4, <1>5, <1>6, <1>7 DEF Shutdown, MarkInterrupted

LEMMA RestartKeeps ==
  ASSUME IInv, Restart
  PROVE  IInv'
<1> USE DEF IInv, Typed, TypeOK
<1>1. /\ UNCHANGED doc /\ phase' = "up" /\ pending' = {} /\ unmarked' = {}
      /\ run' = [j \in Jobs |-> NoRun] /\ api' = [c \in Clients |-> NoApi]
  BY DEF Restart
<1>2. ASSUME NEW i \in Jobs
      PROVE  /\ job'[i] \in Job
             /\ job'[i].status = IF job[i].status \in Running \cup {"QUEUED"} THEN "INTERRUPTED"
                                 ELSE job[i].status
             /\ job'[i].doc = job[i].doc
  <2>1. job[i] \in Job /\ "INTERRUPTED" \in Statuses /\ job[i].version + 1 \in Nat
    BY DEF Job, Statuses, Retryable
  <2>2. [job[i] EXCEPT !.status = "INTERRUPTED", !.version = job[i].version + 1] \in Job
    BY <2>1, Zenon DEF Job
  <2>3. job'[i] = IF job[i].status \in Running \cup {"QUEUED"}
                    THEN [job[i] EXCEPT !.status = "INTERRUPTED",
                                        !.version = job[i].version + 1]
                    ELSE job[i]
    BY DEF Restart
  <2> QED
    BY <2>1, <2>2, <2>3 DEF Job
<1>3. job' \in [Jobs -> Job]
  BY <1>2 DEF Restart
<1>4. /\ \A i \in Jobs : run'[i].pc = "none" /\ run'[i].want = "COMPLETED" /\ ~run'[i].failing
      /\ \A c \in Clients : api'[c].pc = "idle" /\ api'[c].op = "none"
  BY <1>1 DEF NoRun, NoApi
<1>5. TypeOK'
  BY <1>1, <1>3, Blank
<1>6. Filed'
  BY <1>2, <1>4 DEF Filed, Running
<1>7. RequestsFit'
  BY <1>4 DEF RequestsFit, RequestFits, AtJob
<1>8. \A i \in Jobs : JobFits(i)'
  <2> SUFFICES ASSUME NEW i \in Jobs
               PROVE  JobFits(i)'
    OBVIOUS
  <2>1. ~Filing(i)'
    BY <1>4 DEF Filing
  <2>2. run'[i].pc \notin Live /\ run'[i].pc \notin Registered
    BY <1>4 DEF Live, Threads, Registered, AwaitPoints
  <2>3. /\ job'[i].status \notin Running
        /\ job'[i].status = "none" => job[i].status = "none"
        /\ job'[i].status = "COMPLETED" => job[i].status = "COMPLETED"
    BY <1>2 DEF Running
  <2>4. ThreadFits(i)'
    BY <1>4, <2>2 DEF ThreadFits, Working
  <2>5. StatusFits(i)'
    BY <2>1, <2>2, <2>3 DEF StatusFits, Spent, Dead
  <2>6. ChunksFit(i)'
    BY <1>1, <1>2, <2>1, <2>2, <2>3 DEF Safe, JobFits, ChunksFit, DocOf, Early
  <2> QED
    BY <2>4, <2>5, <2>6 DEF JobFits
<1>9. \A c \in Clients : CallFits(c)'
  BY <1>4 DEF CallFits, Signalled
<1>10. OneEnqueue' /\ PhaseFits'
  BY <1>1, <1>4 DEF OneEnqueue, PhaseFits
<1> QED
  BY <1>5, <1>6, <1>7, <1>8, <1>9, <1>10 DEF Safe

-----------------------------------------------------------------------------
(***************************************************************************)
(* The theorems                                                            *)
(***************************************************************************)

LEMMA InitIInv ==
  ASSUME Init
  PROVE  IInv
<1> USE DEF Init
<1>1. TypeOK
  <2>1. [state |-> "absent", chunks |-> None, index |-> None] \in Doc
    BY DEF Doc
  <2>2. [status |-> "none", doc |-> None, cancel |-> FALSE, version |-> 0, blocks |-> FALSE]
          \in Job
    BY DEF Job, Statuses
  <2> QED
    BY <2>1, <2>2, Blank DEF TypeOK
<1>2. /\ \A j \in Jobs : /\ run[j].pc = "none" /\ run[j].want = "COMPLETED" /\ ~run[j].failing
                         /\ job[j].status = "none"
      /\ \A c \in Clients : api[c].pc = "idle" /\ api[c].op = "none"
      /\ \A d \in Docs : doc[d].chunks = None
  BY DEF NoRun, NoApi
<1>3. Filed /\ RequestsFit
  BY <1>2 DEF Filed, RequestsFit, RequestFits, AtJob
<1>4. ASSUME NEW j \in Jobs
      PROVE  JobFits(j)
  <2>1. run[j].pc \notin Live /\ run[j].pc \notin Registered
    BY <1>2 DEF Live, Threads, Registered, AwaitPoints
  <2>2. ThreadFits(j)
    BY <1>2, <2>1 DEF ThreadFits, Working
  <2>3. StatusFits(j)
    BY <1>2 DEF StatusFits, Running
  <2>4. ChunksFit(j)
    BY <1>2, ImportAssumption DEF ChunksFit
  <2> QED
    BY <2>2, <2>3, <2>4 DEF JobFits
<1>5. \A c \in Clients : CallFits(c)
  BY <1>2 DEF CallFits, Signalled
<1>6. OneEnqueue /\ PhaseFits
  BY <1>2 DEF OneEnqueue, PhaseFits
<1> QED
  BY <1>1, <1>3, <1>4, <1>5, <1>6 DEF IInv, Typed, Safe

LEMMA StutterKeeps ==
  ASSUME IInv, UNCHANGED vars
  PROVE  IInv'
BY DEF IInv, Typed, TypeOK, Filed, RequestsFit, RequestFits, Safe, JobFits, ThreadFits,
       StatusFits, ChunksFit, Spent, Dead, Doomed, Filing, DocOf, CallFits, Signalled,
       OneEnqueue, PhaseFits, vars

LEMMA NextKeeps ==
  ASSUME IInv, [Next]_vars
  PROVE  IInv'
BY ThreadSafe, RequestSafe, ShutdownBeginKeeps, ShutdownKeeps, RestartKeeps, StutterKeeps
   DEF Next, Works, Acts

LEMMA Invariant == Spec => []IInv
<1>1. Init => IInv
  BY InitIInv
<1>2. IInv /\ [Next]_vars => IInv'
  BY NextKeeps
<1> QED
  BY <1>1, <1>2, PTL DEF Spec

\* Every variable keeps its shape: a thread works on a row that is there, and so
\* does a request.
THEOREM TypeCorrect == Spec => []TypeOK
<1>1. IInv => TypeOK
  BY DEF IInv, Typed
<1> QED
  BY <1>1, Invariant, PTL

\* No thread leaves a job behind that says it is being worked on, but for a job
\* whose interruption could not be recorded.
THEOREM ActiveIsWorkedOn == Spec => []ActiveHasWorker
<1>1. IInv => ActiveHasWorker
  BY DEF IInv, Safe, JobFits, StatusFits, ActiveHasWorker
<1> QED
  BY <1>1, Invariant, PTL

\* The chunks of a completed job that are stored are the ones the search finds.
THEOREM CompletedIsIndexed == Spec => []CompletedIsSearchable
<1>1. IInv => CompletedIsSearchable
  <2> SUFFICES ASSUME IInv, NEW j \in Jobs, job[j].status = "COMPLETED", Present(DocOf(j)),
                      doc[DocOf(j)].chunks = j
               PROVE  doc[DocOf(j)].index = j
    BY DEF CompletedIsSearchable
  <2>1. DocOf(j) \in Docs
    BY DEF IInv, Typed, Filed, DocOf
  <2> QED
    BY <2>1 DEF IInv, Safe, JobFits, ChunksFit, Present
<1> QED
  BY <1>1, Invariant, PTL

\* What a step does to the rows.
Moves(j) ==
  /\ MayBecome(StageOf(job[j].status), StageOf(job'[j].status))
  /\ \A k \in Jobs \ {j} : job'[k].status = job[k].status

LEMMA ThreadMoves ==
  ASSUME IInv, NEW j \in Jobs, Works(j)
  PROVE  Moves(j)
BY ThreadSafe, ThreadFootprint DEF Moves, Keeps, IInv, Typed

LEMMA RequestMoves ==
  ASSUME IInv, NEW c \in Clients, Acts(c)
  PROVE  (\A k \in Jobs : job'[k].status = job[k].status) \/ \E j \in Jobs : Moves(j)
<1> USE DEF IInv, Typed, TypeOK
<1>1. ASSUME NEW d \in Docs, NEW op, Create(c, d, op)
      PROVE  \E j \in Jobs : Moves(j)
  <2>1. PICK j \in Jobs :
          /\ job[j].status = "none"
          /\ job' = [job EXCEPT ![j] = [@ EXCEPT !.status = "QUEUED", !.doc = d]]
    BY <1>1, Zenon DEF Create
  <2>2. /\ job'[j].status = "QUEUED"
        /\ \A k \in Jobs \ {j} : job'[k] = job[k]
    BY <2>1 DEF Job
  <2> QED
    BY <2>1, <2>2 DEF Moves, MayBecome, StageOf, Running
<1>2. CASE Requeue(c)
  <2>1. PICK j \in Jobs : j = api[c].at
    BY <1>2 DEF Requeue, RequestsFit, RequestFits, AtJob
  <2>2. /\ job'[j].status = "QUEUED"
        /\ \A k \in Jobs \ {j} : job'[k] = job[k]
    BY <1>2, <2>1 DEF Requeue, Job
  <2>3. /\ job[j].status \notin {"COMPLETED", "none"} /\ job[j].status \notin Running
        /\ job[j].status \in Statuses
    BY <1>2, <2>1 DEF Requeue, Safe, CallFits, Job
  <2> QED
    BY <2>2, <2>3 DEF Moves, MayBecome, StageOf, Running, Statuses, Active, Settled, Retryable
<1>3. CASE Write(c)
  BY <1>3 DEF Write, RequestsFit, RequestFits, AtJob, Job
<1>4. CASE Withdraw(c)
  <2>1. PICK j \in Jobs : j = api[c].at
    BY <1>4 DEF Withdraw, RequestsFit, RequestFits, AtJob
  <2>2. CASE UNCHANGED job
    BY <2>2
  <2>3. CASE SetStatus(j, "CANCELLED")
    <3>1. /\ job'[j].status = "CANCELLED"
          /\ \A k \in Jobs \ {j} : job'[k] = job[k]
      BY <2>3, StatusTurns
    <3>2. job[j].status \notin {"COMPLETED", "none"} /\ job[j].status \in Statuses
      BY <1>4, <2>1 DEF Withdraw, Safe, CallFits, RequestsFit, RequestFits, Job
    <3> QED
      BY <3>1, <3>2
         DEF Moves, MayBecome, StageOf, Running, Statuses, Active, Settled, Retryable
  <2> QED
    BY <1>4, <2>1, <2>2, <2>3 DEF Withdraw
<1>5. CASE UNCHANGED job
  BY <1>5
<1> QED
  BY <1>1, <1>2, <1>3, <1>4, <1>5
     DEF Acts, Request, Serve, Import, Rebuild, Delete, Purge, Restore, Retry, Cancel, Enqueue,
         List, Mark, Signal, Deliver, Wait, Finish, Answer, Reread, RequestFails

Stages == [j \in Jobs |-> StageOf(job[j].status)]

LEMMA MovesStep ==
  ASSUME NEW j \in Jobs, Moves(j)
  PROVE  Lifecycle!Next \/ UNCHANGED Stages
<1> DEFINE a == StageOf(job[j].status)
           b == StageOf(job'[j].status)
<1>1. Stages' = [Stages EXCEPT ![j] = b] /\ Stages[j] = a
  BY DEF Stages, Moves
<1>2. MayBecome(a, b)
  BY DEF Moves
<1>3. CASE a = b
  BY <1>1, <1>3 DEF Stages
<1>4. CASE a # b
  <2>1. Lifecycle!Step(j, a, b)
    BY <1>1 DEF Lifecycle!Step, Stages
  <2> HIDE DEF a, b
  <2> QED
    BY <1>2, <1>4, <2>1
       DEF MayBecome, Lifecycle!Next, Lifecycle!File, Lifecycle!Run, Lifecycle!Complete,
           Lifecycle!Cancel, Lifecycle!Park, Lifecycle!Requeue
<1> QED
  BY <1>3, <1>4

LEMMA NextMoves ==
  ASSUME IInv, [Next]_vars
  PROVE  Lifecycle!Next \/ UNCHANGED Stages
<1>1. ASSUME NEW j \in Jobs, Works(j)
      PROVE  Lifecycle!Next \/ UNCHANGED Stages
  BY <1>1, ThreadMoves, MovesStep
<1>2. ASSUME \A k \in Jobs : job'[k].status = job[k].status
      PROVE  UNCHANGED Stages
  BY <1>2 DEF Stages
<1>3. ASSUME NEW c \in Clients, Acts(c)
      PROVE  Lifecycle!Next \/ UNCHANGED Stages
  BY <1>2, <1>3, RequestMoves, MovesStep
<1>4. CASE ShutdownBegin
  BY <1>2, <1>4 DEF ShutdownBegin
<1>5. CASE Shutdown
  <2>1. CASE UNCHANGED job
    BY <1>2, <2>1
  <2>2. ASSUME NEW j \in Jobs, MarkInterrupted(j), job' = Interrupted(j)
        PROVE  Moves(j)
    <3>1. /\ job'[j].status = IF job[j].status \in Active THEN "INTERRUPTED" ELSE job[j].status
          /\ \A k \in Jobs \ {j} : job'[k] = job[k]
      BY <2>2, InterruptedRow DEF MarkInterrupted, IInv, Typed, TypeOK
    <3> QED
      BY <3>1 DEF Moves, MayBecome, StageOf, Running, Active
  <2> QED
    BY <1>5, <2>1, <2>2, MovesStep DEF Shutdown, Marked, Exit, StopProcess, MarkInterrupted
<1>6. CASE Restart
  <2>1. \A i \in Jobs :
          job'[i].status = IF job[i].status \in Running \cup {"QUEUED"} THEN "INTERRUPTED"
                           ELSE job[i].status
    BY <1>6 DEF Restart, IInv, Typed, TypeOK, Job
  <2>2. \A i \in Jobs : Stages'[i] = IF Stages[i] \in {"waiting", "running"} THEN "parked"
                                      ELSE Stages[i]
    BY <2>1 DEF Stages, StageOf, Running
  <2>3. Lifecycle!Interrupt
    BY <2>2 DEF Lifecycle!Interrupt, Stages
  <2> QED
    BY <2>3 DEF Lifecycle!Next
<1>7. CASE UNCHANGED vars
  BY <1>2, <1>7 DEF vars
<1> QED
  BY <1>1, <1>3, <1>4, <1>5, <1>6, <1>7 DEF Next, Works, Acts

\* Whoever writes a row, a thread, a request that was under way, shutdown or the next
\* start, moves it as JobLifecycle says: only a running job completes, and a
\* completed one stays so.
THEOREM JobsLiveAsPromised == Spec => ImplementsLifecycle
<1>1. Init => Lifecycle!Init
  BY DEF Init, Lifecycle!Init, StageOf, Running
<1>2. IInv /\ [Next]_vars => [Lifecycle!Next]_Stages
  BY NextMoves
<1> QED
  BY <1>1, <1>2, Invariant, PTL DEF Spec, ImplementsLifecycle, Lifecycle!Spec, Stages
=============================================================================
