----------------------------- MODULE KnowledgeProofs -----------------------------
(***************************************************************************)
(* Proofs about KnowledgeLibrary: every variable keeps its shape, the text *)
(* of a purged file is in no answer of a search, what was imported stays   *)
(* reachable and a prompt has only text that was meant for it.  At the     *)
(* end, about SemanticIndex: what was published last is served.            *)
(***************************************************************************)
EXTENDS KnowledgeLibrary, SemanticIndex, TLAPS

-----------------------------------------------------------------------------
(* The invariant *)

\* What a request is about, at each of its places.
Deletion == {"trash", "purge"}

Placed(q) ==
  /\ q.pc \in {"require", "prepare", "wait", "finalize", "unlink"} <=> q.op \in Deletion
  /\ q.op \in Deletion => q.doc \in DocIds
  /\ q.pc \in {"require", "unlink"} => q.op = "purge"
  /\ q.pc = "validate" => q.op = "import"
  /\ q.pc \in {"mode", "search", "prompt"} => q.op = "ask"
  /\ q.op = "import" => /\ \E c \in ColIds : q.cols = {c}
                        /\ q.file \in Files
                        /\ q.doc = 0 => ~q.seen.linked

RequestsFit == \A r \in Clients : Placed(req[r])

\* A file has one row.
OneRow == \A d, e \in DocIds : Exists(d) /\ doc[d].file = doc[e].file => d = e

\* The index has rows of existing documents only, ...
IndexOfRows == \A d \in fts : Exists(d)

\* A purged file has no row.
GoneHasNoRow == \A f \in gone : RowOf(f) = {}

Running == {"parsing", "indexing", "chunked"}

\* The index rows of a document that is there are of its own file ...
IndexIsOwn == \A d \in fts : Exists(d) => chunk[d] = doc[d].file

\* ... and so is what a running job has read and written, ...
JobIsOwn ==
  \A j \in Jobs : job[j].pc \in Running /\ Exists(job[j].doc) =>
    /\ job[j].text = doc[job[j].doc].file
    /\ job[j].pc = "chunked" => chunk[job[j].doc] = job[j].text

Own == IndexIsOwn /\ JobIsOwn

\* ... and a running job is about one, unless a purge met a job.
JobHasRow == \A j \in Jobs : job[j].pc \in Running => Exists(job[j].doc)

Inv ==
  /\ OneRow /\ GoneHasNoRow
  /\ raced \/ (JobHasRow /\ IndexOfRows)
  /\ (raced /\ reused) \/ Own

-----------------------------------------------------------------------------
(* Every variable keeps its shape *)

\* A request of this value.
Fits(q) == q \in Request /\ Placed(q)

ReqFits == req \in [Clients -> Request] /\ RequestsFit

LEMMA ReqFitsIs ==
  ReqFits <=> req \in [Clients -> Request] /\ \A r \in Clients : Fits(req[r])
  BY DEF ReqFits, RequestsFit, Fits

LEMMA NoReqFits == Fits(NoReq)
  BY DEF Fits, Placed, Deletion, NoReq, Request, Modes

LEMMA OneRequest ==
  ASSUME ReqFits, NEW r \in Clients, NEW q, Fits(q), req' = [req EXCEPT ![r] = q]
  PROVE  ReqFits'
  <1>1. q \in Request BY DEF Fits
  <1>2. req' \in [Clients -> Request] BY <1>1 DEF ReqFits
  <1>3. ASSUME NEW s \in Clients PROVE Fits(req[s]')
    <2>1. CASE s = r BY <2>1 DEF ReqFits, Fits
    <2>2. CASE s # r
      <3>1. req[s]' = req[s] BY <2>2 DEF ReqFits
      <3> QED BY <3>1, ReqFitsIs
    <2> QED BY <2>1, <2>2
  <1> QED BY <1>2, <1>3 DEF ReqFits, RequestsFit, Fits

LEMMA TouchedFits ==
  ASSUME NEW q, Fits(q), NEW b \in BOOLEAN PROVE Fits([q EXCEPT !.touched = b])
  BY DEF Fits, Placed, Deletion, Request

\* A request that goes on to its next place.
LEMMA MovedFits ==
  ASSUME NEW q, Fits(q), NEW p \in Request,
         p.op = q.op, p.doc = q.doc, p.cols = q.cols, p.seen = q.seen,
         p.file = q.file \/ q.op \in Deletion,
         \/ q.op = "import" /\ p.pc \in {"look", "save"}
         \/ q.op \in Deletion /\ p.pc \in {"prepare", "wait", "finalize"}
         \/ q.op = "purge" /\ p.pc = "unlink"
         \/ q.op = "save" /\ p.pc = "save"
         \/ q.op = "ask" /\ p.pc \in {"search", "prompt"}
  PROVE  Fits(p)
  <1>1. p.op \in Deletion => p.doc \in DocIds BY DEF Fits, Placed
  <1>2. p.op = "import" =>
          /\ \E c \in ColIds : p.cols = {c}
          /\ p.file \in Files
          /\ p.doc = 0 => ~p.seen.linked
    BY DEF Fits, Placed, Deletion
  <1> QED BY <1>1, <1>2 DEF Fits, Placed, Deletion

LEMMA PlaceFits ==
  ASSUME NEW q, Fits(q), NEW pc,
         \/ q.op = "import" /\ pc \in {"look", "save"}
         \/ q.op \in Deletion /\ pc \in {"prepare", "wait", "finalize"}
         \/ q.op = "purge" /\ pc = "unlink"
         \/ q.op = "save" /\ pc = "save"
         \/ q.op = "ask" /\ pc \in {"search", "prompt"}
  PROVE  Fits([q EXCEPT !.pc = pc])
  <1> DEFINE p == [q EXCEPT !.pc = pc]
  <1>1. q \in Request BY DEF Fits
  <1>2. p \in Request BY <1>1 DEF Request
  <1>3. p.pc = pc /\ p.op = q.op /\ p.doc = q.doc /\ p.cols = q.cols /\ p.seen = q.seen
        /\ p.file = q.file
    BY <1>1 DEF Request
  <1>4. \/ q.op = "import" /\ p.pc \in {"look", "save"}
        \/ q.op \in Deletion /\ p.pc \in {"prepare", "wait", "finalize"}
        \/ q.op = "purge" /\ p.pc = "unlink"
        \/ q.op = "save" /\ p.pc = "save"
        \/ q.op = "ask" /\ p.pc \in {"search", "prompt"}
    BY <1>3, Zenon
  <1> HIDE DEF p
  <1>5. Fits(p) BY <1>2, <1>3, <1>4, MovedFits
  <1> QED BY <1>5 DEF p

LEMMA FoundFits ==
  ASSUME NEW q, Fits(q), q.op = "import", NEW d \in DocIds,
         NEW seen \in [trashed : BOOLEAN, linked : BOOLEAN]
  PROVE  Fits([q EXCEPT !.pc = "save", !.doc = d, !.seen = seen])
  <1> DEFINE p == [q EXCEPT !.pc = "save", !.doc = d, !.seen = seen]
  <1>1. q \in Request BY DEF Fits
  <1>2. p.pc = "save" /\ p.doc = d /\ p.op = "import" /\ p.cols = q.cols /\ p.file = q.file
    BY <1>1 DEF Request
  <1>3. p \in Request BY <1>1 DEF Request
  <1>4. d # 0 BY DEF DocIds
  <1>5. (\E c \in ColIds : p.cols = {c}) /\ p.file \in Files BY <1>2 DEF Fits, Placed
  <1> HIDE DEF p
  <1>6. Placed(p) BY <1>2, <1>4, <1>5 DEF Placed, Deletion
  <1>7. Fits(p) BY <1>3, <1>6 DEF Fits
  <1> QED BY <1>7 DEF p

LEMMA OvertakenAll ==
  ASSUME NEW reqs, \A s \in Clients : Fits(reqs[s]), NEW S, req' = Overtaken(reqs, S)
  PROVE  ReqFits'
  <1>1. ASSUME NEW s \in Clients PROVE Fits(req'[s])
    <2> DEFINE b == reqs[s].touched \/ s \in S
    <2>1. b \in BOOLEAN OBVIOUS
    <2>2. req'[s] = [reqs[s] EXCEPT !.touched = b] BY DEF Overtaken
    <2> HIDE DEF b
    <2> QED BY <2>1, <2>2, TouchedFits
  <1>2. req' = [s \in Clients |-> req'[s]] BY DEF Overtaken
  <1>3. req' \in [Clients -> Request] BY <1>1, <1>2 DEF Fits
  <1> QED BY <1>1, <1>3 DEF ReqFits, RequestsFit, Fits

LEMMA OvertakenAlone ==
  ASSUME ReqFits, NEW S, req' = Overtaken(req, S) PROVE ReqFits'
  BY ReqFitsIs, OvertakenAll

LEMMA OvertakenFits ==
  ASSUME ReqFits, NEW r \in Clients, NEW S, req' = Overtaken([req EXCEPT ![r] = NoReq], S)
  PROVE  ReqFits'
  <1> DEFINE reqs == [req EXCEPT ![r] = NoReq]
  <1>1. \A s \in Clients : Fits(reqs[s]) BY NoReqFits, ReqFitsIs DEF ReqFits
  <1>2. req' = Overtaken(reqs, S) OBVIOUS
  <1> HIDE DEF reqs
  <1> QED BY <1>1, <1>2, OvertakenAll

LEMMA JobEndsFits ==
  ASSUME ReqFits, job \in [Jobs -> Job \cup {NoJob}], NEW j \in Jobs, JobEnds(j)
  PROVE  ReqFits' /\ job' \in [Jobs -> Job \cup {NoJob}]
  <1>1. job' \in [Jobs -> Job \cup {NoJob}] BY DEF JobEnds
  <1>2. ASSUME NEW s \in Clients PROVE Fits(req'[s])
    <2>1. req'[s] = [req[s] EXCEPT !.jobs = req[s].jobs \ {j}] BY DEF JobEnds
    <2>2. Fits(req[s]) BY ReqFitsIs
    <2>3. req[s].jobs \ {j} \in SUBSET Jobs BY <2>2 DEF Fits, Request
    <2>4. req'[s] \in Request BY <2>1, <2>2, <2>3 DEF Fits, Request
    <2>5. /\ req'[s].pc = req[s].pc /\ req'[s].doc = req[s].doc /\ req'[s].op = req[s].op
          /\ req'[s].cols = req[s].cols /\ req'[s].file = req[s].file
          /\ req'[s].seen = req[s].seen
      BY <2>1, <2>2 DEF Fits, Request
    <2> QED BY <2>2, <2>4, <2>5 DEF Fits, Placed
  <1>3. req' = [s \in Clients |-> req'[s]] BY DEF JobEnds
  <1>4. req' \in [Clients -> Request] BY <1>2, <1>3 DEF Fits
  <1> QED BY <1>1, <1>2, <1>4 DEF ReqFits, RequestsFit, Fits

LEMMA EnqueueFits ==
  ASSUME job \in [Jobs -> Job \cup {NoJob}], NEW d \in DocIds, Enqueue(d)
  PROVE  job' \in [Jobs -> Job \cup {NoJob}]
  <1>1. PICK j \in Jobs : job' = [job EXCEPT ![j] = [NoJob EXCEPT !.pc = "queued", !.doc = d]]
    BY DEF Enqueue
  <1>2. [NoJob EXCEPT !.pc = "queued", !.doc = d] \in Job BY DEF NoJob, Job
  <1> QED BY <1>1, <1>2

\* The rest of IType: the tables and the jobs.
TablesOK ==
  /\ doc \in [DocIds -> Document \cup {NoDoc}]
  /\ col \in [ColIds -> Collections \cup {NoCollection}]
  /\ link \subseteq DocIds \X ColIds
  /\ bind \in [ids : SUBSET ColIds, mode : Modes]
  /\ chunk \in [DocIds -> Files \cup {NoFile}]
  /\ fts \subseteq DocIds /\ object \subseteq Files
JobsOK == job \in [Jobs -> Job \cup {NoJob}]
CountOK == requests \in 0..MaxRequests
GoneOK == gone \subseteq Files /\ raced \in BOOLEAN /\ reused \in BOOLEAN

IType == TablesOK /\ JobsOK /\ ReqFits /\ CountOK /\ GoneOK

LEMMA ITypeIs == IType <=> TablesOK /\ JobsOK /\ ReqFits /\ CountOK /\ GoneOK
  BY DEF IType

LEMMA ITypeNext == IType' <=> TablesOK' /\ JobsOK' /\ ReqFits' /\ CountOK' /\ GoneOK'
  BY DEF IType

LEMMA ReqStays == ASSUME ReqFits, UNCHANGED req PROVE ReqFits'
  BY DEF ReqFits, RequestsFit

LEMMA Counted == ASSUME CountOK, Request1 PROVE CountOK'
  BY LibraryAssumption DEF CountOK, Request1

LEMMA RowsFile ==
  ASSUME TablesOK, NEW d \in DocIds
  PROVE  /\ Exists(d) => doc[d] \in Document /\ doc[d].file \in Files
         /\ doc[d].file \in Files => Exists(d)
         /\ doc[d].trashed \in BOOLEAN /\ doc[d].file \in Files \cup {NoFile}
  <1>1. CASE doc[d] = NoDoc BY <1>1, LibraryAssumption DEF Exists, NoDoc
  <1>2. CASE doc[d] # NoDoc
    <2>1. doc[d] \in Document BY <1>2 DEF TablesOK
    <2>2. doc[d].trashed \in BOOLEAN BY <2>1 DEF Document
    <2>3. doc[d].file \in Files BY <2>1 DEF Document
    <2> QED BY <1>2, <2>1, <2>2, <2>3 DEF Exists
  <1> QED BY <1>1, <1>2

LEMMA RequestsKeepType ==
  ASSUME IType, Requests PROVE IType'
  <1> USE ITypeIs, ITypeNext
  <1>1. ASSUME NEW r \in Clients, NEW f \in Files, NEW c \in ColIds, BeginImport(r, f, c)
        PROVE  IType'
    <2> DEFINE q == [NoReq EXCEPT !.op = "import", !.pc = "validate", !.file = f, !.cols = {c}]
    <2>1. Fits(q) BY DEF Fits, Placed, Deletion, NoReq, Request, Modes
    <2>2. ReqFits' BY <1>1, <2>1, OneRequest DEF BeginImport, Begin
    <2>3. CountOK' BY <1>1, Counted DEF BeginImport, Begin
    <2>4. object' \subseteq Files BY <1>1 DEF BeginImport, TablesOK
    <2> QED BY <1>1, <2>2, <2>3, <2>4
        DEF BeginImport, TablesOK, JobsOK, GoneOK, history
  <1>2. ASSUME NEW r \in Clients, NEW op \in {"trash", "purge"}, NEW d \in DocIds,
               BeginDeletion(r, op, d)
        PROVE  IType'
    <2> DEFINE q == [NoReq EXCEPT !.op = op, !.doc = d,
                     !.pc = IF op = "purge" THEN "require" ELSE "prepare"]
    <2>1. Fits(q) BY DEF Fits, Placed, Deletion, NoReq, Request, Modes
    <2>2. ReqFits' BY <1>2, <2>1, OneRequest DEF BeginDeletion, Begin
    <2>3. CountOK' BY <1>2, Counted DEF BeginDeletion, Begin
    <2> QED BY <1>2, <2>2, <2>3 DEF BeginDeletion, tables, TablesOK, JobsOK, GoneOK
  <1>3. ASSUME NEW r \in Clients, NEW ids \in SUBSET ColIds, NEW mode \in Modes,
               BeginSave(r, ids, mode)
        PROVE  IType'
    <2> DEFINE q == [NoReq EXCEPT !.op = "save", !.pc = "look", !.cols = ids, !.mode = mode]
    <2>1. Fits(q) BY DEF Fits, Placed, Deletion, NoReq, Request
    <2>2. ReqFits' BY <1>3, <2>1, OneRequest DEF BeginSave, Begin
    <2>3. CountOK' BY <1>3, Counted DEF BeginSave, Begin
    <2> QED BY <1>3, <2>2, <2>3 DEF BeginSave, tables, history, TablesOK, JobsOK, GoneOK
  <1>4. ASSUME NEW r \in Clients, Ask(r) PROVE IType'
    <2> DEFINE q == [NoReq EXCEPT !.op = "ask", !.pc = "mode", !.cols = bind.ids]
    <2>1. bind.ids \subseteq ColIds BY DEF TablesOK
    <2>2. Fits(q) BY <2>1 DEF Fits, Placed, Deletion, NoReq, Request, Modes
    <2>3. ReqFits' BY <1>4, <2>2, OneRequest DEF Ask, Begin
    <2>4. CountOK' BY <1>4, Counted DEF Ask, Begin
    <2> QED BY <1>4, <2>3, <2>4 DEF Ask, tables, history, TablesOK, JobsOK, GoneOK
  <1>5. ASSUME NEW d \in DocIds, Restore(d) PROVE IType'
    <2>1. doc' \in [DocIds -> Document \cup {NoDoc}]
      BY <1>5, RowsFile DEF Restore, TablesOK, Document, Exists
    <2>2. CountOK' BY <1>5, Counted DEF Restore
    <2>3. ReqFits' BY <1>5, ReqStays DEF Restore
    <2> QED BY <1>5, <2>1, <2>2, <2>3 DEF Restore, history, TablesOK, JobsOK, GoneOK
  <1>6. ASSUME NEW d \in DocIds, Rebuild(d) PROVE IType'
    <2>1. JobsOK' BY <1>6, EnqueueFits DEF Rebuild, JobsOK
    <2>2. CountOK' BY <1>6, Counted DEF Rebuild
    <2>3. ReqFits' BY <1>6, ReqStays DEF Rebuild
    <2> QED BY <1>6, <2>1, <2>2, <2>3 DEF Rebuild, tables, history, TablesOK, GoneOK
  <1>7. ASSUME NEW d \in DocIds, NEW c \in ColIds, AddToCollection(d, c) PROVE IType'
    <2>1. link' \subseteq DocIds \X ColIds BY <1>7 DEF AddToCollection, TablesOK
    <2>2. CountOK' BY <1>7, Counted DEF AddToCollection
    <2>3. ReqFits' BY <1>7, ReqStays DEF AddToCollection
    <2> QED BY <1>7, <2>1, <2>2, <2>3 DEF AddToCollection, TablesOK, JobsOK, GoneOK
  <1>8. ASSUME NEW d \in DocIds, NEW c \in ColIds, RemoveFromCollection(d, c) PROVE IType'
    <2>1. link' \subseteq DocIds \X ColIds
      BY <1>8 DEF RemoveFromCollection, LinksWithout, TablesOK
    <2>2. CountOK' BY <1>8, Counted DEF RemoveFromCollection
    <2>3. ReqFits'
      <3>1. req' = Overtaken(req, Imports(doc[d].file)) BY <1>8 DEF RemoveFromCollection
      <3> QED BY <3>1, OvertakenAlone
    <2> QED BY <1>8, <2>1, <2>2, <2>3 DEF RemoveFromCollection, TablesOK, JobsOK, GoneOK
  <1>9. ASSUME NEW n \in Collections, CreateCollection(n) PROVE IType'
    <2>1. col' \in [ColIds -> Collections \cup {NoCollection}]
      BY <1>9 DEF CreateCollection, TablesOK
    <2>2. CountOK' BY <1>9, Counted DEF CreateCollection
    <2>3. ReqFits' BY <1>9, ReqStays DEF CreateCollection
    <2> QED BY <1>9, <2>1, <2>2, <2>3 DEF CreateCollection, TablesOK, JobsOK, GoneOK
  <1>10. ASSUME NEW c \in ColIds, DeleteCollection(c) PROVE IType'
    <2>1. col' \in [ColIds -> Collections \cup {NoCollection}]
      BY <1>10 DEF DeleteCollection, TablesOK
    <2>2. CountOK' BY <1>10, Counted DEF DeleteCollection
    <2>3. ReqFits' BY <1>10, ReqStays DEF DeleteCollection
    <2> QED BY <1>10, <2>1, <2>2, <2>3 DEF DeleteCollection, TablesOK, JobsOK, GoneOK
  <1> QED BY <1>1, <1>2, <1>3, <1>4, <1>5, <1>6, <1>7, <1>8, <1>9, <1>10 DEF Requests

LEMMA ImportsKeepType ==
  ASSUME IType, NEW r \in Clients, ValidateObject(r) \/ LookUp(r) \/ SaveImport(r)
  PROVE  IType'
  <1> USE ITypeIs, ITypeNext
  <1>1. Fits(req[r]) BY ReqFitsIs
  <1>2. CASE ValidateObject(r)
    <2> DEFINE q == [req[r] EXCEPT !.pc = "look"]
    <2>1. Fits(q) BY <1>1, <1>2, PlaceFits DEF ValidateObject, Fits, Placed
    <2>2. ReqFits' BY <1>2, <2>1, NoReqFits, OneRequest DEF ValidateObject, Continue, End
    <2> QED BY <1>2, <2>2
        DEF ValidateObject, Continue, End, tables, history, TablesOK, JobsOK, CountOK, GoneOK
  <1>3. CASE LookUp(r)
    <2> DEFINE c == CHOOSE x \in req[r].cols : TRUE
               p == [req[r] EXCEPT !.pc = "save"]
               q(d, a, b) == [req[r] EXCEPT !.pc = "save", !.doc = d,
                              !.seen = [trashed |-> a, linked |-> b]]
    <2>0. req[r].op = "import" BY <1>3 DEF LookUp
    <2>1. Fits(p) BY <1>1, <2>0, PlaceFits
    <2>2. ASSUME NEW d \in DocIds, NEW a \in BOOLEAN, NEW b \in BOOLEAN PROVE Fits(q(d, a, b))
      <3> DEFINE seen == [trashed |-> a, linked |-> b]
      <3>1. seen \in [trashed : BOOLEAN, linked : BOOLEAN] OBVIOUS
      <3>2. q(d, a, b) = [req[r] EXCEPT !.pc = "save", !.doc = d, !.seen = seen] OBVIOUS
      <3> HIDE DEF seen, q, c, p
      <3>3. Fits([req[r] EXCEPT !.pc = "save", !.doc = d, !.seen = seen])
        BY <1>1, <2>0, <3>1, FoundFits
      <3> QED BY <3>2, <3>3, Zenon
    <2>3. \A d \in DocIds : doc[d].trashed \in BOOLEAN BY RowsFile
    <2>4. \/ req' = [req EXCEPT ![r] = NoReq]
          \/ req' = [req EXCEPT ![r] = p]
          \/ \E d \in DocIds : req' = [req EXCEPT ![r] = q(d, doc[d].trashed, <<d, c>> \in link)]
      BY <1>3 DEF LookUp, Continue, End, RowOf
    <2> HIDE DEF c, p, q
    <2>5. ASSUME \E d \in DocIds :
                   req' = [req EXCEPT ![r] = q(d, doc[d].trashed, <<d, c>> \in link)]
          PROVE  ReqFits'
      <3>1. PICK d \in DocIds :
              req' = [req EXCEPT ![r] = q(d, doc[d].trashed, <<d, c>> \in link)]
        BY <2>5
      <3> DEFINE b == <<d, c>> \in link
      <3>2. b \in BOOLEAN OBVIOUS
      <3>3. req' = [req EXCEPT ![r] = q(d, doc[d].trashed, b)] BY <3>1
      <3> HIDE DEF b
      <3>4. Fits(q(d, doc[d].trashed, b)) BY <2>2, <2>3, <3>2
      <3> QED BY <3>3, <3>4, OneRequest
    <2>6. ReqFits' BY <2>1, <2>4, <2>5, NoReqFits, OneRequest
    <2> QED BY <1>3, <2>6
        DEF LookUp, Continue, End, tables, history, TablesOK, JobsOK, CountOK, GoneOK
  <1>4. CASE SaveImport(r)
    <2> DEFINE q == req[r]
    <2>1. q.doc \in DocIds \cup {0} /\ q.file \in Files \cup {NoFile} /\ q.cols \subseteq ColIds
      BY <1>1 DEF Fits, Request
    <2>2. ReqFits' BY <1>4, NoReqFits, OneRequest DEF SaveImport, End, Continue
    <2>3. CASE UNCHANGED <<doc, link, job, owed, gone, member, reused>>
      BY <1>4, <2>2, <2>3
         DEF SaveImport, End, Continue, TablesOK, JobsOK, CountOK, GoneOK
    <2>4. CASE ~Conflicts(q) /\ ~UNCHANGED <<doc, link, job, owed, gone, member, reused>>
      <3>1. PICK d \in IF q.doc = 0 THEN NextId(DocIds, {e \in DocIds : Exists(e)})
                       ELSE {q.doc} :
              /\ doc' = [doc EXCEPT ![d] = SavedRow(d, q)]
              /\ link' = SavedLinks(d, q)
              /\ Enqueue(d)
        BY <1>4, <2>4 DEF SaveImport
      <3>2. d \in DocIds BY <2>1, <3>1 DEF NextId
      <3>3. SavedRow(d, q) \in Document \cup {NoDoc}
        <4>1. doc[d] \in Document \cup {NoDoc} BY <3>2 DEF TablesOK
        <4>2. CASE q.doc = 0 BY <2>1, <4>2 DEF SavedRow, Document, NoDoc
        <4>3. CASE q.doc # 0 /\ q.seen.trashed
          <5>1. d = q.doc BY <3>1, <4>3
          <5>2. Exists(d) BY <2>4, <4>3, <5>1 DEF Conflicts
          <5>3. doc[d] \in Document BY <3>2, <5>2, RowsFile
          <5> QED BY <4>3, <5>3 DEF SavedRow, Document
        <4>4. CASE q.doc # 0 /\ ~q.seen.trashed BY <4>1, <4>4 DEF SavedRow
        <4> QED BY <4>2, <4>3, <4>4
      <3>4. doc' \in [DocIds -> Document \cup {NoDoc}] BY <3>1, <3>2, <3>3 DEF TablesOK
      <3>5. link' \subseteq DocIds \X ColIds
        BY <2>1, <3>1, <3>2 DEF SavedLinks, TablesOK
      <3>6. JobsOK' BY <3>1, <3>2, EnqueueFits DEF JobsOK
      <3>7. TablesOK' BY <1>4, <3>4, <3>5 DEF SaveImport, TablesOK
      <3>8. gone' \subseteq Files /\ raced' = raced BY <1>4, <2>4 DEF SaveImport, GoneOK
      <3> QED BY <1>4, <2>2, <3>6, <3>7, <3>8 DEF SaveImport, End, Continue, CountOK, GoneOK
    <2> QED BY <1>4, <2>3, <2>4 DEF SaveImport
  <1> QED BY <1>2, <1>3, <1>4

LEMMA DeletionsKeepType ==
  ASSUME IType, NEW r \in Clients,
         \/ RequireTrashed(r) \/ PrepareDeletion(r) \/ Stopped(r)
         \/ MoveToTrash(r) \/ Purge(r) \/ DeleteObject(r)
  PROVE  IType'
  <1> USE ITypeIs, ITypeNext
  <1>1. Fits(req[r]) BY ReqFitsIs
  <1> DEFINE d == req[r].doc
  <1>2. CASE RequireTrashed(r)
    <2> DEFINE q == [req[r] EXCEPT !.pc = "prepare"]
    <2>1. req[r].pc = "require" BY <1>2 DEF RequireTrashed
    <2>2. Fits(q) BY <1>1, <2>1, PlaceFits DEF Fits, Placed, Deletion
    <2>3. ReqFits' BY <1>2, <2>2, NoReqFits, OneRequest DEF RequireTrashed, Continue, End
    <2> QED BY <1>2, <2>3
        DEF RequireTrashed, Continue, End, tables, history, TablesOK, JobsOK, CountOK, GoneOK
  <1>3. CASE PrepareDeletion(r)
    <2>1. req[r].pc = "prepare" BY <1>3 DEF PrepareDeletion
    <2>2. d \in DocIds BY <1>1, <2>1 DEF Fits, Placed, Deletion
    <2> DEFINE active == {j \in Jobs : job[j].doc = d}
               q == [req[r] EXCEPT !.pc = "wait", !.jobs = active, !.file = doc[d].file]
    <2>3. doc[d].file \in Files \cup {NoFile} BY <2>2, RowsFile
    <2>4. active \subseteq Jobs OBVIOUS
    <2>5. Fits(q)
      <3> HIDE DEF active
      <3>1. req[r] \in Request /\ req[r].op \in Deletion BY <1>1, <2>1 DEF Fits, Placed
      <3>2. q \in Request /\ q.pc = "wait" /\ q.op = req[r].op /\ q.doc = d
            /\ q.cols = req[r].cols /\ q.seen = req[r].seen
        BY <2>3, <2>4, <3>1 DEF Request
      <3> HIDE DEF q
      <3> QED BY <1>1, <3>1, <3>2, MovedFits
    <2>6. ReqFits' BY <1>3, <2>5, NoReqFits, OneRequest DEF PrepareDeletion, Continue, End
    <2>7. JobsOK'
      <3>1. CASE UNCHANGED job BY <3>1 DEF JobsOK
      <3>2. CASE job' = [j \in Jobs |-> IF j \in active THEN [job[j] EXCEPT !.cancel = TRUE]
                                       ELSE job[j]]
        <4>1. ASSUME NEW j \in Jobs, j \in active
              PROVE  [job[j] EXCEPT !.cancel = TRUE] \in Job
          <5>1. job[j].doc \in DocIds BY <2>2, <4>1
          <5>2. job[j] # NoJob BY <5>1, LibraryAssumption DEF NoJob, DocIds
          <5>3. job[j] \in Job BY <5>2 DEF JobsOK
          <5> QED BY <5>3 DEF Job
        <4> HIDE DEF active
        <4> QED BY <3>2, <4>1 DEF JobsOK
      <3> QED BY <1>3, <3>1, <3>2 DEF PrepareDeletion
    <2> QED BY <1>3, <2>6, <2>7
        DEF PrepareDeletion, Continue, End, tables, history, TablesOK, CountOK, GoneOK
  <1>4. CASE Stopped(r)
    <2> DEFINE q == [req[r] EXCEPT !.pc = "finalize"]
    <2>1. req[r].pc = "wait" BY <1>4 DEF Stopped
    <2>2. Fits(q) BY <1>1, <2>1, PlaceFits DEF Fits, Placed
    <2>3. ReqFits' BY <1>4, <2>2, OneRequest DEF Stopped, Continue
    <2> QED BY <1>4, <2>3
        DEF Stopped, Continue, tables, history, TablesOK, JobsOK, CountOK, GoneOK
  <1>5. CASE MoveToTrash(r)
    <2>1. req[r].pc = "finalize" BY <1>5 DEF MoveToTrash
    <2>2. d \in DocIds BY <1>1, <2>1 DEF Fits, Placed, Deletion
    <2>3. doc' \in [DocIds -> Document \cup {NoDoc}]
      <3>1. CASE doc' = doc BY <3>1 DEF TablesOK
      <3>2. CASE Exists(d) /\ doc' = [doc EXCEPT ![d].trashed = TRUE]
        <4>1. doc[d] \in Document BY <2>2, <3>2, RowsFile
        <4>2. [doc[d] EXCEPT !.trashed = TRUE] \in Document BY <4>1 DEF Document
        <4> QED BY <3>2, <4>2 DEF TablesOK
      <3> QED BY <1>5, <3>1, <3>2 DEF MoveToTrash
    <2>4. ReqFits' BY <1>5, OvertakenFits DEF MoveToTrash
    <2> QED BY <1>5, <2>3, <2>4 DEF MoveToTrash, history, TablesOK, JobsOK, CountOK, GoneOK
  <1>6. CASE Purge(r)
    <2> DEFINE q == [req[r] EXCEPT !.pc = "unlink"]
    <2>1. req[r].pc = "finalize" BY <1>6 DEF Purge
    <2>2. d \in DocIds BY <1>1, <2>1 DEF Fits, Placed, Deletion
    <2>3. Fits(q) BY <1>1, <1>6, PlaceFits DEF Purge
    <2>4. ReqFits' BY <1>6, <2>3, NoReqFits, OneRequest DEF Purge, Continue, End
    <2>5. requests' = requests BY <1>6 DEF Purge, Continue, End
    <2>6. CASE ~Exists(d)
      BY <1>6, <2>4, <2>5, <2>6 DEF Purge, TablesOK, JobsOK, CountOK, GoneOK
    <2>7. CASE Exists(d)
      <3>1. doc' = [doc EXCEPT ![d] = NoDoc] /\ fts' = fts \ {d} /\ gone' = gone \cup {doc[d].file}
        BY <1>6, <2>7 DEF Purge, IndexAfterPurge
      <3>2. doc[d].file \in Files BY <2>2, <2>7, RowsFile
      <3>3. TablesOK' BY <1>6, <3>1 DEF Purge, TablesOK
      <3>4. gone' \subseteq Files BY <3>1, <3>2 DEF GoneOK
      <3>5. raced' \in BOOLEAN
        <4>1. raced' = (raced \/ \E j \in Jobs : job[j].doc = d /\ job[j].pc # "queued")
          BY <1>6, <2>7 DEF Purge
        <4> QED BY <4>1
      <3> QED BY <1>6, <2>4, <2>5, <3>3, <3>4, <3>5 DEF Purge, JobsOK, CountOK, GoneOK
    <2> QED BY <2>6, <2>7
  <1>7. CASE DeleteObject(r)
    <2>1. object' \subseteq Files BY <1>7 DEF DeleteObject, ObjectsAfterPurge, TablesOK
    <2>2. ReqFits' BY <1>7, OvertakenFits DEF DeleteObject
    <2> QED BY <1>7, <2>1, <2>2 DEF DeleteObject, history, TablesOK, JobsOK, CountOK, GoneOK
  <1> QED BY <1>2, <1>3, <1>4, <1>5, <1>6, <1>7

LEMMA AnswersKeepType ==
  ASSUME IType, NEW r \in Clients,
         FindCollections(r) \/ SaveBindings(r) \/ ReadMode(r) \/ Search(r) \/ Answered(r)
  PROVE  IType'
  <1> USE ITypeIs, ITypeNext
  <1>1. Fits(req[r]) BY ReqFitsIs
  <1>2. CASE FindCollections(r)
    <2> DEFINE q == [req[r] EXCEPT !.pc = "save"]
    <2>1. Fits(q) BY <1>1, <1>2, PlaceFits DEF FindCollections
    <2>2. ReqFits' BY <1>2, <2>1, NoReqFits, OneRequest DEF FindCollections, Continue, End
    <2> QED BY <1>2, <2>2
        DEF FindCollections, Continue, End, tables, history, TablesOK, JobsOK, CountOK, GoneOK
  <1>3. CASE SaveBindings(r)
    <2>1. req[r].cols \subseteq ColIds /\ req[r].mode \in Modes BY <1>1 DEF Fits, Request
    <2>2. bind' \in [ids : SUBSET ColIds, mode : Modes]
      BY <1>3, <2>1 DEF SaveBindings, Replaced, NoBinding, Modes
    <2>3. ReqFits' BY <1>3, OvertakenFits DEF SaveBindings
    <2> QED BY <1>3, <2>2, <2>3 DEF SaveBindings, TablesOK, JobsOK, CountOK, GoneOK
  <1>4. CASE ReadMode(r)
    <2> DEFINE q == [req[r] EXCEPT !.pc = "search"]
    <2>1. Fits(q) BY <1>1, <1>4, PlaceFits DEF ReadMode, Fits, Placed
    <2>2. ReqFits' BY <1>4, <2>1, NoReqFits, OneRequest DEF ReadMode, Continue, End
    <2> QED BY <1>4, <2>2
        DEF ReadMode, Continue, End, tables, history, TablesOK, JobsOK, CountOK, GoneOK
  <1>5. CASE Search(r)
    <2> DEFINE hits == Hits(req[r].cols)
               q == [req[r] EXCEPT !.pc = "prompt", !.hits = hits]
    <2>1. \A e \in fts : chunk[e] # NoFile => chunk[e] \in Files BY DEF TablesOK
    <2>2. hits \in SUBSET Files BY <2>1 DEF Hits
    <2>3. Fits(q)
      <3> HIDE DEF hits
      <3>1. req[r] \in Request /\ req[r].op = "ask" BY <1>1, <1>5 DEF Search, Fits, Placed
      <3>2. q \in Request /\ q.pc = "prompt" /\ q.op = req[r].op /\ q.doc = req[r].doc
            /\ q.cols = req[r].cols /\ q.seen = req[r].seen /\ q.file = req[r].file
        BY <2>2, <3>1 DEF Request
      <3> HIDE DEF q
      <3> QED BY <1>1, <3>1, <3>2, MovedFits
    <2>4. ReqFits' BY <1>5, <2>3, OneRequest DEF Search, Continue
    <2> QED BY <1>5, <2>4
        DEF Search, Continue, tables, history, TablesOK, JobsOK, CountOK, GoneOK
  <1>6. CASE Answered(r)
    <2>1. ReqFits' BY <1>6, NoReqFits, OneRequest DEF Answered, Continue, End
    <2> QED BY <1>6, <2>1
        DEF Answered, Continue, End, tables, history, TablesOK, JobsOK, CountOK, GoneOK
  <1> QED BY <1>1, <1>2, <1>3, <1>4, <1>5, <1>6

LEMMA WorkKeepsType ==
  ASSUME IType, NEW j \in Jobs,
         StartJob(j) \/ Parsed(j) \/ ReplaceChunks(j) \/ ReplaceIndex(j)
  PROVE  IType'
  <1> USE ITypeIs, ITypeNext
  <1>1. job[j] \in Job \cup {NoJob} BY DEF JobsOK
  <1>2. job[j].pc # "none" => job[j] \in Job BY <1>1 DEF NoJob
  <1>3. ASSUME JobEnds(j) PROVE ReqFits' /\ JobsOK' BY <1>3, JobEndsFits DEF JobsOK
  <1>4. CASE StartJob(j)
    <2>1. job[j] \in Job BY <1>2, <1>4 DEF StartJob
    <2> DEFINE f == doc[job[j].doc].file
    <2>2. f \in Files \cup {NoFile} BY <2>1, RowsFile DEF Job
    <2>3. CASE ~JobEnds(j)
      <3>1. job' = [job EXCEPT ![j] = [@ EXCEPT !.pc = "parsing", !.text = f]] /\ UNCHANGED req
        BY <1>4, <2>3 DEF StartJob
      <3>2. [job[j] EXCEPT !.pc = "parsing", !.text = f] \in Job BY <2>1, <2>2 DEF Job
      <3>3. JobsOK' BY <3>1, <3>2 DEF JobsOK
      <3> QED BY <1>4, <3>1, <3>3, ReqStays
          DEF StartJob, tables, history, TablesOK, CountOK, GoneOK
    <2>4. CASE JobEnds(j)
      BY <1>3, <1>4, <2>4 DEF StartJob, tables, history, TablesOK, CountOK, GoneOK
    <2> QED BY <2>3, <2>4
  <1>5. CASE Parsed(j)
    <2>1. job[j] \in Job BY <1>2, <1>5 DEF Parsed
    <2>2. CASE ~JobEnds(j)
      <3>1. job' = [job EXCEPT ![j].pc = "indexing"] /\ UNCHANGED req
        BY <1>5, <2>2 DEF Parsed
      <3>2. [job[j] EXCEPT !.pc = "indexing"] \in Job BY <2>1 DEF Job
      <3>3. JobsOK' BY <3>1, <3>2 DEF JobsOK
      <3> QED BY <1>5, <3>1, <3>3, ReqStays
          DEF Parsed, tables, history, TablesOK, CountOK, GoneOK
    <2>3. CASE JobEnds(j)
      BY <1>3, <1>5, <2>3 DEF Parsed, tables, history, TablesOK, CountOK, GoneOK
    <2> QED BY <2>2, <2>3
  <1>6. CASE ReplaceChunks(j)
    <2>1. job[j] \in Job BY <1>2, <1>6 DEF ReplaceChunks
    <2>2. CASE Exists(job[j].doc)
      <3>1. /\ chunk' = [chunk EXCEPT ![job[j].doc] = job[j].text]
            /\ job' = [job EXCEPT ![j].pc = "chunked"] /\ UNCHANGED req
        BY <1>6, <2>2 DEF ReplaceChunks
      <3>2. [job[j] EXCEPT !.pc = "chunked"] \in Job BY <2>1 DEF Job
      <3>3. JobsOK' BY <3>1, <3>2 DEF JobsOK
      <3>4. job[j].text \in Files \cup {NoFile} BY <2>1 DEF Job
      <3>5. chunk' \in [DocIds -> Files \cup {NoFile}] BY <3>1, <3>4 DEF TablesOK
      <3> QED BY <1>6, <3>1, <3>3, <3>5, ReqStays
          DEF ReplaceChunks, history, TablesOK, CountOK, GoneOK
    <2>3. CASE ~Exists(job[j].doc)
      BY <1>3, <1>6, <2>3 DEF ReplaceChunks, history, TablesOK, CountOK, GoneOK
    <2> QED BY <2>2, <2>3
  <1>7. CASE ReplaceIndex(j)
    <2>1. job[j] \in Job BY <1>2, <1>7 DEF ReplaceIndex
    <2>2. job[j].doc \in DocIds BY <2>1 DEF Job
    <2>3. fts' \subseteq DocIds BY <1>7, <2>2 DEF ReplaceIndex, TablesOK
    <2> QED BY <1>3, <1>7, <2>3 DEF ReplaceIndex, history, TablesOK, CountOK, GoneOK
  <1> QED BY <1>4, <1>5, <1>6, <1>7

LEMMA InitType == Init => IType
  <1> SUFFICES ASSUME Init PROVE IType OBVIOUS
  <1>1. ReqFits
    <2>1. req = [r \in Clients |-> NoReq] BY DEF Init
    <2>2. \A r \in Clients : Fits(req[r]) BY <2>1, NoReqFits
    <2>3. req \in [Clients -> Request] BY <2>1, NoReqFits DEF Fits
    <2> QED BY <2>2, <2>3, ReqFitsIs
  <1>2. TablesOK BY DEF Init, TablesOK, NoBinding, Modes
  <1>3. JobsOK BY DEF Init, JobsOK
  <1>4. CountOK BY LibraryAssumption DEF Init, CountOK
  <1>5. GoneOK BY DEF Init, GoneOK
  <1> QED BY <1>1, <1>2, <1>3, <1>4, <1>5, ITypeIs

LEMMA NextType == IType /\ [Next]_vars => IType'
  <1> SUFFICES ASSUME IType, [Next]_vars PROVE IType' OBVIOUS
  <1>1. CASE Requests BY <1>1, RequestsKeepType
  <1>2. CASE Transactions
    <2>1. PICK r \in Clients :
            \/ ValidateObject(r) \/ LookUp(r) \/ SaveImport(r)
            \/ RequireTrashed(r) \/ PrepareDeletion(r) \/ Stopped(r)
            \/ MoveToTrash(r) \/ Purge(r) \/ DeleteObject(r)
            \/ FindCollections(r) \/ SaveBindings(r)
            \/ ReadMode(r) \/ Search(r) \/ Answered(r)
      BY <1>2 DEF Transactions
    <2> QED BY <2>1, ImportsKeepType, DeletionsKeepType, AnswersKeepType
  <1>3. CASE Work BY <1>3, WorkKeepsType DEF Work
  <1>4. CASE UNCHANGED vars
    <2>1. ReqFits' BY <1>4, ReqStays, ITypeIs DEF vars
    <2> QED BY <1>4, <2>1, ITypeIs, ITypeNext
        DEF vars, tables, history, TablesOK, JobsOK, CountOK, GoneOK
  <1> QED BY <1>1, <1>2, <1>3, <1>4 DEF Next

-----------------------------------------------------------------------------
(* A purged file is in no answer *)

\* The rows of the documents, and the running jobs, are as they were.
RowsKept ==
  \A d \in DocIds : (Exists(d)' <=> Exists(d)) /\ doc'[d].file = doc[d].file
JobsKept ==
  \A j \in Jobs :
    \/ job'[j].pc \notin Running
    \/ /\ job[j].pc \in Running /\ job'[j].doc = job[j].doc /\ job'[j].text = job[j].text
       /\ job'[j].pc = "chunked" => job[j].pc = "chunked"

LEMMA JobHasDoc ==
  ASSUME IType, NEW j \in Jobs, job[j].pc # "none"
  PROVE  job[j] \in Job /\ job[j].doc \in DocIds
  BY ITypeIs DEF JobsOK, NoJob, Job

LEMMA JobsStayOwn ==
  ASSUME IType, RowsKept, JobsKept, UNCHANGED chunk
  PROVE  (JobIsOwn => JobIsOwn') /\ (JobHasRow => JobHasRow')
  <1>1. ASSUME NEW j \in Jobs, job'[j].pc \in Running
        PROVE  /\ job[j].pc \in Running /\ job'[j].doc = job[j].doc /\ job'[j].text = job[j].text
               /\ job'[j].pc = "chunked" => job[j].pc = "chunked"
               /\ job[j].doc \in DocIds
               /\ Exists(job[j].doc)' <=> Exists(job[j].doc)
               /\ doc'[job[j].doc].file = doc[job[j].doc].file
    <2>1. /\ job[j].pc \in Running /\ job'[j].doc = job[j].doc /\ job'[j].text = job[j].text
          /\ job'[j].pc = "chunked" => job[j].pc = "chunked"
      BY <1>1 DEF JobsKept
    <2>2. job[j].doc \in DocIds BY <2>1, JobHasDoc DEF Running
    <2> QED BY <2>1, <2>2 DEF RowsKept
  <1>2. JobIsOwn => JobIsOwn' BY <1>1 DEF JobIsOwn, Exists
  <1>3. JobHasRow => JobHasRow' BY <1>1 DEF JobHasRow, Exists
  <1> QED BY <1>2, <1>3

LEMMA RowsAndJobs ==
  ASSUME IType, Inv, RowsKept, JobsKept, UNCHANGED <<chunk, fts>>
  PROVE  /\ OneRow' /\ (Own => Own')
         /\ (JobHasRow => JobHasRow') /\ (IndexOfRows => IndexOfRows')
  <1>1. fts \subseteq DocIds BY ITypeIs DEF TablesOK
  <1>2. OneRow' BY DEF Inv, OneRow, RowsKept
  <1>3. IndexOfRows => IndexOfRows' BY <1>1 DEF IndexOfRows, RowsKept
  <1>4. Own => Own'
    <2>1. IndexIsOwn => IndexIsOwn' BY <1>1 DEF IndexIsOwn, RowsKept, Exists
    <2>2. JobIsOwn => JobIsOwn' BY JobsStayOwn
    <2> QED BY <2>1, <2>2 DEF Own
  <1> QED BY <1>2, <1>3, <1>4, JobsStayOwn

LEMMA SameRows == ASSUME UNCHANGED doc PROVE RowsKept
  BY DEF RowsKept, Exists

LEMMA SameJobs == ASSUME UNCHANGED job PROVE JobsKept
  BY DEF JobsKept

LEMMA EndedJobs == ASSUME IType, NEW j \in Jobs, JobEnds(j) PROVE JobsKept
  BY ITypeIs DEF JobEnds, JobsKept, JobsOK, NoJob, Running

LEMMA EnqueuedJobs == ASSUME IType, NEW d, Enqueue(d) PROVE JobsKept
  BY ITypeIs DEF Enqueue, JobsKept, JobsOK, NoJob, Running

LEMMA NewRowIsFree ==
  ASSUME NEW d \in NextId(DocIds, {e \in DocIds : Exists(e)})
  PROVE  d \in DocIds /\ ~Exists(d)
  <1>1. d \in DocIds BY DEF NextId
  <1>2. d \in Nat BY <1>1 DEF DocIds
  <1>3. ~(d < d) BY <1>2
  <1> QED BY <1>1, <1>3 DEF NextId

LEMMA OldImportSafe ==
  ASSUME IType, Inv, RowsKept, JobsKept, UNCHANGED <<chunk, fts, raced>>, reused => reused',
         gone' \subseteq gone
  PROVE  Inv'
  <1>1. Inv /\ UNCHANGED <<chunk, fts, raced>> OBVIOUS
  <1>2. /\ OneRow' /\ (Own => Own')
        /\ (JobHasRow => JobHasRow') /\ (IndexOfRows => IndexOfRows')
    BY RowsAndJobs
  <1>3. GoneHasNoRow' BY DEF Inv, GoneHasNoRow, RowOf, RowsKept
  <1> QED BY <1>1, <1>2, <1>3 DEF Inv

LEMMA NothingNew ==
  ASSUME IType, Inv, RowsKept, JobsKept, UNCHANGED <<chunk, fts, gone, raced>>,
         reused => reused'
  PROVE  Inv'
  BY OldImportSafe

LEMMA SaveImportSafe ==
  ASSUME IType, Inv, NEW r \in Clients, SaveImport(r) PROVE Inv'
  <1> DEFINE q == req[r]
  <1>1. q.doc \in DocIds \cup {0} BY ITypeIs, ReqFitsIs DEF Fits, Request
  <1>2. CASE UNCHANGED <<doc, link, job, owed, gone, member, reused>>
    BY <1>2, SameRows, SameJobs, NothingNew DEF SaveImport
  <1>3. CASE ~Conflicts(q) /\ ~UNCHANGED <<doc, link, job, owed, gone, member, reused>>
    <2>1. PICK d \in IF q.doc = 0 THEN NextId(DocIds, {e \in DocIds : Exists(e)})
                     ELSE {q.doc} :
            doc' = [doc EXCEPT ![d] = SavedRow(d, q)] /\ Enqueue(d)
      BY <1>2, <1>3 DEF SaveImport
    <2>2. gone' = gone \ {q.file} /\ UNCHANGED <<chunk, fts, raced>> /\ (reused => reused')
      BY <1>3 DEF SaveImport
    <2>3. doc \in [DocIds -> Document \cup {NoDoc}] /\ fts \subseteq DocIds /\ gone \subseteq Files
      BY ITypeIs DEF TablesOK, GoneOK
    <2>4. JobsKept BY <2>1, EnqueuedJobs
    <2>5. CASE q.doc # 0
      <3>1. d = q.doc /\ d \in DocIds BY <1>1, <2>1, <2>5
      <3>2. CASE q.seen.trashed
        <4>1. doc[d] \in Document BY <1>3, <2>3, <2>5, <3>1, <3>2 DEF Conflicts, Exists
        <4>2. SavedRow(d, q) = [doc[d] EXCEPT !.trashed = FALSE] BY <2>5, <3>2 DEF SavedRow
        <4>3. SavedRow(d, q).file = doc[d].file /\ SavedRow(d, q) \in Document
          BY <4>1, <4>2 DEF Document
        <4>4. doc[d].file \in Files /\ SavedRow(d, q).file \in Files BY <4>1, <4>3 DEF Document
        <4>5. SavedRow(d, q) # NoDoc BY <4>4, LibraryAssumption DEF NoDoc
        <4>6. doc'[d] = SavedRow(d, q) /\ \A e \in DocIds \ {d} : doc'[e] = doc[e]
          BY <2>1, <2>3, <3>1
        <4>7. doc[d] # NoDoc BY <4>4, LibraryAssumption DEF NoDoc
        <4>8. RowsKept
          <5> HIDE DEF q
          <5> QED BY <4>3, <4>5, <4>6, <4>7 DEF RowsKept, Exists
        <4> QED BY <2>2, <2>4, <4>8, OldImportSafe
      <3>3. CASE ~q.seen.trashed
        <4>1. doc' = doc BY <2>1, <2>3, <2>5, <3>1, <3>3 DEF SavedRow
        <4> QED BY <2>2, <2>4, <4>1, SameRows, OldImportSafe
      <3> QED BY <3>2, <3>3
    <2>6. CASE q.doc = 0
      <3>1. d \in DocIds /\ ~Exists(d) BY <2>1, <2>6, NewRowIsFree
      <3>2. SavedRow(d, q) = [file |-> q.file, trashed |-> FALSE] BY <2>6 DEF SavedRow
      <3>3. \A e \in DocIds : doc[e].file # q.file BY <1>3, <2>6 DEF Conflicts, RowOf
      <3>4. doc'[d] = [file |-> q.file, trashed |-> FALSE]
            /\ \A e \in DocIds \ {d} : doc'[e] = doc[e]
        BY <2>1, <2>3, <3>1, <3>2
      <3>5. q.file # NoFile
        BY <3>1, <3>3 DEF Exists, NoDoc
      <3>6. doc'[d] # NoDoc BY <3>4, <3>5 DEF NoDoc
      <3>7. OneRow'
        BY <3>3, <3>4 DEF Inv, OneRow, Exists
      <3>8. IndexOfRows => IndexOfRows' BY <2>2, <2>3, <3>1, <3>4, <3>6 DEF IndexOfRows, Exists
      <3>9. GoneHasNoRow' BY <2>2, <3>4 DEF Inv, GoneHasNoRow, RowOf
      <3>10. ASSUME NEW j \in Jobs, job'[j].pc \in Running
            PROVE  /\ job[j].pc \in Running /\ job'[j].doc = job[j].doc
                   /\ job'[j].text = job[j].text
                   /\ job'[j].pc = "chunked" => job[j].pc = "chunked"
                   /\ job[j].doc \in DocIds
        BY <2>4, <3>10, JobHasDoc DEF JobsKept, Running
      <3>11. JobHasRow => JobHasRow'
        BY <3>4, <3>6, <3>10 DEF JobHasRow, Exists
      <3>12. ASSUME ~reused' PROVE d \notin fts /\ \A j \in Jobs : job[j].doc # d
        <4>1. PICK e \in NextId(DocIds, {x \in DocIds : Exists(x)}) :
                /\ doc' = [doc EXCEPT ![e] = SavedRow(e, q)]
                /\ reused' = (reused \/ (q.doc = 0 /\
                     (\/ \E c \in ColIds : <<e, c>> \in link
                      \/ e \in fts
                      \/ \E o \in Clients \ {r} : req[o].doc = e
                      \/ \E k \in Jobs : job[k].doc = e)))
          BY <1>3, <2>6 DEF SaveImport
        <4>2. e \in DocIds /\ ~Exists(e) BY <4>1, NewRowIsFree
        <4>3. doc'[e] = [file |-> q.file, trashed |-> FALSE] BY <2>3, <2>6, <4>1, <4>2 DEF SavedRow
        <4>4. e = d BY <3>1, <3>4, <3>5, <4>2, <4>3 DEF Exists, NoDoc
        <4> QED BY <2>6, <3>12, <4>1, <4>4
      <3>13. ASSUME Own, ~raced \/ ~reused' PROVE Own'
        <4>1. \A e \in fts : e \in DocIds /\ e # d
          <5>1. CASE ~raced BY <2>3, <3>1, <5>1 DEF Inv, IndexOfRows
          <5>2. CASE ~reused' BY <2>3, <3>12, <5>2
          <5> QED BY <3>13, <5>1, <5>2
        <4>2. IndexIsOwn' BY <2>2, <3>4, <3>13, <4>1 DEF Own, IndexIsOwn, Exists
        <4>3. ASSUME NEW j \in Jobs, job'[j].pc \in Running PROVE job[j].doc # d
          <5>1. CASE ~raced BY <3>1, <3>10, <4>3, <5>1 DEF Inv, JobHasRow
          <5>2. CASE ~reused' BY <3>12, <5>2
          <5> QED BY <3>13, <5>1, <5>2
        <4>4. JobIsOwn' BY <2>2, <3>4, <3>10, <3>13, <4>3 DEF Own, JobIsOwn, Exists
        <4> QED BY <4>2, <4>4 DEF Own
      <3>14. reused => reused' BY <1>3 DEF SaveImport
      <3> QED BY <2>2, <3>7, <3>8, <3>9, <3>11, <3>13, <3>14 DEF Inv
    <2> QED BY <2>5, <2>6
  <1> QED BY <1>2, <1>3 DEF SaveImport

LEMMA TrashedRow ==
  ASSUME IType, NEW d \in DocIds, Exists(d), NEW b \in BOOLEAN,
         doc' = [doc EXCEPT ![d].trashed = b]
  PROVE  RowsKept
  <1>1. doc[d] \in Document /\ doc[d].file \in Files BY ITypeIs, RowsFile
  <1>2. doc \in [DocIds -> Document \cup {NoDoc}] BY ITypeIs DEF TablesOK
  <1>3. doc'[d] = [doc[d] EXCEPT !.trashed = b] /\ \A e \in DocIds \ {d} : doc'[e] = doc[e]
    BY <1>2
  <1>4. doc'[d].file = doc[d].file BY <1>1, <1>3 DEF Document
  <1>5. doc'[d] # NoDoc BY <1>1, <1>4, LibraryAssumption DEF NoDoc
  <1> QED BY <1>3, <1>4, <1>5 DEF RowsKept, Exists

LEMMA PurgeSafe ==
  ASSUME IType, Inv, NEW r \in Clients, Purge(r) PROVE Inv'
  <1> DEFINE d == req[r].doc
             f == doc[d].file
  <1>1. d \in DocIds BY ITypeIs, ReqFitsIs DEF Purge, Fits, Placed, Deletion
  <1>2. CASE ~Exists(d) BY <1>2, SameRows, SameJobs, NothingNew DEF Purge
  <1>3. CASE Exists(d)
    <2>1. /\ doc' = [doc EXCEPT ![d] = NoDoc] /\ fts' = fts \ {d} /\ gone' = gone \cup {f}
          /\ raced' = (raced \/ \E j \in Jobs : job[j].doc = d /\ job[j].pc # "queued")
          /\ UNCHANGED <<chunk, job>>
      BY <1>3 DEF Purge, IndexAfterPurge
    <2>2. doc \in [DocIds -> Document \cup {NoDoc}] /\ fts \subseteq DocIds /\ gone \subseteq Files
      BY ITypeIs DEF TablesOK, GoneOK
    <2>3. doc'[d] = NoDoc /\ \A e \in DocIds \ {d} : doc'[e] = doc[e] BY <1>1, <2>1, <2>2
    <2>4. f \in Files BY <1>1, <1>3, ITypeIs, RowsFile
    <2>5. OneRow'
      <3>1. ASSUME NEW x \in DocIds, NEW y \in DocIds, doc'[x] # NoDoc,
                   doc'[x].file = doc'[y].file
            PROVE  x = y
        <4>1. x # d /\ doc'[x] = doc[x] /\ Exists(x) BY <2>3, <3>1 DEF Exists
        <4>2. doc[x].file \in Files BY <4>1, ITypeIs, RowsFile
        <4>3. y # d BY <2>3, <3>1, <4>1, <4>2, LibraryAssumption DEF NoDoc
        <4> QED BY <2>3, <3>1, <4>1, <4>3 DEF Inv, OneRow
      <3> QED BY <3>1 DEF OneRow, Exists
    <2>6. IndexOfRows => IndexOfRows' BY <2>1, <2>2, <2>3 DEF IndexOfRows, Exists
    <2>7. GoneHasNoRow'
      <3>1. \A e \in DocIds : doc'[e].file \notin gone
        BY <2>2, <2>3, LibraryAssumption DEF Inv, GoneHasNoRow, RowOf, NoDoc
      <3>2. \A e \in DocIds : doc'[e].file # f
        BY <1>1, <1>3, <2>3, <2>4, LibraryAssumption DEF Inv, OneRow, NoDoc
      <3> QED BY <2>1, <3>1, <3>2 DEF GoneHasNoRow, RowOf
    <2>8. ASSUME ~raced' PROVE ~raced /\ JobHasRow'
      <3>1. ~raced /\ \A j \in Jobs : job[j].doc = d => job[j].pc = "queued" BY <2>1, <2>8
      <3>2. JobHasRow BY <3>1 DEF Inv
      <3>3. ASSUME NEW j \in Jobs, job[j].pc \in Running PROVE Exists(job[j].doc)'
        <4>1. job[j].doc \in DocIds /\ job[j].doc # d BY <3>1, <3>3, JobHasDoc DEF Running
        <4> QED BY <2>1, <2>3, <3>2, <3>3, <4>1 DEF Exists, JobHasRow
      <3> QED BY <2>1, <3>1, <3>3 DEF JobHasRow
    <2>9. ASSUME Own PROVE Own'
      <3>1. IndexIsOwn' BY <2>1, <2>2, <2>3, <2>9 DEF Own, IndexIsOwn, Exists
      <3>2. ASSUME NEW j \in Jobs, job[j].pc \in Running, Exists(job[j].doc)'
            PROVE  job[j].doc # d /\ doc'[job[j].doc] = doc[job[j].doc]
        BY <2>1, <2>3, <3>2, JobHasDoc DEF Exists, Running
      <3>3. JobIsOwn' BY <2>1, <2>9, <3>2 DEF Own, JobIsOwn, Exists
      <3> QED BY <3>1, <3>3 DEF Own
    <2>10. reused' = reused /\ (raced => raced') BY <1>3, <2>1 DEF Purge
    <2> QED BY <2>5, <2>6, <2>7, <2>8, <2>9, <2>10 DEF Inv
  <1> QED BY <1>2, <1>3

LEMMA TrashSafe ==
  ASSUME IType, Inv, NEW r \in Clients, MoveToTrash(r) PROVE Inv'
  <1> DEFINE d == req[r].doc
  <1>1. d \in DocIds BY ITypeIs, ReqFitsIs DEF MoveToTrash, Fits, Placed, Deletion
  <1>2. CASE ~Exists(d) BY <1>2, SameRows, SameJobs, NothingNew DEF MoveToTrash, history
  <1>3. CASE Exists(d)
    <2>1. RowsKept BY <1>1, <1>3, TrashedRow DEF MoveToTrash
    <2> QED BY <2>1, SameJobs, NothingNew DEF MoveToTrash, history
  <1> QED BY <1>2, <1>3

LEMMA PrepareSafe ==
  ASSUME IType, Inv, NEW r \in Clients, PrepareDeletion(r) PROVE Inv'
  <1>1. JobsKept
    <2>1. CASE UNCHANGED job BY <2>1, SameJobs
    <2>2. CASE job' = [j \in Jobs |-> IF j \in {k \in Jobs : job[k].doc = req[r].doc}
                                     THEN [job[j] EXCEPT !.cancel = TRUE] ELSE job[j]]
      <3>1. ASSUME NEW j \in Jobs
            PROVE  job'[j].pc = job[j].pc /\ job'[j].doc = job[j].doc /\ job'[j].text = job[j].text
        <4>1. job[j] \in Job \cup {NoJob} BY ITypeIs DEF JobsOK
        <4> QED BY <2>2, <4>1 DEF Job, NoJob
      <3> QED BY <3>1 DEF JobsKept
    <2> QED BY <2>1, <2>2 DEF PrepareDeletion
  <1> QED BY <1>1, SameRows, NothingNew DEF PrepareDeletion, tables, history

LEMMA WorkSafe ==
  ASSUME IType, Inv, NEW j \in Jobs,
         StartJob(j) \/ Parsed(j) \/ ReplaceChunks(j) \/ ReplaceIndex(j)
  PROVE  Inv'
  <1> DEFINE d == job[j].doc
  <1>1. job[j] \in Job /\ d \in DocIds
    BY JobHasDoc DEF StartJob, Parsed, ReplaceChunks, ReplaceIndex
  <1>2. job \in [Jobs -> Job \cup {NoJob}] /\ chunk \in [DocIds -> Files \cup {NoFile}]
    BY ITypeIs DEF JobsOK, TablesOK
  <1>3. UNCHANGED doc
    BY DEF StartJob, Parsed, ReplaceChunks, ReplaceIndex, tables
  <1>4. UNCHANGED <<gone, raced, reused>>
    BY DEF StartJob, Parsed, ReplaceChunks, ReplaceIndex, history
  <1>5. OneRow' /\ GoneHasNoRow'
    BY <1>3, <1>4 DEF Inv, OneRow, GoneHasNoRow, RowOf, Exists
  <1>6. ASSUME JobEnds(j), UNCHANGED <<chunk, fts>> PROVE Inv'
    BY <1>3, <1>4, <1>6, SameRows, EndedJobs, NothingNew
  <1>7. CASE StartJob(j) /\ ~JobEnds(j)
    <2> DEFINE f == doc[d].file
    <2>1. f \in object /\ job' = [job EXCEPT ![j] = [@ EXCEPT !.pc = "parsing", !.text = f]]
          /\ UNCHANGED <<chunk, fts>>
      BY <1>7 DEF StartJob, tables
    <2>2. Exists(d) BY <1>1, <2>1, ITypeIs, RowsFile DEF TablesOK
    <2>3. job'[j].pc = "parsing" /\ job'[j].doc = d /\ job'[j].text = f
      BY <1>1, <1>2, <2>1 DEF Job
    <2>4. \A k \in Jobs \ {j} : job'[k] = job[k] BY <1>2, <2>1
    <2>5. IndexOfRows => IndexOfRows' BY <1>3, <2>1 DEF IndexOfRows, Exists
    <2>6. doc'[d] # NoDoc /\ job'[j].text = doc'[job'[j].doc].file
      BY <1>3, <2>2, <2>3 DEF Exists
    <2>7. ASSUME Own PROVE Own'
      <3>1. IndexIsOwn' BY <1>3, <2>1, <2>7 DEF Own, IndexIsOwn, Exists
      <3>2. JobIsOwn' BY <1>3, <2>1, <2>3, <2>4, <2>6, <2>7 DEF Own, JobIsOwn, Exists
      <3> QED BY <3>1, <3>2 DEF Own
    <2>8. JobHasRow => JobHasRow' BY <1>3, <2>3, <2>4, <2>6 DEF JobHasRow, Exists
    <2> QED BY <1>4, <1>5, <2>5, <2>7, <2>8 DEF Inv
  <1>8. CASE Parsed(j) /\ ~JobEnds(j)
    <2>1. job[j].pc = "parsing" /\ job' = [job EXCEPT ![j].pc = "indexing"]
          /\ UNCHANGED <<chunk, fts>>
      BY <1>8 DEF Parsed, tables
    <2>2. JobsKept BY <1>1, <1>2, <2>1 DEF JobsKept, Job, Running
    <2> QED BY <1>3, <1>4, <2>1, <2>2, SameRows, NothingNew
  <1>9. CASE ReplaceChunks(j) /\ ~Exists(d)
    BY <1>6, <1>9 DEF ReplaceChunks
  <1>10. CASE ReplaceChunks(j) /\ Exists(d)
    <2>1. /\ job[j].pc = "indexing" /\ chunk' = [chunk EXCEPT ![d] = job[j].text]
          /\ job' = [job EXCEPT ![j].pc = "chunked"] /\ UNCHANGED fts
      BY <1>10 DEF ReplaceChunks
    <2>2. chunk'[d] = job[j].text /\ \A e \in DocIds \ {d} : chunk'[e] = chunk[e]
      BY <1>1, <1>2, <2>1
    <2>3. job'[j].pc = "chunked" /\ job'[j].doc = d /\ job'[j].text = job[j].text
      BY <1>1, <1>2, <2>1 DEF Job
    <2>4. \A k \in Jobs \ {j} : job'[k] = job[k] BY <1>2, <2>1
    <2>5. IndexOfRows => IndexOfRows' BY <1>3, <2>1 DEF IndexOfRows, Exists
    <2>6. ASSUME Own PROVE Own'
      <3>1. Exists(d) /\ job[j].text = doc[d].file
        BY <1>10, <2>1, <2>6 DEF Own, JobIsOwn, Running
      <3>2. fts \subseteq DocIds BY ITypeIs DEF TablesOK
      <3>3. IndexIsOwn' BY <1>3, <2>1, <2>2, <2>6, <3>1, <3>2 DEF Own, IndexIsOwn, Exists
      <3>4. ASSUME NEW k \in Jobs, job'[k].pc \in Running, Exists(job[k].doc)'
            PROVE  /\ job'[k].doc = job[k].doc /\ job'[k].text = doc'[job'[k].doc].file
                   /\ job'[k].pc = "chunked" => chunk'[job'[k].doc] = job'[k].text
        <4>1. CASE k = j BY <1>3, <2>2, <2>3, <3>1, <4>1
        <4>2. CASE k # j
          <5>1. job'[k] = job[k] BY <2>4, <4>2
          <5>2. job[k].doc \in DocIds BY <3>4, <5>1, JobHasDoc DEF Running
          <5>3. /\ job[k].text = doc[job[k].doc].file
                /\ job[k].pc = "chunked" => chunk[job[k].doc] = job[k].text
            BY <1>3, <2>6, <3>4, <5>1 DEF Own, JobIsOwn, Exists
          <5>4. job[k].pc = "chunked" => chunk'[job[k].doc] = job[k].text
            BY <2>2, <3>1, <5>2, <5>3
          <5> QED BY <1>3, <5>1, <5>3, <5>4
        <4> QED BY <4>1, <4>2
      <3>5. \A k \in Jobs : job'[k].doc = job[k].doc BY <2>3, <2>4
      <3>6. JobIsOwn' BY <3>4, <3>5 DEF JobIsOwn
      <3> QED BY <3>3, <3>6 DEF Own
    <2>7. JobHasRow => JobHasRow'
      <3>1. \A k \in Jobs : job'[k].pc \in Running => /\ job'[k].doc = job[k].doc
                                                      /\ job[k].pc \in Running
        BY <2>1, <2>3, <2>4 DEF Running
      <3> QED BY <1>3, <3>1 DEF JobHasRow, Exists
    <2> QED BY <1>4, <1>5, <2>5, <2>6, <2>7 DEF Inv
  <1>11. CASE ReplaceIndex(j)
    <2>1. job[j].pc = "chunked" /\ JobEnds(j) /\ UNCHANGED chunk /\ fts' = fts \cup {d}
      BY <1>11 DEF ReplaceIndex
    <2>2. RowsKept /\ JobsKept BY <1>3, <2>1, SameRows, EndedJobs
    <2>3. ASSUME Own PROVE Own'
      <3>1. Exists(d) => chunk[d] = doc[d].file BY <2>1, <2>3 DEF Own, JobIsOwn, Running
      <3>2. IndexIsOwn' BY <1>3, <2>1, <2>3, <3>1 DEF Own, IndexIsOwn, Exists
      <3>3. JobIsOwn' BY <2>1, <2>2, <2>3, JobsStayOwn DEF Own
      <3> QED BY <3>2, <3>3 DEF Own
    <2>4. ASSUME ~raced PROVE JobHasRow' /\ IndexOfRows'
      <3>1. JobHasRow /\ IndexOfRows BY <2>4 DEF Inv
      <3>2. Exists(d) BY <2>1, <3>1 DEF JobHasRow, Running
      <3>3. IndexOfRows' BY <1>3, <2>1, <3>1, <3>2 DEF IndexOfRows, Exists
      <3> QED BY <2>1, <2>2, <3>1, <3>3, JobsStayOwn
    <2> QED BY <1>4, <1>5, <2>3, <2>4 DEF Inv
  <1> QED BY <1>6, <1>7, <1>8, <1>9, <1>10, <1>11 DEF StartJob, Parsed, tables

LEMMA InitSafe == Init => Inv
  BY DEF Init, Inv, OneRow, IndexOfRows, GoneHasNoRow, Own, IndexIsOwn, JobIsOwn,
         JobHasRow, Running, Exists, NoJob

LEMMA RequestsSafe == ASSUME IType, Inv, Requests PROVE Inv'
  <1>1. ASSUME NEW d \in DocIds, Restore(d) PROVE Inv'
    <2>1. RowsKept BY <1>1, TrashedRow DEF Restore
    <2> QED BY <1>1, <2>1, SameJobs, NothingNew DEF Restore, history
  <1>2. ASSUME NEW d \in DocIds, Rebuild(d) PROVE Inv'
    BY <1>2, SameRows, EnqueuedJobs, NothingNew DEF Rebuild, tables, history
  <1>3. CASE UNCHANGED <<doc, chunk, fts, job, gone, raced, reused>>
    BY <1>3, SameRows, SameJobs, NothingNew
  <1>4. ASSUME NEW n \in Collections, CreateCollection(n) PROVE Inv'
    <2>1. reused => reused' BY <1>4 DEF CreateCollection
    <2> QED BY <1>4, <2>1, SameRows, SameJobs, NothingNew DEF CreateCollection
  <1> QED BY <1>1, <1>2, <1>3, <1>4
      DEF Requests, BeginImport, BeginDeletion, BeginSave, Ask, AddToCollection,
          RemoveFromCollection, DeleteCollection, tables, history

LEMMA NextSafe == IType /\ Inv /\ [Next]_vars => Inv'
  <1> SUFFICES ASSUME IType, Inv, [Next]_vars PROVE Inv' OBVIOUS
  <1>1. CASE Requests BY <1>1, RequestsSafe
  <1>2. CASE Transactions
    <2>1. PICK r \in Clients :
            \/ ValidateObject(r) \/ LookUp(r) \/ SaveImport(r)
            \/ RequireTrashed(r) \/ PrepareDeletion(r) \/ Stopped(r)
            \/ MoveToTrash(r) \/ Purge(r) \/ DeleteObject(r)
            \/ FindCollections(r) \/ SaveBindings(r)
            \/ ReadMode(r) \/ Search(r) \/ Answered(r)
      BY <1>2 DEF Transactions
    <2>2. CASE UNCHANGED <<doc, chunk, fts, job, gone, raced, reused>>
      BY <2>2, SameRows, SameJobs, NothingNew
    <2> QED BY <2>1, <2>2, SaveImportSafe, PrepareSafe, TrashSafe, PurgeSafe
        DEF ValidateObject, LookUp, RequireTrashed, Stopped, DeleteObject, FindCollections,
            SaveBindings, ReadMode, Search, Answered, tables, history
  <1>3. CASE Work BY <1>3, WorkSafe DEF Work
  <1>4. CASE UNCHANGED vars
    BY <1>4, SameRows, SameJobs, NothingNew DEF vars, tables, history
  <1> QED BY <1>1, <1>2, <1>3, <1>4 DEF Next

LEMMA InvIsSafe == IType /\ Inv => PurgedIsGone
  <1> SUFFICES ASSUME IType, Inv, ~(raced /\ reused), NEW f \in Hits(ColIds), f \in gone
               PROVE  FALSE
    BY DEF PurgedIsGone
  <1>1. PICK d \in fts : f = chunk[d] /\ Exists(d) BY DEF Hits, Live
  <1>2. d \in DocIds BY ITypeIs DEF TablesOK
  <1>3. f = doc[d].file BY <1>1 DEF Inv, Own, IndexIsOwn
  <1> QED BY <1>2, <1>3 DEF Inv, GoneHasNoRow, RowOf

LEMMA AlwaysSafe == Spec => [](IType /\ Inv)
  <1>1. Init => IType /\ Inv BY InitType, InitSafe
  <1>2. IType /\ Inv /\ [Next]_vars => (IType /\ Inv)' BY NextType, NextSafe
  <1> QED BY <1>1, <1>2, PTL DEF Spec

\* The text of a purged file is in no answer of a search until it is imported again,
\* whatever requests and jobs run and whichever ids are used again, unless a job of the
\* document ran while it was purged and a row took an id that something still names.
THEOREM PurgedStaysGone == Spec => []PurgedIsGone
  BY AlwaysSafe, InvIsSafe, PTL

-----------------------------------------------------------------------------
(***************************************************************************)
(* What was imported is reachable, and a prompt has what it may have       *)
(*                                                                         *)
(* Unless an id was used again: a link leads to a collection the user put  *)
(* the file into, the bindings are the ones meant, and a request that      *)
(* nobody overtook still finds what it has looked up.  A deletion under    *)
(* way owes nobody its file, and an import that answers while one is under *)
(* way promises nothing.                                                   *)
(***************************************************************************)

HistoryOK ==
  /\ owed \subseteq Files \X ColIds
  /\ member \subseteq Files \X (Collections \cup {NoCollection})
  /\ meant \in [names : SUBSET (Collections \cup {NoCollection}), mode : Modes]
  /\ created \subseteq Collections
  /\ last \in [ColIds -> Collections \cup {NoCollection}]

\* A collection is the last one with its id, and no two ids had the same.
Names ==
  /\ \A c \in ColIds : col[c] # NoCollection => last[c] = col[c]
  /\ \A c \in ColIds : last[c] # NoCollection => last[c] \in created
  /\ \A c, e \in ColIds : last[c] = last[e] /\ last[c] # NoCollection => c = e

\* A link of a document is to a collection the user put its file into.
LinksMeant ==
  \A d \in DocIds, c \in ColIds :
    <<d, c>> \in link /\ Exists(d) => <<doc[d].file, last[c]>> \in member

BindMeant ==
  bind.ids # {} => /\ bind.mode = meant.mode
                   /\ \A c \in bind.ids : last[c] \in meant.names

\* A live document of the file has a link to the collection with this id.
Holds(f, c) ==
  /\ f \in object
  /\ \E d \in DocIds : Live(d) /\ doc[d].file = f /\ <<d, c>> \in link

Reached == \A f \in Files, c \in ColIds : <<f, c>> \in owed => Holds(f, c)

\* The object of this file is about to be removed.
Unlinking(f) == \E r \in Clients : req[r].pc = "unlink" /\ req[r].file = f

\* The document an import has looked up is there, live and linked if it was.
Found(r) ==
  /\ Exists(req[r].doc)
  /\ doc[req[r].doc].trashed => req[r].seen.trashed
  /\ req[r].seen.linked => \A c \in req[r].cols : <<req[r].doc, c>> \in link

ImportFits(r) ==
  req[r].op = "import" =>
    /\ req[r].doc # 0 /\ Exists(req[r].doc) => doc[req[r].doc].file = req[r].file
    /\ ~req[r].touched => req[r].file \in object
    /\ ~req[r].touched /\ req[r].doc # 0 => Found(r) \/ Unlinking(req[r].file)

DeletionClears(r) ==
  req[r].op \in Deletion =>
    /\ \A c \in ColIds : /\ <<req[r].file, c>> \notin owed
                         /\ <<doc[req[r].doc].file, c>> \notin owed
    /\ req[r].pc \in {"wait", "finalize"} /\ Exists(req[r].doc) =>
         req[r].file = doc[req[r].doc].file

AskFits(r) ==
  req[r].op = "ask" /\ ~req[r].touched =>
    /\ \A c \in req[r].cols : last[c] \in meant.names
    /\ req[r].pc = "mode" => bind.mode = meant.mode
    /\ req[r].pc = "search" => meant.mode = "allow_model_context"

Fine(r) == ImportFits(r) /\ DeletionClears(r) /\ AskFits(r)

Kept == LinksMeant /\ BindMeant /\ Reached /\ \A r \in Clients : Fine(r)

Promised == HistoryOK /\ Names /\ (reused \/ Kept)

\* A request stands where it stood, or goes on without a new look at the tables.
Follows(r) ==
  /\ req'[r].op = req[r].op /\ req'[r].doc = req[r].doc /\ req'[r].file = req[r].file
  /\ req'[r].cols = req[r].cols /\ req'[r].seen = req[r].seen
  /\ req[r].touched => req'[r].touched
  /\ req'[r].pc \in {"wait", "finalize"} => req[r].pc \in {"wait", "finalize"}
  /\ req'[r].pc = "mode" => req[r].pc = "mode"
  /\ req'[r].pc = "search" => req[r].pc = "search"
  /\ req'[r].pc = "prompt" => req[r].pc = "prompt"
  /\ req[r].pc = "unlink" => req'[r].pc = "unlink"

\* Rows stay, and none goes to the trash.
RowsLive == RowsKept /\ \A d \in DocIds : doc'[d].trashed => doc[d].trashed

LEMMA RequestType ==
  ASSUME IType, NEW r \in Clients
  PROVE  /\ req \in [Clients -> Request] /\ req[r] \in Request /\ Placed(req[r])
         /\ req[r].doc \in DocIds \cup {0} /\ req[r].cols \subseteq ColIds
         /\ req[r].file \in Files \cup {NoFile}
         /\ 0 \notin DocIds
  <1>1. req \in [Clients -> Request] /\ Fits(req[r]) BY ITypeIs, ReqFitsIs DEF ReqFits
  <1> QED BY <1>1 DEF Fits, Request, DocIds

LEMMA ReplacedFollow ==
  ASSUME IType, NEW r \in Clients, NEW q, req' = [req EXCEPT ![r] = q]
  PROVE  req'[r] = q /\ \A s \in Clients \ {r} : Follows(s)
  <1>1. req \in [Clients -> Request] BY RequestType
  <1>2. \A s \in Clients \ {r} : req'[s] = req[s] BY <1>1
  <1> QED BY <1>1, <1>2 DEF Follows

LEMMA SameFollow == ASSUME UNCHANGED req PROVE \A s \in Clients : Follows(s)
  BY DEF Follows

LEMMA PlaceFollows ==
  ASSUME IType, NEW r \in Clients, NEW pc, Continue(r, [req[r] EXCEPT !.pc = pc]),
         \/ pc \in {"look", "save", "prepare"} /\ req[r].pc # "unlink"
         \/ pc = "finalize" /\ req[r].pc = "wait"
         \/ pc = "unlink"
  PROVE  req'[r].pc = pc /\ \A s \in Clients : Follows(s)
  <1> DEFINE q == [req[r] EXCEPT !.pc = pc]
  <1>1. req[r] \in Request BY RequestType
  <1>2. /\ q.pc = pc /\ q.op = req[r].op /\ q.doc = req[r].doc /\ q.file = req[r].file
        /\ q.cols = req[r].cols /\ q.seen = req[r].seen /\ q.touched = req[r].touched
    BY <1>1 DEF Request
  <1>3. req' = [req EXCEPT ![r] = q] BY DEF Continue
  <1> HIDE DEF q
  <1>4. req'[r] = q /\ \A s \in Clients \ {r} : Follows(s) BY <1>3, ReplacedFollow
  <1>5. Follows(r) BY <1>2, <1>4 DEF Follows
  <1> QED BY <1>2, <1>4, <1>5

LEMMA JobEndsFollow ==
  ASSUME IType, NEW j \in Jobs, JobEnds(j) PROVE \A s \in Clients : Follows(s)
  <1> SUFFICES ASSUME NEW s \in Clients PROVE Follows(s) OBVIOUS
  <1>1. req'[s] = [req[s] EXCEPT !.jobs = req[s].jobs \ {j}] BY DEF JobEnds
  <1>2. req[s] \in Request BY RequestType
  <1> QED BY <1>1, <1>2 DEF Follows, Request

LEMMA OvertakenFollow ==
  ASSUME NEW reqs, NEW S, req' = Overtaken(reqs, S), NEW s \in Clients, reqs[s] \in Request
  PROVE  /\ req'[s].op = reqs[s].op /\ req'[s].pc = reqs[s].pc
         /\ s \in S => req'[s].touched
         /\ reqs[s] = req[s] => Follows(s)
  <1> DEFINE b == reqs[s].touched \/ s \in S
  <1>1. req'[s] = [reqs[s] EXCEPT !.touched = b] BY DEF Overtaken
  <1> HIDE DEF b
  <1>2. /\ req'[s].op = reqs[s].op /\ req'[s].pc = reqs[s].pc /\ req'[s].touched = b
        /\ req'[s].doc = reqs[s].doc /\ req'[s].file = reqs[s].file
        /\ req'[s].cols = reqs[s].cols /\ req'[s].seen = reqs[s].seen
    BY <1>1 DEF Request
  <1>3. (reqs[s].touched => b) /\ (s \in S => b) BY DEF b
  <1> QED BY <1>2, <1>3 DEF Follows

LEMMA EndedFollow ==
  ASSUME IType, NEW r \in Clients, NEW S, req' = Overtaken([req EXCEPT ![r] = NoReq], S)
  PROVE  /\ req'[r].op = "none" /\ req'[r].pc = "none"
         /\ \A s \in Clients \ {r} : Follows(s) /\ (s \in S => req'[s].touched)
  <1> DEFINE reqs == [req EXCEPT ![r] = NoReq]
  <1>1. reqs[r] = NoReq /\ \A s \in Clients \ {r} : reqs[s] = req[s] BY RequestType
  <1>2. NoReq \in Request BY NoReqFits DEF Fits
  <1>3. \A s \in Clients : reqs[s] \in Request BY <1>1, <1>2, RequestType
  <1>4. req' = Overtaken(reqs, S) OBVIOUS
  <1> HIDE DEF reqs
  <1>5. req'[r].op = reqs[r].op /\ req'[r].pc = reqs[r].pc BY <1>3, <1>4, OvertakenFollow
  <1>6. \A s \in Clients \ {r} : Follows(s) /\ (s \in S => req'[s].touched)
    BY <1>1, <1>3, <1>4, OvertakenFollow
  <1>7. NoReq.op = "none" /\ NoReq.pc = "none" BY DEF NoReq
  <1> QED BY <1>1, <1>5, <1>6, <1>7

LEMMA IdleFine ==
  ASSUME NEW r \in Clients, req'[r].op \notin Deletion \cup {"import", "ask"} PROVE Fine(r)'
  BY DEF Fine, ImportFits, DeletionClears, AskFits

-----------------------------------------------------------------------------
(* Steps after which nothing that was there is missing *)

LEMMA UnlinkingStays ==
  ASSUME NEW f, Unlinking(f),
         \A s \in Clients : Follows(s) \/ req[s].pc # "unlink"
  PROVE  Unlinking(f)'
  BY DEF Unlinking, Follows

LEMMA ImportStays ==
  ASSUME IType, NEW s \in Clients, Follows(s), ImportFits(s), RowsLive,
         object \subseteq object', link \subseteq link',
         Unlinking(req[s].file) => Unlinking(req[s].file)'
  PROVE  ImportFits(s)'
  <1> SUFFICES ASSUME req[s].op = "import" PROVE ImportFits(s)'
    BY DEF Follows, ImportFits
  <1>1. req[s].doc # 0 => req[s].doc \in DocIds BY RequestType
  <1>2. /\ req'[s].doc = req[s].doc /\ req'[s].file = req[s].file /\ req'[s].cols = req[s].cols
        /\ req'[s].seen = req[s].seen /\ (req[s].touched => req'[s].touched)
    BY DEF Follows
  <1>3. ASSUME req[s].doc # 0, Found(s) PROVE Found(s)'
    BY <1>1, <1>2, <1>3 DEF Found, RowsLive, RowsKept
  <1>4. ASSUME req[s].doc # 0, Exists(req[s].doc)' PROVE doc'[req[s].doc].file = req[s].file
    <2>1. Exists(req[s].doc) BY <1>1, <1>2, <1>4 DEF RowsLive, RowsKept, Exists
    <2> QED BY <1>1, <1>4, <2>1 DEF RowsLive, RowsKept, ImportFits
  <1> QED BY <1>2, <1>3, <1>4 DEF ImportFits, Exists

LEMMA DeletionStays ==
  ASSUME IType, NEW s \in Clients, Follows(s), DeletionClears(s), RowsKept, owed' \subseteq owed
  PROVE  DeletionClears(s)'
  <1> SUFFICES ASSUME req[s].op \in Deletion PROVE DeletionClears(s)'
    BY DEF Follows, DeletionClears
  <1>1. req[s].doc \in DocIds BY RequestType DEF Placed
  <1>2. /\ req'[s].doc = req[s].doc /\ req'[s].file = req[s].file
        /\ req'[s].pc \in {"wait", "finalize"} => req[s].pc \in {"wait", "finalize"}
    BY DEF Follows
  <1>3. /\ Exists(req[s].doc)' <=> Exists(req[s].doc)
        /\ doc'[req[s].doc].file = doc[req[s].doc].file
    BY <1>1, <1>2 DEF RowsKept, Exists
  <1> QED BY <1>2, <1>3 DEF DeletionClears, Exists

LEMMA AskStays ==
  ASSUME NEW s \in Clients, Follows(s), AskFits(s), UNCHANGED <<bind, meant, last>>
  PROVE  AskFits(s)'
  BY DEF Follows, AskFits

LEMMA ReachedStays ==
  ASSUME Reached, RowsLive, object \subseteq object', link \subseteq link', owed' \subseteq owed
  PROVE  Reached'
  <1> SUFFICES ASSUME NEW f \in Files, NEW c \in ColIds, Holds(f, c) PROVE Holds(f, c)'
    BY DEF Reached
  <1>1. PICK d \in DocIds : Live(d) /\ doc[d].file = f /\ <<d, c>> \in link BY DEF Holds
  <1>2. Live(d)' /\ doc'[d].file = f BY <1>1 DEF Live, RowsLive, RowsKept
  <1> QED BY <1>1, <1>2 DEF Holds

LEMMA NothingMissing ==
  ASSUME IType, Kept, RowsLive, object \subseteq object', link \subseteq link',
         owed' \subseteq owed, UNCHANGED <<bind, meant, last>>, LinksMeant',
         \A s \in Clients : Follows(s) \/ (req[s].pc # "unlink" /\ Fine(s)')
  PROVE  Kept'
  <1>1. ASSUME NEW s \in Clients, Follows(s) PROVE Fine(s)'
    <2>1. Fine(s) BY DEF Kept
    <2>2. Unlinking(req[s].file) => Unlinking(req[s].file)' BY <1>1 DEF Unlinking, Follows
    <2>3. ImportFits(s)' BY <1>1, <2>1, <2>2, ImportStays DEF Fine
    <2>4. DeletionClears(s)' BY <1>1, <2>1, DeletionStays DEF Fine, RowsLive
    <2>5. AskFits(s)' BY <1>1, <2>1, AskStays DEF Fine
    <2> QED BY <2>3, <2>4, <2>5 DEF Fine
  <1>2. Reached' BY ReachedStays DEF Kept
  <1>3. BindMeant' BY DEF Kept, BindMeant
  <1> QED BY <1>1, <1>2, <1>3 DEF Kept

LEMMA LinksStay ==
  ASSUME LinksMeant, RowsKept, UNCHANGED <<link, last>>, member \subseteq member'
  PROVE  LinksMeant'
  BY DEF LinksMeant, RowsKept

\* Only requests move.
LEMMA TablesStay ==
  ASSUME IType, Kept, UNCHANGED <<doc, link, bind, object, owed, member, meant, last>>,
         \A s \in Clients : Follows(s) \/ (req[s].pc # "unlink" /\ Fine(s)')
  PROVE  Kept'
  <1>1. RowsKept BY SameRows
  <1>2. RowsLive BY <1>1 DEF RowsLive
  <1>3. LinksMeant' BY <1>1, LinksStay DEF Kept
  <1> QED BY <1>2, <1>3, NothingMissing

-----------------------------------------------------------------------------
(* Each operation keeps the promises *)

LEMMA OwedType ==
  ASSUME HistoryOK, NEW c PROVE <<NoFile, c>> \notin owed
  BY LibraryAssumption DEF HistoryOK

LEMMA SameKept == ASSUME UNCHANGED doc PROVE RowsKept /\ RowsLive
  BY SameRows DEF RowsLive

LEMMA RestoredLive ==
  ASSUME IType, NEW d \in DocIds, Exists(d), doc' = [doc EXCEPT ![d].trashed = FALSE]
  PROVE  RowsLive
  <1>1. doc[d] \in Document BY RowsFile, ITypeIs
  <1>2. \A e \in DocIds \ {d} : doc'[e] = doc[e] BY ITypeIs DEF TablesOK
  <1>3. doc'[d] = [doc[d] EXCEPT !.trashed = FALSE] BY ITypeIs DEF TablesOK
  <1>4. doc'[d].trashed = FALSE BY <1>1, <1>3 DEF Document
  <1> QED BY <1>2, <1>4, TrashedRow DEF RowsLive

LEMMA BeginKeeps ==
  ASSUME IType, HistoryOK, Kept, NEW r \in Clients,
         \/ \E f \in Files, c \in ColIds : BeginImport(r, f, c)
         \/ \E op \in Deletion, d \in DocIds : BeginDeletion(r, op, d)
         \/ \E ids \in SUBSET ColIds, mode \in Modes : BeginSave(r, ids, mode)
         \/ Ask(r)
  PROVE  Kept'
  <1>0. req[r].pc # "unlink"
    <2>1. req[r] = NoReq BY DEF BeginImport, BeginDeletion, BeginSave, Ask, Begin
    <2>2. NoReq.pc = "none" BY DEF NoReq
    <2> QED BY <2>1, <2>2
  <1>1. ASSUME NEW f \in Files, NEW c \in ColIds, BeginImport(r, f, c) PROVE Kept'
    <2> DEFINE q == [NoReq EXCEPT !.op = "import", !.pc = "validate", !.file = f, !.cols = {c}]
    <2>1. q.op = "import" /\ q.doc = 0 /\ q.file = f BY DEF NoReq
    <2>2. req' = [req EXCEPT ![r] = q] /\ object' = object \cup {f}
          /\ UNCHANGED <<doc, link, owed, member, bind, meant, last>>
      BY <1>1 DEF BeginImport, Begin, history
    <2> HIDE DEF q
    <2>3. req'[r] = q /\ \A s \in Clients \ {r} : Follows(s) BY <2>2, ReplacedFollow
    <2>4. Fine(r)' BY <2>1, <2>2, <2>3 DEF Fine, ImportFits, DeletionClears, AskFits, Deletion
    <2>5. RowsKept /\ RowsLive BY <2>2, SameKept
    <2>6. LinksMeant' BY <2>2, <2>5, LinksStay DEF Kept
    <2> QED BY <1>0, <2>2, <2>3, <2>4, <2>5, <2>6, NothingMissing
  <1>2. ASSUME NEW op \in Deletion, NEW d \in DocIds, BeginDeletion(r, op, d) PROVE Kept'
    <2> DEFINE q == [NoReq EXCEPT !.op = op, !.doc = d,
                     !.pc = IF op = "purge" THEN "require" ELSE "prepare"]
    <2>1. q.op = op /\ q.doc = d /\ q.file = NoFile /\ q.pc \in {"require", "prepare"}
      BY DEF NoReq
    <2>2. req' = [req EXCEPT ![r] = q] /\ owed' = {o \in owed : o[1] # doc[d].file}
          /\ UNCHANGED <<doc, link, object, member, bind, meant, last>>
      BY <1>2 DEF BeginDeletion, Begin, tables
    <2> HIDE DEF q
    <2>3. req'[r] = q /\ \A s \in Clients \ {r} : Follows(s) BY <2>2, ReplacedFollow
    <2>4. \A c \in ColIds : <<NoFile, c>> \notin owed' /\ <<doc'[d].file, c>> \notin owed'
      BY <2>2, OwedType
    <2>5. Fine(r)' BY <2>1, <2>3, <2>4 DEF Fine, ImportFits, DeletionClears, AskFits, Deletion
    <2>6. RowsKept /\ RowsLive BY <2>2, SameKept
    <2>7. LinksMeant' BY <2>2, <2>6, LinksStay DEF Kept
    <2> QED BY <1>0, <2>2, <2>3, <2>5, <2>6, <2>7, NothingMissing
  <1>3. ASSUME NEW ids \in SUBSET ColIds, NEW mode \in Modes, BeginSave(r, ids, mode) PROVE Kept'
    <2> DEFINE q == [NoReq EXCEPT !.op = "save", !.pc = "look", !.cols = ids, !.mode = mode]
    <2>1. q.op = "save" BY DEF NoReq
    <2>2. req' = [req EXCEPT ![r] = q]
          /\ UNCHANGED <<doc, link, bind, object, owed, member, meant, last>>
      BY <1>3 DEF BeginSave, Begin, tables, history
    <2> HIDE DEF q
    <2>3. req'[r] = q /\ \A s \in Clients \ {r} : Follows(s) BY <2>2, ReplacedFollow
    <2>4. Fine(r)' BY <2>1, <2>3, IdleFine DEF Deletion
    <2> QED BY <1>0, <2>2, <2>3, <2>4, TablesStay
  <1>4. CASE Ask(r)
    <2> DEFINE q == [NoReq EXCEPT !.op = "ask", !.pc = "mode", !.cols = bind.ids]
    <2>1. q.op = "ask" /\ q.pc = "mode" /\ q.cols = bind.ids BY DEF NoReq
    <2>2. req' = [req EXCEPT ![r] = q] /\ bind.ids # {}
          /\ UNCHANGED <<doc, link, bind, object, owed, member, meant, last>>
      BY <1>4 DEF Ask, Begin, tables, history
    <2> HIDE DEF q
    <2>3. req'[r] = q /\ \A s \in Clients \ {r} : Follows(s) BY <2>2, ReplacedFollow
    <2>4. Fine(r)'
      BY <2>1, <2>2, <2>3 DEF Fine, ImportFits, DeletionClears, AskFits, Deletion, Kept, BindMeant
    <2> QED BY <1>0, <2>2, <2>3, <2>4, TablesStay
  <1> QED BY <1>1, <1>2, <1>3, <1>4

\* A request that ends, or goes on without changing the tables.
LEMMA StepKeeps ==
  ASSUME IType, Kept, NEW r \in Clients,
         \/ ValidateObject(r) \/ LookUp(r) \/ RequireTrashed(r) \/ PrepareDeletion(r)
         \/ Stopped(r) \/ FindCollections(r) \/ ReadMode(r) \/ Search(r) \/ Answered(r)
  PROVE  Kept'
  <1>1. UNCHANGED <<doc, link, bind, object, owed, member, meant, last>>
    BY DEF ValidateObject, LookUp, RequireTrashed, PrepareDeletion, Stopped, FindCollections,
           ReadMode, Search, Answered, tables, history
  <1>2. req[r].pc # "unlink"
    BY DEF ValidateObject, LookUp, RequireTrashed, PrepareDeletion, Stopped, FindCollections,
           ReadMode, Search, Answered
  <1>3. req[r] \in Request /\ Placed(req[r]) BY RequestType
  <1>4. CASE End(r)
    <2>1. req' = [req EXCEPT ![r] = NoReq] BY <1>4 DEF End, Continue
    <2>2. req'[r] = NoReq /\ \A s \in Clients \ {r} : Follows(s) BY <2>1, ReplacedFollow
    <2>3. Fine(r)' BY <2>2, IdleFine DEF Deletion, NoReq
    <2> QED BY <1>1, <1>2, <2>2, <2>3, TablesStay
  <1>5. ASSUME NEW pc \in {"look", "save", "prepare"}, Continue(r, [req[r] EXCEPT !.pc = pc])
        PROVE  Kept'
    BY <1>1, <1>2, <1>5, PlaceFollows, TablesStay
  <1>6. CASE Stopped(r)
    BY <1>1, <1>6, PlaceFollows, TablesStay DEF Stopped
  <1>7. ASSUME NEW q, Continue(r, q), ImportFits(r)', DeletionClears(r)', AskFits(r)' PROVE Kept'
    <2>1. \A s \in Clients \ {r} : Follows(s) BY <1>7, ReplacedFollow DEF Continue
    <2>2. Fine(r)' BY <1>7 DEF Fine
    <2> QED BY <1>1, <1>2, <2>1, <2>2, TablesStay
  <1>8. CASE LookUp(r) /\ ~End(r)
    <2> DEFINE c == CHOOSE x \in req[r].cols : TRUE
    <2>1. req[r].op = "import" /\ req[r].file \in Files BY <1>3, <1>8 DEF LookUp, Placed
    <2>2. req[r].cols = {c}
      <3>1. \E x \in ColIds : req[r].cols = {x} BY <1>3, <2>1 DEF Placed
      <3> QED BY <3>1
    <2> HIDE DEF c
    <2>3. ASSUME NEW d \in RowOf(req[r].file),
                 Continue(r, [req[r] EXCEPT !.pc = "save", !.doc = d,
                                            !.seen = [trashed |-> doc[d].trashed,
                                                      linked |-> <<d, c>> \in link]])
          PROVE  Kept'
      <3> DEFINE q == [req[r] EXCEPT !.pc = "save", !.doc = d,
                                     !.seen = [trashed |-> doc[d].trashed,
                                               linked |-> <<d, c>> \in link]]
      <3>1. /\ q.op = "import" /\ q.doc = d /\ q.file = req[r].file /\ q.cols = {c}
            /\ q.touched = req[r].touched
            /\ q.seen.trashed = doc[d].trashed /\ q.seen.linked = (<<d, c>> \in link)
        BY <1>3, <2>1, <2>2 DEF Request
      <3>2. d \in DocIds /\ doc[d].file = req[r].file BY DEF RowOf
      <3>3. Exists(d) BY <2>1, <3>2, ITypeIs, RowsFile
      <3>4. req' = [req EXCEPT ![r] = q] BY <2>3 DEF Continue
      <3> HIDE DEF q
      <3>5. req'[r] = q BY <3>4, ReplacedFollow
      <3>6. Found(r)' BY <1>1, <3>1, <3>3, <3>5 DEF Found, Exists
      <3>7. ~req[r].touched => req[r].file \in object BY <2>1 DEF Kept, Fine, ImportFits
      <3>8. ImportFits(r)' BY <1>1, <3>1, <3>2, <3>5, <3>6, <3>7 DEF ImportFits, Exists
      <3>9. DeletionClears(r)' /\ AskFits(r)' BY <3>1, <3>5 DEF DeletionClears, AskFits, Deletion
      <3>10. Continue(r, q) BY <2>3 DEF q
      <3> QED BY <1>7, <3>8, <3>9, <3>10
    <2> QED BY <1>5, <1>8, <2>3 DEF LookUp, c
  <1>9. CASE PrepareDeletion(r) /\ ~End(r)
    <2> DEFINE d == req[r].doc
               active == {j \in Jobs : job[j].doc = d}
               q == [req[r] EXCEPT !.pc = "wait", !.jobs = active, !.file = doc[d].file]
    <2>1. req[r].op \in Deletion BY <1>3, <1>9 DEF PrepareDeletion, Placed
    <2>2. q.op = req[r].op /\ q.doc = d /\ q.file = doc[d].file BY <1>3 DEF Request
    <2>3. Continue(r, q) BY <1>9 DEF PrepareDeletion
    <2> HIDE DEF q, active
    <2>4. req'[r] = q BY <2>3, ReplacedFollow DEF Continue
    <2>5. DeletionClears(r)' BY <1>1, <2>1, <2>2, <2>4 DEF Kept, Fine, DeletionClears, Exists
    <2>6. ImportFits(r)' /\ AskFits(r)' BY <2>1, <2>2, <2>4 DEF ImportFits, AskFits, Deletion
    <2> QED BY <1>7, <2>3, <2>5, <2>6
  <1>10. CASE ReadMode(r) /\ ~End(r)
    <2> DEFINE q == [req[r] EXCEPT !.pc = "search"]
    <2>1. req[r].pc = "mode" /\ req[r].op = "ask" /\ bind.mode = "allow_model_context"
      BY <1>3, <1>10 DEF ReadMode, Placed
    <2>2. q.op = "ask" /\ q.pc = "search" /\ q.cols = req[r].cols /\ q.touched = req[r].touched
      BY <1>3, <2>1 DEF Request
    <2>3. Continue(r, q) BY <1>10 DEF ReadMode
    <2> HIDE DEF q
    <2>4. req'[r] = q BY <2>3, ReplacedFollow DEF Continue
    <2>5. AskFits(r)' BY <1>1, <2>1, <2>2, <2>4 DEF Kept, Fine, AskFits
    <2>6. ImportFits(r)' /\ DeletionClears(r)'
      BY <2>2, <2>4 DEF ImportFits, DeletionClears, Deletion
    <2> QED BY <1>7, <2>3, <2>5, <2>6
  <1>11. CASE Search(r)
    <2> DEFINE hits == Hits(req[r].cols)
               q == [req[r] EXCEPT !.pc = "prompt", !.hits = hits]
    <2>1. req[r].op = "ask" BY <1>3, <1>11 DEF Search, Placed
    <2>2. q.op = "ask" /\ q.pc = "prompt" /\ q.cols = req[r].cols /\ q.touched = req[r].touched
      BY <1>3, <2>1 DEF Request
    <2>3. Continue(r, q) BY <1>11 DEF Search
    <2> HIDE DEF q, hits
    <2>4. req'[r] = q BY <2>3, ReplacedFollow DEF Continue
    <2>5. AskFits(r)' BY <1>1, <2>1, <2>2, <2>4 DEF Kept, Fine, AskFits
    <2>6. ImportFits(r)' /\ DeletionClears(r)'
      BY <2>2, <2>4 DEF ImportFits, DeletionClears, Deletion
    <2> QED BY <1>7, <2>3, <2>5, <2>6
  <1>12. CASE \/ ValidateObject(r) \/ RequireTrashed(r) \/ FindCollections(r) \/ Answered(r)
    BY <1>4, <1>5, <1>12 DEF ValidateObject, RequireTrashed, FindCollections, Answered
  <1> QED BY <1>4, <1>6, <1>8, <1>9, <1>10, <1>11, <1>12

LEMMA WorkKeeps ==
  ASSUME IType, Kept, NEW j \in Jobs,
         StartJob(j) \/ Parsed(j) \/ ReplaceChunks(j) \/ ReplaceIndex(j)
  PROVE  Kept'
  <1>1. UNCHANGED <<doc, link, bind, object, owed, member, meant, last>>
    BY DEF StartJob, Parsed, ReplaceChunks, ReplaceIndex, tables, history
  <1>2. UNCHANGED req \/ JobEnds(j) BY DEF StartJob, Parsed, ReplaceChunks, ReplaceIndex
  <1> QED BY <1>1, <1>2, SameFollow, JobEndsFollow, TablesStay

\* A new link is to a collection the file was put into.
LEMMA AddKeeps ==
  ASSUME IType, Names, Kept, NEW d \in DocIds, NEW c \in ColIds, AddToCollection(d, c)
  PROVE  Kept'
  <1>1. /\ link' = link \cup {<<d, c>>} /\ member' = member \cup {<<doc[d].file, col[c]>>}
        /\ col[c] # NoCollection
        /\ UNCHANGED <<doc, bind, object, owed, meant, last, req>>
    BY DEF AddToCollection, Existing
  <1>2. RowsKept /\ RowsLive BY <1>1, SameKept
  <1>3. col[c] = last[c] BY <1>1 DEF Names
  <1>4. LinksMeant' BY <1>1, <1>3 DEF Kept, LinksMeant, Exists
  <1> QED BY <1>1, <1>2, <1>4, SameFollow, NothingMissing

LEMMA RowsKeep ==
  ASSUME IType, Kept,
         \E d \in DocIds : Restore(d) \/ Rebuild(d)
  PROVE  Kept'
  <1>1. PICK d \in DocIds : Restore(d) \/ Rebuild(d) OBVIOUS
  <1>2. UNCHANGED <<link, object, owed, bind, meant, last, member, req>>
    BY <1>1 DEF Restore, Rebuild, tables, history
  <1>3. CASE Restore(d)
    <2>1. RowsLive BY <1>3, RestoredLive DEF Restore
    <2>2. LinksMeant' BY <1>2, <2>1, LinksStay DEF Kept, RowsLive
    <2> QED BY <1>2, <2>1, <2>2, SameFollow, NothingMissing
  <1>4. CASE Rebuild(d)
    <2>1. UNCHANGED doc BY <1>4 DEF Rebuild, tables
    <2> QED BY <1>2, <2>1, SameFollow, TablesStay
  <1> QED BY <1>1, <1>3, <1>4

LEMMA DeleteCollectionKeeps ==
  ASSUME IType, Kept, NEW c \in ColIds, DeleteCollection(c) PROVE Kept'
  <1>1. /\ UNCHANGED <<doc, link, bind, object, member, meant, last, req>>
        /\ owed' \subseteq owed
    BY DEF DeleteCollection
  <1>2. RowsKept /\ RowsLive BY <1>1, SameKept
  <1>3. LinksMeant' BY <1>1, <1>2, LinksStay DEF Kept
  <1> QED BY <1>1, <1>2, <1>3, SameFollow, NothingMissing

LEMMA CreateCollectionKeeps ==
  ASSUME IType, Kept, NEW n \in Collections, CreateCollection(n), ~reused' PROVE Kept'
  <1>1. PICK c \in NextId(ColIds, Existing) :
          /\ last' = [last EXCEPT ![c] = n]
          /\ ~ \/ reused
               \/ \E d \in DocIds : <<d, c>> \in link
               \/ c \in bind.ids
               \/ \E r \in Clients : c \in req[r].cols
    BY DEF CreateCollection
  <1>2. UNCHANGED <<doc, link, bind, object, owed, member, meant, req>>
    BY DEF CreateCollection
  <1>3. \A e : e # c => last'[e] = last[e]
    BY <1>1
  <1>4. LinksMeant' BY <1>1, <1>2, <1>3 DEF Kept, LinksMeant, Exists
  <1>5. BindMeant' BY <1>1, <1>2, <1>3 DEF Kept, BindMeant
  <1>6. Reached' BY <1>2 DEF Kept, Reached, Holds, Live, Exists
  <1>7. ASSUME NEW r \in Clients PROVE Fine(r)'
    <2>1. Fine(r) BY DEF Kept
    <2>2. ImportFits(r)' BY <1>2, <2>1 DEF Fine, ImportFits, Found, Unlinking, Exists
    <2>3. DeletionClears(r)' BY <1>2, <2>1 DEF Fine, DeletionClears, Exists
    <2>4. AskFits(r)' BY <1>1, <1>2, <1>3, <2>1 DEF Fine, AskFits
    <2> QED BY <2>2, <2>3, <2>4 DEF Fine
  <1> QED BY <1>4, <1>5, <1>6, <1>7 DEF Kept

-----------------------------------------------------------------------------
(* Steps that take something of one file away *)

OnlyLoses(f) ==
  /\ \A d \in DocIds : doc[d].file # f => doc'[d] = doc[d]
  /\ \A d \in DocIds : Exists(d)' => Exists(d) /\ doc'[d].file = doc[d].file
  /\ object \ {f} \subseteq object'
  /\ \A d \in DocIds, c \in ColIds : <<d, c>> \in link /\ doc[d].file # f => <<d, c>> \in link'
  /\ \A g \in Files \ {f} : Unlinking(g) => Unlinking(g)'

\* A request that such a step leaves alone was overtaken by it, or its object is there.
Overtakes(s, f) ==
  req[s].op = "import" /\ req[s].file = f =>
    \/ req'[s].touched
    \/ object \subseteq object' /\ \E r \in Clients : req'[r].pc = "unlink" /\ req'[r].file = f

LEMMA ImportLoses ==
  ASSUME IType, NEW s \in Clients, Follows(s), ImportFits(s), NEW f, OnlyLoses(f), Overtakes(s, f)
  PROVE  ImportFits(s)'
  <1> SUFFICES ASSUME req[s].op = "import" PROVE ImportFits(s)'
    BY DEF Follows, ImportFits
  <1>1. /\ req[s].doc # 0 => req[s].doc \in DocIds
        /\ req[s].file \in Files /\ req[s].cols \subseteq ColIds
    BY RequestType DEF Placed
  <1>2. /\ req'[s].op = "import" /\ req'[s].doc = req[s].doc /\ req'[s].file = req[s].file
        /\ req'[s].cols = req[s].cols
        /\ req'[s].seen = req[s].seen /\ (req[s].touched => req'[s].touched)
    BY DEF Follows
  <1>3. ASSUME req[s].doc # 0, Exists(req[s].doc)' PROVE doc'[req[s].doc].file = req[s].file
    <2>1. Exists(req[s].doc) /\ doc'[req[s].doc].file = doc[req[s].doc].file
      BY <1>1, <1>2, <1>3 DEF OnlyLoses, Exists
    <2> QED BY <1>3, <2>1 DEF ImportFits
  <1>4. ASSUME ~req'[s].touched PROVE req[s].file \in object'
    <2>1. req[s].file \in object BY <1>2, <1>4 DEF ImportFits
    <2> QED BY <1>4, <2>1 DEF OnlyLoses, Overtakes
  <1>5. ASSUME ~req'[s].touched, req[s].doc # 0 PROVE Found(s)' \/ Unlinking(req[s].file)'
    <2>1. Found(s) \/ Unlinking(req[s].file) BY <1>2, <1>5 DEF ImportFits
    <2>2. CASE req[s].file = f BY <1>2, <1>5, <2>2 DEF Overtakes, Unlinking
    <2>3. CASE req[s].file # f /\ Unlinking(req[s].file) BY <1>1, <1>2, <2>3 DEF OnlyLoses, Unlinking
    <2>4. CASE req[s].file # f /\ Found(s)
      <3>1. Exists(req[s].doc) BY <2>4 DEF Found
      <3>2. doc[req[s].doc].file # f BY <1>5, <2>4, <3>1 DEF ImportFits
      <3>3. doc'[req[s].doc] = doc[req[s].doc] BY <1>1, <1>5, <3>2 DEF OnlyLoses
      <3>4. \A c \in req[s].cols : <<req[s].doc, c>> \in link => <<req[s].doc, c>> \in link'
        BY <1>1, <1>5, <3>2 DEF OnlyLoses
      <3> QED BY <1>2, <2>4, <3>3, <3>4 DEF Found, Exists
    <2> QED BY <2>1, <2>2, <2>3, <2>4
  <1> QED BY <1>2, <1>3, <1>4, <1>5 DEF ImportFits, Exists, Unlinking

LEMMA DeletionLoses ==
  ASSUME IType, HistoryOK, NEW s \in Clients, Follows(s), DeletionClears(s),
         NEW f, OnlyLoses(f), owed' \subseteq owed
  PROVE  DeletionClears(s)'
  <1> SUFFICES ASSUME req[s].op \in Deletion PROVE DeletionClears(s)'
    BY DEF Follows, DeletionClears
  <1>1. req[s].doc \in DocIds BY RequestType DEF Placed
  <1>2. /\ req'[s].op = req[s].op /\ req'[s].doc = req[s].doc /\ req'[s].file = req[s].file
        /\ req'[s].pc \in {"wait", "finalize"} => req[s].pc \in {"wait", "finalize"}
    BY DEF Follows
  <1>3. CASE Exists(req[s].doc)'
    <2>1. Exists(req[s].doc) /\ doc'[req[s].doc].file = doc[req[s].doc].file
      BY <1>1, <1>2, <1>3 DEF OnlyLoses, Exists
    <2> QED BY <1>2, <2>1 DEF DeletionClears
  <1>4. CASE ~Exists(req[s].doc)'
    <2>1. doc'[req[s].doc].file = NoFile BY <1>2, <1>4 DEF Exists, NoDoc
    <2>2. \A c \in ColIds : <<NoFile, c>> \notin owed' BY OwedType
    <2> QED BY <1>2, <1>4, <2>1, <2>2 DEF DeletionClears
  <1> QED BY <1>3, <1>4

LEMMA NothingElseMissing ==
  ASSUME IType, HistoryOK, Kept, NEW f, OnlyLoses(f), owed' \subseteq owed,
         UNCHANGED <<bind, meant, last>>, LinksMeant', Reached',
         \A s \in Clients : (Follows(s) /\ Overtakes(s, f)) \/ Fine(s)'
  PROVE  Kept'
  <1>1. ASSUME NEW s \in Clients, Follows(s), Overtakes(s, f) PROVE Fine(s)'
    <2>1. Fine(s) BY DEF Kept
    <2>2. ImportFits(s)' BY <1>1, <2>1, ImportLoses DEF Fine
    <2>3. DeletionClears(s)' BY <1>1, <2>1, DeletionLoses DEF Fine
    <2>4. AskFits(s)' BY <1>1, <2>1, AskStays DEF Fine
    <2> QED BY <2>2, <2>3, <2>4 DEF Fine
  <1>2. BindMeant' BY DEF Kept, BindMeant
  <1> QED BY <1>1, <1>2 DEF Kept

LEMMA OthersReached ==
  ASSUME Reached, NEW f, OnlyLoses(f), owed' \subseteq owed,
         \A c \in ColIds : <<f, c>> \notin owed
  PROVE  Reached'
  <1> SUFFICES ASSUME NEW g \in Files, NEW c \in ColIds, <<g, c>> \in owed' PROVE Holds(g, c)'
    BY DEF Reached
  <1>1. g # f /\ Holds(g, c) BY DEF Reached
  <1>2. PICK d \in DocIds : Live(d) /\ doc[d].file = g /\ <<d, c>> \in link BY <1>1 DEF Holds
  <1>3. doc'[d] = doc[d] /\ <<d, c>> \in link' BY <1>1, <1>2 DEF OnlyLoses
  <1>4. Live(d)' /\ doc'[d].file = g BY <1>2, <1>3 DEF Live, Exists
  <1>5. g \in object' BY <1>1 DEF Holds, OnlyLoses
  <1> QED BY <1>3, <1>4, <1>5 DEF Holds

LEMMA RemoveKeeps ==
  ASSUME IType, Inv, HistoryOK, Names, Kept, NEW d \in DocIds, NEW c \in ColIds,
         RemoveFromCollection(d, c)
  PROVE  Kept'
  <1> DEFINE f == doc[d].file
  <1>1. /\ Exists(d) /\ col[c] # NoCollection
        /\ link' = link \ {<<d, c>>} /\ member' = member \ {<<f, col[c]>>}
        /\ owed' = owed \ {<<f, c>>} /\ req' = Overtaken(req, Imports(f))
        /\ UNCHANGED <<doc, bind, object, meant, last>>
    BY DEF RemoveFromCollection, LinksWithout, Existing
  <1>2. ASSUME NEW s \in Clients
        PROVE  Follows(s) /\ (s \in Imports(f) => req'[s].touched) /\ req'[s].pc = req[s].pc
    BY <1>1, RequestType, OvertakenFollow
  <1>3. OnlyLoses(f)
    <2>1. ASSUME NEW g, Unlinking(g) PROVE Unlinking(g)' BY <1>2, <2>1, UnlinkingStays
    <2> QED BY <1>1, <2>1 DEF OnlyLoses, Exists
  <1>4. \A s \in Clients : Overtakes(s, f) BY <1>2 DEF Overtakes, Imports
  <1>5. LinksMeant'
    <2>1. ASSUME NEW e \in DocIds, NEW k \in ColIds, <<e, k>> \in link', Exists(e)
          PROVE  <<doc[e].file, last[k]>> \in member'
      <3>1. <<e, k>> \in link /\ <<e, k>> # <<d, c>> BY <1>1, <2>1
      <3>2. <<doc[e].file, last[k]>> \in member BY <2>1, <3>1 DEF Kept, LinksMeant
      <3>3. ASSUME doc[e].file = f, last[k] = col[c] PROVE FALSE
        <4>1. e = d BY <2>1, <3>3 DEF Inv, OneRow
        <4>2. col[c] = last[c] BY <1>1 DEF Names
        <4>3. k = c BY <1>1, <3>3, <4>2 DEF Names
        <4> QED BY <3>1, <4>1, <4>3
      <3> QED BY <1>1, <3>2, <3>3
    <2> QED BY <1>1, <2>1 DEF LinksMeant, Exists
  <1>6. Reached'
    <2>1. ASSUME NEW g \in Files, NEW k \in ColIds, <<g, k>> \in owed' PROVE Holds(g, k)'
      <3>1. <<g, k>> # <<f, c>> /\ Holds(g, k) BY <1>1, <2>1 DEF Kept, Reached
      <3>2. PICK e \in DocIds : Live(e) /\ doc[e].file = g /\ <<e, k>> \in link
        BY <3>1 DEF Holds
      <3>3. <<e, k>> \in link' BY <1>1, <3>1, <3>2
      <3> QED BY <1>1, <3>1, <3>2, <3>3 DEF Holds, Live, Exists
    <2> QED BY <2>1 DEF Reached
  <1> HIDE DEF f
  <1>7. owed' \subseteq owed BY <1>1
  <1> QED BY <1>1, <1>2, <1>3, <1>4, <1>5, <1>6, <1>7, NothingElseMissing

LEMMA TrashKeeps ==
  ASSUME IType, HistoryOK, Kept, NEW r \in Clients, MoveToTrash(r) PROVE Kept'
  <1> DEFINE d == req[r].doc
             f == doc[d].file
  <1>1. req[r].op = "trash" /\ req[r].pc = "finalize" /\ req[r].op \in Deletion
    BY DEF MoveToTrash, Deletion
  <1>2. d \in DocIds BY <1>1, RequestType DEF Placed
  <1>3. req' = Overtaken([req EXCEPT ![r] = NoReq], Imports(f))
        /\ UNCHANGED <<link, bind, object, owed, member, meant, last>>
    BY DEF MoveToTrash, history
  <1>4. /\ req'[r].op = "none"
        /\ \A s \in Clients \ {r} : Follows(s) /\ (s \in Imports(f) => req'[s].touched)
    BY <1>3, EndedFollow
  <1>5. Fine(r)' BY <1>4, IdleFine DEF Deletion
  <1>6. \A s \in Clients \ {r} : Overtakes(s, f) BY <1>4 DEF Overtakes, Imports
  <1>7. RowsKept /\ \A e \in DocIds \ {d} : doc'[e] = doc[e]
    <2>1. CASE Exists(d)
      <3>1. doc' = [doc EXCEPT ![d].trashed = TRUE] BY <2>1 DEF MoveToTrash
      <3> QED BY <1>2, <2>1, <3>1, TrashedRow, ITypeIs DEF TablesOK
    <2>2. CASE ~Exists(d) BY <2>2, SameRows DEF MoveToTrash
    <2> QED BY <2>1, <2>2
  <1>8. OnlyLoses(f)
    <2>1. ASSUME NEW g, Unlinking(g) PROVE Unlinking(g)'
      BY <1>1, <1>4, <2>1, UnlinkingStays
    <2> QED BY <1>3, <1>7, <2>1 DEF OnlyLoses, RowsKept
  <1>9. LinksMeant' BY <1>3, <1>7, LinksStay DEF Kept
  <1>10. \A c \in ColIds : <<f, c>> \notin owed
    BY <1>1 DEF Kept, Fine, DeletionClears
  <1> HIDE DEF f
  <1>11. owed' \subseteq owed /\ Reached' BY <1>3, <1>8, <1>10, OthersReached DEF Kept
  <1> QED BY <1>3, <1>4, <1>5, <1>6, <1>8, <1>9, <1>11, NothingElseMissing

LEMMA PurgeKeeps ==
  ASSUME IType, Inv, HistoryOK, Kept, NEW r \in Clients, Purge(r) PROVE Kept'
  <1> DEFINE d == req[r].doc
             f == doc[d].file
  <1>1. req[r].op = "purge" /\ req[r].pc = "finalize" /\ req[r].op \in Deletion
    BY DEF Purge, Deletion
  <1>2. d \in DocIds BY <1>1, RequestType DEF Placed
  <1>3. UNCHANGED <<link, bind, object, owed, meant, last>> BY DEF Purge
  <1>4. CASE ~Exists(d)
    <2>1. req' = [req EXCEPT ![r] = NoReq] /\ UNCHANGED <<doc, member>>
      BY <1>4 DEF Purge, End, Continue
    <2>2. req'[r] = NoReq /\ \A s \in Clients \ {r} : Follows(s) BY <2>1, ReplacedFollow
    <2>3. Fine(r)' BY <2>2, IdleFine DEF Deletion, NoReq
    <2> QED BY <1>1, <1>3, <2>1, <2>2, <2>3, TablesStay
  <1>5. CASE Exists(d)
    <2>1. /\ Continue(r, [req[r] EXCEPT !.pc = "unlink"])
          /\ doc' = [doc EXCEPT ![d] = NoDoc]
          /\ member' = {m \in member : m[1] # f}
      BY <1>5 DEF Purge
    <2>2. req'[r].pc = "unlink" /\ \A s \in Clients : Follows(s)
      BY <2>1, PlaceFollows
    <2>3. doc'[d] = NoDoc /\ \A e \in DocIds \ {d} : doc'[e] = doc[e]
      BY <1>2, <2>1, ITypeIs DEF TablesOK
    <2>4. req[r].file = f BY <1>1, <1>5 DEF Kept, Fine, DeletionClears
    <2>5. req'[r].pc = "unlink" /\ req'[r].file = f BY <2>2, <2>4 DEF Follows
    <2>6. \A s \in Clients : Overtakes(s, f) BY <1>3, <2>5 DEF Overtakes
    <2>7. OnlyLoses(f)
      <3>1. ASSUME NEW g, Unlinking(g) PROVE Unlinking(g)' BY <2>2, <3>1, UnlinkingStays
      <3> QED BY <1>3, <2>3, <3>1 DEF OnlyLoses, Exists
    <2>8. LinksMeant'
      <3>1. ASSUME NEW e \in DocIds, NEW c \in ColIds, <<e, c>> \in link, Exists(e)'
            PROVE  <<doc'[e].file, last[c]>> \in member'
        <4>1. e # d /\ doc'[e] = doc[e] /\ Exists(e) BY <2>3, <3>1 DEF Exists
        <4>2. <<doc[e].file, last[c]>> \in member BY <3>1, <4>1 DEF Kept, LinksMeant
        <4>3. doc[e].file # f BY <1>2, <4>1 DEF Inv, OneRow
        <4> QED BY <2>1, <4>1, <4>2, <4>3
      <3> QED BY <1>3, <3>1 DEF LinksMeant
    <2>9. \A c \in ColIds : <<f, c>> \notin owed
      BY <1>1 DEF Kept, Fine, DeletionClears
    <2> HIDE DEF f
    <2>10. owed' \subseteq owed /\ Reached' BY <1>3, <2>7, <2>9, OthersReached DEF Kept
    <2> QED BY <1>3, <2>2, <2>6, <2>7, <2>8, <2>10, NothingElseMissing
  <1> QED BY <1>4, <1>5

LEMMA DeleteObjectKeeps ==
  ASSUME IType, HistoryOK, Kept, NEW r \in Clients, DeleteObject(r) PROVE Kept'
  <1> DEFINE f == req[r].file
  <1>1. req[r].pc = "unlink" /\ req[r].op \in Deletion
    BY RequestType DEF DeleteObject, Placed
  <1>2. /\ req' = Overtaken([req EXCEPT ![r] = NoReq], Imports(f))
        /\ object' = object \ {f}
        /\ UNCHANGED <<doc, link, bind, owed, member, meant, last>>
    BY DEF DeleteObject, ObjectsAfterPurge, history
  <1>3. /\ req'[r].op = "none"
        /\ \A s \in Clients \ {r} : Follows(s) /\ (s \in Imports(f) => req'[s].touched)
    BY <1>2, EndedFollow
  <1>4. Fine(r)' BY <1>3, IdleFine DEF Deletion
  <1>5. \A s \in Clients \ {r} : Overtakes(s, f) BY <1>3 DEF Overtakes, Imports
  <1>6. OnlyLoses(f)
    <2>1. ASSUME NEW g \in Files \ {f}, Unlinking(g) PROVE Unlinking(g)'
      <3>1. PICK s \in Clients : req[s].pc = "unlink" /\ req[s].file = g
        BY <2>1 DEF Unlinking
      <3>2. Follows(s) BY <1>3, <2>1, <3>1
      <3> QED BY <3>1, <3>2 DEF Unlinking, Follows
    <2> QED BY <1>2, <2>1 DEF OnlyLoses, Exists
  <1>7. LinksMeant' BY <1>2, SameRows, LinksStay DEF Kept
  <1>8. \A c \in ColIds : <<f, c>> \notin owed
    BY <1>1 DEF Kept, Fine, DeletionClears
  <1> HIDE DEF f
  <1>9. owed' \subseteq owed /\ Reached' BY <1>2, <1>6, <1>8, OthersReached DEF Kept
  <1> QED BY <1>2, <1>3, <1>4, <1>5, <1>6, <1>7, <1>9, NothingElseMissing

LEMMA SaveBindingsKeeps ==
  ASSUME IType, Kept, NEW r \in Clients, SaveBindings(r) PROVE Kept'
  <1>1. /\ bind' = Replaced(req[r].cols, req[r].mode)
        /\ meant' = [names |-> {last[c] : c \in req[r].cols}, mode |-> req[r].mode]
        /\ req' = Overtaken([req EXCEPT ![r] = NoReq], Asks)
        /\ UNCHANGED <<doc, link, object, owed, member, last>>
    BY DEF SaveBindings
  <1>2. /\ req'[r].op = "none"
        /\ \A s \in Clients \ {r} : Follows(s) /\ (s \in Asks => req'[s].touched)
    BY <1>1, EndedFollow
  <1>3. RowsKept /\ RowsLive BY <1>1, SameKept
  <1>4. LinksMeant' BY <1>1, <1>3, LinksStay DEF Kept
  <1>5. Reached' BY <1>1, <1>3, ReachedStays DEF Kept
  <1>6. BindMeant' BY <1>1 DEF BindMeant, Replaced, NoBinding
  <1>7. ASSUME NEW s \in Clients PROVE Fine(s)'
    <2>1. CASE s = r BY <1>2, <2>1, IdleFine DEF Deletion
    <2>2. CASE s # r
      <3>1. Follows(s) /\ (s \in Asks => req'[s].touched) /\ Fine(s)
        BY <1>2, <2>2 DEF Kept
      <3>2. Unlinking(req[s].file) => Unlinking(req[s].file)'
        <4>1. ASSUME NEW g, Unlinking(g) PROVE Unlinking(g)'
          <5>1. req[r].pc # "unlink" BY DEF SaveBindings
          <5> QED BY <1>2, <4>1, <5>1, UnlinkingStays
        <4> QED BY <3>1, <4>1 DEF Follows, Unlinking
      <3>3. ImportFits(s)' BY <1>1, <1>3, <3>1, <3>2, ImportStays DEF Fine
      <3>4. DeletionClears(s)' BY <1>1, <1>3, <3>1, DeletionStays DEF Fine
      <3>5. AskFits(s)' BY <3>1 DEF AskFits, Asks, Follows
      <3> QED BY <3>3, <3>4, <3>5 DEF Fine
    <2> QED BY <2>1, <2>2
  <1> QED BY <1>4, <1>5, <1>6, <1>7 DEF Kept

-----------------------------------------------------------------------------
(* An import that is saved *)

\* The document is there as before, if it is not the new one.
Stayed(x) ==
  /\ Exists(x)' <=> Exists(x)
  /\ doc'[x].file = doc[x].file
  /\ doc'[x].trashed => doc[x].trashed

\* The rows and links after an import that was saved with this document, and whom it
\* answered.
Saves(r, d) ==
  /\ doc' = [doc EXCEPT ![d] = SavedRow(d, req[r])]
  /\ link' = SavedLinks(d, req[r])
  /\ d \in IF req[r].doc = 0 THEN NextId(DocIds, {e \in DocIds : Exists(e)}) ELSE {req[r].doc}
  /\ \/ owed' = owed
     \/ /\ ~req[r].touched /\ ~Deleting(d, req[r].file)
        /\ owed' = owed \cup {<<req[r].file, c>> : c \in req[r].cols \cap Existing}
  /\ req[r].doc = 0 => /\ \A c \in ColIds : <<d, c>> \notin link
                       /\ \A o \in Clients \ {r} : req[o].doc # d

LEMMA SavesOne ==
  ASSUME NEW r \in Clients, SaveImport(r), ~reused',
         ~UNCHANGED <<doc, link, job, owed, gone, member, reused>>
  PROVE  ~Conflicts(req[r]) /\ \E d \in DocIds \cup {req[r].doc} : Saves(r, d)
  <1> DEFINE q == req[r]
             Named(d) == \/ \E c \in ColIds : <<d, c>> \in link
                         \/ d \in fts
                         \/ \E o \in Clients \ {r} : req[o].doc = d
                         \/ \E j \in Jobs : job[j].doc = d
  <1>1. ~Conflicts(q) BY DEF SaveImport
  <1>2. PICK d \in IF q.doc = 0 THEN NextId(DocIds, {e \in DocIds : Exists(e)}) ELSE {q.doc} :
          /\ doc' = [doc EXCEPT ![d] = SavedRow(d, q)]
          /\ link' = SavedLinks(d, q)
          /\ owed' = IF q.touched \/ Deleting(d, q.file) THEN owed
                     ELSE owed \cup {<<q.file, c>> : c \in q.cols \cap Existing}
          /\ reused' = (reused \/ (q.doc = 0 /\ Named(d)))
    BY DEF SaveImport
  <1>3. q.doc = 0 => ~Named(d) BY <1>2
  <1>4. d \in DocIds \cup {q.doc} BY <1>2 DEF NextId
  <1>5. \/ owed' = owed
        \/ /\ ~q.touched /\ ~Deleting(d, q.file)
           /\ owed' = owed \cup {<<q.file, c>> : c \in q.cols \cap Existing}
    BY <1>2
  <1>6. Saves(r, d) BY <1>2, <1>3, <1>5 DEF Saves
  <1> QED BY <1>1, <1>4, <1>6

LEMMA SavedRows ==
  ASSUME IType, Kept, NEW r \in Clients, req[r].op = "import", ~Conflicts(req[r]),
         NEW d, Saves(r, d)
  PROVE  /\ d \in DocIds /\ link \subseteq link'
         /\ \A x \in DocIds : req[r].doc # 0 \/ x # d => Stayed(x)
         /\ req[r].doc = 0 => /\ ~Exists(d) /\ \A x \in DocIds : doc[x].file # req[r].file
                              /\ ~req[r].seen.linked
         /\ Exists(d)' => doc'[d].file = req[r].file
         /\ \A e \in DocIds, c \in ColIds :
              <<e, c>> \in link' => <<e, c>> \in link \/ (e = d /\ c \in req[r].cols)
         /\ ~req[r].seen.linked => \A c \in req[r].cols : <<d, c>> \in link'
  <1> DEFINE q == req[r]
  <1>1. q.doc \in DocIds \cup {0} /\ q.file \in Files /\ q.cols \subseteq ColIds
        /\ (q.doc = 0 => ~q.seen.linked)
    BY RequestType DEF Placed
  <1>2. d \in DocIds /\ (q.doc = 0 => ~Exists(d)) /\ (q.doc # 0 => d = q.doc)
    BY <1>1, NewRowIsFree DEF Saves
  <1>3. /\ link \subseteq link'
        /\ \A e \in DocIds, c \in ColIds :
             <<e, c>> \in link' => <<e, c>> \in link \/ (e = d /\ c \in q.cols)
        /\ ~q.seen.linked => \A c \in q.cols : <<d, c>> \in link'
    BY DEF Saves, SavedLinks
  <1>4. doc'[d] = SavedRow(d, q) /\ \A x \in DocIds \ {d} : doc'[x] = doc[x]
    BY <1>2, ITypeIs DEF Saves, TablesOK
  <1>5. \A x \in DocIds \ {d} : Stayed(x) BY <1>4 DEF Stayed, Exists
  <1>6. CASE q.doc = 0
    <2>1. doc'[d] = [file |-> q.file, trashed |-> FALSE] BY <1>4, <1>6 DEF SavedRow
    <2>2. \A x \in DocIds : doc[x].file # q.file BY <1>6 DEF Conflicts, RowOf
    <2> HIDE DEF q
    <2> QED BY <1>1, <1>2, <1>3, <1>5, <1>6, <2>1, <2>2 DEF q
  <1>7. CASE q.doc # 0
    <2>1. d = q.doc BY <1>2, <1>7
    <2>2. Stayed(d)
      <3>1. CASE q.seen.trashed
        <4>1. Exists(d) BY <1>7, <2>1, <3>1 DEF Conflicts
        <4>2. doc' = [doc EXCEPT ![d].trashed = FALSE] BY <1>7, <3>1 DEF Saves, SavedRow
        <4>3. RowsLive BY <1>2, <4>1, <4>2, RestoredLive
        <4> QED BY <1>2, <4>3 DEF RowsLive, RowsKept, Stayed
      <3>2. CASE ~q.seen.trashed
        <4>1. doc'[d] = doc[d] BY <1>4, <1>7, <3>2 DEF SavedRow
        <4> QED BY <4>1 DEF Stayed, Exists
      <3> QED BY <3>1, <3>2
    <2>3. Exists(d) => doc[d].file = q.file BY <1>7, <2>1 DEF Kept, Fine, ImportFits
    <2>4. Exists(d)' => doc'[d].file = q.file BY <2>2, <2>3 DEF Stayed
    <2> HIDE DEF q
    <2> QED BY <1>2, <1>3, <1>5, <1>7, <2>2, <2>4 DEF q
  <1> QED BY <1>6, <1>7

\* What an import answers for is there.
LEMMA SavedHolds ==
  ASSUME IType, Kept, NEW r \in Clients, req[r].op = "import", ~Conflicts(req[r]),
         NEW d, Saves(r, d), ~req[r].touched, ~Deleting(d, req[r].file), UNCHANGED object,
         NEW c \in req[r].cols
  PROVE  /\ req[r].file \in object'
         /\ Live(d)' /\ doc'[d].file = req[r].file /\ <<d, c>> \in link'
         /\ \A x \in DocIds : doc[x].file = req[r].file => x = d \/ ~OneRow
  <1> DEFINE q == req[r]
  <1>1. q.doc \in DocIds \cup {0} /\ q.file \in Files /\ q.cols \subseteq ColIds
    BY RequestType DEF Placed
  <1>2. q.file \in object BY DEF Kept, Fine, ImportFits
  <1>3. /\ d \in DocIds /\ link \subseteq link'
        /\ Exists(d)' => doc'[d].file = q.file
        /\ ~q.seen.linked => <<d, c>> \in link'
    BY SavedRows
  <1>4. doc'[d] = SavedRow(d, q) BY <1>3, ITypeIs DEF Saves, TablesOK
  <1>5. CASE q.doc = 0
    <2>1. doc'[d] = [file |-> q.file, trashed |-> FALSE] BY <1>4, <1>5 DEF SavedRow
    <2>2. Live(d)' BY <1>1, <2>1, LibraryAssumption DEF Live, Exists, NoDoc
    <2>3. ~q.seen.linked /\ \A x \in DocIds : doc[x].file # q.file BY <1>5, SavedRows
    <2> QED BY <1>2, <1>3, <2>2, <2>3 DEF Live
  <1>6. CASE q.doc # 0
    <2>1. d = q.doc BY <1>6 DEF Saves
    <2>2. Found(r)
      <3>1. ~Unlinking(q.file)
        <4>1. ASSUME NEW s \in Clients, req[s].pc = "unlink" PROVE req[s].op \in {"trash", "purge"}
          BY <4>1, RequestType DEF Placed
        <4> QED BY <4>1 DEF Unlinking, Deleting
      <3> QED BY <1>6, <3>1 DEF Kept, Fine, ImportFits
    <2>3. Exists(d) /\ doc[d].file = q.file
      BY <1>6, <2>1, <2>2 DEF Found, Kept, Fine, ImportFits
    <2>4. Stayed(d) BY <1>3, <1>6, SavedRows
    <2>5. ~doc'[d].trashed
      <3>1. CASE q.seen.trashed
        <4>1. doc'[d] = [doc[d] EXCEPT !.trashed = FALSE] BY <1>4, <1>6, <3>1 DEF SavedRow
        <4>2. doc[d] \in Document BY <1>3, <2>3, ITypeIs, RowsFile
        <4> QED BY <4>1, <4>2 DEF Document
      <3>2. CASE ~q.seen.trashed BY <2>1, <2>2, <2>4, <3>2 DEF Found, Stayed
      <3> QED BY <3>1, <3>2
    <2>6. Live(d)' BY <2>3, <2>4, <2>5 DEF Live, Stayed
    <2>7. <<d, c>> \in link' BY <1>3, <2>1, <2>2 DEF Found
    <2> QED BY <1>2, <1>3, <2>3, <2>6, <2>7 DEF Live, OneRow
  <1> QED BY <1>5, <1>6

LEMMA SaveImportKeeps ==
  ASSUME IType, Inv, HistoryOK, Kept, NEW r \in Clients, SaveImport(r), ~reused' PROVE Kept'
  <1> DEFINE q == req[r]
  <1>1. /\ q.op = "import" /\ q.pc = "save" /\ req' = [req EXCEPT ![r] = NoReq]
        /\ UNCHANGED <<bind, object, meant, last>>
    BY DEF SaveImport, End, Continue
  <1>2. req'[r] = NoReq /\ \A s \in Clients \ {r} : Follows(s) BY <1>1, ReplacedFollow
  <1>3. Fine(r)' BY <1>2, IdleFine DEF Deletion, NoReq
  <1>4. CASE UNCHANGED <<doc, link, job, owed, gone, member, reused>>
    BY <1>1, <1>2, <1>3, <1>4, TablesStay
  <1>5. CASE ~UNCHANGED <<doc, link, job, owed, gone, member, reused>>
    <2>1. ~Conflicts(q) /\ member' = member \cup {<<q.file, last[c]>> : c \in q.cols}
      BY <1>5, SavesOne DEF SaveImport
    <2>2. PICK d \in DocIds \cup {q.doc} : Saves(r, d) BY <1>5, SavesOne
    <2> HIDE DEF q
    <2>3. /\ d \in DocIds /\ link \subseteq link'
          /\ \A x \in DocIds : q.doc # 0 \/ x # d => Stayed(x)
          /\ q.doc = 0 => ~Exists(d) /\ \A x \in DocIds : doc[x].file # q.file
          /\ Exists(d)' => doc'[d].file = q.file
          /\ \A e \in DocIds, c \in ColIds :
               <<e, c>> \in link' => <<e, c>> \in link \/ (e = d /\ c \in q.cols)
      BY <1>1, <2>1, <2>2, SavedRows DEF q
    <2>4. q.doc = 0 => /\ \A c \in ColIds : <<d, c>> \notin link
                       /\ \A o \in Clients \ {r} : req[o].doc # d
      BY <2>2 DEF Saves, q
    <2>5. \A x \in DocIds : Exists(x) => Stayed(x) BY <2>3
    <2>6. \A o \in Clients \ {r} : req[o].doc \in DocIds => Stayed(req[o].doc)
      BY <2>3, <2>4
    <2>7. LinksMeant'
      <3>1. ASSUME NEW e \in DocIds, NEW c \in ColIds, <<e, c>> \in link', Exists(e)'
            PROVE  <<doc'[e].file, last'[c]>> \in member'
        <4>1. CASE <<e, c>> \in link
          <5>1. Stayed(e) BY <2>3, <2>4, <4>1
          <5>2. Exists(e) /\ doc'[e].file = doc[e].file BY <3>1, <5>1 DEF Stayed
          <5> QED BY <1>1, <2>1, <4>1, <5>2 DEF Kept, LinksMeant
        <4>2. CASE e = d /\ c \in q.cols BY <1>1, <2>1, <2>3, <3>1, <4>2
        <4> QED BY <2>3, <3>1, <4>1, <4>2
      <3> QED BY <3>1 DEF LinksMeant
    <2>8. ASSUME NEW f \in Files, NEW c \in ColIds, <<f, c>> \in owed' \ owed
          PROVE  /\ f = q.file /\ c \in q.cols
                 /\ ~req[r].touched /\ ~Deleting(d, req[r].file)
      BY <2>2, <2>8 DEF Saves, q
    <2>9. Reached'
      <3>1. ASSUME NEW f \in Files, NEW c \in ColIds, <<f, c>> \in owed' PROVE Holds(f, c)'
        <4>1. CASE <<f, c>> \in owed
          <5>1. Holds(f, c) BY <4>1 DEF Kept, Reached
          <5>2. PICK x \in DocIds : Live(x) /\ doc[x].file = f /\ <<x, c>> \in link
            BY <5>1 DEF Holds
          <5>3. Live(x)' /\ doc'[x].file = f /\ <<x, c>> \in link'
            BY <2>3, <2>5, <5>2 DEF Live, Stayed
          <5> QED BY <1>1, <5>1, <5>3 DEF Holds
        <4>2. CASE <<f, c>> \notin owed
          <5>1. /\ f = req[r].file /\ c \in req[r].cols
                /\ ~req[r].touched /\ ~Deleting(d, req[r].file)
            BY <2>8, <3>1, <4>2 DEF q
          <5>2. /\ f \in object' /\ Live(d)' /\ doc'[d].file = f /\ <<d, c>> \in link'
            BY <1>1, <2>1, <2>2, <5>1, SavedHolds DEF q
          <5> QED BY <2>3, <5>2 DEF Holds
        <4> QED BY <4>1, <4>2
      <3> QED BY <3>1 DEF Reached
    <2>10. BindMeant' BY <1>1 DEF Kept, BindMeant
    <2>11. ASSUME NEW s \in Clients \ {r} PROVE Fine(s)'
      <3>1. Follows(s) /\ Fine(s) BY <1>2 DEF Kept
      <3>2. /\ req'[s].op = req[s].op /\ req'[s].doc = req[s].doc /\ req'[s].file = req[s].file
            /\ req'[s].cols = req[s].cols /\ req'[s].seen = req[s].seen
            /\ req[s].touched => req'[s].touched
            /\ req'[s].pc \in {"wait", "finalize"} => req[s].pc \in {"wait", "finalize"}
        BY <3>1 DEF Follows
      <3>3. ImportFits(s)'
        <4> SUFFICES ASSUME req[s].op = "import" PROVE ImportFits(s)'
          BY <3>2 DEF ImportFits
        <4>1. req[s].doc # 0 => Stayed(req[s].doc) BY <2>6, RequestType
        <4>2. ASSUME NEW g, Unlinking(g) PROVE Unlinking(g)'
          <5>1. req[r].pc # "unlink" BY <1>1 DEF q
          <5> QED BY <1>2, <4>2, <5>1, UnlinkingStays
        <4>3. Unlinking(req[s].file) => Unlinking(req[s].file)' BY <3>2, <4>2 DEF Unlinking
        <4>4. ASSUME req[s].doc # 0, Found(s) PROVE Found(s)'
          BY <2>3, <3>2, <4>1, <4>4 DEF Found, Stayed, Exists
        <4> QED BY <1>1, <3>1, <3>2, <4>1, <4>3, <4>4 DEF Fine, ImportFits, Stayed, Exists
      <3>4. DeletionClears(s)'
        <4> SUFFICES ASSUME req[s].op \in Deletion PROVE DeletionClears(s)'
          BY <3>2 DEF DeletionClears
        <4>1. req[s].doc \in DocIds BY RequestType DEF Placed
        <4>2. Stayed(req[s].doc) BY <2>6, <4>1
        <4>3. ASSUME NEW c \in ColIds, NEW f, f = req[s].file \/ f = doc[req[s].doc].file,
                     <<f, c>> \in owed'
              PROVE  FALSE
          <5>1. <<f, c>> \in owed' \ owed BY <3>1, <4>3 DEF Fine, DeletionClears
          <5>2. f = q.file /\ c \in req[r].cols /\ ~req[r].touched /\ ~Deleting(d, req[r].file)
            BY <2>2, <5>1 DEF Saves, q
          <5>3. req[s].doc # d /\ req[s].file # req[r].file BY <5>2 DEF Deleting, Deletion
          <5>4. f = doc[req[s].doc].file BY <4>3, <5>2, <5>3 DEF q
          <5>5. \A x \in DocIds : doc[x].file = req[r].file => x = d \/ ~OneRow
            BY <1>1, <2>1, <2>2, <5>2, SavedHolds DEF q
          <5>6. req[s].doc = d BY <4>1, <5>2, <5>4, <5>5 DEF q, Inv
          <5> QED BY <5>3, <5>6
        <4> QED BY <3>1, <3>2, <4>2, <4>3 DEF Fine, DeletionClears, Stayed, Exists
      <3>5. AskFits(s)' BY <1>1, <3>1, AskStays DEF Fine
      <3> QED BY <3>3, <3>4, <3>5 DEF Fine
    <2> QED BY <1>3, <2>7, <2>9, <2>10, <2>11 DEF Kept
  <1> QED BY <1>4, <1>5

-----------------------------------------------------------------------------
(* Every step keeps the promises *)

LEMMA HistoryInit == Init => Promised
  <1> SUFFICES ASSUME Init PROVE Promised OBVIOUS
  <1>1. HistoryOK BY DEF Init, HistoryOK, Modes
  <1>2. Names BY DEF Init, Names
  <1>3. req = [r \in Clients |-> NoReq] /\ NoReq.op = "none" BY DEF Init, NoReq
  <1>4. \A r \in Clients : Fine(r)
    BY <1>3 DEF Fine, ImportFits, DeletionClears, AskFits, Deletion
  <1>5. LinksMeant /\ BindMeant /\ Reached
    BY DEF Init, LinksMeant, BindMeant, Reached, NoBinding
  <1> QED BY <1>1, <1>2, <1>4, <1>5 DEF Promised, Kept

LEMMA NamesStay ==
  ASSUME IType, HistoryOK, Names, Next PROVE Names' /\ (reused => reused')
  <1>1. CASE UNCHANGED <<col, last, created>> /\ (reused => reused')
    BY <1>1 DEF Names
  <1>2. ASSUME NEW n \in Collections, CreateCollection(n) PROVE Names' /\ (reused => reused')
    <2>1. PICK c \in NextId(ColIds, Existing) :
            /\ n \notin created /\ created' = created \cup {n}
            /\ col' = [col EXCEPT ![c] = n] /\ last' = [last EXCEPT ![c] = n]
      BY <1>2 DEF CreateCollection
    <2>2. c \in ColIds BY DEF NextId
    <2>3. /\ col'[c] = n /\ last'[c] = n
          /\ \A e \in ColIds \ {c} : col'[e] = col[e] /\ last'[e] = last[e]
      BY <2>1, <2>2, ITypeIs DEF TablesOK, HistoryOK
    <2>4. \A e \in ColIds : last[e] # n
      BY <2>1, LibraryAssumption DEF Names, HistoryOK
    <2>5. Names' BY <2>1, <2>3, <2>4 DEF Names
    <2> QED BY <1>2, <2>5 DEF CreateCollection
  <1>3. ASSUME NEW c \in ColIds, DeleteCollection(c) PROVE Names' /\ (reused => reused')
    BY <1>3, ITypeIs DEF DeleteCollection, Names, TablesOK
  <1>4. CASE Work
    BY <1>1, <1>4 DEF Work, StartJob, Parsed, ReplaceChunks, ReplaceIndex, history, tables
  <1>5. CASE Transactions
    <2>1. PICK r \in Clients :
            \/ ValidateObject(r) \/ LookUp(r) \/ SaveImport(r)
            \/ RequireTrashed(r) \/ PrepareDeletion(r) \/ Stopped(r)
            \/ MoveToTrash(r) \/ Purge(r) \/ DeleteObject(r)
            \/ FindCollections(r) \/ SaveBindings(r)
            \/ ReadMode(r) \/ Search(r) \/ Answered(r)
      BY <1>5 DEF Transactions
    <2>2. UNCHANGED <<col, last, created>>
      BY <2>1 DEF ValidateObject, LookUp, SaveImport, RequireTrashed, PrepareDeletion,
           Stopped, MoveToTrash, Purge, DeleteObject, FindCollections, SaveBindings, ReadMode,
           Search, Answered, tables, history
    <2>3. reused => reused'
      <3>1. CASE SaveImport(r) BY <3>1 DEF SaveImport
      <3>2. CASE ~SaveImport(r)
        BY <2>1, <3>2 DEF ValidateObject, LookUp, RequireTrashed, PrepareDeletion,
           Stopped, MoveToTrash, Purge, DeleteObject, FindCollections, SaveBindings, ReadMode,
           Search, Answered, history
      <3> QED BY <3>1, <3>2
    <2> QED BY <1>1, <2>2, <2>3
  <1>6. CASE Requests
    BY <1>1, <1>2, <1>3, <1>6
       DEF Requests, BeginImport, BeginDeletion, BeginSave, Ask, Restore, Rebuild,
           AddToCollection, RemoveFromCollection, tables, history
  <1> QED BY <1>4, <1>5, <1>6 DEF Next

LEMMA HistoryStays ==
  ASSUME IType, HistoryOK, Next PROVE HistoryOK'
  <1>1. CASE UNCHANGED <<owed, member, meant, created, last>>
    BY <1>1 DEF HistoryOK
  <1>2. CASE /\ UNCHANGED <<meant, created, last>> /\ owed' \subseteq owed
             /\ member' \subseteq member
    BY <1>2 DEF HistoryOK
  <1>3. ASSUME NEW d \in DocIds, NEW c \in ColIds, AddToCollection(d, c) PROVE HistoryOK'
    <2>1. doc[d].file \in Files BY <1>3, ITypeIs, RowsFile DEF AddToCollection
    <2>2. col[c] \in Collections \cup {NoCollection} BY ITypeIs DEF TablesOK
    <2> QED BY <1>3, <2>1, <2>2 DEF AddToCollection, HistoryOK
  <1>4. ASSUME NEW n \in Collections, CreateCollection(n) PROVE HistoryOK'
    BY <1>4 DEF CreateCollection, HistoryOK
  <1>5. ASSUME NEW r \in Clients, SaveImport(r) PROVE HistoryOK'
    <2> DEFINE q == req[r]
    <2>1. q.file \in Files /\ q.cols \subseteq ColIds
      BY <1>5, RequestType DEF SaveImport, Placed
    <2> HIDE DEF q
    <2>2. UNCHANGED <<meant, created, last>> BY <1>5 DEF SaveImport
    <2>3. \/ owed' = owed
          \/ owed' = owed \cup {<<q.file, c>> : c \in q.cols \cap Existing}
      BY <1>5 DEF SaveImport, q
    <2>4. \/ member' = member
          \/ member' = member \cup {<<q.file, last[c]>> : c \in q.cols}
      BY <1>5 DEF SaveImport, q
    <2>5. owed' \subseteq Files \X ColIds BY <2>1, <2>3 DEF HistoryOK
    <2>6. \A c \in q.cols : last[c] \in Collections \cup {NoCollection}
      BY <2>1 DEF HistoryOK
    <2>7. member' \subseteq Files \X (Collections \cup {NoCollection})
      BY <2>1, <2>4, <2>6 DEF HistoryOK
    <2> QED BY <2>2, <2>5, <2>7 DEF HistoryOK
  <1>6. ASSUME NEW r \in Clients, SaveBindings(r) PROVE HistoryOK'
    <2>1. req[r].cols \subseteq ColIds /\ req[r].mode \in Modes
      BY RequestType DEF Request
    <2>2. UNCHANGED <<owed, member, created, last>> BY <1>6 DEF SaveBindings
    <2>3. {last[c] : c \in req[r].cols} \in SUBSET (Collections \cup {NoCollection})
      BY <2>1 DEF HistoryOK
    <2>4. meant' \in [names : SUBSET (Collections \cup {NoCollection}), mode : Modes]
      BY <1>6, <2>1, <2>3 DEF SaveBindings
    <2> QED BY <2>2, <2>4 DEF HistoryOK
  <1>7. CASE Requests
    BY <1>1, <1>2, <1>3, <1>4, <1>7
       DEF Requests, BeginImport, BeginDeletion, BeginSave, Ask, Restore, Rebuild,
           RemoveFromCollection, DeleteCollection, tables, history
  <1>8. CASE Transactions
    <2>1. PICK r \in Clients :
            \/ ValidateObject(r) \/ LookUp(r) \/ SaveImport(r)
            \/ RequireTrashed(r) \/ PrepareDeletion(r) \/ Stopped(r)
            \/ MoveToTrash(r) \/ Purge(r) \/ DeleteObject(r)
            \/ FindCollections(r) \/ SaveBindings(r)
            \/ ReadMode(r) \/ Search(r) \/ Answered(r)
      BY <1>8 DEF Transactions
    <2>2. CASE Purge(r) BY <1>2, <2>2 DEF Purge
    <2> QED BY <1>1, <1>5, <1>6, <2>1, <2>2
        DEF ValidateObject, LookUp, RequireTrashed, PrepareDeletion, Stopped, MoveToTrash,
            DeleteObject, FindCollections, ReadMode, Search, Answered, tables, history
  <1>9. CASE Work
    BY <1>1, <1>9 DEF Work, StartJob, Parsed, ReplaceChunks, ReplaceIndex, history, tables
  <1> QED BY <1>7, <1>8, <1>9 DEF Next

LEMMA NextKeeps ==
  ASSUME IType, Inv, HistoryOK, Names, Kept, Next, ~reused' PROVE Kept'
  <1>1. CASE Work BY <1>1, WorkKeeps DEF Work
  <1>2. CASE Transactions
    <2>1. PICK r \in Clients :
            \/ ValidateObject(r) \/ LookUp(r) \/ SaveImport(r)
            \/ RequireTrashed(r) \/ PrepareDeletion(r) \/ Stopped(r)
            \/ MoveToTrash(r) \/ Purge(r) \/ DeleteObject(r)
            \/ FindCollections(r) \/ SaveBindings(r)
            \/ ReadMode(r) \/ Search(r) \/ Answered(r)
      BY <1>2 DEF Transactions
    <2> QED BY <2>1, StepKeeps, SaveImportKeeps, TrashKeeps, PurgeKeeps, DeleteObjectKeeps,
               SaveBindingsKeeps
  <1>3. CASE Requests
    BY <1>3, BeginKeeps, RowsKeep, AddKeeps, RemoveKeeps, CreateCollectionKeeps,
       DeleteCollectionKeeps DEF Requests, Deletion
  <1> QED BY <1>1, <1>2, <1>3 DEF Next

LEMMA NextPromised == IType /\ Inv /\ Promised /\ [Next]_vars => Promised'
  <1> SUFFICES ASSUME IType, Inv, Promised, [Next]_vars PROVE Promised' OBVIOUS
  <1>1. CASE Next
    <2>1. HistoryOK' /\ Names' /\ (reused => reused')
      BY <1>1, HistoryStays, NamesStay DEF Promised
    <2>2. reused' \/ Kept' BY <1>1, <2>1, NextKeeps DEF Promised
    <2> QED BY <2>1, <2>2 DEF Promised
  <1>2. CASE UNCHANGED vars
    <2>1. UNCHANGED <<tables, req, owed, member, meant, created, last, reused>>
      BY <1>2 DEF vars, history
    <2>2. HistoryOK' /\ Names' BY <2>1 DEF Promised, HistoryOK, Names, tables
    <2>3. Kept => Kept' BY <2>1, SameFollow, TablesStay DEF tables
    <2> QED BY <2>1, <2>2, <2>3 DEF Promised
  <1> QED BY <1>1, <1>2

LEMMA AlwaysPromised == Spec => [](IType /\ Inv /\ Promised)
  <1>1. Init => IType /\ Inv /\ Promised BY InitType, InitSafe, HistoryInit
  <1>2. IType /\ Inv /\ Promised /\ [Next]_vars => (IType /\ Inv /\ Promised)'
    BY NextType, NextSafe, NextPromised
  <1> QED BY <1>1, <1>2, PTL DEF Spec

\* Whatever requests and jobs do in which order, every variable of the library has the
\* shape its declaration names: ids within bounds, a deletion with a document.
THEOREM TypeCorrect == Spec => []TypeOK
  <1>1. IType /\ Promised => TypeOK
    BY DEF IType, TypeOK, TablesOK, JobsOK, ReqFits, CountOK, GoneOK, Promised, HistoryOK
  <1> QED BY <1>1, AlwaysPromised, PTL

\* What an import answered for stays reachable, whatever requests and jobs run in which
\* order: a live document of the file with its object and a link to the collection,
\* until a request takes one of them away, unless a row took an id that something still
\* names (create_import_jobs, the deletions, _finalize_document_deletion).
THEOREM ImportedStaysReachable == Spec => []ImportedIsReachable
  <1>1. Promised => ImportedIsReachable
    <2> SUFFICES ASSUME Promised, ~reused, NEW o \in owed
                 PROVE  /\ o[1] \in object
                        /\ \E d \in RowOf(o[1]) : Live(d) /\ <<d, o[2]>> \in link
      BY DEF ImportedIsReachable
    <2>1. PICK f \in Files, c \in ColIds : o = <<f, c>> BY DEF Promised, HistoryOK
    <2>2. o[1] = f /\ o[2] = c BY <2>1
    <2>3. Holds(f, c) BY <2>1 DEF Promised, Kept, Reached
    <2> QED BY <2>2, <2>3 DEF Holds, RowOf
  <1> QED BY <1>1, AlwaysPromised, PTL

LEMMA OnlySearch ==
  ASSUME IType, Next, NEW r \in Clients, req[r].pc = "search", req'[r].pc = "prompt"
  PROVE  Search(r)
  <1>1. ~Follows(r) BY DEF Follows
  <1>2. ASSUME NEW s \in Clients, NEW q, req' = [req EXCEPT ![s] = q] PROVE s = r
    BY <1>1, <1>2, ReplacedFollow
  <1>3. req' # req OBVIOUS
  <1>4. ASSUME NEW S, req' = Overtaken(req, S) PROVE FALSE
    BY <1>1, <1>4, OvertakenFollow, RequestType
  <1>5. ASSUME NEW s \in Clients, NEW S, req' = Overtaken([req EXCEPT ![s] = NoReq], S)
        PROVE  FALSE
    BY <1>1, <1>5, EndedFollow
  <1>6. ASSUME NEW j \in Jobs, JobEnds(j) PROVE FALSE BY <1>1, <1>6, JobEndsFollow
  <1>7. ASSUME NEW s \in Clients, NEW q, Begin(s, q) PROVE FALSE
    <2>1. s = r /\ req[s] = NoReq BY <1>2, <1>7 DEF Begin
    <2> QED BY <2>1 DEF NoReq
  <1>8. ~Work
    BY <1>3, <1>6 DEF Work, StartJob, Parsed, ReplaceChunks, ReplaceIndex
  <1>9. ~Requests
    BY <1>3, <1>4, <1>7
       DEF Requests, BeginImport, BeginDeletion, BeginSave, Ask, Restore, Rebuild,
           AddToCollection, RemoveFromCollection, CreateCollection, DeleteCollection
  <1>10. PICK s \in Clients :
            \/ ValidateObject(s) \/ LookUp(s) \/ SaveImport(s)
            \/ RequireTrashed(s) \/ PrepareDeletion(s) \/ Stopped(s)
            \/ MoveToTrash(s) \/ Purge(s) \/ DeleteObject(s)
            \/ FindCollections(s) \/ SaveBindings(s)
            \/ ReadMode(s) \/ Search(s) \/ Answered(s)
    BY <1>8, <1>9 DEF Next, Transactions
  <1>11. ~MoveToTrash(s) /\ ~DeleteObject(s) /\ ~SaveBindings(s)
    BY <1>5 DEF MoveToTrash, DeleteObject, SaveBindings
  <1>12. s = r
    BY <1>2, <1>10, <1>11
       DEF ValidateObject, LookUp, SaveImport, RequireTrashed, PrepareDeletion, Stopped, Purge,
           FindCollections, ReadMode, Search, Answered, Continue, End
  <1> QED BY <1>10, <1>11, <1>12
      DEF ValidateObject, LookUp, SaveImport, RequireTrashed, PrepareDeletion, Stopped, Purge,
          FindCollections, ReadMode, Answered

LEMMA SearchIsMeant ==
  ASSUME IType, Inv, Promised, NEW r \in Clients, Search(r), ~req[r].touched, ~reused
  PROVE  /\ meant.mode = "allow_model_context"
         /\ \A f \in req'[r].hits : \E n \in meant.names : <<f, n>> \in member
  <1>1. req[r].op = "ask" /\ req[r].pc = "search" /\ req[r].cols \subseteq ColIds
    BY RequestType DEF Search, Placed
  <1>2. AskFits(r) /\ LinksMeant BY DEF Promised, Kept, Fine
  <1>3. req'[r].hits = Hits(req[r].cols)
    <2> DEFINE hits == Hits(req[r].cols)
               q == [req[r] EXCEPT !.pc = "prompt", !.hits = hits]
    <2> HIDE DEF hits
    <2>1. q.hits = hits BY RequestType DEF Request
    <2>2. req'[r] = q BY RequestType DEF Search, Continue, hits
    <2> HIDE DEF q
    <2> QED BY <2>1, <2>2 DEF hits
  <1>4. ASSUME NEW f \in Hits(req[r].cols) PROVE \E n \in meant.names : <<f, n>> \in member
    <2>1. PICK d \in fts : f = chunk[d] /\ Live(d) /\ \E c \in req[r].cols : <<d, c>> \in link
      BY DEF Hits
    <2>2. PICK c \in req[r].cols : <<d, c>> \in link BY <2>1
    <2>3. d \in DocIds BY ITypeIs DEF TablesOK
    <2>4. f = doc[d].file BY <2>1 DEF Inv, Own, IndexIsOwn, Live
    <2>5. <<f, last[c]>> \in member
      BY <1>1, <1>2, <2>1, <2>2, <2>3, <2>4 DEF LinksMeant, Live
    <2>6. last[c] \in meant.names BY <1>1, <1>2, <2>2 DEF AskFits
    <2> QED BY <2>5, <2>6
  <1> QED BY <1>1, <1>2, <1>3, <1>4 DEF AskFits

\* A question is given only text of files that the user put into a collection which the
\* session may use with the model, although the ids, the mode and the text are read one
\* after the other (retrieve_knowledge_context), unless the bindings were saved meanwhile
\* or a row took an id that something still names.
THEOREM PromptsAreMeant == Spec => PromptIsMeant
  <1> DEFINE Asked(r) ==
        req[r].pc = "search" /\ req'[r].pc = "prompt" =>
          \/ req[r].touched \/ reused
          \/ /\ meant.mode = "allow_model_context"
             /\ \A f \in req'[r].hits : \E n \in meant.names : <<f, n>> \in member
  <1>1. ASSUME IType, Inv, Promised, [Next]_vars PROVE [\A r \in Clients : Asked(r)]_vars
    <2>1. CASE UNCHANGED vars BY <2>1
    <2>2. CASE Next
      <3>1. ASSUME NEW r \in Clients PROVE Asked(r) BY <1>1, <2>2, <3>1, OnlySearch, SearchIsMeant
      <3> HIDE DEF Asked
      <3> QED BY <3>1
    <2> QED BY <1>1, <2>1, <2>2
  <1> QED BY <1>1, AlwaysPromised, PTL DEF Spec, PromptIsMeant

-----------------------------------------------------------------------------
(* The vector index *)

Places == {"nowhere", "staging", "versions", "quarantine"}
Asking == {"lock", "open", "move", "compare", "unlink"}

IndexTypes ==
  /\ folder \in [Generations -> Places]
  /\ pub \in [Publishers -> [pc : {"idle", "staged", "installed", "named"},
                             gen : Generations \cup {NoGeneration}]]
  /\ query \in [Readers -> [pc : {"idle"} \cup Asking,
                            gen : Generations \cup {NoGeneration},
                            seen : Generations \cup {NoGeneration}]]
  /\ current \in Generations \cup {NoGeneration}
  /\ latest \in Generations \cup {NoGeneration}
  /\ lost \in BOOLEAN
  /\ \A p \in Publishers : pub[p].pc # "idle" => pub[p].gen \in Generations
  /\ \A r \in Readers : query[r].pc # "idle" => query[r].gen \in Generations

\* nobody was told of this generation yet
Unheard(g) == g # current /\ g # latest /\ \A r \in Readers : query[r].gen # g

\* a generation that is being published is in its place, no other publication has it,
\* and until it is named nobody has heard of it
Publishing ==
  /\ \A p \in Publishers :
       /\ pub[p].pc = "staged" => folder[pub[p].gen] = "staging"
       /\ pub[p].pc = "installed" => folder[pub[p].gen] = "versions"
       /\ pub[p].pc = "named" => folder[pub[p].gen] # "nowhere"
       /\ pub[p].pc \in {"staged", "installed"} => Unheard(pub[p].gen)
  /\ \A p, q \in Publishers :
       p # q /\ pub[p].pc # "idle" /\ pub[q].pc # "idle" => pub[p].gen # pub[q].gen
  /\ \A g \in Generations : folder[g] = "nowhere" => Unheard(g)

\* what a query puts away it found spoiled
PutAwayIsBad ==
  \A r \in Readers :
    /\ query[r].pc \in {"move", "compare", "unlink"} => query[r].gen \in bad
    /\ query[r].pc = "unlink" => query[r].seen \in {query[r].gen, NoGeneration}

IndexInv == IndexTypes /\ Publishing /\ PutAwayIsBad /\ PublishedIsServed

LEMMA IndexInitHolds == IndexInit => IndexInv
  <1> SUFFICES ASSUME IndexInit PROVE IndexInv
    OBVIOUS
  <1>1. IndexTypes /\ PublishedIsServed
    BY DEF IndexInit, IndexTypes, PublishedIsServed, NoPub, NoQuery, Places
  <1>2. Publishing /\ PutAwayIsBad
    BY IndexAssumption DEF IndexInit, Publishing, PutAwayIsBad, Unheard, NoPub, NoQuery
  <1> QED BY <1>1, <1>2 DEF IndexInv

LEMMA PublishKeeps ==
  ASSUME IndexInv, NEW p \in Publishers,
         \/ \E g \in Generations : Stage(p, g)
         \/ Install(p) \/ Name(p) \/ Forget(p) \/ PublishFails(p)
  PROVE  IndexInv'
  <1> USE IndexAssumption DEF IndexInv, NoPub
  <1>1. CASE \E g \in Generations : Stage(p, g)
    BY <1>1 DEF Stage, IndexTypes, Publishing, PutAwayIsBad, PublishedIsServed, Unheard, Whole, Places
  <1>2. CASE Install(p)
    BY <1>2 DEF Install, IndexTypes, Publishing, PutAwayIsBad, PublishedIsServed, Unheard, Whole, Places
  <1>3. CASE Name(p)
    BY <1>3 DEF Name, MayName, IndexTypes, Publishing, PutAwayIsBad, PublishedIsServed, Unheard, Whole, Places
  <1>4. CASE Forget(p)
    BY <1>4 DEF Forget, IndexTypes, Publishing, PutAwayIsBad, PublishedIsServed, Unheard, Whole, Places
  <1>5. CASE PublishFails(p)
    BY <1>5 DEF PublishFails, IndexTypes, Publishing, PutAwayIsBad, PublishedIsServed, Unheard, Whole, Places
  <1> QED BY <1>1, <1>2, <1>3, <1>4, <1>5

LEMMA QueryKeeps ==
  ASSUME IndexInv, NEW r \in Readers,
         ReadName(r) \/ Lock(r) \/ Open(r) \/ Move(r) \/ Compare(r) \/ Unlink(r) \/ GiveUp(r)
  PROVE  IndexInv'
  <1> USE IndexAssumption DEF IndexInv, NoQuery
  <1>1. CASE ReadName(r)
    BY <1>1 DEF ReadName, IndexTypes, Publishing, PutAwayIsBad, PublishedIsServed, Unheard, Whole, Asking
  <1>2. CASE Lock(r)
    <2>1. \/ query' = [query EXCEPT ![r] = NoQuery]
          \/ query' = [query EXCEPT ![r].pc = "open"]
      BY <1>2 DEF Lock
    <2>2. UNCHANGED <<folder, current, pub, latest, bad, lost>>
      BY <1>2 DEF Lock
    <2> QED
      BY <1>2, <2>1, <2>2 DEF Lock, IndexTypes, Publishing, PutAwayIsBad, PublishedIsServed,
         Unheard, Whole, Asking
  <1>3. CASE Open(r)
    BY <1>3 DEF Open, IndexTypes, Publishing, PutAwayIsBad, PublishedIsServed, Unheard, Whole, Asking
  <1>4. CASE Move(r)
    BY <1>4 DEF Move, IndexTypes, Publishing, PutAwayIsBad, PublishedIsServed, Unheard, Whole, Asking, Places
  <1>5. CASE Compare(r)
    <2>1. \/ \E g \in {query[r].gen, NoGeneration} :
               query' = [query EXCEPT ![r] = [@ EXCEPT !.pc = "unlink", !.seen = g]]
          \/ query' = [query EXCEPT ![r] = NoQuery]
      BY <1>5 DEF Compare, Removes
    <2>2. UNCHANGED <<folder, current, pub, latest, bad, lost>>
      BY <1>5 DEF Compare
    <2>3. query[r].pc = "compare"
      BY <1>5 DEF Compare
    <2>4. CASE query' = [query EXCEPT ![r] = NoQuery]
      BY <2>2, <2>3, <2>4 DEF IndexTypes, Publishing, PutAwayIsBad, PublishedIsServed,
         Unheard, Whole
    <2>5. CASE \E g \in {query[r].gen, NoGeneration} :
                 query' = [query EXCEPT ![r] = [@ EXCEPT !.pc = "unlink", !.seen = g]]
      <3>1. PICK g \in {query[r].gen, NoGeneration} :
                 query' = [query EXCEPT ![r] = [@ EXCEPT !.pc = "unlink", !.seen = g]]
        BY <2>5
      <3>2. IndexTypes'
        BY <2>2, <2>3, <3>1 DEF IndexTypes, Asking
      <3>3. Publishing' /\ PublishedIsServed'
        BY <2>2, <2>3, <3>1 DEF IndexTypes, Publishing, PublishedIsServed, Unheard, Whole
      <3>4. PutAwayIsBad'
        BY <2>2, <2>3, <3>1 DEF IndexTypes, PutAwayIsBad
      <3> QED BY <3>2, <3>3, <3>4
    <2> QED BY <2>1, <2>4, <2>5
  <1>6. CASE Unlink(r)
    <2>0. /\ query' = [query EXCEPT ![r] = NoQuery] /\ current' = NoGeneration
          /\ UNCHANGED <<folder, pub, latest, bad>>
      BY <1>6 DEF Unlink
    <2>4. lost' = (lost \/ current # query[r].seen)
      BY <1>6 DEF Unlink
    <2>5. lost' \in BOOLEAN
      BY <2>4, Zenon
    <2>1. IndexTypes'
      BY <2>0, <2>5 DEF IndexTypes
    <2>3. Publishing' /\ PutAwayIsBad'
      BY <2>0 DEF IndexTypes, Publishing, PutAwayIsBad, Unheard
    <2>2. PublishedIsServed'
      BY <1>6 DEF Unlink, IndexTypes, PutAwayIsBad, PublishedIsServed, Whole
    <2> QED BY <2>1, <2>2, <2>3
  <1>7. CASE GiveUp(r)
    BY <1>7 DEF GiveUp, IndexTypes, Publishing, PutAwayIsBad, PublishedIsServed, Unheard, Whole, Asking
  <1> QED BY <1>1, <1>2, <1>3, <1>4, <1>5, <1>6, <1>7

LEMMA IndexStepKeeps == IndexInv /\ [IndexNext]_indexVars => IndexInv'
  <1> SUFFICES ASSUME IndexInv, [IndexNext]_indexVars PROVE IndexInv'
    OBVIOUS
  <1>1. CASE \E g \in Generations : Damage(g)
    BY <1>1 DEF Damage, IndexInv, IndexTypes, Publishing, PutAwayIsBad, PublishedIsServed, Unheard, Whole
  <1>2. CASE IndexCrash
    BY <1>2, IndexAssumption DEF IndexCrash, IndexInv, IndexTypes, Publishing, PutAwayIsBad,
       PublishedIsServed, Unheard, Whole, NoPub, NoQuery
  <1>3. CASE UNCHANGED indexVars
    BY <1>3 DEF indexVars, IndexInv, IndexTypes, Publishing, PutAwayIsBad, PublishedIsServed, Unheard, Whole
  <1> QED BY <1>1, <1>2, <1>3, PublishKeeps, QueryKeeps DEF IndexNext

\* What was published last is served until something replaces or spoils it, for any
\* number of publications and queries in any order, with failures and ends anywhere
\* (publish, _quarantine), but for the removals that do not know what they remove.
THEOREM PublishedStaysServed == IndexSpec => []PublishedIsServed
  <1>1. IndexInv => PublishedIsServed
    BY DEF IndexInv
  <1> QED BY <1>1, IndexInitHolds, IndexStepKeeps, PTL DEF IndexSpec
=============================================================================
