---------------------------- MODULE KnowledgeLibrary ----------------------------
(***************************************************************************)
(* The knowledge library: collections, documents, their links, the         *)
(* bindings of a session and what a question may read                      *)
(* (backend/knowledge/service.py, repository.py, search.py, context.py,    *)
(* object_store.py).                                                       *)
(*                                                                         *)
(* A request is a sequence of transactions, and any other request may come *)
(* between two of them.  The tables declare ON DELETE CASCADE, but the     *)
(* engine never enables foreign keys: deleting a collection leaves its     *)
(* links and bindings, deleting a document leaves its links and chunks,    *)
(* and SQLite gives the highest free id to the next row.  The threads of   *)
(* the jobs are in ImportJobs, their data in OcrImport; a job here is what *)
(* it reads and writes of the library.                                     *)
(*                                                                         *)
(* A file stands for its hash, its object and its text.  The chunk rows of *)
(* a document are one value: while a file always gives as many chunks, the *)
(* ids of its rows are only ever taken again by its own, so a hit of its   *)
(* index is one of its chunks.  Favourites, tags, names and colours decide *)
(* nothing here and are left out, and so is document.status, which the     *)
(* code never sets: every import makes a job.                              *)
(***************************************************************************)
EXTENDS Naturals, FiniteSets

CONSTANTS
  Files,        \* the files the user has
  Collections,  \* the collections the user ever creates, whatever ids they get
  Clients,      \* requests of several transactions in flight at once
  Jobs,         \* import jobs in the executor at once
  NoFile,       \* not a file
  NoCollection, \* not a collection
  MaxDocs,      \* bound: document ids
  MaxCols,      \* bound: collection ids
  MaxRequests   \* bound: requests ever made

ASSUME LibraryAssumption ==
  /\ NoFile \notin Files /\ NoCollection \notin Collections
  /\ MaxDocs \in Nat /\ MaxCols \in Nat /\ MaxRequests \in Nat

DocIds == 1..MaxDocs
ColIds == 1..MaxCols

VARIABLES
  doc,       \* the document rows
  col,       \* the collection rows
  link,      \* knowledge_collection_documents
  bind,      \* session_knowledge_collections of the session, and its mode
  chunk,     \* the file whose text the chunk rows of a document id hold
  fts,       \* the document ids with rows in the full text index
  object,    \* the files in the object store
  job,       \* the jobs that were enqueued and have not ended
  req,       \* what each client's request has done so far
  requests,  \* requests made
  owed,      \* history: <<file, id of collection>> an import answered for
  gone,      \* history: files purged and not imported since
  member,    \* history: <<file, collection>> the user asked for
  meant,     \* history: the collections and the mode of the last save
  created,   \* history: collections ever created
  last,      \* history: the last collection with each id
  raced,     \* history: a document was purged while a job of it ran
  reused     \* history: a new row took an id that something still named

tables  == <<doc, col, link, bind, chunk, fts, object>>
history == <<owed, gone, member, meant, created, last, raced, reused>>
vars    == <<tables, job, req, requests, history>>

Modes == {"allow_model_context", "local_search_only"}

Document == [file : Files, trashed : BOOLEAN]
NoDoc    == [file |-> NoFile, trashed |-> FALSE]
Job      == [pc : {"queued", "parsing", "indexing", "chunked"},
             doc : DocIds, text : Files \cup {NoFile}, cancel : BOOLEAN]
NoJob    == [pc |-> "none", doc |-> 0, text |-> NoFile, cancel |-> FALSE]
Request  == [op   : {"none", "import", "trash", "purge", "save", "ask"},
             pc   : {"none", "validate", "look", "save", "require", "prepare", "wait",
                     "finalize", "unlink", "mode", "search", "prompt"},
             doc  : DocIds \cup {0},
             file : Files \cup {NoFile},
             cols : SUBSET ColIds,
             seen : [trashed : BOOLEAN, linked : BOOLEAN],  \* what an import found
             jobs : SUBSET Jobs,            \* the jobs a deletion waits for
             mode : Modes,                  \* of a save
             hits : SUBSET Files,           \* the text a question is given
             touched : BOOLEAN]             \* history: overtaken by another request
NoReq    == [op |-> "none", pc |-> "none", doc |-> 0, file |-> NoFile, cols |-> {},
             seen |-> [trashed |-> FALSE, linked |-> FALSE], jobs |-> {},
             mode |-> "allow_model_context", hits |-> {}, touched |-> FALSE]
NoBinding == [ids |-> {}, mode |-> "allow_model_context"]

Init ==
  /\ doc = [d \in DocIds |-> NoDoc] /\ chunk = [d \in DocIds |-> NoFile]
  /\ col = [c \in ColIds |-> NoCollection]
  /\ link = {} /\ fts = {} /\ object = {}
  /\ bind = NoBinding
  /\ job = [j \in Jobs |-> NoJob]
  /\ req = [r \in Clients |-> NoReq] /\ requests = 0
  /\ owed = {} /\ gone = {} /\ member = {} /\ created = {}
  /\ meant = [names |-> {}, mode |-> "allow_model_context"]
  /\ last = [c \in ColIds |-> NoCollection]
  /\ raced = FALSE /\ reused = FALSE

-----------------------------------------------------------------------------
(***************************************************************************)
(* The tables                                                              *)
(***************************************************************************)
Exists(d)   == doc[d] # NoDoc
Live(d)     == Exists(d) /\ ~doc[d].trashed
Existing    == {c \in ColIds : col[c] # NoCollection}
RowOf(f)    == {d \in DocIds : doc[d].file = f}
\* SQLite gives a new row the highest id and one, if the bound has one left.
NextId(all, ids) == {i \in all : (\A k \in ids : k < i) /\ i - 1 \in ids \cup {0}}

\* The text a search of these collections finds: the chunks of live documents
\* with index rows and a link to one of the ids, whether or not it exists.
Hits(ids) ==
  {chunk[d] : d \in {e \in fts : /\ chunk[e] # NoFile
                                 /\ Live(e)
                                 /\ \E c \in ids : <<e, c>> \in link}}

\* IndexAfterPurge, if the index rows were left to the cascade like the chunks.
IndexAfterPurge_Cascade(d) == fts

\* A purge removes the index rows with the row of the document.
IndexAfterPurge(d) == fts \ {d}

\* A purge answers for its document alone.
ObjectsAfterPurge(f) == object \ {f}

\* Replaced, if the old rows stayed.
Replaced_Adds(ids, mode) == [ids |-> bind.ids \cup ids, mode |-> mode]

\* The rows of a session are replaced, not added to.
Replaced(ids, mode) == IF ids = {} THEN NoBinding ELSE [ids |-> ids, mode |-> mode]

\* Requests are counted; one of several transactions takes a client.
Request1 == requests < MaxRequests /\ requests' = requests + 1
Begin(r, value) == req[r] = NoReq /\ Request1 /\ req' = [req EXCEPT ![r] = value]
Continue(r, value) == req' = [req EXCEPT ![r] = value] /\ UNCHANGED requests
End(r) == Continue(r, NoReq)

\* The requests that this one overtakes are marked.
Overtaken(reqs, S) == [q \in Clients |-> [reqs[q] EXCEPT !.touched = @ \/ q \in S]]
Imports(f) == {q \in Clients : req[q].op = "import" /\ req[q].file = f}
Asks == {q \in Clients : req[q].op = "ask"}

\* run_in_executor: the job waits for a thread.
Enqueue(d) ==
  \E j \in Jobs : /\ job[j] = NoJob
                  /\ job' = [job EXCEPT ![j] = [NoJob EXCEPT !.pc = "queued", !.doc = d]]

\* A deletion of this document, or of the object of this file, is under way.
Deleting(d, f) ==
  \E r \in Clients : req[r].op \in {"trash", "purge"} /\ (req[r].doc = d \/ req[r].file = f)

-----------------------------------------------------------------------------
(***************************************************************************)
(* Imports: the desktop copies the file into the object store, then asks   *)
(***************************************************************************)
BeginImport(r, f, c) ==
  /\ c \in Existing
  /\ Begin(r, [NoReq EXCEPT !.op = "import", !.pc = "validate", !.file = f, !.cols = {c}])
  /\ object' = object \cup {f}
  /\ UNCHANGED <<doc, col, link, bind, chunk, fts, job, history>>

\* _prepare_import_batch: every object is there and has the hash of its manifest
ValidateObject(r) ==
  /\ req[r].pc = "validate"
  /\ IF req[r].file \in object THEN Continue(r, [req[r] EXCEPT !.pc = "look"]) ELSE End(r)
  /\ UNCHANGED <<tables, job, history>>

\* create_import_jobs reads before its first write begins a transaction
LookUp(r) ==
  LET c == CHOOSE x \in req[r].cols : TRUE
  IN /\ req[r].op = "import" /\ req[r].pc = "look"
     /\ IF c \notin Existing THEN End(r)
        ELSE \/ /\ RowOf(req[r].file) = {}
                /\ Continue(r, [req[r] EXCEPT !.pc = "save"])
             \/ \E d \in RowOf(req[r].file) :
                  Continue(r, [req[r] EXCEPT !.pc = "save", !.doc = d,
                               !.seen = [trashed |-> doc[d].trashed,
                                         linked |-> <<d, c>> \in link]])
     /\ UNCHANGED <<tables, job, history>>

\* SavedRow, if a document found in the trash stayed there.
SavedRow_Trashed(d, q) ==
  IF q.doc = 0 THEN [file |-> q.file, trashed |-> FALSE] ELSE doc[d]

\* what its transaction leaves of the document, and of its links
SavedRow(d, q) ==
  IF q.doc = 0 THEN [file |-> q.file, trashed |-> FALSE]
  ELSE IF q.seen.trashed THEN [doc[d] EXCEPT !.trashed = FALSE] ELSE doc[d]
SavedLinks(d, q) ==
  IF q.seen.linked THEN link ELSE link \cup {<<d, c>> : c \in q.cols}

\* a unique key taken since, or a row to update that is gone: rolled back
Conflicts(q) ==
  \/ q.doc = 0 /\ RowOf(q.file) # {}
  \/ q.doc # 0 /\ q.seen.trashed /\ ~Exists(q.doc)
  \/ q.doc # 0 /\ ~q.seen.linked /\ \E c \in q.cols : <<q.doc, c>> \in link

SaveImport(r) ==
  LET q == req[r]
      Named(d) == \/ \E c \in ColIds : <<d, c>> \in link
                  \/ d \in fts
                  \/ \E o \in Clients \ {r} : req[o].doc = d
                  \/ \E j \in Jobs : job[j].doc = d
  IN /\ q.op = "import" /\ q.pc = "save"
     /\ \/ /\ Conflicts(q)
           /\ UNCHANGED <<doc, link, job, owed, gone, member, reused>>
        \/ /\ ~Conflicts(q)
           /\ \E d \in IF q.doc = 0 THEN NextId(DocIds, {e \in DocIds : Exists(e)})
                      ELSE {q.doc} :
                /\ doc' = [doc EXCEPT ![d] = SavedRow(d, q)]
                /\ link' = SavedLinks(d, q)
                /\ Enqueue(d)
                /\ owed' = IF q.touched \/ Deleting(d, q.file) THEN owed
                           ELSE owed \cup {<<q.file, c>> : c \in q.cols \cap Existing}
                /\ reused' = (reused \/ (q.doc = 0 /\ Named(d)))
           /\ gone' = gone \ {q.file}
           /\ member' = member \cup {<<q.file, last[c]>> : c \in q.cols}
     /\ End(r)
     /\ UNCHANGED <<col, bind, chunk, fts, object, meant, created, last, raced>>

-----------------------------------------------------------------------------
(***************************************************************************)
(* delete_document and purge_document, alone or as items of bulk_documents *)
(***************************************************************************)
BeginDeletion(r, op, d) ==
  /\ Exists(d)
  /\ Begin(r, [NoReq EXCEPT !.op = op, !.doc = d,
               !.pc = IF op = "purge" THEN "require" ELSE "prepare"])
  /\ owed' = {o \in owed : o[1] # doc[d].file}
  /\ UNCHANGED <<tables, job, gone, member, meant, created, last, raced, reused>>

\* purge_document looks whether the document is in the trash, this once
RequireTrashed(r) ==
  /\ req[r].pc = "require"
  /\ IF Exists(req[r].doc) /\ doc[req[r].doc].trashed
     THEN Continue(r, [req[r] EXCEPT !.pc = "prepare"])
     ELSE End(r)
  /\ UNCHANGED <<tables, job, history>>

\* the jobs of the document are asked to stop
PrepareDeletion(r) ==
  LET d == req[r].doc
      active == {j \in Jobs : job[j].doc = d}
  IN /\ req[r].pc = "prepare"
     /\ IF ~Exists(d) THEN End(r) /\ UNCHANGED job
        ELSE /\ Continue(r, [req[r] EXCEPT !.pc = "wait", !.jobs = active,
                                          !.file = doc[d].file])
             /\ job' = [j \in Jobs |-> IF j \in active THEN [job[j] EXCEPT !.cancel = TRUE]
                                      ELSE job[j]]
     /\ UNCHANGED <<tables, history>>

\* ... and waited for
Stopped(r) ==
  /\ req[r].pc = "wait" /\ req[r].jobs = {}
  /\ Continue(r, [req[r] EXCEPT !.pc = "finalize"])
  /\ UNCHANGED <<tables, job, history>>

MoveToTrash(r) ==
  LET d == req[r].doc
  IN /\ req[r].op = "trash" /\ req[r].pc = "finalize"
     /\ doc' = IF Exists(d) THEN [doc EXCEPT ![d].trashed = TRUE] ELSE doc
     /\ req' = Overtaken([req EXCEPT ![r] = NoReq], Imports(doc[d].file))
     /\ UNCHANGED <<col, link, bind, chunk, fts, object, job, requests, history>>

\* _finalize_document_deletion: one transaction for the row and its index rows ...
Purge(r) ==
  LET d == req[r].doc
      f == doc[d].file
  IN /\ req[r].op = "purge" /\ req[r].pc = "finalize"
     /\ IF ~Exists(d) THEN End(r) /\ UNCHANGED <<doc, fts, gone, member, raced>>
        ELSE /\ Continue(r, [req[r] EXCEPT !.pc = "unlink"])
             /\ doc' = [doc EXCEPT ![d] = NoDoc]
             /\ fts' = IndexAfterPurge(d)
             /\ gone' = gone \cup {f}
             /\ member' = {m \in member : m[1] # f}
             /\ raced' = (raced \/ \E j \in Jobs : job[j].doc = d /\ job[j].pc # "queued")
     /\ UNCHANGED <<col, link, bind, chunk, object, job,
                    owed, meant, created, last, reused>>

\* ... and then the object
DeleteObject(r) ==
  /\ req[r].pc = "unlink"
  /\ object' = ObjectsAfterPurge(req[r].file)
  /\ req' = Overtaken([req EXCEPT ![r] = NoReq], Imports(req[r].file))
  /\ UNCHANGED <<doc, col, link, bind, chunk, fts, job, requests, history>>

-----------------------------------------------------------------------------
(***************************************************************************)
(* Requests of one transaction                                             *)
(***************************************************************************)
Restore(d) ==
  /\ Exists(d) /\ Request1
  /\ doc' = [doc EXCEPT ![d].trashed = FALSE]
  /\ UNCHANGED <<col, link, bind, chunk, fts, object, job, req, history>>

AddToCollection(d, c) ==
  /\ Exists(d) /\ c \in Existing /\ Request1
  /\ link' = link \cup {<<d, c>>}
  /\ member' = member \cup {<<doc[d].file, col[c]>>}
  /\ UNCHANGED <<doc, col, bind, chunk, fts, object, job, req,
                 owed, gone, meant, created, last, raced, reused>>

LinksWithout(d, c) == link \ {<<d, c>>}

RemoveFromCollection(d, c) ==
  /\ Exists(d) /\ c \in Existing /\ Request1
  /\ link' = LinksWithout(d, c)
  /\ member' = member \ {<<doc[d].file, col[c]>>}
  /\ owed' = owed \ {<<doc[d].file, c>>}
  /\ req' = Overtaken(req, Imports(doc[d].file))
  /\ UNCHANGED <<doc, col, bind, chunk, fts, object, job,
                 gone, meant, created, last, raced, reused>>

Rebuild(d) ==
  /\ Exists(d) /\ Request1
  /\ Enqueue(d)
  /\ UNCHANGED <<tables, req, history>>

CreateCollection(n) ==
  /\ n \notin created /\ Request1
  /\ \E c \in NextId(ColIds, Existing) :
       /\ col' = [col EXCEPT ![c] = n]
       /\ last' = [last EXCEPT ![c] = n]
       /\ reused' = \/ reused
                    \/ \E d \in DocIds : <<d, c>> \in link
                    \/ c \in bind.ids
                    \/ \E r \in Clients : c \in req[r].cols
  /\ created' = created \cup {n}
  /\ UNCHANGED <<doc, link, bind, chunk, fts, object, job,
                 req, owed, gone, member, meant, raced>>

\* only the row: its links and bindings stay
DeleteCollection(c) ==
  /\ c \in Existing /\ Request1
  /\ col' = [col EXCEPT ![c] = NoCollection]
  /\ owed' = {o \in owed : o[2] # c}
  /\ UNCHANGED <<doc, link, bind, chunk, fts, object, job, req,
                 gone, member, meant, created, last, raced, reused>>

-----------------------------------------------------------------------------
(***************************************************************************)
(* The bindings of the session, and what a question reads                  *)
(***************************************************************************)
BeginSave(r, ids, mode) ==
  /\ ids \subseteq Existing
  /\ Begin(r, [NoReq EXCEPT !.op = "save", !.pc = "look", !.cols = ids, !.mode = mode])
  /\ UNCHANGED <<tables, job, history>>

\* replace_session_collections looks for the ids before it deletes and inserts
FindCollections(r) ==
  /\ req[r].op = "save" /\ req[r].pc = "look"
  /\ IF req[r].cols \subseteq Existing THEN Continue(r, [req[r] EXCEPT !.pc = "save"])
     ELSE End(r)
  /\ UNCHANGED <<tables, job, history>>

SaveBindings(r) ==
  /\ req[r].op = "save" /\ req[r].pc = "save"
  /\ bind' = Replaced(req[r].cols, req[r].mode)
  /\ meant' = [names |-> {last[c] : c \in req[r].cols}, mode |-> req[r].mode]
  /\ req' = Overtaken([req EXCEPT ![r] = NoReq], Asks)
  /\ UNCHANGED <<doc, col, link, chunk, fts, object, job, requests,
                 owed, gone, member, created, last, raced, reused>>

\* retrieve_knowledge_context: the ids, then the mode, then the search
Ask(r) ==
  /\ bind.ids # {}
  /\ Begin(r, [NoReq EXCEPT !.op = "ask", !.pc = "mode", !.cols = bind.ids])
  /\ UNCHANGED <<tables, job, history>>

ReadMode(r) ==
  /\ req[r].pc = "mode"
  /\ IF bind.mode = "allow_model_context"
     THEN Continue(r, [req[r] EXCEPT !.pc = "search"])
     ELSE End(r)
  /\ UNCHANGED <<tables, job, history>>

Search(r) ==
  /\ req[r].pc = "search"
  /\ Continue(r, [req[r] EXCEPT !.pc = "prompt", !.hits = Hits(req[r].cols)])
  /\ UNCHANGED <<tables, job, history>>

Answered(r) ==
  /\ req[r].pc = "prompt"
  /\ End(r)
  /\ UNCHANGED <<tables, job, history>>

-----------------------------------------------------------------------------
(***************************************************************************)
(* The jobs                                                                *)
(***************************************************************************)
\* A job that ends is not waited for any longer.
JobEnds(j) ==
  /\ job' = [job EXCEPT ![j] = NoJob]
  /\ req' = [r \in Clients |-> [req[r] EXCEPT !.jobs = @ \ {j}]]

\* it reads the object of the document with its id, unless it was cancelled, or is
\* skipped by the cancel that finds it waiting for a thread
StartJob(j) ==
  LET f == doc[job[j].doc].file
  IN /\ job[j].pc = "queued"
     /\ IF job[j].cancel \/ f \notin object THEN JobEnds(j)
        ELSE job' = [job EXCEPT ![j] = [@ EXCEPT !.pc = "parsing", !.text = f]] /\ UNCHANGED req
     /\ UNCHANGED <<tables, requests, history>>

\* the worker is done: cancelled, failed or good for the index
Parsed(j) ==
  /\ job[j].pc = "parsing"
  /\ \/ JobEnds(j)
     \/ ~job[j].cancel /\ job' = [job EXCEPT ![j].pc = "indexing"] /\ UNCHANGED req
  /\ UNCHANGED <<tables, requests, history>>

ReplaceChunks(j) ==
  LET d == job[j].doc
  IN /\ job[j].pc = "indexing"
     /\ IF ~Exists(d) THEN JobEnds(j) /\ UNCHANGED chunk
        ELSE /\ chunk' = [chunk EXCEPT ![d] = job[j].text]
             /\ job' = [job EXCEPT ![j].pc = "chunked"]
             /\ UNCHANGED req
     /\ UNCHANGED <<doc, col, link, bind, fts, object, requests, history>>

\* replace_document_index indexes the chunk rows it finds; its look at the document is
\* answered by the session of the job, which still has the row that was read before
\* the chunks were replaced: a purge since then is not seen
ReplaceIndex(j) ==
  /\ job[j].pc = "chunked"
  /\ fts' = fts \cup {job[j].doc}
  /\ JobEnds(j)
  /\ UNCHANGED <<doc, col, link, bind, chunk, object, requests, history>>

-----------------------------------------------------------------------------
Requests ==
  \/ \E r \in Clients, f \in Files, c \in ColIds : BeginImport(r, f, c)
  \/ \E r \in Clients, op \in {"trash", "purge"}, d \in DocIds : BeginDeletion(r, op, d)
  \/ \E r \in Clients, ids \in SUBSET ColIds, mode \in Modes : BeginSave(r, ids, mode)
  \/ \E r \in Clients : Ask(r)
  \/ \E d \in DocIds : Restore(d) \/ Rebuild(d)
  \/ \E d \in DocIds, c \in ColIds : AddToCollection(d, c) \/ RemoveFromCollection(d, c)
  \/ \E n \in Collections : CreateCollection(n)
  \/ \E c \in ColIds : DeleteCollection(c)

Transactions ==
  \E r \in Clients :
    \/ ValidateObject(r) \/ LookUp(r) \/ SaveImport(r)
    \/ RequireTrashed(r) \/ PrepareDeletion(r) \/ Stopped(r)
    \/ MoveToTrash(r) \/ Purge(r) \/ DeleteObject(r)
    \/ FindCollections(r) \/ SaveBindings(r)
    \/ ReadMode(r) \/ Search(r) \/ Answered(r)

Work == \E j \in Jobs : StartJob(j) \/ Parsed(j) \/ ReplaceChunks(j) \/ ReplaceIndex(j)

Next == Requests \/ Transactions \/ Work

Spec == Init /\ [][Next]_vars

-----------------------------------------------------------------------------
(***************************************************************************)
(* Properties                                                              *)
(***************************************************************************)
\* Every variable has the shape declared above.
TypeOK ==
  /\ doc \in [DocIds -> Document \cup {NoDoc}]
  /\ col \in [ColIds -> Collections \cup {NoCollection}]
  /\ link \subseteq DocIds \X ColIds
  /\ bind \in [ids : SUBSET ColIds, mode : Modes]
  /\ chunk \in [DocIds -> Files \cup {NoFile}]
  /\ fts \subseteq DocIds /\ object \subseteq Files
  /\ job \in [Jobs -> Job \cup {NoJob}]
  /\ req \in [Clients -> Request]
  /\ requests \in 0..MaxRequests
  /\ gone \subseteq Files /\ raced \in BOOLEAN /\ reused \in BOOLEAN
  /\ owed \subseteq Files \X ColIds
  /\ member \subseteq Files \X (Collections \cup {NoCollection})
  /\ meant \in [names : SUBSET (Collections \cup {NoCollection}), mode : Modes]
  /\ created \subseteq Collections
  /\ last \in [ColIds -> Collections \cup {NoCollection}]

\* What an import answered for stays: one live document of the file, in the
\* collection and with its object, until a request to trash, purge or remove it or to
\* delete the collection; also while other requests and jobs run.  The code does not
\* keep it when a row takes an id that something still names (reused).
ImportedIsReachable ==
  \A o \in owed :
    \/ reused
    \/ /\ o[1] \in object
       /\ \E d \in RowOf(o[1]) : Live(d) /\ <<d, o[2]>> \in link

\* The text of a purged file is in no answer of a search until the file is imported
\* again, though its chunk rows stay, a job may leave index rows behind the purge and
\* another document may take the id.  The code does not keep it when a job of a document
\* ran while it was purged (raced) and a row took an id that a link, an index row, a
\* request or a job still named (reused).
PurgedIsGone ==
  \/ raced /\ reused
  \/ Hits(ColIds) \cap gone = {}

\* A question is given only text of files that the user put into a collection which the
\* session is allowed to use with the model, unless the bindings were saved meanwhile.
\* A deleted collection counts as long as its bindings do.
PromptIsMeant ==
  [][\A r \in Clients :
       req[r].pc = "search" /\ req'[r].pc = "prompt" =>
         \/ req[r].touched \/ reused
         \/ /\ meant.mode = "allow_model_context"
            /\ \A f \in req'[r].hits : \E n \in meant.names : <<f, n>> \in member]_vars

=============================================================================
