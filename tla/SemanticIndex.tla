------------------------------ MODULE SemanticIndex ------------------------------
(***************************************************************************)
(* The optional vector index on disk (backend/knowledge/semantic.py): a    *)
(* generation is written aside, renamed into versions/ and then named by   *)
(* current.json; a query that cannot open the current generation moves it  *)
(* to quarantine/ and removes its name.                                    *)
(*                                                                         *)
(* Any number of threads publish and query.  Opening and quarantine hold   *)
(* the lock, the renames of a publication do not.  A step is one access to *)
(* the file system.  A generation is a fresh name and stands for its       *)
(* vectors; the checks of vectors and model versions and the ranking are   *)
(* arithmetic and left out.                                                *)
(***************************************************************************)
CONSTANTS
  Generations,            \* bound: the generations ever written
  Publishers, Readers,    \* threads
  NoGeneration, NoThread

ASSUME IndexAssumption == NoGeneration \notin Generations

VARIABLES
  folder,    \* where each generation is: nowhere, in staging, versions or quarantine
  current,   \* the generation current.json names, if the file is there
  opened,    \* _opened: the generation that is mapped
  lock,      \* the thread that holds _lock
  pub,       \* what each publication has done
  query,     \* what each query has done
  latest,    \* history: the last generation that was named
  bad,       \* history: generations damaged, or unreadable to a query
  lost       \* history: a name was removed that was not the one just compared

indexVars == <<folder, current, opened, lock, pub, query, latest, bad, lost>>

NoPub   == [pc |-> "idle", gen |-> NoGeneration]
NoQuery == [pc |-> "idle", gen |-> NoGeneration, seen |-> NoGeneration]

IndexInit ==
  /\ folder = [g \in Generations |-> "nowhere"]
  /\ current = NoGeneration /\ opened = NoGeneration /\ lock = NoThread
  /\ pub = [p \in Publishers |-> NoPub] /\ query = [r \in Readers |-> NoQuery]
  /\ latest = NoGeneration /\ bad = {} /\ lost = FALSE

-----------------------------------------------------------------------------
(***************************************************************************)
(* publish                                                                 *)
(***************************************************************************)
Stage(p, g) ==
  /\ pub[p] = NoPub /\ folder[g] = "nowhere"
  /\ folder' = [folder EXCEPT ![g] = "staging"]
  /\ pub' = [pub EXCEPT ![p] = [pc |-> "staged", gen |-> g]]
  /\ UNCHANGED <<current, opened, lock, query, latest, bad, lost>>

\* the whole directory becomes visible at once
Install(p) ==
  /\ pub[p].pc = "staged"
  /\ folder' = [folder EXCEPT ![pub[p].gen] = "versions"]
  /\ pub' = [pub EXCEPT ![p].pc = "installed"]
  /\ UNCHANGED <<current, opened, lock, query, latest, bad, lost>>

\* the directory is in its place before its name is
MayName(p) == pub[p].pc = "installed"

Name(p) ==
  /\ MayName(p)
  /\ current' = pub[p].gen /\ latest' = pub[p].gen
  /\ pub' = [pub EXCEPT ![p].pc = "named"]
  /\ UNCHANGED <<folder, opened, lock, query, bad, lost>>

Forget(p) ==
  /\ pub[p].pc = "named" /\ lock = NoThread
  /\ opened' = NoGeneration
  /\ pub' = [pub EXCEPT ![p] = NoPub]
  /\ UNCHANGED <<folder, current, lock, query, latest, bad, lost>>

\* A write fails: finally removes what is still staged.
PublishFails(p) ==
  /\ pub[p].pc \in {"staged", "installed"}
  /\ folder' = [folder EXCEPT ![pub[p].gen] = IF @ = "staging" THEN "nowhere" ELSE @]
  /\ pub' = [pub EXCEPT ![p] = NoPub]
  /\ UNCHANGED <<current, opened, lock, query, latest, bad, lost>>

-----------------------------------------------------------------------------
(***************************************************************************)
(* query                                                                   *)
(***************************************************************************)
Whole(g) == folder[g] = "versions" /\ g \notin bad

\* _current_generation, before the lock is taken
ReadName(r) ==
  /\ query[r] = NoQuery /\ current # NoGeneration
  /\ query' = [query EXCEPT ![r] = [@ EXCEPT !.pc = "lock", !.gen = current]]
  /\ UNCHANGED <<folder, current, opened, lock, pub, latest, bad, lost>>

\* what is mapped already answers
Lock(r) ==
  /\ query[r].pc = "lock" /\ lock = NoThread
  /\ IF opened = query[r].gen
     THEN query' = [query EXCEPT ![r] = NoQuery] /\ UNCHANGED lock
     ELSE query' = [query EXCEPT ![r].pc = "open"] /\ lock' = r
  /\ UNCHANGED <<folder, current, opened, pub, latest, bad, lost>>

\* the files are there and have the hashes of the manifest, or anything else happens
Open(r) ==
  LET g == query[r].gen
  IN /\ query[r].pc = "open"
     /\ \/ /\ Whole(g)
           /\ opened' = g /\ lock' = NoThread
           /\ query' = [query EXCEPT ![r] = NoQuery]
           /\ UNCHANGED bad
        \/ /\ opened' = NoGeneration /\ bad' = bad \cup {g}
           /\ query' = [query EXCEPT ![r].pc = "move"]
           /\ UNCHANGED lock
     /\ UNCHANGED <<folder, current, pub, latest, lost>>

\* _quarantine: the directory goes, if it can be moved ...
Move(r) ==
  /\ query[r].pc = "move"
  /\ \/ folder' = [folder EXCEPT ![query[r].gen] = IF @ = "versions" THEN "quarantine" ELSE @]
     \/ UNCHANGED folder
  /\ query' = [query EXCEPT ![r].pc = "compare"]
  /\ UNCHANGED <<current, opened, lock, pub, latest, bad, lost>>

\* Removes, if the name were not compared
Removes_Always(r) == TRUE

\* ... and its name, if it is the one in the file
Removes(r) == current = query[r].gen

\* ... or nothing can be read there
Compare(r) ==
  /\ query[r].pc = "compare"
  /\ \/ /\ Removes(r)
        /\ query' = [query EXCEPT ![r] = [@ EXCEPT !.pc = "unlink", !.seen = current]]
        /\ UNCHANGED lock
     \/ /\ query' = [query EXCEPT ![r] = [@ EXCEPT !.pc = "unlink", !.seen = NoGeneration]]
        /\ UNCHANGED lock
     \/ /\ ~Removes(r) /\ current # NoGeneration
        /\ query' = [query EXCEPT ![r] = NoQuery] /\ lock' = NoThread
  /\ UNCHANGED <<folder, current, opened, pub, latest, bad, lost>>

Unlink(r) ==
  /\ query[r].pc = "unlink"
  /\ current' = NoGeneration
  /\ lost' = (lost \/ current # query[r].seen)
  /\ query' = [query EXCEPT ![r] = NoQuery] /\ lock' = NoThread
  /\ UNCHANGED <<folder, opened, pub, latest, bad>>

\* An access of the quarantine fails and ends the query.
GiveUp(r) ==
  /\ query[r].pc \in {"move", "compare", "unlink"}
  /\ query' = [query EXCEPT ![r] = NoQuery] /\ lock' = NoThread
  /\ UNCHANGED <<folder, current, opened, pub, latest, bad, lost>>

-----------------------------------------------------------------------------
(***************************************************************************)
(* Faults                                                                  *)
(***************************************************************************)
Damage(g) ==
  /\ folder[g] = "versions" /\ g \notin bad
  /\ bad' = bad \cup {g}
  /\ UNCHANGED <<folder, current, opened, lock, pub, query, latest, lost>>

\* The application ends anywhere: only the files stay.
IndexCrash ==
  /\ opened' = NoGeneration /\ lock' = NoThread
  /\ pub' = [p \in Publishers |-> NoPub] /\ query' = [r \in Readers |-> NoQuery]
  /\ UNCHANGED <<folder, current, latest, bad, lost>>

IndexNext ==
  \/ \E p \in Publishers :
       \/ \E g \in Generations : Stage(p, g)
       \/ Install(p) \/ Name(p) \/ Forget(p) \/ PublishFails(p)
  \/ \E r \in Readers :
       \/ ReadName(r) \/ Lock(r) \/ Open(r)
       \/ Move(r) \/ Compare(r) \/ Unlink(r) \/ GiveUp(r)
  \/ \E g \in Generations : Damage(g)
  \/ IndexCrash

IndexSpec == IndexInit /\ [][IndexNext]_indexVars

-----------------------------------------------------------------------------
(***************************************************************************)
(* Properties                                                              *)
(***************************************************************************)
\* What was published last is served until something replaces or spoils it: its name
\* stays and what it names is whole, while other publications fail or end halfway, the
\* application ends anywhere and queries put older generations away.  Not so when a
\* publication comes between the comparison of the name and its removal, or the name
\* could not be read and is removed unseen (lost).
PublishedIsServed ==
  \/ lost \/ latest = NoGeneration \/ latest \in bad
  \/ current = latest /\ Whole(latest)

=============================================================================
