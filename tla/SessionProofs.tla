------------------------------ MODULE SessionProofs ------------------------------
(***************************************************************************)
(* Proofs about SessionWorkflow: its types, and that whatever stale copies *)
(* of the row are committed, a profiled session has a profile.             *)
(*                                                                         *)
(* With messages alone, and deletions, the lock of the session makes every *)
(* copy of the row exact: the session implements its lifecycle, and one    *)
(* request generates at a time.  The invariant: a message at work holds    *)
(* the lock, and its copy is the row, unless the row was deleted, whose id *)
(* no later row has.                                                       *)
(*                                                                         *)
(* With the routes, which take no lock, a copy need not be the row.  What  *)
(* is left: where the copy of a message is stable and the row is not, a    *)
(* bundle of the route is at work, so an answer leaves the session stable  *)
(* or to that bundle.                                                      *)
(***************************************************************************)
EXTENDS SessionWorkflow, TLAPS

-----------------------------------------------------------------------------
(* Rows *)

\* A commit takes each column from the new copy where that differs from the old one.
LEMMA MergedType ==
  ASSUME NEW r \in Row, NEW old \in Row, NEW new \in Row
  PROVE  LET w == Merged(r, old, new) IN
         /\ w \in Row
         /\ w.id = IF new.id # old.id THEN new.id ELSE r.id
         /\ w.state = IF new.state # old.state THEN new.state ELSE r.state
         /\ w.stable = IF new.stable # old.stable THEN new.stable ELSE r.stable
         /\ w.version = IF new.version # old.version THEN new.version ELSE r.version
  BY DEF Merged, Row

\* Of an exact copy, a commit leaves just the new one.
LEMMA MergedExact ==
  ASSUME NEW r \in Row, NEW new \in Row
  PROVE  Merged(r, r, new) = new
  BY DEF Merged, Row

LEMMA NoRowType == NoRow \in Row
  BY SessionAssumption DEF NoRow, Row, States, StableStates

LEMMA NoReqType == NoReq \in Req
  BY NoRowType DEF NoReq, Req, PCs, Over

LEMMA CreatedType ==
  ASSUME NEW r \in Row, made \in Nat
  PROVE  Created(r) \in Row
  BY NoRowType DEF Created, NextId, Row, NoRow

\* The copies that the actions commit are rows.
LEMMA CopyTypes ==
  ASSUME NEW s \in Row
  PROVE  /\ Restarted(s) \in Row
         /\ Diagnosing(s) \in Row
         /\ Begun(s) \in Row
         /\ Finished(s) \in Row
         /\ [s EXCEPT !.state = s.stable] \in Row
         /\ [s EXCEPT !.state = "PROFILE_READY"] \in Row
         /\ [s EXCEPT !.state = "PROFILED", !.stable = "PROFILED", !.version = @ + 1] \in Row
         /\ s.turns < MaxTurns => [s EXCEPT !.turns = @ + 1] \in Row
  <1>1. /\ s.stable \in StableStates /\ s.stable \in States
        /\ s.version + 1 \in Nat /\ 0 \in 0..MaxTurns
        /\ s.turns < MaxTurns => s.turns + 1 \in 0..MaxTurns
    BY SessionAssumption DEF Row, States, StableStates
  <1>2. Restarted(s) \in Row
    BY <1>1 DEF Restarted, Row, States
  <1>3. Diagnosing(s) \in Row
    BY <1>1 DEF Diagnosing, Row, States, StableStates
  <1>4. Begun(s) \in Row /\ Finished(s) \in Row
    BY DEF Begun, Finished, Row, States, StableStates
  <1>5. [s EXCEPT !.state = s.stable] \in Row
    BY <1>1 DEF Row
  <1>6. /\ [s EXCEPT !.state = "PROFILE_READY"] \in Row
        /\ [s EXCEPT !.state = "PROFILED", !.stable = "PROFILED", !.version = @ + 1] \in Row
    BY <1>1 DEF Row, States, StableStates
  <1>7. s.turns < MaxTurns => [s EXCEPT !.turns = @ + 1] \in Row
    BY <1>1 DEF Row
  <1> QED BY <1>2, <1>3, <1>4, <1>5, <1>6, <1>7

-----------------------------------------------------------------------------
(* What the parts of an action keep *)

\* the lock and the requests keep their types
RestOK ==
  /\ holding \in {{}} \cup {{c} : c \in Clients}
  /\ waiting \in Seq(Clients)
  /\ req \in [Clients -> Req]

LEMMA EndType ==
  ASSUME TypeOK, NEW c \in Clients, NEW how \in Over, End(c, how)
  PROVE  RestOK'
  <1>1. [NoReq EXCEPT !.pc = how] \in Req
    BY NoReqType DEF NoReq, Req, PCs
  <1>2. holding \ {c} \in {{}} \cup {{d} : d \in Clients}
    BY DEF TypeOK
  <1> QED BY <1>1, <1>2 DEF TypeOK, RestOK, End

LEMMA GotoType ==
  ASSUME TypeOK, NEW c \in Clients, NEW pc \in PCs, NEW mine \in Row, Goto(c, pc, mine)
  PROVE  RestOK'
  <1>1. [req[c] EXCEPT !.pc = pc, !.mine = mine] \in Req
    BY DEF TypeOK, Req
  <1> QED BY <1>1 DEF TypeOK, RestOK, Goto

LEMMA CommitType ==
  ASSUME TypeOK, NEW c \in Clients, NEW r \in Row, NEW new \in Row, NEW next \in PCs,
         Commit(c, r, new, next)
  PROVE  row' \in Row /\ RestOK'
  <1>1. req[c].mine \in Row
    BY DEF TypeOK, Req
  <1>2. CASE Missing(c, r) /\ new # req[c].mine
    BY <1>2, EndType DEF Commit, Over
  <1>3. CASE ~(Missing(c, r) /\ new # req[c].mine)
    <2>1. row' = Merged(r, req[c].mine, new)
      BY <1>3 DEF Commit
    <2>2. RestOK'
      BY <1>3, EndType, GotoType DEF Commit
    <2> QED BY <1>1, <2>1, <2>2, MergedType
  <1> QED BY <1>2, <1>3

LEMMA FailedType ==
  ASSUME TypeOK, NEW c \in Clients, NEW r \in FailedRows(c)
  PROVE  r \in Row
  <1>1. req[c].mine \in Row /\ row \in Row
    BY DEF TypeOK, Req
  <1>2. \A base \in {row, req[c].mine} :
          Merged(row, base, [base EXCEPT !.state = base.stable]) \in Row
    BY <1>1, MergedType, CopyTypes
  <1> QED BY <1>1, <1>2 DEF FailedRows

LEMMA MadeType ==
  ASSUME TypeOK, row' \in Row, MadeBy(row')
  PROVE  made' \in Nat
  BY DEF TypeOK, MadeBy, Row

-----------------------------------------------------------------------------
(* The types *)

LEMMA TypeInit == Init => TypeOK
  BY NoRowType, NoReqType DEF Init, TypeOK

\* Every action keeps the types.
LEMMA TypeNext == TypeOK /\ [Next]_vars => TypeOK'
  <1> SUFFICES ASSUME TypeOK, [Next]_vars PROVE TypeOK'
    OBVIOUS
  <1> DEFINE Kept == row' \in Row /\ made' \in Nat /\ RestOK'
  <1>0. /\ row \in Row /\ made \in Nat /\ Created(row) \in Row
        /\ \A c \in Clients : req[c] \in Req /\ req[c].mine \in Row
    BY CreatedType DEF TypeOK, Req
  <1> SUFFICES Kept
    BY DEF TypeOK, RestOK
  <1>1. CASE UNCHANGED vars
    BY <1>0, <1>1 DEF vars, TypeOK, RestOK
  <1>2. ASSUME NEW c \in Clients, NEW kind \in Kinds \ {"bundle"}, Send(c, kind)
        PROVE  Kept
    <2>1. [[NoReq EXCEPT !.pc = "queued"] EXCEPT !.kind = kind] \in Req
      BY NoReqType, SessionAssumption DEF NoReq, Req, PCs
    <2>2. [NoReq EXCEPT !.pc = "queued", !.kind = kind] \in Req
      BY NoReqType, SessionAssumption DEF NoReq, Req, PCs
    <2> QED BY <1>0, <1>2, <2>2 DEF Send, TypeOK, RestOK
  <1>3. ASSUME NEW c \in Clients, AskBundle(c) PROVE Kept
    <2>1. [pc |-> "bgate", kind |-> "bundle", mine |-> row, detached |-> FALSE] \in Req
      BY <1>0 DEF Req, PCs, Bundled
    <2> QED BY <1>0, <1>3, <2>1 DEF AskBundle, TypeOK, RestOK
  <1>4. ASSUME NEW c \in Clients, Enter(c) PROVE Kept
    <2>1. [req[c] EXCEPT !.pc = "gate", !.mine = Created(row)] \in Req
      BY <1>0 DEF Req, PCs, Working
    <2>2. row' \in Row /\ made' \in Nat
      BY <1>0, <1>4, MadeType DEF Enter
    <2>3. req' \in [Clients -> Req]
      BY <1>4, <2>1 DEF Enter, TypeOK
    <2>4. waiting' \in Seq(Clients) /\ holding' \in {{d} : d \in Clients}
      BY <1>4 DEF Enter, TypeOK
    <2> QED BY <2>2, <2>3, <2>4 DEF RestOK
  <1>5. ASSUME NEW c \in Clients, Block(c) PROVE Kept
    BY <1>0, <1>5, EndType, FailedType DEF Block, Over
  <1>6. ASSUME NEW c \in Clients, Diagnose(c) PROVE Kept
    <2>1. PICK s \in {req[c].mine, Restarted(req[c].mine)} :
            Commit(c, Created(row), Diagnosing(s), "diagnosing")
      BY <1>6 DEF Diagnose
    <2>2. Diagnosing(s) \in Row
      BY <1>0, <2>1, CopyTypes
    <2>3. row' \in Row /\ RestOK'
      BY <1>0, <2>1, <2>2, CommitType DEF PCs, Working
    <2> QED BY <1>6, <2>3, MadeType DEF Diagnose
  <1>7. ASSUME NEW c \in Clients, Study(c) PROVE Kept
    <2>1. Begun(req[c].mine) \in Row
      BY <1>0, CopyTypes
    <2>2. PICK new \in Row, next \in PCs : Commit(c, Created(row), new, next)
      BY <1>0, <1>7, <2>1 DEF Study, PCs, Working, Bundled
    <2>3. row' \in Row /\ RestOK'
      BY <1>0, <2>2, CommitType
    <2> QED BY <1>7, <2>3, MadeType DEF Study
  <1>8. ASSUME NEW c \in Clients, Decline(c) PROVE Kept
    <2>1. row' \in Row /\ RestOK'
      BY <1>0, <1>8, CopyTypes, CommitType DEF Decline, PCs, Over
    <2> QED BY <1>8, <2>1, MadeType DEF Decline
  <1>9. ASSUME NEW c \in Clients, Refuse(c) \/ AnswerCached(c) PROVE Kept
    <2>1. row' \in Row /\ MadeBy(row')
      BY <1>0, <1>9 DEF Refuse, AnswerCached
    <2>2. RestOK'
      BY <1>9, EndType DEF Refuse, AnswerCached, Over
    <2> QED BY <2>1, <2>2, MadeType
  <1>10. ASSUME NEW c \in Clients,
                \/ Continue(c) \/ Ready(c) \/ SaveProfile(c) \/ Generated(c)
                \/ BeginBundle(c) \/ PassBundle(c) \/ BundleDone(c)
         PROVE  Kept
    <2>1. made' = made
      BY <1>10 DEF Continue, Ready, SaveProfile, Generated, BeginBundle, PassBundle,
                   BundleDone
    <2>2. CASE \E new \in Row, next \in PCs : Commit(c, row, new, next)
      BY <1>0, <2>1, <2>2, CommitType
    <2>3. CASE End(c, "idle") /\ UNCHANGED row
      BY <1>0, <2>1, <2>3, EndType DEF Over
    <2>4. CASE Continue(c)
      BY <1>0, <2>2, <2>4, CopyTypes DEF Continue, PCs, Over
    <2>5. CASE Ready(c)
      BY <1>0, <2>2, <2>5, CopyTypes DEF Ready, PCs, Working
    <2>6. CASE SaveProfile(c)
      BY <1>0, <2>2, <2>6, CopyTypes DEF SaveProfile, PCs, Over
    <2>7. CASE Generated(c)
      BY <1>0, <2>2, <2>7, CopyTypes DEF Generated, PCs, Over
    <2>8. CASE BeginBundle(c) \/ PassBundle(c)
      BY <1>0, <2>2, <2>3, <2>8, CopyTypes DEF BeginBundle, PassBundle, PCs, Bundled
    <2>9. CASE BundleDone(c)
      BY <1>0, <2>2, <2>3, <2>9, CopyTypes DEF BundleDone, PCs, Over
    <2> QED BY <1>10, <2>4, <2>5, <2>6, <2>7, <2>8, <2>9
  <1>11. ASSUME NEW c \in Clients, Fail(c) PROVE Kept
    BY <1>0, <1>11, EndType, FailedType DEF Fail, Over
  <1>12. ASSUME NEW c \in Clients, Escape(c) PROVE Kept
    <2>1. CASE End(c, "idle")
      BY <1>0, <1>12, <2>1, EndType DEF Escape, Over
    <2>2. CASE /\ req' = [req EXCEPT ![c].detached = TRUE]
               /\ holding' = holding \ {c} /\ UNCHANGED waiting
      <3>1. [req[c] EXCEPT !.detached = TRUE] \in Req
        BY <1>0 DEF Req
      <3>2. holding \ {c} \in {{}} \cup {{d} : d \in Clients}
        BY DEF TypeOK
      <3> QED BY <1>0, <1>12, <2>2, <3>1, <3>2 DEF Escape, TypeOK, RestOK
    <2> QED BY <1>12, <2>1, <2>2 DEF Escape
  <1>12a. ASSUME NEW c \in Clients, Leave(c) PROVE Kept
    <2>1. PICK i \in 1..Len(waiting) : waiting' = RemoveAt(waiting, i)
      BY <1>12a DEF Leave
    <2>2. waiting' \in Seq(Clients)
      BY <2>1 DEF RemoveAt, TypeOK
    <2> QED BY <1>0, <1>12a, <2>2, NoReqType DEF Leave, TypeOK, RestOK
  <1>13. CASE Crash
    BY <1>0, <1>13, NoReqType DEF Crash, RestOK
  <1>14. CASE Rediagnose
    <2>1. Restarted(Created(row)) \in Row
      BY <1>0, CopyTypes
    <2>2. row' \in Row
      BY <1>0, <1>14, <2>1 DEF Rediagnose
    <2> QED BY <1>14, <2>2, MadeType DEF Rediagnose, TypeOK, RestOK
  <1>15. CASE Delete
    BY <1>0, <1>15, NoRowType DEF Delete, TypeOK, RestOK
  <1> QED
    BY <1>1, <1>2, <1>3, <1>4, <1>5, <1>6, <1>7, <1>8, <1>9, <1>10, <1>11, <1>12,
       <1>12a, <1>13, <1>14, <1>15
    DEF Next, Request, Progress

\* The rows, the requests and the lock keep their types, and the lock has one holder
\* at most, whatever requests, faults and routes are allowed.
THEOREM TypeCorrect == Spec => []TypeOK
  <1>1. Init => TypeOK
    BY TypeInit
  <1>2. TypeOK /\ [Next]_vars => TypeOK'
    BY TypeNext
  <1> QED BY <1>1, <1>2, PTL DEF Spec

-----------------------------------------------------------------------------
(***************************************************************************)
(* A profiled session has a profile.                                       *)
(*                                                                         *)
(* The property is not inductive: a request commits what follows from its  *)
(* own copy, which may be stale.  It needs that the copies are good as     *)
(* well, that the version of a row with the same id never falls back, and  *)
(* that a row made after a deletion has an id no copy has.                 *)
(***************************************************************************)
Good(s) ==
  s.state \in {"PROFILED", "GENERATING"} \/ s.stable = "PROFILED" => s.version > 0

RowGood == Good(row) /\ row.id <= made /\ (row.id = 0 => row.version = 0)

\* a request that stands as q, when the row is r and m the last id
CopyGood(q, r, m) ==
  /\ Good(q.mine)
  /\ q.mine.id <= m
  /\ q.mine.id = r.id /\ q.mine.version > 0 => r.version > 0
  /\ q.mine.id = 0 => q.mine.version = 0
  /\ q.pc \in Bundled \cup Working => q.mine.id # 0
  /\ q.pc \in {"generating", "bundling"} => q.mine.state = "GENERATING"
  /\ q.pc \in {"starting", "bgate"} => q.mine.version > 0

ProfileInv ==
  /\ TypeOK
  /\ RowGood
  /\ \A c \in Clients : CopyGood(req[c], row, made)

\* the row keeps its id and does not lose its profile, or is a new one, or gone
RowMoves ==
  /\ Good(row') /\ made <= made' /\ row'.id <= made' /\ (row'.id = 0 => row'.version = 0)
  /\ \/ row'.id = row.id /\ (row.version > 0 => row'.version > 0)
     \/ row'.id > made
     \/ row'.id = 0

\* When the row moves and one request goes on with a good copy, all stays good.
LEMMA GoodKept ==
  ASSUME ProfileInv, TypeOK', RowMoves, NEW c \in Clients, NEW q,
         CopyGood(q, row', made'), req' = [req EXCEPT ![c] = q]
  PROVE  ProfileInv'
  <1>1. RowGood'
    BY DEF RowMoves, RowGood, Good
  <1>2. ASSUME NEW d \in Clients PROVE CopyGood(req'[d], row', made')
    <2>1. CASE d = c
      BY <2>1 DEF ProfileInv, TypeOK
    <2>2. CASE d # c
      <3>1. req'[d] = req[d] /\ CopyGood(req[d], row, made)
        BY <2>2 DEF ProfileInv, TypeOK
      <3>2. req[d].mine \in Row /\ row \in Row /\ row' \in Row /\ made \in Nat /\ made' \in Nat
        BY DEF ProfileInv, TypeOK, Req
      <3>3. /\ req[d].mine.id \in Nat /\ req[d].mine.version \in Nat
            /\ row.id \in Nat /\ row'.id \in Nat /\ row.version \in Nat /\ row'.version \in Nat
        BY <3>2 DEF Row
      <3> QED BY <3>1, <3>2, <3>3 DEF CopyGood, RowMoves
    <2> QED BY <2>1, <2>2
  <1> QED BY <1>1, <1>2 DEF ProfileInv

LEMMA NoReqGood ==
  ASSUME NEW r \in Row, NEW m \in Nat, NEW how \in Over
  PROVE  CopyGood([NoReq EXCEPT !.pc = how], r, m)
  BY DEF CopyGood, Good, NoReq, NoRow, Over, Bundled, Working, Row

\* What get_or_create_session returns is good, and new if the row was missing.
LEMMA CreatedGood ==
  ASSUME ProfileInv, ~ReuseIds
  PROVE  /\ Good(Created(row))
         /\ Created(row).id # 0
         /\ Created(row) = row \/ (Created(row).id = made + 1 /\ Created(row).version = 0)
  BY DEF ProfileInv, RowGood, Good, Created, NextId, NoRow, TypeOK, Row

\* A row that has just been made or is the one there was.
Shown(r) == r = row \/ r = Created(row)

\* A commit of a good copy keeps all good: when the row is not the one that was
\* copied, only an unchanged copy is committed.
LEMMA CommitGood ==
  ASSUME ProfileInv, TypeOK', ~ReuseIds, NEW c \in Clients, NEW r, Shown(r),
         NEW new \in Row, NEW next \in PCs, Commit(c, r, new, next),
         MadeBy(row') \/ (r = row /\ made' = made),
         req[c].pc \in Bundled \cup Working,
         new.id = req[c].mine.id, Good(new),
         req[c].mine.version > 0 => new.version > 0,
         new.version # req[c].mine.version => new.version > 0,
         next \in {"generating", "bundling"} => new.state = "GENERATING",
         next \in {"starting", "bgate"} => new.version > 0
  PROVE  ProfileInv'
  <1> DEFINE mine == req[c].mine
  <1>0. /\ row \in Row /\ mine \in Row /\ made \in Nat /\ row' \in Row /\ made' \in Nat
        /\ CopyGood(req[c], row, made) /\ RowGood
    BY DEF ProfileInv, TypeOK, Req
  <1>1. /\ r \in Row /\ Good(r)
        /\ r = row \/ (r.id = made + 1 /\ r.version = 0)
        /\ r.id = 0 => r = row
    BY <1>0, CreatedGood, CreatedType DEF Shown, RowGood
  <1>2. /\ mine.id \in Nat /\ mine.version \in Nat /\ new.id \in Nat /\ new.version \in Nat
        /\ row.id \in Nat /\ row.version \in Nat /\ r.id \in Nat /\ r.version \in Nat
        /\ row'.id \in Nat /\ row'.version \in Nat
    BY <1>0, <1>1 DEF Row
  <1>3. mine.id # 0 /\ mine.id <= made
    BY <1>0 DEF CopyGood
  <1>4. r.id # mine.id \/ r = row
    BY <1>1, <1>2, <1>3, <1>0
  <1>5. /\ row'.id = r.id /\ Good(row') /\ (r.version > 0 => row'.version > 0)
        /\ row'.id = mine.id /\ new.version > 0 => row'.version > 0
        /\ row'.version > 0 => r.version > 0 \/ r.id = mine.id
    <2>1. CASE Missing(c, r)
      <3>1. row' = r
        <4>1. CASE new # mine
          BY <2>1, <4>1 DEF Commit
        <4>2. CASE new = mine
          <5>1. row' = Merged(r, mine, mine)
            BY <4>2 DEF Commit
          <5>2. Merged(r, mine, mine) = r
            BY <1>1, <1>0 DEF Merged, Row
          <5> QED BY <5>1, <5>2
        <4> QED BY <4>1, <4>2
      <3> QED BY <2>1, <3>1, <1>1 DEF Missing
    <2>2. CASE ~Missing(c, r)
      <3>1. row' = Merged(r, mine, new)
        BY <2>2 DEF Commit
      <3>2. /\ row'.id = r.id
            /\ row'.state = IF new.state # mine.state THEN new.state ELSE r.state
            /\ row'.stable = IF new.stable # mine.stable THEN new.stable ELSE r.stable
            /\ row'.version = IF new.version # mine.version THEN new.version ELSE r.version
        BY <3>1, <1>0, <1>1, MergedType
      <3>3. r = row /\ r.id = mine.id
        BY <2>2, <1>4 DEF Missing
      <3>4. mine.version > 0 => r.version > 0
        BY <1>0, <3>3 DEF CopyGood
      <3>5. row'.version > 0 \/ ~(r.version > 0 \/ new.version > 0)
        BY <3>2, <3>4, <1>2
      <3> QED BY <3>2, <3>3, <3>5, <1>1 DEF Good
    <2> QED BY <2>1, <2>2
  <1>6. RowMoves
    <2>1. made <= made' /\ row'.id <= made'
      BY <1>0, <1>1, <1>2, <1>5 DEF MadeBy, RowGood
    <2>2. row'.id = 0 => row'.version = 0
      <3>1. ASSUME row'.id = 0 PROVE r.version = 0 /\ r.id # mine.id
        BY <1>0, <1>1, <1>2, <1>3, <1>5, <3>1 DEF RowGood
      <3> QED BY <1>2, <1>5, <3>1
    <2>3. made \in Nat
      BY <1>0
    <2>4. \/ row'.id = row.id /\ (row.version > 0 => row'.version > 0)
          \/ row'.id > made
      BY <1>1, <1>2, <1>5, <2>3
    <2> QED BY <1>5, <2>1, <2>2, <2>4 DEF RowMoves
  <1>7. PICK q : req' = [req EXCEPT ![c] = q] /\ CopyGood(q, row', made')
    <2>1. CASE \E how \in Over : End(c, how)
      <3>1. PICK how \in Over : End(c, how)
        BY <2>1
      <3>2. CopyGood([NoReq EXCEPT !.pc = how], row', made')
        BY <1>0, NoReqGood
      <3> QED BY <3>1, <3>2 DEF End
    <2>2. CASE Goto(c, next, new) /\ ~(Missing(c, r) /\ new # mine)
      <3> DEFINE q == [req[c] EXCEPT !.pc = next, !.mine = new]
      <3>1. req' = [req EXCEPT ![c] = q]
        BY <2>2 DEF Goto
      <3>2. q.pc = next /\ q.mine = new
        BY DEF ProfileInv, TypeOK, Req
      <3>3. new.id <= made' /\ new.id # 0
        BY <1>0, <1>2, <1>3, <1>6 DEF RowMoves
      <3>4. CopyGood(q, row', made')
        BY <3>2, <3>3, <1>5 DEF CopyGood
      <3> QED BY <3>1, <3>4
    <2> QED BY <2>1, <2>2 DEF Commit, Over
  <1> QED BY <1>6, <1>7, GoodKept

LEMMA StillMoves ==
  ASSUME ProfileInv, row' = row, made' = made
  PROVE  RowMoves
  BY DEF ProfileInv, RowGood, RowMoves, TypeOK, Row, Good

LEMMA CreatedMoves ==
  ASSUME ProfileInv, ~ReuseIds, row' = Created(row), MadeBy(row')
  PROVE  RowMoves /\ row'.id # 0
  <1>1. /\ row \in Row /\ Created(row) \in Row /\ made \in Nat /\ RowGood
    BY CreatedType DEF ProfileInv, TypeOK
  <1>2. /\ row.id \in Nat /\ row.version \in Nat
        /\ Created(row).id \in Nat /\ Created(row).version \in Nat
    BY <1>1 DEF Row
  <1>3. made' \in Nat /\ made <= made' /\ row'.id <= made'
    BY <1>1, <1>2 DEF MadeBy
  <1>4. CASE Created(row) = row
    BY <1>1, <1>2, <1>3, <1>4, CreatedGood DEF RowMoves
  <1>5. CASE Created(row).id = made + 1 /\ Created(row).version = 0
    BY <1>1, <1>2, <1>3, <1>5, CreatedGood DEF RowMoves
  <1> QED BY <1>4, <1>5, CreatedGood

LEMMA FailedMoves ==
  ASSUME ProfileInv, NEW c \in Clients, row' \in FailedRows(c), made' = made
  PROVE  RowMoves
  <1> DEFINE mine == req[c].mine
  <1>1. /\ row \in Row /\ mine \in Row /\ made \in Nat /\ RowGood
        /\ CopyGood(req[c], row, made)
    BY DEF ProfileInv, TypeOK, Req
  <1>2. CASE row' = row
    BY <1>2, StillMoves
  <1>3. ASSUME ~Missing(c, row), NEW base \in {row, mine},
               row' = Merged(row, base, [base EXCEPT !.state = base.stable])
        PROVE  RowMoves
    <2> DEFINE new == [base EXCEPT !.state = base.stable]
    <2>1. new \in Row /\ base \in Row
      BY <1>1, CopyTypes
    <2>2. /\ new.id = base.id /\ new.state = base.stable
          /\ new.stable = base.stable /\ new.version = base.version
      BY <2>1 DEF Row
    <2>3. /\ row'.id = row.id /\ row'.stable = row.stable /\ row'.version = row.version
          /\ row'.state \in {row.state, base.stable}
      <3>0. row' = Merged(row, base, new)
        BY <1>3
      <3> HIDE DEF new
      <3>1. /\ row'.id = IF new.id # base.id THEN new.id ELSE row.id
            /\ row'.state = IF new.state # base.state THEN new.state ELSE row.state
            /\ row'.stable = IF new.stable # base.stable THEN new.stable ELSE row.stable
            /\ row'.version = IF new.version # base.version THEN new.version ELSE row.version
        BY <1>1, <2>1, <3>0, MergedType
      <3> QED BY <2>2, <3>1
    <2>4. base.stable = "PROFILED" => row.version > 0
      BY <1>1, <1>3 DEF Missing, CopyGood, RowGood, Good
    <2>5. base.stable # "GENERATING"
      BY <2>1 DEF Row, StableStates
    <2>6. Good(row')
      BY <1>1, <2>3, <2>4, <2>5 DEF Good, RowGood
    <2>7. row.id \in Nat /\ row.id <= made /\ (row.id = 0 => row.version = 0) /\ made <= made
      BY <1>1 DEF Row, RowGood
    <2> QED BY <2>3, <2>6, <2>7 DEF RowMoves
  <1> QED BY <1>2, <1>3 DEF FailedRows

LEMMA EndGood ==
  ASSUME ProfileInv, TypeOK', RowMoves, NEW c \in Clients, NEW how \in Over, End(c, how)
  PROVE  ProfileInv'
  <1>1. row' \in Row /\ made' \in Nat
    BY DEF TypeOK
  <1>2. CopyGood([NoReq EXCEPT !.pc = how], row', made')
    BY <1>1, NoReqGood
  <1>3. req' = [req EXCEPT ![c] = [NoReq EXCEPT !.pc = how]]
    BY DEF End
  <1> QED BY <1>2, <1>3, GoodKept

-----------------------------------------------------------------------------
LEMMA ProfileInit == Init => ProfileInv
  <1> SUFFICES ASSUME Init PROVE ProfileInv
    OBVIOUS
  <1>1. TypeOK
    BY TypeInit
  <1>2. RowGood
    BY DEF Init, RowGood, Good, NoRow
  <1>3. ASSUME NEW c \in Clients PROVE CopyGood(req[c], row, made)
    BY <1>1 DEF Init, CopyGood, Good, NoReq, NoRow, Bundled, Working
  <1> QED BY <1>1, <1>2, <1>3 DEF ProfileInv

\* Every action keeps the invariant.
LEMMA ProfileNext ==
  ASSUME ~ReuseIds, ProfileInv, [Next]_vars
  PROVE  ProfileInv'
  <1>0. /\ TypeOK /\ TypeOK' /\ row \in Row /\ made \in Nat /\ Created(row) \in Row
        /\ row' \in Row /\ made' \in Nat
        /\ \A c \in Clients : /\ req[c] \in Req /\ req[c].mine \in Row
                              /\ CopyGood(req[c], row, made)
    <2>1. TypeOK /\ TypeOK'
      BY TypeNext DEF ProfileInv
    <2> QED BY <2>1, CreatedType DEF ProfileInv, TypeOK, Req
  <1>0a. Shown(row) /\ Shown(Created(row))
    BY DEF Shown
  <1>0b. \A s \in Row : /\ s.id \in Nat /\ s.version \in Nat
                        /\ s.state \in States /\ s.stable \in StableStates
    BY DEF Row
  <1>1. CASE UNCHANGED vars
    BY <1>0, <1>1 DEF vars, ProfileInv, RowGood, CopyGood, Good
  <1>2. ASSUME NEW c \in Clients, NEW kind \in Kinds \ {"bundle"}, Send(c, kind)
        PROVE  ProfileInv'
    <2> DEFINE q == [NoReq EXCEPT !.pc = "queued", !.kind = kind]
    <2>1. RowMoves
      BY <1>2, StillMoves DEF Send
    <2>2. CopyGood(q, row', made')
      BY <1>0 DEF CopyGood, Good, NoReq, NoRow, Bundled, Working
    <2> QED BY <1>0, <1>2, <2>1, <2>2, GoodKept DEF Send
  <1>3. ASSUME NEW c \in Clients, AskBundle(c) PROVE ProfileInv'
    <2> DEFINE q == [pc |-> "bgate", kind |-> "bundle", mine |-> row, detached |-> FALSE]
    <2>1. RowMoves
      BY <1>3, StillMoves DEF AskBundle
    <2>2. CopyGood(q, row, made)
      BY <1>0, <1>0b, <1>3 DEF AskBundle, CopyGood, ProfileInv, RowGood
    <2>3. row' = row /\ made' = made /\ req' = [req EXCEPT ![c] = q]
      BY <1>3 DEF AskBundle
    <2> QED BY <1>0, <2>1, <2>2, <2>3, GoodKept
  <1>4. ASSUME NEW c \in Clients, Enter(c) PROVE ProfileInv'
    <2> DEFINE q == [req[c] EXCEPT !.pc = "gate", !.mine = row']
    <2>1. RowMoves /\ row'.id # 0
      BY <1>4, CreatedMoves DEF Enter
    <2>2. q.pc = "gate" /\ q.mine = row'
      BY <1>0 DEF Req
    <2>3. CopyGood(q, row', made')
      BY <1>0, <1>0b, <2>1, <2>2 DEF CopyGood, RowMoves, Good
    <2>4. req' = [req EXCEPT ![c] = q]
      BY <1>4 DEF Enter
    <2> QED BY <1>0, <2>1, <2>3, <2>4, GoodKept
  <1>5. ASSUME NEW c \in Clients, Block(c) PROVE ProfileInv'
    <2>1. RowMoves
      BY <1>5, StillMoves, FailedMoves DEF Block
    <2> QED BY <1>0, <1>5, <2>1, EndGood DEF Block, Over
  <1>6. ASSUME NEW c \in Clients, Diagnose(c) PROVE ProfileInv'
    <2> DEFINE mine == req[c].mine
    <2>1. PICK s \in {mine, Restarted(mine)} :
            s.state \in {"NEW", "DIAGNOSING"} /\ Commit(c, Created(row), Diagnosing(s), "diagnosing")
      BY <1>6 DEF Diagnose
    <2>2. s \in Row /\ s.id = mine.id /\ s.version = mine.version /\ s.stable = mine.stable
      BY <1>0, <2>1, CopyTypes DEF Restarted, Row
    <2> DEFINE new == Diagnosing(s)
    <2>3. /\ new \in Row /\ new.id = mine.id /\ new.version = mine.version
          /\ new.stable = mine.stable \/ new.stable = "DIAGNOSING"
          /\ new.state = "DIAGNOSING"
      BY <2>1, <2>2, CopyTypes DEF Diagnosing, Row
    <2>4. Good(new)
      BY <1>0, <2>3 DEF Good, CopyGood
    <2>5. req[c].pc = "gate" /\ MadeBy(row')
      BY <1>6 DEF Diagnose
    <2> HIDE DEF new
    <2> QED
      BY <1>0, <1>0a, <2>1, <2>3, <2>4, <2>5, CommitGood DEF new, Working, PCs
  <1>7. ASSUME NEW c \in Clients, Study(c) PROVE ProfileInv'
    <2> DEFINE mine == req[c].mine
    <2>1. /\ Begun(mine) \in Row /\ Begun(mine).id = mine.id /\ Begun(mine).state = "GENERATING"
          /\ Begun(mine).version = mine.version
      BY <1>0, CopyTypes DEF Begun, Row
    <2>2. mine.version > 0 /\ req[c].pc = "gate" /\ MadeBy(row')
      BY <1>7 DEF Study
    <2>3. Good(mine) /\ Good(Begun(mine))
      BY <2>1, <2>2 DEF Good
    <2>4. CASE \E next \in {"cached", "starting"} : Commit(c, Created(row), mine, next)
      BY <1>0, <1>0a, <2>2, <2>3, <2>4, CommitGood DEF Working, PCs
    <2>5. CASE \E next \in {"generating", "bundling"} : Commit(c, Created(row), Begun(mine), next)
      BY <1>0, <1>0a, <2>1, <2>2, <2>3, <2>5, CommitGood DEF Working, Bundled, PCs
    <2> QED BY <1>7, <2>4, <2>5 DEF Study
  <1>8. ASSUME NEW c \in Clients, Decline(c) PROVE ProfileInv'
    <2> DEFINE mine == req[c].mine
               new  == [mine EXCEPT !.state = mine.stable]
    <2>1. /\ new \in Row /\ new.id = mine.id /\ new.version = mine.version
          /\ new.stable = mine.stable /\ new.state = mine.stable
      BY <1>0, CopyTypes DEF Row
    <2>2. Good(new)
      BY <1>0, <1>0b, <2>1 DEF Good, CopyGood, StableStates
    <2>3. req[c].pc = "gate" /\ MadeBy(row') /\ Commit(c, Created(row), new, "failed")
      BY <1>8 DEF Decline
    <2> HIDE DEF new
    <2> QED BY <1>0, <1>0a, <2>1, <2>2, <2>3, CommitGood DEF Working, Over, PCs
  <1>9. ASSUME NEW c \in Clients, Refuse(c) \/ AnswerCached(c) PROVE ProfileInv'
    <2>1. RowMoves
      BY <1>9, CreatedMoves DEF Refuse, AnswerCached
    <2> QED BY <1>0, <1>9, <2>1, EndGood DEF Refuse, AnswerCached, Over
  <1>10. ASSUME NEW c \in Clients, Continue(c) PROVE ProfileInv'
    <2> DEFINE mine == req[c].mine
               new  == [mine EXCEPT !.turns = @ + 1]
    <2>1. /\ new \in Row /\ new.id = mine.id /\ new.version = mine.version
          /\ new.stable = mine.stable /\ new.state = mine.state
      BY <1>0, <1>10, CopyTypes DEF Continue, Row
    <2>2. Good(new)
      BY <1>0, <2>1 DEF Good, CopyGood
    <2>3. req[c].pc = "diagnosing" /\ made' = made /\ Commit(c, row, new, "done")
      BY <1>10 DEF Continue
    <2> HIDE DEF new
    <2> QED BY <1>0, <1>0a, <2>1, <2>2, <2>3, CommitGood DEF Working, Over, PCs
  <1>11. ASSUME NEW c \in Clients, Ready(c) PROVE ProfileInv'
    <2> DEFINE mine == req[c].mine
               new  == [mine EXCEPT !.state = "PROFILE_READY"]
    <2>1. /\ new \in Row /\ new.id = mine.id /\ new.version = mine.version
          /\ new.stable = mine.stable /\ new.state = "PROFILE_READY"
      BY <1>0, CopyTypes DEF Row
    <2>2. Good(new)
      BY <1>0, <2>1 DEF Good, CopyGood
    <2>3. req[c].pc = "diagnosing" /\ made' = made /\ Commit(c, row, new, "profiling")
      BY <1>11 DEF Ready
    <2> HIDE DEF new
    <2> QED BY <1>0, <1>0a, <2>1, <2>2, <2>3, CommitGood DEF Working, PCs
  <1>12. ASSUME NEW c \in Clients, SaveProfile(c) PROVE ProfileInv'
    <2> DEFINE mine == req[c].mine
               new  == [mine EXCEPT !.state = "PROFILED", !.stable = "PROFILED", !.version = @ + 1]
    <2>1. new \in Row /\ new.id = mine.id /\ new.version > 0
      <3>1. new \in Row
        BY <1>0, CopyTypes
      <3>2. new.id = mine.id /\ new.version = mine.version + 1
        BY <1>0 DEF Row
      <3>3. mine.version \in Nat
        BY <1>0, <1>0b
      <3> QED BY <3>1, <3>2, <3>3
    <2>2. Good(new)
      BY <2>1 DEF Good
    <2>3. req[c].pc = "profiling" /\ made' = made /\ Commit(c, row, new, "done")
      BY <1>12 DEF SaveProfile
    <2> HIDE DEF new
    <2> QED BY <1>0, <1>0a, <2>1, <2>2, <2>3, CommitGood DEF Working, Over, PCs
  <1>13. ASSUME NEW c \in Clients, req[c].pc \in {"generating", "bundling"}, made' = made,
                Commit(c, row, Finished(req[c].mine), "done")
         PROVE  ProfileInv'
    <2> DEFINE mine == req[c].mine
    <2>1. mine.version > 0
      BY <1>0, <1>13 DEF CopyGood, Good
    <2>2. /\ Finished(mine) \in Row /\ Finished(mine).id = mine.id
          /\ Finished(mine).version = mine.version
      BY <1>0, CopyTypes DEF Finished, Row
    <2>3. Good(Finished(mine))
      BY <2>1, <2>2 DEF Good
    <2> QED BY <1>0, <1>0a, <1>13, <2>1, <2>2, <2>3, CommitGood DEF Working, Bundled, Over, PCs
  <1>14. ASSUME NEW c \in Clients, req[c].pc \in {"starting", "bgate"}, made' = made,
                Commit(c, row, Begun(req[c].mine), "bundling")
         PROVE  ProfileInv'
    <2> DEFINE mine == req[c].mine
    <2>1. mine.version > 0
      BY <1>0, <1>14 DEF CopyGood
    <2>2. /\ Begun(mine) \in Row /\ Begun(mine).id = mine.id
          /\ Begun(mine).version = mine.version /\ Begun(mine).state = "GENERATING"
      BY <1>0, CopyTypes DEF Begun, Row
    <2>3. Good(Begun(mine))
      BY <2>1, <2>2 DEF Good
    <2> QED BY <1>0, <1>0a, <1>14, <2>1, <2>2, <2>3, CommitGood DEF Working, Bundled, PCs
  <1>15. ASSUME NEW c \in Clients, End(c, "idle"), UNCHANGED <<row, made>> PROVE ProfileInv'
    BY <1>0, <1>15, StillMoves, EndGood DEF Over
  <1>16. ASSUME NEW c \in Clients,
                Generated(c) \/ BeginBundle(c) \/ PassBundle(c) \/ BundleDone(c)
         PROVE  ProfileInv'
    BY <1>13, <1>14, <1>15, <1>16 DEF Generated, BeginBundle, PassBundle, BundleDone
  <1>17. ASSUME NEW c \in Clients, Fail(c) PROVE ProfileInv'
    <2>1. RowMoves
      BY <1>17, FailedMoves DEF Fail
    <2> QED BY <1>0, <1>17, <2>1, EndGood DEF Fail, Over
  <1>18. ASSUME NEW c \in Clients, Escape(c) PROVE ProfileInv'
    <2>1. CASE End(c, "idle")
      BY <1>15, <1>18, <2>1 DEF Escape
    <2>2. CASE req' = [req EXCEPT ![c].detached = TRUE]
      <3> DEFINE q == [req[c] EXCEPT !.detached = TRUE]
      <3>1. q.pc = req[c].pc /\ q.mine = req[c].mine
        BY <1>0 DEF Req
      <3>2. row' = row /\ made' = made
        BY <1>18 DEF Escape
      <3>3. CopyGood(q, row', made')
        BY <1>0, <3>1, <3>2 DEF CopyGood
      <3> QED BY <1>0, <2>2, <3>2, <3>3, StillMoves, GoodKept
    <2> QED BY <1>18, <2>1, <2>2 DEF Escape
  <1>18a. ASSUME NEW c \in Clients, Leave(c) PROVE ProfileInv'
    <2>1. CopyGood(NoReq, row', made')
      BY <1>0 DEF CopyGood, Good, NoReq, NoRow, Bundled, Working
    <2> QED BY <1>0, <1>18a, <2>1, StillMoves, GoodKept DEF Leave
  <1>19. CASE Crash
    <2>1. RowGood'
      BY <1>19 DEF Crash, ProfileInv, RowGood, Good
    <2>2. ASSUME NEW c \in Clients PROVE CopyGood(req'[c], row', made')
      BY <1>0, <1>19 DEF Crash, CopyGood, Good, NoReq, NoRow, Bundled, Working
    <2> QED BY <1>0, <2>1, <2>2 DEF ProfileInv
  <1>20. ASSUME RowMoves, req' = req PROVE ProfileInv'
    <2>1. RowGood'
      BY <1>20 DEF RowMoves, RowGood, Good
    <2>2. ASSUME NEW c \in Clients PROVE CopyGood(req'[c], row', made')
      BY <1>0, <1>0b, <1>20 DEF CopyGood, RowMoves
    <2> QED BY <1>0, <2>1, <2>2 DEF ProfileInv
  <1>21. CASE Rediagnose
    <2> DEFINE s == Created(row)
    <2>1. /\ Restarted(s) \in Row /\ Restarted(s).id = s.id /\ Restarted(s).version = s.version
          /\ Restarted(s).stable = s.stable /\ Restarted(s).state = "DIAGNOSING"
      BY <1>0, CopyTypes DEF Restarted, Row
    <2>2. /\ row'.id = s.id /\ row'.version = s.version /\ row'.stable = s.stable
          /\ row'.state \in {s.state, "DIAGNOSING"}
      BY <1>21, <2>1 DEF Rediagnose
    <2>3. Good(row') /\ row'.id # 0
      BY <2>2, CreatedGood DEF Good
    <2>4. made <= made' /\ row'.id <= made'
      BY <1>0, <1>0b, <1>21 DEF Rediagnose, MadeBy
    <2>5. \/ row'.id = row.id /\ (row.version > 0 => row'.version > 0)
          \/ row'.id > made
      BY <1>0, <1>0b, <2>2, CreatedGood
    <2> QED BY <1>20, <1>21, <2>3, <2>4, <2>5 DEF Rediagnose, RowMoves
  <1>22. CASE Delete
    <2>1. RowMoves
      BY <1>0, <1>22 DEF Delete, RowMoves, Good, NoRow
    <2> QED BY <1>20, <1>22, <2>1 DEF Delete
  <1> QED
    BY <1>1, <1>2, <1>3, <1>4, <1>5, <1>6, <1>7, <1>8, <1>9, <1>10, <1>11, <1>12,
       <1>16, <1>17, <1>18, <1>18a, <1>19, <1>21, <1>22
    DEF Next, Request, Progress

\* When no id of a row is used again, a session that says it is profiled or is
\* generating has a profile, with the routes that take no lock and every fault.
THEOREM ProfileKept ==
  ASSUME ~ReuseIds
  PROVE  Spec => []ProfiledHasProfile
  <1>1. Init => ProfileInv
    BY ProfileInit
  <1>2. ProfileInv /\ [Next]_vars => ProfileInv'
    BY ProfileNext
  <1>3. ProfileInv => ProfiledHasProfile
    BY DEF ProfileInv, RowGood, Good, ProfiledHasProfile
  <1> QED BY <1>1, <1>2, <1>3, PTL DEF Spec

-----------------------------------------------------------------------------
(***************************************************************************)
(* Messages alone, and deletions                                           *)
(***************************************************************************)
OnlyMessages ==
  ~ReuseIds /\ Kinds \subseteq {"chat", "stream"} /\ Calls \subseteq {"delete"}

\* request c is at work, for a client that is still there
Active(q) == q.pc \in Working \cup Bundled /\ ~q.detached

\* the state in which each part of the work finds the copy
AtState(q) ==
  /\ q.pc # "bgate"
  /\ q.pc = "diagnosing" => q.mine.state = "DIAGNOSING"
  /\ q.pc = "profiling" => q.mine.state = "PROFILE_READY"
  /\ q.pc = "starting" => q.mine.state = "PROFILED"

Exact(q, r) == q.mine.id = r.id => q.mine = r

LockInv ==
  /\ ProfileInv
  /\ row.id = 0 => row = NoRow
  /\ \A c \in Clients :
       /\ Active(req[c]) => holding = {c} /\ AtState(req[c]) /\ Exact(req[c], row)
       /\ req[c].detached => req[c].pc = "bundling"

\* a step of the lifecycle, or none
Moves == [Lifecycle!Next]_(Lifecycle!lvars)

-----------------------------------------------------------------------------
\* A row that is made is, to the lifecycle, the missing one.
LEMMA CreatedStill ==
  ASSUME row.id = 0 => row = NoRow, row' = Created(row)
  PROVE  row'.state = row.state /\ row'.stable = row.stable /\ row'.version = row.version
  BY DEF Created, NoRow

LEMMA StillStutters ==
  ASSUME row'.state = row.state, row'.stable = row.stable, row'.version = row.version
  PROVE  Moves
  BY DEF Moves, Lifecycle!lvars

\* What a commit under the lock does: nothing to an existing row, or exactly what the
\* copy says.
LEMMA CommitExact ==
  ASSUME LockInv, OnlyMessages, NEW c \in Clients, Active(req[c]), NEW r, Shown(r),
         NEW new \in Row, NEW next, Commit(c, r, new, next)
  PROVE  \/ row' = r /\ r.id # req[c].mine.id
         \/ row' = new /\ row = req[c].mine
  <1> DEFINE mine == req[c].mine
  <1>0. /\ row \in Row /\ mine \in Row /\ made \in Nat /\ CopyGood(req[c], row, made)
        /\ Created(row) \in Row /\ ProfileInv
    BY CreatedType DEF LockInv, ProfileInv, TypeOK, Req
  <1>1. mine.id # 0 /\ mine.id <= made /\ mine.id \in Nat
    BY <1>0 DEF Active, CopyGood, Row
  <1>2. r \in Row /\ (r = row \/ r.id = made + 1)
    BY <1>0, CreatedGood DEF Shown, OnlyMessages
  <1>3. CASE Missing(c, r)
    <2>1. row' = r
      <3>1. CASE new # mine
        BY <1>3, <3>1 DEF Commit
      <3>2. CASE new = mine
        <4>1. row' = Merged(r, mine, mine)
          BY <3>2 DEF Commit
        <4>2. Merged(r, mine, mine) = r
          BY <1>0, <1>2 DEF Merged, Row
        <4> QED BY <4>1, <4>2
      <3> QED BY <3>1, <3>2
    <2> QED BY <1>3, <2>1 DEF Missing
  <1>4. CASE ~Missing(c, r)
    <2>1. r.id = mine.id /\ row' = Merged(r, mine, new)
      BY <1>4 DEF Missing, Commit
    <2>2. r = row /\ mine = row
      BY <1>0, <1>1, <1>2, <2>1 DEF LockInv, Exact
    <2> QED BY <1>0, <2>1, <2>2, MergedExact
  <1> QED BY <1>3, <1>4

\* What a recorded failure does.
LEMMA FailedExact ==
  ASSUME LockInv, NEW c \in Clients, Active(req[c]), row' \in FailedRows(c)
  PROVE  row' = row \/ row' = [row EXCEPT !.state = row.stable]
  <1> DEFINE mine == req[c].mine
  <1>0. row \in Row /\ [row EXCEPT !.state = row.stable] \in Row
    BY CopyTypes DEF LockInv, ProfileInv, TypeOK
  <1>1. CASE Missing(c, row)
    BY <1>1 DEF FailedRows
  <1>2. CASE ~Missing(c, row)
    <2>1. mine = row
      BY <1>2 DEF Missing, LockInv, Exact
    <2>2. PICK base \in {row, mine} :
            row' = row \/ row' = Merged(row, base, [base EXCEPT !.state = base.stable])
      BY <1>2 DEF FailedRows
    <2>3. row' = row \/ row' = Merged(row, row, [row EXCEPT !.state = row.stable])
      BY <2>1, <2>2
    <2> QED BY <1>0, <2>3, MergedExact
  <1> QED BY <1>1, <1>2

LEMMA FailMoves ==
  ASSUME LockInv, row' = [row EXCEPT !.state = row.stable]
  PROVE  Moves /\ row'.id = row.id
  <1>1. row \in Row
    BY DEF LockInv, ProfileInv, TypeOK
  <1>2. /\ row'.state = row.stable /\ row'.stable = row.stable
        /\ row'.version = row.version /\ row'.id = row.id
    BY <1>1 DEF Row
  <1> QED BY <1>2 DEF Moves, Lifecycle!Next, Lifecycle!Fail

-----------------------------------------------------------------------------
(* What keeps the invariant *)

\* Nobody else is at work while c is, or when c takes the lock.
LEMMA OthersIdle ==
  ASSUME LockInv, NEW c \in Clients, holding = {c} \/ holding = {}
  PROVE  \A d \in Clients \ {c} : ~Active(req[d])
  BY DEF LockInv

\* Request c goes on as q, and the others are not at work.
LEMMA ExactKept ==
  ASSUME LockInv, ProfileInv', row'.id = 0 => row' = NoRow,
         NEW c \in Clients, NEW q, req' = [req EXCEPT ![c] = q],
         \A d \in Clients \ {c} : ~Active(req[d]),
         Active(q) => holding' = {c} /\ AtState(q) /\ Exact(q, row'),
         q.detached => q.pc = "bundling"
  PROVE  LockInv'
  <1>1. req \in [Clients -> Req]
    BY DEF LockInv, ProfileInv, TypeOK
  <1>2. ASSUME NEW d \in Clients
        PROVE  /\ Active(req'[d]) => holding' = {d} /\ AtState(req'[d]) /\ Exact(req'[d], row')
               /\ req'[d].detached => req'[d].pc = "bundling"
    BY <1>1, <1>2 DEF LockInv
  <1> QED BY <1>2 DEF LockInv

\* A request that is not at work does something that leaves row and holder alone.
LEMMA AsideKept ==
  ASSUME LockInv, ProfileInv', row' = row, NEW c \in Clients, ~Active(req[c]),
         NEW q, ~Active(q), ~q.detached, req' = [req EXCEPT ![c] = q],
         holding' = holding \/ holding' = holding \ {c}
  PROVE  LockInv'
  <1>1. req \in [Clients -> Req]
    BY DEF LockInv, ProfileInv, TypeOK
  <1>2. ASSUME NEW d \in Clients
        PROVE  /\ Active(req'[d]) => holding' = {d} /\ AtState(req'[d]) /\ Exact(req'[d], row')
               /\ req'[d].detached => req'[d].pc = "bundling"
    BY <1>1, <1>2 DEF LockInv
  <1> QED BY <1>2 DEF LockInv

LEMMA EndKept ==
  ASSUME LockInv, ProfileInv', row'.id = 0 => row' = NoRow,
         NEW c \in Clients, NEW how \in Over, End(c, how), Active(req[c])
  PROVE  LockInv'
  <1> DEFINE q == [NoReq EXCEPT !.pc = how]
  <1>1. ~Active(q) /\ ~q.detached
    BY DEF Active, NoReq, Over, Working, Bundled
  <1>2. \A d \in Clients \ {c} : ~Active(req[d])
    BY OthersIdle DEF LockInv
  <1>3. req' = [req EXCEPT ![c] = q]
    BY DEF End
  <1> QED BY <1>1, <1>2, <1>3, ExactKept

\* A message commits and goes on or ends.
LEMMA CommitKept ==
  ASSUME LockInv, OnlyMessages, ProfileInv', NEW c \in Clients, Active(req[c]),
         NEW r, Shown(r), NEW new \in Row, NEW next \in PCs \ {"bgate", "queued"},
         Commit(c, r, new, next), new.id = req[c].mine.id,
         next = "diagnosing" => new.state = "DIAGNOSING",
         next = "profiling" => new.state = "PROFILE_READY",
         next = "starting" => new.state = "PROFILED"
  PROVE  LockInv'
  <1> DEFINE mine == req[c].mine
  <1>0. /\ row \in Row /\ mine \in Row /\ made \in Nat /\ req[c] \in Req
        /\ CopyGood(req[c], row, made) /\ holding = {c}
        /\ Created(row).id # 0 /\ (row.id = 0 => row = NoRow)
    BY CreatedGood DEF LockInv, ProfileInv, TypeOK, Req, OnlyMessages
  <1>1. mine.id # 0
    BY <1>0 DEF Active, CopyGood
  <1>2. /\ row'.id = 0 => row' = NoRow
        /\ row'.id = new.id => row' = new
    BY <1>0, <1>1, CommitExact DEF Shown
  <1>3. CASE \E how \in Over : End(c, how)
    BY <1>2, <1>3, EndKept
  <1>4. CASE Goto(c, next, new)
    <2> DEFINE q == [req[c] EXCEPT !.pc = next, !.mine = new]
    <2>1. req' = [req EXCEPT ![c] = q] /\ holding' = {c}
      BY <1>0, <1>4 DEF Goto
    <2>2. q.pc = next /\ q.mine = new /\ q.detached = req[c].detached
      BY <1>0 DEF Req
    <2>3. Exact(q, row') /\ AtState(q) /\ ~q.detached
      BY <1>2, <2>2 DEF Exact, AtState, Active
    <2>4. \A d \in Clients \ {c} : ~Active(req[d])
      BY <1>0, OthersIdle
    <2> QED BY <1>2, <2>1, <2>3, <2>4, ExactKept
  <1> QED BY <1>3, <1>4 DEF Commit, Over

-----------------------------------------------------------------------------
LEMMA LockInit == Init => LockInv
  <1> SUFFICES ASSUME Init PROVE LockInv
    OBVIOUS
  <1>1. ProfileInv
    BY ProfileInit
  <1>2. ASSUME NEW c \in Clients PROVE ~Active(req[c]) /\ ~req[c].detached
    BY DEF Init, NoReq, Active, Working, Bundled
  <1> QED BY <1>1, <1>2 DEF LockInv, Init

\* Every action keeps the invariant, and is a step of the lifecycle or none.
LEMMA LockNext ==
  ASSUME OnlyMessages, LockInv, [Next]_vars
  PROVE  LockInv' /\ Moves
  <1>0. /\ ProfileInv /\ ProfileInv' /\ row \in Row /\ made \in Nat /\ Created(row) \in Row
        /\ (row.id = 0 => row = NoRow)
        /\ Shown(row) /\ Shown(Created(row)) /\ Created(row).id # 0
        /\ \A c \in Clients : /\ req[c] \in Req /\ req[c].mine \in Row
                              /\ CopyGood(req[c], row, made)
    <2>1. ProfileInv /\ ProfileInv' /\ ~ReuseIds
      BY ProfileNext DEF LockInv, OnlyMessages
    <2> QED BY <2>1, CreatedType, CreatedGood DEF LockInv, ProfileInv, TypeOK, Req, Shown
  <1>0a. \A c \in Clients : req[c].pc \in Working => Active(req[c])
    BY DEF LockInv, Active, Working
  <1>0b. \A c \in Clients : req[c].pc # "bgate"
    BY DEF LockInv, AtState, Active, Bundled
  <1>0c. \A c \in Clients : Active(req[c]) => AtState(req[c]) /\ Exact(req[c], row)
    BY DEF LockInv
  <1>0d. row' = Created(row) => Moves /\ row'.id # 0
    BY <1>0, CreatedStill, StillStutters
  <1>0e. row' = row => Moves /\ (row'.id = 0 => row' = NoRow)
    BY <1>0, StillStutters
  <1>1. CASE UNCHANGED vars
    BY <1>0, <1>0e, <1>1 DEF vars, LockInv
  <1>2. ASSUME NEW c \in Clients, NEW kind \in Kinds \ {"bundle"}, Send(c, kind)
        PROVE  LockInv' /\ Moves
    <2> DEFINE q == [NoReq EXCEPT !.pc = "queued", !.kind = kind]
    <2>1. ~Active(q) /\ ~q.detached /\ ~Active(req[c])
      BY <1>2 DEF Send, NoReq, Active, Over, Working, Bundled
    <2>2. row' = row /\ holding' = holding /\ req' = [req EXCEPT ![c] = q]
      BY <1>2 DEF Send
    <2> HIDE DEF q
    <2> QED BY <1>0, <1>0e, <2>1, <2>2, AsideKept
  <1>3. ASSUME NEW c \in Clients, Enter(c) PROVE LockInv' /\ Moves
    <2> DEFINE q == [req[c] EXCEPT !.pc = "gate", !.mine = row']
    <2>1. /\ row' = Created(row) /\ holding = {} /\ holding' = {c}
          /\ req' = [req EXCEPT ![c] = q]
      BY <1>3 DEF Enter
    <2>2. q.pc = "gate" /\ q.mine = row' /\ q.detached = req[c].detached
      BY <1>0 DEF Req
    <2>3. Exact(q, row') /\ AtState(q)
      BY <2>2 DEF Exact, AtState
    <2>4. ~q.detached /\ (\A d \in Clients \ {c} : ~Active(req[d]))
      BY <1>3, <2>1, <2>2, OthersIdle DEF Enter, LockInv
    <2> HIDE DEF q
    <2> QED BY <1>0, <1>0d, <2>1, <2>3, <2>4, ExactKept
  <1>4. ASSUME NEW c \in Clients, Active(req[c]), NEW how \in Over, End(c, how),
               row' = row \/ row' = Created(row) \/ row' \in FailedRows(c)
        PROVE  LockInv' /\ Moves
    <2>1. Moves /\ (row'.id = 0 => row' = NoRow)
      <3>1. CASE row' = row \/ row' = Created(row)
        BY <1>0, <1>0d, <1>0e, <3>1
      <3>2. CASE row' = [row EXCEPT !.state = row.stable]
        <4>1. row.id = 0 => row' = NoRow
          BY <1>0, <3>2 DEF NoRow
        <4> QED BY <3>2, <4>1, FailMoves
      <3> QED BY <1>4, <3>1, <3>2, FailedExact
    <2> QED BY <1>0, <1>4, <2>1, EndKept
  <1>5. ASSUME NEW c \in Clients, Block(c) \/ Refuse(c) \/ AnswerCached(c)
        PROVE  LockInv' /\ Moves
    BY <1>0a, <1>4, <1>5 DEF Block, Refuse, AnswerCached, Working, Over
  <1>6. ASSUME NEW c \in Clients, Diagnose(c) PROVE LockInv' /\ Moves
    <2> DEFINE mine == req[c].mine
    <2>1. PICK s \in {mine} \cup (IF Restartable(mine) THEN {Restarted(mine)} ELSE {}) :
            s.state \in {"NEW", "DIAGNOSING"} /\ Commit(c, Created(row), Diagnosing(s), "diagnosing")
      BY <1>6 DEF Diagnose
    <2>2. s \in Row /\ s.id = mine.id /\ s.version = mine.version /\ s.stable = mine.stable
      <3>1. Restarted(mine) \in Row /\ mine \in Row
        BY <1>0, CopyTypes
      <3>2. /\ Restarted(mine).id = mine.id /\ Restarted(mine).version = mine.version
            /\ Restarted(mine).stable = mine.stable
        BY <1>0 DEF Restarted, Row
      <3> QED BY <2>1, <3>1, <3>2
    <2> DEFINE new == Diagnosing(s)
    <2>3. new \in Row /\ new.id = mine.id /\ new.version = mine.version /\ new.state = "DIAGNOSING"
      BY <2>1, <2>2, CopyTypes DEF Diagnosing, Row
    <2>4. \/ new = mine
          \/ mine.state = "NEW" /\ new.stable = "DIAGNOSING"
          \/ mine.state \in {"NEW", "DIAGNOSING", "PROFILED"} /\ new.stable = mine.stable
      BY <1>0, <2>1, <2>2 DEF Diagnosing, Restartable, Restarted, StableStates, Row
    <2>5. Active(req[c])
      BY <1>0a, <1>6 DEF Diagnose, Working
    <2> HIDE DEF new
    <2>6. LockInv'
      BY <1>0, <2>1, <2>3, <2>5, CommitKept DEF new, PCs, Working
    <2>7. row' = Created(row) \/ (row' = new /\ row = mine)
      BY <1>0, <2>1, <2>3, <2>5, CommitExact DEF new
    <2>8. CASE row' = new /\ row = mine
      BY <2>3, <2>4, <2>6, <2>8
      DEF Moves, Lifecycle!Next, Lifecycle!Begin, Lifecycle!Restart, Lifecycle!lvars
    <2> QED BY <1>0d, <2>6, <2>7, <2>8
  <1>7. ASSUME NEW c \in Clients, Active(req[c]), NEW r, Shown(r),
               req[c].mine.state = "PROFILED",
               NEW next \in {"generating", "bundling"},
               Commit(c, r, Begun(req[c].mine), next)
        PROVE  LockInv' /\ Moves
    <2> DEFINE mine == req[c].mine
    <2>1. /\ Begun(mine) \in Row /\ Begun(mine).id = mine.id /\ Begun(mine).state = "GENERATING"
          /\ Begun(mine).version = mine.version /\ Begun(mine).stable = mine.stable
      BY <1>0, CopyTypes DEF Begun, Row
    <2>2. LockInv'
      BY <1>0, <1>7, <2>1, CommitKept DEF PCs, Working, Bundled
    <2>3. row' = r \/ (row' = Begun(mine) /\ row = mine)
      BY <1>7, <2>1, CommitExact
    <2>4. CASE row' = Begun(mine) /\ row = mine
      BY <1>7, <2>1, <2>2, <2>4 DEF Moves, Lifecycle!Next, Lifecycle!BeginGeneration
    <2> QED BY <1>0d, <1>0e, <1>7, <2>2, <2>3, <2>4 DEF Shown
  <1>8. ASSUME NEW c \in Clients, Study(c) PROVE LockInv' /\ Moves
    <2> DEFINE mine == req[c].mine
    <2>1. Active(req[c]) /\ mine.state = "PROFILED"
      BY <1>0a, <1>8 DEF Study, Working
    <2>2. CASE \E next \in {"cached", "starting"} : Commit(c, Created(row), mine, next)
      <3>1. LockInv'
        BY <1>0, <2>1, <2>2, CommitKept DEF PCs, Working
      <3>2. row' = Created(row) \/ row' = row
        BY <1>0, <2>1, <2>2, CommitExact
      <3> QED BY <1>0d, <1>0e, <3>1, <3>2
    <2>3. CASE \E next \in {"generating", "bundling"} : Commit(c, Created(row), Begun(mine), next)
      BY <1>0, <1>7, <2>1, <2>3
    <2> QED BY <1>8, <2>2, <2>3 DEF Study
  <1>9. ASSUME NEW c \in Clients, Decline(c) PROVE LockInv' /\ Moves
    <2> DEFINE mine == req[c].mine
               new  == [mine EXCEPT !.state = mine.stable]
    <2>1. new \in Row /\ new.id = mine.id
      BY <1>0, CopyTypes DEF Row
    <2>2. Active(req[c]) /\ Commit(c, Created(row), new, "failed")
      BY <1>0a, <1>9 DEF Decline, Working
    <2>3. row' = Created(row) \/ row' = [row EXCEPT !.state = row.stable]
      <3>1. row' = Created(row) \/ (row' = new /\ row = mine)
        <4> HIDE DEF new
        <4> QED BY <1>0, <2>1, <2>2, CommitExact
      <3> QED BY <3>1
    <2>4. LockInv'
      <3> HIDE DEF new
      <3> QED BY <1>0, <2>1, <2>2, CommitKept DEF PCs, Over
    <2> QED BY <1>0d, <2>3, <2>4, FailMoves
  <1>10. ASSUME NEW c \in Clients, Continue(c) PROVE LockInv' /\ Moves
    <2> DEFINE mine == req[c].mine
               new  == [mine EXCEPT !.turns = @ + 1]
    <2>1. /\ new \in Row /\ new.id = mine.id /\ new.version = mine.version
          /\ new.stable = mine.stable /\ new.state = mine.state
      BY <1>0, <1>10, CopyTypes DEF Continue, Row
    <2>2. Active(req[c]) /\ Commit(c, row, new, "done")
      BY <1>0a, <1>10 DEF Continue, Working
    <2> HIDE DEF new
    <2>3. LockInv'
      BY <1>0, <2>1, <2>2, CommitKept DEF PCs, Over
    <2>4. row' = row \/ (row' = new /\ row = mine)
      BY <1>0, <2>1, <2>2, CommitExact
    <2> QED BY <2>1, <2>3, <2>4, StillStutters
  <1>11. ASSUME NEW c \in Clients, Ready(c) PROVE LockInv' /\ Moves
    <2> DEFINE mine == req[c].mine
               new  == [mine EXCEPT !.state = "PROFILE_READY"]
    <2>1. /\ new \in Row /\ new.id = mine.id /\ new.version = mine.version
          /\ new.stable = mine.stable /\ new.state = "PROFILE_READY"
      BY <1>0, CopyTypes DEF Row
    <2>2. Active(req[c]) /\ Commit(c, row, new, "profiling") /\ mine.state = "DIAGNOSING"
      BY <1>0a, <1>0c, <1>11 DEF Ready, Working, AtState
    <2> HIDE DEF new
    <2>3. LockInv'
      BY <1>0, <2>1, <2>2, CommitKept DEF PCs, Working
    <2>4. row' = row \/ (row' = new /\ row = mine)
      BY <1>0, <2>1, <2>2, CommitExact
    <2>5. CASE row' = new /\ row = mine
      BY <2>1, <2>2, <2>3, <2>5 DEF Moves, Lifecycle!Next, Lifecycle!Ready
    <2> QED BY <1>0e, <2>3, <2>4, <2>5
  <1>12. ASSUME NEW c \in Clients, SaveProfile(c) PROVE LockInv' /\ Moves
    <2> DEFINE mine == req[c].mine
               new  == [mine EXCEPT !.state = "PROFILED", !.stable = "PROFILED", !.version = @ + 1]
    <2>1. new \in Row
      BY <1>0, CopyTypes
    <2>2. /\ new.id = mine.id /\ new.version = mine.version + 1
          /\ new.stable = "PROFILED" /\ new.state = "PROFILED"
      BY <1>0 DEF Row
    <2>3. Active(req[c]) /\ Commit(c, row, new, "done") /\ mine.state = "PROFILE_READY"
      BY <1>0a, <1>0c, <1>12 DEF SaveProfile, Working, AtState
    <2> HIDE DEF new
    <2>4. LockInv'
      BY <1>0, <2>1, <2>2, <2>3, CommitKept DEF PCs, Over
    <2>5. row' = row \/ (row' = new /\ row = mine)
      BY <1>0, <2>1, <2>3, CommitExact
    <2>6. CASE row' = new /\ row = mine
      BY <2>2, <2>3, <2>4, <2>6 DEF Moves, Lifecycle!Next, Lifecycle!SaveProfile
    <2> QED BY <1>0e, <2>4, <2>5, <2>6
  <1>13. ASSUME NEW c \in Clients, Active(req[c]), req[c].pc \in {"generating", "bundling"},
                Commit(c, row, Finished(req[c].mine), "done")
         PROVE  LockInv' /\ Moves
    <2> DEFINE mine == req[c].mine
    <2>1. /\ Finished(mine) \in Row /\ Finished(mine).id = mine.id
          /\ Finished(mine).version = mine.version
          /\ Finished(mine).state = "PROFILED" /\ Finished(mine).stable = "PROFILED"
      BY <1>0, CopyTypes DEF Finished, Row
    <2>2. mine.state = "GENERATING"
      BY <1>0, <1>13 DEF CopyGood
    <2>3. LockInv'
      BY <1>0, <1>13, <2>1, CommitKept DEF PCs, Over
    <2>4. row' = row \/ (row' = Finished(mine) /\ row = mine)
      BY <1>0, <1>13, <2>1, CommitExact
    <2>5. CASE row' = Finished(mine) /\ row = mine
      BY <2>1, <2>2, <2>3, <2>5 DEF Moves, Lifecycle!Next, Lifecycle!FinishGeneration
    <2> QED BY <1>0e, <2>3, <2>4, <2>5
  <1>14. ASSUME NEW c \in Clients, ~Active(req[c]), row' = row, NEW how \in Over, End(c, how)
         PROVE  LockInv' /\ Moves
    <2> DEFINE q == [NoReq EXCEPT !.pc = how]
    <2>1. ~Active(q) /\ ~q.detached
      BY DEF Active, NoReq, Over, Working, Bundled
    <2>2. req' = [req EXCEPT ![c] = q] /\ holding' = holding \ {c}
      BY <1>14 DEF End
    <2> HIDE DEF q
    <2> QED BY <1>0, <1>0e, <1>14, <2>1, <2>2, AsideKept
  <1>15. ASSUME NEW c \in Clients, Generated(c) PROVE LockInv' /\ Moves
    BY <1>0a, <1>13, <1>15 DEF Generated, Working
  <1>16. ASSUME NEW c \in Clients, BundleDone(c) PROVE LockInv' /\ Moves
    <2>1. CASE req[c].detached
      BY <1>14, <1>16, <2>1 DEF BundleDone, Active, Over
    <2>2. CASE ~req[c].detached
      BY <1>13, <1>16, <2>2 DEF BundleDone, Active, Bundled
    <2> QED BY <2>1, <2>2
  <1>17. ASSUME NEW c \in Clients, BeginBundle(c) \/ PassBundle(c) PROVE LockInv' /\ Moves
    <2>1. BeginBundle(c)
      BY <1>0b, <1>17 DEF PassBundle
    <2>2. Active(req[c]) /\ req[c].mine.state = "PROFILED"
      BY <1>0a, <1>0c, <2>1 DEF BeginBundle, Working, AtState
    <2> QED BY <1>0, <1>4, <1>7, <2>1, <2>2 DEF BeginBundle, Over
  <1>18. ASSUME NEW c \in Clients, Fail(c) PROVE LockInv' /\ Moves
    <2>1. CASE req[c].detached
      <3>1. row' = row
        BY <1>18, <2>1 DEF Fail, FailedRows
      <3> QED BY <1>14, <1>18, <2>1, <3>1 DEF Fail, Active, Over
    <2>2. CASE ~req[c].detached
      BY <1>4, <1>18, <2>2 DEF Fail, Active, Over
    <2> QED BY <2>1, <2>2
  <1>19. ASSUME NEW c \in Clients, Escape(c) PROVE LockInv' /\ Moves
    <2>1. row' = row
      BY <1>19 DEF Escape
    <2>2. CASE End(c, "idle")
      BY <1>4, <1>14, <2>1, <2>2 DEF Over
    <2>3. CASE req[c].pc = "bundling" /\ ~req[c].detached /\ req' = [req EXCEPT ![c].detached = TRUE]
      <3> DEFINE q == [req[c] EXCEPT !.detached = TRUE]
      <3>1. q.pc = "bundling" /\ q.detached /\ req' = [req EXCEPT ![c] = q]
        BY <1>0, <2>3 DEF Req
      <3>2. ~Active(q) /\ (\A d \in Clients \ {c} : ~Active(req[d]))
        BY <2>3, <3>1, OthersIdle DEF Active, Bundled, LockInv
      <3> QED BY <1>0, <1>0e, <2>1, <3>1, <3>2, ExactKept
    <2> QED BY <1>19, <2>2, <2>3 DEF Escape
  <1>19a. ASSUME NEW c \in Clients, Leave(c) PROVE LockInv' /\ Moves
    <2>1. ~Active(NoReq) /\ ~NoReq.detached /\ ~Active(req[c])
      BY <1>19a DEF Leave, NoReq, Active, Working, Bundled
    <2>2. row' = row /\ holding' = holding /\ req' = [req EXCEPT ![c] = NoReq]
      BY <1>19a DEF Leave
    <2> QED BY <1>0, <1>0e, <2>1, <2>2, AsideKept
  <1>20. CASE Crash
    <2>1. ASSUME NEW c \in Clients PROVE ~Active(req'[c]) /\ ~req'[c].detached
      BY <1>20 DEF Crash, NoReq, Active, Working, Bundled
    <2>2. row' = row
      BY <1>20 DEF Crash
    <2> QED BY <1>0, <1>0e, <2>1, <2>2 DEF LockInv
  <1>21. CASE Delete
    <2>1. row' = NoRow /\ req' = req /\ holding' = holding
      BY <1>21 DEF Delete
    <2>2. ASSUME NEW c \in Clients, Active(req[c]) PROVE Exact(req[c], row')
      BY <1>0, <2>1, <2>2 DEF Active, CopyGood, Exact, NoRow
    <2>3. LockInv'
      BY <1>0, <2>1, <2>2 DEF LockInv
    <2>4. Moves
      BY <2>1 DEF Moves, NoRow, Lifecycle!Next, Lifecycle!Delete
    <2> QED BY <2>3, <2>4
  <1> QED
    BY <1>1, <1>2, <1>3, <1>5, <1>6, <1>8, <1>9, <1>10, <1>11, <1>12, <1>15, <1>16,
       <1>17, <1>18, <1>19, <1>19a, <1>20, <1>21
    DEF Next, Request, Progress, OnlyMessages, Rediagnose

\* With messages and deletions only, the session goes through its lifecycle.
THEOREM LifecycleImplemented ==
  ASSUME OnlyMessages
  PROVE  Spec => ImplementsLifecycle
  <1>1. Init => LockInv /\ Lifecycle!Init
    BY LockInit DEF Init, NoRow, Lifecycle!Init, Lifecycle!Absent
  <1>2. LockInv /\ [Next]_vars => LockInv' /\ [Lifecycle!Next]_(Lifecycle!lvars)
    BY LockNext DEF Moves
  <1> QED BY <1>1, <1>2, PTL DEF Spec, ImplementsLifecycle, Lifecycle!Spec

\* With messages and deletions only, one request at most generates for the session.
THEOREM OneGenerates ==
  ASSUME OnlyMessages
  PROVE  Spec => []OneGeneration
  <1>1. Init => LockInv
    BY LockInit
  <1>2. LockInv /\ [Next]_vars => LockInv'
    BY LockNext
  <1>3. LockInv => OneGeneration
    BY DEF LockInv, OneGeneration, Generating, Active, Working, Bundled
  <1> QED BY <1>1, <1>2, <1>3, PTL DEF Spec

\* The copy of a request that generates is the row, or the row is another one, which
\* the commit of a result does not find: so a resource that is stored belongs to the
\* profile the session has, with messages and deletions only.
THEOREM ResourceIsCurrent ==
  ASSUME OnlyMessages
  PROVE  Spec => ResourceOfCurrentProfile
  <1>1. Init => LockInv
    BY LockInit
  <1>2. LockInv /\ [Next]_vars => LockInv'
    BY LockNext
  <1>3. ASSUME LockInv, [Next]_vars, NEW c \in Clients, Generating(c), req'[c].pc = "done"
        PROVE  row.version = req[c].mine.version
    <2>0. /\ req \in [Clients -> Req] /\ CopyGood(req[c], row, made) /\ Exact(req[c], row)
          /\ req[c].pc \in {"generating", "bundling"} /\ req[c].mine \in Row
      BY <1>3 DEF LockInv, ProfileInv, TypeOK, Req, Generating, Active, Working, Bundled
    <2>1. ASSUME NEW d \in Clients, NEW q, req' = [req EXCEPT ![d] = q]
          PROVE  d = c /\ q.pc = "done"
      BY <1>3, <2>0, <2>1
    <2>2. \A how \in Over : [NoReq EXCEPT !.pc = how].pc = how
      BY DEF NoReq
    <2>3. ASSUME NEW d \in Clients, NEW how \in Over, End(d, how)
          PROVE  d = c /\ how = "done"
      BY <2>1, <2>2, <2>3 DEF End
    <2>4. ASSUME NEW d \in Clients, NEW pc, NEW mine, Goto(d, pc, mine)
          PROVE  d = c /\ pc = "done"
      <3>1. [req[d] EXCEPT !.pc = pc, !.mine = mine].pc = pc
        BY <2>0 DEF Req
      <3>2. req' = [req EXCEPT ![d] = [req[d] EXCEPT !.pc = pc, !.mine = mine]]
        BY <2>4 DEF Goto
      <3> QED BY <2>1, <3>1, <3>2
    <2>5. ASSUME Commit(c, row, Finished(req[c].mine), "done")
          PROVE  row.version = req[c].mine.version
      <3>1. req[c].mine.state = "GENERATING" /\ Finished(req[c].mine).state = "PROFILED"
        BY <2>0 DEF CopyGood, Finished, Row
      <3>2. ~Missing(c, row)
        BY <2>3, <2>5, <3>1 DEF Commit, Over
      <3> QED BY <2>0, <3>2 DEF Missing, Exact
    <2>6. PICK d \in Clients : Request(d) \/ Progress(d) \/ Escape(d) \/ Leave(d)
      <3>1. \A e \in Clients : NoReq.pc = "idle"
        BY DEF NoReq
      <3> QED BY <1>3, <2>0, <3>1 DEF Next, vars, Crash, Rediagnose, Delete
    <2>7. d = c /\ (Generated(c) \/ BundleDone(c))
      <3>1. CASE Request(d)
        <4>1. PICK q : req' = [req EXCEPT ![d] = q] /\ q.pc \in {"queued", "bgate"}
          <5>1. \A kind : [NoReq EXCEPT !.pc = "queued", !.kind = kind].pc = "queued"
            BY DEF NoReq
          <5>2. CASE AskBundle(d)
            <6> DEFINE q == [pc |-> "bgate", kind |-> "bundle", mine |-> row, detached |-> FALSE]
            <6>1. req' = [req EXCEPT ![d] = q] /\ q.pc = "bgate"
              BY <5>2 DEF AskBundle
            <6> QED BY <6>1
          <5> QED BY <3>1, <5>1, <5>2 DEF Request, Send
        <4> QED BY <2>1, <4>1
      <3>2. CASE Progress(d) /\ ~(Generated(d) \/ BundleDone(d))
        <4>1. d = c
          <5>1. CASE Enter(d)
            BY <2>1, <3>2, <5>1 DEF Enter
          <5> QED BY <2>3, <2>4, <3>2, <5>1 DEF Progress, Block, Diagnose, Study, Decline,
                Refuse, Continue, Ready, SaveProfile, AnswerCached, BeginBundle, PassBundle,
                Fail, Commit, Over
        <4> QED BY <2>0, <2>3, <3>2, <4>1 DEF Progress, Enter, Block, Diagnose, Study, Decline,
                Refuse, Continue, Ready, SaveProfile, AnswerCached, BeginBundle, PassBundle,
                Fail, Over
      <3>3. CASE Escape(d)
        <4>1. CASE End(d, "idle")
          BY <2>3, <4>1 DEF Over
        <4>2. CASE req' = [req EXCEPT ![d].detached = TRUE]
          <5>1. [req[d] EXCEPT !.detached = TRUE].pc = req[d].pc
            BY <2>0 DEF Req
          <5> QED BY <2>0, <2>1, <4>2, <5>1
        <4> QED BY <3>3, <4>1, <4>2 DEF Escape
      <3>4. CASE Leave(d)
        <4>1. req' = [req EXCEPT ![d] = NoReq] /\ NoReq.pc = "idle"
          BY <3>4 DEF Leave, NoReq
        <4> QED BY <2>1, <4>1
      <3>5. CASE Generated(d) \/ BundleDone(d)
        BY <2>3, <2>4, <3>5 DEF Generated, BundleDone, Commit, Over
      <3> QED BY <2>6, <3>1, <3>2, <3>3, <3>4, <3>5
    <2> QED BY <1>3, <2>5, <2>7 DEF Generated, BundleDone, Generating
  <1>4. LockInv /\ [Next]_vars =>
          [\A c \in Clients :
             Generating(c) /\ req'[c].pc = "done" => row.version = req[c].mine.version]_vars
    BY <1>3
  <1> QED BY <1>1, <1>2, <1>4, PTL DEF Spec, ResourceOfCurrentProfile

-----------------------------------------------------------------------------
(***************************************************************************)
(* Answers leave a stable session, with every route and fault.             *)
(*                                                                         *)
(* A row that is not stable was left behind by a request that broke off,   *)
(* or belongs to a bundle of the route, which takes no lock.  The          *)
(* invariant: when a message at work sees a stable copy of a row that is   *)
(* not stable, a bundle of the route is at work on that row.  So the       *)
(* commit that ends the message writes a stable state, or that bundle will.*)
(***************************************************************************)

\* a message at work, and a bundle of the route
Serves(q) == q.pc \in Working \cup Bundled /\ ~q.detached /\ q.kind # "bundle"
Routed(q) == q.pc = "bundling" /\ q.kind = "bundle"

\* which kinds of request stand where, and the state their copies have there
Placed(q) ==
  /\ q.kind = "bundle" => q.pc \in Bundled /\ ~q.detached
  /\ q.pc = "bgate" => q.kind = "bundle"
  /\ q.detached => q.pc = "bundling"
  /\ q.pc = "diagnosing" => q.mine.state = "DIAGNOSING"
  /\ q.pc = "cached" => q.mine.state = "PROFILED"

\* the row is r, and the requests are rq
Explained(q, r, rq) ==
  q.mine.id = r.id =>
    \/ r.state \in StableStates
    \/ q.mine.state \notin StableStates
    \/ \E d \in Clients : Routed(rq[d]) /\ rq[d].mine.id = r.id

StableInv ==
  /\ ProfileInv
  /\ \A c \in Clients :
       /\ Placed(req[c])
       /\ Serves(req[c]) => holding = {c} /\ Explained(req[c], row, req)

\* how the property speaks of a step
Answers(q, c) == q.pc \in {"done", "failed"} /\ row.id = req[c].mine.id

Settled(c) ==
  row'.state \in StableStates \/ \E d \in Clients \ {c} : Generating(d)'

AllSettled ==
  \A c \in Clients :
    req[c].pc \notin Over /\ Answers(req'[c], c) => Settled(c)

\* A message goes on as q; no other message is at work.
LEMMA ServerKept ==
  ASSUME StableInv, ProfileInv', NEW c \in Clients, NEW q, req' = [req EXCEPT ![c] = q],
         holding = {c} \/ holding = {}, Placed(q),
         Serves(q) => holding' = {c} /\ Explained(q, row', req'),
         Answers(q, c) => Settled(c)
  PROVE  StableInv' /\ AllSettled
  <1>1. req \in [Clients -> Req] /\ req'[c] = q /\ \A d \in Clients \ {c} : req'[d] = req[d]
    BY DEF StableInv, ProfileInv, TypeOK
  <1>2. ASSUME NEW d \in Clients \ {c} PROVE ~Serves(req[d]) /\ Placed(req[d])
    BY DEF StableInv
  <1>3. ASSUME NEW d \in Clients
        PROVE  /\ Placed(req'[d])
               /\ Serves(req'[d]) => holding' = {d} /\ Explained(req'[d], row', req')
    <2>1. CASE d = c
      BY <1>1, <2>1 DEF Explained
    <2>2. CASE d # c
      BY <1>1, <1>2, <2>2
    <2> QED BY <2>1, <2>2
  <1>4. AllSettled
    BY <1>1 DEF AllSettled, Answers, Over
  <1> QED BY <1>3, <1>4 DEF StableInv, Explained

\* A request that is no message at work does something, and the row is stable, or
\* belongs to its bundle, or is what it was and not that of its bundle.
LEMMA OtherKept ==
  ASSUME StableInv, ProfileInv', NEW c \in Clients, NEW q, req' = [req EXCEPT ![c] = q],
         ~Serves(req[c]), ~Serves(q), Placed(q),
         holding' = holding \/ holding' = holding \ {c},
         \/ row'.state \in StableStates
         \/ Routed(q) /\ q.mine.id = row'.id
         \/ /\ row'.id = row.id /\ row'.state = row.state
            /\ Routed(req[c]) => req[c].mine.id # row.id,
         Answers(q, c) => Settled(c)
  PROVE  StableInv' /\ AllSettled
  <1>1. req \in [Clients -> Req] /\ req'[c] = q /\ \A d \in Clients \ {c} : req'[d] = req[d]
    BY DEF StableInv, ProfileInv, TypeOK
  <1>2. ASSUME NEW d \in Clients, Serves(req'[d])
        PROVE  holding' = {d} /\ Explained(req'[d], row', req')
    <2>1. d # c /\ req'[d] = req[d] /\ holding = {d} /\ Explained(req[d], row, req)
      BY <1>1, <1>2 DEF StableInv
    <2>2. Explained(req[d], row', req')
      <3>0. req'[d] = req[d]
        BY <2>1
      <3>1. CASE Routed(q) /\ q.mine.id = row'.id
        BY <1>1, <3>1 DEF Explained
      <3>2. CASE row'.state \in StableStates
        BY <3>2 DEF Explained
      <3>3. CASE /\ row'.id = row.id /\ row'.state = row.state
                 /\ Routed(req[c]) => req[c].mine.id # row.id
        <4> SUFFICES ASSUME req[d].mine.id = row.id, row.state \notin StableStates,
                            req[d].mine.state \in StableStates
                     PROVE  \E e \in Clients : Routed(req'[e]) /\ req'[e].mine.id = row'.id
          BY <3>0, <3>3 DEF Explained
        <4>1. PICK e \in Clients : Routed(req[e]) /\ req[e].mine.id = row.id
          BY <2>1 DEF Explained
        <4>2. req'[e] = req[e]
          BY <1>1, <3>3, <4>1
        <4> QED BY <3>3, <4>1, <4>2
      <3> QED BY <3>1, <3>2, <3>3
    <2> QED BY <2>1, <2>2 DEF Explained
  <1>3. ASSUME NEW d \in Clients PROVE Placed(req'[d])
    BY <1>1 DEF StableInv
  <1>4. AllSettled
    BY <1>1 DEF AllSettled, Answers, Over
  <1> QED BY <1>2, <1>3, <1>4 DEF StableInv

\* What a message writes last settles the row, or the bundle that explains it does.
LEMMA WrittenSettles ==
  ASSUME StableInv, NEW c \in Clients, Serves(req[c]), NEW q, req' = [req EXCEPT ![c] = q],
         row.id = req[c].mine.id, NEW state \in StableStates,
         row'.state = IF state # req[c].mine.state THEN state ELSE row.state
  PROVE  /\ Settled(c)
         /\ row'.state \in StableStates \/
            \E d \in Clients : Routed(req'[d]) /\ req'[d].mine.id = row.id
  <1>1. req \in [Clients -> Req] /\ \A d \in Clients \ {c} : req'[d] = req[d]
    BY DEF StableInv, ProfileInv, TypeOK
  <1> SUFFICES ASSUME row'.state \notin StableStates
               PROVE  \E d \in Clients \ {c} : Generating(d)' /\ Routed(req'[d])
                                               /\ req'[d].mine.id = row.id
    BY DEF Settled
  <1>2. req[c].mine.state \in StableStates /\ row.state \notin StableStates
    OBVIOUS
  <1>3. PICK d \in Clients : Routed(req[d]) /\ req[d].mine.id = row.id
    BY <1>2 DEF StableInv, Explained
  <1>4. d # c
    BY <1>3 DEF Serves, Routed
  <1>5. req'[d] = req[d] /\ ~req[d].detached
    BY <1>1, <1>3, <1>4 DEF StableInv, Placed, Routed
  <1> QED BY <1>3, <1>4, <1>5 DEF Generating, Routed

\* What a commit makes of the row it finds, and where the request goes.
LEMMA CommitWrites ==
  ASSUME ProfileInv, ~ReuseIds, NEW c \in Clients, req[c].pc \in Bundled \cup Working,
         NEW r, Shown(r), NEW new \in Row, new.id = req[c].mine.id,
         NEW next, Commit(c, r, new, next)
  PROVE  /\ row'.id = r.id
         /\ row'.id = new.id =>
              /\ row.id = req[c].mine.id
              /\ row'.state = IF new.state # req[c].mine.state THEN new.state ELSE row.state
         /\ row'.id # new.id => row' = r
         /\ \/ Missing(c, r) /\ new # req[c].mine /\ End(c, "idle")
            \/ next \in Over /\ End(c, next)
            \/ Goto(c, next, new)
  <1> DEFINE mine == req[c].mine
  <1>0. /\ row \in Row /\ mine \in Row /\ made \in Nat /\ CopyGood(req[c], row, made)
        /\ Created(row) \in Row
    BY CreatedType DEF ProfileInv, TypeOK, Req
  <1>1. mine.id # 0 /\ mine.id <= made /\ mine.id \in Nat
    BY <1>0 DEF CopyGood, Row
  <1>2. r \in Row /\ (r = row \/ r.id = made + 1)
    BY <1>0, CreatedGood DEF Shown
  <1>3. CASE Missing(c, r)
    <2>1. row' = r
      <3>1. CASE new # mine
        BY <1>3, <3>1 DEF Commit
      <3>2. CASE new = mine
        <4>1. row' = Merged(r, mine, mine)
          BY <3>2 DEF Commit
        <4>2. Merged(r, mine, mine) = r
          BY <1>0, <1>2 DEF Merged, Row
        <4> QED BY <4>1, <4>2
      <3> QED BY <3>1, <3>2
    <2> QED BY <1>3, <2>1 DEF Missing, Commit
  <1>4. CASE ~Missing(c, r)
    <2>1. r.id = mine.id /\ row' = Merged(r, mine, new)
      BY <1>4 DEF Missing, Commit
    <2>2. r = row
      BY <1>0, <1>1, <1>2, <2>1
    <2>3. /\ row'.id = row.id
          /\ row'.state = IF new.state # mine.state THEN new.state ELSE row.state
      BY <1>0, <2>1, <2>2, MergedType
    <2> QED BY <1>4, <2>1, <2>2, <2>3 DEF Commit
  <1> QED BY <1>3, <1>4

\* A message ends.
LEMMA EndSettled ==
  ASSUME StableInv, ProfileInv', NEW c \in Clients, Serves(req[c]),
         NEW how \in Over, End(c, how),
         how # "idle" /\ row.id = req[c].mine.id => Settled(c)
  PROVE  StableInv' /\ AllSettled
  <1> DEFINE q == [NoReq EXCEPT !.pc = how]
  <1>1. ~Serves(q) /\ Placed(q) /\ q.pc = how
    BY DEF Serves, Placed, NoReq, Over, Working, Bundled
  <1>2. req' = [req EXCEPT ![c] = q] /\ holding = {c}
    BY DEF End, StableInv
  <1> HIDE DEF q
  <1> QED BY <1>1, <1>2, ServerKept DEF Answers

\* A message commits.
LEMMA ServerCommits ==
  ASSUME StableInv, ProfileInv', ~ReuseIds, NEW c \in Clients, Serves(req[c]),
         NEW r, Shown(r), NEW new \in Row, new.id = req[c].mine.id,
         NEW next \in PCs \ {"bgate", "queued"}, Commit(c, r, new, next),
         next \in Over => new.state \in StableStates,
         next = "diagnosing" => new.state = "DIAGNOSING",
         next = "cached" => new.state = "PROFILED"
  PROVE  StableInv' /\ AllSettled
  <1> DEFINE mine == req[c].mine
  <1>0. /\ ProfileInv /\ req[c] \in Req /\ row \in Row /\ holding = {c}
        /\ req[c].pc \in Bundled \cup Working /\ Placed(req[c])
        /\ ~req[c].detached /\ req[c].kind # "bundle"
    BY DEF StableInv, ProfileInv, TypeOK, Serves
  <1>1. /\ row'.id = r.id
        /\ row'.id = new.id =>
             /\ row.id = mine.id
             /\ row'.state = IF new.state # mine.state THEN new.state ELSE row.state
        /\ row'.id # new.id => row' = r
        /\ \/ Missing(c, r) /\ new # mine /\ End(c, "idle")
           \/ next \in Over /\ End(c, next)
           \/ Goto(c, next, new)
    BY <1>0, CommitWrites
  <1>2. row.id = mine.id => r = row
    BY <1>0 DEF Shown, Created, StableInv, ProfileInv, CopyGood
  <1>3. CASE Missing(c, r) /\ End(c, "idle")
    BY <1>3, EndSettled DEF Over
  <1>4. CASE next \in Over /\ End(c, next)
    <2>1. ASSUME row.id = mine.id PROVE Settled(c)
      <3>1. row'.state = IF new.state # mine.state THEN new.state ELSE row.state
        BY <1>1, <1>2, <2>1
      <3> QED BY <1>4, <2>1, <3>1, WrittenSettles DEF End
    <2> QED BY <1>4, <2>1, EndSettled
  <1>5. CASE Goto(c, next, new) /\ next \notin Over
    <2> DEFINE q == [req[c] EXCEPT !.pc = next, !.mine = new]
    <2>1. q.pc = next /\ q.mine = new /\ q.kind = req[c].kind /\ q.detached = FALSE
      BY <1>0 DEF Req
    <2>2. req' = [req EXCEPT ![c] = q] /\ holding' = {c}
      BY <1>0, <1>5 DEF Goto
    <2> HIDE DEF q
    <2>3. Placed(q)
      BY <1>0, <2>1 DEF Placed
    <2>4. Explained(q, row', req')
      <3> SUFFICES ASSUME new.id = row'.id, new.state \in StableStates
                   PROVE  \/ row'.state \in StableStates
                          \/ \E d \in Clients : Routed(req'[d]) /\ req'[d].mine.id = row'.id
        BY <2>1 DEF Explained
      <3>1. /\ row.id = mine.id /\ row'.id = row.id
            /\ row'.state = IF new.state # mine.state THEN new.state ELSE row.state
        BY <1>1, <1>2
      <3> QED BY <2>2, <3>1, WrittenSettles
    <2>5. ~Answers(q, c)
      BY <1>5, <2>1 DEF Answers, Over
    <2> QED BY <1>0, <2>2, <2>3, <2>4, <2>5, ServerKept
  <1>6. CASE Goto(c, next, new) /\ next \in Over
    BY <1>3, <1>4, <1>6 DEF Commit
  <1> QED BY <1>1, <1>3, <1>4, <1>5, <1>6

\* What a recorded failure makes of the row.
LEMMA FailedWrites ==
  ASSUME ProfileInv, NEW c \in Clients, row' \in FailedRows(c)
  PROVE  \/ row' = row /\ (req[c].detached \/ row.id # req[c].mine.id)
         \/ row'.state \in StableStates
         \/ /\ req[c].pc \notin Bundled /\ row.id = req[c].mine.id
            /\ row'.state = IF req[c].mine.stable # req[c].mine.state
                              THEN req[c].mine.stable ELSE row.state
  <1> DEFINE mine == req[c].mine
  <1>0. row \in Row /\ mine \in Row
    BY DEF ProfileInv, TypeOK, Req
  <1>1. CASE req[c].detached \/ Missing(c, row)
    BY <1>1 DEF FailedRows, Missing
  <1>2. ASSUME NEW base \in {row, mine},
               row' = Merged(row, base, [base EXCEPT !.state = base.stable])
        PROVE  row'.state = IF base.stable # base.state THEN base.stable ELSE row.state
    <2> DEFINE new == [base EXCEPT !.state = base.stable]
    <2>1. new \in Row /\ base \in Row
      BY <1>0, CopyTypes
    <2>2. new.state = base.stable
      BY <2>1 DEF Row
    <2>3. row' = Merged(row, base, new)
      BY <1>2
    <2> HIDE DEF new
    <2> QED BY <1>0, <2>1, <2>2, <2>3, MergedType
  <1>3. CASE ~req[c].detached /\ ~Missing(c, row)
    <2>1. PICK base \in IF req[c].pc \in Bundled THEN {row} ELSE {row, mine} :
            row' = Merged(row, base, [base EXCEPT !.state = base.stable])
      BY <1>3 DEF FailedRows
    <2>2. CASE base = row
      BY <1>0, <1>2, <2>1, <2>2 DEF Row
    <2>3. CASE base = mine /\ req[c].pc \notin Bundled
      BY <1>2, <1>3, <2>1, <2>3 DEF Missing
    <2> QED BY <2>1, <2>2, <2>3
  <1> QED BY <1>1, <1>3

LEMMA FailSettles ==
  ASSUME StableInv, NEW c \in Clients, Serves(req[c]), row' \in FailedRows(c),
         row.id = req[c].mine.id, NEW q, req' = [req EXCEPT ![c] = q]
  PROVE  Settled(c)
  <1>1. ProfileInv /\ ~req[c].detached /\ req[c].mine.stable \in StableStates
    BY DEF StableInv, ProfileInv, TypeOK, Req, Row, Serves
  <1>2. \/ row'.state \in StableStates
        \/ row'.state = IF req[c].mine.stable # req[c].mine.state
                          THEN req[c].mine.stable ELSE row.state
    BY <1>1, FailedWrites
  <1> QED BY <1>1, <1>2, WrittenSettles DEF Settled

-----------------------------------------------------------------------------
LEMMA StableInit == Init => StableInv
  <1> SUFFICES ASSUME Init PROVE StableInv
    OBVIOUS
  <1>1. ProfileInv
    BY ProfileInit
  <1>2. ASSUME NEW c \in Clients PROVE ~Serves(req[c]) /\ Placed(req[c])
    BY DEF Init, NoReq, Serves, Placed, Working, Bundled
  <1> QED BY <1>1, <1>2 DEF StableInv

\* Every action keeps the invariant, and settles the session when it answers.
LEMMA StableNext ==
  ASSUME ~ReuseIds, StableInv, [Next]_vars
  PROVE  StableInv' /\ AllSettled
  <1>0. /\ ProfileInv /\ ProfileInv' /\ row \in Row /\ made \in Nat
        /\ req \in [Clients -> Req] /\ Shown(row) /\ Shown(Created(row))
        /\ \A c \in Clients : /\ req[c] \in Req /\ req[c].mine \in Row /\ Placed(req[c])
                              /\ CopyGood(req[c], row, made)
                              /\ Serves(req[c]) => holding = {c}
    <2>1. ProfileInv /\ ProfileInv'
      BY ProfileNext DEF StableInv
    <2> QED BY <2>1 DEF StableInv, ProfileInv, TypeOK, Req, Shown
  <1>0a. \A c \in Clients : req[c].pc \in Working => Serves(req[c])
    BY <1>0 DEF Serves, Placed, Working, Bundled
  <1>0b. \A how \in Over : LET q == [NoReq EXCEPT !.pc = how] IN
           Placed(q) /\ ~Serves(q) /\ ~Routed(q) /\ q.pc = how
    BY DEF NoReq, Placed, Serves, Routed, Over, Working, Bundled
  \* a request that is no message at work breaks off
  <1>1. ASSUME NEW c \in Clients, ~Serves(req[c]), End(c, "idle"), row' = row,
               Routed(req[c]) => req[c].mine.id # row.id
        PROVE  StableInv' /\ AllSettled
    <2> DEFINE q == [NoReq EXCEPT !.pc = "idle"]
    <2>1. /\ req' = [req EXCEPT ![c] = q] /\ holding' = holding \ {c}
          /\ Placed(q) /\ ~Serves(q) /\ q.pc = "idle"
      BY <1>0b, <1>1 DEF End, Over
    <2> HIDE DEF q
    <2> QED BY <1>0, <1>1, <2>1, OtherKept DEF Answers
  \* a request that is no message at work ends with a stable row
  <1>2. ASSUME NEW c \in Clients, ~Serves(req[c]), NEW how \in Over, End(c, how),
               row'.state \in StableStates
        PROVE  StableInv' /\ AllSettled
    <2> DEFINE q == [NoReq EXCEPT !.pc = how]
    <2>1. /\ req' = [req EXCEPT ![c] = q] /\ holding' = holding \ {c}
          /\ Placed(q) /\ ~Serves(q)
      BY <1>0b, <1>2 DEF End
    <2> HIDE DEF q
    <2> QED BY <1>0, <1>2, <2>1, OtherKept DEF Settled
  <1>3. CASE UNCHANGED vars
    <2>1. row' = row /\ req' = req /\ holding' = holding
      BY <1>3 DEF vars
    <2> QED BY <1>0, <2>1 DEF StableInv, AllSettled, Answers, Over
  <1>4. ASSUME NEW c \in Clients, NEW kind \in Kinds \ {"bundle"}, Send(c, kind)
        PROVE  StableInv' /\ AllSettled
    <2> DEFINE q == [NoReq EXCEPT !.pc = "queued", !.kind = kind]
    <2>1. Placed(q) /\ ~Serves(q) /\ q.pc = "queued"
      BY DEF Placed, Serves, NoReq, Working, Bundled
    <2>2. ~Serves(req[c]) /\ ~Routed(req[c])
      BY <1>4 DEF Send, Serves, Routed, Over, Working, Bundled
    <2>3. row' = row /\ holding' = holding /\ req' = [req EXCEPT ![c] = q]
      BY <1>4 DEF Send
    <2> HIDE DEF q
    <2> QED BY <1>0, <2>1, <2>2, <2>3, OtherKept DEF Answers
  <1>5. ASSUME NEW c \in Clients, AskBundle(c) PROVE StableInv' /\ AllSettled
    <2> DEFINE q == [pc |-> "bgate", kind |-> "bundle", mine |-> row, detached |-> FALSE]
    <2>1. Placed(q) /\ ~Serves(q) /\ q.pc = "bgate"
      BY DEF Placed, Serves, Bundled
    <2>2. ~Serves(req[c]) /\ ~Routed(req[c])
      BY <1>5 DEF AskBundle, Serves, Routed, Over, Working, Bundled
    <2>3. row' = row /\ holding' = holding /\ req' = [req EXCEPT ![c] = q]
      BY <1>5 DEF AskBundle
    <2> HIDE DEF q
    <2> QED BY <1>0, <2>1, <2>2, <2>3, OtherKept DEF Answers
  <1>6. ASSUME NEW c \in Clients, Enter(c) PROVE StableInv' /\ AllSettled
    <2> DEFINE q == [req[c] EXCEPT !.pc = "gate", !.mine = row']
    <2>1. req' = [req EXCEPT ![c] = q] /\ holding = {} /\ holding' = {c}
      BY <1>6 DEF Enter
    <2>2. q.pc = "gate" /\ q.mine = row' /\ q.kind = req[c].kind /\ q.detached = req[c].detached
      BY <1>0 DEF Req
    <2>3. req[c].pc = "queued"
      BY <1>6 DEF Enter
    <2> HIDE DEF q
    <2>4. Placed(q) /\ Explained(q, row', req')
      BY <1>0, <2>2, <2>3 DEF Placed, Explained, Bundled
    <2> QED BY <1>0, <2>1, <2>2, <2>4, ServerKept DEF Answers
  <1>7. ASSUME NEW c \in Clients, Serves(req[c]), NEW how \in Over, End(c, how),
               row' \in FailedRows(c)
        PROVE  StableInv' /\ AllSettled
    <2>1. row.id = req[c].mine.id => Settled(c)
      BY <1>7, FailSettles DEF End
    <2> QED BY <1>0, <1>7, <2>1, EndSettled
  <1>8. ASSUME NEW c \in Clients, Serves(req[c]), End(c, "idle")
        PROVE  StableInv' /\ AllSettled
    BY <1>0, <1>8, EndSettled DEF Over
  <1>9. ASSUME NEW c \in Clients, Block(c) \/ Refuse(c) PROVE StableInv' /\ AllSettled
    <2>1. Serves(req[c])
      BY <1>0a, <1>9 DEF Block, Refuse, Working
    <2> QED BY <1>7, <1>8, <1>9, <2>1 DEF Block, Refuse, Over
  <1>10. ASSUME NEW c \in Clients, AnswerCached(c) PROVE StableInv' /\ AllSettled
    <2>1. Serves(req[c]) /\ req[c].mine.state = "PROFILED" /\ req[c].mine.id # 0
      BY <1>0, <1>0a, <1>10 DEF AnswerCached, Working, Placed, CopyGood
    <2>2. row.id = req[c].mine.id => row' = row
      BY <1>10, <2>1 DEF AnswerCached, Created
    <2>3. row.id = req[c].mine.id => Settled(c)
      BY <1>10, <2>1, <2>2, WrittenSettles DEF AnswerCached, End, StableStates
    <2> QED BY <1>0, <1>10, <2>1, <2>3, EndSettled DEF AnswerCached, Over
  <1>11. ASSUME NEW c \in Clients, Diagnose(c) PROVE StableInv' /\ AllSettled
    <2> DEFINE mine == req[c].mine
    <2>1. PICK s \in {mine, Restarted(mine)} :
            s.state \in {"NEW", "DIAGNOSING"} /\ Commit(c, Created(row), Diagnosing(s), "diagnosing")
      BY <1>11 DEF Diagnose
    <2>2. s \in Row /\ s.id = mine.id
      BY <1>0, <2>1, CopyTypes DEF Restarted, Row
    <2> DEFINE new == Diagnosing(s)
    <2>3. new \in Row /\ new.id = mine.id /\ new.state = "DIAGNOSING"
      BY <2>1, <2>2, CopyTypes DEF Diagnosing, Row
    <2>4. Serves(req[c]) /\ Commit(c, Created(row), new, "diagnosing")
      BY <1>0a, <1>11, <2>1 DEF Diagnose, Working
    <2> HIDE DEF new
    <2> QED BY <1>0, <2>3, <2>4, ServerCommits DEF PCs, Working, Over
  <1>12. ASSUME NEW c \in Clients, Study(c) PROVE StableInv' /\ AllSettled
    <2> DEFINE mine == req[c].mine
    <2>1. Serves(req[c]) /\ mine.state = "PROFILED" /\ mine \in Row
      BY <1>0, <1>0a, <1>12 DEF Study, Working
    <2>2. Begun(mine) \in Row /\ Begun(mine).id = mine.id
      BY <2>1, CopyTypes DEF Begun, Row
    <2>3. CASE \E next \in {"cached", "starting"} : Commit(c, Created(row), mine, next)
      BY <1>0, <2>1, <2>3, ServerCommits DEF PCs, Working, Over
    <2>4. CASE \E next \in {"generating", "bundling"} : Commit(c, Created(row), Begun(mine), next)
      BY <1>0, <2>1, <2>2, <2>4, ServerCommits DEF PCs, Working, Bundled, Over
    <2> QED BY <1>12, <2>3, <2>4 DEF Study
  <1>13. ASSUME NEW c \in Clients, Serves(req[c]), NEW r, Shown(r), NEW new \in Row,
                new.id = req[c].mine.id, new.state \in StableStates,
                NEW how \in {"done", "failed"}, Commit(c, r, new, how)
         PROVE  StableInv' /\ AllSettled
    BY <1>0, <1>13, ServerCommits DEF PCs, Over
  <1>14. ASSUME NEW c \in Clients, Decline(c) PROVE StableInv' /\ AllSettled
    <2> DEFINE mine == req[c].mine
               new  == [mine EXCEPT !.state = mine.stable]
    <2>1. new \in Row /\ new.id = mine.id /\ new.state \in StableStates
      BY <1>0, CopyTypes DEF Row
    <2>2. Serves(req[c]) /\ Commit(c, Created(row), new, "failed")
      BY <1>0a, <1>14 DEF Decline, Working
    <2> HIDE DEF new
    <2> QED BY <1>0, <1>13, <2>1, <2>2
  <1>15. ASSUME NEW c \in Clients, Continue(c) PROVE StableInv' /\ AllSettled
    <2> DEFINE mine == req[c].mine
               new  == [mine EXCEPT !.turns = @ + 1]
    <2>1. Serves(req[c]) /\ Commit(c, row, new, "done") /\ mine.state = "DIAGNOSING"
      BY <1>0, <1>0a, <1>15 DEF Continue, Working, Placed
    <2>2. new \in Row /\ new.id = mine.id /\ new.state \in StableStates
      BY <1>0, <1>15, <2>1, CopyTypes DEF Continue, Row, StableStates
    <2> HIDE DEF new
    <2> QED BY <1>0, <1>13, <2>1, <2>2
  <1>16. ASSUME NEW c \in Clients, Ready(c) PROVE StableInv' /\ AllSettled
    <2> DEFINE mine == req[c].mine
               new  == [mine EXCEPT !.state = "PROFILE_READY"]
    <2>1. Serves(req[c]) /\ Commit(c, row, new, "profiling")
      BY <1>0a, <1>16 DEF Ready, Working
    <2>2. new \in Row /\ new.id = mine.id
      BY <1>0, CopyTypes DEF Row
    <2> HIDE DEF new
    <2> QED BY <1>0, <2>1, <2>2, ServerCommits DEF PCs, Working, Over
  <1>17. ASSUME NEW c \in Clients, SaveProfile(c) PROVE StableInv' /\ AllSettled
    <2> DEFINE mine == req[c].mine
               new  == [mine EXCEPT !.state = "PROFILED", !.stable = "PROFILED", !.version = @ + 1]
    <2>1. Serves(req[c]) /\ Commit(c, row, new, "done")
      BY <1>0a, <1>17 DEF SaveProfile, Working
    <2>2. new \in Row /\ new.id = mine.id /\ new.state \in StableStates
      <3>1. new \in Row
        BY <1>0, CopyTypes
      <3>2. new.id = mine.id /\ new.state = "PROFILED"
        BY <1>0 DEF Row
      <3> QED BY <3>1, <3>2 DEF StableStates
    <2> HIDE DEF new
    <2> QED BY <1>0, <1>13, <2>1, <2>2
  <1>18. ASSUME NEW c \in Clients
         PROVE  /\ Finished(req[c].mine) \in Row /\ Finished(req[c].mine).id = req[c].mine.id
                /\ Finished(req[c].mine).state = "PROFILED"
                /\ Begun(req[c].mine) \in Row /\ Begun(req[c].mine).id = req[c].mine.id
    BY <1>0, CopyTypes DEF Finished, Begun, Row
  <1>19. ASSUME NEW c \in Clients, Generated(c) PROVE StableInv' /\ AllSettled
    <2>1. Serves(req[c])
      BY <1>0a, <1>19 DEF Generated, Working
    <2> QED BY <1>0, <1>13, <1>18, <1>19, <2>1 DEF Generated, StableStates
  <1>20. ASSUME NEW c \in Clients, BeginBundle(c) PROVE StableInv' /\ AllSettled
    <2>1. Serves(req[c])
      BY <1>0a, <1>20 DEF BeginBundle, Working
    <2>2. CASE Commit(c, row, Begun(req[c].mine), "bundling")
      BY <1>0, <1>18, <2>1, <2>2, ServerCommits DEF PCs, Bundled, Over
    <2> QED BY <1>8, <1>20, <2>1, <2>2 DEF BeginBundle
  <1>21. ASSUME NEW c \in Clients, PassBundle(c) PROVE StableInv' /\ AllSettled
    <2> DEFINE mine == req[c].mine
    <2>1. req[c].pc = "bgate" /\ req[c].kind = "bundle" /\ ~req[c].detached
      BY <1>0, <1>21 DEF PassBundle, Placed
    <2>2. ~Serves(req[c]) /\ ~Routed(req[c])
      BY <2>1 DEF Serves, Routed
    <2>3. /\ row'.id = row.id
          /\ row'.id # mine.id => row' = row
          /\ (End(c, "idle") /\ Missing(c, row)) \/ Goto(c, "bundling", Begun(mine))
      BY <1>0, <1>18, <1>21, <2>1, CommitWrites DEF PassBundle, Bundled, Over
    <2>4. CASE End(c, "idle") /\ Missing(c, row)
      BY <1>1, <2>2, <2>3, <2>4 DEF Missing
    <2>5. CASE Goto(c, "bundling", Begun(mine))
      <3> DEFINE q == [req[c] EXCEPT !.pc = "bundling", !.mine = Begun(mine)]
      <3>1. /\ req' = [req EXCEPT ![c] = q] /\ holding' = holding
            /\ q.pc = "bundling" /\ q.kind = "bundle" /\ ~q.detached /\ q.mine.id = mine.id
        BY <1>0, <1>18, <2>1, <2>5 DEF Goto, Req
      <3> HIDE DEF q
      <3>2. Placed(q) /\ ~Serves(q) /\ Routed(q)
        BY <3>1 DEF Placed, Serves, Routed, Bundled
      <3> QED BY <1>0, <2>2, <2>3, <3>1, <3>2, OtherKept DEF Answers
    <2> QED BY <2>3, <2>4, <2>5
  <1>22. ASSUME NEW c \in Clients, BundleDone(c) PROVE StableInv' /\ AllSettled
    <2>1. CASE req[c].detached
      BY <1>0, <1>1, <1>22, <2>1 DEF BundleDone, Serves, Routed, Placed
    <2>2. CASE Serves(req[c])
      BY <1>0, <1>13, <1>18, <1>22, <2>2 DEF BundleDone, Serves, StableStates
    <2>3. CASE ~req[c].detached /\ ~Serves(req[c])
      <3>1. /\ Commit(c, row, Finished(req[c].mine), "done") /\ req[c].pc = "bundling"
            /\ req[c].mine.state = "GENERATING"
        BY <1>0, <1>22, <2>3 DEF BundleDone, CopyGood
      <3>2. /\ row'.id = req[c].mine.id => row'.state = "PROFILED"
            /\ row'.id = row.id
            /\ row'.id # req[c].mine.id => row' = row
            /\ (End(c, "idle") /\ Missing(c, row)) \/ End(c, "done")
        BY <1>0, <1>18, <3>1, CommitWrites DEF Bundled, Over, Commit
      <3>3. CASE End(c, "idle") /\ Missing(c, row)
        BY <1>1, <2>3, <3>2, <3>3 DEF Missing
      <3>4. CASE ~Missing(c, row)
        BY <1>2, <2>3, <3>2, <3>4 DEF Missing, StableStates, Over
      <3>5. CASE Missing(c, row) /\ ~End(c, "idle")
        BY <1>18, <3>1, <3>5 DEF Commit
      <3> QED BY <3>3, <3>4, <3>5
    <2> QED BY <2>1, <2>2, <2>3
  <1>23. ASSUME NEW c \in Clients, Fail(c) PROVE StableInv' /\ AllSettled
    <2>0. /\ row' \in FailedRows(c)
          /\ End(c, IF req[c].detached THEN "idle" ELSE "failed")
      BY <1>23 DEF Fail
    <2>1. CASE Serves(req[c])
      BY <1>7, <2>0, <2>1 DEF Over
    <2>2. CASE req[c].detached
      <3>1. row' = row
        BY <2>0, <2>2 DEF FailedRows
      <3> QED BY <1>0, <1>1, <2>0, <2>2, <3>1 DEF Serves, Routed, Placed
    <2>3. CASE ~Serves(req[c]) /\ ~req[c].detached
      <3>1. req[c].kind = "bundle" /\ req[c].pc \in Bundled
        BY <1>0, <1>23, <2>3 DEF Fail, Serves, Placed
      <3>2. (row' = row /\ row.id # req[c].mine.id) \/ row'.state \in StableStates
        BY <1>0, <2>0, <2>3, <3>1, FailedWrites
      <3>3. CASE row'.state \in StableStates
        BY <1>2, <2>0, <2>3, <3>3 DEF Over
      <3>4. CASE row' = row /\ row.id # req[c].mine.id
        <4> DEFINE q == [NoReq EXCEPT !.pc = "failed"]
        <4>1. /\ req' = [req EXCEPT ![c] = q] /\ holding' = holding \ {c}
              /\ Placed(q) /\ ~Serves(q)
          BY <1>0b, <2>0, <2>3 DEF End, Over
        <4> HIDE DEF q
        <4> QED BY <1>0, <2>3, <3>4, <4>1, OtherKept DEF Answers
      <3> QED BY <3>2, <3>3, <3>4
    <2> QED BY <2>1, <2>2, <2>3
  <1>24. ASSUME NEW c \in Clients, Escape(c) PROVE StableInv' /\ AllSettled
    <2>1. Serves(req[c])
      BY <1>24 DEF Escape, Serves, Bundled
    <2>2. CASE /\ req[c].pc = "bundling" /\ req' = [req EXCEPT ![c].detached = TRUE]
               /\ holding' = holding \ {c}
      <3> DEFINE q == [req[c] EXCEPT !.detached = TRUE]
      <3>1. /\ req' = [req EXCEPT ![c] = q] /\ q.detached /\ q.pc = "bundling"
            /\ q.kind = req[c].kind
        BY <1>0, <2>2 DEF Req
      <3> HIDE DEF q
      <3>2. Placed(q) /\ ~Serves(q)
        BY <2>1, <3>1 DEF Placed, Serves
      <3> QED BY <1>0, <2>1, <3>1, <3>2, ServerKept DEF Answers
    <2> QED BY <1>8, <1>24, <2>1, <2>2 DEF Escape
  <1>25. ASSUME NEW c \in Clients, Leave(c) PROVE StableInv' /\ AllSettled
    <2>1. /\ req' = [req EXCEPT ![c] = NoReq] /\ row' = row /\ holding' = holding
          /\ req[c].pc = "queued"
      BY <1>25 DEF Leave
    <2>2. /\ Placed(NoReq) /\ ~Serves(NoReq) /\ NoReq.pc = "idle"
          /\ ~Serves(req[c]) /\ ~Routed(req[c])
      BY <2>1 DEF NoReq, Placed, Serves, Routed, Working, Bundled
    <2> QED BY <1>0, <2>1, <2>2, OtherKept DEF Answers
  <1>26. CASE Crash
    <2>1. ASSUME NEW c \in Clients
          PROVE  ~Serves(req'[c]) /\ Placed(req'[c]) /\ req'[c].pc = "idle"
      BY <1>26 DEF Crash, NoReq, Serves, Placed, Working, Bundled
    <2> QED BY <1>0, <2>1 DEF StableInv, AllSettled, Answers
  \* no request moves, and the row becomes stable or stays
  <1>27. ASSUME req' = req, holding' = holding, row' = row \/ row'.state \in StableStates
         PROVE  StableInv' /\ AllSettled
    <2>1. AllSettled
      BY <1>27 DEF AllSettled, Answers, Over
    <2>2. ASSUME NEW c \in Clients, Serves(req[c]) PROVE Explained(req[c], row', req)
      BY <1>27, <2>2 DEF StableInv, Explained
    <2> QED BY <1>0, <1>27, <2>1, <2>2 DEF StableInv
  <1>28. CASE Rediagnose
    <2>1. Created(row) = row \/ Created(row).state = "NEW"
      BY DEF Created, NoRow
    <2>2. Created(row) \in Row
      BY <1>0, CreatedType
    <2>3. Restarted(Created(row)).state = "DIAGNOSING"
      BY <2>2 DEF Restarted, Row
    <2> QED BY <1>27, <1>28, <2>1, <2>3 DEF Rediagnose, StableStates
  <1>29. CASE Delete
    BY <1>27, <1>29 DEF Delete, NoRow, StableStates
  <1> QED
    BY <1>3, <1>4, <1>5, <1>6, <1>9, <1>10, <1>11, <1>12, <1>14, <1>15, <1>16, <1>17, <1>19,
       <1>20, <1>21, <1>22, <1>23, <1>24, <1>25, <1>26, <1>28, <1>29
    DEF Next, Request, Progress

\* When no id of a row is used again, a request that is answered leaves the session
\* stable, or to a bundle that is at work on it, whatever copies were committed and
\* whichever requests broke off before.
THEOREM AnswersSettle ==
  ASSUME ~ReuseIds
  PROVE  Spec => AnsweredIsStable
  <1>1. Init => StableInv
    BY StableInit
  <1>2. StableInv /\ [Next]_vars => StableInv'
    BY StableNext
  <1>3. StableInv /\ [Next]_vars =>
          [\A c \in Clients :
             /\ req[c].pc \notin Over /\ req'[c].pc \in {"done", "failed"}
             /\ row.id = req[c].mine.id
           => \/ row'.state \in StableStates
              \/ \E d \in Clients \ {c} : Generating(d)' \/ req'[d].pc = "profiling"]_vars
    BY StableNext DEF AllSettled, Answers, Settled
  <1> QED BY <1>1, <1>2, <1>3, PTL DEF Spec, AnsweredIsStable
=============================================================================
