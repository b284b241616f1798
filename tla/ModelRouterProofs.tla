--------------------------- MODULE ModelRouterProofs ---------------------------
(***************************************************************************)
(* The life of a snapshot, proved for any number of requests, profiles and *)
(* snapshots: what counting, retiring and closing (apply_snapshot, _lease, *)
(* close) keep up, and that they implement SnapshotLeases.                 *)
(*                                                                         *)
(* Every step of the router does one of four things to the leases: a       *)
(* request joins the current snapshot, a request leaves its snapshot, the  *)
(* current snapshot is replaced, or nothing.  StepKinds sorts the actions  *)
(* into these four; the invariance and the refinement proofs follow them.  *)
(*                                                                         *)
(* Then what every operation of the circuit breaker keeps, and from it the *)
(* types of the router's variables and the shape of every breaker.  A step *)
(* that touches a breaker or the locals of a request goes through a        *)
(* candidate, so the second invariant also says that a request past        *)
(* `choose' has one.                                                       *)
(*                                                                         *)
(* Last, what a step may do to a request: only a call has shown text, so   *)
(* no answer is spliced of two models; and a request that slept finds its  *)
(* breaker cooled down and its budget unspent, so it calls again.          *)
(***************************************************************************)
EXTENDS ModelRouter, FiniteSetTheorems, WellFoundedInduction, TLAPS

Inside == {"choose", "try", "calling", "sleeping"}

LeaseTypes ==
  /\ current \in Snapshots
  /\ active  \in [Snapshots -> Nat]
  /\ retired \in [Snapshots -> BOOLEAN]
  /\ closed  \in [Snapshots -> BOOLEAN]
  /\ pc      \in [Clients -> PCs]
  /\ lease   \in [Clients -> Snapshots \cup {None}]

\* a snapshot is retired exactly when it is not the current one ...
RetiredExactly == \A s \in Snapshots : retired[s] <=> s # current

\* ... and closed exactly when it is retired and counts no request
ClosedExactly ==
  \A s \in Snapshots : closed[s] <=> (retired[s] /\ active[s] = 0)

\* a request holds a lease exactly while it is inside `async with _lease()'
LeasedInside == \A c \in Clients : lease[c] # None <=> pc[c] \in Inside

\* The inductive invariant.  OpenWhileLeased alone is not inductive: a step
\* that closes a snapshot looks at its counter, not at who holds it.
LeaseInv ==
  /\ LeaseTypes
  /\ LeaseCount
  /\ RetiredExactly
  /\ ClosedExactly
  /\ LeasedInside

-----------------------------------------------------------------------------
\* The four things a step may do to the leases
Joins(c) ==
  /\ lease[c] = None
  /\ lease'  = [lease EXCEPT ![c] = current]
  /\ active' = [active EXCEPT ![current] = @ + 1]
  /\ UNCHANGED <<current, retired, closed>>

Leaves(c) ==
  /\ lease[c] # None
  /\ lease'  = [lease EXCEPT ![c] = None]
  /\ active' = [active EXCEPT ![lease[c]] = @ - 1]
  /\ closed' = [closed EXCEPT ![lease[c]] = @ \/ LastOneOut(lease[c])]
  /\ UNCHANGED <<current, retired>>

Replaces(s) ==
  /\ s # current /\ closed[s]
  /\ current' = s
  /\ active'  = [active EXCEPT ![s] = 0]
  /\ retired' = [retired EXCEPT ![current] = TRUE, ![s] = FALSE]
  /\ closed'  = [closed EXCEPT ![current] = Unused(current), ![s] = FALSE]
  /\ UNCHANGED lease

Keeps == UNCHANGED <<current, active, retired, closed, lease>>

LeaseStep ==
  \/ \E c \in Clients : Joins(c) \/ Leaves(c)
  \/ \E s \in Snapshots : Replaces(s)
  \/ Keeps

\* A request that ends has left its snapshot, and one that goes on stays inside.
LEMMA FinishLeaves ==
  ASSUME LeaseTypes, LeasedInside, NEW c \in Clients, pc[c] \in Inside,
         Finish(c)
  PROVE  Leaves(c) /\ LeasedInside' /\ pc' \in [Clients -> PCs]
  <1>1. Leaves(c)
    BY DEF Finish, Leaves, LeasedInside, Left
  <1>2. pc' \in [Clients -> PCs]
    BY DEF Finish, LeaseTypes, PCs
  <1>3. LeasedInside'
    BY DEF Finish, LeaseTypes, LeasedInside, Inside
  <1> QED BY <1>1, <1>2, <1>3

LEMMA NextCandidateKeeps ==
  ASSUME LeaseTypes, LeasedInside, NEW c \in Clients, pc[c] \in Inside,
         NextCandidate(c)
  PROVE  Keeps /\ LeasedInside' /\ pc' \in [Clients -> PCs]
  <1>1. Keeps
    BY DEF NextCandidate, Keeps, snapshotVars
  <1>2. pc' \in [Clients -> PCs]
    BY DEF NextCandidate, LeaseTypes, PCs
  <1>3. LeasedInside'
    BY DEF NextCandidate, LeaseTypes, LeasedInside, Inside
  <1> QED BY <1>1, <1>2, <1>3

\* Every action is one of the four kinds, and pc stays in step with the leases.
LEMMA StepKinds ==
  ASSUME LeaseTypes, LeasedInside, [Next]_vars
  PROVE  LeaseStep /\ LeasedInside' /\ pc' \in [Clients -> PCs]
  <1> USE DEF Inside
  <1>1. CASE UNCHANGED vars
    BY <1>1 DEF vars, LeaseStep, Keeps, LeasedInside, LeaseTypes
  <1>2. ASSUME NEW c \in Clients, ClientStep(c)
        PROVE  LeaseStep /\ LeasedInside' /\ pc' \in [Clients -> PCs]
    <2>1. CASE Send(c)
      BY <2>1, RouterAssumption
      DEF Send, LeaseStep, Keeps, LeasedInside, LeaseTypes, PCs, snapshotVars
    <2>2. CASE Acquire(c)
      <3>1. CASE Refuses(config[current], task[c].selection)
        BY <2>2, <3>1
        DEF Acquire, LeaseStep, Keeps, LeasedInside, LeaseTypes, PCs
      <3>2. CASE ~Refuses(config[current], task[c].selection)
        <4>1. Joins(c)
          BY <2>2, <3>2 DEF Acquire, Joins, LeasedInside
        <4> QED
          BY <2>2, <3>2, <4>1, RouterAssumption
          DEF Acquire, LeaseStep, LeasedInside, LeaseTypes, PCs
      <3> QED BY <3>1, <3>2
    <2>3. CASE Exhausted(c) \/ Succeed(c) \/ FailTerminal(c) \/ Cancel(c)
      BY <2>3, FinishLeaves
      DEF Exhausted, Succeed, FailTerminal, Cancel, LeaseStep
    <2>4. CASE SkipDisabled(c) \/ Rejected(c) \/ OverBudget(c) \/ EmptyStream(c)
      BY <2>4, NextCandidateKeeps
      DEF SkipDisabled, Rejected, OverBudget, EmptyStream, LeaseStep
    <2>5. CASE MeetAttention(c)
      BY <2>5, FinishLeaves, NextCandidateKeeps DEF MeetAttention, LeaseStep
    <2>6. CASE Take(c) \/ Wake(c) \/ Delta(c) \/ CancelWaiting(c) \/ Call(c)
      BY <2>6
      DEF Take, Wake, Delta, CancelWaiting, Call, LeaseStep, Keeps,
          LeasedInside, LeaseTypes, PCs, snapshotVars
    <2>7. ASSUME NEW delay \in Delays, FailRetryable(c, delay)
          PROVE  LeaseStep /\ LeasedInside' /\ pc' \in [Clients -> PCs]
      <3>1. CASE pc' = [pc EXCEPT ![c] = "sleeping"] /\ UNCHANGED <<snapshotVars, lease>>
        BY <2>7, <3>1
        DEF FailRetryable, LeaseStep, Keeps, LeasedInside, LeaseTypes, PCs,
            snapshotVars
      <3> QED
        BY <2>7, <3>1, FinishLeaves, NextCandidateKeeps DEF FailRetryable, LeaseStep
    <2> QED
      BY <1>2, <2>1, <2>2, <2>3, <2>4, <2>5, <2>6, <2>7
      DEF ClientStep, Choose, Try, Answer
  <1>3. ASSUME NEW s \in Snapshots, NEW cfg \in Configs \cup {NoConfig}, Swap(s, cfg)
        PROVE  LeaseStep /\ LeasedInside' /\ pc' \in [Clients -> PCs]
    <2>1. Replaces(s)
      BY <1>3 DEF Swap, Replaces
    <2> QED BY <1>3, <2>1 DEF Swap, LeaseStep, LeasedInside, LeaseTypes
  <1>4. CASE Tick
    BY <1>4 DEF Tick, LeaseStep, Keeps, LeasedInside, LeaseTypes, snapshotVars
  <1> QED
    BY <1>1, <1>2, <1>3, <1>4 DEF Next, ApplySnapshot, Close

-----------------------------------------------------------------------------
\* Who holds which snapshot after a request joined, left or did neither.
LEMMA LesseesAfterJoin ==
  ASSUME LeaseTypes, NEW c \in Clients, Joins(c), NEW s \in Snapshots
  PROVE  Lessees(s)' = IF s = current THEN Lessees(s) \cup {c} ELSE Lessees(s)
  BY RouterAssumption DEF LeaseTypes, Joins, Lessees

LEMMA LesseesAfterLeave ==
  ASSUME LeaseTypes, NEW c \in Clients, Leaves(c), NEW s \in Snapshots
  PROVE  Lessees(s)' = IF s = lease[c] THEN Lessees(s) \ {c} ELSE Lessees(s)
  BY RouterAssumption DEF LeaseTypes, Leaves, Lessees

LEMMA LesseesFinite ==
  ASSUME NEW s
  PROVE  IsFiniteSet(Lessees(s)) /\ Cardinality(Lessees(s)) \in Nat
  BY RouterAssumption, FS_Subset, FS_CardinalityType DEF Lessees

\* The request that leaves s is counted in active[s].
LEMMA CountedIn ==
  ASSUME LeaseTypes, LeaseCount, NEW c \in Clients, lease[c] # None
  PROVE  /\ lease[c] \in Snapshots
         /\ active[lease[c]] \in Nat \ {0}
         /\ active[lease[c]] = 1 <=> Lessees(lease[c]) = {c}
  <1>1. lease[c] \in Snapshots /\ c \in Lessees(lease[c])
    BY DEF LeaseTypes, Lessees
  <1> DEFINE S == Lessees(lease[c])
  <1>2. IsFiniteSet(S) /\ Cardinality(S) \in Nat /\ active[lease[c]] = Cardinality(S)
    BY <1>1, LesseesFinite DEF LeaseCount
  <1>3. Cardinality(S) # 0
    BY <1>1, <1>2, FS_EmptySet
  <1>4. Cardinality(S) = 1 <=> S = {c}
    BY <1>1, <1>2, FS_Singleton
  <1> QED BY <1>1, <1>2, <1>3, <1>4

LEMMA InitLeaseInv == Init => LeaseInv
  <1> SUFFICES ASSUME Init PROVE LeaseInv
    OBVIOUS
  <1>1. LeaseTypes
    BY RouterAssumption DEF Init, LeaseTypes, PCs
  <1>2. LeaseCount
    <2>1. \A s \in Snapshots : Lessees(s) = {}
      BY RouterAssumption DEF Init, Lessees
    <2> QED BY <2>1, FS_EmptySet DEF Init, LeaseCount
  <1>3. RetiredExactly /\ ClosedExactly
    BY DEF Init, RetiredExactly, ClosedExactly
  <1>4. LeasedInside
    BY DEF Init, LeasedInside, Inside
  <1> QED BY <1>1, <1>2, <1>3, <1>4 DEF LeaseInv

LEMMA NextLeaseInv == LeaseInv /\ [Next]_vars => LeaseInv'
  <1> SUFFICES ASSUME LeaseInv, [Next]_vars PROVE LeaseInv'
    OBVIOUS
  <1> USE DEF LeaseInv
  <1>1. LeaseStep /\ LeasedInside' /\ pc' \in [Clients -> PCs]
    BY StepKinds
  <1>2. ASSUME NEW c \in Clients, Joins(c) PROVE LeaseInv'
    <2>1. LeaseTypes'
      BY <1>1, <1>2 DEF LeaseTypes, Joins
    <2>2. LeaseCount'
      <3> SUFFICES ASSUME NEW s \in Snapshots
                   PROVE  active'[s] = Cardinality(Lessees(s)')
        BY DEF LeaseCount
      <3>1. CASE s = current
        <4>1. Lessees(s)' = Lessees(s) \cup {c} /\ c \notin Lessees(s)
          BY <1>2, <3>1, LesseesAfterJoin, RouterAssumption DEF Joins, Lessees
        <4>2. Cardinality(Lessees(s)') = Cardinality(Lessees(s)) + 1
          BY <4>1, LesseesFinite, FS_AddElement
        <4> QED BY <1>2, <3>1, <4>2 DEF LeaseCount, LeaseTypes, Joins
      <3>2. CASE s # current
        BY <1>2, <3>2, LesseesAfterJoin DEF LeaseCount, LeaseTypes, Joins
      <3> QED BY <3>1, <3>2
    <2>3. RetiredExactly' /\ ClosedExactly'
      BY <1>2 DEF RetiredExactly, ClosedExactly, LeaseTypes, Joins
    <2> QED BY <1>1, <2>1, <2>2, <2>3
  <1>3. ASSUME NEW c \in Clients, Leaves(c) PROVE LeaseInv'
    <2>1. /\ lease[c] \in Snapshots
          /\ active[lease[c]] \in Nat \ {0}
      BY <1>3, CountedIn DEF Leaves
    <2>2. LeaseTypes'
      BY <1>1, <1>3, <2>1 DEF LeaseTypes, Leaves, LastOneOut
    <2>3. LeaseCount'
      <3> SUFFICES ASSUME NEW s \in Snapshots
                   PROVE  active'[s] = Cardinality(Lessees(s)')
        BY DEF LeaseCount
      <3>1. CASE s = lease[c]
        <4>1. Lessees(s)' = Lessees(s) \ {c} /\ c \in Lessees(s)
          BY <1>3, <3>1, LesseesAfterLeave DEF Lessees
        <4>2. Cardinality(Lessees(s)') = Cardinality(Lessees(s)) - 1
          BY <4>1, LesseesFinite, FS_RemoveElement
        <4> QED BY <1>3, <3>1, <4>2 DEF LeaseCount, LeaseTypes, Leaves
      <3>2. CASE s # lease[c]
        BY <1>3, <3>2, LesseesAfterLeave DEF LeaseCount, LeaseTypes, Leaves
      <3> QED BY <3>1, <3>2
    <2>4. RetiredExactly' /\ ClosedExactly'
      BY <1>3, <2>1 DEF RetiredExactly, ClosedExactly, LeaseTypes, Leaves, LastOneOut
    <2> QED BY <1>1, <2>2, <2>3, <2>4
  <1>4. ASSUME NEW s \in Snapshots, Replaces(s) PROVE LeaseInv'
    <2>1. active' = active
      BY <1>4 DEF LeaseTypes, ClosedExactly, Replaces
    <2>2. LeaseTypes'
      BY <1>1, <1>4, <2>1 DEF LeaseTypes, Replaces, Unused
    <2>3. LeaseCount'
      BY <1>4, <2>1 DEF LeaseCount, Lessees, Replaces
    <2>4. RetiredExactly' /\ ClosedExactly'
      BY <1>4, <2>1
      DEF RetiredExactly, ClosedExactly, LeaseTypes, Replaces, Unused
    <2> QED BY <1>1, <2>2, <2>3, <2>4
  <1>5. CASE Keeps
    BY <1>1, <1>5
    DEF Keeps, LeaseTypes, LeaseCount, Lessees, RetiredExactly, ClosedExactly
  <1> QED BY <1>1, <1>2, <1>3, <1>4, <1>5 DEF LeaseStep

\* The counters, flags and leases of every reachable state agree.
THEOREM LeaseInvariant == Spec => []LeaseInv
  BY InitLeaseInv, NextLeaseInv, PTL DEF Spec

\* active_requests counts the requests that hold the snapshot.
THEOREM LeaseCountHolds == Spec => []LeaseCount
  BY LeaseInvariant, PTL DEF LeaseInv

\* No gateway is closed under a request: a leased snapshot counts at least the
\* request that leased it, so it cannot have been closed.
THEOREM NeverClosedWhileLeased == Spec => []OpenWhileLeased
  <1>1. LeaseInv => OpenWhileLeased
    BY CountedIn DEF LeaseInv, OpenWhileLeased, ClosedExactly
  <1> QED BY <1>1, LeaseInvariant, PTL

\* No gateway leaks: a replaced snapshot nobody holds counts no request, so it
\* has been closed.
THEOREM ClosedOnceUnused == Spec => []ClosedWhenUnused
  <1>1. LeaseInv => ClosedWhenUnused
    BY FS_EmptySet DEF LeaseInv, ClosedWhenUnused, LeaseCount, ClosedExactly
  <1> QED BY <1>1, LeaseInvariant, PTL

-----------------------------------------------------------------------------
\* The router implements SnapshotLeases: every step of Next is, on current,
\* users and disposed, a Begin, an End, a Replace or a stutter.
LEMMA InitRefines == Init => Leases!Init
  <1> SUFFICES ASSUME Init PROVE Leases!Init
    OBVIOUS
  <1>1. \A s \in Snapshots : Lessees(s) = {}
    BY RouterAssumption DEF Init, Lessees
  <1>2. {s \in Snapshots : closed[s]} = Snapshots \ {current}
    BY DEF Init
  <1> QED BY <1>1, <1>2 DEF Init, Leases!Init

LEMMA NextRefines == LeaseInv /\ [Next]_vars => [Leases!Next]_(Leases!leaseVars)
  <1> SUFFICES ASSUME LeaseInv, [Next]_vars
               PROVE  [Leases!Next]_(Leases!leaseVars)
    OBVIOUS
  <1> USE DEF LeaseInv
  <1>0. LeaseStep
    BY StepKinds
  <1>1. ASSUME NEW c \in Clients, Joins(c) PROVE Leases!Begin(c)
    <2>1. \A s \in Snapshots : c \notin Lessees(s)
      BY <1>1, RouterAssumption DEF Joins, Lessees
    <2>2. [s \in Snapshots |-> Lessees(s)]'
            = [[s \in Snapshots |-> Lessees(s)] EXCEPT ![current] = @ \cup {c}]
      BY <1>1, LesseesAfterJoin
    <2>3. UNCHANGED <<current, {s \in Snapshots : closed[s]}>>
      BY <1>1 DEF Joins
    <2> QED BY <2>1, <2>2, <2>3 DEF Leases!Begin
  <1>2. ASSUME NEW c \in Clients, NEW s \in Snapshots, s = lease[c], Leaves(c)
        PROVE  Leases!End(c, s)
    <2>1. active[s] = 1 <=> Lessees(s) = {c}
      BY <1>2, CountedIn DEF Leaves
    <2>2. c \in Lessees(s)
      BY <1>2 DEF Lessees
    <2>3. [r \in Snapshots |-> Lessees(r)]'
            = [[r \in Snapshots |-> Lessees(r)] EXCEPT ![s] = @ \ {c}]
      BY <1>2, LesseesAfterLeave
    <2>4. {r \in Snapshots : closed[r]}'
            = IF s # current /\ Lessees(s) = {c}
                THEN {r \in Snapshots : closed[r]} \cup {s}
                ELSE {r \in Snapshots : closed[r]}
      BY <1>2, <2>1 DEF Leaves, LastOneOut, RetiredExactly, LeaseTypes
    <2> QED BY <1>2, <2>1, <2>2, <2>3, <2>4 DEF Leases!End, Leaves
  <1>3. ASSUME NEW s \in Snapshots, Replaces(s) PROVE Leases!Replace(s)
    <2>1. [r \in Snapshots |-> Lessees(r)]' = [r \in Snapshots |-> Lessees(r)]
      BY <1>3 DEF Replaces, Lessees
    <2>2. active[current] = 0 <=> Lessees(current) = {}
      BY FS_EmptySet, LesseesFinite DEF LeaseCount, LeaseTypes
    <2>3. {r \in Snapshots : closed[r]}'
            = ({r \in Snapshots : closed[r]} \ {s})
              \cup (IF Lessees(current) = {} THEN {current} ELSE {})
      BY <1>3, <2>2
      DEF Replaces, Unused, LeaseTypes, ClosedExactly, RetiredExactly
    <2> QED BY <1>3, <2>1, <2>3 DEF Leases!Replace, Replaces, LeaseTypes
  <1>4. CASE Keeps
    BY <1>4 DEF Keeps, Lessees, Leases!leaseVars
  <1>5. ASSUME NEW c \in Clients, Leaves(c) PROVE Leases!Next
    <2>1. PICK s \in Snapshots : s = lease[c]
      BY <1>5 DEF Leaves, LeaseTypes
    <2>2. Leases!End(c, s)
      BY <1>2, <1>5, <2>1
    <2> QED BY <2>2 DEF Leases!Next
  <1>6. ASSUME NEW c \in Clients, Joins(c) PROVE Leases!Next
    BY <1>1, <1>6 DEF Leases!Next
  <1>7. ASSUME NEW s \in Snapshots, Replaces(s) PROVE Leases!Next
    BY <1>3, <1>7 DEF Leases!Next
  <1> QED BY <1>0, <1>4, <1>5, <1>6, <1>7 DEF LeaseStep

\* Counting, retiring and closing implement the abstract life of a snapshot.
THEOREM RouterRefinesLeases == Spec => ImplementsLeases
  <1>1. Init => Leases!Init
    BY InitRefines
  <1>2. LeaseInv /\ [Next]_vars => [Leases!Next]_(Leases!leaseVars)
    BY NextRefines
  <1> QED
    BY <1>1, <1>2, LeaseInvariant, PTL DEF Spec, ImplementsLeases, Leases!Spec

-----------------------------------------------------------------------------
(***************************************************************************)
(* The breaker, for any threshold and any sequence of cooldowns            *)
(***************************************************************************)
LEMMA CooldownsNonEmpty == Len(Cooldowns) \in Nat \ {0}
  BY BreakerAssumption

LEMMA NewBreakerFits == NewBreaker \in Breaker /\ WellFormed(NewBreaker)
  BY BreakerAssumption, CooldownsNonEmpty DEF NewBreaker, Breaker, WellFormed

LEMMA AdmitFits ==
  ASSUME NEW b \in Breaker, WellFormed(b)
  PROVE  Admit(b) \in Breaker /\ WellFormed(Admit(b))
  BY DEF Admit, Breaker, WellFormed

LEMMA OpenForFits ==
  ASSUME NEW b \in Breaker, ~b.probe, NEW cooldown \in Nat
  PROVE  OpenFor(b, cooldown) \in Breaker /\ WellFormed(OpenFor(b, cooldown))
  <1>1. AtMost(b.opens + 1, Len(Cooldowns)) \in 1..Len(Cooldowns)
    BY CooldownsNonEmpty DEF Breaker, AtMost
  <1> DEFINE n == AtMost(b.opens + 1, Len(Cooldowns))
  <1>2. OpenFor(b, cooldown) = [b EXCEPT !.state = "open", !.opens = n, !.left = cooldown]
    BY DEF OpenFor
  <1>3. n \in 0..Len(Cooldowns) /\ n > 0
    BY <1>1, CooldownsNonEmpty
  <1> HIDE DEF n
  <1>4. OpenFor(b, cooldown) \in Breaker
    BY <1>2, <1>3 DEF Breaker
  <1>5. WellFormed(OpenFor(b, cooldown))
    BY <1>2, <1>3 DEF Breaker, WellFormed
  <1> QED BY <1>4, <1>5

\* the cooldown of an opening is one of the configured ones
LEMMA OpenFits ==
  ASSUME NEW b \in Breaker, ~b.probe
  PROVE  Open(b) \in Breaker /\ WellFormed(Open(b))
  <1>1. AtMost(b.opens + 1, Len(Cooldowns)) \in 1..Len(Cooldowns)
    BY CooldownsNonEmpty DEF Breaker, AtMost
  <1>2. Cooldowns[AtMost(b.opens + 1, Len(Cooldowns))] \in Nat
    BY <1>1, BreakerAssumption
  <1> QED BY <1>2, OpenForFits DEF Open

LEMMA CountedFits ==
  ASSUME NEW b \in Breaker
  PROVE  /\ Counted(Released(b)) \in Breaker
         /\ ~Counted(Released(b)).probe
         /\ Counted(Released(b)).state = b.state
         /\ Counted(Released(b)).opens = b.opens
         /\ Counted(Released(b)).failures = AtMost(b.failures + 1, FailureThreshold)
  <1>1. AtMost(b.failures + 1, FailureThreshold) \in 0..FailureThreshold
    BY BreakerAssumption DEF Breaker, AtMost
  <1>2. Counted(Released(b)) = [b EXCEPT !.probe = FALSE,
                                         !.failures = AtMost(b.failures + 1, FailureThreshold)]
    BY DEF Counted, Released, Breaker
  <1> QED BY <1>1, <1>2 DEF Breaker

LEMMA TerminalFits ==
  ASSUME NEW b \in Breaker, WellFormed(b)
  PROVE  RecordTerminal(b) \in Breaker /\ WellFormed(RecordTerminal(b))
  BY NewBreakerFits DEF RecordTerminal, RecordSuccess

LEMMA RetryableFits ==
  ASSUME NEW b \in Breaker, WellFormed(b), NEW delay \in Nat
  PROVE  /\ RecordRetryable(b, delay) \in Breaker
         /\ WellFormed(RecordRetryable(b, delay))
  <1> DEFINE counted == Counted(Released(b))
  <1>1. CASE delay > 0
    <2>1. LastCooldown \in Nat
      BY BreakerAssumption, CooldownsNonEmpty DEF LastCooldown
    <2>2. AtMost(delay, LastCooldown) \in Nat
      BY <2>1 DEF AtMost
    <2> QED BY <1>1, <2>2, CountedFits, OpenForFits DEF RecordRetryable
  <1>2. CASE delay = 0 /\ b.state = "half_open"
    <2>1. Released(b) \in Breaker /\ ~Released(b).probe
      BY DEF Released, Breaker
    <2> QED BY <1>2, <2>1, OpenFits DEF RecordRetryable
  <1>3. CASE delay = 0 /\ b.state # "half_open" /\ b.failures + 1 >= FailureThreshold
    BY <1>3, CountedFits, OpenFits DEF RecordRetryable
  <1>4. CASE delay = 0 /\ b.state # "half_open" /\ ~(b.failures + 1 >= FailureThreshold)
    <2>1. WellFormed(counted)
      BY <1>4, CountedFits, BreakerAssumption DEF WellFormed, Breaker, AtMost
    <2> QED BY <1>4, <2>1, CountedFits DEF RecordRetryable
  <1> QED BY <1>1, <1>2, <1>3, <1>4 DEF Breaker

LEMMA CooledFits ==
  ASSUME NEW b \in Breaker, WellFormed(b)
  PROVE  Cooled(b) \in Breaker /\ WellFormed(Cooled(b))
  BY DEF Cooled, Breaker, WellFormed

-----------------------------------------------------------------------------
(***************************************************************************)
(* The types                                                               *)
(***************************************************************************)
AtCandidate ==
  \A c \in Clients : pc[c] \in {"try", "calling", "sleeping"} => HasCandidate(c)

TypeInv ==
  /\ TypeOK
  /\ LeasedInside
  /\ AtCandidate
  /\ BreakersWellFormed

-----------------------------------------------------------------------------
LEMMA RemoveFirstType ==
  ASSUME NEW S, NEW s \in Seq(S), NEW e
  PROVE  RemoveFirst(s, e) \in Seq(S)
  <1> DEFINE I == {i \in 1..Len(s) : s[i] = e}
  <1>1. CASE I = {}
    BY <1>1 DEF RemoveFirst
  <1>2. CASE I # {}
    <2>0. I \in SUBSET Nat
      OBVIOUS
    <2>1. PICK n \in I : \A m \in I : n <= m
      <3> HIDE DEF I
      <3>1. PICK n \in I : \A m \in I : <<m, n>> \notin OpToRel(<, Nat)
        BY <1>2, <2>0, WFMin, NatLessThanWellFounded
      <3>2. \A m \in I : ~(m < n)
        BY <2>0, <3>1 DEF OpToRel
      <3> QED BY <2>0, <3>2
    <2>2. Min(I) \in I
      BY <2>1 DEF Min
    <2>3. RemoveFirst(s, e) = RemoveAt(s, Min(I))
      BY <1>2 DEF RemoveFirst, SelectInSeq
    <2>4. PICK i \in 1..Len(s) : i = Min(I)
      BY <2>2
    <2>5. RemoveAt(s, i) \in Seq(S)
      BY DEF RemoveAt
    <2> QED BY <2>3, <2>4, <2>5
  <1> QED BY <1>1, <1>2

LEMMA CandidateIdsType ==
  ASSUME NEW cfg \in Configs, NEW sel \in Selections, ~Refuses(cfg, sel)
  PROVE  CandidateIds(cfg, sel) \in Seq(Profiles)
  <1>1. /\ cfg.default \in Profiles \cup {None}
        /\ cfg.fallbacks \in Seq(Profiles)
        /\ cfg.enabled \subseteq Profiles
    BY RouterAssumption
  <1>2. cfg.default \in Profiles
    BY <1>1 DEF Refuses
  <1>3. sel.manual => sel.preferred \in Profiles
    BY <1>1 DEF Refuses
  <1>4. Primary(cfg, sel) \in Profiles
    BY <1>2, <1>3 DEF Primary
  <1>5. <<cfg.default>> \o cfg.fallbacks \in Seq(Profiles)
    BY <1>1, <1>2
  <1>6. RemoveFirst(<<cfg.default>> \o cfg.fallbacks, Primary(cfg, sel)) \in Seq(Profiles)
    BY <1>5, RemoveFirstType
  <1> QED BY <1>4, <1>6 DEF CandidateIds

LEMMA NewTaskType ==
  ASSUME NEW sel \in Selections, NEW streaming \in BOOLEAN
  PROVE  NewTask(sel, streaming) \in Task
  BY DEF NewTask, Task

LEMMA NoTaskType == NoTask \in Task
  BY NewTaskType, RouterAssumption DEF NoTask

LEMMA CandidateType ==
  ASSUME TypeOK, NEW c \in Clients, HasCandidate(c)
  PROVE  Candidate(c) \in Profiles
  <1>1. task[c].cands \in Seq(Profiles)
    BY DEF TypeOK, Task
  <1> QED BY <1>1 DEF Candidate, HasCandidate

\* the breaker a request inside a snapshot is about to use
LEMMA BreakerOfFits ==
  ASSUME TypeInv, NEW c \in Clients, pc[c] \in Inside, HasCandidate(c)
  PROVE  BreakerOf(c) \in Breaker /\ WellFormed(BreakerOf(c))
  <1>1. lease[c] \in Snapshots
    BY DEF TypeInv, TypeOK, LeasedInside
  <1> QED BY <1>1, CandidateType DEF TypeInv, TypeOK, BreakersWellFormed, BreakerOf

BreakersFit ==
  breaker \in [Snapshots -> [Profiles -> Breaker]] /\ BreakersWellFormed

\* writing back a breaker that fits leaves breakers that fit
LEMMA SetBreakerFits ==
  ASSUME TypeInv, NEW c \in Clients, NEW b \in Breaker, WellFormed(b),
         SetBreaker(c, b)
  PROVE  BreakersFit'
  BY DEF TypeInv, TypeOK, BreakersWellFormed, BreakersFit, SetBreaker

-----------------------------------------------------------------------------
\* what a step owes besides the leases and the breakers
RestFits ==
  /\ config \in [Snapshots -> Configs]
  /\ attention \in [Snapshots -> SUBSET Profiles]
  /\ queue \in Seq(Clients)
  /\ loop \in Clients \cup {None}
  /\ task \in [Clients -> Task]
  /\ AtCandidate

LEMMA FinishFits ==
  ASSUME TypeInv, NEW c \in Clients, Finish(c),
         attention' \in [Snapshots -> SUBSET Profiles]
  PROVE  RestFits'
  BY NoTaskType
  DEF TypeInv, TypeOK, Finish, RestFits, AtCandidate, HasCandidate

LEMMA MovedOnType ==
  ASSUME NEW t \in Task
  PROVE  [t EXCEPT !.next = @ + 1, !.emitted = FALSE] \in Task
  <1>1. t.next + 1 \in Nat
    BY DEF Task
  <1> QED BY <1>1 DEF Task

LEMMA NextCandidateFits ==
  ASSUME TypeInv, NEW c \in Clients, NextCandidate(c),
         attention' \in [Snapshots -> SUBSET Profiles]
  PROVE  RestFits'
  <1>0. task[c] \in Task
    BY DEF TypeInv, TypeOK
  <1>1. [task[c] EXCEPT !.next = @ + 1, !.emitted = FALSE] \in Task
    BY <1>0, MovedOnType
  <1>2. task' \in [Clients -> Task]
    BY <1>1 DEF TypeInv, TypeOK, NextCandidate
  <1>3. AtCandidate'
    BY DEF TypeInv, TypeOK, NextCandidate, AtCandidate, HasCandidate
  <1> QED BY <1>2, <1>3 DEF TypeInv, TypeOK, NextCandidate, RestFits, snapshotVars

\* changing locals of one request, wherever it goes from there
LEMMA TaskFits ==
  ASSUME TypeInv, NEW c \in Clients, NEW t \in Task,
         task' = [task EXCEPT ![c] = t]
  PROVE  task' \in [Clients -> Task]
  BY DEF TypeInv, TypeOK

LEMMA ClientStepFits ==
  ASSUME TypeInv, NEW c \in Clients, ClientStep(c)
  PROVE  RestFits' /\ BreakersFit'
  <1> USE DEF Inside
  <1>0. task[c] \in Task /\ task \in [Clients -> Task]
    BY DEF TypeInv, TypeOK
  <1>1. CASE Send(c)
    <2>1. RestFits'
      BY <1>1, NewTaskType
      DEF Send, TypeInv, TypeOK, RestFits, AtCandidate, HasCandidate,
          snapshotVars, profileVars
    <2> QED BY <1>1, <2>1
        DEF Send, TypeInv, TypeOK, BreakersFit, BreakersWellFormed, profileVars
  <1>2. CASE Acquire(c)
    <2>1. queue' \in Seq(Clients)
      BY <1>2 DEF Acquire, TypeInv, TypeOK
    <2>2. BreakersFit'
      BY <1>2 DEF Acquire, TypeInv, TypeOK, BreakersFit, BreakersWellFormed, profileVars
    <2>3. CASE Refuses(config[current], task[c].selection)
      BY <1>2, <2>1, <2>2, <2>3, NoTaskType
      DEF Acquire, TypeInv, TypeOK, RestFits, AtCandidate, HasCandidate, profileVars
    <2>4. CASE ~Refuses(config[current], task[c].selection)
      <3> DEFINE ids == CandidateIds(config[current], task[c].selection)
      <3>1. ids \in Seq(Profiles)
        BY <1>0, <2>4, CandidateIdsType DEF TypeInv, TypeOK, Task
      <3>2. [task[c] EXCEPT !.cands = ids, !.deadline = Timeout] \in Task
        <4> HIDE DEF ids
        <4> QED BY <1>0, <3>1, RouterAssumption DEF Task
      <3>3. task' = [task EXCEPT ![c] = [task[c] EXCEPT !.cands = ids, !.deadline = Timeout]]
        BY <1>0, <1>2, <2>4 DEF Acquire
      <3>4. task' \in [Clients -> Task]
        BY <3>2, <3>3, TaskFits
      <3>5. AtCandidate'
        BY <1>0, <1>2, <2>4, <3>3 DEF Acquire, TypeInv, TypeOK, AtCandidate, HasCandidate
      <3> QED
        BY <1>2, <2>1, <2>2, <2>4, <3>4, <3>5
        DEF Acquire, TypeInv, TypeOK, RestFits, profileVars
    <2> QED BY <2>3, <2>4
  <1>3. CASE Exhausted(c) \/ Cancel(c)
    <2>1. Finish(c) /\ UNCHANGED profileVars
      BY <1>3 DEF Exhausted, Cancel
    <2> QED BY <2>1, FinishFits
        DEF TypeInv, TypeOK, BreakersFit, BreakersWellFormed, profileVars
  <1>4. CASE SkipDisabled(c) \/ Rejected(c) \/ EmptyStream(c)
    <2>1. NextCandidate(c) /\ UNCHANGED profileVars
      BY <1>4 DEF SkipDisabled, Rejected, EmptyStream
    <2> QED BY <2>1, NextCandidateFits
        DEF TypeInv, TypeOK, BreakersFit, BreakersWellFormed, profileVars
  <1>5. CASE MeetAttention(c)
    <2>1. (Finish(c) \/ NextCandidate(c)) /\ UNCHANGED profileVars
      BY <1>5 DEF MeetAttention
    <2> QED BY <2>1, FinishFits, NextCandidateFits
        DEF TypeInv, TypeOK, BreakersFit, BreakersWellFormed, profileVars
  <1>6. CASE OverBudget(c)
    <2>1. HasCandidate(c)
      BY <1>6 DEF OverBudget, TypeInv, AtCandidate
    <2>2. BreakersFit'
      BY <1>6, <2>1, BreakerOfFits, AdmitFits, SetBreakerFits DEF OverBudget
    <2> QED BY <1>6, <2>2, NextCandidateFits DEF OverBudget, TypeInv, TypeOK
  <1>7. CASE Take(c) \/ Wake(c)
    <2>1. BreakersFit'
      BY <1>7
      DEF Take, Wake, TypeInv, TypeOK, BreakersFit, BreakersWellFormed, profileVars
    <2>2. [task[c] EXCEPT !.slept = FALSE] \in Task
      BY <1>0 DEF Task
    <2>3. task' \in [Clients -> Task]
      BY <1>0, <1>7, <2>2 DEF Take, Wake
    <2>4. AtCandidate'
      <3>1. \A d \in Clients : /\ task'[d].cands = task[d].cands
                               /\ task'[d].next = task[d].next
        <4>1. \/ task' = task
              \/ task' = [task EXCEPT ![c] = [task[c] EXCEPT !.slept = FALSE]]
          BY <1>0, <1>7 DEF Take, Wake
        <4> DEFINE t == [task[c] EXCEPT !.slept = FALSE]
        <4>2. t.cands = task[c].cands /\ t.next = task[c].next
          BY <1>0 DEF Task
        <4> HIDE DEF t
        <4>3. task' = task \/ task' = [task EXCEPT ![c] = t]
          BY <4>1 DEF t
        <4> QED BY <1>0, <4>2, <4>3
      <3>2. HasCandidate(c)
        BY <1>7 DEF Take, Wake, TypeInv, AtCandidate
      <3>3. pc' = [pc EXCEPT ![c] = "try"]
        BY <1>7 DEF Take, Wake
      <3> QED BY <3>1, <3>2, <3>3 DEF TypeInv, TypeOK, AtCandidate, HasCandidate
    <2> QED
      BY <1>7, <2>1, <2>3, <2>4
      DEF Take, Wake, TypeInv, TypeOK, RestFits, snapshotVars, profileVars
  <1>8. CASE Call(c)
    <2>1. HasCandidate(c) /\ Candidate(c) \in Profiles
      BY <1>8, CandidateType DEF Call, TypeInv, AtCandidate
    <2>2. BreakersFit'
      BY <1>8, <2>1, BreakerOfFits, AdmitFits, SetBreakerFits DEF Call
    <2>3. /\ task[c].attempts + 1 \in Nat
          /\ task[c].used \cup {Candidate(c)} \in SUBSET Profiles
      BY <1>0, <2>1 DEF Task
    <2> DEFINE t == [task[c] EXCEPT !.attempts = @ + 1,
                                    !.used = @ \cup {Candidate(c)},
                                    !.emitted = FALSE]
    <2>4. t \in Task
      BY <1>0, <2>3 DEF Task
    <2>5. task' = [task EXCEPT ![c] = t]
      BY <1>0, <1>8 DEF Call
    <2>6. task' \in [Clients -> Task]
      BY <2>4, <2>5, TaskFits
    <2>7. AtCandidate'
      BY <1>0, <1>8, <2>1, <2>5 DEF Call, TypeInv, TypeOK, AtCandidate, HasCandidate
    <2> QED
      BY <1>8, <2>2, <2>6, <2>7
      DEF Call, TypeInv, TypeOK, RestFits, snapshotVars
  <1>9. CASE Delta(c)
    <2>1. BreakersFit'
      BY <1>9
      DEF Delta, TypeInv, TypeOK, BreakersFit, BreakersWellFormed, profileVars
    <2>2. [task[c] EXCEPT !.emitted = TRUE] \in Task
      BY <1>0 DEF Task
    <2>3. task' \in [Clients -> Task]
      BY <1>0, <1>9, <2>2 DEF Delta
    <2>4. AtCandidate'
      BY <1>0, <1>9 DEF Delta, TypeInv, TypeOK, AtCandidate, HasCandidate
    <2> QED
      BY <1>9, <2>1, <2>3, <2>4
      DEF Delta, TypeInv, TypeOK, RestFits, snapshotVars, profileVars
  <1>10. CASE Succeed(c)
    <2>1. BreakersFit'
      BY <1>10, NewBreakerFits, SetBreakerFits DEF Succeed, RecordSuccess
    <2>2. attention' \in [Snapshots -> SUBSET Profiles]
      BY <1>10 DEF Succeed, TypeInv, TypeOK
    <2> QED BY <1>10, <2>1, <2>2, FinishFits DEF Succeed
  <1>11. CASE FailTerminal(c)
    <2>1. HasCandidate(c) /\ Candidate(c) \in Profiles
      BY <1>11, CandidateType DEF FailTerminal, TypeInv, AtCandidate
    <2>2. BreakersFit'
      BY <1>11, <2>1, BreakerOfFits, TerminalFits, SetBreakerFits DEF FailTerminal
    <2>3. attention' \in [Snapshots -> SUBSET Profiles]
      <3>1. \/ attention' = attention
            \/ attention' = [attention EXCEPT ![lease[c]] = @ \cup {Candidate(c)}]
        BY <1>11 DEF FailTerminal
      <3>2. attention \in [Snapshots -> SUBSET Profiles]
        BY DEF TypeInv, TypeOK
      <3>3. \A P \in SUBSET Profiles : P \cup {Candidate(c)} \in SUBSET Profiles
        BY <2>1
      <3> QED BY <3>1, <3>2, <3>3
    <2> QED BY <1>11, <2>2, <2>3, FinishFits DEF FailTerminal
  <1>12. ASSUME NEW delay \in Delays, FailRetryable(c, delay)
         PROVE  RestFits' /\ BreakersFit'
    <2>1. delay \in Nat
      BY RouterAssumption
    <2>2. HasCandidate(c)
      BY <1>12 DEF FailRetryable, TypeInv, AtCandidate
    <2>3. BreakersFit'
      BY <1>12, <2>1, <2>2, BreakerOfFits, RetryableFits, SetBreakerFits
      DEF FailRetryable
    <2>4. attention' \in [Snapshots -> SUBSET Profiles]
      BY <1>12 DEF FailRetryable, TypeInv, TypeOK
    <2> DEFINE t == [task[c] EXCEPT !.slept = TRUE, !.sleep = delay]
    <2>5. CASE /\ pc' = [pc EXCEPT ![c] = "sleeping"]
               /\ task' = [task EXCEPT ![c] = [@ EXCEPT !.slept = TRUE, !.sleep = delay]]
               /\ UNCHANGED <<snapshotVars, queue, loop, lease>>
      <3>1. t \in Task
        BY <1>0, <2>1 DEF Task
      <3>2. task' = [task EXCEPT ![c] = t]
        BY <1>0, <2>5
      <3>3. task' \in [Clients -> Task]
        BY <3>1, <3>2, TaskFits
      <3>4. AtCandidate'
        BY <1>0, <2>2, <2>5, <3>2 DEF TypeInv, TypeOK, AtCandidate, HasCandidate
      <3> QED
        BY <2>3, <2>4, <2>5, <3>3, <3>4 DEF TypeInv, TypeOK, RestFits, snapshotVars
    <2> QED BY <1>12, <2>3, <2>4, <2>5, FinishFits, NextCandidateFits DEF FailRetryable
  <1>13. CASE CancelWaiting(c)
    <2>1. queue' \in Seq(Clients)
      BY <1>13, RemoveFirstType DEF CancelWaiting, TypeInv, TypeOK
    <2> QED
      BY <1>13, <2>1, NoTaskType
      DEF CancelWaiting, TypeInv, TypeOK, RestFits, AtCandidate, HasCandidate,
          BreakersFit, BreakersWellFormed, snapshotVars, profileVars
  <1> QED
    BY <1>1, <1>2, <1>3, <1>4, <1>5, <1>6, <1>7, <1>8, <1>9, <1>10, <1>11, <1>12, <1>13
    DEF ClientStep, Choose, Try, Answer

LEMMA SwapFits ==
  ASSUME TypeInv, NEW s \in Snapshots, NEW cfg \in Configs, Swap(s, cfg)
  PROVE  RestFits' /\ BreakersFit'
  <1>1. RestFits'
    BY DEF Swap, TypeInv, TypeOK, RestFits, AtCandidate, HasCandidate
  <1> QED
    BY <1>1, NewBreakerFits
    DEF Swap, TypeInv, TypeOK, BreakersFit, BreakersWellFormed

LEMMA TickFits ==
  ASSUME TypeInv, Tick
  PROVE  RestFits' /\ BreakersFit'
  <1>1. BreakersFit'
    BY CooledFits DEF Tick, TypeInv, TypeOK, BreakersFit, BreakersWellFormed
  <1>2. \A n \in Nat : CountDown(n) \in Nat
    BY DEF CountDown
  <1>3. ASSUME NEW t \in Task
        PROVE  [t EXCEPT !.deadline = CountDown(@), !.sleep = CountDown(@)] \in Task
    <2>1. CountDown(t.deadline) \in Nat /\ CountDown(t.sleep) \in Nat
      BY <1>2 DEF Task
    <2> QED BY <2>1 DEF Task
  <1>4. task' \in [Clients -> Task]
    BY <1>3 DEF Tick, TypeInv, TypeOK
  <1>5. \A c \in Clients : task'[c].cands = task[c].cands /\ task'[c].next = task[c].next
    BY DEF Tick, TypeInv, TypeOK, Task
  <1>6. AtCandidate'
    BY <1>5 DEF Tick, TypeInv, AtCandidate, HasCandidate
  <1> QED BY <1>1, <1>4, <1>6 DEF Tick, TypeInv, TypeOK, RestFits, snapshotVars

-----------------------------------------------------------------------------
LEMMA InitTypeInv == Init => TypeInv
  <1> SUFFICES ASSUME Init PROVE TypeInv
    OBVIOUS
  <1>1. TypeOK
    BY RouterAssumption, NewBreakerFits, NoTaskType DEF Init, TypeOK, PCs
  <1>2. LeasedInside /\ AtCandidate
    BY DEF Init, LeasedInside, Inside, AtCandidate
  <1>3. BreakersWellFormed
    BY NewBreakerFits DEF Init, BreakersWellFormed
  <1> QED BY <1>1, <1>2, <1>3 DEF TypeInv

LEMMA NextTypeInv == TypeInv /\ LeaseInv /\ LeaseInv' /\ [Next]_vars => TypeInv'
  <1> SUFFICES ASSUME TypeInv, LeaseInv, LeaseInv', [Next]_vars PROVE TypeInv'
    OBVIOUS
  <1>0. disturbed' \subseteq Clients
    <2>1. UNCHANGED disturbed \/ \E c \in Clients : \E b : SetBreaker(c, b)
      BY DEF Next, ClientStep, Send, Acquire, Choose, Exhausted, SkipDisabled,
             MeetAttention, Take, Try, Rejected, OverBudget, Call, Delta, Answer,
             Succeed, EmptyStream, FailTerminal, FailRetryable, Wake,
             CancelWaiting, Cancel, ApplySnapshot, Close, Swap, Tick, vars,
             profileVars
    <2> QED BY <2>1 DEF TypeInv, TypeOK, SetBreaker, Sleepers
  <1>1. RestFits' /\ BreakersFit'
    <2>1. CASE UNCHANGED vars
      BY <2>1
      DEF TypeInv, TypeOK, RestFits, BreakersFit, BreakersWellFormed, AtCandidate,
          HasCandidate, vars
    <2> QED
      BY <2>1, ClientStepFits, SwapFits, TickFits, RouterAssumption
      DEF Next, ApplySnapshot, Close
  <1>2. LeaseTypes' /\ LeasedInside'
    BY DEF LeaseInv
  <1> QED BY <1>0, <1>1, <1>2 DEF TypeInv, TypeOK, LeaseTypes, RestFits, BreakersFit

LEMMA TypeInvariant == Spec => []TypeInv
  BY InitTypeInv, NextTypeInv, LeaseInvariant, PTL DEF Spec

\* Every variable keeps its shape, whatever is selected, applied and answered.
THEOREM TypeCorrect == Spec => []TypeOK
  BY TypeInvariant, PTL DEF TypeInv

\* A closed breaker is below its threshold and a probe is out only while the
\* breaker is half open, for any number of requests and any late answer.
THEOREM BreakersStayWellFormed == Spec => []BreakersWellFormed
  BY TypeInvariant, PTL DEF TypeInv

-----------------------------------------------------------------------------
(***************************************************************************)
(* Calls: an attempt that has yielded text is being answered, so only an   *)
(* answer or a cancellation moves its request on, and none of them takes   *)
(* the next candidate.                                                     *)
(***************************************************************************)
EmittedCalls == \A c \in Clients : task[c].emitted => pc[c] = "calling"

\* the request of d has text of the profile at hand and stays with it
Stays(d) ==
  \/ pc'[d] = "idle"
  \/ pc'[d] = "calling" /\ task'[d].cands = task[d].cands /\ task'[d].next = task[d].next

\* what a step owes a request: text is only out during a call, and the profile
\* that yielded text is kept
Keeping(d) ==
  /\ task'[d].emitted => pc'[d] = "calling"
  /\ task[d].emitted => Stays(d)

LEMMA FinishCalls ==
  ASSUME TypeOK, NEW c \in Clients, Finish(c), NEW d \in Clients, EmittedCalls
  PROVE  Keeping(d)
  <1>1. ~NoTask.emitted
    BY DEF NoTask, NewTask
  <1>2. CASE d = c
    BY <1>1, <1>2 DEF TypeOK, Finish, Keeping, Stays
  <1>3. CASE d # c
    BY <1>3 DEF TypeOK, Finish, Keeping, Stays, EmittedCalls
  <1> QED BY <1>2, <1>3

LEMMA NextCandidateCalls ==
  ASSUME TypeOK, NEW c \in Clients, NextCandidate(c), ~task[c].emitted,
         NEW d \in Clients, EmittedCalls
  PROVE  Keeping(d)
  <1>1. CASE d = c
    BY <1>1 DEF TypeOK, Task, NextCandidate, Keeping
  <1>2. CASE d # c
    BY <1>2 DEF TypeOK, NextCandidate, Keeping, Stays, EmittedCalls
  <1> QED BY <1>1, <1>2

\* a step that leaves pc and locals of the other requests alone
LEMMA OthersCalls ==
  ASSUME TypeOK, NEW c \in Clients, NEW t, NEW p, EmittedCalls,
         task' = [task EXCEPT ![c] = t], pc' = [pc EXCEPT ![c] = p],
         NEW d \in Clients, d # c
  PROVE  Keeping(d)
  BY DEF TypeOK, Keeping, Stays, EmittedCalls

LEMMA ClientStepCalls ==
  ASSUME TypeInv, EmittedCalls, NEW c \in Clients, ClientStep(c), NEW d \in Clients
  PROVE  Keeping(d)
  <1>0. TypeOK /\ task[c] \in Task /\ (pc[c] # "calling" => ~task[c].emitted)
    BY DEF TypeInv, TypeOK, EmittedCalls
  <1>1. CASE Send(c) \/ CancelWaiting(c)
    <2>1. PICK t : t.emitted = FALSE /\ task' = [task EXCEPT ![c] = t]
      <3>1. \A sel, streaming : NewTask(sel, streaming).emitted = FALSE
        BY DEF NewTask
      <3> QED BY <1>1, <3>1 DEF Send, CancelWaiting, NoTask
    <2>2. PICK p : p \in {"waiting", "idle"} /\ pc' = [pc EXCEPT ![c] = p]
      BY <1>1 DEF Send, CancelWaiting
    <2>3. ~task[c].emitted
      BY <1>0, <1>1 DEF Send, CancelWaiting
    <2>4. CASE d = c
      BY <1>0, <2>1, <2>2, <2>3, <2>4 DEF TypeOK, Keeping
    <2> QED BY <1>0, <2>1, <2>2, <2>4, OthersCalls
  <1>2. CASE Acquire(c)
    <2> DEFINE ids == CandidateIds(config[current], task[c].selection)
    <2>1. PICK t : t.emitted = FALSE /\ task' = [task EXCEPT ![c] = t]
      <3>1. NoTask.emitted = FALSE
        BY DEF NoTask, NewTask
      <3>2. [task[c] EXCEPT !.cands = ids, !.deadline = Timeout].emitted = FALSE
        BY <1>0, <1>2 DEF Acquire, Task
      <3> QED BY <1>2, <3>1, <3>2 DEF Acquire
    <2>2. PICK p : p \in {"idle", "choose"} /\ pc' = [pc EXCEPT ![c] = p]
      BY <1>2 DEF Acquire
    <2>3. ~task[c].emitted
      BY <1>0, <1>2 DEF Acquire
    <2>4. CASE d = c
      BY <1>0, <2>1, <2>2, <2>3, <2>4 DEF TypeOK, Keeping
    <2> QED BY <1>0, <2>1, <2>2, <2>4, OthersCalls
  <1>3. CASE Exhausted(c) \/ Succeed(c) \/ FailTerminal(c) \/ Cancel(c)
    BY <1>0, <1>3, FinishCalls DEF Exhausted, Succeed, FailTerminal, Cancel
  <1>4. CASE SkipDisabled(c) \/ Rejected(c) \/ OverBudget(c) \/ EmptyStream(c)
    <2>1. ~task[c].emitted
      BY <1>0, <1>4 DEF SkipDisabled, Rejected, OverBudget, EmptyStream
    <2> QED BY <1>0, <1>4, <2>1, NextCandidateCalls
        DEF SkipDisabled, Rejected, OverBudget, EmptyStream
  <1>5. CASE MeetAttention(c)
    <2>1. ~task[c].emitted
      BY <1>0, <1>5 DEF MeetAttention
    <2> QED BY <1>0, <1>5, <2>1, FinishCalls, NextCandidateCalls DEF MeetAttention
  <1>6. CASE Take(c) \/ Wake(c)
    <2>1. ~task[c].emitted
      BY <1>0, <1>6 DEF Take, Wake
    <2>2. PICK t : t.emitted = FALSE /\ task' = [task EXCEPT ![c] = t]
      <3>1. [task[c] EXCEPT !.slept = FALSE].emitted = FALSE
        BY <1>0, <2>1 DEF Task
      <3>2. task[c].emitted = FALSE /\ task = [task EXCEPT ![c] = task[c]]
        BY <1>0, <2>1 DEF TypeOK, Task
      <3> QED BY <1>6, <3>1, <3>2 DEF Take, Wake
    <2>3. pc' = [pc EXCEPT ![c] = "try"]
      BY <1>6 DEF Take, Wake
    <2>4. CASE d = c
      BY <1>0, <2>1, <2>2, <2>3, <2>4 DEF TypeOK, Keeping
    <2> QED BY <1>0, <2>2, <2>3, <2>4, OthersCalls
  <1>7. CASE Call(c)
    <2>1. ~task[c].emitted /\ pc' = [pc EXCEPT ![c] = "calling"]
      BY <1>0, <1>7 DEF Call
    <2>2. PICK t : task' = [task EXCEPT ![c] = t]
      BY <1>7 DEF Call
    <2>3. CASE d = c
      BY <1>0, <2>1, <2>2, <2>3 DEF TypeOK, Keeping
    <2> QED BY <1>0, <2>1, <2>2, <2>3, OthersCalls
  <1>8. CASE Delta(c)
    <2>1. task' = [task EXCEPT ![c] = [task[c] EXCEPT !.emitted = TRUE]]
      BY <1>8 DEF Delta
    <2>2. pc' = pc /\ pc[c] = "calling"
      BY <1>8 DEF Delta
    <2>3. CASE d = c
      BY <1>0, <2>1, <2>2, <2>3 DEF TypeOK, Task, Keeping, Stays
    <2>4. CASE d # c
      BY <1>0, <2>1, <2>2, <2>4 DEF TypeOK, Keeping, Stays, EmittedCalls
    <2> QED BY <2>3, <2>4
  <1>9. ASSUME NEW delay \in Delays, FailRetryable(c, delay)
        PROVE  Keeping(d)
    <2>1. CASE Finish(c)
      BY <1>0, <2>1, FinishCalls
    <2>2. CASE ~ShowedText(task[c]) /\ NextCandidate(c)
      BY <1>0, <2>2, NextCandidateCalls DEF ShowedText
    <2>3. CASE /\ ~ShowedText(task[c])
               /\ pc' = [pc EXCEPT ![c] = "sleeping"]
               /\ task' = [task EXCEPT ![c] = [@ EXCEPT !.slept = TRUE, !.sleep = delay]]
      <3> DEFINE t == [task[c] EXCEPT !.slept = TRUE, !.sleep = delay]
      <3>1. task' = [task EXCEPT ![c] = t] /\ ~task[c].emitted /\ t.emitted = FALSE
        BY <1>0, <2>3 DEF ShowedText, Task
      <3> HIDE DEF t
      <3>2. CASE d = c
        BY <1>0, <2>3, <3>1, <3>2 DEF TypeOK, Keeping
      <3> QED BY <1>0, <2>3, <3>1, <3>2, OthersCalls
    <2> QED BY <1>9, <2>1, <2>2, <2>3 DEF FailRetryable
  <1> QED
    BY <1>1, <1>2, <1>3, <1>4, <1>5, <1>6, <1>7, <1>8, <1>9
    DEF ClientStep, Choose, Try, Answer

LEMMA StepCalls ==
  ASSUME TypeInv, EmittedCalls, [Next]_vars, NEW d \in Clients
  PROVE  Keeping(d)
  <1>1. CASE UNCHANGED vars \/ \E s \in Snapshots, cfg \in Configs \cup {NoConfig} : Swap(s, cfg)
    BY <1>1 DEF vars, Swap, Keeping, Stays, EmittedCalls
  <1>2. CASE Tick
    <2>1. task[d] \in Task
      BY DEF TypeInv, TypeOK
    <2>2. /\ task'[d].emitted = task[d].emitted
          /\ task'[d].cands = task[d].cands
          /\ task'[d].next = task[d].next
      BY <1>2, <2>1 DEF Tick, Task
    <2> QED BY <1>2, <2>2 DEF Tick, Keeping, Stays, EmittedCalls
  <1> QED BY <1>1, <1>2, ClientStepCalls DEF Next, ApplySnapshot, Close

LEMMA CallInvariant == Spec => []EmittedCalls
  <1>1. Init => EmittedCalls
    BY DEF Init, EmittedCalls, NoTask, NewTask
  <1>2. TypeInv /\ EmittedCalls /\ [Next]_vars => EmittedCalls'
    BY StepCalls DEF EmittedCalls, Keeping
  <1> QED BY <1>1, <1>2, TypeInvariant, PTL DEF Spec

\* Text of two models is never spliced into one answer, for any number of
\* candidates and any order of errors, waits and cancellations: every step that
\* takes the next candidate or waits is one of an attempt without text.
THEOREM TextIsNeverSpliced == Spec => NoSplice
  <1>1. TypeInv /\ EmittedCalls /\ [Next]_vars =>
          [\A c \in Clients : task[c].emitted =>
             \/ pc'[c] = "idle"
             \/ pc'[c] = "calling" /\ Candidate(c)' = Candidate(c)]_vars
    BY StepCalls DEF Keeping, Stays, Candidate
  <1> QED BY <1>1, TypeInvariant, CallInvariant, PTL DEF Spec, NoSplice

-----------------------------------------------------------------------------
(***************************************************************************)
(* Retry-After: what a request that sleeps, or has just woken, may rely on *)
(***************************************************************************)
Retrying(d) == pc[d] = "try" /\ task[d].slept

\* the breaker of d is open for no longer than d sleeps
CooledInTime(d) ==
  /\ BreakerOf(d).state = "open"
  /\ BreakerOf(d).left <= task[d].sleep

\* Between awaits a request holds the loop; a profile that is called is in the
\* budget; and whoever sleeps has an attempt left and, unless disturbed, a
\* breaker that cools down in time.
SleptFits(d) ==
  /\ pc[d] \in {"choose", "try"} => loop = d
  /\ pc[d] \in {"calling", "sleeping"} \/ Retrying(d) => Candidate(d) \in task[d].used
  /\ pc[d] = "sleeping" => task[d].slept
  /\ pc[d] = "sleeping" \/ Retrying(d) => /\ task[d].attempts < MaxAttempts
                                          /\ d \notin disturbed => CooledInTime(d)
  /\ Retrying(d) => task[d].sleep = 0

SleptInv == \A d \in Clients : SleptFits(d)

\* A step of a client is taken while the loop is free or its own, writes its own
\* locals and place, and no breaker but the one it has at hand.
LEMMA OwnStep ==
  ASSUME TypeInv, NEW c \in Clients, ClientStep(c), NEW d \in Clients, d # c
  PROVE  /\ loop \in {None, c}
         /\ pc'[d] = pc[d] /\ task'[d] = task[d] /\ lease'[d] = lease[d]
         /\ UNCHANGED <<breaker, disturbed>> \/ \E b : SetBreaker(c, b)
  <1> USE DEF TypeInv, TypeOK
  <1>1. CASE Send(c) \/ Acquire(c) \/ CancelWaiting(c) \/ Wake(c) \/ Delta(c) \/ Take(c)
    BY <1>1 DEF Send, Acquire, CancelWaiting, Wake, Delta, Take, profileVars
  <1>2. CASE Exhausted(c) \/ SkipDisabled(c) \/ MeetAttention(c) \/ Cancel(c)
    BY <1>2
    DEF Exhausted, SkipDisabled, MeetAttention, Cancel, Finish, NextCandidate, profileVars
  <1>3. CASE Rejected(c) \/ OverBudget(c) \/ Call(c)
    BY <1>3 DEF Rejected, OverBudget, Call, NextCandidate, profileVars
  <1>4. CASE Succeed(c) \/ EmptyStream(c) \/ FailTerminal(c)
    BY <1>4 DEF Succeed, EmptyStream, FailTerminal, Finish, NextCandidate, profileVars
  <1>5. CASE \E delay \in Delays : FailRetryable(c, delay)
    BY <1>5 DEF FailRetryable, Finish, NextCandidate
  <1> QED BY <1>1, <1>2, <1>3, <1>4, <1>5 DEF ClientStep, Choose, Try, Answer

\* A step of another request disturbs a sleeper or leaves its breaker alone.
LEMMA OthersSlept ==
  ASSUME TypeInv, NEW c \in Clients, ClientStep(c), NEW d \in Clients, d # c,
         SleptFits(d)
  PROVE  SleptFits(d)'
  <1>1. /\ loop \in {None, c}
        /\ pc'[d] = pc[d] /\ task'[d] = task[d] /\ lease'[d] = lease[d]
        /\ UNCHANGED <<breaker, disturbed>> \/ \E b : SetBreaker(c, b)
    BY OwnStep
  <1>2. pc[d] \notin {"choose", "try"}
    BY <1>1, RouterAssumption DEF SleptFits
  <1>3. Candidate(d)' = Candidate(d)
    BY <1>1 DEF Candidate
  <1>4. ASSUME pc[d] = "sleeping", d \notin disturbed'
        PROVE  d \notin disturbed /\ BreakerOf(d)' = BreakerOf(d)
    <2>1. CASE UNCHANGED <<breaker, disturbed>>
      BY <1>1, <1>3, <1>4, <2>1 DEF BreakerOf
    <2>2. ASSUME NEW b, SetBreaker(c, b)
          PROVE  d \notin disturbed /\ BreakerOf(d)' = BreakerOf(d)
      <3>1. d \notin disturbed /\ (lease[d] # lease[c] \/ Candidate(d) # Candidate(c))
        BY <1>4, <2>2 DEF SetBreaker, Sleepers
      <3>2. breaker'[lease[d]][Candidate(d)] = breaker[lease[d]][Candidate(d)]
        BY <2>2, <3>1 DEF SetBreaker, TypeInv, TypeOK
      <3> QED BY <1>1, <1>3, <3>1, <3>2 DEF BreakerOf
    <2> QED BY <1>1, <2>1, <2>2
  <1> QED BY <1>1, <1>2, <1>3, <1>4 DEF SleptFits, Retrying, CooledInTime

LEMMA RetryableOpens ==
  ASSUME NEW b \in Breaker, NEW delay \in Nat, delay > 0
  PROVE  /\ RecordRetryable(b, delay).state = "open"
         /\ RecordRetryable(b, delay).left <= delay
  <1> DEFINE counted == Counted(Released(b))
             left    == AtMost(delay, LastCooldown)
  <1>1. RecordRetryable(b, delay) = OpenFor(counted, left)
    BY DEF RecordRetryable
  <1>2. left <= delay
    BY BreakerAssumption, CooldownsNonEmpty DEF AtMost, LastCooldown
  <1>3. counted \in Breaker
    BY CountedFits
  <1> HIDE DEF counted, left
  <1>4. OpenFor(counted, left).state = "open" /\ OpenFor(counted, left).left = left
    BY <1>3 DEF OpenFor, Breaker
  <1> QED BY <1>1, <1>2, <1>4

\* Its own step: a request goes to sleep with a breaker it has just opened for
\* no longer, and wakes when the sleep is over.
LEMMA OwnSlept ==
  ASSUME TypeInv, NEW c \in Clients, ClientStep(c), SleptFits(c)
  PROVE  SleptFits(c)'
  <1>0. task[c] \in Task /\ task \in [Clients -> Task] /\ pc \in [Clients -> PCs]
    BY DEF TypeInv, TypeOK
  <1>2. CASE Take(c)
    <2> DEFINE t == [task[c] EXCEPT !.slept = FALSE]
    <2>1. ~t.slept
      BY <1>0 DEF Task
    <2>2. task' = [task EXCEPT ![c] = t] /\ pc'[c] = "try" /\ loop' = c
      BY <1>0, <1>2 DEF Take
    <2> HIDE DEF t
    <2> QED BY <1>0, <2>1, <2>2 DEF SleptFits, Retrying
  <1>3. CASE Call(c)
    <2> DEFINE t == [task[c] EXCEPT !.attempts = @ + 1,
                                    !.used = @ \cup {Candidate(c)},
                                    !.emitted = FALSE]
    <2>1. Candidate(c) \in t.used /\ t.cands = task[c].cands /\ t.next = task[c].next
      BY <1>0 DEF Task
    <2>2. task' = [task EXCEPT ![c] = t] /\ pc'[c] = "calling"
      BY <1>0, <1>3 DEF Call
    <2> HIDE DEF t
    <2>3. task'[c] = t
      BY <1>0, <2>2
    <2>4. Candidate(c)' \in task'[c].used
      BY <2>1, <2>3 DEF Candidate
    <2> QED BY <2>2, <2>4 DEF SleptFits, Retrying
  <1>4. CASE Delta(c)
    <2> DEFINE t == [task[c] EXCEPT !.emitted = TRUE]
    <2>1. t.used = task[c].used /\ t.cands = task[c].cands /\ t.next = task[c].next
      BY <1>0 DEF Task
    <2>2. task' = [task EXCEPT ![c] = t] /\ pc[c] = "calling" /\ pc' = pc
      BY <1>0, <1>4 DEF Delta
    <2> HIDE DEF t
    <2>3. task'[c] = t
      BY <1>0, <2>2
    <2>4. Candidate(c)' \in task'[c].used
      BY <2>1, <2>2, <2>3 DEF Candidate, SleptFits
    <2> QED BY <2>2, <2>4 DEF SleptFits, Retrying
  <1>5. CASE Wake(c)
    <2>1. /\ pc[c] = "sleeping" /\ task[c].sleep = 0 /\ pc'[c] = "try" /\ loop' = c
          /\ UNCHANGED <<task, lease, breaker, disturbed>>
      BY <1>0, <1>5 DEF Wake, profileVars
    <2>2. Candidate(c)' = Candidate(c) /\ BreakerOf(c)' = BreakerOf(c)
      BY <2>1 DEF Candidate, BreakerOf
    <2> QED BY <2>1, <2>2 DEF SleptFits, Retrying, CooledInTime
  <1>6. ASSUME NEW delay \in Delays, FailRetryable(c, delay),
               pc' = [pc EXCEPT ![c] = "sleeping"],
               task' = [task EXCEPT ![c] = [@ EXCEPT !.slept = TRUE, !.sleep = delay]],
               CanRetryAfter(task[c], delay), UNCHANGED lease
        PROVE  SleptFits(c)'
    <2> DEFINE t == [task[c] EXCEPT !.slept = TRUE, !.sleep = delay]
    <2>1. /\ t.used = task[c].used /\ t.cands = task[c].cands /\ t.next = task[c].next
          /\ t.slept /\ t.sleep = delay /\ t.attempts = task[c].attempts
      BY <1>0 DEF Task
    <2>2. task' = [task EXCEPT ![c] = t] /\ pc'[c] = "sleeping" /\ pc[c] = "calling"
      BY <1>0, <1>6 DEF FailRetryable
    <2> HIDE DEF t
    <2>3. task'[c] = t
      BY <1>0, <2>2
    <2>4. Candidate(c)' = Candidate(c) /\ Candidate(c) \in task'[c].used
      BY <2>1, <2>2, <2>3 DEF Candidate, SleptFits
    <2>5. task'[c].attempts < MaxAttempts /\ delay \in Nat /\ delay > 0
      BY <1>6, <2>1, <2>3, RouterAssumption DEF CanRetryAfter
    <2>6. lease[c] \in Snapshots /\ Candidate(c) \in Profiles /\ BreakerOf(c) \in Breaker
      <3>1. HasCandidate(c) /\ lease[c] \in Snapshots
        BY <2>2 DEF TypeInv, TypeOK, AtCandidate, LeasedInside, Inside
      <3>2. Candidate(c) \in Profiles
        BY <3>1, CandidateType DEF TypeInv
      <3> QED BY <2>2, <3>1, <3>2, BreakerOfFits DEF Inside
    <2>7. BreakerOf(c)' = RecordRetryable(BreakerOf(c), delay)
      BY <1>6, <2>4, <2>6 DEF FailRetryable, SetBreaker, BreakerOf, TypeInv, TypeOK
    <2>8. CooledInTime(c)'
      BY <2>1, <2>3, <2>5, <2>6, <2>7, RetryableOpens DEF CooledInTime
    <2> QED BY <2>1, <2>2, <2>3, <2>4, <2>5, <2>8 DEF SleptFits, Retrying
  <1>12. CASE Finish(c) \/ NextCandidate(c)
    <2>1. Finish(c) => pc'[c] = "idle"
      BY <1>0 DEF Finish
    <2>2. NextCandidate(c) => pc' = [pc EXCEPT ![c] = "choose"] /\ loop' = c
      BY DEF NextCandidate
    <2>3. pc'[c] = "idle" \/ (pc'[c] = "choose" /\ loop' = c)
      BY <1>0, <1>12, <2>1, <2>2
    <2> QED BY <2>3 DEF SleptFits, Retrying
  <1>7. CASE \E delay \in Delays : FailRetryable(c, delay)
    <2>1. PICK delay \in Delays : FailRetryable(c, delay)
      BY <1>7
    <2>2. \/ Finish(c) \/ NextCandidate(c)
          \/ /\ CanRetryAfter(task[c], delay)
             /\ pc' = [pc EXCEPT ![c] = "sleeping"]
             /\ task' = [task EXCEPT ![c] = [@ EXCEPT !.slept = TRUE, !.sleep = delay]]
             /\ UNCHANGED <<snapshotVars, queue, loop, lease>>
      BY <2>1, Zenon DEF FailRetryable
    <2> QED BY <1>6, <1>12, <2>1, <2>2
  <1>8. CASE Send(c) \/ Acquire(c) \/ CancelWaiting(c)
    <2>1. pc'[c] \in {"idle", "waiting"} \/ (pc'[c] = "choose" /\ loop' = c)
      BY <1>0, <1>8 DEF Send, Acquire, CancelWaiting
    <2> QED BY <2>1 DEF SleptFits, Retrying
  <1>9. CASE Exhausted(c) \/ SkipDisabled(c) \/ MeetAttention(c) \/ Cancel(c)
    BY <1>9, <1>12 DEF Exhausted, SkipDisabled, MeetAttention, Cancel
  <1>10. CASE Rejected(c) \/ OverBudget(c)
    BY <1>10, <1>12 DEF Rejected, OverBudget
  <1>11. CASE Succeed(c) \/ EmptyStream(c) \/ FailTerminal(c)
    BY <1>11, <1>12 DEF Succeed, EmptyStream, FailTerminal
  <1> QED BY <1>2, <1>3, <1>4, <1>5, <1>7, <1>8, <1>9, <1>10, <1>11
      DEF ClientStep, Choose, Try, Answer

\* Time passes for the cooldown and for the sleeper alike.
LEMMA TickSlept ==
  ASSUME TypeInv, Tick, NEW d \in Clients, SleptFits(d)
  PROVE  SleptFits(d)'
  <1>1. loop = None /\ pc[d] \notin {"choose", "try"} /\ UNCHANGED <<pc, lease, loop, disturbed>>
    BY RouterAssumption DEF Tick, SleptFits
  <1>2. task[d] \in Task
    BY DEF TypeInv, TypeOK
  <1>3. /\ task'[d].used = task[d].used /\ task'[d].slept = task[d].slept
        /\ task'[d].attempts = task[d].attempts
        /\ task'[d].cands = task[d].cands /\ task'[d].next = task[d].next
        /\ task'[d].sleep = CountDown(task[d].sleep)
    BY <1>2 DEF Tick, Task
  <1>4. Candidate(d)' = Candidate(d)
    BY <1>3 DEF Candidate
  <1>5. ASSUME pc[d] = "sleeping", CooledInTime(d)
        PROVE  CooledInTime(d)'
    <2>1. HasCandidate(d) /\ lease[d] \in Snapshots
      BY <1>5 DEF TypeInv, TypeOK, AtCandidate, LeasedInside, Inside
    <2>2. Candidate(d) \in Profiles
      BY <2>1, CandidateType DEF TypeInv
    <2>3. BreakerOf(d) \in Breaker
      BY <1>5, <2>1, BreakerOfFits DEF Inside
    <2>4. BreakerOf(d)' = Cooled(BreakerOf(d))
      BY <1>1, <1>4, <2>1, <2>2 DEF Tick, BreakerOf
    <2>5. /\ Cooled(BreakerOf(d)).state = BreakerOf(d).state
          /\ Cooled(BreakerOf(d)).left = CountDown(BreakerOf(d).left)
      BY <2>3 DEF Cooled, Breaker, CountDown
    <2>6. BreakerOf(d).left \in Nat /\ task[d].sleep \in Nat
      BY <1>2, <2>3 DEF Breaker, Task
    <2> QED BY <1>3, <1>5, <2>4, <2>5, <2>6 DEF CooledInTime, CountDown
  <1> QED BY <1>1, <1>3, <1>4, <1>5 DEF SleptFits, Retrying

\* A snapshot is only put in the place of a closed one, which nobody holds.
LEMMA SwapSlept ==
  ASSUME TypeInv, LeaseInv, NEW s \in Snapshots, NEW cfg, Swap(s, cfg),
         NEW d \in Clients, SleptFits(d)
  PROVE  SleptFits(d)'
  <1>1. /\ loop = None /\ pc[d] \notin {"choose", "try"}
        /\ UNCHANGED <<pc, lease, loop, disturbed, task>>
    BY RouterAssumption DEF Swap, SleptFits
  <1>2. Candidate(d)' = Candidate(d)
    BY <1>1 DEF Candidate
  <1>3. ASSUME pc[d] = "sleeping" PROVE BreakerOf(d)' = BreakerOf(d)
    <2>1. lease[d] # None /\ lease[d] # s
      BY <1>3, CountedIn DEF LeaseInv, LeasedInside, Inside, Swap, ClosedExactly
    <2> QED BY <1>1, <1>2, <2>1 DEF Swap, BreakerOf, TypeInv, TypeOK
  <1> QED BY <1>1, <1>2, <1>3 DEF SleptFits, Retrying, CooledInTime

LEMMA SleptInvariant == Spec => []SleptInv
  <1>1. Init => SleptInv
    BY DEF Init, SleptInv, SleptFits, Retrying
  <1>2. TypeInv /\ LeaseInv /\ SleptInv /\ [Next]_vars => SleptInv'
    <2> SUFFICES ASSUME TypeInv, LeaseInv, SleptInv, [Next]_vars, NEW d \in Clients
                 PROVE  SleptFits(d)'
      BY DEF SleptInv
    <2>1. SleptFits(d)
      BY DEF SleptInv
    <2>2. CASE UNCHANGED vars
      BY <2>1, <2>2 DEF vars, SleptFits, Retrying, CooledInTime, BreakerOf, Candidate
    <2> QED BY <2>1, <2>2, OwnSlept, OthersSlept, TickSlept, SwapSlept
        DEF Next, ApplySnapshot, Close
  <1> QED BY <1>1, <1>2, TypeInvariant, LeaseInvariant, PTL DEF Spec

\* A Retry-After is not waited for in vain, for any cooldowns, delays and budgets
\* and any number of requests: who wakes before its deadline and was not
\* disturbed finds its breaker cooled down and an attempt left, and holds the
\* loop until it calls.
THEOREM RetryIsMade == Spec => SleptIsRetried
  <1>1. TypeInv /\ SleptInv /\ [Next]_vars =>
          [\A c \in Clients :
             /\ pc[c] = "try" /\ pc'[c] # "try"
             /\ task[c].slept /\ task[c].deadline > 0 /\ c \notin disturbed
             => pc'[c] = "calling" /\ Candidate(c)' = Candidate(c)]_vars
    <2> SUFFICES ASSUME TypeInv, SleptInv, Next, NEW c \in Clients,
                        pc[c] = "try", pc'[c] # "try",
                        task[c].slept, task[c].deadline > 0, c \notin disturbed
                 PROVE  pc'[c] = "calling" /\ Candidate(c)' = Candidate(c)
      BY DEF vars
    <2>1. loop = c /\ SleptFits(c) /\ task[c] \in Task
      BY DEF SleptInv, SleptFits, TypeInv, TypeOK
    <2>2. ClientStep(c)
      <3>1. PICK d \in Clients : ClientStep(d)
        BY <2>1, RouterAssumption DEF Next, ApplySnapshot, Close, Swap, Tick
      <3>2. d # c => pc'[c] = pc[c]
        BY <3>1, OwnStep
      <3> QED BY <3>1, <3>2
    <2>3. Rejected(c) \/ OverBudget(c) \/ Call(c)
      <3>1. ~(Send(c) \/ Acquire(c) \/ Delta(c) \/ Wake(c) \/ CancelWaiting(c) \/ Cancel(c))
        BY DEF Send, Acquire, Delta, Wake, CancelWaiting, Cancel
      <3>2. ~(Succeed(c) \/ EmptyStream(c) \/ FailTerminal(c))
        BY DEF Succeed, EmptyStream, FailTerminal
      <3>3. ~(\E delay \in Delays : FailRetryable(c, delay))
        BY DEF FailRetryable
      <3>4. ~(Exhausted(c) \/ SkipDisabled(c) \/ MeetAttention(c) \/ Take(c))
        BY DEF Exhausted, SkipDisabled, MeetAttention, Take
      <3> QED BY <2>2, <3>1, <3>2, <3>3, <3>4 DEF ClientStep, Choose, Try, Answer
    <2>4. Allows(BreakerOf(c))
      <3>1. HasCandidate(c)
        BY DEF TypeInv, AtCandidate
      <3>2. BreakerOf(c) \in Breaker
        BY <3>1, BreakerOfFits DEF Inside
      <3>3. BreakerOf(c).state = "open" /\ BreakerOf(c).left <= 0
        BY <2>1 DEF SleptFits, Retrying, CooledInTime
      <3>4. BreakerOf(c).left \in Nat
        BY <3>2 DEF Breaker
      <3> QED BY <3>3, <3>4 DEF Allows
    <2>5. Consumes(task[c], Candidate(c))
      <3>1. Candidate(c) \in task[c].used /\ task[c].attempts < MaxAttempts
        BY <2>1 DEF SleptFits, Retrying
      <3> QED BY <3>1 DEF Consumes
    <2>6. Call(c)
      BY <2>3, <2>4, <2>5 DEF Rejected, OverBudget
    <2> DEFINE t == [task[c] EXCEPT !.attempts = @ + 1,
                                    !.used = @ \cup {Candidate(c)},
                                    !.emitted = FALSE]
    <2>7. task' = [task EXCEPT ![c] = t] /\ pc'[c] = "calling"
      BY <2>1, <2>6 DEF Call, TypeInv, TypeOK
    <2>8. t.cands = task[c].cands /\ t.next = task[c].next
      BY <2>1 DEF Task
    <2> HIDE DEF t
    <2> QED BY <2>7, <2>8 DEF Candidate, TypeInv, TypeOK
  <1> QED BY <1>1, TypeInvariant, SleptInvariant, PTL DEF Spec, SleptIsRetried
=============================================================================
