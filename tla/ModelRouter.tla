------------------------------ MODULE ModelRouter ------------------------------
(***************************************************************************)
(* The model runtime router (backend/services/model_runtime.py): requests  *)
(* of several coroutines are routed over the profiles of the current       *)
(* snapshot, with an attempt budget, one circuit breaker per profile, one  *)
(* Retry-After wait per profile, and snapshots that are replaced while     *)
(* requests still use the old one.                                         *)
(*                                                                         *)
(* The backend runs these coroutines on one event loop.  `loop' names the  *)
(* coroutine that holds it: between two awaits only that coroutine steps,  *)
(* so what the code does without awaiting is never interleaved, and        *)
(* everything else happens while the loop is free.  _swap_lock is never    *)
(* held across an await, so a critical section is part of a step.          *)
(*                                                                         *)
(* Deadlines, cooldowns and sleeps are countdowns that Tick decrements.  A *)
(* snapshot identifier whose snapshot is closed may be used again.         *)
(***************************************************************************)
EXTENDS CircuitBreaker, FiniteSets, SequencesExt

CONSTANTS
  Clients,        \* coroutines that use the router, one request each at a time
  Profiles,       \* profile identifiers
  Snapshots,      \* identifiers of _RuntimeSnapshot objects
  Configs,        \* the snapshots the desktop may apply
  Selections,     \* the selections a request may carry
  Delays,         \* Retry-After values a service may send; 0 is none
  None,           \* no profile, no client
  MaxAttempts,    \* AttemptBudget.max_attempts
  MaxProfiles,    \* AttemptBudget.max_profiles
  Timeout,        \* request_timeout_seconds of a profile
  Slots           \* concurrent model calls of model_call_slot

NoConfig ==
  [default |-> None, failover |-> TRUE, fallbacks |-> <<>>, enabled |-> {}]

ASSUME RouterAssumption ==
  /\ IsFiniteSet(Clients)
  /\ None \notin Clients \cup Profiles \cup Snapshots
  /\ Snapshots # {} /\ Selections # {}
  /\ Delays \subseteq Nat
  /\ MaxAttempts \in Nat /\ MaxProfiles \in Nat
  /\ Timeout \in Nat \ {0} /\ Slots \in Nat \ {0}
  /\ NoConfig \in Configs
  /\ Configs \subseteq [default   : Profiles \cup {None},
                        failover  : BOOLEAN,
                        fallbacks : Seq(Profiles),
                        enabled   : SUBSET Profiles]
  /\ \A cfg \in Configs :                       \* validate_snapshot
       /\ cfg.default = None => cfg = NoConfig
       /\ cfg # NoConfig => cfg.default \in cfg.enabled
       /\ cfg.default \notin ToSet(cfg.fallbacks)
       /\ IsInjective(cfg.fallbacks)
  /\ Selections \subseteq [manual    : BOOLEAN,
                           preferred : Profiles \cup {None},
                           failover  : {"yes", "no", "default"}]

VARIABLES
  current,    \* self._snapshot
  config,     \* config[s]: snapshot.value
  active,     \* active[s]: snapshot.active_requests
  retired,    \* retired[s]
  closed,     \* closed[s]
  breaker,    \* breaker[s][p]
  attention,  \* attention[s]: the profiles with needs_attention
  disturbed,  \* history: whose breaker another request has changed since they
              \* began to sleep
  queue,      \* clients waiting for a model call slot, first come first served
  loop,       \* the client running on the event loop, or None
  pc,         \* where each client is
  lease,      \* lease[c]: the snapshot the request of c was given, or None
  task        \* task[c]: the local variables of the request of c

snapshotVars == <<current, config, active, retired, closed>>
profileVars  == <<breaker, attention, disturbed>>
vars == <<current, config, active, retired, closed, breaker, attention,
          disturbed, queue, loop, pc, lease, task>>

PCs == {"idle", "waiting", "choose", "try", "calling", "sleeping"}

\* The clients inside `async with self._lease()'; they hold a slot as well
Lessees(s) == {c \in Clients : lease[c] = s}
InSlot     == {c \in Clients : lease[c] # None}

Task ==
  [selection : Selections,
   stream    : BOOLEAN,               \* stream() rather than complete()
   cands     : Seq(Profiles),         \* _candidate_ids
   next      : Nat,                   \* index of the candidate at hand
   attempts  : Nat,                   \* budget.attempts
   used      : SUBSET Profiles,       \* budget.profile_ids
   deadline  : Nat,                   \* time left before budget.deadline
   slept     : BOOLEAN,               \* retry_after_used
   emitted   : BOOLEAN,               \* this attempt has yielded a delta
   sleep     : Nat]                   \* time left to sleep

NewTask(sel, streaming) ==
  [selection |-> sel, stream |-> streaming, cands |-> <<>>, next |-> 1,
   attempts |-> 0, used |-> {}, deadline |-> 0, slept |-> FALSE,
   emitted |-> FALSE, sleep |-> 0]

\* the locals of a client without a request
NoTask == NewTask(CHOOSE sel \in Selections : TRUE, FALSE)

-----------------------------------------------------------------------------
MayFailOver(cfg, sel) ==
  IF sel.failover = "default" THEN cfg.failover ELSE sel.failover = "yes"

Primary(cfg, sel) == IF sel.manual THEN sel.preferred ELSE cfg.default

\* _candidate_ids: the primary, then the default and the fallbacks, each once.
\* The default and the fallbacks are distinct (RouterAssumption), so only the
\* primary can come up again.
CandidateIds(cfg, sel) ==
  LET primary == Primary(cfg, sel)
  IN  IF MayFailOver(cfg, sel)
        THEN <<primary>> \o RemoveFirst(<<cfg.default>> \o cfg.fallbacks, primary)
        ELSE <<primary>>

\* _candidate_ids raises, or the primary is missing
Refuses(cfg, sel) ==
  \/ cfg.default = None
  \/ sel.manual /\ (sel.preferred = None \/ sel.preferred \notin cfg.enabled)

\* AttemptBudget.consume
Consumes(t, p) ==
  /\ t.deadline > 0
  /\ t.attempts < MaxAttempts
  /\ p \in t.used \/ Cardinality(t.used) < MaxProfiles

Candidate(c) == task[c].cands[task[c].next]
HasCandidate(c) == task[c].next \in 1..Len(task[c].cands)

-----------------------------------------------------------------------------
Init ==
  /\ current \in Snapshots
  /\ \E cfg \in Configs :    \* applied at startup, before requests are served
       config = [s \in Snapshots |-> IF s = current THEN cfg ELSE NoConfig]
  /\ active    = [s \in Snapshots |-> 0]
  /\ retired   = [s \in Snapshots |-> s # current]
  /\ closed    = [s \in Snapshots |-> s # current]
  /\ breaker   = [s \in Snapshots |-> [p \in Profiles |-> NewBreaker]]
  /\ attention = [s \in Snapshots |-> {}]
  /\ disturbed = {}
  /\ queue = <<>>
  /\ loop  = None
  /\ pc    = [c \in Clients |-> "idle"]
  /\ lease = [c \in Clients |-> None]
  /\ task  = [c \in Clients |-> NoTask]

\* A coroutine calls complete() or stream() and asks for a model call slot.
Send(c) ==
  /\ loop = None /\ pc[c] = "idle"
  /\ \E sel \in Selections, streaming \in BOOLEAN :
       task' = [task EXCEPT ![c] = NewTask(sel, streaming)]
  /\ pc' = [pc EXCEPT ![c] = "waiting"]
  /\ queue' = Append(queue, c)
  /\ UNCHANGED <<snapshotVars, profileVars, loop, lease>>

\* The first in the queue gets a slot, leases the current snapshot, computes
\* its candidates and its deadline; a selection the snapshot cannot serve
\* gives lease and slot back at once.
Acquire(c) ==
  /\ loop = None /\ pc[c] = "waiting"
  /\ queue # <<>> /\ Head(queue) = c
  /\ Cardinality(InSlot) < Slots
  /\ queue' = Tail(queue)
  /\ LET cfg == config[current]
         sel == task[c].selection
     IN IF Refuses(cfg, sel)
          THEN /\ pc' = [pc EXCEPT ![c] = "idle"]
               /\ task' = [task EXCEPT ![c] = NoTask]
               /\ UNCHANGED <<loop, lease, active>>
          ELSE /\ pc' = [pc EXCEPT ![c] = "choose"]
               /\ loop' = c
               /\ lease' = [lease EXCEPT ![c] = current]
               /\ active' = [active EXCEPT ![current] = @ + 1]
               /\ task' = [task EXCEPT ![c] = [@ EXCEPT !.cands = CandidateIds(cfg, sel),
                                                          !.deadline = Timeout]]
  /\ UNCHANGED <<current, config, retired, closed, profileVars>>

\* active_requests after one request has left snapshot s
Left(s) == [active EXCEPT ![s] = @ - 1]

\* the request that leaves s is the last one, and s was replaced meanwhile
LastOneOut(s) == retired[s] /\ active[s] = 1

\* The request ends: leaving _lease counts it out and closes a retired
\* snapshot nobody uses any more; leaving the slot needs no variable.
Finish(c) ==
  /\ pc' = [pc EXCEPT ![c] = "idle"]
  /\ task' = [task EXCEPT ![c] = NoTask]
  /\ loop' = None
  /\ lease' = [lease EXCEPT ![c] = None]
  /\ active' = Left(lease[c])
  /\ closed' = [closed EXCEPT ![lease[c]] = @ \/ LastOneOut(lease[c])]
  /\ UNCHANGED <<current, config, retired, queue>>

NextCandidate_Same(c) ==
  /\ pc' = [pc EXCEPT ![c] = "choose"]
  /\ loop' = c
  /\ task' = [task EXCEPT ![c].emitted = FALSE]
  /\ UNCHANGED <<snapshotVars, queue, lease>>

\* The request goes on with its next candidate, without awaiting.
NextCandidate(c) ==
  /\ pc' = [pc EXCEPT ![c] = "choose"]
  /\ loop' = c
  /\ task' = [task EXCEPT ![c] = [@ EXCEPT !.next = task[c].next + 1, !.emitted = FALSE]]
  /\ UNCHANGED <<snapshotVars, queue, lease>>

-----------------------------------------------------------------------------
\* The loop over the candidates
Exhausted(c) ==
  /\ loop = c /\ pc[c] = "choose"
  /\ ~HasCandidate(c)
  /\ Finish(c)
  /\ UNCHANGED profileVars

SkipDisabled(c) ==
  /\ loop = c /\ pc[c] = "choose"
  /\ HasCandidate(c)
  /\ Candidate(c) \notin config[lease[c]].enabled
  /\ NextCandidate(c)
  /\ UNCHANGED profileVars

\* A candidate that needs attention is skipped; when it is the first one the
\* request fails.
MeetAttention(c) ==
  /\ loop = c /\ pc[c] = "choose"
  /\ HasCandidate(c)
  /\ Candidate(c) \in config[lease[c]].enabled
  /\ Candidate(c) \in attention[lease[c]]
  /\ IF Candidate(c) = Head(task[c].cands)
       THEN Finish(c) ELSE NextCandidate(c)
  /\ UNCHANGED profileVars

Take(c) ==
  /\ loop = c /\ pc[c] = "choose"
  /\ HasCandidate(c)
  /\ Candidate(c) \in config[lease[c]].enabled
  /\ Candidate(c) \notin attention[lease[c]]
  /\ pc' = [pc EXCEPT ![c] = "try"]
  /\ task' = [task EXCEPT ![c].slept = FALSE]
  /\ UNCHANGED <<snapshotVars, profileVars, queue, loop, lease>>

\* the other requests that sleep over the breaker c has at hand
Sleepers(c) ==
  {d \in Clients \ {c} : /\ pc[d] = "sleeping"
                         /\ lease[d] = lease[c] /\ Candidate(d) = Candidate(c)}

SetBreaker(c, b) ==
  /\ breaker' = [breaker EXCEPT ![lease[c]][Candidate(c)] = b]
  /\ disturbed' = (disturbed \ {c}) \cup Sleepers(c)

BreakerOf(c) == breaker[lease[c]][Candidate(c)]

\* while breaker.allow_request(): no
Rejected(c) ==
  /\ loop = c /\ pc[c] = "try"
  /\ ~Allows(BreakerOf(c))
  /\ NextCandidate(c)
  /\ UNCHANGED profileVars

\* while breaker.allow_request(): yes, but budget.consume() says no.  What
\* allow_request did to the breaker stays.
OverBudget(c) ==
  /\ loop = c /\ pc[c] = "try"
  /\ Allows(BreakerOf(c))
  /\ ~Consumes(task[c], Candidate(c))
  /\ SetBreaker(c, Admit(BreakerOf(c)))
  /\ NextCandidate(c)
  /\ UNCHANGED attention

\* The attempt starts: the gateway is called and awaited.
Call(c) ==
  /\ loop = c /\ pc[c] = "try"
  /\ Allows(BreakerOf(c))
  /\ Consumes(task[c], Candidate(c))
  /\ SetBreaker(c, Admit(BreakerOf(c)))
  /\ pc' = [pc EXCEPT ![c] = "calling"]
  /\ loop' = None
  /\ task' = [task EXCEPT ![c] = [@ EXCEPT !.attempts = task[c].attempts + 1,
                                             !.used = task[c].used \cup {Candidate(c)},
                                             !.emitted = FALSE]]
  /\ UNCHANGED <<snapshotVars, attention, queue, lease>>

-----------------------------------------------------------------------------
\* What the gateway may do with a call

\* the stream yields text; the first piece sets `emitted'
Delta(c) ==
  /\ loop = None /\ pc[c] = "calling"
  /\ task[c].stream /\ ~task[c].emitted
  /\ task' = [task EXCEPT ![c].emitted = TRUE]
  /\ UNCHANGED <<snapshotVars, profileVars, queue, loop, pc, lease>>

Succeed(c) ==
  /\ loop = None /\ pc[c] = "calling"
  /\ task[c].stream => task[c].emitted
  /\ SetBreaker(c, RecordSuccess(BreakerOf(c)))
  /\ attention' = [attention EXCEPT ![lease[c]] = @ \ {Candidate(c)}]
  /\ Finish(c)

\* a stream that ends without any text: the breaker is told nothing
EmptyStream(c) ==
  /\ loop = None /\ pc[c] = "calling"
  /\ task[c].stream /\ ~task[c].emitted
  /\ NextCandidate(c)
  /\ UNCHANGED profileVars

\* an error not worth a retry; an authentication or access error (auth) also
\* marks the profile
FailTerminal(c) ==
  /\ loop = None /\ pc[c] = "calling"
  /\ SetBreaker(c, RecordTerminal(BreakerOf(c)))
  /\ \E auth \in BOOLEAN :
       attention' = IF auth
         THEN [attention EXCEPT ![lease[c]] = @ \cup {Candidate(c)}]
         ELSE attention
  /\ Finish(c)

\* _can_retry_after
CanRetryAfter(t, delay) ==
  /\ ~t.slept /\ delay > 0
  /\ delay < t.deadline
  /\ t.attempts < MaxAttempts

\* the consumer has seen text of this attempt
ShowedText_Never(t) == FALSE
ShowedText(t) == t.emitted

\* a retryable error: after text was shown the request ends as interrupted; a
\* first Retry-After that fits into the deadline is slept; otherwise the next
\* candidate has its turn
FailRetryable(c, delay) ==
  /\ loop = None /\ pc[c] = "calling"
  /\ SetBreaker(c, RecordRetryable(BreakerOf(c), delay))
  /\ \/ /\ ShowedText(task[c])
        /\ Finish(c)
     \/ /\ ~ShowedText(task[c]) /\ CanRetryAfter(task[c], delay)
        /\ pc' = [pc EXCEPT ![c] = "sleeping"]
        /\ task' = [task EXCEPT ![c] = [@ EXCEPT !.slept = TRUE, !.sleep = delay]]
        /\ UNCHANGED <<snapshotVars, queue, loop, lease>>
     \/ /\ ~ShowedText(task[c]) /\ ~CanRetryAfter(task[c], delay)
        /\ NextCandidate(c)
  /\ UNCHANGED attention

Wake(c) ==
  /\ loop = None /\ pc[c] = "sleeping" /\ task[c].sleep = 0
  /\ pc' = [pc EXCEPT ![c] = "try"]
  /\ loop' = c
  /\ UNCHANGED <<snapshotVars, profileVars, queue, lease, task>>

\* The coroutine is cancelled, or the consumer of a stream goes away, while
\* the request awaits its slot, the gateway or the sleep.
CancelWaiting(c) ==
  /\ loop = None /\ pc[c] = "waiting"
  /\ pc' = [pc EXCEPT ![c] = "idle"]
  /\ queue' = RemoveFirst(queue, c)
  /\ task' = [task EXCEPT ![c] = NoTask]
  /\ UNCHANGED <<snapshotVars, profileVars, loop, lease>>

Cancel(c) ==
  /\ loop = None /\ pc[c] \in {"calling", "sleeping"}
  /\ Finish(c)
  /\ UNCHANGED profileVars

-----------------------------------------------------------------------------
\* nobody uses the snapshot that is being replaced
Unused_Assumed(s) == TRUE
Unused(s) == active[s] = 0

\* The swap apply_snapshot and close perform: the old snapshot is retired, and
\* closed at once when no request uses it.
Swap(s, cfg) ==
  /\ loop = None
  /\ s # current /\ closed[s]
  /\ current' = s
  /\ config'  = [config EXCEPT ![s] = cfg]
  /\ active'  = [active EXCEPT ![s] = 0]
  /\ retired' = [retired EXCEPT ![current] = TRUE, ![s] = FALSE]
  /\ closed'  = [closed EXCEPT ![current] = Unused(current), ![s] = FALSE]
  /\ breaker' = [breaker EXCEPT ![s] = [p \in Profiles |-> NewBreaker]]
  /\ attention' = [attention EXCEPT ![s] = {}]
  /\ UNCHANGED <<disturbed, queue, loop, pc, lease, task>>

ApplySnapshot == \E s \in Snapshots, cfg \in Configs : Swap(s, cfg)

Close == \E s \in Snapshots : Swap(s, NoConfig)

CountDown(n) == IF n = 0 THEN 0 ELSE n - 1

Tick ==
  /\ loop = None
  /\ breaker' = [s \in Snapshots |-> [p \in Profiles |-> Cooled(breaker[s][p])]]
  /\ task' = [c \in Clients |-> [task[c] EXCEPT !.deadline = CountDown(@),
                                                !.sleep = CountDown(@)]]
  /\ UNCHANGED <<snapshotVars, attention, disturbed, queue, loop, pc, lease>>

-----------------------------------------------------------------------------
Choose(c) == Exhausted(c) \/ SkipDisabled(c) \/ MeetAttention(c) \/ Take(c)
Try(c)    == Rejected(c) \/ OverBudget(c) \/ Call(c)
Answer(c) == \/ Succeed(c) \/ EmptyStream(c) \/ FailTerminal(c)
             \/ \E delay \in Delays : FailRetryable(c, delay)

ClientStep(c) ==
  \/ Send(c) \/ Acquire(c) \/ Choose(c) \/ Try(c) \/ Delta(c) \/ Answer(c)
  \/ Wake(c) \/ CancelWaiting(c) \/ Cancel(c)

Next == (\E c \in Clients : ClientStep(c)) \/ ApplySnapshot \/ Close \/ Tick

Spec == Init /\ [][Next]_vars

\* The event loop runs what is ready, the gateway's own timeouts end every
\* call, and time passes.  Nothing obliges a caller to send, to cancel, or the
\* desktop to apply a snapshot.
Fairness ==
  /\ \A c \in Clients :
       /\ WF_vars(Choose(c) \/ Try(c))
       /\ SF_vars(Acquire(c)) /\ SF_vars(Answer(c)) /\ SF_vars(Wake(c))
  /\ SF_vars(Tick)

FairSpec == Spec /\ Fairness

-----------------------------------------------------------------------------
(***************************************************************************)
(* Properties                                                              *)
(***************************************************************************)

\* Every variable keeps its shape: what the routines of the router read is
\* what the others write.
TypeOK ==
  /\ current \in Snapshots
  /\ config \in [Snapshots -> Configs]
  /\ active \in [Snapshots -> Nat]
  /\ retired \in [Snapshots -> BOOLEAN]
  /\ closed \in [Snapshots -> BOOLEAN]
  /\ breaker \in [Snapshots -> [Profiles -> Breaker]]
  /\ attention \in [Snapshots -> SUBSET Profiles]
  /\ disturbed \subseteq Clients
  /\ queue \in Seq(Clients)
  /\ loop \in Clients \cup {None}
  /\ pc \in [Clients -> PCs]
  /\ lease \in [Clients -> Snapshots \cup {None}]
  /\ task \in [Clients -> Task]

\* A gateway is never closed under a request that uses it: whatever the desktop
\* applies while requests run (apply_snapshot, _lease), the snapshot a request
\* leased stays open until that request has left.
OpenWhileLeased ==
  \A c \in Clients : lease[c] # None => ~closed[lease[c]]

\* No gateway leaks: once a snapshot is replaced and its last request has left,
\* its gateways are closed, whichever of the two happened last.
ClosedWhenUnused ==
  \A s \in Snapshots : retired[s] /\ Lessees(s) = {} => closed[s]

\* active_requests counts the requests that hold the snapshot, over every way a
\* request may end (answer, refusal, exhaustion, interruption, cancellation).
LeaseCount == \A s \in Snapshots : active[s] = Cardinality(Lessees(s))

\* However the answers of concurrent requests arrive, late ones included, a
\* closed breaker is below its threshold, and a probe is only out while the
\* breaker is half open.
BreakersWellFormed ==
  \A s \in Snapshots, p \in Profiles : WellFormed(breaker[s][p])

\* Text of two models is never spliced: once an attempt has yielded text, the
\* request stays with that profile until it ends, whatever happens to it.
NoSplice ==
  [][\A c \in Clients : task[c].emitted =>
       \/ pc'[c] = "idle"
       \/ pc'[c] = "calling" /\ Candidate(c)' = Candidate(c)]_vars

\* A Retry-After is not waited for in vain: the answer that sent a request to
\* sleep also opened the breaker, and its cooldown is over when the request
\* wakes.  If that is before its deadline, the request calls the profile again
\* and is not stopped by breaker or budget, unless another request has changed
\* the breaker meanwhile.
SleptIsRetried ==
  [][\A c \in Clients :
       /\ pc[c] = "try" /\ pc'[c] # "try"
       /\ task[c].slept /\ task[c].deadline > 0 /\ c \notin disturbed
       => pc'[c] = "calling" /\ Candidate(c)' = Candidate(c)]_vars

\* Every request ends: it gets its slot and is answered, refused or given up,
\* whatever the other requests and the services do.
EveryRequestEnds == \A c \in Clients : pc[c] = "waiting" ~> pc[c] = "idle"

\* The design: a 429 sets the cooldown, no frequent probes; so no answer shortens
\* a cooldown that runs.  The code does not keep this: as a PROPERTY in
\* RouterSafety.cfg it is violated, by the late answer of a second request.
CooldownKept ==
  [][\A s \in Snapshots, p \in Profiles :
       /\ ~closed[s] /\ pc' # pc
       /\ breaker[s][p].state = "open" /\ breaker'[s][p].state = "open"
       => breaker'[s][p].left >= breaker[s][p].left]_vars

\* The design: an open breaker skips its profile for a time only.  Some day it
\* lets a request through again, unless its snapshot is gone.  The code does not keep
\* this: as a PROPERTY in RouterLiveness.cfg it is violated.
SkippedForATime ==
  \A s \in Snapshots, p \in Profiles :
    breaker[s][p].state # "closed" ~> Allows(breaker[s][p]) \/ closed[s]

-----------------------------------------------------------------------------
(***************************************************************************)
(* Refinement: leaving out everything but who holds which snapshot, the    *)
(* router behaves as SnapshotLeases demands.                               *)
(***************************************************************************)
Leases == INSTANCE SnapshotLeases WITH
            users    <- [s \in Snapshots |-> Lessees(s)],
            disposed <- {s \in Snapshots : closed[s]}

\* Counting requests, retiring and closing (apply_snapshot, _lease, close)
\* implement the abstract life of a snapshot, step by step.
ImplementsLeases == Leases!Spec
=============================================================================
