---------------------------- MODULE CircuitBreaker ----------------------------
(***************************************************************************)
(* The circuit breaker every model profile owns                            *)
(* (backend/services/model_resilience.py, class CircuitBreaker), as        *)
(* operators on a breaker record.  allow_request answers AND changes the   *)
(* breaker, so it is two operators: Allows, the answer, and Admit, the     *)
(* breaker left behind by a positive answer (a negative one changes        *)
(* nothing).                                                               *)
(*                                                                         *)
(* cooldown_until is kept as `left', the time still to pass until then.    *)
(* consecutive_failures is compared with the threshold and reset only, and *)
(* _open_count only selects a cooldown, so both saturate.                  *)
(***************************************************************************)
EXTENDS Naturals, Sequences

CONSTANTS
  FailureThreshold,   \* failures in a row that open a closed breaker
  Cooldowns           \* cooldown of the first, second, ... opening

ASSUME BreakerAssumption ==
  /\ FailureThreshold \in Nat \ {0}
  /\ Cooldowns \in Seq(Nat)
  /\ Cooldowns # <<>>

LastCooldown == Cooldowns[Len(Cooldowns)]

AtMost(n, bound) == IF n < bound THEN n ELSE bound

Breaker ==
  [state    : {"closed", "open", "half_open"},
   failures : 0..FailureThreshold,
   left     : Nat,
   opens    : 0..Len(Cooldowns),
   probe    : BOOLEAN]

NewBreaker ==
  [state |-> "closed", failures |-> 0, left |-> 0, opens |-> 0, probe |-> FALSE]

-----------------------------------------------------------------------------
\* allow_request: the answer ...
Allows(b) ==
  \/ b.state = "closed"
  \/ b.state = "open" /\ b.left = 0
  \/ b.state = "half_open" /\ ~b.probe

\* ... and what a positive answer does: a breaker that is not closed hands out
\* its probe.
Admit(b) ==
  IF b.state = "closed" THEN b
  ELSE [b EXCEPT !.state = "half_open", !.probe = TRUE]

RecordSuccess(b) == NewBreaker

Counted(b) == [b EXCEPT !.failures = AtMost(@ + 1, FailureThreshold)]

\* a retryable failure takes the probe back, whoever held it
Released(b) == [b EXCEPT !.probe = FALSE]

\* _open with an explicit cooldown, and with the cooldown of this opening
OpenFor(b, cooldown) ==
  [b EXCEPT !.state = "open",
            !.opens = AtMost(@ + 1, Len(Cooldowns)),
            !.left  = cooldown]

Open(b) == OpenFor(b, Cooldowns[AtMost(b.opens + 1, Len(Cooldowns))])

\* record_failure: an error not worth a retry says the service is reachable,
\* so it ends a probe as a success does; it is no failure otherwise
RecordTerminal(b) == IF b.state = "half_open" THEN RecordSuccess(b) ELSE b

RecordRetryable_OwnCooldown(b, retryAfter) ==
  LET counted == Counted(Released(b))
  IN  IF b.state = "half_open" THEN Open(Released(b))
      ELSE IF b.failures + 1 >= FailureThreshold THEN Open(counted)
      ELSE counted

\* a retryable error; retryAfter is 0 when the service named no delay
RecordRetryable(b, retryAfter) ==
  LET counted == Counted(Released(b))
  IN  IF retryAfter > 0
        THEN OpenFor(counted, AtMost(retryAfter, LastCooldown))
      ELSE IF b.state = "half_open" THEN Open(Released(b))
      ELSE IF b.failures + 1 >= FailureThreshold THEN Open(counted)
      ELSE counted

\* one unit of time passes
Cooled(b) == [b EXCEPT !.left = IF @ = 0 THEN 0 ELSE @ - 1]

-----------------------------------------------------------------------------
\* What every breaker satisfies whatever sequence of answers it was told: a
\* closed breaker is below its threshold and holds no probe, only a half-open
\* one has handed a probe out, and one that is not closed was opened before.
WellFormed(b) ==
  /\ b.state = "closed" => b.failures < FailureThreshold
  /\ b.probe => b.state = "half_open"
  /\ b.state # "closed" => b.opens > 0
=============================================================================
