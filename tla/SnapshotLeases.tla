----------------------------- MODULE SnapshotLeases -----------------------------
(***************************************************************************)
(* What the model runtime promises about its snapshots, without counters,  *)
(* flags, profiles or answers: users join the current snapshot, the        *)
(* current snapshot is replaced at any time, and a snapshot is disposed of *)
(* at the moment it is both replaced and unused, neither earlier nor       *)
(* later.  ModelRouter implements this specification.                      *)
(***************************************************************************)
CONSTANTS Clients, Snapshots

VARIABLES
  current,    \* the snapshot new users get
  users,      \* users[s]: who uses snapshot s
  disposed    \* the snapshots whose gateways are closed

leaseVars == <<current, users, disposed>>

Init ==
  /\ current \in Snapshots
  /\ users = [s \in Snapshots |-> {}]
  /\ disposed = Snapshots \ {current}

Begin(c) ==
  /\ \A s \in Snapshots : c \notin users[s]
  /\ users' = [users EXCEPT ![current] = @ \cup {c}]
  /\ UNCHANGED <<current, disposed>>

End(c, s) ==
  /\ c \in users[s]
  /\ users' = [users EXCEPT ![s] = @ \ {c}]
  /\ disposed' = IF s # current /\ users[s] = {c}
                   THEN disposed \cup {s} ELSE disposed
  /\ UNCHANGED current

Replace(s) ==
  /\ s \in disposed /\ s # current
  /\ current' = s
  /\ disposed' = (disposed \ {s})
                 \cup (IF users[current] = {} THEN {current} ELSE {})
  /\ UNCHANGED users

Next ==
  \/ \E c \in Clients : Begin(c)
  \/ \E c \in Clients, s \in Snapshots : End(c, s)
  \/ \E s \in Snapshots : Replace(s)

Spec == Init /\ [][Next]_leaseVars

-----------------------------------------------------------------------------
\* A snapshot is disposed of exactly when it is replaced and unused.
DisposedExactly ==
  \A s \in Snapshots : s \in disposed <=> (s # current /\ users[s] = {})
=============================================================================
