----------------------------- MODULE AtomicSettings -----------------------------
(***************************************************************************)
(* What the model settings promise: one configuration, which every change  *)
(* either makes as a whole, seen by all later ones, or leaves alone.  Once *)
(* the outcome of a change is in doubt, none is made until the application *)
(* starts again.                                                           *)
(***************************************************************************)
EXTENDS ModelVault

CONSTANTS Clients, NoChange

VARIABLES settings, \* the configuration
          asked,    \* asked[c]: the change c waits for, or NoChange
          answer,   \* answer[c]: how its last one ended
          doubt     \* a change left the configuration in doubt

avars == <<settings, asked, answer, doubt>>

Init ==
  /\ settings \in {v \in Vault : Consistent(v)}
  /\ asked = [c \in Clients |-> NoChange]
  /\ answer = [c \in Clients |-> "none"]
  /\ doubt = FALSE

Ask(c, i) ==
  /\ asked[c] = NoChange
  /\ asked' = [asked EXCEPT ![c] = i]
  /\ answer' = [answer EXCEPT ![c] = "none"]
  /\ UNCHANGED <<settings, doubt>>

Answer(c, a) ==
  /\ asked[c] # NoChange
  /\ asked' = [asked EXCEPT ![c] = NoChange]
  /\ answer' = [answer EXCEPT ![c] = a]

Succeed(c) ==
  /\ ~doubt
  /\ Answer(c, "ok")
  /\ ~Refused(asked[c], settings)
  /\ settings' = Changed(asked[c], settings)
  /\ UNCHANGED doubt

Fail(c) ==
  /\ Answer(c, "failed")
  /\ UNCHANGED <<settings, doubt>>

\* the configuration and a change under way that was not refused
MayBe == {settings} \cup {Changed(asked[c], settings) :
                            c \in {d \in Clients : /\ asked[d] # NoChange
                                                   /\ ~Refused(asked[d], settings)}}

Trouble(c) ==
  /\ ~doubt /\ doubt'
  /\ Answer(c, "trouble")
  /\ settings' \in {settings} \cup (IF Refused(asked[c], settings) THEN {}
                                     ELSE {Changed(asked[c], settings)})

Stop ==
  /\ settings' \in IF doubt THEN {settings} ELSE MayBe
  /\ asked' = [c \in Clients |-> NoChange]
  /\ answer' = [c \in Clients |-> "none"]
  /\ doubt' = FALSE

Next ==
  \/ \E c \in Clients : \/ \E i \in Changes : Ask(c, i)
                        \/ Succeed(c) \/ Fail(c) \/ Trouble(c)
  \/ Stop

Spec == Init /\ [][Next]_avars
=============================================================================
