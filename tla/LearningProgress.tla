---------------------------- MODULE LearningProgress ----------------------------
(***************************************************************************)
(* What a session remembers of a student's practice: knowledge points,     *)
(* questions, attempts and reviews (backend/services/learning.py and the   *)
(* rows of services/db.py), together with the two versions that key the    *)
(* cache of generated resources.                                           *)
(*                                                                         *)
(* An attempt is graded in one step (its route never awaits).  A message   *)
(* that asks for a resource is served in four, between which attempts,     *)
(* deletions and new days come: it loads its copy of the session row,      *)
(* looks into the cache, reads the learning state for the prompt, and      *)
(* stores the answer.  The lock of the workflow lets one such message run  *)
(* at a time.                                                              *)
(*                                                                         *)
(* All messages that ask for a resource have the same text: with another   *)
(* text the cache is never hit.  A resource carries one question, on its   *)
(* topic.  Mastery is counted in ten-thousandths, to which the code rounds;*)
(* time in days: a review is due at the hour of the answer, here for the   *)
(* whole day.  Expiry of the cache and the limits of lists are left out.   *)
(***************************************************************************)
EXTENDS Naturals, Sequences, FiniteSets

CONSTANTS
  Topics,        \* names of knowledge points
  Keys, NoKey,   \* idempotency keys a client may send, or none
  Hints,         \* how many hints the student may have used
  MaxAttempts, MaxResources, MaxProfiles, MaxDay   \* bounds

ASSUME LearningAssumption ==
  /\ NoKey \notin Keys /\ Hints \subseteq Nat
  /\ {MaxAttempts, MaxResources, MaxProfiles, MaxDay} \subseteq Nat

VARIABLES
  session,     \* the row: does it exist, and its two versions
  point,       \* point[t]: the knowledge point named t
  review,      \* review[t]: its pending review task
  resources,   \* the resources of the session, each with its question
  attempts,    \* the answers that were graded, oldest first
  told,        \* the answers given to attempts with a key (a client may lose its
               \* answer and send the key again)
  gen,         \* the message being served and its copy of the row
  today

vars == <<session, point, review, resources, attempts, told, gen, today>>

Full == 10000
Never == MaxDay + 31   \* next_review_at and due_at when there is none

Session == [present : BOOLEAN, profile : 0..MaxProfiles, version : Nat]
NoSession == [present |-> FALSE, profile |-> 0, version |-> 0]

Point == [known : BOOLEAN, mastery : 0..Full, attempts : Nat, correct : Nat,
          streak : Nat, due : Nat]
NewPoint == [known |-> FALSE, mastery |-> 2500, attempts |-> 0, correct |-> 0,
             streak |-> 0, due |-> Never]

Review == [due : Nat, interval : Nat]
NoReview == [due |-> Never, interval |-> 0]

\* the kinds of recommendation
Kinds == {"REVIEW", "START_PRACTICE", "REMEDIATE", "PRACTICE", "CONSOLIDATE", "CHALLENGE"}

\* What learning_context puts into a prompt, and when: the points with their mastery
\* and counts, and what is recommended next; not kept when the session was deleted
Context == [version : Nat, day : 0..MaxDay, known : SUBSET Topics,
            points : [Topics -> [mastery : 0..Full, attempts : Nat, correct : Nat]],
            next : SUBSET (Kinds \X Topics)]
NoContext == [version |-> 0, day |-> 0, known |-> {},
              points |-> [t \in Topics |-> [mastery |-> 0, attempts |-> 0, correct |-> 0]],
              next |-> {}]

\* Not columns: context, what the prompt said of the learning state, and
\* orphan, the session was deleted while it was being generated
Resource == [topic : Topics, profile : Nat, stamp : Nat, grounded : BOOLEAN,
             context : Context, orphan : BOOLEAN]
Attempt == [question : Nat, key : Keys \cup {NoKey}, right : BOOLEAN,
            mastery : 0..Full, due : Nat]
Answer == [key : Keys, attempt : Nat, right : BOOLEAN, mastery : 0..Full, due : Nat]

Gen == [pc : {"idle", "gate", "search", "model"}, profile : Nat, version : Nat,
        grounded : BOOLEAN, context : Context, orphan : BOOLEAN]
Idle == [pc |-> "idle", profile |-> 0, version |-> 0, grounded |-> FALSE,
         context |-> NoContext, orphan |-> FALSE]

Init ==
  /\ session = NoSession
  /\ point = [t \in Topics |-> NewPoint]
  /\ review = [t \in Topics |-> NoReview]
  /\ resources = <<>> /\ attempts = <<>> /\ told = {}
  /\ gen = Idle
  /\ today = 0

-----------------------------------------------------------------------------
(***************************************************************************)
(* Grading                                                                 *)
(***************************************************************************)
Least(a, b) == IF a < b THEN a ELSE b
Most(a, b)  == IF a < b THEN b ELSE a

\* round(_, 4) of a float: the nearest one, either one when two are as near
Rounded(n, d) == {q \in {n \div d, n \div d + 1} : 2 * q * d <= 2 * n + d /\ 2 * n <= 2 * q * d + d}

Gain(hints) == Most(5, 18 - 3 * Least(hints, 4))   \* in percent

UpdatedMastery(mastery, right, hints) ==
  IF right THEN Rounded(100 * mastery + Gain(hints) * (Full - mastery), 100)
           ELSE Rounded(3 * mastery, 4)

IntervalDays == <<1, 3, 7, 14, 30>>

\* ReviewInterval, if a wrong answer were spaced like a right one
ReviewInterval_Always(right, streak) ==
  IntervalDays[Least(Most(streak, 1), Len(IntervalDays))]
ReviewInterval(right, streak) ==
  IF right THEN IntervalDays[Least(Most(streak, 1), Len(IntervalDays))] ELSE 0

TopicOf(i) == resources[attempts[i].question].topic
AttemptsOn(t) == {i \in DOMAIN attempts : TopicOf(i) = t}
MistakeItems  == {i \in DOMAIN attempts : ~attempts[i].right}

\* Told, if it were read from the point
Told_FromPoint(i) ==
  [key |-> attempts[i].key, attempt |-> i, right |-> attempts[i].right,
   mastery |-> point[TopicOf(i)].mastery, due |-> point[TopicOf(i)].due]
\* the answer the route returns for a graded attempt
Told(i) == [key |-> attempts[i].key, attempt |-> i, right |-> attempts[i].right,
            mastery |-> attempts[i].mastery, due |-> attempts[i].due]

Graded(key) == {i \in DOMAIN attempts : key # NoKey /\ attempts[i].key = key}

\* a key that was used before: the attempt it was used for, whatever the question
Duplicate(key) ==
  \E i \in Graded(key) :
     /\ told' = told \cup {Told(i)}
     /\ UNCHANGED <<session, point, review, resources, attempts, gen, today>>

\* Schedule, if the pending task were left as it is
Schedule_Adds(t, interval) ==
  review' = [review EXCEPT ![t] =
    IF @ = NoReview THEN [due |-> today + interval, interval |-> interval] ELSE @]
\* a review task is added for the point, or the pending one is moved
Schedule(t, interval) ==
  review' = [review EXCEPT ![t] = [due |-> today + interval, interval |-> interval]]

Grade(q, key, right, hints) ==
  LET t        == resources[q].topic
      streak   == IF right THEN point[t].streak + 1 ELSE 0
      interval == ReviewInterval(right, streak)
  IN /\ Graded(key) = {}
     /\ Len(attempts) < MaxAttempts
     /\ \E mastery \in UpdatedMastery(point[t].mastery, right, hints) :
          /\ point' = [point EXCEPT ![t] = [@ EXCEPT
               !.mastery = mastery, !.attempts = point[t].attempts + 1, !.streak = streak,
               !.correct = point[t].correct + (IF right THEN 1 ELSE 0),
               !.due = today + interval]]
          /\ attempts' = Append(attempts,
               [question |-> q, key |-> key, right |-> right, mastery |-> mastery,
                due |-> today + interval])
     /\ Schedule(t, interval)
     /\ session' = [session EXCEPT !.version = @ + 1]
     /\ UNCHANGED <<resources, gen, today>>
     /\ told' = IF key = NoKey THEN told ELSE told \cup {Told(Len(attempts))'}

SubmitAttempt(q, key, right, hints) ==
  \/ Duplicate(key)
  \/ Grade(q, key, right, hints)

-----------------------------------------------------------------------------
(***************************************************************************)
(* What the student is told to do next, and the other reads                *)
(***************************************************************************)
Known == {t \in Topics : point[t].known}
Due   == {t \in Topics : review[t].due <= today}
FirstDue == {t \in Due : \A u \in Due : review[t].due <= review[u].due}

Before(p, q) == p.mastery < q.mastery \/ (p.mastery = q.mastery /\ p.attempts <= q.attempts)
Weakest == {t \in Known : \A u \in Known : Before(point[t], point[u])}

MasteryLabel(mastery) ==
  CASE mastery < 4000         -> "WEAK"
    [] mastery \in 4000..6999 -> "LEARNING"
    [] mastery \in 7000..8999 -> "PROFICIENT"
    [] mastery >= 9000        -> "MASTERED"

Advice == [WEAK |-> "REMEDIATE", LEARNING |-> "PRACTICE",
           PROFICIENT |-> "CONSOLIDATE", MASTERED |-> "CHALLENGE"]

PracticeOf(p) == IF p.attempts = 0 THEN "START_PRACTICE" ELSE Advice[MasteryLabel(p.mastery)]

NextActions ==
  IF Due # {} THEN {<<"REVIEW", t>> : t \in FirstDue}
  ELSE {<<PracticeOf(point[t]), t>> : t \in Weakest}

-----------------------------------------------------------------------------
(***************************************************************************)
(* Profiles and resources                                                  *)
(***************************************************************************)
\* a diagnosis ends: its weaknesses become knowledge points
SaveProfile(weaknesses) ==
  /\ gen.pc = "idle" /\ session.profile < MaxProfiles
  /\ session' = [session EXCEPT !.present = TRUE, !.profile = @ + 1]
  /\ point' = [t \in Topics |-> [point[t] EXCEPT !.known = @ \/ t \in weaknesses]]
  /\ UNCHANGED <<review, resources, attempts, told, gen, today>>

\* a message loads its copy of the row, which no later read refreshes
Ask ==
  /\ gen.pc = "idle" /\ session.present /\ session.profile > 0
  /\ Len(resources) < MaxResources
  /\ gen' = [Idle EXCEPT !.pc = "gate", !.profile = session.profile,
                         !.version = session.version]
  /\ UNCHANGED <<session, point, review, resources, attempts, told, today>>

FindCached(profile, version) ==
  {r \in DOMAIN resources : /\ ~resources[r].grounded
                            /\ resources[r].profile = profile
                            /\ resources[r].stamp = version}

\* after the gate: a cached resource is the answer unless the library has sources
Lookup ==
  /\ gen.pc = "gate"
  /\ \E grounded \in BOOLEAN :
       IF ~grounded /\ FindCached(gen.profile, gen.version) # {}
       THEN gen' = Idle
       ELSE gen' = [gen EXCEPT !.pc = "search", !.grounded = grounded]
  /\ UNCHANGED <<session, point, review, resources, attempts, told, today>>

\* after the web search: the prompt gets the points and the recommendation of now
Shown == [t \in Topics |-> [mastery |-> point[t].mastery, attempts |-> point[t].attempts,
                            correct |-> point[t].correct]]
LearningContext == [version |-> session.version, day |-> today, known |-> Known,
                    points |-> Shown, next |-> NextActions]
ReadContext ==
  /\ gen.pc = "search"
  /\ gen' = [gen EXCEPT !.pc = "model", !.context = IF gen.orphan THEN NoContext ELSE LearningContext]
  /\ UNCHANGED <<session, point, review, resources, attempts, told, today>>

\* Stamp, if the row were loaded again before the resource is stored
Stamp_Now == session.version
\* the versions the resource is stored under are those of the copy
Stamp == gen.version

\* the write of the row fails when the session is gone
Complete(topic) ==
  /\ gen.pc = "model" /\ session.present
  /\ resources' = Append(resources,
       [topic |-> topic, profile |-> gen.profile, stamp |-> Stamp,
        grounded |-> gen.grounded, context |-> gen.context, orphan |-> gen.orphan])
  /\ point' = [point EXCEPT ![topic].known = TRUE]
  /\ gen' = Idle
  /\ UNCHANGED <<session, review, attempts, told, today>>

Fail ==
  /\ gen.pc # "idle"
  /\ gen' = Idle
  /\ UNCHANGED <<session, point, review, resources, attempts, told, today>>

\* the rows of the session go with it; the message that is being served stays
DeleteSession ==
  /\ session.present
  /\ session' = NoSession
  /\ point' = [t \in Topics |-> NewPoint]
  /\ review' = [t \in Topics |-> NoReview]
  /\ resources' = <<>> /\ attempts' = <<>> /\ told' = {}
  /\ gen' = [gen EXCEPT !.orphan = gen.pc # "idle", !.context = NoContext]
  /\ UNCHANGED today

\* a request that needs no lock creates the row again: a model preference
Recreate ==
  /\ ~session.present
  /\ session' = [NoSession EXCEPT !.present = TRUE]
  /\ UNCHANGED <<point, review, resources, attempts, told, gen, today>>

Tomorrow ==
  /\ today < MaxDay
  /\ today' = today + 1
  /\ UNCHANGED <<session, point, review, resources, attempts, told, gen>>

Next ==
  \/ \E q \in DOMAIN resources, key \in Keys \cup {NoKey}, right \in BOOLEAN, hints \in Hints :
       SubmitAttempt(q, key, right, hints)
  \/ \E weaknesses \in SUBSET Topics : SaveProfile(weaknesses)
  \/ Ask \/ Lookup \/ ReadContext \/ Fail
  \/ \E topic \in Topics : Complete(topic)
  \/ DeleteSession \/ Recreate \/ Tomorrow

Spec == Init /\ [][Next]_vars

-----------------------------------------------------------------------------
(***************************************************************************)
(* Properties                                                              *)
(***************************************************************************)
\* Every variable has its type: the shape of the state declared above.
TypeOK ==
  /\ session \in Session
  /\ point \in [Topics -> Point]
  /\ review \in [Topics -> Review]
  /\ resources \in Seq(Resource)
  /\ attempts \in Seq(Attempt)
  /\ told \in SUBSET Answer
  /\ gen \in Gen
  /\ today \in 0..MaxDay

LastOn(t) == CHOOSE i \in AttemptsOn(t) : \A k \in AttemptsOn(t) : k <= i

\* The five places that count answers agree, after any sequence of answers,
\* repetitions, deletions and generations: the counters of a point are those of
\* the attempts on its questions, only a practised point has a review and it is
\* due when the last attempt said, and the version of the learning state and the
\* list of mistakes count every attempt once.
BooksAgree ==
  /\ session.version = Len(attempts)
  /\ \A t \in Topics :
       /\ point[t].attempts = Cardinality(AttemptsOn(t))
       /\ point[t].attempts - point[t].correct = Cardinality(AttemptsOn(t) \cap MistakeItems)
       /\ AttemptsOn(t) = {} => review[t] = NoReview /\ point[t].due = Never
       /\ AttemptsOn(t) # {} =>
            /\ point[t].known
            /\ review[t].due = attempts[LastOn(t)].due
            /\ point[t].due = attempts[LastOn(t)].due
            /\ point[t].mastery = attempts[LastOn(t)].mastery

\* A client that lost the answer and sends its key again hears what it would have
\* heard, even when later answers have moved the point since: submit_attempt
\* answers from the stored attempt, not from the point.
RepeatedKeySameAnswer ==
  \A a, b \in told : a.key = b.key => a = b

\* A point whose last answer was wrong is repeated first: while there is one,
\* next_action recommends nothing but the review of a point that is due, and of
\* the one that has been due longest.
WrongComesBack ==
  (\E t \in Topics : AttemptsOn(t) # {} /\ ~attempts[LastOn(t)].right) =>
    \A a \in NextActions : a[1] = "REVIEW" /\ review[a[2]].due <= today
                           /\ \A u \in Due : review[a[2]].due <= review[u].due

\* A resource that a message arriving now would be given from the cache was written with
\* every answer that was graded, also while it was being generated: the mastery and the
\* counts in its prompt are those of now, and so is what it recommends, unless a day has
\* passed or a point was added since, of which the versions that find_cached_resource
\* compares know nothing.  Not so when the session was deleted meanwhile and its row
\* created again: complete_generation then stores the resource in the new session under
\* versions that this one may reach.
CachedIsCurrent ==
  session.present =>
    \A r \in FindCached(session.profile, session.version) :
      LET c == resources[r].context
      IN \/ resources[r].orphan
         \/ /\ c.points = Shown
            /\ c.day = today /\ c.known = Known => c.next = NextActions

=============================================================================
