----------------------------- MODULE LearningProofs -----------------------------
(***************************************************************************)
(* Proofs about LearningProgress, for any knowledge points, keys and       *)
(* bounds: every variable keeps its type; the five places that count       *)
(* answers agree; a repeated key hears the same answer; a mistake is       *)
(* reviewed first; and the cache never serves a resource that was written  *)
(* before an answer was graded.                                            *)
(***************************************************************************)
EXTENDS LearningProgress, FiniteSetTheorems, TLAPS

-----------------------------------------------------------------------------
(* The invariant *)

\* What belongs to a session goes with it.
NothingWithoutRow == ~session.present => session = NoSession /\ resources = <<>>

\* An answer was given to a question of the session.
QuestionsExist == \A i \in DOMAIN attempts : attempts[i].question \in DOMAIN resources

\* The topic of a resource is a knowledge point.
TopicsKnown == \A r \in DOMAIN resources : point[resources[r].topic].known

\* A key was used once, ...
KeysOnce ==
  \A i, k \in DOMAIN attempts :
    attempts[i].key # NoKey /\ attempts[i].key = attempts[k].key => i = k

\* ... and what a client was told is what the list of answers has for it.
ToldFits == \A a \in told : \E i \in DOMAIN attempts : attempts[i].key # NoKey /\ a = Told(i)

\* A wrong answer is to be reviewed at once.
WrongIsDue == \A i \in DOMAIN attempts : ~attempts[i].right => attempts[i].due <= today

\* There is a last answer where there are answers.
HasLast == \A t \in Topics : AttemptsOn(t) # {} => LastOn(t) \in AttemptsOn(t)

\* A resource was written from a state no older than the one it is stored under, and
\* not from a later one than there is; so is the one that is being written.
ContextsFit ==
  /\ \A r \in DOMAIN resources :
       \/ resources[r].orphan
       \/ /\ resources[r].stamp <= resources[r].context.version
          /\ resources[r].context.version <= session.version
  /\ gen.pc # "idle" /\ ~gen.orphan => gen.version <= session.version
  /\ gen.pc = "model" /\ ~gen.orphan =>
       gen.version <= gen.context.version /\ gen.context.version <= session.version

\* What a prompt said of the learning state is still so while the version is the same,
\* but for what a new day and a new point do to the recommendation.
StillTrue(c) ==
  /\ c.version \in Nat /\ c.version <= session.version
  /\ c.day \in Nat /\ c.day <= today
  /\ c.known \subseteq Known
  /\ c.version = session.version =>
       /\ c.points = Shown
       /\ c.day = today /\ c.known = Known => c.next = NextActions

PromptsStillTrue ==
  /\ \A r \in DOMAIN resources : resources[r].orphan \/ StillTrue(resources[r].context)
  /\ gen.pc = "model" /\ ~gen.orphan => StillTrue(gen.context)

Safe ==
  /\ NothingWithoutRow /\ QuestionsExist /\ TopicsKnown /\ KeysOnce /\ ToldFits
  /\ WrongIsDue /\ ContextsFit /\ HasLast /\ BooksAgree

-----------------------------------------------------------------------------
(* Every variable keeps its type *)

LEMMA Bounds ==
  /\ MaxAttempts \in Nat /\ MaxResources \in Nat /\ MaxProfiles \in Nat /\ MaxDay \in Nat
  /\ Hints \subseteq Nat
  BY LearningAssumption

LEMMA FullNat == Full \in Nat
  BY DEF Full

LEMMA GainValues == ASSUME NEW h \in Nat PROVE Gain(h) \in {6, 9, 12, 15, 18}
  <1>1. Least(h, 4) \in 0..4 BY DEF Least
  <1> QED BY <1>1 DEF Gain, Most

LEMMA RoundedRange ==
  ASSUME NEW d \in {4, 100}, NEW n \in 0..(d * Full), NEW q \in Rounded(n, d)
  PROVE  q \in 0..Full
  <1> USE FullNat
  <1>1. n \div d \in Nat
    <2>1. CASE d = 4 BY <2>1
    <2>2. CASE d = 100 BY <2>2
    <2> QED BY <2>1, <2>2
  <1>2. q \in {n \div d, n \div d + 1} /\ 2 * q * d <= 2 * n + d
    BY DEF Rounded
  <1>3. q \in Int BY <1>1, <1>2
  <1>4. CASE d = 4
    <2>1. n \in 0..(4 * Full) /\ 8 * q <= 2 * n + 4 BY <1>2, <1>3, <1>4
    <2> QED BY <1>1, <1>2, <1>3, <2>1
  <1>5. CASE d = 100
    <2>1. n \in 0..(100 * Full) /\ 200 * q <= 2 * n + 100 BY <1>2, <1>3, <1>5
    <2> QED BY <1>1, <1>2, <1>3, <2>1
  <1> QED BY <1>4, <1>5

LEMMA MasteryType ==
  ASSUME NEW m \in 0..Full, NEW right \in BOOLEAN, NEW h \in Nat,
         NEW q \in UpdatedMastery(m, right, h)
  PROVE  q \in 0..Full
  <1>1. CASE right
    <2> DEFINE n == 100 * m + Gain(h) * (Full - m)
    <2>1. n \in 0..(100 * Full)
      <3>1. \A g \in {6, 9, 12, 15, 18} : 100 * m + g * (Full - m) \in 0..(100 * Full)
        BY FullNat
      <3> QED BY <3>1, GainValues
    <2>2. q \in Rounded(n, 100) BY <1>1 DEF UpdatedMastery, n
    <2> QED BY <2>1, <2>2, RoundedRange
  <1>2. CASE ~right
    <2>1. q \in Rounded(3 * m, 4) BY <1>2 DEF UpdatedMastery
    <2>2. 3 * m \in 0..(4 * Full) BY FullNat
    <2> QED BY <2>1, <2>2, RoundedRange
  <1> QED BY <1>1, <1>2

LEMMA IntervalType ==
  ASSUME NEW right \in BOOLEAN, NEW streak \in Nat
  PROVE  /\ ReviewInterval(right, streak) \in Nat
         /\ ~right => ReviewInterval(right, streak) = 0
  <1>1. Len(IntervalDays) = 5 BY DEF IntervalDays
  <1>2. Least(Most(streak, 1), 5) \in 1..5 BY DEF Least, Most
  <1>3. \A i \in 1..5 : IntervalDays[i] \in Nat BY DEF IntervalDays
  <1> QED BY <1>1, <1>2, <1>3 DEF ReviewInterval

LEMMA NewTypes ==
  /\ Idle \in Gen /\ NoSession \in Session /\ NoReview \in Review /\ NewPoint \in Point
  /\ NoContext \in Context
  <1>1. NoContext \in Context BY Bounds, FullNat DEF NoContext, Context
  <1> QED
    BY <1>1, Bounds
       DEF Idle, Gen, NoSession, Session, NoReview, Review, NewPoint, Point, Full, Never

LEMMA ResourceOf ==
  ASSUME TypeOK, NEW q \in DOMAIN resources
  PROVE  q \in Nat /\ resources[q] \in Resource /\ resources[q].topic \in Topics
  <1>1. resources \in Seq(Resource) BY DEF TypeOK
  <1>2. q \in Nat /\ resources[q] \in Resource BY <1>1
  <1> QED BY <1>2 DEF Resource

LEMMA AttemptOf ==
  ASSUME TypeOK, NEW i \in DOMAIN attempts
  PROVE  i \in Nat /\ attempts[i] \in Attempt
  <1>1. attempts \in Seq(Attempt) BY DEF TypeOK
  <1> QED BY <1>1

LEMMA LabelType ==
  ASSUME NEW m \in Nat
  PROVE  MasteryLabel(m) \in {"WEAK", "LEARNING", "PROFICIENT", "MASTERED"}
  <1>1. CASE m < 4000 BY <1>1 DEF MasteryLabel
  <1>2. CASE m \in 4000..6999 BY <1>2 DEF MasteryLabel
  <1>3. CASE m \in 7000..8999 BY <1>3 DEF MasteryLabel
  <1>4. CASE m >= 9000 BY <1>4 DEF MasteryLabel
  <1> QED BY <1>1, <1>2, <1>3, <1>4

\* What a prompt is told has the shape of a context.
LEMMA LearningContextType == ASSUME TypeOK PROVE LearningContext \in Context
  <1>1. \A t \in Topics : point[t] \in Point BY DEF TypeOK
  <1>2. Shown \in [Topics -> [mastery : 0..Full, attempts : Nat, correct : Nat]]
    BY <1>1 DEF Shown, Point
  <1>3. ASSUME NEW t \in Topics PROVE PracticeOf(point[t]) \in Kinds
    <2>1. point[t].mastery \in Nat BY <1>1, FullNat DEF Point
    <2>2. MasteryLabel(point[t].mastery) \in {"WEAK", "LEARNING", "PROFICIENT", "MASTERED"}
      BY <2>1, LabelType
    <2>3. \A l \in {"WEAK", "LEARNING", "PROFICIENT", "MASTERED"} : Advice[l] \in Kinds
      BY DEF Advice, Kinds
    <2> QED BY <2>2, <2>3 DEF PracticeOf, Kinds
  <1>4. NextActions \in SUBSET (Kinds \X Topics)
    <2>1. FirstDue \subseteq Topics /\ Weakest \subseteq Topics
      BY DEF FirstDue, Due, Weakest, Known
    <2> HIDE DEF FirstDue, Weakest, Due, Known
    <2>2. {<<"REVIEW", t>> : t \in FirstDue} \subseteq Kinds \X Topics BY <2>1 DEF Kinds
    <2>3. {<<PracticeOf(point[t]), t>> : t \in Weakest} \subseteq Kinds \X Topics
      BY <1>3, <2>1
    <2> QED BY <2>2, <2>3 DEF NextActions
  <1>5. session.version \in Nat /\ today \in 0..MaxDay /\ Known \subseteq Topics
    BY DEF TypeOK, Session, Known
  <1> QED BY <1>2, <1>4, <1>5 DEF LearningContext, Context

LEMMA TypeInit == Init => TypeOK
  BY Bounds, NewTypes DEF Init, TypeOK

\* point t after an answer
Moved(P, t, m, a, s, c, d) ==
  [P EXCEPT ![t] = [@ EXCEPT !.mastery = m, !.attempts = a, !.streak = s, !.correct = c,
                             !.due = d]]

\* and what it changes
IsMoved(P, Q, t, m, a, c, d) ==
  /\ Q \in [Topics -> Point]
  /\ Q[t].known = P[t].known /\ Q[t].mastery = m /\ Q[t].attempts = a
  /\ Q[t].correct = c /\ Q[t].due = d
  /\ \A u \in Topics \ {t} : Q[u] = P[u]

LEMMA MovedFits ==
  ASSUME NEW P \in [Topics -> Point], NEW t \in Topics, NEW m \in 0..Full,
         NEW a \in Nat, NEW s \in Nat, NEW c \in Nat, NEW d \in Nat
  PROVE  LET Q == Moved(P, t, m, a, s, c, d)
         IN  IsMoved(P, Q, t, m, a, c, d)
  <1> DEFINE Q == Moved(P, t, m, a, s, c, d)
  <1>0. Q = [P EXCEPT ![t] = [@ EXCEPT !.mastery = m, !.attempts = a, !.streak = s,
                                       !.correct = c, !.due = d]]
    BY DEF Moved
  <1> HIDE DEF Q
  <1>1. P[t] \in Point OBVIOUS
  <1>2. /\ Q[t].known = P[t].known /\ Q[t].mastery = m /\ Q[t].attempts = a
        /\ Q[t].correct = c /\ Q[t].due = d /\ Q[t].streak = s
    BY <1>0, <1>1 DEF Point
  <1>3. \A u \in Topics \ {t} : Q[u] = P[u] BY <1>0
  <1>4. Q[t] = [known |-> P[t].known, mastery |-> m, attempts |-> a, correct |-> c,
                streak |-> s, due |-> d]
    BY <1>0, <1>1 DEF Point
  <1>5. Q[t] \in Point BY <1>1, <1>4 DEF Point
  <1>6. Q \in [Topics -> Point] BY <1>0, <1>3, <1>5
  <1> QED BY <1>2, <1>3, <1>6 DEF Q, IsMoved

\* What a graded answer adds.
LEMMA GradeEffect ==
  ASSUME TypeOK, NEW q \in DOMAIN resources, NEW key \in Keys \cup {NoKey},
         NEW right \in BOOLEAN, NEW hints \in Hints, Grade(q, key, right, hints)
  PROVE  LET t == resources[q].topic IN
         /\ TypeOK' /\ UNCHANGED <<resources, gen, today>>
         /\ Graded(key) = {}
         /\ session' = [session EXCEPT !.version = @ + 1]
         /\ told' = IF key = NoKey THEN told ELSE told \cup {Told(Len(attempts))'}
         /\ \E a \in Attempt :
              /\ attempts' = Append(attempts, a)
              /\ a.question = q /\ a.key = key /\ a.right = right
              /\ ~right => a.due = today
              /\ point'[t].known = point[t].known /\ point'[t].mastery = a.mastery
              /\ point'[t].attempts = point[t].attempts + 1
              /\ point'[t].correct = point[t].correct + (IF right THEN 1 ELSE 0)
              /\ point'[t].due = a.due /\ review'[t].due = a.due
              /\ \A u \in Topics \ {t} : point'[u] = point[u] /\ review'[u] = review[u]
  <1> DEFINE t        == resources[q].topic
             streak   == IF right THEN point[t].streak + 1 ELSE 0
             correct  == point[t].correct + (IF right THEN 1 ELSE 0)
             interval == ReviewInterval(right, streak)
  <1>1. t \in Topics /\ q \in Nat BY ResourceOf
  <1>2. streak \in Nat /\ correct \in Nat BY <1>1 DEF TypeOK, Point
  <1>3. interval \in Nat BY <1>2, IntervalType
  <1>4. PICK mastery \in UpdatedMastery(point[t].mastery, right, hints) :
          /\ point' = [point EXCEPT ![t] = [@ EXCEPT
               !.mastery = mastery, !.attempts = point[t].attempts + 1, !.streak = streak,
               !.correct = correct, !.due = today + interval]]
          /\ attempts' = Append(attempts,
               [question |-> q, key |-> key, right |-> right, mastery |-> mastery,
                due |-> today + interval])
    BY DEF Grade
  <1>5. mastery \in 0..Full
    BY <1>1, <1>4, MasteryType, Bounds DEF TypeOK, Point
  <1>6. today + interval \in Nat BY <1>3 DEF TypeOK
  <1>7. review' = [review EXCEPT ![t] = [due |-> today + interval, interval |-> interval]]
    BY DEF Grade, Schedule
  <1> HIDE DEF streak, interval, correct
  <1>8. /\ point' \in [Topics -> Point]
        /\ point'[t].known = point[t].known /\ point'[t].mastery = mastery
        /\ point'[t].attempts = point[t].attempts + 1
        /\ point'[t].correct = correct /\ point'[t].due = today + interval
        /\ \A u \in Topics \ {t} : point'[u] = point[u]
    <2>1. point \in [Topics -> Point] /\ point[t] \in Point BY <1>1 DEF TypeOK
    <2>2. point[t].attempts + 1 \in Nat BY <2>1 DEF Point
    <2> DEFINE n == point[t].attempts + 1
               e == today + interval
    <2>3. n \in Nat /\ e \in Nat /\ t \in Topics BY <2>2, <1>1, <1>6
    <2>4. point' = Moved(point, t, mastery, n, streak, correct, e)
      BY <1>4 DEF Moved
    <2>5. n = point[t].attempts + 1 /\ e = today + interval OBVIOUS
    <2> HIDE DEF n, e, t
    <2>6. IsMoved(point, point', t, mastery, n, correct, e)
      BY <2>1, <2>3, <2>4, <1>2, <1>5, MovedFits
    <2> QED BY <2>5, <2>6 DEF IsMoved
  <1>9. /\ review' \in [Topics -> Review] /\ review'[t].due = today + interval
        /\ \A u \in Topics \ {t} : review'[u] = review[u]
    BY <1>1, <1>3, <1>6, <1>7 DEF TypeOK, Review
  <1> DEFINE a == [question |-> q, key |-> key, right |-> right, mastery |-> mastery,
                   due |-> today + interval]
  <1>10. a \in Attempt /\ attempts' = Append(attempts, a)
    BY <1>1, <1>4, <1>5, <1>6 DEF Attempt
  <1>11. attempts' \in Seq(Attempt) /\ Len(attempts') = Len(attempts) + 1
    BY <1>10 DEF TypeOK
  <1>12. told' = IF key = NoKey THEN told ELSE told \cup {Told(Len(attempts))'}
    BY DEF Grade
  <1>13. told' \in SUBSET Answer
    <2>1. CASE key = NoKey BY <2>1, <1>12 DEF TypeOK
    <2>2. CASE key # NoKey
      <3>1. told' = told \cup {Told(Len(attempts))'} BY <2>2 DEF Grade
      <3>2. Told(Len(attempts))' = [key |-> key, attempt |-> Len(attempts) + 1, right |-> right,
               mastery |-> mastery, due |-> today + interval]
        BY <1>4 DEF Told, TypeOK
      <3> QED BY <2>2, <3>1, <3>2, <1>5, <1>6 DEF TypeOK, Answer
    <2> QED BY <2>1, <2>2
  <1>14. /\ session' = [session EXCEPT !.version = @ + 1] /\ session' \in Session
         /\ UNCHANGED <<resources, gen, today>>
    <2>1. session' = [session EXCEPT !.version = @ + 1] /\ UNCHANGED <<resources, gen, today>>
      BY DEF Grade
    <2>2. session \in Session BY DEF TypeOK
    <2> QED BY <2>1, <2>2 DEF Session
  <1>15. TypeOK' BY <1>8, <1>9, <1>11, <1>13, <1>14 DEF TypeOK
  <1>16. ~right => a.due = today
    BY <1>2, IntervalType DEF TypeOK, interval
  <1>17. correct = point[t].correct + (IF right THEN 1 ELSE 0)
    BY <1>1 DEF correct, TypeOK, Point
  <1>18. Graded(key) = {} BY DEF Grade
  <1>19. /\ a.question = q /\ a.key = key /\ a.right = right /\ a.mastery = mastery
         /\ a.due = today + interval
    OBVIOUS
  <1> HIDE DEF a, t
  <1>20. /\ a \in Attempt /\ attempts' = Append(attempts, a)
         /\ a.question = q /\ a.key = key /\ a.right = right
         /\ ~right => a.due = today
         /\ point'[t].known = point[t].known /\ point'[t].mastery = a.mastery
         /\ point'[t].attempts = point[t].attempts + 1
         /\ point'[t].correct = point[t].correct + (IF right THEN 1 ELSE 0)
         /\ point'[t].due = a.due /\ review'[t].due = a.due
         /\ \A u \in Topics \ {t} : point'[u] = point[u] /\ review'[u] = review[u]
    BY <1>8, <1>9, <1>10, <1>16, <1>17, <1>19
  <1> QED BY <1>12, <1>14, <1>15, <1>18, <1>20 DEF t

LEMMA TypeNext == TypeOK /\ [Next]_vars => TypeOK'
  <1> SUFFICES ASSUME TypeOK, [Next]_vars PROVE TypeOK'
    OBVIOUS
  <1> USE Bounds
  <1>1. ASSUME NEW q \in DOMAIN resources, NEW key \in Keys \cup {NoKey},
               NEW right \in BOOLEAN, NEW hints \in Hints,
               SubmitAttempt(q, key, right, hints)
        PROVE  TypeOK'
    <2>1. CASE Duplicate(key)
      <3>1. PICK i \in Graded(key) : told' = told \cup {Told(i)}
        BY <2>1 DEF Duplicate
      <3>2. i \in DOMAIN attempts /\ attempts[i].key = key /\ key # NoKey
        BY DEF Graded
      <3>3. Told(i) \in Answer BY <3>2, AttemptOf DEF Told, Answer, Attempt
      <3> QED BY <2>1, <3>1, <3>3 DEF Duplicate, TypeOK
    <2> QED BY <1>1, <2>1, GradeEffect DEF SubmitAttempt
  <1>2. ASSUME NEW weaknesses \in SUBSET Topics, SaveProfile(weaknesses) PROVE TypeOK'
    <2>1. session' \in Session
      <3>1. session' = [session EXCEPT !.present = TRUE, !.profile = @ + 1]
        BY <1>2 DEF SaveProfile
      <3>2. session \in Session /\ session.profile + 1 \in 0..MaxProfiles
        BY <1>2 DEF SaveProfile, TypeOK, Session
      <3> QED BY <3>1, <3>2 DEF Session
    <2>2. point' \in [Topics -> Point]
      <3>1. ASSUME NEW t \in Topics PROVE point'[t] \in Point
        BY <1>2 DEF SaveProfile, TypeOK, Point
      <3> QED BY <1>2, <3>1 DEF SaveProfile
    <2> QED BY <1>2, <2>1, <2>2 DEF SaveProfile, TypeOK
  <1>3. CASE Ask
    <2>1. gen' = [Idle EXCEPT !.pc = "gate", !.profile = session.profile,
                              !.version = session.version]
          /\ UNCHANGED <<session, point, review, resources, attempts, told, today>>
      BY <1>3 DEF Ask
    <2>2. session.profile \in Nat /\ session.version \in Nat BY DEF TypeOK, Session
    <2>3. gen' \in Gen BY <2>1, <2>2, NewTypes DEF Gen
    <2> QED BY <2>1, <2>3 DEF TypeOK
  <1>4. CASE Lookup
    <2>1. gen' \in Gen BY <1>4, NewTypes DEF Lookup, TypeOK, Gen
    <2> QED BY <1>4, <2>1 DEF Lookup, TypeOK
  <1>5. CASE ReadContext
    <2>1. (IF gen.orphan THEN NoContext ELSE LearningContext) \in Context
      BY NewTypes, LearningContextType
    <2> QED BY <1>5, <2>1 DEF ReadContext, TypeOK, Gen
  <1>6. CASE Fail BY <1>6, NewTypes DEF Fail, TypeOK
  <1>7. ASSUME NEW topic \in Topics, Complete(topic) PROVE TypeOK'
    <2>1. resources' \in Seq(Resource)
      BY <1>7 DEF Complete, Stamp, TypeOK, Gen, Resource
    <2>2. point' \in [Topics -> Point]
      BY <1>7 DEF Complete, TypeOK, Point
    <2> QED BY <1>7, <2>1, <2>2, NewTypes DEF Complete, TypeOK
  <1>8. CASE DeleteSession
    <2>1. gen' \in Gen BY <1>8, NewTypes DEF DeleteSession, TypeOK, Gen
    <2> QED BY <1>8, <2>1, NewTypes DEF DeleteSession, TypeOK
  <1>9. CASE Recreate
    <2>1. session' \in Session BY <1>9, NewTypes DEF Recreate, Session
    <2> QED BY <1>9, <2>1 DEF Recreate, TypeOK
  <1>10. CASE Tomorrow BY <1>10 DEF Tomorrow, TypeOK
  <1>11. CASE UNCHANGED vars BY <1>11 DEF vars, TypeOK
  <1> QED BY <1>1, <1>2, <1>3, <1>4, <1>5, <1>6, <1>7, <1>8, <1>9, <1>10, <1>11 DEF Next

\* The rows, the lists, the message and the day keep their shape.
THEOREM TypeCorrect == Spec => []TypeOK
  BY TypeInit, TypeNext, PTL DEF Spec

-----------------------------------------------------------------------------
(* The places that count answers *)

\* A set of attempts is finite, and so is the part of it that went wrong.
LEMMA AttemptsFinite ==
  ASSUME TypeOK, NEW t \in Topics
  PROVE  /\ IsFiniteSet(AttemptsOn(t)) /\ IsFiniteSet(AttemptsOn(t) \cap MistakeItems)
         /\ AttemptsOn(t) \subseteq DOMAIN attempts
  <1>1. Len(attempts) \in Nat /\ DOMAIN attempts = 1..Len(attempts)
    BY DEF TypeOK
  <1>2. IsFiniteSet(1..Len(attempts)) BY <1>1, FS_Interval
  <1>3. AttemptsOn(t) \subseteq 1..Len(attempts) BY <1>1 DEF AttemptsOn
  <1>4. IsFiniteSet(AttemptsOn(t)) BY <1>2, <1>3, FS_Subset
  <1>5. IsFiniteSet(AttemptsOn(t) \cap MistakeItems) BY <1>4, FS_Subset
  <1> QED BY <1>1, <1>3, <1>4, <1>5

\* The same answers on the same topics: they are counted alike.
SameAnswers ==
  /\ attempts' = attempts
  /\ \A i \in DOMAIN attempts : resources'[attempts[i].question].topic = TopicOf(i)

LEMMA AnswersKept ==
  ASSUME SameAnswers
  PROVE  /\ MistakeItems' = MistakeItems
         /\ \A t \in Topics : AttemptsOn(t)' = AttemptsOn(t) /\ LastOn(t)' = LastOn(t)
  <1>1. MistakeItems' = MistakeItems BY DEF SameAnswers, MistakeItems
  <1>2. \A t \in Topics : AttemptsOn(t)' = AttemptsOn(t)
    BY DEF SameAnswers, AttemptsOn, TopicOf
  <1>3. \A t \in Topics : LastOn(t)' = LastOn(t) BY <1>2 DEF LastOn
  <1> QED BY <1>1, <1>2, <1>3

LEMMA BooksKept ==
  ASSUME HasLast, BooksAgree, SameAnswers,
         session'.version = session.version, review' = review,
         \A t \in Topics : /\ point[t].known => point'[t].known
                           /\ point'[t].attempts = point[t].attempts
                           /\ point'[t].correct = point[t].correct
                           /\ point'[t].mastery = point[t].mastery
                           /\ point'[t].due = point[t].due
  PROVE  HasLast' /\ BooksAgree'
  <1>1. attempts' = attempts BY DEF SameAnswers
  <1>2. HasLast' BY AnswersKept DEF HasLast
  <1>3. session'.version = Len(attempts') BY <1>1 DEF BooksAgree
  <1>4. ASSUME NEW t \in Topics
        PROVE  /\ point'[t].attempts = Cardinality(AttemptsOn(t)')
               /\ point'[t].attempts - point'[t].correct =
                    Cardinality(AttemptsOn(t)' \cap MistakeItems')
               /\ AttemptsOn(t)' = {} => review'[t] = NoReview /\ point'[t].due = Never
               /\ AttemptsOn(t)' # {} =>
                    /\ point'[t].known
                    /\ review'[t].due = attempts'[LastOn(t)'].due
                    /\ point'[t].due = attempts'[LastOn(t)'].due
                    /\ point'[t].mastery = attempts'[LastOn(t)'].mastery
    <2>1. /\ AttemptsOn(t)' = AttemptsOn(t) /\ MistakeItems' = MistakeItems
          /\ LastOn(t)' = LastOn(t)
      BY AnswersKept
    <2> QED BY <1>1, <2>1 DEF BooksAgree
  <1>5. BooksAgree' BY <1>3, <1>4 DEF BooksAgree, NoReview, Never
  <1> QED BY <1>2, <1>5

\* The one attempt that is appended.
Appended(q, a) ==
  /\ DOMAIN attempts' = DOMAIN attempts \cup {Len(attempts) + 1}
  /\ Len(attempts) + 1 \notin DOMAIN attempts
  /\ Len(attempts') = Len(attempts) + 1
  /\ attempts'[Len(attempts) + 1] = a /\ a.question = q
  /\ \A i \in DOMAIN attempts : attempts'[i] = attempts[i] /\ i <= Len(attempts)
  /\ resources' = resources

LEMMA AppendFits ==
  ASSUME TypeOK, NEW q, NEW a \in Attempt, a.question = q, resources' = resources,
         attempts' = Append(attempts, a)
  PROVE  Appended(q, a)
  BY DEF Appended, TypeOK

\* The attempts on every topic after an answer to question q.
LEMMA OneMore ==
  ASSUME TypeOK, NEW q \in DOMAIN resources, NEW a \in Attempt, Appended(q, a),
         NEW n, n = Len(attempts) + 1, NEW t, t = resources[q].topic
  PROVE  /\ AttemptsOn(t)' = AttemptsOn(t) \cup {n}
         /\ \A u \in Topics \ {t} : AttemptsOn(u)' = AttemptsOn(u)
         /\ MistakeItems' = MistakeItems \cup (IF a.right THEN {} ELSE {n})
         /\ n \notin DOMAIN attempts
         /\ LastOn(t)' = n
         /\ \A u \in Topics \ {t} : LastOn(u)' = LastOn(u)
  <1>0. t \in Topics /\ Len(attempts) \in Nat BY ResourceOf DEF TypeOK
  <1>1. n \notin DOMAIN attempts /\ DOMAIN attempts' = DOMAIN attempts \cup {n}
    BY DEF Appended
  <1>2. \A i \in DOMAIN attempts : resources'[attempts'[i].question].topic = TopicOf(i)
    BY DEF Appended, TopicOf
  <1>3. resources'[attempts'[n].question].topic = t
    BY DEF Appended
  <1>4. AttemptsOn(t)' = AttemptsOn(t) \cup {n}
    <2>1. AttemptsOn(t)' = {i \in DOMAIN attempts' : resources'[attempts'[i].question].topic = t}
      BY DEF AttemptsOn, TopicOf, Appended
    <2> QED BY <2>1, <1>1, <1>2, <1>3 DEF AttemptsOn
  <1>5. ASSUME NEW u \in Topics \ {t} PROVE AttemptsOn(u)' = AttemptsOn(u)
    <2>1. AttemptsOn(u)' = {i \in DOMAIN attempts' : resources'[attempts'[i].question].topic = u}
      BY DEF AttemptsOn, TopicOf
    <2> QED BY <2>1, <1>1, <1>2, <1>3 DEF AttemptsOn
  <1>6. MistakeItems' = MistakeItems \cup (IF a.right THEN {} ELSE {n})
    <2>1. MistakeItems' = {i \in DOMAIN attempts' : ~attempts'[i].right}
      BY DEF MistakeItems
    <2>2. \A i \in DOMAIN attempts : attempts'[i] = attempts[i] BY DEF Appended
    <2>3. attempts'[n] = a BY DEF Appended
    <2> QED BY <2>1, <2>2, <2>3, <1>1 DEF MistakeItems
  <1>7. LastOn(t)' = n
    <2>1. LastOn(t)' = CHOOSE i \in AttemptsOn(t)' : \A k \in AttemptsOn(t)' : k <= i
      BY DEF LastOn, Appended, AttemptsOn, TopicOf
    <2>2. \A k \in AttemptsOn(t) : k \in Nat /\ k < n
      BY <1>0 DEF AttemptsOn, Appended, TypeOK
    <2>3. n \in Nat BY <1>0
    <2>4. \A i \in AttemptsOn(t)' : (\A k \in AttemptsOn(t)' : k <= i) <=> i = n
      BY <1>4, <2>2, <2>3
    <2> QED BY <1>4, <2>1, <2>4
  <1>8. \A u \in Topics \ {t} : LastOn(u)' = LastOn(u) BY <1>5 DEF LastOn
  <1> QED BY <1>1, <1>4, <1>5, <1>6, <1>7, <1>8

\* An answer is counted once in every place.
LEMMA BooksGraded ==
  ASSUME TypeOK, Safe, NEW q \in DOMAIN resources, NEW key \in Keys \cup {NoKey},
         NEW right \in BOOLEAN, NEW hints \in Hints, Grade(q, key, right, hints)
  PROVE  HasLast' /\ BooksAgree'
  <1> SUFFICES ASSUME NEW n, n = Len(attempts) + 1, NEW t, t = resources[q].topic
               PROVE  HasLast' /\ BooksAgree'
    OBVIOUS
  <1>1. /\ UNCHANGED resources
        /\ session' = [session EXCEPT !.version = @ + 1]
    BY GradeEffect
  <1>2. PICK a \in Attempt :
          /\ attempts' = Append(attempts, a)
          /\ a.question = q /\ a.right = right
          /\ point'[t].known = point[t].known /\ point'[t].mastery = a.mastery
          /\ point'[t].attempts = point[t].attempts + 1
          /\ point'[t].correct = point[t].correct + (IF right THEN 1 ELSE 0)
          /\ point'[t].due = a.due /\ review'[t].due = a.due
          /\ \A u \in Topics \ {t} : point'[u] = point[u] /\ review'[u] = review[u]
    BY GradeEffect
  <1>3. Appended(q, a) BY <1>1, <1>2, AppendFits
  <1>4. /\ AttemptsOn(t)' = AttemptsOn(t) \cup {n}
        /\ \A u \in Topics \ {t} : AttemptsOn(u)' = AttemptsOn(u)
        /\ MistakeItems' = MistakeItems \cup (IF a.right THEN {} ELSE {n})
        /\ n \notin DOMAIN attempts
        /\ LastOn(t)' = n
        /\ \A u \in Topics \ {t} : LastOn(u)' = LastOn(u)
    BY <1>3, OneMore
  <1>5. t \in Topics /\ point[t] \in Point /\ Len(attempts) \in Nat
    BY ResourceOf DEF TypeOK
  <1>6. attempts'[n] = a /\ Len(attempts') = n /\ \A i \in DOMAIN attempts : attempts'[i] = attempts[i]
    BY <1>3 DEF Appended
  <1>7. session'.version = Len(attempts')
    BY <1>1, <1>6 DEF Safe, BooksAgree, TypeOK, Session
  <1>8. point[t].known BY DEF Safe, TopicsKnown
  <1>9. /\ IsFiniteSet(AttemptsOn(t)) /\ IsFiniteSet(AttemptsOn(t) \cap MistakeItems)
        /\ AttemptsOn(t) \subseteq DOMAIN attempts
    BY <1>5, AttemptsFinite
  <1>10. HasLast'
    <2>1. LastOn(t)' \in AttemptsOn(t)' BY <1>4
    <2>2. \A u \in Topics \ {t} : AttemptsOn(u)' # {} => LastOn(u)' \in AttemptsOn(u)'
      BY <1>4 DEF Safe, HasLast
    <2> QED BY <2>1, <2>2 DEF HasLast
  <1>11. /\ point'[t].attempts = Cardinality(AttemptsOn(t)')
         /\ point'[t].attempts - point'[t].correct = Cardinality(AttemptsOn(t)' \cap MistakeItems')
    <2>1. n \notin AttemptsOn(t) BY <1>4, <1>9
    <2>2. Cardinality(AttemptsOn(t)') = Cardinality(AttemptsOn(t)) + 1
      <3>1. Cardinality(AttemptsOn(t) \cup {n}) = Cardinality(AttemptsOn(t)) + 1
        BY <1>9, <2>1, FS_AddElement
      <3> QED BY <1>4, <3>1
    <2>3. /\ point[t].attempts = Cardinality(AttemptsOn(t))
          /\ point[t].attempts - point[t].correct = Cardinality(AttemptsOn(t) \cap MistakeItems)
          /\ point[t].attempts \in Nat /\ point[t].correct \in Nat
      BY <1>5 DEF Safe, BooksAgree, Point
    <2>4. CASE right
      <3>1. AttemptsOn(t)' \cap MistakeItems' = AttemptsOn(t) \cap MistakeItems
        BY <1>2, <1>4, <2>4 DEF MistakeItems
      <3>2. Cardinality(AttemptsOn(t)' \cap MistakeItems')
              = Cardinality(AttemptsOn(t) \cap MistakeItems)
        BY <3>1
      <3>3. point'[t].attempts = point[t].attempts + 1 /\ point'[t].correct = point[t].correct + 1
        BY <1>2, <2>4
      <3> QED BY <2>2, <2>3, <3>2, <3>3
    <2>5. CASE ~right
      <3>1. AttemptsOn(t)' \cap MistakeItems' = (AttemptsOn(t) \cap MistakeItems) \cup {n}
        BY <1>2, <1>4, <2>5
      <3>2. Cardinality(AttemptsOn(t)' \cap MistakeItems')
              = Cardinality(AttemptsOn(t) \cap MistakeItems) + 1
        <4> DEFINE M == AttemptsOn(t) \cap MistakeItems
        <4>1. IsFiniteSet(M) /\ n \notin M BY <1>9, <2>1
        <4> HIDE DEF M
        <4>2. Cardinality(M \cup {n}) = Cardinality(M) + 1 BY <4>1, FS_AddElement
        <4> QED BY <3>1, <4>2 DEF M
      <3>3. /\ point'[t].attempts = point[t].attempts + 1
            /\ point'[t].correct = point[t].correct + 0
        BY <1>2, <2>5
      <3> QED BY <2>2, <2>3, <3>2, <3>3
    <2> QED BY <2>4, <2>5
  <1>12. /\ AttemptsOn(t)' # {} /\ point'[t].known
         /\ review'[t].due = attempts'[LastOn(t)'].due
         /\ point'[t].due = attempts'[LastOn(t)'].due
         /\ point'[t].mastery = attempts'[LastOn(t)'].mastery
    BY <1>2, <1>4, <1>6, <1>8
  <1>13. ASSUME NEW u \in Topics \ {t}
         PROVE  /\ point'[u].attempts = Cardinality(AttemptsOn(u)')
                /\ point'[u].attempts - point'[u].correct =
                     Cardinality(AttemptsOn(u)' \cap MistakeItems')
                /\ AttemptsOn(u)' = {} => review'[u] = NoReview /\ point'[u].due = Never
                /\ AttemptsOn(u)' # {} =>
                     /\ point'[u].known
                     /\ review'[u].due = attempts'[LastOn(u)'].due
                     /\ point'[u].due = attempts'[LastOn(u)'].due
                     /\ point'[u].mastery = attempts'[LastOn(u)'].mastery
    <2>1. /\ point'[u] = point[u] /\ review'[u] = review[u]
          /\ AttemptsOn(u)' = AttemptsOn(u) /\ LastOn(u)' = LastOn(u)
      BY <1>2, <1>4
    <2>2. AttemptsOn(u)' \cap MistakeItems' = AttemptsOn(u) \cap MistakeItems
      BY <1>4, <2>1 DEF AttemptsOn
    <2>3. AttemptsOn(u) # {} => attempts'[LastOn(u)] = attempts[LastOn(u)]
      BY <1>6 DEF Safe, HasLast, AttemptsOn
    <2> QED BY <2>1, <2>2, <2>3 DEF Safe, BooksAgree
  <1>14. BooksAgree'
    <2>1. ASSUME NEW u \in Topics
          PROVE  /\ point'[u].attempts = Cardinality(AttemptsOn(u)')
                 /\ point'[u].attempts - point'[u].correct =
                      Cardinality(AttemptsOn(u)' \cap MistakeItems')
                 /\ AttemptsOn(u)' = {} => review'[u] = NoReview /\ point'[u].due = Never
                 /\ AttemptsOn(u)' # {} =>
                      /\ point'[u].known
                      /\ review'[u].due = attempts'[LastOn(u)'].due
                      /\ point'[u].due = attempts'[LastOn(u)'].due
                      /\ point'[u].mastery = attempts'[LastOn(u)'].mastery
      BY <1>11, <1>12, <1>13
    <2> QED BY <1>7, <2>1 DEF BooksAgree, NoReview, Never
  <1> QED BY <1>10, <1>14

-----------------------------------------------------------------------------
(* The invariant *)

\* An answer leaves the rest of the invariant in place.
LEMMA GradeSafe ==
  ASSUME TypeOK, Safe, NEW q \in DOMAIN resources, NEW key \in Keys \cup {NoKey},
         NEW right \in BOOLEAN, NEW hints \in Hints, Grade(q, key, right, hints)
  PROVE  Safe'
  <1> SUFFICES ASSUME NEW n, n = Len(attempts) + 1
               PROVE  Safe'
    OBVIOUS
  <1>1. /\ TypeOK' /\ UNCHANGED <<resources, gen, today>> /\ Graded(key) = {}
        /\ session' = [session EXCEPT !.version = @ + 1]
        /\ told' = IF key = NoKey THEN told ELSE told \cup {Told(Len(attempts))'}
    BY GradeEffect
  <1>2. PICK a \in Attempt :
          /\ attempts' = Append(attempts, a)
          /\ a.question = q /\ a.key = key /\ a.right = right
          /\ ~right => a.due = today
          /\ point'[resources[q].topic].known = point[resources[q].topic].known
          /\ \A u \in Topics \ {resources[q].topic} : point'[u] = point[u]
    BY GradeEffect
  <1>3. Appended(q, a) BY <1>1, <1>2, AppendFits
  <1>4. /\ DOMAIN attempts' = DOMAIN attempts \cup {n} /\ n \notin DOMAIN attempts
        /\ Len(attempts') = n /\ attempts'[n] = a
        /\ \A i \in DOMAIN attempts : attempts'[i] = attempts[i]
    BY <1>3 DEF Appended
  <1>5. session'.version = session.version + 1 /\ session'.present = session.present
        /\ session.version \in Nat
    BY <1>1 DEF TypeOK, Session
  <1>6. NothingWithoutRow'
    <2>1. resources # <<>> BY DEF TypeOK
    <2> QED BY <1>1, <1>5, <2>1 DEF Safe, NothingWithoutRow
  <1>7. QuestionsExist' BY <1>1, <1>2, <1>4 DEF Safe, QuestionsExist
  <1>8. TopicsKnown'
    <2>1. \A r \in DOMAIN resources : resources[r].topic \in Topics BY ResourceOf
    <2> QED BY <1>1, <1>2, <2>1 DEF Safe, TopicsKnown
  <1>9. KeysOnce'
    <2>1. \A i \in DOMAIN attempts : key # NoKey => attempts[i].key # key
      BY <1>1 DEF Graded
    <2> QED BY <1>2, <1>4, <2>1 DEF Safe, KeysOnce
  <1>10. ToldFits'
    <2>1. \A i \in DOMAIN attempts : Told(i)' = Told(i) BY <1>4 DEF Told
    <2>2. \A b \in told : \E i \in DOMAIN attempts' : attempts'[i].key # NoKey /\ b = Told(i)'
      BY <1>4, <2>1 DEF Safe, ToldFits
    <2>3. Told(Len(attempts))' = Told(n)' BY <1>4 DEF Told
    <2>4. key # NoKey => \E i \in DOMAIN attempts' : attempts'[i].key # NoKey
                                                     /\ Told(Len(attempts))' = Told(i)'
      BY <1>2, <1>4, <2>3
    <2>5. \A b \in told' : \E i \in DOMAIN attempts' : attempts'[i].key # NoKey /\ b = Told(i)'
      BY <1>1, <2>2, <2>4
    <2> QED BY <2>5 DEF ToldFits
  <1>11. WrongIsDue' BY <1>1, <1>2, <1>4 DEF Safe, WrongIsDue, TypeOK
  <1>12. ContextsFit'
    <2>1. \A r \in DOMAIN resources : resources[r].context.version \in Nat
      BY ResourceOf DEF Resource, Context
    <2>2. gen.version \in Nat /\ gen.context.version \in Nat BY DEF TypeOK, Gen, Context
    <2> QED BY <1>1, <1>5, <2>1, <2>2 DEF Safe, ContextsFit
  <1> QED BY <1>6, <1>7, <1>8, <1>9, <1>10, <1>11, <1>12, BooksGraded DEF Safe

LEMMA SafeInit == Init => Safe
  <1> SUFFICES ASSUME Init PROVE Safe
    OBVIOUS
  <1>1. session = NoSession /\ session.present = FALSE /\ session.version = 0
    BY DEF Init, NoSession
  <1>2. attempts = <<>> /\ resources = <<>> /\ told = {} /\ gen.pc = "idle"
    BY DEF Init, Idle
  <1>3. \A t \in Topics : AttemptsOn(t) = {} BY <1>2 DEF AttemptsOn
  <1>4. BooksAgree /\ HasLast
    <2>1. ASSUME NEW t \in Topics
          PROVE  point[t].attempts = 0 /\ point[t].correct = 0 /\ review[t] = NoReview
                 /\ point[t].due = Never
      BY DEF Init, NewPoint
    <2>2. ASSUME NEW t \in Topics
          PROVE  Cardinality(AttemptsOn(t)) = 0 /\ Cardinality(AttemptsOn(t) \cap MistakeItems) = 0
      <3>1. AttemptsOn(t) \cap MistakeItems = {} BY <1>3
      <3> QED BY <1>3, <3>1, FS_EmptySet
    <2>3. Len(attempts) = 0 BY <1>2
    <2> QED BY <1>1, <1>3, <2>1, <2>2, <2>3 DEF BooksAgree, HasLast
  <1>5. NothingWithoutRow /\ QuestionsExist /\ TopicsKnown
    BY <1>1, <1>2 DEF NothingWithoutRow, QuestionsExist, TopicsKnown
  <1>6. KeysOnce /\ ToldFits /\ WrongIsDue /\ ContextsFit
    BY <1>2 DEF KeysOnce, ToldFits, WrongIsDue, ContextsFit
  <1> QED BY <1>4, <1>5, <1>6 DEF Safe

\* The parts of the invariant that a step leaves alone.
LEMMA AnswersStay ==
  ASSUME Safe, UNCHANGED <<attempts, told>>
  PROVE  KeysOnce' /\ ToldFits'
  <1>1. \A i \in DOMAIN attempts : Told(i)' = Told(i) BY DEF Told
  <1> QED BY <1>1 DEF Safe, KeysOnce, ToldFits

LEMMA SafeNext == TypeOK /\ Safe /\ [Next]_vars => Safe'
  <1> SUFFICES ASSUME TypeOK, Safe, [Next]_vars PROVE Safe'
    OBVIOUS
  <1> USE DEF Safe
  <1>a. ASSUME UNCHANGED <<attempts, resources>> PROVE SameAnswers
    BY <1>a DEF SameAnswers, TopicOf
  <1>b. ASSUME UNCHANGED <<session, point, review, resources, attempts>>
        PROVE  /\ NothingWithoutRow' /\ QuestionsExist' /\ TopicsKnown'
               /\ HasLast' /\ BooksAgree'
    <2>1. NothingWithoutRow' /\ QuestionsExist' /\ TopicsKnown'
      BY <1>b DEF NothingWithoutRow, QuestionsExist, TopicsKnown
    <2>2. SameAnswers BY <1>a, <1>b
    <2> QED BY <1>b, <2>1, <2>2, BooksKept
  <1>1. ASSUME NEW q \in DOMAIN resources, NEW key \in Keys \cup {NoKey},
               NEW right \in BOOLEAN, NEW hints \in Hints,
               SubmitAttempt(q, key, right, hints)
        PROVE  Safe'
    <2>1. CASE Duplicate(key)
      <3>1. PICK i \in Graded(key) : told' = told \cup {Told(i)}
        BY <2>1 DEF Duplicate
      <3>2. UNCHANGED <<session, point, review, resources, attempts, gen, today>>
        BY <2>1 DEF Duplicate
      <3>3. i \in DOMAIN attempts /\ attempts[i].key # NoKey BY DEF Graded
      <3>4. ToldFits'
        <4>1. \A k \in DOMAIN attempts : Told(k)' = Told(k) BY <3>2 DEF Told
        <4> QED BY <3>1, <3>2, <3>3, <4>1 DEF ToldFits
      <3>5. KeysOnce' /\ WrongIsDue' /\ ContextsFit'
        BY <3>2 DEF KeysOnce, WrongIsDue, ContextsFit
      <3> QED BY <1>b, <3>2, <3>4, <3>5
    <2>2. CASE Grade(q, key, right, hints) BY <2>2, GradeSafe
    <2> QED BY <1>1, <2>1, <2>2 DEF SubmitAttempt
  <1>2. ASSUME NEW weaknesses \in SUBSET Topics, SaveProfile(weaknesses) PROVE Safe'
    <2>1. /\ session' = [session EXCEPT !.present = TRUE, !.profile = @ + 1]
          /\ point' = [t \in Topics |-> [point[t] EXCEPT !.known = @ \/ t \in weaknesses]]
          /\ UNCHANGED <<review, resources, attempts, told, gen, today>>
          /\ gen.pc = "idle"
      BY <1>2 DEF SaveProfile
    <2>2. session'.present = TRUE /\ session'.version = session.version
      BY <2>1 DEF TypeOK, Session
    <2>3. ASSUME NEW t \in Topics
          PROVE  /\ point[t].known => point'[t].known
                 /\ point'[t].attempts = point[t].attempts
                 /\ point'[t].correct = point[t].correct
                 /\ point'[t].mastery = point[t].mastery
                 /\ point'[t].due = point[t].due
      <3>1. point[t] \in Point BY DEF TypeOK
      <3>2. point'[t] = [point[t] EXCEPT !.known = @ \/ t \in weaknesses] BY <2>1
      <3> QED BY <3>1, <3>2 DEF Point
    <2>4. HasLast' /\ BooksAgree' BY <1>a, <2>1, <2>2, <2>3, BooksKept
    <2>5. NothingWithoutRow' /\ QuestionsExist'
      BY <2>1, <2>2 DEF NothingWithoutRow, QuestionsExist
    <2>6. TopicsKnown'
      <3>1. \A r \in DOMAIN resources : resources[r].topic \in Topics BY ResourceOf
      <3> QED BY <2>1, <2>3, <3>1 DEF TopicsKnown
    <2>7. WrongIsDue' BY <2>1 DEF WrongIsDue
    <2>8. ContextsFit' BY <2>1, <2>2 DEF ContextsFit
    <2> QED BY <2>1, <2>4, <2>5, <2>6, <2>7, <2>8, AnswersStay
  <1>3. CASE Ask
    <2>1. UNCHANGED <<session, point, review, resources, attempts, told, today>> BY <1>3 DEF Ask
    <2>2. gen'.pc = "gate" /\ gen'.version = session.version
      BY <1>3 DEF Ask, Idle
    <2>3. WrongIsDue' BY <2>1 DEF WrongIsDue
    <2>4. ContextsFit' BY <2>1, <2>2 DEF ContextsFit, TypeOK, Session
    <2> QED BY <1>b, <2>1, <2>3, <2>4, AnswersStay
  <1>4. CASE Lookup
    <2>1. UNCHANGED <<session, point, review, resources, attempts, told, today>>
      BY <1>4 DEF Lookup
    <2>2. \/ gen'.pc = "idle"
          \/ /\ gen'.pc = "search" /\ gen'.version = gen.version /\ gen'.orphan = gen.orphan
             /\ gen.pc = "gate"
      <3>1. gen \in Gen /\ gen.pc = "gate" BY <1>4 DEF Lookup, TypeOK
      <3>2. PICK grounded \in BOOLEAN :
              gen' = Idle \/ gen' = [gen EXCEPT !.pc = "search", !.grounded = grounded]
        BY <1>4 DEF Lookup
      <3>3. CASE gen' = Idle BY <3>3 DEF Idle
      <3>4. CASE gen' = [gen EXCEPT !.pc = "search", !.grounded = grounded]
        BY <3>1, <3>4 DEF Gen
      <3> QED BY <3>2, <3>3, <3>4
    <2>3. WrongIsDue' BY <2>1 DEF WrongIsDue
    <2>4. ContextsFit' BY <2>1, <2>2 DEF ContextsFit
    <2> QED BY <1>b, <2>1, <2>3, <2>4, AnswersStay
  <1>5. CASE ReadContext
    <2>1. UNCHANGED <<session, point, review, resources, attempts, told, today>>
      BY <1>5 DEF ReadContext
    <2>2. /\ gen'.pc = "model" /\ gen'.version = gen.version /\ gen'.orphan = gen.orphan
          /\ ~gen.orphan => gen'.context.version = session.version
          /\ gen.pc = "search"
      BY <1>5 DEF ReadContext, TypeOK, Gen, LearningContext
    <2>3. WrongIsDue' BY <2>1 DEF WrongIsDue
    <2>4. ContextsFit' BY <2>1, <2>2 DEF ContextsFit, TypeOK, Session
    <2> QED BY <1>b, <2>1, <2>3, <2>4, AnswersStay
  <1>6. CASE Fail
    <2>1. UNCHANGED <<session, point, review, resources, attempts, told, today>>
      BY <1>6 DEF Fail
    <2>2. gen'.pc = "idle" BY <1>6 DEF Fail, Idle
    <2>3. WrongIsDue' BY <2>1 DEF WrongIsDue
    <2>4. ContextsFit' BY <2>1, <2>2 DEF ContextsFit
    <2> QED BY <1>b, <2>1, <2>3, <2>4, AnswersStay
  <1>7. ASSUME NEW topic \in Topics, Complete(topic) PROVE Safe'
    <2> DEFINE r == [topic |-> topic, profile |-> gen.profile, stamp |-> gen.version,
                     grounded |-> gen.grounded, context |-> gen.context,
                     orphan |-> gen.orphan]
               n == Len(resources) + 1
    <2>1. /\ UNCHANGED <<session, review, attempts, told, today>>
          /\ gen.pc = "model" /\ session.present
          /\ resources' = Append(resources, r)
          /\ point' = [point EXCEPT ![topic].known = TRUE]
          /\ gen' = Idle
      BY <1>7 DEF Complete, Stamp
    <2>2. /\ DOMAIN resources' = DOMAIN resources \cup {n}
          /\ resources'[n] = r
          /\ \A i \in DOMAIN resources : resources'[i] = resources[i]
      BY <2>1 DEF TypeOK
    <2>3. r.topic = topic /\ r.stamp = gen.version /\ r.context = gen.context
          /\ r.orphan = gen.orphan
      OBVIOUS
    <2> HIDE DEF r, n
    <2>4. SameAnswers
      BY <2>1, <2>2 DEF SameAnswers, TopicOf, QuestionsExist
    <2>5. ASSUME NEW t \in Topics
          PROVE  /\ point[t].known => point'[t].known
                 /\ point'[t].attempts = point[t].attempts
                 /\ point'[t].correct = point[t].correct
                 /\ point'[t].mastery = point[t].mastery
                 /\ point'[t].due = point[t].due
                 /\ t = topic => point'[t].known
      <3>1. point[t] \in Point BY DEF TypeOK
      <3>2. point'[t] = IF t = topic THEN [point[t] EXCEPT !.known = TRUE] ELSE point[t]
        BY <2>1 DEF TypeOK
      <3> QED BY <3>1, <3>2 DEF Point
    <2>6. HasLast' /\ BooksAgree' BY <2>1, <2>4, <2>5, BooksKept
    <2>7. NothingWithoutRow' /\ QuestionsExist'
      BY <2>1, <2>2 DEF NothingWithoutRow, QuestionsExist
    <2>8. TopicsKnown'
      <3>1. \A i \in DOMAIN resources : resources[i].topic \in Topics BY ResourceOf
      <3> QED BY <2>2, <2>3, <2>5, <3>1 DEF TopicsKnown
    <2>9. WrongIsDue' BY <2>1 DEF WrongIsDue
    <2>10. ContextsFit'
      <3>1. gen'.pc = "idle" BY <2>1 DEF Idle
      <3>2. ~gen.orphan => /\ gen.version <= gen.context.version
                           /\ gen.context.version <= session.version
        BY <2>1 DEF ContextsFit
      <3> QED BY <2>1, <2>2, <2>3, <3>1, <3>2 DEF ContextsFit
    <2> QED BY <2>1, <2>6, <2>7, <2>8, <2>9, <2>10, AnswersStay
  <1>8. CASE DeleteSession
    <2>1. /\ session' = NoSession /\ resources' = <<>> /\ attempts' = <<>> /\ told' = {}
          /\ point' = [t \in Topics |-> NewPoint] /\ review' = [t \in Topics |-> NoReview]
          /\ gen' = [gen EXCEPT !.orphan = gen.pc # "idle", !.context = NoContext]
      BY <1>8 DEF DeleteSession
    <2>2. \A t \in Topics : AttemptsOn(t)' = {} BY <2>1 DEF AttemptsOn
    <2>3. BooksAgree' /\ HasLast'
      <3>1. session'.version = 0 /\ Len(attempts') = 0 BY <2>1 DEF NoSession
      <3>2. ASSUME NEW t \in Topics
            PROVE  point'[t].attempts = 0 /\ point'[t].correct = 0 /\ review'[t] = NoReview
                   /\ point'[t].due = Never
        BY <2>1 DEF NewPoint
      <3>3. NoReview' = NoReview /\ Never' = Never BY DEF NoReview, Never
      <3>4. ASSUME NEW t \in Topics
            PROVE  /\ Cardinality(AttemptsOn(t)') = 0
                   /\ Cardinality(AttemptsOn(t)' \cap MistakeItems') = 0
        <4>1. AttemptsOn(t)' \cap MistakeItems' = {} BY <2>2
        <4> QED BY <2>2, <4>1, FS_EmptySet
      <3> QED BY <2>2, <3>1, <3>2, <3>3, <3>4 DEF BooksAgree, HasLast
    <2>4. NothingWithoutRow' /\ QuestionsExist' /\ TopicsKnown'
      BY <2>1 DEF NothingWithoutRow, QuestionsExist, TopicsKnown, NoSession
    <2>5. KeysOnce' /\ ToldFits' /\ WrongIsDue'
      BY <2>1 DEF KeysOnce, ToldFits, WrongIsDue
    <2>6. ContextsFit'
      <3>1. gen \in Gen BY DEF TypeOK
      <3>2. CASE gen.pc = "idle"
        <4>1. gen'.pc = "idle" BY <2>1, <3>1, <3>2 DEF Gen
        <4> QED BY <2>1, <4>1 DEF ContextsFit
      <3>3. CASE gen.pc # "idle"
        <4>1. gen' = [gen EXCEPT !.orphan = TRUE, !.context = NoContext] BY <2>1, <3>3
        <4>2. gen'.orphan BY <3>1, <4>1 DEF Gen
        <4> QED BY <2>1, <4>2 DEF ContextsFit
      <3> QED BY <3>2, <3>3
    <2> QED BY <2>3, <2>4, <2>5, <2>6
  <1>9. CASE Recreate
    <2>1. /\ ~session.present /\ session' = [NoSession EXCEPT !.present = TRUE]
          /\ UNCHANGED <<point, review, resources, attempts, told, gen, today>>
      BY <1>9 DEF Recreate
    <2>2. session'.present = TRUE /\ session'.version = session.version
      BY <2>1 DEF NothingWithoutRow, NoSession
    <2>3. HasLast' /\ BooksAgree' BY <1>a, <2>1, <2>2, BooksKept
    <2>4. NothingWithoutRow' /\ QuestionsExist' /\ TopicsKnown'
      BY <2>1, <2>2 DEF NothingWithoutRow, QuestionsExist, TopicsKnown
    <2>5. WrongIsDue' BY <2>1 DEF WrongIsDue
    <2>6. ContextsFit' BY <2>1, <2>2 DEF ContextsFit
    <2> QED BY <2>1, <2>3, <2>4, <2>5, <2>6, AnswersStay
  <1>10. CASE Tomorrow
    <2>1. /\ today' = today + 1
          /\ UNCHANGED <<session, point, review, resources, attempts, told, gen>>
      BY <1>10 DEF Tomorrow
    <2>2. WrongIsDue'
      <3>1. \A i \in DOMAIN attempts : attempts[i].due \in Nat BY AttemptOf DEF Attempt
      <3>2. today \in Nat BY Bounds DEF TypeOK
      <3> QED BY <2>1, <3>1, <3>2 DEF WrongIsDue
    <2>3. ContextsFit' BY <2>1 DEF ContextsFit
    <2> QED BY <1>b, <2>1, <2>2, <2>3, AnswersStay
  <1>11. CASE UNCHANGED vars
    <2>1. UNCHANGED <<session, point, review, resources, attempts, told, gen, today>>
      BY <1>11 DEF vars
    <2>2. WrongIsDue' /\ ContextsFit' BY <2>1 DEF WrongIsDue, ContextsFit
    <2> QED BY <1>b, <2>1, <2>2, AnswersStay
  <1> QED BY <1>1, <1>2, <1>3, <1>4, <1>5, <1>6, <1>7, <1>8, <1>9, <1>10, <1>11 DEF Next

-----------------------------------------------------------------------------
(* What a prompt said stays true while nothing is answered *)

LEMMA NothingMoved ==
  ASSUME NEW c, StillTrue(c), UNCHANGED <<point, review, today>>,
         session'.version = session.version
  PROVE  StillTrue(c)'
  BY DEF StillTrue, Shown, NextActions, Known, Due, FirstDue, Weakest

\* points that are added change neither mastery nor counts
LEMMA PointsAdded ==
  ASSUME TypeOK, NEW c, StillTrue(c), UNCHANGED <<review, today>>,
         session'.version = session.version,
         \A t \in Topics : /\ point[t].known => point'[t].known
                           /\ point'[t].attempts = point[t].attempts
                           /\ point'[t].correct = point[t].correct
                           /\ point'[t].mastery = point[t].mastery
  PROVE  StillTrue(c)'
  <1>1. Known \subseteq Known' BY DEF Known
  <1>2. Shown' = Shown BY DEF Shown
  <1>3. Due' = Due /\ FirstDue' = FirstDue BY DEF Due, FirstDue
  <1>4. \A t, u \in Topics : Before(point[t], point[u])' <=> Before(point[t], point[u])
    BY DEF Before
  <1>5. \A t \in Topics : PracticeOf(point[t])' = PracticeOf(point[t]) BY DEF PracticeOf
  <1>6. Known' = Known => Weakest' = Weakest
    <2>1. Known \subseteq Topics BY DEF Known
    <2> HIDE DEF Known
    <2> QED BY <1>4, <2>1 DEF Weakest
  <1>7. Known' = Known => NextActions' = NextActions
    <2>1. Weakest \subseteq Topics BY DEF Weakest, Known
    <2> HIDE DEF Weakest, FirstDue, Due, PracticeOf
    <2> QED BY <1>3, <1>5, <1>6, <2>1 DEF NextActions
  <1> HIDE DEF Known, Shown, NextActions
  <1>8. c.known \subseteq Known /\ (c.known = Known' => Known' = Known)
    BY <1>1 DEF StillTrue
  <1> QED BY <1>1, <1>2, <1>7, <1>8 DEF StillTrue

LEMMA Answered ==
  ASSUME TypeOK, NEW c, StillTrue(c), UNCHANGED today, Known' = Known,
         session'.version = session.version + 1
  PROVE  StillTrue(c)'
  <1>1. session.version \in Nat BY DEF TypeOK, Session
  <1> HIDE DEF Known, Shown, NextActions
  <1> QED BY <1>1 DEF StillTrue

LEMMA DayPassed ==
  ASSUME TypeOK, NEW c, StillTrue(c), UNCHANGED <<session, point, review>>,
         today' = today + 1
  PROVE  StillTrue(c)'
  <1>1. today \in Nat BY Bounds DEF TypeOK
  <1>2. Shown' = Shown /\ Known' = Known BY DEF Shown, Known
  <1> HIDE DEF Known, Shown, NextActions
  <1> QED BY <1>1, <1>2 DEF StillTrue

LEMMA StaysTrue ==
  ASSUME TypeOK, Safe, [Next]_vars, ~DeleteSession, NEW c, StillTrue(c)
  PROVE  StillTrue(c)'
  <1>1. ASSUME NEW q \in DOMAIN resources, NEW key \in Keys \cup {NoKey},
               NEW right \in BOOLEAN, NEW hints \in Hints,
               SubmitAttempt(q, key, right, hints)
        PROVE  StillTrue(c)'
    <2>1. CASE Duplicate(key) BY <2>1, NothingMoved DEF Duplicate
    <2>2. CASE Grade(q, key, right, hints)
      <3>1. /\ session' = [session EXCEPT !.version = @ + 1] /\ UNCHANGED today
            /\ \A t \in Topics : point'[t].known = point[t].known
        BY <2>2, GradeEffect
      <3>2. session'.version = session.version + 1 BY <3>1 DEF TypeOK, Session
      <3>3. Known' = Known BY <3>1 DEF Known
      <3> QED BY <3>1, <3>2, <3>3, Answered
    <2> QED BY <1>1, <2>1, <2>2 DEF SubmitAttempt
  <1>2. ASSUME NEW weaknesses \in SUBSET Topics, SaveProfile(weaknesses) PROVE StillTrue(c)'
    <2>1. session'.version = session.version BY <1>2 DEF SaveProfile, TypeOK, Session
    <2>2. ASSUME NEW t \in Topics
          PROVE  /\ point[t].known => point'[t].known
                 /\ point'[t].attempts = point[t].attempts
                 /\ point'[t].correct = point[t].correct
                 /\ point'[t].mastery = point[t].mastery
      <3>1. point[t] \in Point BY DEF TypeOK
      <3>2. point'[t] = [point[t] EXCEPT !.known = @ \/ t \in weaknesses]
        BY <1>2 DEF SaveProfile
      <3> QED BY <3>1, <3>2 DEF Point
    <2> QED BY <1>2, <2>1, <2>2, PointsAdded DEF SaveProfile
  <1>3. ASSUME NEW topic \in Topics, Complete(topic) PROVE StillTrue(c)'
    <2>1. ASSUME NEW t \in Topics
          PROVE  /\ point[t].known => point'[t].known
                 /\ point'[t].attempts = point[t].attempts
                 /\ point'[t].correct = point[t].correct
                 /\ point'[t].mastery = point[t].mastery
      <3>1. point[t] \in Point BY DEF TypeOK
      <3>2. point'[t] = IF t = topic THEN [point[t] EXCEPT !.known = TRUE] ELSE point[t]
        BY <1>3 DEF Complete, TypeOK
      <3> QED BY <3>1, <3>2 DEF Point
    <2> QED BY <1>3, <2>1, PointsAdded DEF Complete
  <1>4. CASE Recreate
    <2>1. session'.version = session.version
      BY <1>4 DEF Recreate, Safe, NothingWithoutRow, NoSession
    <2> QED BY <1>4, <2>1, NothingMoved DEF Recreate
  <1>5. CASE Tomorrow BY <1>5, DayPassed DEF Tomorrow
  <1>6. CASE Ask \/ Lookup \/ ReadContext \/ Fail \/ UNCHANGED vars
    BY <1>6, NothingMoved DEF Ask, Lookup, ReadContext, Fail, vars
  <1> QED BY <1>1, <1>2, <1>3, <1>4, <1>5, <1>6 DEF Next

LEMMA PromptsInit == Init => PromptsStillTrue
  BY DEF Init, Idle, PromptsStillTrue

LEMMA PromptsNext ==
  ASSUME TypeOK, Safe, PromptsStillTrue, [Next]_vars PROVE PromptsStillTrue'
  <1>1. CASE DeleteSession
    <2>1. resources' = <<>> /\ gen' = [gen EXCEPT !.orphan = gen.pc # "idle", !.context = NoContext]
      BY <1>1 DEF DeleteSession
    <2>2. gen'.pc = gen.pc /\ (gen.pc = "model" => gen'.orphan) BY <2>1 DEF TypeOK, Gen
    <2> QED BY <2>1, <2>2 DEF PromptsStillTrue
  <1>2. CASE ~DeleteSession
    <2>1. ASSUME NEW c, StillTrue(c) PROVE StillTrue(c)' BY <1>2, <2>1, StaysTrue
    <2>2. ASSUME UNCHANGED <<resources, gen>> PROVE PromptsStillTrue'
      BY <2>1, <2>2 DEF PromptsStillTrue
    <2>3. ASSUME UNCHANGED resources, gen'.pc # "model" PROVE PromptsStillTrue'
      BY <2>1, <2>3 DEF PromptsStillTrue
    <2>4. CASE ReadContext
      <3>1. UNCHANGED <<session, point, review, resources, today>> BY <2>4 DEF ReadContext
      <3>2. gen'.orphan = gen.orphan /\ (~gen.orphan => gen'.context = LearningContext)
        BY <2>4 DEF ReadContext, TypeOK, Gen
      <3>3. StillTrue(LearningContext)
        <4>1. /\ LearningContext.version = session.version /\ LearningContext.day = today
              /\ LearningContext.known = Known /\ LearningContext.points = Shown
              /\ LearningContext.next = NextActions
          BY DEF LearningContext
        <4>2. session.version \in Nat /\ today \in Nat BY Bounds DEF TypeOK, Session
        <4> HIDE DEF LearningContext, Known, Shown, NextActions
        <4> QED BY <4>1, <4>2 DEF StillTrue
      <3>4. PICK k : k = LearningContext OBVIOUS
      <3>5. StillTrue(k)' BY <2>1, <3>3, <3>4
      <3>6. ~gen'.orphan => gen'.context = k BY <3>2, <3>4
      <3>7. ~gen'.orphan => StillTrue(gen.context)'
        BY <3>5, <3>6 DEF StillTrue
      <3> QED BY <2>1, <3>1, <3>7 DEF PromptsStillTrue
    <2>5. ASSUME NEW topic \in Topics, Complete(topic) PROVE PromptsStillTrue'
      <3> DEFINE n == Len(resources) + 1
      <3>1. /\ gen.pc = "model" /\ gen'.pc = "idle"
            /\ DOMAIN resources' = DOMAIN resources \cup {n}
            /\ \A i \in DOMAIN resources : resources'[i] = resources[i]
            /\ resources'[n].context = gen.context /\ resources'[n].orphan = gen.orphan
        BY <2>5 DEF Complete, TypeOK, Idle
      <3> HIDE DEF n
      <3>2. \A i \in DOMAIN resources : resources'[i].orphan \/ StillTrue(resources[i].context)'
        BY <2>1, <3>1 DEF PromptsStillTrue
      <3>3. gen.orphan \/ (StillTrue(gen.context) /\ gen.context = resources'[n].context)
        BY <3>1 DEF PromptsStillTrue
      <3> QED BY <2>1, <3>1, <3>3 DEF PromptsStillTrue
    <2>6. CASE Ask BY <2>3, <2>6 DEF Ask, Idle
    <2>7. CASE Lookup
      <3>1. PICK grounded \in BOOLEAN :
              gen' = Idle \/ gen' = [gen EXCEPT !.pc = "search", !.grounded = grounded]
        BY <2>7 DEF Lookup
      <3>2. gen \in Gen BY DEF TypeOK
      <3>3. CASE gen' = Idle BY <2>3, <2>7, <3>3 DEF Lookup, Idle
      <3>4. CASE gen' = [gen EXCEPT !.pc = "search", !.grounded = grounded]
        <4>1. gen'.pc = "search" BY <3>2, <3>4 DEF Gen
        <4> QED BY <2>3, <2>7, <4>1 DEF Lookup
      <3> QED BY <3>1, <3>3, <3>4
    <2>8. CASE Fail BY <2>3, <2>8 DEF Fail, Idle
    <2>9. ASSUME NEW q \in DOMAIN resources, NEW key \in Keys \cup {NoKey},
                 NEW right \in BOOLEAN, NEW hints \in Hints,
                 SubmitAttempt(q, key, right, hints)
          PROVE  PromptsStillTrue'
      BY <2>2, <2>9 DEF SubmitAttempt, Duplicate, Grade
    <2>10. ASSUME NEW weaknesses \in SUBSET Topics, SaveProfile(weaknesses)
           PROVE  PromptsStillTrue'
      BY <2>2, <2>10 DEF SaveProfile
    <2>11. CASE Recreate \/ Tomorrow \/ UNCHANGED vars
      BY <2>2, <2>11 DEF Recreate, Tomorrow, vars
    <2> QED BY <1>2, <2>4, <2>5, <2>6, <2>7, <2>8, <2>9, <2>10, <2>11 DEF Next
  <1> QED BY <1>1, <1>2

LEMMA Invariant == Spec => [](TypeOK /\ Safe /\ PromptsStillTrue)
  <1>1. Init => TypeOK /\ Safe /\ PromptsStillTrue BY TypeInit, SafeInit, PromptsInit
  <1>2. TypeOK /\ Safe /\ PromptsStillTrue /\ [Next]_vars
          => TypeOK' /\ Safe' /\ PromptsStillTrue'
    BY TypeNext, SafeNext, PromptsNext
  <1> QED BY <1>1, <1>2, PTL DEF Spec

-----------------------------------------------------------------------------
(* What the invariant says of the system *)

\* The counters of the points, the reviews, the version of the session and the
\* list of mistakes count every answer once, whatever came between the answers.
THEOREM BooksStayEven == Spec => []BooksAgree
  <1>1. Safe => BooksAgree BY DEF Safe
  <1> QED BY <1>1, Invariant, PTL

\* A client that sends its key again hears what it would have heard at first.
THEOREM SameKeySameAnswer == Spec => []RepeatedKeySameAnswer
  <1>1. ASSUME TypeOK, Safe PROVE RepeatedKeySameAnswer
    <2> SUFFICES ASSUME NEW a \in told, NEW b \in told, a.key = b.key PROVE a = b
      BY DEF RepeatedKeySameAnswer
    <2>1. PICK i \in DOMAIN attempts : attempts[i].key # NoKey /\ a = Told(i)
      BY <1>1 DEF Safe, ToldFits
    <2>2. PICK k \in DOMAIN attempts : attempts[k].key # NoKey /\ b = Told(k)
      BY <1>1 DEF Safe, ToldFits
    <2>3. a.key = attempts[i].key /\ b.key = attempts[k].key BY <2>1, <2>2 DEF Told
    <2>4. i = k BY <1>1, <2>1, <2>2, <2>3 DEF Safe, KeysOnce
    <2> QED BY <2>1, <2>2, <2>4
  <1> QED BY <1>1, Invariant, PTL

\* While the last answer on some point was wrong, next_action recommends nothing
\* but the review that has been due longest.
THEOREM MistakesComeBack == Spec => []WrongComesBack
  <1>1. ASSUME TypeOK, Safe PROVE WrongComesBack
    <2> SUFFICES ASSUME NEW t \in Topics, AttemptsOn(t) # {}, ~attempts[LastOn(t)].right,
                        NEW a \in NextActions
                 PROVE  /\ a[1] = "REVIEW" /\ review[a[2]].due <= today
                        /\ \A u \in Due : review[a[2]].due <= review[u].due
      BY DEF WrongComesBack
    <2>1. LastOn(t) \in DOMAIN attempts BY <1>1 DEF Safe, HasLast, AttemptsOn
    <2>2. review[t].due <= today BY <1>1, <2>1 DEF Safe, WrongIsDue, BooksAgree
    <2>3. Due # {} BY <2>2 DEF Due
    <2>4. PICK u \in FirstDue : a = <<"REVIEW", u>> BY <2>3 DEF NextActions
    <2>5. a[1] = "REVIEW" /\ a[2] = u BY <2>4
    <2> QED BY <2>5 DEF FirstDue, Due
  <1> QED BY <1>1, Invariant, PTL

\* A resource that a message would be given from the cache was written with every answer
\* that was graded: its prompt showed the mastery and counts of now, and recommended what
\* would be recommended now, unless a day passed or a point was added since, or its session
\* was deleted while it was being written (find_cached_resource, complete_generation).
THEOREM CacheServesTheCurrent == Spec => []CachedIsCurrent
  <1>1. ASSUME TypeOK, Safe, PromptsStillTrue PROVE CachedIsCurrent
    <2> DEFINE c(r) == resources[r].context
    <2> SUFFICES ASSUME NEW r \in FindCached(session.profile, session.version),
                        ~resources[r].orphan
                 PROVE  /\ c(r).points = Shown
                        /\ c(r).day = today /\ c(r).known = Known => c(r).next = NextActions
      BY DEF CachedIsCurrent
    <2>1. r \in DOMAIN resources /\ resources[r].stamp = session.version
      BY DEF FindCached
    <2>2. c(r).version \in Nat /\ session.version \in Nat
      BY <1>1, <2>1, ResourceOf DEF Resource, Context, TypeOK, Session
    <2>3. c(r).version = session.version BY <1>1, <2>1, <2>2 DEF Safe, ContextsFit
    <2>4. StillTrue(c(r)) BY <1>1, <2>1 DEF PromptsStillTrue
    <2> QED BY <2>3, <2>4 DEF StillTrue
  <1> QED BY <1>1, Invariant, PTL
=============================================================================
