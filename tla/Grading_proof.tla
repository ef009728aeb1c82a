--------------------------- MODULE Grading_proof ---------------------------
(* Proofs about the grader: no saved job is lost, and a hand that never had  *)
(* its marks is given up on after all its tries only.                        *)
EXTENDS Grading, WellFoundedInduction, FiniteSetTheorems, TLAPS

Outcomes == {"unplayed", "waiting", "graded", "given up", "refused"}

Types ==
  /\ marks \in [Hands -> Outcomes] /\ jobs \in [Hands -> Nat \cup {NoJob}]
  /\ failed \in [Hands -> Nat]
  /\ posting \subseteq Hands /\ listed \subseteq Hands /\ q \in Seq(Hands)
  /\ hand \in Hands \cup {NoHand} /\ step \in {"idle", "sweep", "replay", "graded", "given up"}
  /\ step \in {"replay", "graded", "given up"} => hand \in Hands
  /\ step = "sweep" => listed # {}

\* Only hands that were saved are on their way to the grader
HeldAreSaved ==
  /\ \A h \in posting \cup listed \cup ({hand} \ {NoHand}) : marks[h] # "unplayed"
  /\ \A i \in 1 .. Len(q) : marks[q[i]] # "unplayed"
  /\ \A h \in Hands : jobs[h] # NoJob => marks[h] # "unplayed"

\* The saved job keeps count of the failed replays, and is there until the hand
\* has been graded or has had all its tries
JobsKeepCount ==
  /\ \A h \in Hands \ Seeded : jobs[h] # NoJob => failed[h] >= jobs[h]
  /\ \A h \in Hands \ (Seeded \cup everGraded) :
       marks[h] # "unplayed" /\ jobs[h] = NoJob => marks[h] = "given up"
  /\ step = "given up" /\ hand \notin Seeded \cup everGraded => failed[hand] >= MaxTries

IInv == Types /\ HeldAreSaved /\ JobsKeepCount /\ NoJobIsLost /\ UngradedGetAllTries

(* The first of some hands is one of them. *)
LEMMA FirstIsMember == ASSUME NEW S \in SUBSET Hands, S # {} PROVE First(S) \in S
<1> DEFINE Less == OpToRel(<, Nat)
<1>1. S \subseteq Nat BY GradingAssumption DEF Hands
<1>2. IsWellFoundedOn(Less, Nat) BY NatLessThanWellFounded
<1>3. \A x, y \in Nat : x < y => <<x, y>> \in Less BY DEF OpToRel
<1> HIDE DEF Less
<1>4. PICK x \in S : \A y \in S : ~(<<y, x>> \in Less) BY <1>1, <1>2, WFMin
<1>5. \A y \in S : x <= y
  <2> TAKE y \in S
  <2>1. x \in Nat /\ y \in Nat BY <1>1
  <2>2. ~(y < x) BY <1>3, <1>4, <2>1
  <2> QED BY <2>1, <2>2
<1> QED BY <1>5 DEF First

(* A step that leaves the records, the jobs and the counts alone keeps what   *)
(* the invariant says of them, unless it gives a hand up.                     *)
LEMMA CountsUntouched ==
  ASSUME IInv, UNCHANGED <<marks, jobs, failed, everGraded>>,
         step' = "given up" => step = "given up" /\ hand' = hand
  PROVE  JobsKeepCount' /\ NoJobIsLost' /\ UngradedGetAllTries'
  BY DEF IInv, JobsKeepCount, NoJobIsLost, UngradedGetAllTries

LEMMA InitIInv == Init => IInv
<1> SUFFICES ASSUME Init PROVE IInv OBVIOUS
<1>1. Types BY DEF Init, Types, Outcomes
<1>2. HeldAreSaved BY DEF Init, HeldAreSaved
<1>3. JobsKeepCount BY DEF Init, JobsKeepCount
<1>4. NoJobIsLost /\ UngradedGetAllTries BY DEF Init, NoJobIsLost, UngradedGetAllTries
<1> QED BY <1>1, <1>2, <1>3, <1>4 DEF IInv

LEMMA NoHandIsNone == \A h \in Hands : h # NoHand /\ h \in {h} \ {NoHand}
BY GradingAssumption DEF Hands, NoHand

(* What is queued stays saved while no record goes back to unplayed. *)
LEMMA QueueStaysSaved ==
  ASSUME Types, HeldAreSaved, q' = q,
         \A g \in Hands : marks[g] # "unplayed" => marks'[g] # "unplayed"
  PROVE  \A i \in 1 .. Len(q') : marks'[q'[i]] # "unplayed"
<1>0. q \in Seq(Hands) BY DEF Types
<1>1. \A i \in 1 .. Len(q) : q[i] \in Hands BY <1>0
<1>2. \A i \in 1 .. Len(q) : marks[q[i]] # "unplayed" BY DEF HeldAreSaved
<1> QED BY <1>1, <1>2

(* A saved hand comes with its job. *)
LEMMA SaveKeeps == ASSUME IInv, NEW h \in Hands, Save(h) PROVE IInv'
<1>u. /\ q' = q /\ step' = step /\ hand' = hand /\ listed' = listed
      /\ failed' = failed /\ everGraded' = everGraded
      /\ posting' = posting \cup {h} /\ marks[h] = "unplayed"
  BY DEF Save, queueVars, graderVars, seenVars
<1>0. \A g \in Hands : marks'[g] = IF g = h THEN "waiting" ELSE marks[g]
  BY DEF Save, IInv, Types
<1>1. \A g \in Hands \ Seeded : jobs'[g] = IF g = h THEN 0 ELSE jobs[g]
  BY DEF Save, IInv, Types
<1>2. Types'
  <2>1. marks' \in [Hands -> Outcomes] BY DEF Save, IInv, Types, Outcomes
  <2>2. jobs' \in [Hands -> Nat \cup {NoJob}] BY DEF Save, IInv, Types
  <2> QED BY <1>u, <2>1, <2>2 DEF IInv, Types
<1>3. HeldAreSaved'
  <2>1. \A g \in posting' \cup listed' \cup ({hand'} \ {NoHand}) : marks'[g] # "unplayed"
    BY <1>u, <1>0 DEF IInv, Types, HeldAreSaved
  <2>2. \A i \in 1 .. Len(q') : marks'[q'[i]] # "unplayed"
    BY <1>u, <1>0, QueueStaysSaved DEF IInv
  <2>3. \A g \in Hands : jobs'[g] # NoJob => g = h \/ jobs[g] # NoJob
    BY DEF Save, IInv, Types
  <2>4. \A g \in Hands : jobs'[g] # NoJob => marks'[g] # "unplayed"
    BY <1>0, <2>3 DEF IInv, HeldAreSaved
  <2> QED BY <2>1, <2>2, <2>4 DEF HeldAreSaved
<1>4. JobsKeepCount'
  <2>1. \A g \in Hands \ Seeded : failed[g] \in Nat BY DEF IInv, Types
  <2>2. 0 # NoJob BY DEF NoJob
  <2>3. \A g \in Hands \ Seeded : jobs'[g] # NoJob => failed'[g] >= jobs'[g]
    <3> TAKE g \in Hands \ Seeded
    <3>1. CASE g = h BY <3>1, <1>u, <1>1, <2>1
    <3>2. CASE g # h
      <4>1. jobs'[g] = jobs[g] /\ failed'[g] = failed[g] BY <3>2, <1>u, <1>1
      <4>2. jobs[g] # NoJob => failed[g] >= jobs[g] BY DEF IInv, JobsKeepCount
      <4> QED BY <4>1, <4>2
    <3> QED BY <3>1, <3>2
  <2>4. \A g \in Hands \ (Seeded \cup everGraded') :
          marks'[g] # "unplayed" /\ jobs'[g] = NoJob => marks'[g] = "given up"
    BY <1>u, <1>0, <1>1, <2>2 DEF IInv, JobsKeepCount
  <2>5. step' = "given up" /\ hand' \notin Seeded \cup everGraded' => failed'[hand'] >= MaxTries
    BY <1>u DEF IInv, JobsKeepCount
  <2> QED BY <2>3, <2>4, <2>5 DEF JobsKeepCount
<1>5. NoJobIsLost' BY <1>0, <1>1 DEF IInv, NoJobIsLost, NoJob
<1>6. UngradedGetAllTries' BY <1>u, <1>0 DEF IInv, UngradedGetAllTries
<1> QED BY <1>2, <1>3, <1>4, <1>5, <1>6 DEF IInv

(* Queueing a saved hand keeps the queue one of saved hands. *)
LEMMA EnqueueKeeps ==
  ASSUME Types, HeldAreSaved, NEW h \in Hands, marks[h] # "unplayed", Enqueue(h)
  PROVE  q' \in Seq(Hands) /\ \A i \in 1 .. Len(q') : marks[q'[i]] # "unplayed"
<1>1. q \in Seq(Hands) BY DEF Types
<1>2. q' = Append(q, h) BY DEF Enqueue
<1>3. Len(q') = Len(q) + 1 /\ \A i \in 1 .. Len(q') : q'[i] = IF i <= Len(q) THEN q[i] ELSE h
  BY <1>1, <1>2
<1>4. Len(q) \in Nat BY <1>1
<1> QED BY <1>1, <1>2, <1>3, <1>4 DEF HeldAreSaved

LEMMA PostKeeps == ASSUME IInv, NEW h \in Hands, Post(h) PROVE IInv'
<1>0. h \in posting /\ marks[h] # "unplayed" BY DEF Post, IInv, HeldAreSaved
<1>1. CASE h \notin queued /\ Enqueue(h) /\ UNCHANGED dbVars /\ posting' = posting \ {h}
           /\ UNCHANGED seenVars
           /\ (UNCHANGED <<step, hand, listed>> \/ (step' = "idle" /\ hand' = NoHand /\ listed' = {}))
  <2>1. q' \in Seq(Hands) /\ \A i \in 1 .. Len(q') : marks[q'[i]] # "unplayed"
    BY <1>0, <1>1, EnqueueKeeps DEF IInv
  <2>2. Types' BY <1>1, <2>1 DEF IInv, Types, dbVars, seenVars
  <2>3. HeldAreSaved' BY <1>1, <2>1 DEF IInv, HeldAreSaved, dbVars
  <2>4. JobsKeepCount' /\ NoJobIsLost' /\ UngradedGetAllTries'
    BY <1>1, CountsUntouched DEF dbVars, seenVars
  <2> QED BY <2>2, <2>3, <2>4 DEF IInv
<1>2. CASE /\ h \in Seeded /\ marks' = [marks EXCEPT ![h] = "refused"]
           /\ UNCHANGED <<jobs, queueVars, graderVars, seenVars>> /\ posting' = posting \ {h}
  <2>1. \A g \in Hands : marks'[g] = IF g = h THEN "refused" ELSE marks[g]
    BY <1>2 DEF IInv, Types
  <2>2. Types' BY <1>2 DEF IInv, Types, Outcomes, queueVars, graderVars, seenVars
  <2>3. HeldAreSaved'
    <3>1. \A i \in 1 .. Len(q') : marks'[q'[i]] # "unplayed"
      BY <1>2, <2>1, QueueStaysSaved DEF IInv, queueVars
    <3>2. \A g \in posting' \cup listed' \cup ({hand'} \ {NoHand}) : marks'[g] # "unplayed"
      BY <1>2, <2>1 DEF IInv, Types, HeldAreSaved, graderVars
    <3>3. \A g \in Hands : jobs'[g] # NoJob => marks'[g] # "unplayed"
      BY <1>2, <2>1 DEF IInv, HeldAreSaved
    <3> QED BY <3>1, <3>2, <3>3 DEF HeldAreSaved
  <2>4. JobsKeepCount' BY <1>2, <2>1 DEF IInv, JobsKeepCount, graderVars, seenVars
  <2>5. NoJobIsLost' BY <1>2, <2>1 DEF IInv, NoJobIsLost
  <2>6. UngradedGetAllTries' BY <1>2, <2>1 DEF IInv, UngradedGetAllTries, seenVars
  <2> QED BY <2>2, <2>3, <2>4, <2>5, <2>6 DEF IInv
<1>3. CASE UNCHANGED <<dbVars, queueVars, graderVars, seenVars>> /\ posting' = posting \ {h}
  <2>1. Types' BY <1>3 DEF IInv, Types, dbVars, queueVars, graderVars, seenVars
  <2>2. HeldAreSaved' BY <1>3 DEF IInv, HeldAreSaved, dbVars, queueVars, graderVars
  <2>3. JobsKeepCount' /\ NoJobIsLost' /\ UngradedGetAllTries'
    BY <1>3, CountsUntouched DEF dbVars, graderVars, seenVars
  <2> QED BY <2>1, <2>2, <2>3 DEF IInv
<1> QED BY <1>1, <1>2, <1>3 DEF Post, dbVars

(* A sweep lists saved jobs, some of the oldest, *)
LEMMA SweepKeeps == ASSUME IInv, Sweep PROVE IInv'
<1>u. /\ listed' = Oldest(Rows) /\ listed' # {} /\ step' = "sweep"
      /\ q' = q /\ hand' = hand /\ posting' = posting /\ failed' = failed
      /\ everGraded' = everGraded /\ marks' = marks /\ jobs' = jobs
  BY DEF Sweep, dbVars, queueVars, seenVars
<1>1. Oldest(Rows) \subseteq Rows BY DEF Oldest, Rows
<1>2. Rows \subseteq Hands /\ \A g \in Rows : marks[g] # "unplayed"
  BY DEF Rows, IInv, HeldAreSaved
<1>3. Types' BY <1>u, <1>1, <1>2 DEF IInv, Types
<1>4. HeldAreSaved' BY <1>u, <1>1, <1>2 DEF IInv, HeldAreSaved
<1>5. JobsKeepCount' /\ NoJobIsLost' /\ UngradedGetAllTries' BY <1>u, CountsUntouched
<1> QED BY <1>3, <1>4, <1>5 DEF IInv

(* and queues them one at a time, unless they are held. *)
LEMMA SweepOneKeeps == ASSUME IInv, SweepOne PROVE IInv'
<1>u. /\ step = "sweep" /\ hand' = hand /\ posting' = posting /\ failed' = failed
      /\ everGraded' = everGraded /\ marks' = marks /\ jobs' = jobs
  BY DEF SweepOne, dbVars, seenVars
<1> DEFINE h == First(listed)
<1>1. listed \subseteq Hands /\ listed # {} BY <1>u DEF IInv, Types
<1>2. h \in listed BY <1>1, FirstIsMember
<1>3. h \in Hands /\ marks[h] # "unplayed" BY <1>1, <1>2 DEF IInv, HeldAreSaved
<1>4. /\ listed' = listed \ {h}
      /\ step' = IF listed = {h} THEN "idle" ELSE "sweep"
      /\ Enqueue(h) \/ q' = q
  BY DEF SweepOne, queueVars
<1> HIDE DEF h
<1>5. q' \in Seq(Hands) /\ \A i \in 1 .. Len(q') : marks[q'[i]] # "unplayed"
  <2>1. CASE Enqueue(h) BY <2>1, <1>3, EnqueueKeeps DEF IInv
  <2>2. CASE q' = q BY <2>2 DEF IInv, Types, HeldAreSaved
  <2> QED BY <1>4, <2>1, <2>2
<1>6. listed' \subseteq listed BY <1>4
<1>7. step' \in {"idle", "sweep"} /\ (step' = "sweep" => listed' # {}) BY <1>4, <1>2
<1>8. Types' BY <1>u, <1>1, <1>5, <1>6, <1>7 DEF IInv, Types
<1>9. HeldAreSaved' BY <1>u, <1>5, <1>6 DEF IInv, HeldAreSaved
<1>10. step' # "given up" BY <1>7
<1>11. JobsKeepCount' /\ NoJobIsLost' /\ UngradedGetAllTries'
  BY <1>u, <1>10, CountsUntouched
<1> QED BY <1>8, <1>9, <1>11 DEF IInv

(* The grader takes what is queued. *)
LEMMA TakeKeeps == ASSUME IInv, Take PROVE IInv'
<1>u. /\ step' = "replay" /\ q # <<>> /\ q' = Tail(q) /\ hand' = Head(q)
      /\ posting' = posting /\ failed' = failed /\ listed' = listed
      /\ everGraded' = everGraded /\ marks' = marks /\ jobs' = jobs
  BY DEF Take, dbVars, seenVars
<1>0. q \in Seq(Hands) BY DEF IInv, Types
<1>1. /\ Head(q) \in Hands /\ Tail(q) \in Seq(Hands) /\ Head(q) = q[1]
      /\ Len(q) \in Nat /\ 1 \in 1 .. Len(q)
      /\ Len(Tail(q)) = Len(q) - 1
      /\ \A i \in 1 .. Len(Tail(q)) : Tail(q)[i] = q[i + 1] /\ i + 1 \in 1 .. Len(q)
  BY <1>0, <1>u
<1>2. \A i \in 1 .. Len(q) : marks[q[i]] # "unplayed" BY DEF IInv, HeldAreSaved
<1>3. marks[Head(q)] # "unplayed" BY <1>1, <1>2
<1>4. \A i \in 1 .. Len(Tail(q)) : marks[Tail(q)[i]] # "unplayed" BY <1>1, <1>2
<1>5. Types' BY <1>u, <1>1 DEF IInv, Types
<1>6. HeldAreSaved' BY <1>u, <1>3, <1>4 DEF IInv, HeldAreSaved
<1>7. JobsKeepCount' /\ NoJobIsLost' /\ UngradedGetAllTries' BY <1>u, CountsUntouched
<1> QED BY <1>5, <1>6, <1>7 DEF IInv

(* Steps that let the hand go, or go on with it, and change no record. *)
LEMMA LettingGoKeeps ==
  ASSUME IInv, UNCHANGED <<marks, jobs, failed, everGraded>>,
         posting' \subseteq posting, listed' \subseteq listed,
         q' = q \/ q' = <<>>,
         \/ step' = "idle" /\ hand' = NoHand
         \/ step' = step /\ hand' = hand /\ listed' = listed
         \/ step' = "graded" /\ step = "replay" /\ hand' = hand
  PROVE  IInv'
<1>0. q \in Seq(Hands) BY DEF IInv, Types
<1>1. q' \in Seq(Hands) /\ \A i \in 1 .. Len(q') : marks[q'[i]] # "unplayed"
  <2>1. CASE q' = q BY <2>1, <1>0 DEF IInv, HeldAreSaved
  <2>2. CASE q' = <<>> BY <2>2
  <2> QED BY <2>1, <2>2
<1>2. Types' BY <1>1 DEF IInv, Types
<1>3. HeldAreSaved' BY <1>1 DEF IInv, HeldAreSaved
<1>4. JobsKeepCount' /\ NoJobIsLost' /\ UngradedGetAllTries' BY CountsUntouched
<1> QED BY <1>2, <1>3, <1>4 DEF IInv

(* A failed replay counts one more try, in the database too if the hand is    *)
(* saved there; only its last try gives a hand up that has its job.           *)
LEMMA FailsKeeps == ASSUME IInv, Fails PROVE IInv'
<1>u. /\ step = "replay" /\ marks' = marks /\ posting' = posting /\ q' = q
      /\ listed' = listed /\ everGraded' = everGraded
      /\ failed' = [failed EXCEPT ![hand] = @ + 1]
  BY DEF Fails
<1>0. hand \in Hands BY <1>u DEF IInv, Types
<1>1. \/ /\ jobs' = IF jobs[hand] = NoJob THEN jobs ELSE [jobs EXCEPT ![hand] = @ + 1]
         /\ \/ step' = "given up" /\ hand' = hand /\ Attempts >= MaxTries
            \/ step' = "idle" /\ hand' = NoHand
      \/ jobs' = jobs /\ step' = "idle" /\ hand' = NoHand
  BY DEF Fails, Dies, Release
<1>2. \A g \in Hands : failed[g] \in Nat /\ failed'[g] = IF g = hand THEN failed[g] + 1 ELSE failed[g]
  BY <1>u, <1>0 DEF IInv, Types
<1>3. \A g \in Hands : /\ jobs[g] \in Nat \cup {NoJob}
                      /\ \/ jobs'[g] = jobs[g]
                         \/ jobs[g] # NoJob /\ g = hand /\ jobs'[g] = jobs[g] + 1
  BY <1>0, <1>1 DEF IInv, Types
<1>4. \A g \in Hands : jobs'[g] = NoJob <=> jobs[g] = NoJob BY <1>3 DEF NoJob
<1>5. Types'
  <2>1. failed' \in [Hands -> Nat] BY <1>u, <1>2 DEF IInv, Types
  <2>2. jobs' \in [Hands -> Nat \cup {NoJob}]
    <3>0. jobs \in [Hands -> Nat \cup {NoJob}] BY DEF IInv, Types
    <3>1. CASE jobs' = jobs BY <3>0, <3>1
    <3>2. CASE jobs[hand] # NoJob /\ jobs' = [jobs EXCEPT ![hand] = @ + 1]
      <4>1. jobs[hand] + 1 \in Nat BY <3>0, <3>2, <1>0
      <4> QED BY <3>0, <3>2, <4>1
    <3> QED BY <1>1, <3>1, <3>2
  <2> QED BY <1>u, <1>0, <1>1, <2>1, <2>2 DEF IInv, Types
<1>6. HeldAreSaved'
  <2>1. hand' \in {hand, NoHand} BY <1>1
  <2> QED BY <1>u, <1>4, <2>1 DEF IInv, HeldAreSaved
<1>7. \A g \in Hands \ Seeded : jobs[g] # NoJob => failed[g] >= jobs[g]
  BY DEF IInv, JobsKeepCount
<1>8. \A g \in Hands \ Seeded : jobs'[g] # NoJob => failed'[g] >= jobs'[g]
  <2> TAKE g \in Hands \ Seeded
  <2>1. jobs'[g] # NoJob => jobs[g] # NoJob /\ failed[g] >= jobs[g] /\ jobs[g] \in Nat
    BY <1>3, <1>4, <1>7
  <2> QED BY <1>2, <1>3, <2>1
<1>9. JobsKeepCount'
  <2>1. ASSUME step' = "given up", hand' \notin Seeded \cup everGraded'
        PROVE  failed'[hand'] >= MaxTries
    <3>1. hand' = hand /\ Attempts >= MaxTries /\ jobs' = IF jobs[hand] = NoJob THEN jobs ELSE [jobs EXCEPT ![hand] = @ + 1]
      BY <1>1, <2>1
    <3>2. CASE jobs[hand] # NoJob
      <4>1. jobs[hand] \in Nat /\ failed[hand] \in Nat /\ failed[hand] >= jobs[hand]
        BY <1>0, <1>2, <1>3, <1>7, <2>1, <3>1, <3>2
      <4>2. jobs[hand] + 1 >= MaxTries BY <3>1, <3>2 DEF Attempts
      <4>3. failed'[hand'] = failed[hand] + 1 BY <1>0, <1>2, <3>1
      <4> QED BY <4>1, <4>2, <4>3, GradingAssumption
    <3>3. CASE jobs[hand] = NoJob
      <4>1. marks[hand] # "unplayed" BY <1>0, NoHandIsNone DEF IInv, HeldAreSaved
      <4>2. marks[hand] = "given up" BY <4>1, <1>u, <1>0, <2>1, <3>1, <3>3 DEF IInv, JobsKeepCount
      <4>3. failed[hand] >= MaxTries BY <4>2, <1>u, <1>0, <2>1, <3>1 DEF IInv, UngradedGetAllTries
      <4>4. failed'[hand'] = failed[hand] + 1 /\ failed[hand] \in Nat BY <1>0, <1>2, <3>1
      <4> QED BY <4>3, <4>4, GradingAssumption
    <3> QED BY <3>2, <3>3
  <2>2. \A g \in Hands \ (Seeded \cup everGraded') :
          marks'[g] # "unplayed" /\ jobs'[g] = NoJob => marks'[g] = "given up"
    BY <1>u, <1>4 DEF IInv, JobsKeepCount
  <2> QED BY <1>8, <2>1, <2>2 DEF JobsKeepCount
<1>10. NoJobIsLost' BY <1>u, <1>4 DEF IInv, NoJobIsLost
<1>11. \A g \in Hands : failed[g] >= MaxTries => failed'[g] >= MaxTries
  BY <1>2, GradingAssumption
<1>12. UngradedGetAllTries'
  <2> SUFFICES ASSUME NEW g \in Hands \ (Seeded \cup everGraded'), marks'[g] = "given up"
               PROVE  failed'[g] >= MaxTries
    BY DEF UngradedGetAllTries
  <2>1. failed[g] >= MaxTries BY <1>u DEF IInv, UngradedGetAllTries
  <2>2. g \in Hands OBVIOUS
  <2> QED BY <2>1, <2>2, <1>11
<1> QED BY <1>5, <1>6, <1>9, <1>10, <1>12 DEF IInv

(* The marks land with the hand and its job is done; a hand is given up       *)
(* with all its tries behind it.                                              *)
LEMMA StoreKeeps == ASSUME IInv, Store PROVE IInv'
<1>u. /\ step \in {"graded", "given up"} /\ posting' = posting /\ q' = q
      /\ listed' = listed /\ failed' = failed /\ step' = "idle" /\ hand' = NoHand
  BY DEF Store, Dies, Release
<1>0. hand \in Hands BY <1>u DEF IInv, Types
<1>1. CASE UNCHANGED <<marks, jobs, everGraded>>
  BY <1>1, <1>u, LettingGoKeeps
<1>2. CASE /\ marks' = [marks EXCEPT ![hand] = step] /\ jobs' = [jobs EXCEPT ![hand] = NoJob]
           /\ everGraded' = IF step = "graded" THEN everGraded \cup {hand} ELSE everGraded
  <2>1. \A g \in Hands : marks'[g] = IF g = hand THEN step ELSE marks[g]
    BY <1>2 DEF IInv, Types
  <2>2. \A g \in Hands : jobs'[g] = IF g = hand THEN NoJob ELSE jobs[g]
    BY <1>2 DEF IInv, Types
  <2>3. Types'
    <3>1. marks' \in [Hands -> Outcomes] BY <1>2, <1>u, <1>0 DEF IInv, Types, Outcomes
    <3>2. jobs' \in [Hands -> Nat \cup {NoJob}] BY <1>2, <1>0 DEF IInv, Types
    <3> QED BY <1>u, <3>1, <3>2 DEF IInv, Types
  <2>4. HeldAreSaved'
    <3>1. \A i \in 1 .. Len(q') : marks'[q'[i]] # "unplayed"
      BY <1>u, <2>1, QueueStaysSaved DEF IInv
    <3>2. \A g \in posting' \cup listed' \cup ({hand'} \ {NoHand}) : marks'[g] # "unplayed"
      BY <1>u, <2>1 DEF IInv, Types, HeldAreSaved
    <3>3. \A g \in Hands : jobs'[g] # NoJob => marks'[g] # "unplayed"
      BY <2>1, <2>2 DEF IInv, HeldAreSaved
    <3> QED BY <3>1, <3>2, <3>3 DEF HeldAreSaved
  <2>5. hand \notin everGraded' => step = "given up" BY <1>u, <1>2
  <2>6. everGraded \subseteq everGraded' BY <1>2
  <2>7. JobsKeepCount'
    <3>1. \A g \in Hands \ Seeded : jobs'[g] # NoJob => failed'[g] >= jobs'[g]
      BY <1>u, <2>2 DEF IInv, JobsKeepCount
    <3>2. \A g \in Hands \ (Seeded \cup everGraded') :
            marks'[g] # "unplayed" /\ jobs'[g] = NoJob => marks'[g] = "given up"
      BY <2>1, <2>2, <2>5, <2>6 DEF IInv, JobsKeepCount
    <3> QED BY <1>u, <3>1, <3>2 DEF JobsKeepCount
  <2>8. NoJobIsLost' BY <1>u, <2>1, <2>2 DEF IInv, NoJobIsLost
  <2>9. UngradedGetAllTries'
    <3> SUFFICES ASSUME NEW g \in Hands \ (Seeded \cup everGraded'), marks'[g] = "given up"
                 PROVE  failed[g] >= MaxTries
      BY <1>u DEF UngradedGetAllTries
    <3>1. CASE g = hand BY <3>1, <2>5, <2>6 DEF IInv, JobsKeepCount
    <3>2. CASE g # hand BY <3>2, <2>1, <2>6 DEF IInv, UngradedGetAllTries
    <3> QED BY <3>1, <3>2
  <2> QED BY <2>3, <2>4, <2>7, <2>8, <2>9 DEF IInv
<1> QED BY <1>1, <1>2 DEF Store, dbVars

LEMMA NextKeeps == ASSUME IInv, [Next]_vars PROVE IInv'
<1>1. ASSUME NEW h \in Hands, Save(h) PROVE IInv' BY <1>1, SaveKeeps
<1>2. ASSUME NEW h \in Hands, Post(h) PROVE IInv' BY <1>2, PostKeeps
<1>3. CASE Sweep BY <1>3, SweepKeeps
<1>4. CASE SweepOne BY <1>4, SweepOneKeeps
<1>5. CASE Take BY <1>5, TakeKeeps
<1>6. CASE ReplayWithoutModel
  BY <1>6, LettingGoKeeps DEF ReplayWithoutModel, Release, dbVars, seenVars
<1>7. CASE Replays BY <1>7, LettingGoKeeps DEF Replays, dbVars, queueVars, seenVars
<1>8. CASE Fails BY <1>8, FailsKeeps
<1>9. CASE Store BY <1>9, StoreKeeps
<1>10. CASE StartGrader BY <1>10, LettingGoKeeps DEF StartGrader, dbVars, queueVars, seenVars
<1>11. CASE ModelChanges
  BY <1>11, LettingGoKeeps DEF ModelChanges, dbVars, queueVars, graderVars, seenVars
<1>12. CASE Restart BY <1>12, LettingGoKeeps DEF Restart, dbVars, seenVars
<1>13. CASE UNCHANGED vars
  BY <1>13, LettingGoKeeps DEF vars, dbVars, queueVars, graderVars, seenVars
<1> QED
  BY <1>1, <1>2, <1>3, <1>4, <1>5, <1>6, <1>7, <1>8, <1>9, <1>10, <1>11, <1>12, <1>13
  DEF Next, GraderStep

THEOREM InvariantTheorem == Spec => []IInv
<1>1. Init => IInv BY InitIInv
<1>2. IInv /\ [Next]_vars => IInv' BY NextKeeps
<1> QED BY <1>1, <1>2, PTL DEF Spec

(* A saved hand that waits for its marks has its job in the database, through *)
(* every restart, full queue and failed write (_write_owed, _queue_grading,   *)
(* _store_grades), for every number of hands, sizes and bounds.               *)
THEOREM NoJobIsLostTheorem == Spec => []NoJobIsLost
<1>1. IInv => NoJobIsLost BY DEF IInv
<1> QED BY <1>1, InvariantTheorem, PTL

(* A hand never graded is given up only after MaxTries failed replays         *)
(* (_grade_job), restarts and a second job for the same hand included.        *)
THEOREM AllTriesTheorem == Spec => []UngradedGetAllTries
<1>1. IInv => UngradedGetAllTries BY DEF IInv
<1> QED BY <1>1, InvariantTheorem, PTL

-----------------------------------------------------------------------------
(* The keys: what is queued and what is being graded, each once *)

Held == {q[i] : i \in 1 .. Len(q)}

\* Without the last two, letting a hand go might take the key of a queued one
\* along, or a grader started anew might leave the dead one's behind
KeysOK ==
  /\ \A i, j \in 1 .. Len(q) : q[i] = q[j] => i = j
  /\ queued = Held \cup ({hand} \ {NoHand})
  /\ IsFiniteSet(queued) /\ Cardinality(queued) <= QueueMax
  /\ hand \notin Held
  /\ hand = NoHand <=> step \in {"idle", "sweep"}
DeadIsIdle == ~alive => step = "idle"
Flags == alive \in BOOLEAN /\ model \in BOOLEAN

LEMMA HeldAreHands == Types => Held \subseteq Hands /\ NoHand \notin Held
<1>1. NoHand \notin Hands
  BY DEF Hands, NoHand
<1>2. ASSUME Types PROVE \A i \in 1 .. Len(q) : q[i] \in Hands
  <2>1. q \in Seq(Hands)
    BY <1>2 DEF Types
  <2> QED BY <2>1
<1> QED BY <1>1, <1>2 DEF Held

\* A hand that is not held is queued while there is room
LEMMA EnqueueKeys ==
  ASSUME Types, KeysOK, NEW h \in Hands, h \notin queued, Cardinality(queued) < QueueMax,
         Enqueue(h), hand' = hand, step' \in {"idle", "sweep"} <=> step \in {"idle", "sweep"}
  PROVE  KeysOK'
<1>1. q \in Seq(Hands) /\ q' = Append(q, h) /\ queued' = queued \cup {h}
  BY DEF Types, Enqueue
<1>2. h \notin Held /\ h # hand
  <2>1. h # NoHand
    BY DEF Hands, NoHand
  <2> QED BY <2>1 DEF KeysOK
<1>3. /\ Len(q) \in Nat /\ Len(q') = Len(q) + 1
      /\ \A i \in 1 .. Len(q) : q'[i] = q[i]
      /\ q'[Len(q) + 1] = h
  BY <1>1
<1>4. Held' = Held \cup {h}
  <2>1. \A i \in 1 .. Len(q') : q'[i] \in Held \cup {h}
    BY <1>3 DEF Held
  <2>2. \A i \in 1 .. Len(q) : q[i] \in Held'
    BY <1>3 DEF Held
  <2>3. h \in Held'
    BY <1>3 DEF Held
  <2> QED BY <2>1, <2>2, <2>3 DEF Held
<1>5. \A i, j \in 1 .. Len(q') : q'[i] = q'[j] => i = j
  <2>1. \A i \in 1 .. Len(q) : q[i] # h
    BY <1>2 DEF Held
  <2> QED BY <1>3, <2>1 DEF KeysOK
<1>6. IsFiniteSet(queued') /\ Cardinality(queued') = Cardinality(queued) + 1
  BY <1>1, FS_AddElement DEF KeysOK
<1>7. Cardinality(queued') <= QueueMax
  <2>1. Cardinality(queued) \in Nat
    BY FS_CardinalityType DEF KeysOK
  <2> QED BY <1>6, <2>1, GradingAssumption
<1>8. queued' = Held' \cup ({hand'} \ {NoHand})
  BY <1>1, <1>4 DEF KeysOK
<1>9. hand' \notin Held'
  BY <1>2, <1>4 DEF KeysOK
<1> QED BY <1>5, <1>6, <1>7, <1>8, <1>9 DEF KeysOK

\* The grader takes the hand at the head
LEMMA TakeKeys == ASSUME Types, KeysOK, Take PROVE KeysOK'
<1>1. /\ q \in Seq(Hands) /\ q # <<>> /\ q' = Tail(q) /\ hand' = Head(q)
      /\ queued' = queued /\ step = "idle" /\ step' = "replay" /\ hand = NoHand
  BY DEF Types, Take, KeysOK
<1>2. /\ Len(q) \in Nat /\ Len(q') = Len(q) - 1 /\ 1 \in 1 .. Len(q) /\ hand' = q[1]
      /\ hand' \in Hands
      /\ \A i \in 1 .. Len(q') : i + 1 \in 1 .. Len(q) /\ q'[i] = q[i + 1]
  BY <1>1
<1>3. \A i, j \in 1 .. Len(q) : q[i] = q[j] => i = j
  BY DEF KeysOK
<1>4. hand' # NoHand
  BY <1>2 DEF Hands, NoHand
<1>5. \A i \in 1 .. Len(q') : q'[i] # q[1]
  <2> TAKE i \in 1 .. Len(q')
  <2>1. i + 1 # 1
    OBVIOUS
  <2> QED BY <1>2, <1>3, <2>1
<1>6. hand' \notin Held'
  BY <1>2, <1>5 DEF Held
<1>7. Held = Held' \cup {hand'}
  <2>1. \A i \in 1 .. Len(q') : q'[i] \in Held
    BY <1>2 DEF Held
  <2>2. hand' \in Held
    BY <1>2 DEF Held
  <2>3. ASSUME NEW i \in 1 .. Len(q) PROVE q[i] \in Held' \cup {hand'}
    <3>1. CASE i = 1
      BY <1>2, <3>1
    <3>2. CASE i # 1
      <4>1. i - 1 \in 1 .. Len(q') /\ q'[i - 1] = q[i]
        BY <1>2, <3>2
      <4> QED BY <4>1 DEF Held
    <3> QED BY <3>1, <3>2
  <2> QED BY <2>1, <2>2, <2>3 DEF Held
<1>8. queued' = Held' \cup ({hand'} \ {NoHand})
  BY <1>1, <1>4, <1>7 DEF KeysOK
<1>9. \A i, j \in 1 .. Len(q') : q'[i] = q'[j] => i = j
  <2> TAKE i, j \in 1 .. Len(q')
  <2>1. q'[i] = q'[j] => i + 1 = j + 1
    BY <1>2, <1>3
  <2> QED BY <1>2, <2>1
<1>10. IsFiniteSet(queued') /\ Cardinality(queued') <= QueueMax
  BY <1>1 DEF KeysOK
<1>11. hand' = NoHand <=> step' \in {"idle", "sweep"}
  BY <1>1, <1>4
<1> QED BY <1>6, <1>8, <1>9, <1>10, <1>11 DEF KeysOK

\* The hand under way is let go, its key only
LEMMA ReleaseKeys == ASSUME Types, KeysOK, Release, q' = q PROVE KeysOK'
<1>1. step' = "idle" /\ hand' = NoHand /\ queued' = queued \ {hand} /\ Held' = Held
  BY DEF Release, Held
<1>2. NoHand \notin Held
  BY HeldAreHands
<1>3. queued' = Held
  BY <1>1, <1>2 DEF KeysOK
<1>4. IsFiniteSet(queued') /\ Cardinality(queued') <= QueueMax
  <2>1. queued' \in SUBSET queued
    BY <1>1
  <2>2. /\ IsFiniteSet(queued') /\ Cardinality(queued') <= Cardinality(queued)
        /\ Cardinality(queued') \in Nat /\ Cardinality(queued) \in Nat
    BY <2>1, FS_Subset, FS_CardinalityType DEF KeysOK
  <2> QED BY <2>2, GradingAssumption DEF KeysOK
<1> QED BY <1>1, <1>2, <1>3, <1>4 DEF KeysOK

LEMMA SameKeys ==
  ASSUME KeysOK, UNCHANGED <<q, queued, hand>>,
         step' \in {"idle", "sweep"} <=> step \in {"idle", "sweep"}
  PROVE  KeysOK'
BY DEF KeysOK, Held

LEMMA KeysStep ==
  ASSUME Types, KeysOK, DeadIsIdle, [Next]_vars
  PROVE  KeysOK'
<1>1. ASSUME NEW h \in Hands, Save(h) PROVE KeysOK'
  BY <1>1, SameKeys DEF Save, queueVars, graderVars
<1>2. ASSUME NEW h \in Hands, Post(h) PROVE KeysOK'
  <2>1. \/ /\ h \notin queued /\ Cardinality(queued) < QueueMax /\ Enqueue(h)
           /\ \/ UNCHANGED <<step, hand>>
              \/ ~ alive /\ step' = "idle" /\ hand' = NoHand
        \/ UNCHANGED <<queueVars, graderVars>>
    BY <1>2, Zenon DEF Post
  <2>2. ~ alive => step = "idle" /\ hand = NoHand
    BY DEF DeadIsIdle, KeysOK
  <2>3. CASE UNCHANGED <<queueVars, graderVars>>
    BY <2>3, SameKeys DEF queueVars, graderVars
  <2>4. CASE h \notin queued /\ Cardinality(queued) < QueueMax /\ Enqueue(h)
             /\ UNCHANGED <<step, hand>>
    BY <2>4, EnqueueKeys
  <2> QED BY <2>1, <2>2, <2>3, <2>4, EnqueueKeys
<1>3. CASE Sweep
  BY <1>3, SameKeys DEF Sweep, queueVars
<1>4. CASE SweepOne
  <2> DEFINE h == First(listed)
  <2>1. /\ step = "sweep" /\ hand' = hand /\ step' \in {"idle", "sweep"}
        /\ \/ h \notin queued /\ Cardinality(queued) < QueueMax /\ Enqueue(h)
           \/ UNCHANGED queueVars
    BY <1>4 DEF SweepOne
  <2>2. h \in Hands
    BY <2>1, FirstIsMember DEF Types
  <2> HIDE DEF h
  <2>3. CASE UNCHANGED queueVars
    BY <2>1, <2>3, SameKeys DEF queueVars
  <2>4. CASE h \notin queued /\ Cardinality(queued) < QueueMax /\ Enqueue(h)
    BY <2>1, <2>2, <2>4, EnqueueKeys
  <2> QED BY <2>1, <2>3, <2>4
<1>5. CASE Take
  BY <1>5, TakeKeys
<1>6. CASE ReplayWithoutModel
  BY <1>6, ReleaseKeys DEF ReplayWithoutModel
<1>7. CASE Replays
  BY <1>7, SameKeys DEF Replays, queueVars
<1>8. CASE Fails
  <2>1. /\ step = "replay" /\ q' = q
        /\ (step' = "given up" /\ UNCHANGED <<hand, queued>>) \/ Release
    BY <1>8 DEF Fails, Dies
  <2> QED BY <2>1, SameKeys, ReleaseKeys
<1>9. CASE Store
  <2>1. Release /\ q' = q
    BY <1>9 DEF Store, Dies
  <2> QED BY <2>1, ReleaseKeys
<1>10. CASE StartGrader
  BY <1>10, SameKeys DEF StartGrader, queueVars
<1>11. CASE ModelChanges
  BY <1>11, SameKeys DEF ModelChanges, queueVars, graderVars
<1>12. CASE Restart
  <2>1. q' = <<>> /\ queued' = {} /\ step' = "idle" /\ hand' = NoHand
    BY <1>12 DEF Restart
  <2>2. Held' = {}
    BY <2>1 DEF Held
  <2>3. IsFiniteSet(queued') /\ Cardinality(queued') <= QueueMax
    BY <2>1, FS_EmptySet, GradingAssumption
  <2> QED BY <2>1, <2>2, <2>3 DEF KeysOK
<1>13. CASE UNCHANGED vars
  BY <1>13, SameKeys DEF vars, queueVars, graderVars
<1> QED
  BY <1>1, <1>2, <1>3, <1>4, <1>5, <1>6, <1>7, <1>8, <1>9, <1>10, <1>11, <1>12, <1>13
  DEF Next, GraderStep

LEMMA FlagsStep == ASSUME Flags, DeadIsIdle, [Next]_vars PROVE Flags' /\ DeadIsIdle'
<1>1. ASSUME NEW h \in Hands, Save(h) PROVE Flags' /\ DeadIsIdle'
  BY <1>1, Zenon DEF Save, graderVars, Flags, DeadIsIdle
<1>2. ASSUME NEW h \in Hands, Post(h) PROVE Flags' /\ DeadIsIdle'
  <2>1. model' = model /\ (alive' = TRUE \/ UNCHANGED graderVars)
    BY <1>2, Zenon DEF Post
  <2> QED BY <2>1, Zenon DEF graderVars, Flags, DeadIsIdle
<1>3. CASE Sweep \/ SweepOne \/ Take \/ Replays
  BY <1>3, Zenon DEF Sweep, SweepOne, Take, Replays, Flags, DeadIsIdle
<1>4. CASE ReplayWithoutModel
  BY <1>4, Zenon DEF ReplayWithoutModel, Release, Flags, DeadIsIdle
<1>5. CASE Fails
  BY <1>5, Zenon DEF Fails, Dies, Release, Flags, DeadIsIdle
<1>6. CASE Store
  BY <1>6, Zenon DEF Store, Dies, Release, Flags, DeadIsIdle
<1>7. CASE StartGrader
  BY <1>7, Zenon DEF StartGrader, Flags, DeadIsIdle
<1>8. CASE ModelChanges
  BY <1>8, Zenon DEF ModelChanges, graderVars, Flags, DeadIsIdle
<1>9. CASE Restart
  BY <1>9, Zenon DEF Restart, Flags, DeadIsIdle
<1>10. CASE UNCHANGED vars
  BY <1>10, Zenon DEF vars, graderVars, Flags, DeadIsIdle
<1> QED
  BY <1>1, <1>2, <1>3, <1>4, <1>5, <1>6, <1>7, <1>8, <1>9, <1>10 DEF Next, GraderStep

LEMMA InitKeys == Init => KeysOK /\ Flags /\ DeadIsIdle
<1> SUFFICES ASSUME Init PROVE KeysOK /\ Flags /\ DeadIsIdle
  OBVIOUS
<1>1. q = <<>> /\ queued = {} /\ step = "idle" /\ hand = NoHand
  BY DEF Init
<1>2. Held = {}
  BY <1>1 DEF Held
<1>3. IsFiniteSet(queued) /\ Cardinality(queued) <= QueueMax
  BY <1>1, FS_EmptySet, GradingAssumption
<1>4. KeysOK
  BY <1>1, <1>2, <1>3 DEF KeysOK
<1>5. Flags /\ DeadIsIdle
  BY Zenon DEF Init, Flags, DeadIsIdle
<1> QED BY <1>4, <1>5

(* Whatever dies or restarts, a hand is in the queue once at most, is never   *)
(* queued again while it is being graded, and its key goes when it is done    *)
(* (grade_queued, _grader_loop): type correctness of the queue.               *)
THEOREM QueueTheorem == Spec => []TypeOK
<1>1. Init => KeysOK /\ Flags /\ DeadIsIdle
  BY InitKeys
<1>2. IInv => Types
  BY DEF IInv
<1>3. Types /\ (KeysOK /\ Flags /\ DeadIsIdle) /\ [Next]_vars
        => (KeysOK /\ Flags /\ DeadIsIdle)'
  BY KeysStep, FlagsStep
<1>4. Types /\ (KeysOK /\ Flags /\ DeadIsIdle) => TypeOK
  BY Zenon DEF Types, KeysOK, Flags, TypeOK, Held, Outcomes
<1> QED BY <1>1, <1>2, <1>3, <1>4, InvariantTheorem, PTL DEF Spec

=============================================================================
