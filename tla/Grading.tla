------------------------------ MODULE Grading ------------------------------
(* The background grading of finished hands (ui/homegame.py): a hand's       *)
(* record is saved with a job to grade it, the job is queued in memory by    *)
(* the thread that saved it, and one grader thread replays the hands and     *)
(* stores their marks.  A job whose deck is known is in the database until   *)
(* its marks are, and the grader sweeps the database for jobs it does not    *)
(* hold; the job of a hand dealt from a seed is in memory only.              *)
EXTENDS Integers, Sequences, FiniteSets

CONSTANTS
  NumHands,     \* bound: hands are numbered 1 .. NumHands, saved in that order
  Seeded,       \* the hands dealt from a seed
  QueueMax,     \* GRADE_QUEUE_MAX
  MaxTries,     \* GRADE_MAX_ATTEMPTS
  MaxFaults,    \* bound: database writes that fail
  MaxRestarts   \* bound: server restarts

Hands == 1 .. NumHands
NoHand == 0
NoJob == -1

ASSUME GradingAssumption ==
  /\ NumHands \in Nat /\ Seeded \subseteq Hands
  /\ QueueMax \in Nat /\ MaxTries \in Nat \ {0}
  /\ MaxFaults \in Nat /\ MaxRestarts \in Nat

VARIABLES
  marks,      \* the hand's record: unplayed, then waiting for its marks, graded,
              \* given up on, or refused (not graded: the queue was full)
  jobs,       \* homegame_grade_jobs: the attempts of each saved job
  posting,    \* saved hands whose thread has not come to _queue_grading yet
  q,          \* CTX.grade_q
  queued,     \* CTX.grade_queued: the hands in the queue or being graded
  alive,      \* is the grader thread running?
  step, hand, \* where it is, and with which hand
  listed,     \* what its sweep has read and not queued yet
  model,      \* is a real model being served?
  failed,     \* how many replays of a hand have failed
  everGraded, \* the hands that had marks at some time
  faults, restarts

dbVars     == <<marks, jobs>>
queueVars  == <<q, queued>>
graderVars == <<alive, step, hand, listed>>
seenVars   == <<failed, everGraded>>
bounds     == <<faults, restarts>>
vars == <<dbVars, posting, queueVars, graderVars, model, seenVars, bounds>>

Fault == faults < MaxFaults /\ faults' = faults + 1
Rows == {h \in Hands : jobs[h] # NoJob}
First(S) == CHOOSE h \in S : \A g \in S : h <= g

\* The oldest of S, as many as the queue takes
Oldest(S) == {h \in S : Cardinality({g \in S : g < h}) < QueueMax}

-----------------------------------------------------------------------------
(* The tables' threads *)

Init ==
  /\ marks = [h \in Hands |-> "unplayed"] /\ jobs = [h \in Hands |-> NoJob]
  /\ posting = {} /\ q = <<>> /\ queued = {}
  /\ alive = TRUE /\ step = "idle" /\ hand = NoHand /\ listed = {}
  /\ model \in BOOLEAN
  /\ failed = [h \in Hands |-> 0] /\ everGraded = {}
  /\ faults = 0 /\ restarts = 0

\* Mutant: the job is not saved with the hand
SaveNoJob(h) ==
  /\ marks[h] = "unplayed" /\ \A g \in Hands : g < h => marks[g] # "unplayed"
  /\ marks' = [marks EXCEPT ![h] = "waiting"]
  /\ posting' = posting \cup {h}
  /\ UNCHANGED <<jobs, queueVars, graderVars, model, seenVars, bounds>>

\* The hand's record and its job are saved in one transaction (_write_owed)
Save(h) ==
  /\ marks[h] = "unplayed" /\ \A g \in Hands : g < h => marks[g] # "unplayed"
  /\ marks' = [marks EXCEPT ![h] = "waiting"]
  /\ jobs' = IF h \in Seeded THEN jobs ELSE [jobs EXCEPT ![h] = 0]
  /\ posting' = posting \cup {h}
  /\ UNCHANGED <<queueVars, graderVars, model, seenVars, bounds>>

\* _queue_grading when there is room: a hand is queued once, and the grader woken
Enqueue(h) == q' = Append(q, h) /\ queued' = queued \cup {h}

\* _queue_grading, after the transaction (_persist_safe).  With the queue full a
\* saved job waits for a sweep; a job in memory only is settled as not graded.
Post(h) ==
  /\ h \in posting /\ posting' = posting \ {h}
  /\ \/ /\ h \notin queued /\ Cardinality(queued) < QueueMax
        /\ Enqueue(h)
        /\ alive' = TRUE /\ IF alive THEN UNCHANGED <<step, hand, listed>>
                            ELSE step' = "idle" /\ hand' = NoHand /\ listed' = {}
        /\ UNCHANGED <<dbVars, faults>>
     \/ /\ h \in Seeded \ queued /\ Cardinality(queued) >= QueueMax
        /\ \/ marks' = [marks EXCEPT ![h] = "refused"] /\ UNCHANGED faults
           \/ Fault /\ UNCHANGED marks
        /\ UNCHANGED <<jobs, queueVars, graderVars>>
     \/ /\ h \in queued \/ (h \notin Seeded /\ Cardinality(queued) >= QueueMax)
        /\ UNCHANGED <<dbVars, queueVars, graderVars, faults>>
  /\ UNCHANGED <<model, seenVars, restarts>>

-----------------------------------------------------------------------------
(* The grader thread (_grader_loop) *)

\* Between two jobs, when the queue is empty: the saved jobs are read
Sweep ==
  /\ alive /\ step = "idle" /\ q = <<>> /\ model
  /\ Oldest(Rows) # {}
  /\ step' = "sweep" /\ listed' = Oldest(Rows)
  /\ UNCHANGED <<dbVars, posting, queueVars, alive, hand, model, seenVars, bounds>>

\* and queued, but for those it holds already
SweepOne ==
  /\ alive /\ step = "sweep"
  /\ LET h == First(listed)
     IN /\ listed' = listed \ {h}
        /\ step' = IF listed = {h} THEN "idle" ELSE "sweep"
        /\ IF h \notin queued /\ Cardinality(queued) < QueueMax THEN Enqueue(h)
           ELSE UNCHANGED queueVars
  /\ UNCHANGED <<dbVars, posting, alive, hand, model, seenVars, bounds>>

Take ==
  /\ alive /\ step = "idle" /\ q # <<>>
  /\ hand' = Head(q) /\ q' = Tail(q) /\ step' = "replay"
  /\ UNCHANGED <<dbVars, posting, queued, alive, listed, model, seenVars, bounds>>

\* Mutant: the hand stays marked as held
KeepsKey == step' = "idle" /\ hand' = NoHand /\ UNCHANGED queued
\* The end of a job, whatever came of it
Release == step' = "idle" /\ hand' = NoHand /\ queued' = queued \ {hand}

\* Mutant: and takes the hand's key along
DiesHolding == Fault /\ alive' = FALSE /\ KeepsKey
\* An error that _grade_job does not catch ends the thread
Dies == Fault /\ alive' = FALSE /\ Release

\* grade_hand: with no real model the job is let go (a saved one waits)
ReplayWithoutModel ==
  /\ alive /\ step = "replay" /\ ~model
  /\ Release
  /\ UNCHANGED <<dbVars, posting, q, alive, listed, model, seenVars, bounds>>

Replays ==
  /\ alive /\ step = "replay" /\ model
  /\ step' = "graded"
  /\ UNCHANGED <<dbVars, posting, queueVars, alive, hand, listed, model, seenVars, bounds>>

\* The attempts of the hand under way after one more failed; a job that is in
\* memory only, or no longer saved, has had its last
Attempts == IF jobs[hand] = NoJob THEN MaxTries ELSE jobs[hand] + 1

\* Mutant: the hand is given up on a failure early
FailsEarly ==
  /\ alive /\ step = "replay" /\ model
  /\ failed' = [failed EXCEPT ![hand] = @ + 1]
  /\ \/ /\ jobs' = IF jobs[hand] = NoJob THEN jobs ELSE [jobs EXCEPT ![hand] = @ + 1]
        /\ IF Attempts >= MaxTries - 1
           THEN step' = "given up" /\ UNCHANGED <<hand, queued>>
           ELSE Release
        /\ UNCHANGED <<alive, faults>>
     \/ hand \notin Seeded /\ Dies /\ UNCHANGED jobs
  /\ UNCHANGED <<marks, posting, q, listed, model, everGraded, restarts>>

\* A replay that fails is counted (one transaction) and tried again later, or
\* the hand is given up
Fails ==
  /\ alive /\ step = "replay" /\ model
  /\ failed' = [failed EXCEPT ![hand] = @ + 1]
  /\ \/ /\ jobs' = IF jobs[hand] = NoJob THEN jobs ELSE [jobs EXCEPT ![hand] = @ + 1]
        /\ IF Attempts >= MaxTries
           THEN step' = "given up" /\ UNCHANGED <<hand, queued>>
           ELSE Release
        /\ UNCHANGED <<alive, faults>>
     \/ hand \notin Seeded /\ Dies /\ UNCHANGED jobs
  /\ UNCHANGED <<marks, posting, q, listed, model, everGraded, restarts>>

\* _store_grades: the marks (or a note instead) land and the job is done, in
\* one transaction
Store ==
  /\ alive /\ step \in {"graded", "given up"}
  /\ \/ /\ marks' = [marks EXCEPT ![hand] = step]
        /\ jobs' = [jobs EXCEPT ![hand] = NoJob]
        /\ everGraded' = IF step = "graded" THEN everGraded \cup {hand} ELSE everGraded
        /\ Release
        /\ UNCHANGED <<alive, faults>>
     \/ Dies /\ UNCHANGED <<dbVars, everGraded>>
  /\ UNCHANGED <<posting, q, listed, model, failed, restarts>>

-----------------------------------------------------------------------------
(* The world around *)

\* A request finds the thread dead (_ensure_workers)
StartGrader ==
  /\ ~alive /\ alive' = TRUE
  /\ UNCHANGED <<dbVars, posting, queueVars, step, hand, listed, model, seenVars, bounds>>

\* Models come and go (external: the model server)
ModelChanges ==
  /\ model' = ~model
  /\ UNCHANGED <<dbVars, posting, queueVars, graderVars, seenVars, bounds>>

\* The process dies and comes back: only the database is left
Restart ==
  /\ restarts < MaxRestarts /\ restarts' = restarts + 1
  /\ posting' = {} /\ q' = <<>> /\ queued' = {}
  /\ alive' = TRUE /\ step' = "idle" /\ hand' = NoHand /\ listed' = {}
  /\ UNCHANGED <<dbVars, model, seenVars, faults>>

GraderStep ==
  Sweep \/ SweepOne \/ Take \/ ReplayWithoutModel \/ Replays \/ Fails \/ Store

Next ==
  \/ \E h \in Hands : Save(h) \/ Post(h)
  \/ GraderStep \/ StartGrader \/ ModelChanges \/ Restart

Spec == Init /\ [][Next]_vars

-----------------------------------------------------------------------------
(* Properties *)

\* The types of the grader's state.  The queue holds a hand once at most, never
\* more than QueueMax hands with the one being graded, and the keys are theirs
TypeOK ==
  /\ marks \in [Hands -> {"unplayed", "waiting", "graded", "given up", "refused"}]
  /\ jobs \in [Hands -> Nat \cup {NoJob}]
  /\ posting \subseteq Hands /\ listed \subseteq Hands
  /\ alive \in BOOLEAN /\ model \in BOOLEAN
  /\ step \in {"idle", "sweep", "replay", "graded", "given up"}
  /\ hand \in Hands \cup {NoHand}
  /\ \A i, j \in 1 .. Len(q) : q[i] = q[j] => i = j
  /\ queued = {q[i] : i \in 1 .. Len(q)} \cup ({hand} \ {NoHand})
  /\ Cardinality(queued) <= QueueMax

\* Neither a restart nor a full queue loses a saved job (OPS-016)
NoJobIsLost ==
  \A h \in Hands \ Seeded : marks[h] = "waiting" => jobs[h] # NoJob

\* A replay that fails is tried again, up to MaxTries times, before the hand is
\* settled with no marks (_grade_job)
GivesUpAfterAllTries ==
  \A h \in Hands \ Seeded : marks[h] = "given up" => failed[h] >= MaxTries

\* So it is for every hand that was not graded at some time
UngradedGetAllTries ==
  \A h \in Hands \ (Seeded \cup everGraded) :
    marks[h] = "given up" => failed[h] >= MaxTries

(* Fairness: the thread that saved a hand goes on to queue it; the grader runs *)
(* while it lives, and one that died is started by the next request; it sweeps *)
(* every GRADE_SWEEP_S.  Failing writes and restarts are bounded.              *)
LiveSpec ==
  /\ Spec
  /\ \A h \in Hands : WF_vars(Post(h))
  /\ WF_vars(GraderStep) /\ WF_vars(StartGrader)

\* Once a model is served for good, every saved hand is settled in the end,
\* never left "still being worked out"
HandsAreSettled ==
  <>[]model => \A h \in Hands \ Seeded : marks[h] = "waiting" ~> marks[h] # "waiting"

=============================================================================
