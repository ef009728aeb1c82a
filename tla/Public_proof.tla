---------------------------- MODULE Public_proof ----------------------------
(* Proofs about what every request to the website goes through (ui/public.py *)
(* and ui/ratelimit.py): a user's paid access (Billing), for any number of   *)
(* subscriptions, threads, events and days; and the gates and the meter      *)
(* (HeavyWork), for any number of users, requests, slots, places in the      *)
(* queues and days.  The two share no state.                                 *)
EXTENDS Billing, HeavyWork, Money_proof, TLAPS, FiniteSetTheorems, SequenceTheorems,
        WellFoundedInduction

-----------------------------------------------------------------------------
(* Billing: types, and a status trusted without asking or without an answer  *)

Doings == {"idle", "confirm", "checkout", "refresh", "updated", "deleted"}
Events == [type : {"checkout", "updated", "deleted"}, sub : Subs, id : Nat]
Answers == [status : Statuses, until : Ends]
Jobs ==
  [does : Doings, sub : Subs \cup {Nil}, event : Events \cup {Nil},
   read : Subs \cup {Nil, "unlinked"}, says : Answers \cup {Nil}, late : BOOLEAN]
Rows ==
  [status : {"none", "active"}, source : {"", "stripe", "comp"}, sub : Subs \cup {Nil},
   cust : Subs \cup {Nil}, end : Ends, checked : Dates \cup {Nil}]

\* What BillingTypeOK says of everything but the two Boolean variables, and more
Types ==
  /\ sub \in [Subs -> Statuses] /\ until \in [Subs -> Ends]
  /\ owner \in [Subs -> Subs \cup {Nil}]
  /\ sent \subseteq Events /\ IsFiniteSet(sent) /\ Cardinality(sent) <= MaxEvents
  /\ now \in Dates /\ gone \in Dates /\ seen \subseteq sent
  /\ row \in Rows /\ (row.source = "stripe" => row.sub # Nil)
  /\ job \in [Workers -> Jobs]
Flags == retryAt \in BOOLEAN /\ crossed \in BOOLEAN

\* A thread is at work on a subscription and an event there is, and a status is
\* refreshed only of a row that has a subscription
JobsMakeSense ==
  \A w \in Workers :
    /\ job[w].does # "idle" => job[w].sub \in Subs
    /\ job[w].event # Nil => job[w].event \in sent
    /\ job[w].does = "refresh" => row.sub # Nil

\* When Stripe said of a subscription that it is alive, it was so today
AnswersAreOfToday ==
  \A w \in Workers : job[w].says # Nil /\ Active(job[w].says.status) => Alive # {} \/ gone = now

\* A row that says active on Stripe's word was written while some subscription
\* was alive, or on the day the last one ended
RowIsBacked ==
  /\ gone <= now
  /\ row.checked # Nil => row.checked <= now
  /\ row.status = "active" /\ row.source # "comp" =>
       row.source = "stripe" /\ row.checked # Nil /\ (Alive # {} \/ row.checked <= gone)

BillingInv == Types /\ JobsMakeSense /\ AnswersAreOfToday /\ RowIsBacked

-----------------------------------------------------------------------------
(* Jobs and rows *)

LEMMA TimeTypes ==
  /\ MaxTime \in Nat /\ Period \in Nat
  /\ \A t \in Dates : t \in Nat /\ t \in Ends /\ t + Period \in Ends /\ t # Nil
BY BillingAssumption, NilAssumption DEF Dates, Ends

LEMMA AnswerType ==
  ASSUME Types, NEW s \in Subs
  PROVE  /\ Answer(s) \in Answers /\ Answer(s).status = sub[s]
         /\ Active(sub[s]) => Alive # {}
BY DEF Types, Answer, Answers, Alive

LEMMA IdleType == Idle \in Jobs /\ Idle.does = "idle" /\ Idle.event = Nil /\ Idle.says = Nil
BY DEF Idle, Jobs, Doings

\* Two jobs that differ only in whether somebody wrote in between
SameJob(j, k) ==
  j.does = k.does /\ j.sub = k.sub /\ j.event = k.event /\ j.says = k.says

\* A write by another leaves a thread at what it was at
LEMMA CrossingIs ==
  ASSUME Types, NEW w
  PROVE  /\ Crossing(w) \in [Workers -> Jobs]
         /\ \A v \in Workers : Crossing(w)[v] = Idle \/ SameJob(Crossing(w)[v], job[v])
<1>1. ASSUME NEW v \in Workers
      PROVE  [job[v] EXCEPT !.late = TRUE] \in Jobs /\ SameJob([job[v] EXCEPT !.late = TRUE], job[v])
  BY DEF Types, Jobs, SameJob
<1>2. \A v \in Workers : job[v] \in Jobs /\ SameJob(job[v], job[v])
  BY DEF Types, SameJob
<1> QED
  BY <1>1, <1>2, IdleType DEF Crossing

\* What a write makes of the row
LEMMA WriteIs ==
  ASSUME BillingInv, NEW w \in Workers, Write(w)
  PROVE  /\ row' \in Rows /\ (row'.source = "stripe" => row'.sub # Nil)
         /\ row.sub # Nil => row'.sub # Nil
         /\ \/ row' = row
            \/ /\ row'.checked = now
               /\ row'.status = "active" => row'.source = "stripe" /\ (Alive # {} \/ gone = now)
<1> DEFINE j == job[w]
<1>1. /\ j \in Jobs /\ j.does # "idle" /\ j.sub \in Subs /\ j.sub # Nil
      /\ j.says # Nil \/ j.does = "deleted"
  BY NilAssumption DEF BillingInv, Types, JobsMakeSense, Write
<1>2. j.says # Nil => j.says.status \in Statuses /\ j.says.until \in Ends
  BY <1>1 DEF Jobs, Answers
<1>3. j.says # Nil /\ Active(j.says.status) => Alive # {} \/ gone = now
  BY DEF BillingInv, AnswersAreOfToday
<1>4. /\ row \in Rows /\ now \in Dates /\ now # Nil /\ owner[j.sub] \in Subs \cup {Nil}
      /\ until[j.sub] \in Ends /\ (row.source = "stripe" => row.sub # Nil)
  BY <1>1, TimeTypes DEF BillingInv, Types
<1>5. CASE j.says # Nil /\ Activate(j)
  <2>1. CASE j.says.status = "live"
    <3>1. row' = [status |-> "active", source |-> "stripe", sub |-> j.sub, cust |-> owner[j.sub],
                  end |-> j.says.until, checked |-> now]
      BY <1>5, <2>1 DEF Activate
    <3> QED
      BY <1>1, <1>2, <1>3, <1>4, <1>5, <2>1, <3>1 DEF Rows, Active
  <2>2. CASE j.says.status # "live"
    BY <1>4, <1>5, <2>2 DEF Activate
  <2> QED
    BY <2>1, <2>2
<1>6. CASE j.says # Nil /\ j.does = "refresh" /\ Refreshed(j)
  <2>1. row.sub # Nil
    BY <1>6 DEF BillingInv, JobsMakeSense
  <2> QED
    BY <1>2, <1>3, <1>4, <1>6, <2>1 DEF Refreshed, Rows
<1>7. CASE j.says # Nil /\ Apply(j)
  <2>1. CASE row' = row
    BY <1>4, <2>1
  <2>2. CASE row' = [row EXCEPT !.status = IF Active(j.says.status) THEN "active" ELSE "none",
                                !.source = "stripe", !.sub = j.sub, !.end = j.says.until,
                                !.checked = now]
    BY <1>1, <1>2, <1>3, <1>4, <1>7, <2>2 DEF Rows
  <2> QED
    BY <1>7, <2>1, <2>2 DEF Apply
<1>8. CASE Delete(j)
  BY <1>4, <1>8 DEF Delete, Rows
<1> QED
  BY <1>1, <1>5, <1>6, <1>7, <1>8 DEF Write, Jobs, Doings

-----------------------------------------------------------------------------
(* The invariant holds initially, and in every step *)

LEMMA InitBillingInv == BillingInit => BillingInv
<1> SUFFICES ASSUME BillingInit PROVE BillingInv
  OBVIOUS
<1>1. 0 \in Dates /\ 0 \in Ends
  BY BillingAssumption DEF Dates, Ends
<1>2. Types
  <2>1. sent = {} /\ seen = {} /\ IsFiniteSet(sent) /\ Cardinality(sent) <= MaxEvents
    <3>1. sent = {} /\ seen = {}
      BY DEF BillingInit
    <3>2. IsFiniteSet({}) /\ Cardinality({}) = 0
      BY FS_EmptySet, Zenon
    <3> QED
      BY <3>1, <3>2, BillingAssumption
  <2>2. row \in Rows /\ row.source # "stripe"
    BY <1>1 DEF BillingInit, Rows
  <2>3. /\ sub \in [Subs -> Statuses] /\ until \in [Subs -> Ends]
        /\ owner \in [Subs -> Subs \cup {Nil}] /\ job \in [Workers -> Jobs]
        /\ now \in Dates /\ gone \in Dates
    BY <1>1, IdleType DEF BillingInit, Statuses
  <2> QED
    BY <2>1, <2>2, <2>3 DEF Types
<1>3. JobsMakeSense /\ AnswersAreOfToday
  BY IdleType DEF BillingInit, JobsMakeSense, AnswersAreOfToday
<1>4. RowIsBacked
  <2>1. /\ gone = 0 /\ now = 0 /\ row.checked = Nil /\ row.status = "none"
    BY DEF BillingInit
  <2> QED
    BY <2>1 DEF RowIsBacked
<1> QED
  BY <1>2, <1>3, <1>4 DEF BillingInv

\* One thread goes from one job to another, and nothing else changes
LEMMA OneJob ==
  ASSUME BillingInv, NEW w \in Workers, NEW k \in Jobs, job' = [job EXCEPT ![w] = k],
         UNCHANGED <<stripeVars, now, row, seen>>,
         k.does # "idle" => k.sub \in Subs, k.event # Nil => k.event \in sent,
         k.does = "refresh" => row.sub # Nil,
         k.says # Nil /\ Active(k.says.status) => Alive # {} \/ gone = now
  PROVE  BillingInv'
<1>1. \A v \in Workers : job'[v] = IF v = w THEN k ELSE job[v]
  BY DEF BillingInv, Types
<1>2. Types'
  BY DEF BillingInv, Types, stripeVars
<1>3. JobsMakeSense'
  BY <1>1 DEF BillingInv, JobsMakeSense, stripeVars
<1>4. Alive' = Alive
  BY DEF Alive, stripeVars
<1>5. AnswersAreOfToday' /\ RowIsBacked'
  BY <1>1, <1>4 DEF BillingInv, AnswersAreOfToday, RowIsBacked, stripeVars
<1> QED
  BY <1>2, <1>3, <1>5 DEF BillingInv

\* Every thread stays at what it was at, or is done
LEMMA OldJobs ==
  ASSUME BillingInv, \A v \in Workers : job'[v] = Idle \/ SameJob(job'[v], job[v]),
         row.sub # Nil => row'.sub # Nil, sent \subseteq sent',
         Alive # {} \/ gone = now => Alive' # {} \/ gone' = now'
  PROVE  JobsMakeSense' /\ AnswersAreOfToday'
BY IdleType DEF BillingInv, JobsMakeSense, AnswersAreOfToday, SameJob

LEMMA StartStep ==
  ASSUME BillingInv, NEW w \in Workers,
         \/ \E s \in Subs : Confirm(w, s)
         \/ \E e \in sent : Deliver(w, e)
         \/ Visit(w)
  PROVE  BillingInv'
<1>1. ASSUME NEW s \in Subs, Confirm(w, s) PROVE BillingInv'
  <2> DEFINE k == [Idle EXCEPT !.does = "confirm", !.sub = s, !.says = Answer(s)]
  <2>1. /\ job' = [job EXCEPT ![w] = k] /\ UNCHANGED <<stripeVars, now, row, seen>>
    BY <1>1 DEF Confirm, Starts
  <2>2. Answer(s) \in Answers /\ Answer(s).status = sub[s] /\ (Active(sub[s]) => Alive # {})
    BY AnswerType DEF BillingInv
  <2>3. k.does = "confirm" /\ k.sub = s /\ k.event = Nil /\ k.says = Answer(s)
    BY DEF Idle
  <2>4. k \in Jobs
    BY <2>2 DEF Idle, Jobs, Doings
  <2> HIDE DEF k
  <2> QED
    BY <2>1, <2>2, <2>3, <2>4, OneJob
<1>2. ASSUME NEW e \in sent, Deliver(w, e) PROVE BillingInv'
  <2>1. e \in Events /\ e.sub \in Subs
    BY DEF BillingInv, Types, Events
  <2>2. UNCHANGED <<stripeVars, now, row, seen>>
    BY <1>2 DEF Deliver
  <2>3. CASE e.type = "checkout"
    <3> DEFINE k == [Idle EXCEPT !.does = "checkout", !.sub = e.sub, !.event = e,
                                 !.says = Answer(e.sub)]
    <3>1. job' = [job EXCEPT ![w] = k]
      BY <1>2, <2>3 DEF Deliver, Starts
    <3>2. /\ Answer(e.sub) \in Answers /\ Answer(e.sub).status = sub[e.sub]
          /\ Active(sub[e.sub]) => Alive # {}
      BY <2>1, AnswerType DEF BillingInv
    <3>3. k.does = "checkout" /\ k.sub = e.sub /\ k.event = e /\ k.says = Answer(e.sub)
      BY DEF Idle
    <3>4. k \in Jobs
      BY <2>1, <3>2 DEF Idle, Jobs, Doings
    <3> HIDE DEF k
    <3> QED
      BY <2>1, <2>2, <3>1, <3>2, <3>3, <3>4, OneJob
  <2>4. CASE e.type # "checkout"
    <3> DEFINE r == RowOf(e.sub, e.type = "updated")
               k == [Idle EXCEPT !.does = e.type, !.sub = e.sub, !.event = e, !.read = r]
    <3>1. job' = [job EXCEPT ![w] = k]
      BY <1>2, <2>4 DEF Deliver, Starts
    <3>2. r \in Subs \cup {Nil, "unlinked"}
      BY DEF RowOf, BillingInv, Types, Rows
    <3>3. k.does = e.type /\ k.sub = e.sub /\ k.event = e /\ k.says = Nil
      BY DEF Idle
    <3>4. e.type \in Doings /\ e.type # "refresh"
      BY <2>1 DEF Doings, Events
    <3> HIDE DEF r
    <3>5. k \in Jobs
      BY <2>1, <3>2, <3>4 DEF Idle, Jobs
    <3> HIDE DEF k
    <3> QED
      BY <2>1, <2>2, <3>1, <3>3, <3>4, <3>5, OneJob
  <2> QED
    BY <2>3, <2>4
<1>3. ASSUME Visit(w) PROVE BillingInv'
  <2> DEFINE k == [Idle EXCEPT !.does = "refresh", !.sub = row.sub]
  <2>1. /\ job' = [job EXCEPT ![w] = k] /\ UNCHANGED <<stripeVars, now, row, seen>>
        /\ row.sub # Nil
    BY <1>3 DEF Visit, Asks, Starts
  <2>2. row.sub \in Subs
    BY <2>1 DEF BillingInv, Types, Rows
  <2>3. k.does = "refresh" /\ k.sub = row.sub /\ k.event = Nil /\ k.says = Nil
    BY DEF Idle
  <2>4. k \in Jobs
    BY <2>2 DEF Idle, Jobs, Doings
  <2> HIDE DEF k
  <2> QED
    BY <2>1, <2>2, <2>3, <2>4, OneJob
<1> QED
  BY <1>1, <1>2, <1>3

LEMMA AskStep ==
  ASSUME BillingInv, NEW w \in Workers, Ask(w) \/ NoAnswer(w)
  PROVE  BillingInv'
<1>1. UNCHANGED <<stripeVars, now, row, seen>> /\ job[w] \in Jobs
  BY DEF Ask, NoAnswer, BillingInv, Types
<1>2. CASE Ask(w)
  <2> DEFINE k == [job[w] EXCEPT !.says = Answer(job[w].sub)]
  <2>1. job' = [job EXCEPT ![w] = k] /\ job[w].does # "idle"
    BY <1>2 DEF Ask
  <2>2. job[w].sub \in Subs
    BY <2>1 DEF BillingInv, JobsMakeSense
  <2>3. /\ Answer(job[w].sub) \in Answers /\ Answer(job[w].sub).status = sub[job[w].sub]
        /\ Active(sub[job[w].sub]) => Alive # {}
    BY <2>2, AnswerType DEF BillingInv
  <2>4. /\ k \in Jobs /\ k.does = job[w].does /\ k.sub = job[w].sub /\ k.event = job[w].event
        /\ k.says = Answer(job[w].sub)
    BY <1>1, <2>3 DEF Jobs
  <2>5. /\ job[w].event # Nil => job[w].event \in sent
        /\ job[w].does = "refresh" => row.sub # Nil
    BY DEF BillingInv, JobsMakeSense
  <2> HIDE DEF k
  <2> QED
    BY <1>1, <2>1, <2>2, <2>3, <2>4, <2>5, OneJob
<1>3. CASE NoAnswer(w)
  <2>1. job' = [job EXCEPT ![w] = Idle]
    BY <1>3 DEF NoAnswer
  <2> QED
    BY <1>1, <2>1, IdleType, OneJob
<1> QED
  BY <1>2, <1>3

LEMMA WriteStep ==
  ASSUME BillingInv, NEW w \in Workers, Write(w)
  PROVE  BillingInv'
<1>1. /\ row' \in Rows /\ (row'.source = "stripe" => row'.sub # Nil)
      /\ row.sub # Nil => row'.sub # Nil
      /\ \/ row' = row
         \/ /\ row'.checked = now
            /\ row'.status = "active" => row'.source = "stripe" /\ (Alive # {} \/ gone = now)
  BY WriteIs
<1>2. /\ UNCHANGED <<sub, until, owner, sent, gone, now>>
      /\ seen' = IF job[w].event = Nil THEN seen ELSE seen \cup {job[w].event}
      /\ job' = IF row' = row THEN [job EXCEPT ![w] = Idle] ELSE Crossing(w)
  BY DEF Write, stripeVars
<1>3. job[w].event # Nil => job[w].event \in sent
  BY DEF BillingInv, JobsMakeSense
<1>4. Types => /\ [job EXCEPT ![w] = Idle] \in [Workers -> Jobs]
               /\ \A v \in Workers : LET f == [job EXCEPT ![w] = Idle]
                                     IN f[v] = Idle \/ SameJob(f[v], job[v])
  BY IdleType DEF Types, SameJob
<1>5. /\ job' \in [Workers -> Jobs]
      /\ \A v \in Workers : job'[v] = Idle \/ SameJob(job'[v], job[v])
  BY <1>2, <1>4, CrossingIs DEF BillingInv
<1>6. Alive' = Alive
  BY <1>2 DEF Alive
<1>7. JobsMakeSense' /\ AnswersAreOfToday'
  BY <1>1, <1>2, <1>5, <1>6, OldJobs
<1>8. Types'
  BY <1>1, <1>2, <1>3, <1>5 DEF BillingInv, Types
<1>9. now \in Nat /\ gone <= now
  BY BillingAssumption DEF BillingInv, Types, RowIsBacked, Dates
<1>10. RowIsBacked'
  <2>1. CASE row' = row
    BY <1>2, <1>6, <2>1 DEF BillingInv, RowIsBacked
  <2>2. CASE /\ row'.checked = now
             /\ row'.status = "active" => row'.source = "stripe" /\ (Alive # {} \/ gone = now)
    BY <1>2, <1>6, <1>9, <2>2, TimeTypes DEF BillingInv, Types, RowIsBacked
  <2> QED
    BY <1>1, <2>1, <2>2
<1> QED
  BY <1>7, <1>8, <1>10 DEF BillingInv

LEMMA AdminStep ==
  ASSUME BillingInv, GiveComp \/ Revoke
  PROVE  BillingInv'
<1>1. /\ UNCHANGED <<sub, until, owner, sent, gone, now, seen>> /\ job' = Crossing(Nil)
      /\ \/ row' = [row EXCEPT !.status = "active", !.source = "comp"]
         \/ row' = [row EXCEPT !.status = "none", !.source = ""]
  BY DEF GiveComp, Revoke, stripeVars
<1>2. /\ row' \in Rows /\ row'.sub = row.sub /\ row'.checked = row.checked
      /\ row'.source # "stripe" /\ (row'.status = "active" => row'.source = "comp")
  BY <1>1 DEF BillingInv, Types, Rows
<1>3. /\ job' \in [Workers -> Jobs]
      /\ \A v \in Workers : job'[v] = Idle \/ SameJob(job'[v], job[v])
  BY <1>1, CrossingIs DEF BillingInv
<1>4. Alive' = Alive
  BY <1>1 DEF Alive
<1>5. JobsMakeSense' /\ AnswersAreOfToday'
  BY <1>1, <1>2, <1>3, <1>4, OldJobs
<1>6. Types'
  BY <1>1, <1>2, <1>3 DEF BillingInv, Types
<1>7. RowIsBacked'
  BY <1>1, <1>2 DEF BillingInv, RowIsBacked
<1> QED
  BY <1>5, <1>6, <1>7 DEF BillingInv

\* What Stripe sends, of one or two types, are events, no more than there may be
LEMMA SendsIs ==
  ASSUME BillingInv, NEW a \in {"checkout", "updated", "deleted"},
         NEW b \in {"checkout", "updated", "deleted"}, NEW s \in Subs, Sends({a, b}, s)
  PROVE  /\ sent' \subseteq Events /\ IsFiniteSet(sent') /\ Cardinality(sent') <= MaxEvents
         /\ sent \subseteq sent' /\ UNCHANGED <<owner, now, row, seen, job>>
<1> DEFINE Id(t) == Cardinality({e \in sent : e.type = t /\ e.sub = s})
           Ev(t) == [type |-> t, sub |-> s, id |-> Id(t)]
<1>1. IsFiniteSet(sent) /\ sent \subseteq Events
  BY DEF BillingInv, Types
<1>2. ASSUME NEW t PROVE Id(t) \in Nat
  <2>1. IsFiniteSet({e \in sent : e.type = t /\ e.sub = s})
    BY <1>1, FS_Subset
  <2> QED
    BY <2>1, FS_CardinalityType
<1>3. sent' = sent \cup {Ev(t) : t \in {a, b}} /\ UNCHANGED <<owner, now, row, seen, job>>
      /\ Cardinality(sent) + Cardinality({a, b}) <= MaxEvents
  BY DEF Sends
<1>4. Ev(a) \in Events /\ Ev(b) \in Events
  BY <1>2 DEF Events
<1>5. sent' = (sent \cup {Ev(a)}) \cup {Ev(b)} /\ (a = b => Ev(a) = Ev(b))
  BY <1>3
<1>6. /\ IsFiniteSet(sent \cup {Ev(a)})
      /\ Cardinality(sent \cup {Ev(a)}) <= Cardinality(sent) + 1
      /\ Cardinality(sent) \in Nat /\ Cardinality(sent \cup {Ev(a)}) \in Nat
  <2>1. /\ IsFiniteSet(sent \cup {Ev(a)})
        /\ Cardinality(sent \cup {Ev(a)}) = Cardinality(sent) + 1
           \/ Cardinality(sent \cup {Ev(a)}) = Cardinality(sent)
    BY <1>1, FS_AddElement
  <2>2. Cardinality(sent) \in Nat /\ Cardinality(sent \cup {Ev(a)}) \in Nat
    BY <1>1, <2>1, FS_CardinalityType
  <2> QED
    BY <2>1, <2>2
<1>7. IsFiniteSet(sent') /\ Cardinality(sent') <= Cardinality(sent \cup {Ev(a)}) + 1
      /\ Cardinality(sent') \in Nat
  <2>1. /\ IsFiniteSet(sent')
        /\ Cardinality(sent') = Cardinality(sent \cup {Ev(a)}) + 1
           \/ Cardinality(sent') = Cardinality(sent \cup {Ev(a)})
    BY <1>5, <1>6, FS_AddElement
  <2>2. Cardinality(sent') \in Nat
    BY <2>1, FS_CardinalityType
  <2> QED
    BY <1>6, <2>1, <2>2
<1>8. a = b => sent' = sent \cup {Ev(a)}
  BY <1>5
<1>9. Cardinality({a, b}) = IF a = b THEN 1 ELSE 2
  <2>1. IsFiniteSet({a}) /\ Cardinality({a}) = 1 /\ {a, b} = {a} \cup {b}
    BY FS_Singleton
  <2>2. CASE a = b
    BY <2>1, <2>2
  <2>3. CASE a # b
    <3>1. b \notin {a}
      BY <2>3
    <3>2. Cardinality({a} \cup {b}) = Cardinality({a}) + 1
      BY <2>1, <3>1, FS_AddElement
    <3>3. QED
      BY <2>1, <2>3, <3>2
  <2>4. QED
    BY <2>2, <2>3
<1> HIDE DEF Ev
<1>10. Cardinality(sent') <= MaxEvents
  <2> DEFINE before == Cardinality(sent)
             one    == Cardinality(sent \cup {Ev(a)})
             after  == Cardinality(sent')
  <2>1. /\ before \in Nat /\ one \in Nat /\ after \in Nat /\ MaxEvents \in Nat
        /\ one <= before + 1 /\ after <= one + 1
    BY <1>6, <1>7, BillingAssumption
  <2>2. CASE a = b
    <3>1. before + 1 <= MaxEvents
      BY <1>3, <1>9, <2>2
    <3>2. after = one
      BY <1>8, <2>2
    <3> HIDE DEF before, one, after
    <3>3. after <= MaxEvents
      BY <2>1, <3>1, <3>2
    <3>4. QED
      BY <3>3 DEF after
  <2>3. CASE a # b
    <3>1. before + 2 <= MaxEvents
      BY <1>3, <1>9, <2>3
    <3> HIDE DEF before, one, after
    <3>2. after <= MaxEvents
      BY <2>1, <3>1
    <3>3. QED
      BY <3>2 DEF after
  <2>4. QED
    BY <2>2, <2>3
<1> QED
  BY <1>1, <1>3, <1>4, <1>5, <1>7, <1>10

\* A subscription changes at Stripe, today
LEMMA StripeStep ==
  ASSUME BillingInv, NEW s \in Subs, Checkout(s) \/ Pay(s) \/ Lapse(s) \/ Renew(s) \/ End(s)
  PROVE  BillingInv'
<1>1. now \in Dates /\ now + Period \in Ends /\ now \in Nat /\ gone <= now /\ gone \in Nat
  BY TimeTypes, BillingAssumption DEF BillingInv, Types, RowIsBacked, Dates
<1>2. /\ UNCHANGED <<now, row, seen, job>>
      /\ sub' \in [Subs -> Statuses] /\ until' \in [Subs -> Ends]
      /\ owner' \in [Subs -> Subs \cup {Nil}]
      /\ sent' \subseteq Events /\ IsFiniteSet(sent') /\ Cardinality(sent') <= MaxEvents
      /\ sent \subseteq sent' /\ gone' \in Dates /\ gone' <= now
      /\ Alive' # {} \/ (gone <= gone' /\ (Alive # {} \/ gone = now => gone' = now))
  <2>1. CASE Checkout(s)
    <3>1. Alive' = Alive
      <4>1. sub' = [sub EXCEPT ![s] = "open"] /\ sub[s] = "none" /\ sub \in [Subs -> Statuses]
        BY <2>1 DEF Checkout, BillingInv, Types
      <4>2. \A x \in Subs : Active(sub'[x]) <=> Active(sub[x])
        BY <4>1 DEF Active
      <4> QED
        BY <4>2 DEF Alive
    <3> QED
      <4>1. /\ sub' = [sub EXCEPT ![s] = "open"] /\ UNCHANGED <<until, sent, gone, now, row, seen, job>>
            /\ owner' = [owner EXCEPT ![s] = IF row.cust = Nil THEN s ELSE row.cust]
        BY <2>1 DEF Checkout
      <4>2. row.cust \in Subs \cup {Nil}
        BY DEF BillingInv, Types, Rows
      <4>3. owner' \in [Subs -> Subs \cup {Nil}] /\ sub' \in [Subs -> Statuses]
        BY <4>1, <4>2 DEF BillingInv, Types, Statuses
      <4> QED
        BY <1>1, <3>1, <4>1, <4>3 DEF BillingInv, Types
  <2>2. CASE Pay(s) \/ Lapse(s) \/ Renew(s)
    <3>1. Sends({"checkout", "updated"}, s) \/ Sends({"updated", "updated"}, s)
      <4>1. {"updated", "updated"} = {"updated"}
        OBVIOUS
      <4> QED
        BY <2>2, <4>1 DEF Pay, Lapse, Renew
    <3>3. /\ sent' \subseteq Events /\ IsFiniteSet(sent') /\ Cardinality(sent') <= MaxEvents
          /\ sent \subseteq sent' /\ UNCHANGED <<owner, now, row, seen, job>>
      BY <3>1, SendsIs
    <3>4. /\ sub \in [Subs -> Statuses]
          /\ sub' = [sub EXCEPT ![s] = "live"] \/ sub' = [sub EXCEPT ![s] = "late"]
          /\ gone' \in {gone, 0}
          /\ until' = until \/ until' = [until EXCEPT ![s] = now + Period]
      BY <2>2 DEF Pay, Lapse, Renew, BillingInv, Types
    <3>5. Active(sub'[s])
      BY <3>4 DEF Active
    <3>6. Alive' # {}
      BY <3>5 DEF Alive
    <3>7. gone' \in Dates /\ gone' <= now
      BY <1>1, <3>4, BillingAssumption DEF BillingInv, Types, Dates
    <3> QED
      BY <1>1, <3>3, <3>4, <3>6, <3>7 DEF BillingInv, Types, Statuses
  <2>3. CASE End(s)
    <3>1. /\ sent' \subseteq Events /\ IsFiniteSet(sent') /\ Cardinality(sent') <= MaxEvents
          /\ sent \subseteq sent' /\ UNCHANGED <<owner, now, row, seen, job>>
      <4>1. {"deleted", "deleted"} = {"deleted"}
        OBVIOUS
      <4> QED
        BY <2>3, <4>1, SendsIs DEF End
    <3> QED
      BY <1>1, <2>3, <3>1 DEF End, BillingInv, Types, Statuses
  <2> QED
    BY <2>1, <2>2, <2>3
<1>3. \A v \in Workers : SameJob(job'[v], job[v])
  BY <1>2 DEF SameJob
<1>4. Alive # {} \/ gone = now => Alive' # {} \/ gone' = now'
  BY <1>2
<1>5. JobsMakeSense' /\ AnswersAreOfToday'
  BY <1>2, <1>3, <1>4, OldJobs
<1>6. Types'
  BY <1>2 DEF BillingInv, Types
<1>7. row.checked # Nil => row.checked \in Nat
  BY TimeTypes DEF BillingInv, Types, Rows
<1>8. gone' \in Nat
  BY <1>2, BillingAssumption DEF Dates
<1>9. RowIsBacked'
  BY <1>1, <1>2, <1>7, <1>8 DEF BillingInv, RowIsBacked
<1> QED
  BY <1>5, <1>6, <1>9 DEF BillingInv

LEMMA TickStep ==
  ASSUME BillingInv, Tick
  PROVE  BillingInv'
<1>1. /\ UNCHANGED <<sub, until, owner, sent, gone, row, seen, job>> /\ now' = now + 1
      /\ now < MaxTime /\ \A w \in Workers : job[w] = Idle
  BY DEF Tick, stripeVars
<1>2. now \in Nat /\ now' \in Dates /\ gone \in Nat /\ (row.checked # Nil => row.checked \in Nat)
  <2>1. now \in Nat /\ gone \in Nat /\ (row.checked # Nil => row.checked \in Nat)
    BY TimeTypes DEF BillingInv, Types, Rows
  <2>2. now' \in Dates
    BY <1>1, <2>1, BillingAssumption DEF Dates
  <2> QED
    BY <2>1, <2>2
<1>3. Types'
  BY <1>1, <1>2 DEF BillingInv, Types
<1>4. JobsMakeSense' /\ AnswersAreOfToday'
  BY <1>1, IdleType DEF JobsMakeSense, AnswersAreOfToday
<1>5. Alive' = Alive
  BY <1>1 DEF Alive
<1>6. RowIsBacked'
  BY <1>1, <1>2, <1>5 DEF BillingInv, RowIsBacked
<1> QED
  BY <1>3, <1>4, <1>6 DEF BillingInv

LEMMA NextBillingInv == BillingInv /\ [BillingNext]_billingVars => BillingInv'
<1> SUFFICES ASSUME BillingInv, [BillingNext]_billingVars PROVE BillingInv'
  OBVIOUS
<1>1. ASSUME NEW w \in Workers, \/ \E s \in Subs : Confirm(w, s)
                                \/ \E e \in sent : Deliver(w, e)
                                \/ Visit(w)
      PROVE  BillingInv'
  BY <1>1, StartStep
<1>2. ASSUME NEW w \in Workers, Ask(w) \/ NoAnswer(w) PROVE BillingInv'
  BY <1>2, AskStep
<1>3. ASSUME NEW w \in Workers, Write(w) PROVE BillingInv'
  BY <1>3, WriteStep
<1>4. CASE GiveComp \/ Revoke
  BY <1>4, AdminStep
<1>5. ASSUME NEW s \in Subs, Checkout(s) \/ Pay(s) \/ Lapse(s) \/ Renew(s) \/ End(s) PROVE BillingInv'
  BY <1>5, StripeStep
<1>6. CASE Tick
  BY <1>6, TickStep
<1>7. CASE RetryEnds \/ UNCHANGED billingVars
  <2>1. UNCHANGED <<sub, until, owner, sent, gone, now, row, seen, job>>
    BY <1>7 DEF RetryEnds, billingVars, stripeVars
  <2>2. Alive' = Alive
    BY <2>1 DEF Alive
  <2> QED
    BY <2>1, <2>2 DEF BillingInv, Types, JobsMakeSense, AnswersAreOfToday, RowIsBacked
<1> QED
  BY <1>1, <1>2, <1>3, <1>4, <1>5, <1>6, <1>7 DEF BillingNext, Handle

LEMMA InitFlags == BillingInit => Flags
BY Zenon DEF BillingInit, Flags

LEMMA NextFlags == Flags /\ [BillingNext]_billingVars => Flags'
BY Zenon DEF Flags, BillingNext, billingVars, Confirm, Deliver, Visit, Handle, Ask, NoAnswer, Write, Checkout,
  GiveComp, Revoke, Pay, Lapse, Renew, End, Sends, RetryEnds, Tick

-----------------------------------------------------------------------------
(* A period on file ends no later than one that was bought                     *)

BoughtBy(s, t) == s \in Subs /\ sub[s] \in {"live", "late", "ended"} /\ t <= until[s]
EndsAreBought ==
  /\ \A w \in Workers : job[w].says # Nil /\ Active(job[w].says.status) =>
       BoughtBy(job[w].sub, job[w].says.until)
  /\ row.status = "active" /\ row.source # "comp" => \E s \in Subs : BoughtBy(s, row.end)

\* A subscription that is paid for again is paid for longer
LEMMA BoughtStays ==
  ASSUME BillingInv, [BillingNext]_billingVars, NEW s \in Subs, NEW t \in Ends, BoughtBy(s, t)
  PROVE  BoughtBy(s, t)'
<1>1. /\ sub \in [Subs -> Statuses] /\ until \in [Subs -> Ends] /\ now \in Nat
      /\ \A e \in Ends : e \in Nat
  BY TimeTypes DEF BillingInv, Types, Ends
<1>2. ASSUME NEW x \in Subs, Checkout(x) PROVE BoughtBy(s, t)'
  BY <1>1, <1>2 DEF Checkout, BoughtBy
<1>3. ASSUME NEW x \in Subs, Pay(x) \/ Lapse(x) \/ Renew(x) \/ End(x) PROVE BoughtBy(s, t)'
  <2>1. CASE Pay(x)
    BY <1>1, <2>1 DEF Pay, BoughtBy
  <2>2. CASE Lapse(x) \/ End(x)
    BY <1>1, <2>2 DEF Lapse, End, BoughtBy
  <2>3. CASE Renew(x)
    <3>1. sub' = [sub EXCEPT ![x] = "live"] /\ until' = [until EXCEPT ![x] = now + Period]
          /\ now >= until[x]
      BY <2>3 DEF Renew
    <3>2. now + Period >= until[x]
      BY <1>1, <3>1, BillingAssumption
    <3> QED
      BY <1>1, <3>1, <3>2, BillingAssumption DEF BoughtBy
  <2> QED
    BY <1>3, <2>1, <2>2, <2>3
<1>4. CASE UNCHANGED <<sub, until>>
  BY <1>4 DEF BoughtBy
<1>5. ASSUME NEW w \in Workers, \/ \E x \in Subs : Confirm(w, x)
                                \/ \E e \in sent : Deliver(w, e)
                                \/ Visit(w) \/ Ask(w) \/ Write(w) \/ NoAnswer(w)
      PROVE  UNCHANGED <<sub, until>>
  BY <1>5, Zenon DEF Confirm, Deliver, Visit, Ask, Write, NoAnswer, stripeVars
<1>6. ASSUME GiveComp \/ Revoke \/ RetryEnds \/ Tick \/ UNCHANGED billingVars
      PROVE  UNCHANGED <<sub, until>>
  BY <1>6, Zenon DEF GiveComp, Revoke, RetryEnds, Tick, billingVars, stripeVars
<1> QED
  BY <1>2, <1>3, <1>4, <1>5, <1>6 DEF BillingNext, Handle

\* What a thread says of a live subscription it was told before, or just now
LEMMA JobsSay ==
  ASSUME BillingInv, [BillingNext]_billingVars, NEW v \in Workers,
         job'[v].says # Nil, Active(job'[v].says.status)
  PROVE  \/ job'[v].says = job[v].says /\ job'[v].sub = job[v].sub
         \/ /\ UNCHANGED <<sub, until>> /\ job'[v].sub \in Subs
            /\ job'[v].says = Answer(job'[v].sub)
<1>0. job \in [Workers -> Jobs] /\ job[v] \in Jobs
  BY DEF BillingInv, Types
<1> DEFINE Same == job'[v].says = job[v].says /\ job'[v].sub = job[v].sub
           Told == /\ UNCHANGED <<sub, until>> /\ job'[v].sub \in Subs
                   /\ job'[v].says = Answer(job'[v].sub)
<1>1. ASSUME NEW w \in Workers, NEW s \in Subs, Confirm(w, s) PROVE Same \/ Told
  BY <1>0, <1>1 DEF Confirm, Starts, Idle, stripeVars
<1>2. ASSUME NEW w \in Workers, NEW e \in sent, Deliver(w, e) PROVE Same \/ Told
  <2>1. e \in Events /\ UNCHANGED <<sub, until>> /\ \E k : job' = [job EXCEPT ![w] = k]
    BY <1>2 DEF Deliver, Starts, stripeVars, BillingInv, Types
  <2>2. CASE w # v
    BY <1>0, <2>1, <2>2
  <2>3. CASE w = v /\ e.type = "checkout"
    BY <1>0, <1>2, <2>1, <2>3 DEF Deliver, Starts, Idle, Events
  <2>4. CASE w = v /\ e.type # "checkout"
    BY <1>0, <1>2, <2>4 DEF Deliver, Starts, Idle
  <2> QED
    BY <2>2, <2>3, <2>4
<1>3. ASSUME NEW w \in Workers, Visit(w) \/ NoAnswer(w) PROVE Same \/ Told
  <2>1. CASE Visit(w)
    BY <1>0, <2>1 DEF Visit, Starts, Idle
  <2>2. CASE NoAnswer(w)
    BY <1>0, <2>2, IdleType DEF NoAnswer
  <2> QED
    BY <1>3, <2>1, <2>2
<1>4. ASSUME NEW w \in Workers, Ask(w) PROVE Same \/ Told
  <2>1. job' = [job EXCEPT ![w].says = Answer(job[w].sub)] /\ job[w].does # "idle"
        /\ UNCHANGED <<sub, until>>
    BY <1>4 DEF Ask, stripeVars
  <2>2. job[w].sub \in Subs /\ job[w] \in Jobs
    BY <2>1 DEF BillingInv, Types, JobsMakeSense
  <2> QED
    BY <1>0, <2>1, <2>2 DEF Jobs
<1>5. ASSUME NEW w, job' = Crossing(w) PROVE Same \/ Told
  <2>1. job'[v] = Idle \/ SameJob(job'[v], job[v])
    BY <1>5, CrossingIs DEF BillingInv
  <2> QED
    BY <2>1, IdleType DEF SameJob
<1>6. ASSUME NEW w \in Workers, Write(w) PROVE Same \/ Told
  <2>1. job' = [job EXCEPT ![w] = Idle] \/ job' = Crossing(w)
    BY <1>6 DEF Write
  <2>2. CASE job' = [job EXCEPT ![w] = Idle]
    BY <1>0, <2>2, IdleType
  <2> QED
    BY <1>5, <2>1, <2>2
<1>7. CASE GiveComp \/ Revoke
  BY <1>5, <1>7 DEF GiveComp, Revoke
<1>8. CASE job' = job
  BY <1>8
<1>9. ASSUME NEW s \in Subs, Checkout(s) \/ Pay(s) \/ Lapse(s) \/ Renew(s) \/ End(s)
      PROVE  job' = job
  BY <1>9 DEF Checkout, Pay, Lapse, Renew, End, Sends
<1>10. ASSUME RetryEnds \/ Tick \/ UNCHANGED billingVars PROVE job' = job
  BY <1>10 DEF RetryEnds, Tick, billingVars
<1> QED
  BY <1>1, <1>2, <1>3, <1>4, <1>6, <1>7, <1>8, <1>9, <1>10 DEF BillingNext, Handle

\* The row says active until the date a thread was told
LEMMA RowSays ==
  ASSUME BillingInv, [BillingNext]_billingVars, row'.status = "active", row'.source # "comp"
  PROVE  \/ row' = row
         \/ \E w \in Workers : /\ row'.end = job[w].says.until /\ job[w].sub \in Subs
                               /\ job[w].says # Nil /\ Active(job[w].says.status)
<1>1. ASSUME NEW w \in Workers, Write(w), row' # row
      PROVE  /\ row'.end = job[w].says.until /\ job[w].sub \in Subs
             /\ job[w].says # Nil /\ Active(job[w].says.status)
  <2>1. job[w] \in Jobs /\ job[w].sub \in Subs /\ row \in Rows
    BY <1>1 DEF BillingInv, Types, JobsMakeSense, Write
  <2>2. CASE job[w].does \in {"confirm", "checkout"}
    <3>1. job[w].says # Nil /\ Activate(job[w])
      BY <1>1, <2>2 DEF Write
    <3>2. job[w].says.status = "live" /\ row'.end = job[w].says.until
      BY <1>1, <3>1 DEF Activate
    <3> QED
      BY <2>1, <3>1, <3>2 DEF Active
  <2>3. CASE job[w].does = "refresh"
    BY <1>1, <2>1, <2>3 DEF Write, Refreshed, Rows
  <2>4. CASE job[w].does = "updated"
    BY <1>1, <2>1, <2>4 DEF Write, Apply, Rows
  <2>5. CASE job[w].does = "deleted"
    BY <1>1, <2>1, <2>5 DEF Write, Delete, Rows
  <2> QED
    BY <1>1, <2>1, <2>2, <2>3, <2>4, <2>5 DEF Jobs, Doings, Write
<1>2. CASE GiveComp \/ Revoke
  BY <1>2 DEF GiveComp, Revoke, BillingInv, Types, Rows
<1>3. ASSUME NEW w \in Workers, \/ \E x \in Subs : Confirm(w, x)
                                \/ \E e \in sent : Deliver(w, e)
                                \/ Visit(w) \/ Ask(w) \/ NoAnswer(w)
      PROVE  row' = row
  BY <1>3, Zenon DEF Confirm, Deliver, Visit, Ask, NoAnswer
<1>4. ASSUME NEW s \in Subs, Checkout(s) \/ Pay(s) \/ Lapse(s) \/ Renew(s) \/ End(s)
      PROVE  row' = row
  BY <1>4 DEF Checkout, Pay, Lapse, Renew, End, Sends
<1>5. ASSUME RetryEnds \/ Tick \/ UNCHANGED billingVars PROVE row' = row
  BY <1>5 DEF RetryEnds, Tick, billingVars
<1> QED
  BY <1>1, <1>2, <1>3, <1>4, <1>5 DEF BillingNext, Handle

LEMMA NextEnds ==
  ASSUME BillingInv, EndsAreBought, [BillingNext]_billingVars
  PROVE  EndsAreBought'
<1>1. ASSUME NEW v \in Workers, job'[v].says # Nil, Active(job'[v].says.status)
      PROVE  BoughtBy(job[v].sub, job[v].says.until)'
  <2>1. CASE job'[v].says = job[v].says /\ job'[v].sub = job[v].sub
    <3>1. job[v].says # Nil /\ job[v].sub \in Subs /\ job[v].says.until \in Ends
      <4>1. job[v] \in Jobs /\ job[v].says # Nil
        BY <1>1, <2>1 DEF BillingInv, Types
      <4>2. job[v].sub \in Subs
        BY <1>1, <2>1 DEF EndsAreBought, BoughtBy
      <4> QED
        BY <4>1, <4>2 DEF Jobs, Answers
    <3>2. BoughtBy(job[v].sub, job[v].says.until)
      BY <1>1, <2>1 DEF EndsAreBought
    <3>3. sub'[job[v].sub] \in {"live", "late", "ended"} /\ job[v].says.until <= until'[job[v].sub]
      BY <3>1, <3>2, BoughtStays DEF BoughtBy
    <3> QED
      BY <2>1, <3>1, <3>3 DEF BoughtBy
  <2>2. CASE /\ UNCHANGED <<sub, until>> /\ job'[v].sub \in Subs
             /\ job'[v].says = Answer(job'[v].sub)
    <3>1. until[job'[v].sub] \in Int
      BY <2>2, BillingAssumption DEF BillingInv, Types, Ends
    <3> QED
      BY <1>1, <2>2, <3>1 DEF BoughtBy, Answer, Active
  <2> QED
    BY <1>1, <2>1, <2>2, JobsSay
<1>2. ASSUME row'.status = "active", row'.source # "comp"
      PROVE  \E s \in Subs : BoughtBy(s, row.end)'
  <2>1. \E s \in Subs : BoughtBy(s, row'.end) /\ row'.end \in Ends
    <3>1. CASE row' = row
      BY <1>2, <3>1 DEF EndsAreBought, BillingInv, Types, Rows
    <3>2. ASSUME NEW w \in Workers, row'.end = job[w].says.until, job[w].sub \in Subs,
                 job[w].says # Nil, Active(job[w].says.status)
          PROVE  BoughtBy(job[w].sub, row'.end) /\ row'.end \in Ends
      BY <3>2 DEF EndsAreBought, BillingInv, Types, Jobs, Answers
    <3> QED
      BY <1>2, <3>1, <3>2, RowSays
  <2> PICK s \in Subs : BoughtBy(s, row'.end) /\ row'.end \in Ends
    BY <2>1
  <2>2. sub'[s] \in {"live", "late", "ended"} /\ row'.end <= until'[s]
    BY BoughtStays DEF BoughtBy
  <2> QED
    BY <2>2 DEF BoughtBy
<1> QED
  BY <1>1, <1>2 DEF EndsAreBought

LEMMA InitEnds == BillingInit => EndsAreBought
<1> SUFFICES ASSUME BillingInit PROVE EndsAreBought
  OBVIOUS
<1>1. row.status = "none" /\ \A w \in Workers : job[w] = Idle
  BY DEF BillingInit
<1> QED
  BY <1>1, IdleType DEF EndsAreBought

-----------------------------------------------------------------------------
(* Whoever pays is let in: a thread's reading of the row is either what the   *)
(* row says, or marked as outdated; and what Stripe said of a subscription     *)
(* that is alive holds                                                         *)

\* The subscriptions that have been paid for
Paid == {s \in Subs : sub[s] \notin {"none", "open"}}

\* A job for an event is of the event's kind, and for its subscription
OfEvent(j) ==
  IF j.does \in {"checkout", "updated", "deleted"}
  THEN j.event \in sent /\ j.event.type = j.does /\ j.event.sub = j.sub
  ELSE j.event = Nil

\* What Stripe said of a subscription that is still alive holds
AnswerHolds(j) ==
  j.says # Nil /\ j.sub \in Alive =>
    Active(j.says.status) /\ (j.does = "checkout" => j.says.status = "live")

\* What a job read of the row is what it says now
Fresh(j) ==
  /\ j.does = "refresh" => row.sub = j.sub
  /\ j.does \in {"updated", "deleted"} /\ j.read # Nil =>
       row.sub = IF j.read = "unlinked" THEN Nil ELSE j.read
  /\ j.says # Nil /\ Active(j.says.status) /\ row.sub \in Alive => row.sub = j.sub

JobOK(j) ==
  /\ IF j.does = "idle" THEN j = Idle ELSE j.sub \in Paid
  /\ OfEvent(j) /\ AnswerHolds(j) /\ (j.late = FALSE => Fresh(j))
JobsOK == \A w \in Workers : JobOK(job[w])

\* Stripe speaks of paid subscriptions, at most one of them alive, and of the end of
\* one that has ended; none is late while its checkout is not dealt with
EventsOK ==
  \A e \in sent :
    /\ e.sub \in Paid /\ (e.type = "deleted" => sub[e.sub] = "ended")
    /\ e.type = "checkout" /\ e \notin seen => sub[e.sub] # "late"
OneAlive == \A s, t \in Alive : s = t
RowIsPaid == row.sub # Nil => row.sub \in Paid

\* The row gives access by the subscription that is alive, or its checkout's event
\* is still to be dealt with
Granted(s) == row.sub = s /\ row.status = "active" /\ row.source = "stripe"
Awaited(s) == \E e \in sent : e \notin seen /\ e.type = "checkout" /\ e.sub = s
AliveIsGranted == crossed = FALSE => \A s \in Alive : Granted(s) \/ Awaited(s)

PayInv == JobsOK /\ EventsOK /\ OneAlive /\ RowIsPaid /\ AliveIsGranted

LEMMA JobIs ==
  ASSUME BillingInv, NEW w \in Workers
  PROVE  /\ job[w] \in Jobs /\ (job[w].late = TRUE \/ job[w].late = FALSE)
         /\ job[w].does # "idle" => job[w].sub \in Subs /\ job[w].sub # Nil
<1>1. job[w] \in Jobs
  BY DEF BillingInv, Types
<1>2. job[w].late \in BOOLEAN
  BY <1>1 DEF Jobs
<1>3. job[w].does # "idle" => job[w].sub \in Subs /\ job[w].sub # Nil
  BY NilAssumption DEF BillingInv, JobsMakeSense
<1> QED
  BY <1>1, <1>2, <1>3

LEMMA IdleOK == JobOK(Idle) /\ JobOK(Idle)'
BY DEF JobOK, OfEvent, AnswerHolds, Fresh, Idle

\* A step at Stripe or of a thread that leaves the row and what it is known by alone
LEMMA NothingWritten ==
  ASSUME PayInv, UNCHANGED <<sub, sent, row, seen, crossed>>,
         \A w \in Workers : job'[w] = job[w] \/ JobOK(job'[w])
  PROVE  PayInv'
<1>1. Paid' = Paid /\ Alive' = Alive
  BY DEF Paid, Alive
<1>2. JobsOK'
  <2> SUFFICES ASSUME NEW w \in Workers PROVE JobOK(job[w])'
    BY DEF JobsOK
  <2>1. JobOK(job'[w])
    BY DEF PayInv, JobsOK
  <2> QED
    BY <1>1, <2>1 DEF JobOK, OfEvent, AnswerHolds, Fresh
<1>3. EventsOK' /\ OneAlive' /\ RowIsPaid'
  BY <1>1 DEF PayInv, EventsOK, OneAlive, RowIsPaid
<1>4. AliveIsGranted'
  BY <1>1 DEF PayInv, AliveIsGranted, Granted, Awaited
<1> QED
  BY <1>2, <1>3, <1>4 DEF PayInv

LEMMA OneJobPays ==
  ASSUME BillingInv, PayInv, NEW w \in Workers, NEW k, job' = [job EXCEPT ![w] = k],
         UNCHANGED <<sub, sent, row, seen, crossed>>, JobOK(k)
  PROVE  PayInv'
<1>1. \A v \in Workers : job'[v] = job[v] \/ JobOK(job'[v])
  BY DEF BillingInv, Types
<1> QED
  BY <1>1, NothingWritten

\* Reading the row, and asking Stripe of a subscription that was paid for
LEMMA StartPays ==
  ASSUME BillingInv, PayInv, NEW w \in Workers,
         \/ \E s \in Subs : Confirm(w, s)
         \/ \E e \in sent : Deliver(w, e)
         \/ Visit(w)
  PROVE  PayInv'
<1>1. ASSUME NEW s \in Subs PROVE Answer(s).status = sub[s] /\ (Active(sub[s]) <=> s \in Alive)
  BY DEF Answer, Alive
<1>2. OneAlive /\ RowIsPaid /\ EventsOK
  BY DEF PayInv
<1>3. ASSUME NEW s \in Subs, Confirm(w, s) PROVE PayInv'
  <2> DEFINE k == [Idle EXCEPT !.does = "confirm", !.sub = s, !.says = Answer(s)]
  <2>1. /\ job' = [job EXCEPT ![w] = k] /\ UNCHANGED <<sub, sent, row, seen, crossed>>
        /\ s \in Paid
    BY <1>3 DEF Confirm, Starts, stripeVars, Paid
  <2>2. k.does = "confirm" /\ k.sub = s /\ k.event = Nil /\ k.says = Answer(s)
    BY DEF Idle
  <2> HIDE DEF k
  <2>3. JobOK(k)
    BY <1>1, <1>2, <2>1, <2>2 DEF JobOK, OfEvent, AnswerHolds, Fresh, OneAlive
  <2> QED
    BY <2>1, <2>3, OneJobPays
<1>4. ASSUME NEW e \in sent, Deliver(w, e) PROVE PayInv'
  <2>1. e \in Events /\ e.sub \in Subs /\ e.sub \in Paid
    BY <1>2 DEF BillingInv, Types, Events, EventsOK
  <2>2. UNCHANGED <<sub, sent, row, seen, crossed>> /\ e \notin seen
    BY <1>4 DEF Deliver, stripeVars
  <2>3. CASE e.type = "checkout"
    <3> DEFINE k == [Idle EXCEPT !.does = "checkout", !.sub = e.sub, !.event = e,
                                 !.says = Answer(e.sub)]
    <3>1. job' = [job EXCEPT ![w] = k]
      BY <1>4, <2>3 DEF Deliver, Starts
    <3>2. k.does = "checkout" /\ k.sub = e.sub /\ k.event = e /\ k.says = Answer(e.sub)
      BY DEF Idle
    <3>3. sub[e.sub] # "late"
      BY <1>2, <2>2, <2>3 DEF EventsOK
    <3> HIDE DEF k
    <3>4. JobOK(k)
      <4>1. e.sub \in Alive => sub[e.sub] = "live"
        BY <3>3 DEF Alive, Active
      <4>2. OfEvent(k) /\ AnswerHolds(k)
        BY <1>1, <2>1, <2>3, <3>2, <4>1 DEF OfEvent, AnswerHolds
      <4>3. Fresh(k)
        BY <1>1, <1>2, <2>1, <3>2 DEF Fresh, OneAlive
      <4> QED
        BY <2>1, <3>2, <4>2, <4>3 DEF JobOK
    <3> QED
      BY <2>2, <3>1, <3>4, OneJobPays
  <2>4. CASE e.type # "checkout"
    <3> DEFINE r == RowOf(e.sub, e.type = "updated")
               k == [Idle EXCEPT !.does = e.type, !.sub = e.sub, !.event = e, !.read = r]
    <3>1. job' = [job EXCEPT ![w] = k]
      BY <1>4, <2>4 DEF Deliver, Starts
    <3>2. k.does = e.type /\ k.sub = e.sub /\ k.event = e /\ k.says = Nil /\ k.read = r
      BY DEF Idle
    <3>3. e.type \in {"updated", "deleted"}
      BY <2>1, <2>4 DEF Events
    <3>4. row.sub \in Subs \cup {Nil}
      BY DEF BillingInv, Types, Rows
    <3>5. r # Nil => row.sub = IF r = "unlinked" THEN Nil ELSE r
      BY <3>4, NilAssumption DEF RowOf
    <3> HIDE DEF k, r
    <3>6. JobOK(k)
      BY <2>1, <3>2, <3>3, <3>5 DEF JobOK, OfEvent, AnswerHolds, Fresh
    <3> QED
      BY <2>2, <3>1, <3>6, OneJobPays
  <2> QED
    BY <2>3, <2>4
<1>5. ASSUME Visit(w) PROVE PayInv'
  <2> DEFINE k == [Idle EXCEPT !.does = "refresh", !.sub = row.sub]
  <2>1. /\ job' = [job EXCEPT ![w] = k] /\ UNCHANGED <<sub, sent, row, seen, crossed>>
        /\ row.sub # Nil
    BY <1>5 DEF Visit, Asks, Starts, stripeVars
  <2>2. k.does = "refresh" /\ k.sub = row.sub /\ k.event = Nil /\ k.says = Nil
    BY DEF Idle
  <2> HIDE DEF k
  <2>3. JobOK(k)
    BY <1>2, <2>1, <2>2 DEF JobOK, OfEvent, AnswerHolds, Fresh, RowIsPaid
  <2> QED
    BY <2>1, <2>3, OneJobPays
<1> QED
  BY <1>3, <1>4, <1>5

LEMMA AskPays ==
  ASSUME BillingInv, PayInv, NEW w \in Workers, Ask(w) \/ NoAnswer(w)
  PROVE  PayInv'
<1>1. UNCHANGED <<sub, sent, row, seen, crossed>>
  BY DEF Ask, NoAnswer, stripeVars
<1>2. CASE Ask(w)
  <2> DEFINE s == job[w].sub
             k == [job[w] EXCEPT !.says = Answer(s)]
  <2>1. job' = [job EXCEPT ![w] = k] /\ job[w].does \in {"refresh", "updated"}
    BY <1>2 DEF Ask
  <2>2. job[w] \in Jobs /\ s \in Subs /\ JobOK(job[w]) /\ OneAlive
    BY <2>1, JobIs DEF PayInv, JobsOK
  <2>3. /\ k.does = job[w].does /\ k.sub = s /\ k.event = job[w].event
        /\ k.read = job[w].read /\ k.late = job[w].late /\ k.says = Answer(s)
    BY <2>2 DEF Jobs
  <2>4. Answer(s).status = sub[s] /\ (Active(sub[s]) <=> s \in Alive)
    BY <2>2 DEF Answer, Alive
  <2> HIDE DEF k
  <2>5. OfEvent(k) /\ AnswerHolds(k) /\ k.does # "idle" /\ k.sub \in Paid
    BY <2>1, <2>2, <2>3, <2>4 DEF JobOK, OfEvent, AnswerHolds
  <2>6. k.late = FALSE => Fresh(k)
    BY <2>1, <2>2, <2>3, <2>4 DEF JobOK, Fresh, OneAlive
  <2>7. JobOK(k)
    BY <2>5, <2>6 DEF JobOK
  <2> QED
    BY <1>1, <2>1, <2>7, OneJobPays
<1>3. CASE NoAnswer(w)
  <2>1. job' = [job EXCEPT ![w] = Idle]
    BY <1>3 DEF NoAnswer
  <2> QED
    BY <1>1, <2>1, IdleOK, OneJobPays
<1> QED
  BY <1>2, <1>3

\* After a write, a job knows of it or has read what is written
LEMMA WritingKeepsJobs ==
  ASSUME BillingInv, PayInv, NEW w, sub' = sub, sent' = sent, row' = row \/ job' = Crossing(w),
         \A v \in Workers : job'[v] = job[v] \/ job'[v] = Crossing(w)[v] \/ job'[v] = Idle
  PROVE  JobsOK'
<1> SUFFICES ASSUME NEW v \in Workers PROVE JobOK(job[v])'
  BY DEF JobsOK
<1>1. Paid' = Paid /\ Alive' = Alive
  BY DEF Paid, Alive
<1>2. JobOK(job[v]) /\ job[v] \in Jobs
  BY JobIs DEF PayInv, JobsOK
<1>3. CASE job'[v] = Idle
  BY <1>3, IdleOK
<1>4. CASE row' = row /\ job'[v] = job[v]
  BY <1>1, <1>2, <1>4 DEF JobOK, OfEvent, AnswerHolds, Fresh
<1>5. CASE job'[v] = Crossing(w)[v] /\ job'[v] # Idle
  <2>1. IF job[v].does = "idle" THEN job'[v] = job[v]
        ELSE job'[v] = [job[v] EXCEPT !.late = TRUE]
    BY <1>5 DEF Crossing
  <2>2. CASE job'[v] = [job[v] EXCEPT !.late = TRUE] /\ job[v].does # "idle"
    <3>1. /\ job'[v].does = job[v].does /\ job'[v].sub = job[v].sub
          /\ job'[v].event = job[v].event /\ job'[v].says = job[v].says /\ job'[v].late = TRUE
      BY <1>2, <2>2 DEF Jobs
    <3>2. OfEvent(job[v])'
      BY <1>2, <3>1 DEF JobOK, OfEvent
    <3>3. AnswerHolds(job[v])'
      BY <1>1, <1>2, <3>1 DEF JobOK, AnswerHolds
    <3>4. job[v].does # "idle" /\ job[v].sub \in Paid
      BY <1>2, <2>2 DEF JobOK
    <3> QED
      BY <1>1, <3>1, <3>2, <3>3, <3>4 DEF JobOK
  <2>3. CASE job'[v] = job[v] /\ job[v].does = "idle"
    BY <1>2, <1>5, <2>3 DEF JobOK
  <2> QED
    BY <2>1, <2>2, <2>3
<1> QED
  BY <1>3, <1>4, <1>5

LEMMA WritePays ==
  ASSUME BillingInv, Flags, PayInv, NEW w \in Workers, Write(w)
  PROVE  PayInv'
<1> DEFINE j == job[w]
<1>1. /\ j \in Jobs /\ j.does # "idle" /\ j.sub \in Subs /\ j.sub # Nil /\ JobOK(j)
      /\ j.sub \in Paid /\ j.late \in {TRUE, FALSE}
      /\ j.says # Nil \/ j.does = "deleted"
  BY JobIs DEF Write, PayInv, JobsOK, JobOK
<1>2. /\ UNCHANGED <<sub, sent, owner, now>>
      /\ job' = IF row' = row THEN [job EXCEPT ![w] = Idle] ELSE Crossing(w)
      /\ seen' = IF j.event = Nil THEN seen ELSE seen \cup {j.event}
  BY DEF Write, stripeVars
<1>3. Paid' = Paid /\ Alive' = Alive /\ row \in Rows /\ OneAlive
  BY <1>2 DEF Paid, Alive, BillingInv, Types, PayInv
<1>4. \/ j.does \in {"confirm", "checkout"} /\ Activate(j)
      \/ j.does = "refresh" /\ Refreshed(j)
      \/ j.does = "updated" /\ Apply(j)
      \/ j.does = "deleted" /\ Delete(j)
  BY <1>1 DEF Write, Jobs, Doings
<1>5. crossed' = FALSE => crossed = FALSE /\ (row' = row \/ j.late = FALSE)
  <2>1. crossed' = (crossed \/ (j.late /\ row' # row)) /\ crossed \in BOOLEAN
    BY Zenon DEF Write, Flags
  <2>2. j.late = TRUE \/ j.late = FALSE
    BY <1>1
  <2> QED
    BY <2>1, <2>2, Zenon
<1>6. JobsOK'
  BY <1>1, <1>2, WritingKeepsJobs DEF BillingInv, Types
<1>7. RowIsPaid'
  <2>1. row'.sub \in {row.sub, j.sub}
    <3>1. CASE Activate(j)
      BY <3>1 DEF Activate
    <3>2. CASE Refreshed(j)
      BY <1>3, <3>2 DEF Refreshed, Rows
    <3>3. CASE Apply(j)
      BY <1>3, <3>3 DEF Apply, Rows
    <3>4. CASE Delete(j)
      BY <1>3, <3>4 DEF Delete, Rows
    <3> QED
      BY <1>4, <3>1, <3>2, <3>3, <3>4
  <2> QED
    BY <1>1, <1>3, <2>1 DEF PayInv, RowIsPaid
<1>8. EventsOK' /\ OneAlive'
  BY <1>2, <1>3 DEF PayInv, EventsOK, OneAlive
<1>9. ASSUME NEW s \in Alive, crossed' = FALSE PROVE Granted(s)' \/ Awaited(s)'
  <2>1. Granted(s) \/ Awaited(s)
    BY <1>5, <1>9 DEF PayInv, AliveIsGranted
  <2>2. s \in Subs /\ s # Nil /\ s # "unlinked"
    BY NilAssumption DEF Alive
  <2>3. CASE Awaited(s)
    <3>1. PICK e \in sent : e \notin seen /\ e.type = "checkout" /\ e.sub = s
      BY <2>3 DEF Awaited
    <3>2. CASE e \notin seen'
      BY <1>2, <3>1, <3>2 DEF Awaited
    <3>3. CASE e \in seen'
      <4>1. j.event = e /\ e # Nil
        BY <1>2, <3>1, <3>3
      <4>2. j.does = "checkout" /\ j.sub = s
        BY <1>1, <3>1, <4>1 DEF JobOK, OfEvent
      <4>3. j.says.status = "live"
        BY <1>1, <4>2 DEF JobOK, AnswerHolds
      <4> QED
        BY <1>4, <4>2, <4>3 DEF Activate, Granted
    <3> QED
      BY <3>2, <3>3
  <2>4. CASE Granted(s) /\ row' = row
    BY <2>4 DEF Granted
  <2>5. CASE Granted(s) /\ j.late = FALSE
    <3>1. Fresh(j) /\ row.sub = s /\ row.status = "active" /\ row.source = "stripe"
      BY <1>1, <2>5 DEF JobOK, Granted
    <3>2. j.says # Nil /\ Active(j.says.status) => j.sub = s
      BY <3>1 DEF Fresh
    <3>3. j.says # Nil /\ j.sub = s => Active(j.says.status)
      BY <1>1 DEF JobOK, AnswerHolds
    <3>4. CASE j.does \in {"confirm", "checkout"} /\ Activate(j)
      <4>1. j.says # Nil
        BY <1>1, <3>4
      <4>2. CASE j.says.status = "live"
        BY <3>2, <3>4, <4>1, <4>2 DEF Activate, Granted, Active
      <4>3. CASE j.says.status # "live"
        BY <3>1, <3>4, <4>3 DEF Activate, Granted
      <4> QED
        BY <4>2, <4>3
    <3>5. CASE j.does = "refresh" /\ Refreshed(j)
      <4>1. j.sub = s /\ Active(j.says.status)
        BY <1>1, <3>1, <3>3, <3>5 DEF Fresh
      <4> QED
        BY <1>3, <3>1, <3>5, <4>1 DEF Refreshed, Granted, Rows
    <3>6. CASE j.does = "updated" /\ Apply(j)
      <4>1. row' = row \/ (j.sub = s /\ Active(j.says.status))
        <5>1. row' # row => j.read # Nil /\ (j.read \in {"unlinked", j.sub} \/ Active(j.says.status))
          BY <3>6 DEF Apply
        <5>2. j.says # Nil
          BY <1>1, <3>6
        <5>3. j.read # Nil => j.read = s
          BY <2>2, <3>1, <3>6 DEF Fresh
        <5> QED
          BY <2>2, <3>2, <3>3, <5>1, <5>2, <5>3
      <4>2. CASE row' = row
        BY <3>1, <4>2 DEF Granted
      <4>3. CASE j.sub = s /\ Active(j.says.status) /\ row' # row
        BY <1>3, <3>6, <4>3 DEF Apply, Granted, Rows
      <4> QED
        BY <4>1, <4>2, <4>3
    <3>7. CASE j.does = "deleted" /\ Delete(j)
      <4>1. CASE j.read = j.sub
        <5>1. j.sub = s
          BY <1>1, <2>2, <3>1, <3>7, <4>1 DEF Fresh
        <5>2. sub[s] = "ended"
          BY <1>1, <3>7, <5>1 DEF JobOK, OfEvent, PayInv, EventsOK
        <5> QED
          BY <5>2 DEF Alive, Active
      <4>2. CASE j.read # j.sub
        BY <3>1, <3>7, <4>2 DEF Delete, Granted
      <4> QED
        BY <4>1, <4>2
    <3> QED
      BY <1>4, <3>4, <3>5, <3>6, <3>7
  <2> QED
    BY <1>5, <1>9, <2>1, <2>3, <2>4, <2>5
<1>10. AliveIsGranted'
  BY <1>3, <1>9 DEF AliveIsGranted
<1> QED
  BY <1>6, <1>7, <1>8, <1>10 DEF PayInv

\* A comp is neither given to who pays nor taken from them
LEMMA AdminPays ==
  ASSUME BillingInv, PayInv, GiveComp \/ Revoke
  PROVE  PayInv'
<1>1. /\ UNCHANGED <<sub, sent, seen, crossed>> /\ job' = Crossing(Nil)
      /\ \/ row' = [row EXCEPT !.status = "active", !.source = "comp"]
         \/ row' = [row EXCEPT !.status = "none", !.source = ""]
      /\ ~(row.status = "active" /\ row.source = "stripe")
  BY DEF GiveComp, Revoke, stripeVars
<1>2. Paid' = Paid /\ Alive' = Alive /\ row \in Rows
  BY <1>1 DEF Paid, Alive, BillingInv, Types
<1>3. row'.sub = row.sub
  BY <1>1, <1>2 DEF Rows
<1>4. JobsOK'
  BY <1>1, WritingKeepsJobs
<1>5. EventsOK' /\ OneAlive' /\ RowIsPaid'
  BY <1>1, <1>2, <1>3 DEF PayInv, EventsOK, OneAlive, RowIsPaid
<1>6. AliveIsGranted'
  BY <1>1, <1>2 DEF PayInv, AliveIsGranted, Granted, Awaited
<1> QED
  BY <1>4, <1>5, <1>6 DEF PayInv

\* One subscription changes at Stripe, and Stripe says so
Tells(s, types) ==
  /\ sent \subseteq sent' /\ \A e \in sent' : e \in sent \/ (e.sub = s /\ e.type \in types)
  /\ UNCHANGED <<row, seen, job, crossed>>

LEMMA SendsTells ==
  ASSUME NEW s, NEW types, Sends(types, s)
  PROVE  Tells(s, types)
<1> DEFINE Before(t) == Cardinality({e \in sent : e.type = t /\ e.sub = s})
           new == {[type |-> t, sub |-> s, id |-> Before(t)] : t \in types}
<1>1. sent' = sent \cup new /\ UNCHANGED <<row, seen, job, crossed>>
  BY DEF Sends
<1> HIDE DEF Before
<1>2. \A e \in new : e.sub = s /\ e.type \in types
  OBVIOUS
<1> HIDE DEF new
<1> QED
  BY <1>1, <1>2 DEF Tells

\* A subscription that stays alive, or stays not alive
LEMMA SameAlive ==
  ASSUME PayInv, NEW s \in Subs, NEW types, Tells(s, types), Paid' = Paid,
         Alive' \subseteq Alive, "checkout" \notin types,
         \A t \in Subs : t # s => sub'[t] = sub[t],
         s \in Paid /\ ("deleted" \in types => sub'[s] = "ended") /\ sub[s] # "ended",
         sub'[s] = "late" => \A e \in sent : e.type = "checkout" => e \in seen
  PROVE  PayInv'
<1>1. Paid \subseteq Subs
  BY DEF Paid
<1>2. JobsOK'
  <2> SUFFICES ASSUME NEW w \in Workers PROVE JobOK(job[w])'
    BY DEF JobsOK
  <2>1. JobOK(job[w]) /\ job'[w] = job[w] /\ row' = row /\ sent \subseteq sent'
    BY DEF PayInv, JobsOK, Tells
  <2> QED
    BY <2>1 DEF JobOK, OfEvent, AnswerHolds, Fresh
<1>3. EventsOK'
  <2> SUFFICES ASSUME NEW e \in sent'
               PROVE  /\ e.sub \in Paid' /\ (e.type = "deleted" => sub'[e.sub] = "ended")
                      /\ e.type = "checkout" /\ e \notin seen' => sub'[e.sub] # "late"
    BY DEF EventsOK
  <2>1. CASE e \in sent
    <3>1. /\ e.sub \in Paid /\ (e.type = "deleted" => sub[e.sub] = "ended")
          /\ (e.type = "checkout" /\ e \notin seen => sub[e.sub] # "late")
      BY <2>1 DEF PayInv, EventsOK
    <3>2. seen' = seen
      BY DEF Tells
    <3>3. CASE e.sub = s
      BY <2>1, <3>1, <3>2, <3>3
    <3>4. CASE e.sub # s
      BY <1>1, <3>1, <3>2, <3>4
    <3> QED
      BY <3>3, <3>4
  <2>2. CASE e \notin sent
    BY <2>2 DEF Tells
  <2> QED
    BY <2>1, <2>2
<1>4. OneAlive' /\ RowIsPaid'
  BY DEF PayInv, OneAlive, RowIsPaid, Tells
<1>5. AliveIsGranted'
  BY DEF PayInv, AliveIsGranted, Granted, Awaited, Tells
<1> QED
  BY <1>2, <1>3, <1>4, <1>5 DEF PayInv

LEMMA CheckoutPays ==
  ASSUME BillingInv, PayInv, NEW s \in Subs, Checkout(s)
  PROVE  PayInv'
<1>1. /\ sub' = [sub EXCEPT ![s] = "open"] /\ sub[s] = "none" /\ sub \in [Subs -> Statuses]
      /\ UNCHANGED <<sent, row, seen, job, crossed>>
  BY DEF Checkout, BillingInv, Types
<1>2. \A t \in Subs : sub'[t] = IF t = s THEN "open" ELSE sub[t]
  BY <1>1
<1>3. Paid' = Paid /\ s \notin Paid /\ Paid \subseteq Subs
  BY <1>1, <1>2 DEF Paid
<1>4. Alive' = Alive
  BY <1>1, <1>2 DEF Alive, Active
<1>5. JobsOK'
  <2> SUFFICES ASSUME NEW w \in Workers PROVE JobOK(job[w])'
    BY DEF JobsOK
  <2> QED
    BY <1>1, <1>3, <1>4 DEF PayInv, JobsOK, JobOK, OfEvent, AnswerHolds, Fresh
<1>6. EventsOK'
  BY <1>1, <1>2, <1>3 DEF PayInv, EventsOK
<1>7. OneAlive' /\ RowIsPaid' /\ AliveIsGranted'
  BY <1>1, <1>3, <1>4 DEF PayInv, OneAlive, RowIsPaid, AliveIsGranted, Granted, Awaited
<1> QED
  BY <1>5, <1>6, <1>7 DEF PayInv

\* Of the subscription that is paid now nothing has been heard before
LEMMA PayPays ==
  ASSUME BillingInv, PayInv, NEW s \in Subs, Pay(s)
  PROVE  PayInv'
<1>1. /\ sub' = [sub EXCEPT ![s] = "live"] /\ sub[s] = "open" /\ sub \in [Subs -> Statuses]
      /\ Alive = {} /\ s # Nil
  BY NilAssumption DEF Pay, BillingInv, Types
<1>2. \A t \in Subs : sub'[t] = IF t = s THEN "live" ELSE sub[t]
  BY <1>1
<1>3. Tells(s, {"checkout", "updated"})
  BY SendsTells DEF Pay
<1>4. Paid' = Paid \cup {s} /\ s \notin Paid /\ Paid \subseteq Subs
  BY <1>1, <1>2 DEF Paid
<1>5. Alive' = {s}
  BY <1>1, <1>2 DEF Alive, Active
<1>6. row' = row /\ row.sub # s
  BY <1>1, <1>3, <1>4 DEF Tells, PayInv, RowIsPaid
<1>7. JobsOK'
  <2> SUFFICES ASSUME NEW w \in Workers PROVE JobOK(job[w])'
    BY DEF JobsOK
  <2>1. JobOK(job[w]) /\ job'[w] = job[w] /\ sent \subseteq sent'
    BY <1>3 DEF PayInv, JobsOK, Tells
  <2>2. CASE job[w] = Idle
    BY <2>1, <2>2, IdleOK
  <2>3. CASE job[w] # Idle
    <3>1. job[w].does # "idle" /\ job[w].sub \in Paid /\ job[w].sub # s
      BY <1>4, <2>1, <2>3 DEF JobOK
    <3> QED
      BY <1>4, <1>5, <1>6, <2>1, <3>1 DEF JobOK, OfEvent, AnswerHolds, Fresh
  <2> QED
    BY <2>2, <2>3
<1>8. EventsOK'
  BY <1>2, <1>3, <1>4 DEF PayInv, EventsOK, Tells
<1>9. OneAlive' /\ RowIsPaid'
  BY <1>4, <1>5, <1>6 DEF PayInv, OneAlive, RowIsPaid
<1>10. Awaited(s)'
  <2> DEFINE e == [type |-> "checkout", sub |-> s,
                   id |-> Cardinality({d \in sent : d.type = "checkout" /\ d.sub = s})]
  <2>1. e \in sent' /\ e.type = "checkout" /\ e.sub = s
    BY DEF Pay, Sends
  <2> HIDE DEF e
  <2>2. e \notin sent
    BY <1>4, <2>1 DEF PayInv, EventsOK
  <2>3. e \notin seen /\ seen' = seen
    BY <1>3, <2>2 DEF BillingInv, Types, Tells
  <2> QED
    BY <2>1, <2>3 DEF Awaited
<1>11. AliveIsGranted'
  BY <1>5, <1>10 DEF AliveIsGranted
<1> QED
  BY <1>7, <1>8, <1>9, <1>11 DEF PayInv

LEMMA StripePays ==
  ASSUME BillingInv, PayInv, NEW s \in Subs, Lapse(s) \/ Renew(s) \/ End(s)
  PROVE  PayInv'
<1>1. sub \in [Subs -> Statuses] /\ Active(sub[s])
  BY DEF BillingInv, Types, Lapse, Renew, End, Active
<1>2. ASSUME NEW x \in {"live", "late", "ended"}, sub' = [sub EXCEPT ![s] = x]
      PROVE  /\ sub'[s] = x /\ \A t \in Subs : t # s => sub'[t] = sub[t]
             /\ Paid' = Paid /\ s \in Paid /\ Alive' \subseteq Alive /\ sub[s] # "ended"
  <2>1. \A t \in Subs : sub'[t] = IF t = s THEN x ELSE sub[t]
    BY <1>1, <1>2
  <2> QED
    BY <1>1, <2>1 DEF Paid, Alive, Active
<1>3. CASE Lapse(s)
  <2>1. Tells(s, {"updated"}) /\ sub' = [sub EXCEPT ![s] = "late"]
        /\ \A e \in sent : e.type = "checkout" => e \in seen
    BY <1>3, SendsTells DEF Lapse
  <2> QED
    BY <1>2, <2>1, SameAlive
<1>4. CASE Renew(s)
  <2>1. Tells(s, {"updated"}) /\ sub' = [sub EXCEPT ![s] = "live"]
    BY <1>4, SendsTells DEF Renew
  <2> QED
    BY <1>2, <2>1, SameAlive
<1>5. CASE End(s)
  <2>1. Tells(s, {"deleted"}) /\ sub' = [sub EXCEPT ![s] = "ended"]
    BY <1>5, SendsTells DEF End
  <2> QED
    BY <1>2, <2>1, SameAlive
<1> QED
  BY <1>3, <1>4, <1>5

LEMMA NextPays == ASSUME BillingInv, Flags, PayInv, [BillingNext]_billingVars PROVE PayInv'
<1>1. CASE Tick \/ RetryEnds \/ UNCHANGED billingVars
  <2>1. UNCHANGED <<sub, sent, row, seen, crossed, job>>
    BY <1>1 DEF Tick, RetryEnds, billingVars, stripeVars
  <2> QED
    BY <2>1, NothingWritten
<1> QED
  BY <1>1, StartPays, AskPays, WritePays, AdminPays, CheckoutPays, PayPays, StripePays
     DEF BillingNext, Handle

LEMMA InitPays == BillingInit => PayInv
<1> SUFFICES ASSUME BillingInit PROVE PayInv
  OBVIOUS
<1>1. /\ sub = [s \in Subs |-> "none"] /\ sent = {} /\ row.sub = Nil
      /\ job = [w \in Workers |-> Idle]
  BY DEF BillingInit
<1>2. Alive = {}
  BY <1>1 DEF Alive, Active
<1>3. JobsOK
  BY <1>1, IdleOK DEF JobsOK
<1> QED
  BY <1>1, <1>2, <1>3 DEF PayInv, EventsOK, OneAlive, RowIsPaid, AliveIsGranted

-----------------------------------------------------------------------------
(* The theorems *)

LEMMA TypesSayTypeOK == BillingInv /\ Flags => BillingTypeOK
<1> SUFFICES ASSUME BillingInv, Flags PROVE BillingTypeOK
  OBVIOUS
<1>1. retryAt \in BOOLEAN /\ crossed \in BOOLEAN
  BY Zenon DEF Flags
<1> QED
  BY <1>1 DEF BillingInv, Types, BillingTypeOK, Rows

\* The types of the state, in every reachable state (users row, _handle_stripe_event,
\* _refresh_stripe_status)
THEOREM TypeTheorem == BillingSpec => []BillingTypeOK
<1>1. BillingInit => BillingInv /\ Flags
  BY InitBillingInv, InitFlags
<1>2. (BillingInv /\ Flags) /\ [BillingNext]_billingVars => (BillingInv /\ Flags)'
  BY NextBillingInv, NextFlags
<1> QED
  BY <1>1, <1>2, TypesSayTypeOK, PTL DEF BillingSpec

\* A status that is trusted without asking Stripe (_paid, _stripe_check_due) outlives
\* the user's subscriptions by STRIPE_RECHECK at most, and one that is honoured without
\* an answer (_within_stripe_grace) the last period paid for by STRIPE_GRACE at most, in
\* whatever order confirmations, events, questions and an admin's grants interleave
THEOREM TrustTheorem == BillingSpec => []TrustIsShort
<1>1. BillingInv /\ EndsAreBought => TrustIsShort
  <2> SUFFICES ASSUME BillingInv, EndsAreBought, row.source # "comp", Alive = {}
               PROVE  /\ Trusted => now <= gone + Recheck
                      /\ FailsOpen => \E s \in Subs : sub[s] = "ended" /\ now < until[s] + Grace
    BY DEF TrustIsShort
  <2>1. ASSUME Trusted PROVE now <= gone + Recheck
    <3>1. row.status = "active" /\ row.checked # Nil /\ row.checked <= gone
      BY <2>1 DEF BillingInv, RowIsBacked, Trusted
    <3>2. ~(now > row.checked + 1)
      BY <2>1 DEF Trusted, Due, Recheck
    <3>3. now \in Nat /\ gone \in Nat /\ row.checked \in Nat
      BY <3>1, TimeTypes DEF BillingInv, Types, Rows
    <3> QED
      BY <3>1, <3>2, <3>3 DEF Recheck
  <2>2. ASSUME FailsOpen PROVE \E s \in Subs : sub[s] = "ended" /\ now < until[s] + Grace
    <3>1. row.status = "active" /\ now < row.end + Grace
      BY <2>2 DEF FailsOpen, Asks, InGrace
    <3> PICK s \in Subs : BoughtBy(s, row.end)
      BY <3>1 DEF EndsAreBought
    <3>2. sub[s] = "ended"
      BY DEF BoughtBy, Alive, Active
    <3>3. now \in Dates /\ row.end \in Ends /\ until[s] \in Ends
      BY DEF BillingInv, Types, Rows
    <3>4. now \in Nat /\ row.end \in Nat /\ until[s] \in Nat /\ row.end <= until[s]
      BY <3>3, TimeTypes, BillingAssumption DEF Ends, BoughtBy
    <3>5. now < until[s] + Grace
      BY <3>1, <3>4, BillingAssumption
    <3> QED
      BY <3>2, <3>5
  <2> QED
    BY <2>1, <2>2
<1>2. BillingInit => BillingInv /\ EndsAreBought
  BY InitBillingInv, InitEnds
<1>3. BillingInv /\ EndsAreBought /\ [BillingNext]_billingVars => (BillingInv /\ EndsAreBought)'
  BY NextBillingInv, NextEnds
<1> QED
  BY <1>1, <1>2, <1>3, PTL DEF BillingSpec

\* Once every event is dealt with, whoever pays has access, unless two requests crossed:
\* for any number of subscriptions, threads, events and days, in whatever order and
\* however often Stripe's events come (_handle_stripe_event, _activate_from_checkout,
\* _refresh_stripe_status), whatever an admin grants or takes back
THEOREM PayingTheorem == BillingSpec => []PayingIsLetIn
<1>1. BillingInit => BillingInv /\ Flags /\ PayInv
  BY InitBillingInv, InitFlags, InitPays
<1>2. BillingInv /\ Flags /\ PayInv /\ [BillingNext]_billingVars => (BillingInv /\ Flags /\ PayInv)'
  BY NextBillingInv, NextFlags, NextPays
<1>3. BillingInv /\ Flags /\ PayInv => PayingIsLetIn
  <2> SUFFICES ASSUME PayInv, Flags, Settled, NEW s \in Alive, row.status # "active"
               PROVE  crossed
    BY DEF PayingIsLetIn
  <2>1. ~Granted(s) /\ ~Awaited(s)
    BY DEF Granted, Awaited, Settled
  <2>2. crossed # FALSE
    BY <2>1 DEF PayInv, AliveIsGranted
  <2> QED
    BY <2>2, Zenon DEF Flags
<1> QED
  BY <1>1, <1>2, <1>3, PTL DEF BillingSpec

-----------------------------------------------------------------------------
(* The queues *)

LEMMA FirstWaits ==
  ASSUME NEW g \in Gates, queue \in [Gates -> Seq(Requests)], Waiting(g) # {}
  PROVE  First(g) \in Waiting(g)
<1> DEFINE R == OpToRel(<, Nat)
<1>1. Waiting(g) \subseteq Nat
  BY DEF Waiting
<1>2. \E i \in Waiting(g) : \A j \in Waiting(g) : ~ (<<j, i>> \in R)
  <2>1. IsWellFoundedOn(R, Nat)
    BY NatLessThanWellFounded
  <2> HIDE DEF R
  <2>2. \A T : T \subseteq Nat /\ T # {} => \E i \in T : \A j \in T : ~ (<<j, i>> \in R)
    BY <2>1, WFMin, Zenon
  <2> QED BY <1>1, <2>2
<1>3. \A i, j \in Nat : ~ (<<j, i>> \in R) => i <= j
  BY DEF OpToRel
<1> HIDE DEF R
<1>4. \E i \in Waiting(g) : \A j \in Waiting(g) : i <= j
  BY <1>1, <1>2, <1>3
<1> QED BY <1>4 DEF First

\* What is left of a queue when its oldest waiter is called: other waiters,
\* each once
Once(q) == \A i, j \in DOMAIN q : q[i] = q[j] => i = j
In(s, q) == \E i \in DOMAIN q : q[i] = s

\* f says where in q the places of w were, and k is none of them
Skips(f, q, k, w) ==
  /\ \A i \in 1 .. Len(w) : f[i] \in 1 .. Len(q) /\ f[i] # k /\ w[i] = q[f[i]]
  /\ \A i, j \in 1 .. Len(w) : f[i] = f[j] => i = j
Less(q, k, w) == Once(w) /\ ~ In(q[k], w) /\ \A s : In(s, w) => In(s, q)

LEMMA OneLess ==
  ASSUME NEW q \in Seq(Requests), Once(q), NEW k \in 1 .. Len(q), NEW w \in Seq(Requests),
         NEW f, Skips(f, q, k, w)
  PROVE  Less(q, k, w)
<1> USE DEF Skips
<1>1. DOMAIN q = 1 .. Len(q) /\ DOMAIN w = 1 .. Len(w)
  OBVIOUS
<1>2. \A i, j \in 1 .. Len(q) : q[i] = q[j] => i = j
  BY <1>1 DEF Once
<1>3. Once(w)
  <2> SUFFICES ASSUME NEW i \in 1 .. Len(w), NEW j \in 1 .. Len(w), w[i] = w[j]
               PROVE  i = j
    BY <1>1, Zenon DEF Once
  <2>1. q[f[i]] = q[f[j]] /\ f[i] \in 1 .. Len(q) /\ f[j] \in 1 .. Len(q)
    BY Zenon
  <2>2. f[i] = f[j]
    BY <1>2, <2>1, Zenon
  <2> QED BY <2>2, Zenon
<1>4. ~ In(q[k], w)
  <2> SUFFICES ASSUME NEW i \in 1 .. Len(w), w[i] = q[k] PROVE FALSE
    BY <1>1, Zenon DEF In
  <2>1. q[f[i]] = q[k] /\ f[i] \in 1 .. Len(q) /\ f[i] # k
    BY Zenon
  <2> QED BY <1>2, <2>1, Zenon
<1>5. \A s : In(s, w) => In(s, q)
  BY <1>1, Zenon DEF In
<1> QED BY <1>3, <1>4, <1>5 DEF Less

LEMMA RestLemma ==
  ASSUME NEW g \in Gates, queue \in [Gates -> Seq(Requests)], Once(queue[g]),
         Waiting(g) # {}
  PROVE  /\ Rest(g) \in Seq(Requests) /\ Once(Rest(g))
         /\ queue[g][First(g)] \in Requests /\ fut[queue[g][First(g)]] = "waiting"
         /\ In(queue[g][First(g)], queue[g]) /\ ~ In(queue[g][First(g)], Rest(g))
         /\ \A s : In(s, Rest(g)) => In(s, queue[g])
<1> DEFINE q == queue[g]
           k == First(g)
           f == [i \in Nat |-> i + k]
<1>1. q \in Seq(Requests)
  OBVIOUS
<1>2. k \in 1 .. Len(q) /\ fut[q[k]] = "waiting"
  BY FirstWaits DEF Waiting
<1>3. Rest(g) = SubSeq(q, k + 1, Len(q))
  BY DEF Rest
<1>4. Once(q) /\ (In(q[k], q) <=> \E i \in DOMAIN q : q[i] = q[k])
  BY DEF q, In
<1> HIDE DEF k, q
<1>5. /\ Rest(g) \in Seq(Requests) /\ Len(Rest(g)) = Len(q) - k
      /\ \A i \in 1 .. Len(q) - k : Rest(g)[i] = q[k + 1 + i - 1]
  <2>1. k + 1 \in Int /\ Len(q) \in Int /\ \A i \in k + 1 .. Len(q) : q[i] \in Requests
    BY <1>1, <1>2
  <2>2. (k + 1 <= Len(q) <=> k # Len(q)) /\ Len(q) - (k + 1) + 1 = Len(q) - k
    BY <1>1, <1>2
  <2>3. /\ SubSeq(q, k + 1, Len(q)) \in Seq(Requests)
        /\ Len(SubSeq(q, k + 1, Len(q))) =
             IF k + 1 <= Len(q) THEN Len(q) - (k + 1) + 1 ELSE 0
        /\ \A i \in 1 .. Len(q) - (k + 1) + 1 :
             SubSeq(q, k + 1, Len(q))[i] = q[k + 1 + i - 1]
    BY <2>1, SubSeqProperties
  <2>4. (IF k + 1 <= Len(q) THEN Len(q) - (k + 1) + 1 ELSE 0) = Len(q) - k
    BY <1>1, <1>2
  <2> QED BY <1>3, <2>2, <2>3, <2>4, Zenon
<1>6. \A i \in 1 .. Len(Rest(g)) : f[i] \in 1 .. Len(q) /\ f[i] # k /\ Rest(g)[i] = q[f[i]]
  <2> SUFFICES ASSUME NEW i \in 1 .. Len(Rest(g))
               PROVE  f[i] \in 1 .. Len(q) /\ f[i] # k /\ Rest(g)[i] = q[f[i]]
    OBVIOUS
  <2>1. f[i] = i + k /\ k + 1 + i - 1 = i + k /\ i \in 1 .. Len(q) - k
    BY <1>2, <1>5
  <2> HIDE DEF f
  <2>2. f[i] \in 1 .. Len(q) /\ f[i] # k
    BY <2>1, <1>1, <1>2
  <2> QED BY <2>1, <2>2, <1>5
<1>7. \A i, j \in 1 .. Len(Rest(g)) : f[i] = f[j] => i = j
  BY <1>2, <1>5
<1> HIDE DEF f
<1>8. Skips(f, q, k, Rest(g))
  BY <1>6, <1>7, Zenon DEF Skips
<1>9. Less(q, k, Rest(g))
  BY <1>1, <1>2, <1>4, <1>5, <1>8, OneLess
<1>10. q[k] \in Requests /\ In(q[k], q)
  BY <1>1, <1>2, <1>4
<1> QED BY <1>2, <1>5, <1>9, <1>10 DEF q, k, Less

LEMMA WithoutLemma ==
  ASSUME NEW q \in Seq(Requests), NEW r \in Requests, Once(q)
  PROVE  /\ Without(q, r) \in Seq(Requests) /\ Once(Without(q, r))
         /\ ~ In(r, Without(q, r))
         /\ \A s : In(s, Without(q, r)) => In(s, q)
<1>1. CASE \A k \in DOMAIN q : q[k] # r
  BY <1>1 DEF Without, In
<1>2. CASE \E k \in DOMAIN q : q[k] = r
  <2> DEFINE k == CHOOSE i \in DOMAIN q : q[i] = r
             a == SubSeq(q, 1, k - 1)
             b == SubSeq(q, k + 1, Len(q))
             f == [i \in Nat |-> IF i < k THEN i ELSE i + 1]
             w == Without(q, r)
  <2>1. k \in 1 .. Len(q) /\ q[k] = r
    BY <1>2
  <2>2. w = a \o b
    BY <1>2 DEF Without
  <2> HIDE DEF k, w
  <2>3. a \in Seq(Requests) /\ Len(a) = k - 1 /\ \A i \in 1 .. k - 1 : a[i] = q[i]
    BY <2>1
  <2>4. b \in Seq(Requests) /\ Len(b) = Len(q) - k /\ \A i \in 1 .. Len(q) - k : b[i] = q[i + k]
    BY <2>1
  <2> HIDE DEF a, b
  <2>5. w \in Seq(Requests) /\ Len(w) = Len(q) - 1
    BY <2>1, <2>2, <2>3, <2>4
  <2>6. \A i \in 1 .. Len(w) : w[i] = IF i <= k - 1 THEN a[i] ELSE b[i - (k - 1)]
    BY <2>1, <2>2, <2>3, <2>4, <2>5
  <2>7. \A i \in 1 .. Len(w) : f[i] \in 1 .. Len(q) /\ f[i] # k /\ w[i] = q[f[i]]
    <3> SUFFICES ASSUME NEW i \in 1 .. Len(w)
                 PROVE  f[i] \in 1 .. Len(q) /\ f[i] # k /\ w[i] = q[f[i]]
      OBVIOUS
    <3>1. /\ Len(q) \in Nat /\ k \in 1 .. Len(q) /\ i \in Nat
          /\ 1 <= i /\ i <= Len(q) - 1
      BY <2>1, <2>5
    <3>2. CASE i <= k - 1
      <4>1. f[i] = i
        BY <3>1, <3>2
      <4>2. i \in 1 .. k - 1 /\ i \in 1 .. Len(q) /\ i # k
        BY <3>1, <3>2
      <4>3. w[i] = a[i]
        BY <3>2, <2>6
      <4> QED BY <4>1, <4>2, <4>3, <2>3
    <3>3. CASE ~ (i <= k - 1)
      <4>1. f[i] = i + 1
        BY <3>1, <3>3
      <4>2. /\ i + 1 \in 1 .. Len(q) /\ i + 1 # k
            /\ i - (k - 1) \in 1 .. Len(q) - k /\ (i - (k - 1)) + k = i + 1
        BY <3>1, <3>3
      <4>3. b[i - (k - 1)] = q[i + 1]
        BY <4>2, <2>4
      <4>4. w[i] = b[i - (k - 1)]
        BY <3>3, <2>6
      <4> QED BY <4>1, <4>2, <4>3, <4>4
    <3> QED BY <3>2, <3>3
  <2>8. \A i, j \in 1 .. Len(w) : f[i] = f[j] => i = j
    <3>1. \A i \in 1 .. Len(w) : f[i] = IF i < k THEN i ELSE i + 1
      BY <2>1, <2>5
    <3> HIDE DEF f
    <3> QED BY <3>1, <2>1, <2>5
  <2> HIDE DEF f
  <2>9. Skips(f, q, k, w)
    BY <2>7, <2>8, Zenon DEF Skips
  <2>10. Less(q, k, w)
    BY <2>1, <2>5, <2>9, OneLess
  <2> QED BY <2>1, <2>5, <2>10 DEF w, Less
<1> QED BY <1>1, <1>2

LEMMA AppendLemma ==
  ASSUME NEW q \in Seq(Requests), NEW r \in Requests, Once(q), ~ In(r, q)
  PROVE  /\ Append(q, r) \in Seq(Requests) /\ Once(Append(q, r))
         /\ \A s : In(s, Append(q, r)) => In(s, q) \/ s = r
BY DEF Once, In

-----------------------------------------------------------------------------
(* The inductive invariant *)

Futures == {"none", "waiting", "handed", "granted", "expired"}

GateTypes ==
  /\ busy \in [Gates -> Nat] /\ passing \in [Gates -> Nat]
  /\ queue \in [Gates -> Seq(Requests)] /\ fut \in [Requests -> Futures]
KeyTypes ==
  /\ current \in [Users -> Requests \cup {Nobody}] /\ refs \in [Users -> Nat]
  /\ at \in [Requests -> Stages] /\ mine \in [Requests -> Requests \cup {Nobody}]
MeterTypes ==
  /\ session \in [Users -> {"none", "new", "hand", "lapsed"}]
  /\ day \in Days /\ usage \in [Users -> [Days -> Nat]] /\ served \in [Users -> Nat]
FlagTypes == metered \in [Requests -> BOOLEAN] /\ fresh \in [Requests -> BOOLEAN]

\* A request waits for a future exactly in the two stages of waiting
Waits == \A r \in Requests : fut[r] # "none" <=> at[r] \in {"user", "model"}

\* The requests under way of a user are counted, and share the gate of its key
UnderWayOf(u) == {r \in Requests : UserOf[r] = u /\ at[r] \notin {"new", "done"}}
Counted(u) == IsFiniteSet(UnderWayOf(u)) /\ refs[u] = Cardinality(UnderWayOf(u))
OneKey ==
  \A r \in Requests : at[r] \notin {"new", "done"} =>
    mine[r] = current[UserOf[r]] /\ mine[r] \in Requests

\* Owners(g), with the cases of Holds spelled out
Owns(r, g) ==
  \/ at[r] = "model" /\ g = mine[r]
  \/ at[r] \in Working /\ (g = mine[r] \/ g = Model)
  \/ fut[r] \in {"handed", "granted"} /\ g = WaitsAt(r)

\* Who queues at a gate waits there, or has given up and not left yet
QueueSound(g) ==
  /\ Once(queue[g])
  /\ \A s : In(s, queue[g]) =>
       s \in Requests /\ fut[s] \in {"waiting", "expired"} /\ WaitsAt(s) = g
Accounted(g) == IsFiniteSet(Owners(g)) /\ busy[g] = Cardinality(Owners(g)) + passing[g]
Within(g) == busy[g] <= Slots(g) /\ (queue[g] # <<>> => busy[g] = Slots(g))
GateOK(g) == QueueSound(g) /\ Accounted(g) /\ Within(g)

Core == GateTypes /\ KeyTypes /\ Waits /\ OneKey
GatesInv ==
  /\ Core /\ (\A u \in Users : Counted(u)) /\ (\A g \in Gates : GateOK(g))
WorkInv == GatesInv /\ MeterTypes /\ FlagTypes

LEMMA OwnersAre ==
  ASSUME NEW g
  PROVE  /\ Owners(g) = {r \in Requests : Owns(r, g)}
         /\ Owners(g)' = {r \in Requests : Owns(r, g)'}
<1>1. \A r : g \in Holds(r) <=> \/ at[r] = "model" /\ g = mine[r]
                                \/ at[r] \in Working /\ (g = mine[r] \/ g = Model)
  BY DEF Holds, Working
<1>2. \A r : g \in Holds(r)' <=> \/ at'[r] = "model" /\ g = mine'[r]
                                 \/ at'[r] \in Working /\ (g = mine'[r] \/ g = Model)
  BY DEF Holds, Working
<1> QED BY <1>1, <1>2 DEF Owners, Owns

\* An owner of a gate does not queue there, nor does a waiter own its gate
LEMMA OwnersDoNotWait ==
  ASSUME Core, NEW g \in Gates, NEW s \in Requests, Owns(s, g)
  PROVE  ~ (fut[s] \in {"waiting", "expired"} /\ WaitsAt(s) = g)
BY NamesAssumption DEF Core, Waits, OneKey, Owns, WaitsAt, Working, Gates

-----------------------------------------------------------------------------
(* What one request does to a gate *)

Frame(r) ==
  \A s \in Requests \ {r} : fut'[s] = fut[s] /\ at'[s] = at[s] /\ mine'[s] = mine[s]

LEMMA FrameOwns ==
  ASSUME NEW r \in Requests, NEW g \in Gates, Frame(r)
  PROVE  /\ \A s \in Requests \ {r} : Owns(s, g)' <=> Owns(s, g)
         /\ \A s \in Requests \ {r} : WaitsAt(s)' = WaitsAt(s)
BY DEF Frame, Owns, WaitsAt

\* Nothing, as far as the gate is concerned
LEMMA GateKept ==
  ASSUME NEW r \in Requests, NEW g \in Gates, GateOK(g), Frame(r),
         Owns(r, g)' <=> Owns(r, g),
         busy'[g] = busy[g], passing'[g] = passing[g], queue'[g] = queue[g],
         In(r, queue[g]) => fut'[r] \in {"waiting", "expired"} /\ WaitsAt(r)' = g
  PROVE  GateOK(g)'
<1>1. QueueSound(g)'
  BY FrameOwns DEF Frame, GateOK, QueueSound
<1>2. Owners(g)' = Owners(g)
  <2>1. \A s \in Requests : Owns(s, g)' <=> Owns(s, g)
    BY FrameOwns
  <2> QED BY <2>1, OwnersAre
<1>3. Accounted(g)'
  BY <1>2 DEF GateOK, Accounted
<1>4. Within(g)'
  BY DEF GateOK, Within
<1> QED BY <1>1, <1>3, <1>4 DEF GateOK

\* It takes a free slot
LEMMA GateTaken ==
  ASSUME NEW r \in Requests, NEW g \in Gates, GateTypes, GateOK(g), Frame(r),
         ~ Owns(r, g), Owns(r, g)', Takes(g),
         busy'[g] = busy[g] + 1, passing'[g] = passing[g], queue'[g] = queue[g]
  PROVE  GateOK(g)'
<1>1. queue'[g] = <<>> /\ busy[g] < Slots(g)
  BY DEF Takes
<1>2. QueueSound(g)'
  BY <1>1 DEF QueueSound, Once, In
<1>3. Owners(g)' = Owners(g) \cup {r} /\ r \notin Owners(g)
  <2>1. \A s \in Requests : Owns(s, g)' <=> Owns(s, g) \/ s = r
    BY FrameOwns
  <2>2. \A s \in Requests : Owns(s, g) => s # r
    OBVIOUS
  <2> QED BY <2>1, <2>2, OwnersAre
<1>4. IsFiniteSet(Owners(g)') /\ Cardinality(Owners(g)') = Cardinality(Owners(g)) + 1
  BY <1>3, FS_AddElement DEF GateOK, Accounted
<1>5. Accounted(g)'
  <2>1. Cardinality(Owners(g)) \in Nat
    BY FS_CardinalityType DEF GateOK, Accounted
  <2> QED BY <1>4, <2>1 DEF GateOK, Accounted, GateTypes
<1>6. Slots(g) \in Nat /\ busy[g] \in Nat
  BY GateAssumption DEF Slots, GateTypes
<1>7. Within(g)'
  BY <1>1, <1>6 DEF Within
<1> QED BY <1>2, <1>5, <1>7 DEF GateOK

\* It queues
LEMMA GateQueued ==
  ASSUME NEW r \in Requests, NEW g \in Gates, GateTypes, GateOK(g), Frame(r),
         ~ Owns(r, g), ~ Owns(r, g)', ~ Takes(g), ~ In(r, queue[g]),
         busy'[g] = busy[g], passing'[g] = passing[g], queue'[g] = Append(queue[g], r),
         fut'[r] = "waiting", WaitsAt(r)' = g
  PROVE  GateOK(g)'
<1>1. queue[g] \in Seq(Requests) /\ Once(queue[g])
  BY DEF GateTypes, GateOK, QueueSound
<1>2. Once(queue'[g]) /\ \A s : In(s, queue'[g]) => In(s, queue[g]) \/ s = r
  BY <1>1, AppendLemma
<1>3. QueueSound(g)'
  BY <1>2, FrameOwns DEF Frame, GateOK, QueueSound
<1>4. Owners(g)' = Owners(g)
  <2>1. \A s \in Requests : Owns(s, g)' <=> Owns(s, g)
    BY FrameOwns
  <2> QED BY <2>1, OwnersAre
<1>5. Accounted(g)'
  BY <1>4 DEF GateOK, Accounted
<1>6. Slots(g) \in Nat /\ busy[g] \in Nat
  BY GateAssumption DEF Slots, GateTypes
<1>7. Within(g)'
  BY <1>6 DEF GateOK, Within, Takes
<1> QED BY <1>3, <1>5, <1>7 DEF GateOK

\* It gives up a slot that is on its way: a callback will find the future dead
LEMMA GateExpired ==
  ASSUME NEW r \in Requests, NEW g \in Gates, GateTypes, GateOK(g), Frame(r),
         Owns(r, g), ~ Owns(r, g)', ~ In(r, queue[g]),
         busy'[g] = busy[g], passing'[g] = passing[g] + 1, queue'[g] = queue[g]
  PROVE  GateOK(g)'
<1>1. QueueSound(g)'
  BY FrameOwns DEF Frame, GateOK, QueueSound
<1>2. Owners(g)' = Owners(g) \ {r} /\ r \in Owners(g)
  <2>1. \A s \in Requests : Owns(s, g)' <=> Owns(s, g) /\ s # r
    BY FrameOwns
  <2> QED BY <2>1, OwnersAre
<1>3. /\ IsFiniteSet(Owners(g)') /\ Cardinality(Owners(g)') = Cardinality(Owners(g)) - 1
  BY <1>2, FS_RemoveElement DEF GateOK, Accounted
<1>4. Accounted(g)'
  <2>1. Cardinality(Owners(g)) \in Nat
    BY FS_CardinalityType DEF GateOK, Accounted
  <2> QED BY <1>3, <2>1 DEF GateOK, Accounted, GateTypes
<1>5. Within(g)'
  BY DEF GateOK, Within
<1> QED BY <1>1, <1>4, <1>5 DEF GateOK

-----------------------------------------------------------------------------
(* A slot is released *)

Heir(g) == queue[g][First(g)]

\* What becomes of a gate whose owners were O and one more, or O and a callback
LEMMA GateReleased ==
  ASSUME NEW g \in Gates, Core, GateOK(g), NEW O, O \subseteq Owners(g), IsFiniteSet(O),
         passing'[g] \in Nat, busy[g] = Cardinality(O) + passing'[g] + 1,
         \A s \in Requests : Owns(s, g)' <=> s \in O \/ (Waiting(g) # {} /\ s = Heir(g)),
         \A s : In(s, queue[g]) /\ (Waiting(g) # {} => s # Heir(g)) =>
            fut'[s] = fut[s] /\ WaitsAt(s)' = WaitsAt(s),
         busy'[g] = IF Waiting(g) = {} THEN busy[g] - 1 ELSE busy[g],
         queue'[g] = Rest(g)
  PROVE  GateOK(g)' /\ busy'[g] \in Nat /\ queue'[g] \in Seq(Requests)
<1>1. /\ queue \in [Gates -> Seq(Requests)] /\ Once(queue[g]) /\ busy[g] \in Nat
      /\ Slots(g) \in Nat /\ Cardinality(O) \in Nat
  BY GateAssumption, FS_CardinalityType DEF Core, GateTypes, GateOK, QueueSound, Slots
<1>2. O \subseteq Requests
  BY OwnersAre
<1>3. CASE Waiting(g) = {}
  <2>1. queue'[g] = <<>> /\ busy'[g] = busy[g] - 1
    BY <1>3 DEF Rest
  <2>2. Owners(g)' = O
    <3>1. \A s \in Requests : Owns(s, g)' <=> s \in O
      BY <1>3
    <3> QED BY <3>1, <1>2, OwnersAre
  <2>3. Accounted(g)'
    BY <1>1, <2>1, <2>2 DEF Accounted
  <2>4. QueueSound(g)'
    BY <2>1 DEF QueueSound, Once, In
  <2>5. Within(g)'
    BY <1>1, <2>1 DEF GateOK, Within
  <2>6. busy'[g] \in Nat /\ queue'[g] \in Seq(Requests)
    BY <1>1, <2>1
  <2> QED BY <2>3, <2>4, <2>5, <2>6 DEF GateOK
<1>4. CASE Waiting(g) # {}
  <2>1. /\ Rest(g) \in Seq(Requests) /\ Once(Rest(g))
        /\ Heir(g) \in Requests /\ fut[Heir(g)] = "waiting"
        /\ In(Heir(g), queue[g]) /\ ~ In(Heir(g), Rest(g))
        /\ \A s : In(s, Rest(g)) => In(s, queue[g])
    BY <1>1, <1>4, RestLemma DEF Heir
  <2>2. WaitsAt(Heir(g)) = g
    BY <2>1 DEF GateOK, QueueSound
  <2>3. Heir(g) \notin O
    BY <2>1, <2>2, OwnersAre, OwnersDoNotWait
  <2>4. Owners(g)' = O \cup {Heir(g)}
    <3>1. \A s \in Requests : Owns(s, g)' <=> s \in O \cup {Heir(g)}
      BY <1>4
    <3> QED BY <3>1, <1>2, <2>1, OwnersAre
  <2>5. IsFiniteSet(Owners(g)') /\ Cardinality(Owners(g)') = Cardinality(O) + 1
    BY <2>3, <2>4, FS_AddElement
  <2>6. busy'[g] = busy[g] /\ queue'[g] = Rest(g)
    BY <1>4
  <2>7. Accounted(g)'
    BY <1>1, <2>5, <2>6 DEF Accounted
  <2>8. \A s : In(s, Rest(g)) => s # Heir(g) /\ In(s, queue[g])
    BY <2>1
  <2>9. \A s : In(s, Rest(g)) => fut'[s] = fut[s] /\ WaitsAt(s)' = WaitsAt(s)
    BY <2>8
  <2>10. QueueSound(g)'
    <3>1. \A s : In(s, queue[g]) =>
            s \in Requests /\ fut[s] \in {"waiting", "expired"} /\ WaitsAt(s) = g
      BY DEF GateOK, QueueSound
    <3>2. \A s : In(s, Rest(g)) =>
            s \in Requests /\ fut'[s] \in {"waiting", "expired"} /\ WaitsAt(s)' = g
      BY <3>1, <2>8, <2>9
    <3> QED BY <3>2, <2>1, <2>6 DEF QueueSound
  <2>11. queue[g] # <<>>
    BY <1>4 DEF Waiting
  <2>12. Within(g)'
    BY <2>6, <2>11, <1>1 DEF GateOK, Within, Slots
  <2> QED BY <1>1, <2>1, <2>6, <2>7, <2>10, <2>12 DEF GateOK
<1> QED BY <1>3, <1>4

\* Whom the released slots are handed to
LEMMA HeirsAre ==
  ASSUME Core, \A g \in Gates : GateOK(g), NEW G \in SUBSET Gates
  PROVE  /\ \A g \in G : Waiting(g) # {} =>
              /\ Heir(g) \in Requests /\ Heir(g) \in Heirs(G)
              /\ fut[Heir(g)] = "waiting" /\ WaitsAt(Heir(g)) = g
         /\ \A s \in Heirs(G) :
              /\ s \in Requests /\ fut[s] = "waiting" /\ at[s] \in {"user", "model"}
              /\ WaitsAt(s) \in G /\ Waiting(WaitsAt(s)) # {} /\ s = Heir(WaitsAt(s))
<1>1. ASSUME NEW g \in G, Waiting(g) # {}
      PROVE  Heir(g) \in Requests /\ fut[Heir(g)] = "waiting" /\ WaitsAt(Heir(g)) = g
  <2>1. queue \in [Gates -> Seq(Requests)] /\ QueueSound(g) /\ g \in Gates
    BY DEF Core, GateTypes, GateOK
  <2>2. Heir(g) \in Requests /\ fut[Heir(g)] = "waiting" /\ In(Heir(g), queue[g])
    BY <1>1, <2>1, RestLemma DEF QueueSound, Heir
  <2> QED BY <2>1, <2>2 DEF QueueSound
<1>2. Heirs(G) = {Heir(g) : g \in {h \in G : Waiting(h) # {}}}
  BY DEF Heirs, Heir
<1>3. \A s \in Requests : fut[s] = "waiting" => at[s] \in {"user", "model"}
  BY DEF Core, Waits
<1>4. \A s \in Heirs(G) : \E g \in G : Waiting(g) # {} /\ s = Heir(g)
  BY <1>2
<1>5. \A g \in G : Waiting(g) # {} => Heir(g) \in Heirs(G)
  BY <1>2
<1> QED BY <1>1, <1>3, <1>4, <1>5

-----------------------------------------------------------------------------
(* A request is answered *)

\* It leaves its user's gate
LEMMA KeyLeft ==
  ASSUME Core, \A u \in Users : Counted(u), NEW r \in Requests, at[r] \notin {"new", "done"},
         LeavesKey(r), at' = [at EXCEPT ![r] = "done"], mine' = mine
  PROVE  OneKey' /\ (\A u \in Users : Counted(u)') /\ KeyTypes'
<1> DEFINE v == UserOf[r]
<1>1. /\ v \in Users /\ UserOf \in [Requests -> Users] /\ Nobody \notin Requests
      /\ KeyTypes /\ OneKey
  BY GateAssumption, NamesAssumption DEF Core, Gates
<1>2. /\ r \in UnderWayOf(v) /\ UnderWayOf(v)' = UnderWayOf(v) \ {r}
      /\ \A u \in Users \ {v} : UnderWayOf(u)' = UnderWayOf(u)
  BY <1>1 DEF UnderWayOf, KeyTypes
<1>3. /\ IsFiniteSet(UnderWayOf(v)) /\ refs[v] = Cardinality(UnderWayOf(v))
      /\ IsFiniteSet(UnderWayOf(v)')
      /\ Cardinality(UnderWayOf(v)') = Cardinality(UnderWayOf(v)) - 1
      /\ Cardinality(UnderWayOf(v)') \in Nat
  <2>1. IsFiniteSet(UnderWayOf(v)) /\ refs[v] = Cardinality(UnderWayOf(v))
    BY <1>1 DEF Counted
  <2>2. /\ IsFiniteSet(UnderWayOf(v)')
        /\ Cardinality(UnderWayOf(v)') = Cardinality(UnderWayOf(v)) - 1
    BY <1>2, <2>1, FS_RemoveElement
  <2> QED BY <2>1, <2>2, FS_CardinalityType
<1>4. refs' = [refs EXCEPT ![v] = @ - 1] /\ refs[v] \in Nat
  BY <1>1 DEF LeavesKey, KeyTypes
<1>5. refs' \in [Users -> Nat] /\ \A u \in Users : Counted(u)'
  <2>1. refs'[v] = Cardinality(UnderWayOf(v)')
    BY <1>1, <1>3, <1>4 DEF KeyTypes
  <2>2. Counted(v)'
    BY <1>3, <2>1 DEF Counted
  <2>3. ASSUME NEW u \in Users \ {v} PROVE Counted(u)'
    BY <1>1, <1>2, <1>4 DEF Counted, KeyTypes
  <2>4. refs' \in [Users -> Nat]
    BY <1>1, <1>3, <1>4, <2>1 DEF KeyTypes
  <2> QED BY <2>2, <2>3, <2>4
<1>6. current' = [current EXCEPT ![v] = IF refs[v] = 1 THEN Nobody ELSE @]
  BY DEF LeavesKey, Drops
<1>7. KeyTypes'
  <2>1. current' \in [Users -> Requests \cup {Nobody}]
    BY <1>1, <1>6 DEF KeyTypes
  <2>2. at' \in [Requests -> Stages]
    BY <1>1 DEF KeyTypes, Stages
  <2> QED BY <1>1, <1>5, <2>1, <2>2 DEF KeyTypes
<1>8. OneKey'
  <2> SUFFICES ASSUME NEW s \in Requests, at'[s] \notin {"new", "done"}
               PROVE  mine'[s] = current'[UserOf[s]] /\ mine'[s] \in Requests
    BY DEF OneKey
  <2>1. s # r /\ at[s] \notin {"new", "done"}
    BY <1>1 DEF KeyTypes
  <2>2. mine[s] = current[UserOf[s]] /\ mine[s] \in Requests
    BY <1>1, <2>1 DEF OneKey
  <2>3. CASE UserOf[s] = v
    <3>1. s \in UnderWayOf(v)'
      BY <2>3, <1>2, <2>1 DEF UnderWayOf
    <3>2. Cardinality(UnderWayOf(v)') # 0
      BY <3>1, <1>3, FS_EmptySet
    <3>3. refs[v] # 1
      BY <1>3, <3>2
    <3> QED BY <1>1, <1>6, <2>2, <2>3, <3>3 DEF KeyTypes
  <2>4. CASE UserOf[s] # v
    BY <1>1, <1>6, <2>2, <2>4 DEF KeyTypes
  <2> QED BY <2>3, <2>4
<1> QED BY <1>5, <1>7, <1>8

\* It gives back what it holds and is on its way to hold, G, and leaves the
\* queues, which become q
LEMMA AnsweredKeepsInv ==
  ASSUME GatesInv, NEW r \in Requests, at[r] \notin {"new", "done"}, fut[r] # "waiting",
         NEW G \in SUBSET Gates, \A g \in Gates : g \in G <=> Owns(r, g),
         NEW q \in [Gates -> Seq(Requests)],
         \A g \in Gates : /\ Once(q[g]) /\ ~ In(r, q[g])
                          /\ \A s : In(s, q[g]) => In(s, queue[g]),
         Answered(r, G, q), passing' = passing, mine' = mine
  PROVE  GatesInv'
<1>1. Core /\ (\A g \in Gates : GateOK(g)) /\ (\A u \in Users : Counted(u))
  BY DEF GatesInv
<1>2. /\ GateTypes /\ KeyTypes /\ Waits /\ OneKey
  BY <1>1 DEF Core
<1>3. /\ busy' = [g \in Gates |-> IF g \in G /\ Waiting(g) = {} THEN busy[g] - 1 ELSE busy[g]]
      /\ queue' = [g \in Gates |-> IF g \in G THEN Rest(g) ELSE q[g]]
      /\ fut' = [s \in Requests |-> IF s \in Heirs(G) THEN "handed"
                                    ELSE IF s = r THEN "none" ELSE fut[s]]
      /\ at' = [at EXCEPT ![r] = "done"] /\ LeavesKey(r)
  BY DEF Answered, Released
<1>4. OneKey' /\ (\A u \in Users : Counted(u)') /\ KeyTypes'
  BY <1>1, <1>3, KeyLeft
<1>5. /\ \A g \in G : Waiting(g) # {} =>
           /\ Heir(g) \in Requests /\ Heir(g) \in Heirs(G)
           /\ fut[Heir(g)] = "waiting" /\ WaitsAt(Heir(g)) = g
      /\ \A s \in Heirs(G) :
           /\ s \in Requests /\ fut[s] = "waiting" /\ at[s] \in {"user", "model"}
           /\ WaitsAt(s) \in G /\ Waiting(WaitsAt(s)) # {} /\ s = Heir(WaitsAt(s))
  BY <1>1, HeirsAre
<1>6. r \notin Heirs(G)
  BY <1>5
<1>7. Waits'
  BY <1>2, <1>3, <1>5, <1>6 DEF Waits, KeyTypes
<1>8. fut' \in [Requests -> Futures]
  BY <1>2, <1>3 DEF GateTypes, Futures
\* What the others own afterwards
<1>9. ~ \E g : Owns(r, g)'
  BY <1>2, <1>3, <1>6 DEF Owns, Working, KeyTypes
<1>10. ASSUME NEW s \in Requests, s # r
       PROVE  /\ WaitsAt(s)' = WaitsAt(s) /\ (s \notin Heirs(G) => fut'[s] = fut[s])
              /\ \A g \in Gates : Owns(s, g)' <=> Owns(s, g) \/ (s \in Heirs(G) /\ WaitsAt(s) = g)
  <2>1. at'[s] = at[s] /\ mine'[s] = mine[s] /\ WaitsAt(s)' = WaitsAt(s)
    BY <1>2, <1>3, <1>10 DEF WaitsAt, KeyTypes
  <2>2. fut'[s] = IF s \in Heirs(G) THEN "handed" ELSE fut[s]
    BY <1>3, <1>10
  <2>3. s \in Heirs(G) => fut[s] = "waiting"
    BY <1>5
  <2> QED BY <2>1, <2>2, <2>3 DEF Owns
<1>11. ASSUME NEW g \in Gates
       PROVE  GateOK(g)' /\ busy'[g] \in Nat /\ queue'[g] \in Seq(Requests)
  <2>1. CASE g \in G
    <3> DEFINE O == Owners(g) \ {r}
    <3>1. r \in Owners(g)
      BY <2>1, OwnersAre
    <3>2. /\ IsFiniteSet(O) /\ Cardinality(O) = Cardinality(Owners(g)) - 1
      BY <1>1, <3>1, FS_RemoveElement DEF GateOK, Accounted
    <3>3. /\ passing'[g] \in Nat /\ busy[g] = Cardinality(O) + passing'[g] + 1
      <4>1. Cardinality(Owners(g)) \in Nat /\ busy[g] = Cardinality(Owners(g)) + passing[g]
        BY <1>1, FS_CardinalityType DEF GateOK, Accounted
      <4> QED BY <4>1, <3>2, <1>2 DEF GateTypes
    <3>4. \A s \in Requests : Owns(s, g)' <=> s \in O \/ (Waiting(g) # {} /\ s = Heir(g))
      <4> SUFFICES ASSUME NEW s \in Requests
                   PROVE  Owns(s, g)' <=> s \in O \/ (Waiting(g) # {} /\ s = Heir(g))
        OBVIOUS
      <4>1. CASE s = r
        BY <4>1, <1>5, <1>6, <1>9, <2>1
      <4>2. CASE s # r
        <5>1. Owns(s, g) <=> s \in O
          BY <4>2, OwnersAre
        <5>2. s \in Heirs(G) /\ WaitsAt(s) = g <=> Waiting(g) # {} /\ s = Heir(g)
          BY <1>5, <2>1
        <5> QED BY <4>2, <5>1, <5>2, <1>10
      <4> QED BY <4>1, <4>2
    <3>5. \A s : In(s, queue[g]) /\ (Waiting(g) # {} => s # Heir(g)) =>
            fut'[s] = fut[s] /\ WaitsAt(s)' = WaitsAt(s)
      <4> SUFFICES ASSUME NEW s, In(s, queue[g]), Waiting(g) # {} => s # Heir(g)
                   PROVE  fut'[s] = fut[s] /\ WaitsAt(s)' = WaitsAt(s)
        OBVIOUS
      <4>1. s \in Requests /\ fut[s] \in {"waiting", "expired"} /\ WaitsAt(s) = g
        BY <1>1 DEF GateOK, QueueSound
      <4>2. s # r
        BY <1>1, <2>1, <4>1, OwnersDoNotWait
      <4>3. s \notin Heirs(G)
        BY <1>5, <4>1
      <4> QED BY <4>1, <4>2, <4>3, <1>10
    <3>6. /\ busy'[g] = IF Waiting(g) = {} THEN busy[g] - 1 ELSE busy[g]
          /\ queue'[g] = Rest(g)
      BY <1>3, <2>1
    <3>7. O \subseteq Owners(g) /\ GateOK(g)
      BY <1>1
    <3> HIDE DEF O
    <3> QED BY <1>1, <3>2, <3>3, <3>4, <3>5, <3>6, <3>7, GateReleased
  <2>2. CASE g \notin G
    <3>1. busy'[g] = busy[g] /\ queue'[g] = q[g] /\ passing'[g] = passing[g]
      BY <1>3, <2>2
    <3>2. QueueSound(g)'
      <4>1. ASSUME NEW s, In(s, q[g])
            PROVE  s \in Requests /\ fut'[s] \in {"waiting", "expired"} /\ WaitsAt(s)' = g
        <5>1. s \in Requests /\ fut[s] \in {"waiting", "expired"} /\ WaitsAt(s) = g
          BY <4>1, <1>1 DEF GateOK, QueueSound
        <5>2. s # r
          BY <4>1
        <5>3. s \notin Heirs(G)
          BY <1>5, <2>2, <5>1
        <5> QED BY <5>1, <5>2, <5>3, <1>10
      <4> QED BY <4>1, <3>1 DEF QueueSound
    <3>3. Owners(g)' = Owners(g)
      <4>1. \A s \in Requests : Owns(s, g)' <=> Owns(s, g)
        <5> SUFFICES ASSUME NEW s \in Requests PROVE Owns(s, g)' <=> Owns(s, g)
          OBVIOUS
        <5>1. CASE s = r
          BY <5>1, <1>9, <2>2
        <5>2. CASE s # r
          BY <5>2, <1>10, <1>5, <2>2
        <5> QED BY <5>1, <5>2
      <4> QED BY <4>1, OwnersAre
    <3>4. Accounted(g)'
      BY <1>1, <3>1, <3>3 DEF GateOK, Accounted
    <3>5. q[g] # <<>> => queue[g] # <<>>
      <4>1. ASSUME q[g] # <<>> PROVE In(q[g][1], q[g])
        BY <4>1 DEF In
      <4>2. q[g] # <<>> => \E i \in DOMAIN queue[g] : queue[g][i] = q[g][1]
        BY <4>1 DEF In
      <4> QED BY <4>2
    <3>6. Within(g)'
      BY <1>1, <3>1, <3>5 DEF GateOK, Within
    <3> QED BY <1>2, <3>1, <3>2, <3>4, <3>6 DEF GateOK, GateTypes
  <2> QED BY <2>1, <2>2
<1>12. GateTypes'
  <2>1. busy' \in [Gates -> Nat] /\ queue' \in [Gates -> Seq(Requests)]
    BY <1>3, <1>11
  <2> QED BY <1>2, <1>8, <2>1 DEF GateTypes
<1> QED BY <1>4, <1>7, <1>11, <1>12 DEF GatesInv, Core

-----------------------------------------------------------------------------
(* The steps of a request *)

\* A request that arrived
LEMMA KeyEntered ==
  ASSUME Core, \A u \in Users : Counted(u), NEW r \in Requests, at[r] = "new",
         NEW g \in Requests, g = IF current[UserOf[r]] = Nobody THEN r ELSE current[UserOf[r]],
         mine' = [mine EXCEPT ![r] = g], current' = [current EXCEPT ![UserOf[r]] = g],
         refs' = [refs EXCEPT ![UserOf[r]] = @ + 1],
         NEW x \in Stages \ {"new", "done"}, at' = [at EXCEPT ![r] = x]
  PROVE  OneKey' /\ (\A u \in Users : Counted(u)') /\ KeyTypes'
<1> DEFINE v == UserOf[r]
<1>1. /\ v \in Users /\ UserOf \in [Requests -> Users] /\ Nobody \notin Requests
      /\ KeyTypes /\ OneKey
  BY GateAssumption, NamesAssumption DEF Core, Gates
<1>2. /\ r \notin UnderWayOf(v) /\ UnderWayOf(v)' = UnderWayOf(v) \cup {r}
      /\ \A u \in Users \ {v} : UnderWayOf(u)' = UnderWayOf(u)
  BY <1>1 DEF UnderWayOf, KeyTypes
<1>3. IsFiniteSet(UnderWayOf(v)) /\ refs[v] = Cardinality(UnderWayOf(v))
  BY <1>1 DEF Counted
<1>4. /\ IsFiniteSet(UnderWayOf(v)')
      /\ Cardinality(UnderWayOf(v)') = Cardinality(UnderWayOf(v)) + 1
  BY <1>2, <1>3, FS_AddElement
<1>5. \A u \in Users : Counted(u)'
  <2>1. refs'[v] = Cardinality(UnderWayOf(v)')
    BY <1>1, <1>3, <1>4 DEF KeyTypes
  <2>2. Counted(v)'
    BY <1>4, <2>1 DEF Counted
  <2>3. ASSUME NEW u \in Users \ {v} PROVE Counted(u)'
    BY <1>1, <1>2 DEF Counted, KeyTypes
  <2> QED BY <2>2, <2>3
<1>6. KeyTypes'
  <2>1. refs' \in [Users -> Nat]
    BY <1>1 DEF KeyTypes
  <2>2. at' \in [Requests -> Stages]
    BY <1>1 DEF KeyTypes
  <2>3. /\ current' \in [Users -> Requests \cup {Nobody}]
        /\ mine' \in [Requests -> Requests \cup {Nobody}]
    BY <1>1 DEF KeyTypes
  <2> QED BY <2>1, <2>2, <2>3 DEF KeyTypes
<1>7. OneKey'
  <2> SUFFICES ASSUME NEW s \in Requests, at'[s] \notin {"new", "done"}
               PROVE  mine'[s] = current'[UserOf[s]] /\ mine'[s] \in Requests
    BY DEF OneKey
  <2>1. CASE s = r
    BY <2>1, <1>1 DEF KeyTypes
  <2>2. CASE s # r
    <3>1. mine[s] = current[UserOf[s]] /\ mine[s] \in Requests /\ mine'[s] = mine[s]
      BY <2>2, <1>1 DEF KeyTypes, OneKey
    <3>2. UserOf[s] = v => g = mine[s]
      BY <3>1, <1>1
    <3> QED BY <3>1, <3>2, <1>1 DEF KeyTypes
  <2> QED BY <2>1, <2>2
<1> QED BY <1>5, <1>6, <1>7

\* A request that goes on
LEMMA KeyStays ==
  ASSUME KeyTypes, OneKey, \A u \in Users : Counted(u), NEW r \in Requests,
         NEW x \in Stages, at' = [at EXCEPT ![r] = x], UNCHANGED <<current, refs, mine>>,
         (at[r] \in {"new", "done"}) <=> (x \in {"new", "done"})
  PROVE  OneKey' /\ (\A u \in Users : Counted(u)') /\ KeyTypes'
<1>1. \A s \in Requests : at'[s] \in {"new", "done"} <=> at[s] \in {"new", "done"}
  BY DEF KeyTypes
<1>2. \A u \in Users : UnderWayOf(u)' = UnderWayOf(u)
  BY <1>1 DEF UnderWayOf
<1>3. \A u \in Users : Counted(u)'
  BY <1>2 DEF Counted
<1>4. OneKey'
  BY <1>1 DEF OneKey
<1>5. KeyTypes'
  BY DEF KeyTypes
<1> QED BY <1>3, <1>4, <1>5

LEMMA MeterWorks == \A r \in Requests : Meter(r) \in Working
BY DEF Meter, Working

\* A request that queues, or gave up and is queued still, is in its own queue only
LEMMA WhereItQueues ==
  ASSUME GatesInv, NEW r \in Requests, NEW g \in Gates, In(r, queue[g])
  PROVE  fut[r] \in {"waiting", "expired"} /\ WaitsAt(r) = g
BY DEF GatesInv, GateOK, QueueSound

\* With its user's slot, new or kept, it asks for the model's
LEMMA AsksKeepsGates ==
  ASSUME GatesInv, NEW r \in Requests, NEW u \in Requests, NEW b, AsksModel(r, b), passing' = passing,
         fut[r] \in {"none", "granted"}, mine'[r] = u,
         \A s \in Requests \ {r} : mine'[s] = mine[s],
         \/ at[r] = "new" /\ b = [busy EXCEPT ![u] = @ + 1] /\ Takes(u)
         \/ at[r] = "user" /\ b = busy /\ mine[r] = u
  PROVE  /\ (\A g \in Gates : GateOK(g)') /\ GateTypes' /\ Waits'
         /\ \E x \in Stages \ {"new", "done"} : at' = [at EXCEPT ![r] = x]
<1>1. /\ GateTypes /\ KeyTypes /\ Waits /\ (\A g \in Gates : GateOK(g))
      /\ u \in Gates /\ Model \in Gates /\ u # Model
  BY NamesAssumption DEF GatesInv, Core, Gates
<1>2. \A g \in Gates : ~ In(r, queue[g])
  BY WhereItQueues
<1>3. /\ at[r] = "new" => \A g : ~ Owns(r, g)
      /\ at[r] = "user" => \A g : Owns(r, g) <=> g = mine[r]
  BY <1>1 DEF Waits, Owns, WaitsAt, Working
<1>4. CASE /\ Takes(Model)
           /\ busy' = [b EXCEPT ![Model] = @ + 1] /\ fut' = [fut EXCEPT ![r] = "none"]
           /\ at' = [at EXCEPT ![r] = Meter(r)] /\ queue' = queue
  <2>1. Meter(r) \in Working /\ Meter(r) \in Stages \ {"new", "done"}
    BY MeterWorks DEF Working, Stages
  <2>2. at'[r] \in Working /\ fut'[r] = "none" /\ Frame(r)
    BY <1>1, <1>4, <2>1 DEF GateTypes, KeyTypes, Frame
  <2>3. \A g : Owns(r, g)' <=> g = u \/ g = Model
    BY <2>2 DEF Owns, WaitsAt, Working
  <2>4. busy'[Model] = busy[Model] + 1 /\ \A g \in Gates \ {Model} : busy'[g] = b[g]
    BY <1>1, <1>4 DEF GateTypes
  <2>5. GateOK(Model)'
    <3>1. ~ Owns(r, Model)
      BY <1>1, <1>3
    <3> QED BY <1>1, <1>4, <2>2, <2>3, <2>4, <3>1, GateTaken
  <2>6. GateOK(u)'
    <3>1. CASE at[r] = "new"
      <4>1. busy'[u] = busy[u] + 1 /\ Takes(u)
        BY <1>1, <2>4, <3>1 DEF GateTypes
      <4> QED BY <1>1, <1>3, <1>4, <2>2, <2>3, <3>1, <4>1, GateTaken
    <3>2. CASE at[r] = "user"
      <4>1. busy'[u] = busy[u] /\ Owns(r, u)
        BY <1>1, <1>3, <2>4, <3>2
      <4> QED BY <1>1, <1>2, <1>4, <2>2, <2>3, <4>1, GateKept
    <3> QED BY <3>1, <3>2
  <2>7. ASSUME NEW g \in Gates \ {u, Model} PROVE GateOK(g)'
    <3>1. busy'[g] = busy[g] /\ ~ Owns(r, g)
      BY <1>1, <1>3, <2>4 DEF GateTypes
    <3> QED BY <1>1, <1>2, <1>4, <2>2, <2>3, <3>1, GateKept
  <2>8. GateTypes'
    <3>1. b \in [Gates -> Nat]
      BY <1>1 DEF GateTypes
    <3>2. busy' \in [Gates -> Nat]
      BY <1>1, <1>4, <3>1
    <3> QED BY <1>1, <1>4, <3>2 DEF GateTypes, Futures
  <2>9. Waits'
    BY <1>1, <1>4, <2>2 DEF Waits, Frame, Working
  <2> QED BY <1>4, <2>1, <2>5, <2>6, <2>7, <2>8, <2>9
<1>5. CASE /\ ~ Takes(Model)
           /\ busy' = b /\ fut' = [fut EXCEPT ![r] = "waiting"]
           /\ queue' = [queue EXCEPT ![Model] = Append(@, r)]
           /\ at' = [at EXCEPT ![r] = "model"]
  <2>1. at'[r] = "model" /\ fut'[r] = "waiting" /\ Frame(r) /\ WaitsAt(r)' = Model
    BY <1>1, <1>5 DEF GateTypes, KeyTypes, Frame, WaitsAt
  <2>2. \A g : Owns(r, g)' <=> g = u
    BY <2>1 DEF Owns, Working
  <2>3. /\ queue'[Model] = Append(queue[Model], r)
        /\ \A g \in Gates \ {Model} : queue'[g] = queue[g]
    BY <1>1, <1>5 DEF GateTypes
  <2>4. GateOK(Model)'
    <3>1. ~ Owns(r, Model) /\ busy'[Model] = busy[Model]
      BY <1>1, <1>3, <1>5 DEF GateTypes
    <3> QED BY <1>1, <1>2, <1>5, <2>1, <2>2, <2>3, <3>1, GateQueued
  <2>5. GateOK(u)'
    <3>1. CASE at[r] = "new"
      <4>1. busy'[u] = busy[u] + 1 /\ Takes(u)
        BY <1>1, <1>5, <3>1 DEF GateTypes
      <4> QED BY <1>1, <1>3, <2>1, <2>2, <2>3, <3>1, <4>1, GateTaken
    <3>2. CASE at[r] = "user"
      <4>1. busy'[u] = busy[u] /\ Owns(r, u)
        BY <1>1, <1>3, <1>5, <3>2
      <4> QED BY <1>1, <1>2, <2>1, <2>2, <2>3, <4>1, GateKept
    <3> QED BY <3>1, <3>2
  <2>6. ASSUME NEW g \in Gates \ {u, Model} PROVE GateOK(g)'
    <3>1. busy'[g] = busy[g] /\ ~ Owns(r, g)
      BY <1>1, <1>3, <1>5 DEF GateTypes
    <3> QED BY <1>1, <1>2, <2>1, <2>2, <2>3, <3>1, GateKept
  <2>7. GateTypes'
    <3>1. b \in [Gates -> Nat]
      BY <1>1 DEF GateTypes
    <3>2. queue' \in [Gates -> Seq(Requests)]
      <4>1. Append(queue[Model], r) \in Seq(Requests)
        BY <1>1 DEF GateTypes
      <4>2. queue \in [Gates -> Seq(Requests)] /\ Model \in Gates
        BY <1>1 DEF GateTypes
      <4>3. queue' = [queue EXCEPT ![Model] = Append(queue[Model], r)]
        BY <1>5
      <4> QED BY <4>1, <4>2, <4>3
    <3> QED BY <1>1, <1>5, <3>1, <3>2 DEF GateTypes, Futures
  <2>8. Waits'
    BY <1>1, <1>5, <2>1 DEF Waits, Frame
  <2>9. "model" \in Stages \ {"new", "done"}
    BY DEF Stages
  <2> QED BY <1>5, <2>4, <2>5, <2>6, <2>7, <2>8, <2>9
<1> QED BY <1>4, <1>5 DEF AsksModel

LEMMA ArriveKeepsInv == ASSUME GatesInv, NEW r \in Requests, Arrive(r) PROVE GatesInv'
<1> DEFINE v == UserOf[r]
<1>1. /\ GateTypes /\ KeyTypes /\ Waits /\ OneKey /\ Core
      /\ (\A h \in Gates : GateOK(h)) /\ (\A u \in Users : Counted(u))
  BY DEF GatesInv, Core
<1>8. v \in Users /\ (IF current[v] = Nobody THEN r ELSE current[v]) \in Requests
  BY <1>1, GateAssumption DEF KeyTypes
<1>9. PICK g \in Requests : g = IF current[v] = Nobody THEN r ELSE current[v]
  BY <1>8
<1> DEFINE Enters ==
             /\ mine' = [mine EXCEPT ![r] = g] /\ current' = [current EXCEPT ![v] = g]
             /\ refs' = [refs EXCEPT ![v] = @ + 1]
<1>2. v \in Users /\ g \in Gates /\ g # Model
  BY <1>8, NamesAssumption DEF Gates
<1>3. at[r] = "new" /\ fut[r] = "none" /\ passing' = passing
  BY <1>1 DEF Arrive, Waits
<1>4. (\A h \in Gates : ~ In(r, queue[h])) /\ (\A h : ~ Owns(r, h))
  BY <1>3, WhereItQueues DEF Owns, Working
<1>5. CASE Takes(g) /\ AsksModel(r, [busy EXCEPT ![g] = @ + 1]) /\ Enters
  <2>1. mine'[r] = g /\ \A s \in Requests \ {r} : mine'[s] = mine[s]
    BY <1>1, <1>5 DEF KeyTypes
  <2>2. /\ (\A h \in Gates : GateOK(h)') /\ GateTypes' /\ Waits'
        /\ \E x \in Stages \ {"new", "done"} : at' = [at EXCEPT ![r] = x]
    BY <1>2, <1>3, <1>5, <2>1, AsksKeepsGates
  <2>3. OneKey' /\ (\A u \in Users : Counted(u)') /\ KeyTypes'
    BY <1>1, <1>2, <1>3, <1>5, <1>9, <2>2, KeyEntered
  <2> QED BY <2>2, <2>3 DEF GatesInv, Core
<1>6. CASE /\ ~ Takes(g) /\ queue' = [queue EXCEPT ![g] = Append(@, r)]
           /\ fut' = [fut EXCEPT ![r] = "waiting"] /\ at' = [at EXCEPT ![r] = "user"]
           /\ Enters /\ busy' = busy
  <2>1. "user" \in Stages \ {"new", "done"}
    BY DEF Stages
  <2>2. OneKey' /\ (\A u \in Users : Counted(u)') /\ KeyTypes'
    BY <1>1, <1>2, <1>3, <1>6, <1>9, <2>1, KeyEntered
  <2>3. /\ fut'[r] = "waiting" /\ at'[r] = "user" /\ mine'[r] = g /\ Frame(r)
    BY <1>1, <1>6 DEF GateTypes, KeyTypes, Frame
  <2>4. WaitsAt(r)' = g /\ \A h : ~ Owns(r, h)'
    BY <2>3 DEF WaitsAt, Owns, Working
  <2>5. /\ queue'[g] = Append(queue[g], r)
        /\ \A h \in Gates \ {g} : queue'[h] = queue[h]
    BY <1>1, <1>2, <1>6 DEF GateTypes
  <2>6. GateOK(g)'
    <3>1. busy'[g] = busy[g] /\ passing'[g] = passing[g] /\ ~ Takes(g) /\ ~ In(r, queue[g])
      BY <1>2, <1>3, <1>4, <1>6
    <3> QED BY <1>1, <1>2, <1>4, <2>3, <2>4, <2>5, <3>1, GateQueued
  <2>7. ASSUME NEW h \in Gates \ {g} PROVE GateOK(h)'
    BY <1>1, <1>3, <1>4, <1>6, <2>3, <2>4, <2>5, GateKept
  <2>8. Append(queue[g], r) \in Seq(Requests)
    BY <1>1, <1>2 DEF GateTypes
  <2>9. GateTypes'
    BY <1>1, <1>2, <1>3, <1>6, <2>8 DEF GateTypes, Futures
  <2>10. Waits'
    BY <1>1, <1>6, <2>3 DEF Waits, Frame
  <2>11. \A h \in Gates : GateOK(h)'
    BY <2>6, <2>7
  <2> QED BY <2>2, <2>9, <2>10, <2>11 DEF GatesInv, Core
<1>7. CASE /\ at' = [at EXCEPT ![r] = "done"]
           /\ UNCHANGED <<busy, queue, fut, keyVars, mine>>
  <2>1. "done" \in Stages /\ UNCHANGED <<current, refs, mine>>
    BY <1>7 DEF Stages, keyVars
  <2>2. OneKey' /\ (\A u \in Users : Counted(u)') /\ KeyTypes'
    BY <1>1, <1>3, <1>7, <2>1, KeyStays
  <2>3. at'[r] = "done" /\ fut'[r] = "none" /\ Frame(r)
    BY <1>1, <1>3, <1>7 DEF KeyTypes, Frame
  <2>4. \A h : ~ Owns(r, h)'
    BY <2>3 DEF Owns, Working
  <2>5. ASSUME NEW h \in Gates PROVE GateOK(h)'
    BY <1>1, <1>3, <1>4, <1>7, <2>3, <2>4, GateKept
  <2>6. GateTypes'
    BY <1>1, <1>3, <1>7 DEF GateTypes
  <2>7. Waits'
    BY <1>1, <1>7, <2>3 DEF Waits, Frame
  <2> QED BY <2>2, <2>5, <2>6, <2>7 DEF GatesInv, Core
<1> QED BY <1>5, <1>6, <1>7, <1>9 DEF Arrive

\* The future changes, and nothing else of the request
LEMMA GrantKeepsInv == ASSUME GatesInv, NEW r \in Requests, Grant(r) PROVE GatesInv'
<1>1. /\ GateTypes /\ KeyTypes /\ Waits /\ OneKey
      /\ (\A h \in Gates : GateOK(h)) /\ (\A u \in Users : Counted(u))
  BY DEF GatesInv, Core
<1>2. /\ fut[r] = "handed" /\ fut' = [fut EXCEPT ![r] = "granted"]
      /\ UNCHANGED <<busy, queue, passing, current, refs, at, mine>>
  BY DEF Grant, keyVars
<1>3. fut'[r] = "granted" /\ Frame(r)
  BY <1>1, <1>2 DEF GateTypes, Frame
<1>4. \A h : Owns(r, h)' <=> Owns(r, h)
  BY <1>2, <1>3 DEF Owns, WaitsAt
<1>5. \A h \in Gates : ~ In(r, queue[h])
  BY <1>2, WhereItQueues
<1>6. ASSUME NEW h \in Gates PROVE GateOK(h)'
  BY <1>1, <1>2, <1>3, <1>4, <1>5, GateKept
<1>7. GateTypes' /\ Waits'
  BY <1>1, <1>2, <1>3 DEF GateTypes, Waits, Frame, Futures
<1>8. KeyTypes' /\ OneKey' /\ \A u \in Users : Counted(u)'
  BY <1>1, <1>2 DEF KeyTypes, OneKey, Counted, UnderWayOf
<1> QED BY <1>6, <1>7, <1>8 DEF GatesInv, Core

LEMMA ExpireKeepsInv == ASSUME GatesInv, NEW r \in Requests, Expire(r) PROVE GatesInv'
<1>1. /\ GateTypes /\ KeyTypes /\ Waits /\ OneKey
      /\ (\A h \in Gates : GateOK(h)) /\ (\A u \in Users : Counted(u))
  BY DEF GatesInv, Core
<1>2. /\ fut[r] \in {"waiting", "handed"} /\ fut' = [fut EXCEPT ![r] = "expired"]
      /\ passing' = [passing EXCEPT ![WaitsAt(r)] = IF fut[r] = "handed" THEN @ + 1 ELSE @]
      /\ UNCHANGED <<busy, queue, current, refs, at, mine>>
  BY DEF Expire, keyVars
<1>3. fut'[r] = "expired" /\ Frame(r) /\ WaitsAt(r)' = WaitsAt(r)
  BY <1>1, <1>2 DEF GateTypes, Frame, WaitsAt
<1>4. WaitsAt(r) \in Gates /\ at[r] \in {"user", "model"} /\ mine[r] \in Requests
  BY <1>1, <1>2 DEF Waits, OneKey, WaitsAt, Gates
<1>5. ASSUME NEW h \in Gates PROVE GateOK(h)'
  <2>1. CASE fut[r] = "waiting"
    <3>1. Owns(r, h)' <=> Owns(r, h)
      BY <1>2, <1>3, <2>1 DEF Owns
    <3>2. passing'[h] = passing[h] /\ (In(r, queue[h]) => WaitsAt(r)' = h)
      BY <1>1, <1>2, <1>3, <2>1, WhereItQueues DEF GateTypes
    <3> QED BY <1>1, <1>2, <1>3, <3>1, <3>2, GateKept
  <2>2. CASE fut[r] = "handed"
    <3>1. ~ In(r, queue[h])
      BY <2>2, WhereItQueues
    <3>2. CASE h = WaitsAt(r)
      <4>1. passing'[h] = passing[h] + 1
        BY <1>1, <1>2, <2>2, <3>2 DEF GateTypes
      <4>2. Owns(r, h)
        BY <2>2, <3>2 DEF Owns
      <4>3. ~ Owns(r, h)'
        BY <1>2, <1>3, <1>4, <3>2, NamesAssumption DEF Owns, Working, WaitsAt
      <4> QED BY <1>1, <1>2, <1>3, <3>1, <4>1, <4>2, <4>3, GateExpired
    <3>3. CASE h # WaitsAt(r)
      <4>1. passing'[h] = passing[h]
        BY <1>1, <1>2, <3>3 DEF GateTypes
      <4>2. Owns(r, h)' <=> Owns(r, h)
        BY <1>2, <1>3, <3>3 DEF Owns
      <4> QED BY <1>1, <1>2, <1>3, <3>1, <4>1, <4>2, GateKept
    <3> QED BY <3>2, <3>3
  <2> QED BY <1>2, <2>1, <2>2
<1>6. GateTypes' /\ Waits'
  BY <1>1, <1>2, <1>3, <1>4 DEF GateTypes, Waits, Frame, Futures
<1>7. KeyTypes' /\ OneKey' /\ \A u \in Users : Counted(u)'
  BY <1>1, <1>2 DEF KeyTypes, OneKey, Counted, UnderWayOf
<1> QED BY <1>5, <1>6, <1>7 DEF GatesInv, Core

LEMMA PassOnKeepsInv == ASSUME GatesInv, NEW g \in Gates, PassOn(g) PROVE GatesInv'
<1>1. /\ GateTypes /\ KeyTypes /\ Waits /\ OneKey /\ Core
      /\ (\A h \in Gates : GateOK(h)) /\ (\A u \in Users : Counted(u))
  BY DEF GatesInv, Core
<1>2. /\ passing[g] > 0 /\ passing' = [passing EXCEPT ![g] = @ - 1]
      /\ busy' = [h \in Gates |-> IF h \in {g} /\ Waiting(h) = {} THEN busy[h] - 1 ELSE busy[h]]
      /\ queue' = [h \in Gates |-> IF h \in {g} THEN Rest(h) ELSE queue[h]]
      /\ fut' = [s \in Requests |-> IF s \in Heirs({g}) THEN "handed" ELSE fut[s]]
      /\ UNCHANGED <<current, refs, at, mine>>
  BY DEF PassOn, Released, keyVars
<1>3. /\ Waiting(g) # {} =>
           /\ Heir(g) \in Requests /\ Heir(g) \in Heirs({g})
           /\ fut[Heir(g)] = "waiting" /\ WaitsAt(Heir(g)) = g
      /\ \A s \in Heirs({g}) :
           /\ s \in Requests /\ fut[s] = "waiting" /\ at[s] \in {"user", "model"}
           /\ WaitsAt(s) = g /\ Waiting(g) # {} /\ s = Heir(g)
  <2>1. {g} \in SUBSET Gates
    OBVIOUS
  <2>2. /\ \A h \in {g} : Waiting(h) # {} =>
             /\ Heir(h) \in Requests /\ Heir(h) \in Heirs({g})
             /\ fut[Heir(h)] = "waiting" /\ WaitsAt(Heir(h)) = h
        /\ \A s \in Heirs({g}) :
             /\ s \in Requests /\ fut[s] = "waiting" /\ at[s] \in {"user", "model"}
             /\ WaitsAt(s) \in {g} /\ Waiting(WaitsAt(s)) # {} /\ s = Heir(WaitsAt(s))
    BY <1>1, <2>1, HeirsAre
  <2> QED BY <2>2
<1>4. ASSUME NEW s \in Requests
      PROVE  /\ WaitsAt(s)' = WaitsAt(s) /\ (s \notin Heirs({g}) => fut'[s] = fut[s])
             /\ \A h : Owns(s, h)' <=> Owns(s, h) \/ (s \in Heirs({g}) /\ h = g)
  <2>1. at'[s] = at[s] /\ mine'[s] = mine[s] /\ WaitsAt(s)' = WaitsAt(s)
    BY <1>2 DEF WaitsAt
  <2>2. fut'[s] = IF s \in Heirs({g}) THEN "handed" ELSE fut[s]
    BY <1>2
  <2>3. s \in Heirs({g}) => fut[s] = "waiting" /\ WaitsAt(s) = g
    BY <1>3
  <2> QED BY <2>1, <2>2, <2>3 DEF Owns
<1>5. GateOK(g)' /\ busy'[g] \in Nat /\ queue'[g] \in Seq(Requests)
  <2> DEFINE O == Owners(g)
  <2>1. \A s \in Requests : Owns(s, g)' <=> s \in O \/ (Waiting(g) # {} /\ s = Heir(g))
    BY <1>3, <1>4, OwnersAre
  <2>2. \A s : In(s, queue[g]) /\ (Waiting(g) # {} => s # Heir(g)) =>
          fut'[s] = fut[s] /\ WaitsAt(s)' = WaitsAt(s)
    BY <1>1, <1>3, <1>4 DEF GateOK, QueueSound
  <2>3. /\ IsFiniteSet(O) /\ busy[g] = Cardinality(O) + passing[g]
    BY <1>1 DEF GateOK, Accounted
  <2>4. Cardinality(O) \in Nat
    BY <2>3, FS_CardinalityType
  <2>5. passing'[g] \in Nat /\ busy[g] = Cardinality(O) + passing'[g] + 1
    BY <1>1, <1>2, <2>3, <2>4 DEF GateTypes
  <2>6. /\ busy'[g] = IF Waiting(g) = {} THEN busy[g] - 1 ELSE busy[g]
        /\ queue'[g] = Rest(g)
    BY <1>2
  <2>7. O \subseteq Owners(g) /\ GateOK(g)
    BY <1>1
  <2> HIDE DEF O
  <2> QED BY <1>1, <2>1, <2>2, <2>3, <2>5, <2>6, <2>7, GateReleased
<1>6. ASSUME NEW h \in Gates, h # g PROVE GateOK(h)'
  <2>1. busy'[h] = busy[h] /\ queue'[h] = queue[h] /\ passing'[h] = passing[h]
    BY <1>1, <1>2, <1>6 DEF GateTypes
  <2>2. Owners(h)' = Owners(h)
    <3>1. \A s \in Requests : Owns(s, h)' <=> Owns(s, h)
      BY <1>4, <1>6
    <3> QED BY <3>1, OwnersAre
  <2>3. QueueSound(h)'
    <3>1. ASSUME NEW s, In(s, queue[h])
          PROVE  s \in Requests /\ fut'[s] \in {"waiting", "expired"} /\ WaitsAt(s)' = h
      <4>1. s \in Requests /\ fut[s] \in {"waiting", "expired"} /\ WaitsAt(s) = h
        BY <3>1, <1>1 DEF GateOK, QueueSound
      <4>2. s \notin Heirs({g})
        BY <1>3, <1>6, <4>1
      <4> QED BY <4>1, <4>2, <1>4
    <3>2. Once(queue[h])
      BY <1>1 DEF GateOK, QueueSound
    <3> QED BY <2>1, <3>1, <3>2 DEF QueueSound
  <2>4. Accounted(h)' /\ Within(h)'
    BY <1>1, <2>1, <2>2 DEF GateOK, Accounted, Within
  <2> QED BY <2>3, <2>4 DEF GateOK
<1>7. GateTypes'
  <2>1. busy' \in [Gates -> Nat] /\ queue' \in [Gates -> Seq(Requests)]
    BY <1>1, <1>2, <1>5 DEF GateTypes
  <2>2. passing' \in [Gates -> Nat]
    BY <1>1, <1>2 DEF GateTypes
  <2>3. fut' \in [Requests -> Futures]
    BY <1>1, <1>2 DEF GateTypes, Futures
  <2> QED BY <2>1, <2>2, <2>3 DEF GateTypes
<1>8. Waits'
  BY <1>1, <1>2, <1>3 DEF Waits
<1>9. KeyTypes' /\ OneKey' /\ \A u \in Users : Counted(u)'
  BY <1>1, <1>2 DEF KeyTypes, OneKey, Counted, UnderWayOf
<1> QED BY <1>5, <1>6, <1>7, <1>8, <1>9 DEF GatesInv, Core

\* The slots of a request at work, or about to be told of one
LEMMA WhatItOwns ==
  ASSUME GatesInv, NEW r \in Requests
  PROVE  /\ at[r] \in Working => fut[r] = "none" /\ \A g : Owns(r, g) <=> g \in {mine[r], Model}
         /\ at[r] \in {"user", "model"} => fut[r] # "none" /\ WaitsAt(r) \in Gates
         /\ at[r] \notin {"new", "done"} => mine[r] \in Gates
         /\ fut[r] # "handed" => \A g : Owns(r, g) <=> g \in Back(r)
<1>1. Waits /\ OneKey /\ KeyTypes /\ GateTypes
  BY DEF GatesInv, Core
<1>2. at[r] \in Working => fut[r] = "none"
  BY <1>1 DEF Waits, Working
<1>3. at[r] \notin {"new", "done"} => mine[r] \in Requests /\ mine[r] \in Gates
  BY <1>1 DEF OneKey, Gates
<1>4. at[r] \in {"user", "model"} => fut[r] # "none" /\ WaitsAt(r) \in Gates
  BY <1>1, <1>3 DEF Waits, WaitsAt, Gates
<1>5. at[r] \in Working => \A g : Owns(r, g) <=> g \in {mine[r], Model}
  BY <1>2 DEF Owns, Working
<1>6. Holds(r) = IF at[r] = "model" THEN {mine[r]}
                 ELSE IF at[r] \in Working THEN {mine[r], Model} ELSE {}
  BY DEF Holds, Working
<1>7. fut[r] # "handed" => \A g : Owns(r, g) <=> g \in Back(r)
  BY <1>6 DEF Owns, Back, Working
<1> QED BY <1>2, <1>3, <1>4, <1>5, <1>7

\* A request at work goes on to its next stage
LEMMA WorkKeepsInv ==
  ASSUME GatesInv, NEW r \in Requests, at[r] \in Working, NEW x \in Working,
         at' = [at EXCEPT ![r] = x],
         UNCHANGED <<busy, queue, fut, passing, current, refs, mine>>
  PROVE  GatesInv'
<1>1. /\ GateTypes /\ KeyTypes /\ Waits /\ OneKey
      /\ (\A h \in Gates : GateOK(h)) /\ (\A u \in Users : Counted(u))
  BY DEF GatesInv, Core
<1>2. x \in Stages /\ at[r] \notin {"new", "done"} /\ x \notin {"new", "done"}
  BY DEF Working, Stages
<1>3. OneKey' /\ (\A u \in Users : Counted(u)') /\ KeyTypes'
  BY <1>1, <1>2, KeyStays
<1>4. at'[r] = x /\ Frame(r) /\ fut'[r] = "none" /\ mine'[r] = mine[r]
  BY <1>1, WhatItOwns DEF KeyTypes, Frame
<1>5. \A h : Owns(r, h)' <=> h \in {mine[r], Model}
  BY <1>4 DEF Owns, Working
<1>6. ASSUME NEW h \in Gates PROVE GateOK(h)'
  <2>1. Owns(r, h)' <=> Owns(r, h)
    BY <1>5, WhatItOwns
  <2>2. ~ In(r, queue[h])
    BY WhatItOwns, WhereItQueues
  <2> QED BY <1>1, <1>4, <2>1, <2>2, GateKept
<1>7. GateTypes'
  BY <1>1 DEF GateTypes
<1>8. Waits'
  BY <1>1, <1>4 DEF Waits, Frame, Working
<1> QED BY <1>3, <1>6, <1>7, <1>8 DEF GatesInv, Core

\* A request that queues nowhere is answered
LEMMA AnswerKeepsInv ==
  ASSUME GatesInv, NEW r \in Requests, at[r] \notin {"new", "done"}, fut[r] \in {"none", "granted"},
         NEW G \in SUBSET Gates, \A g \in Gates : g \in G <=> Owns(r, g),
         Answered(r, G, queue), passing' = passing, mine' = mine
  PROVE  GatesInv'
<1>1. queue \in [Gates -> Seq(Requests)] /\ \A g \in Gates : GateOK(g)
  BY DEF GatesInv, Core, GateTypes
<1>2. \A g \in Gates : /\ Once(queue[g]) /\ ~ In(r, queue[g])
                       /\ \A s : In(s, queue[g]) => In(s, queue[g])
  BY <1>1, WhereItQueues DEF GateOK, QueueSound
<1> QED BY <1>1, <1>2, AnsweredKeepsInv

LEMMA GiveUpKeepsInv == ASSUME GatesInv, NEW r \in Requests, GiveUp(r) PROVE GatesInv'
<1> DEFINE w == WaitsAt(r)
           q == [queue EXCEPT ![w] = Without(@, r)]
<1>1. /\ fut[r] \in {"expired", "granted"} /\ Answered(r, Back(r), q)
      /\ passing' = passing /\ mine' = mine
  BY DEF GiveUp
<1>2. Waits /\ OneKey /\ GateTypes /\ \A g \in Gates : GateOK(g)
  BY DEF GatesInv, Core
<1>3. at[r] \in {"user", "model"} /\ at[r] \notin {"new", "done"}
  BY <1>1, <1>2 DEF Waits
<1>4. w \in Gates /\ \A g : Owns(r, g) <=> g \in Back(r)
  BY <1>1, <1>3, WhatItOwns
<1>5. Back(r) \in SUBSET Gates
  BY <1>3, <1>4, WhatItOwns DEF Back, Holds, Working
<1>6. queue[w] \in Seq(Requests) /\ Once(queue[w])
  BY <1>2, <1>4 DEF GateTypes, GateOK, QueueSound
<1>7. /\ Without(queue[w], r) \in Seq(Requests) /\ Once(Without(queue[w], r))
      /\ ~ In(r, Without(queue[w], r))
      /\ \A s : In(s, Without(queue[w], r)) => In(s, queue[w])
  BY <1>6, WithoutLemma
<1>8. /\ q \in [Gates -> Seq(Requests)] /\ q[w] = Without(queue[w], r)
      /\ \A g \in Gates : g # w => q[g] = queue[g]
  BY <1>2, <1>4, <1>7 DEF GateTypes
<1> HIDE DEF q
<1>9. ASSUME NEW g \in Gates
      PROVE  Once(q[g]) /\ ~ In(r, q[g]) /\ \A s : In(s, q[g]) => In(s, queue[g])
  <2>1. CASE g = w
    BY <1>7, <1>8, <2>1
  <2>2. CASE g # w
    <3>1. ~ In(r, queue[g])
      BY <2>2, WhereItQueues
    <3> QED BY <1>2, <1>8, <2>2, <3>1 DEF GateOK, QueueSound
  <2> QED BY <2>1, <2>2
<1> QED BY <1>1, <1>3, <1>4, <1>5, <1>8, <1>9, AnsweredKeepsInv

LEMMA ResumeKeepsInv == ASSUME GatesInv, NEW r \in Requests, Resume(r) PROVE GatesInv'
<1>1. /\ GateTypes /\ KeyTypes /\ Waits /\ OneKey /\ Core
      /\ (\A h \in Gates : GateOK(h)) /\ (\A u \in Users : Counted(u))
  BY DEF GatesInv, Core
<1>2. /\ fut[r] = "granted" /\ passing' = passing /\ mine' = mine
      /\ at[r] \in {"user", "model"}
  BY DEF Resume
<1>3. mine[r] \in Requests /\ mine[r] \in Gates /\ Model \in Gates
  BY <1>1, <1>2 DEF OneKey, Gates
<1>4. CASE at[r] = "user" /\ AsksModel(r, busy) /\ UNCHANGED keyVars
  <2>1. PICK u \in Requests : u = mine[r]
    BY <1>3
  <2>2. mine'[r] = u /\ \A s \in Requests \ {r} : mine'[s] = mine[s]
    BY <1>2, <2>1
  <2>3. /\ (\A g \in Gates : GateOK(g)') /\ GateTypes' /\ Waits'
        /\ \E x \in Stages \ {"new", "done"} : at' = [at EXCEPT ![r] = x]
    BY <1>2, <1>4, <2>1, <2>2, AsksKeepsGates
  <2>4. UNCHANGED <<current, refs, mine>> /\ at[r] \notin {"new", "done"}
    BY <1>2, <1>4 DEF keyVars
  <2>5. OneKey' /\ (\A u_1 \in Users : Counted(u_1)') /\ KeyTypes'
    BY <1>1, <2>3, <2>4, KeyStays
  <2> QED BY <2>3, <2>5 DEF GatesInv, Core
<1>5. CASE at[r] = "user" /\ Answered(r, {mine[r]}, queue)
  <2>1. \A g \in Gates : g \in {mine[r]} <=> Owns(r, g)
    BY <1>2, <1>5 DEF Owns, WaitsAt, Working
  <2> QED BY <1>2, <1>3, <1>5, <2>1, AnswerKeepsInv
<1>6. CASE /\ at[r] = "model" /\ fut' = [fut EXCEPT ![r] = "none"]
           /\ at' = [at EXCEPT ![r] = Meter(r)] /\ UNCHANGED <<busy, queue, keyVars>>
  <2>1. Meter(r) \in Working /\ Meter(r) \in Stages /\ Meter(r) \notin {"new", "done"}
    BY MeterWorks DEF Working, Stages
  <2>2. UNCHANGED <<current, refs, mine>> /\ at[r] \notin {"new", "done"}
    BY <1>2, <1>6 DEF keyVars
  <2>3. OneKey' /\ (\A u \in Users : Counted(u)') /\ KeyTypes'
    BY <1>1, <1>6, <2>1, <2>2, KeyStays
  <2>4. at'[r] = Meter(r) /\ fut'[r] = "none" /\ Frame(r)
    BY <1>1, <1>2, <1>6 DEF GateTypes, KeyTypes, Frame
  <2>5. \A h : Owns(r, h)' <=> Owns(r, h)
    <3>1. \A h : Owns(r, h) <=> h \in {mine[r], Model}
      BY <1>2, <1>6 DEF Owns, WaitsAt, Working
    <3>2. \A h : Owns(r, h)' <=> h \in {mine[r], Model}
      BY <1>2, <2>1, <2>4 DEF Owns, WaitsAt, Working
    <3> QED BY <3>1, <3>2
  <2>6. \A h \in Gates : ~ In(r, queue[h])
    BY <1>2, WhereItQueues
  <2>7. ASSUME NEW h \in Gates PROVE GateOK(h)'
    BY <1>1, <1>2, <1>6, <2>4, <2>5, <2>6, GateKept
  <2>8. GateTypes'
    BY <1>1, <1>2, <1>6 DEF GateTypes, Futures
  <2>9. Waits'
    BY <1>1, <2>1, <2>4 DEF Waits, Frame, Working
  <2> QED BY <2>3, <2>7, <2>8, <2>9 DEF GatesInv, Core
<1> QED BY <1>4, <1>5, <1>6 DEF Resume

LEMMA RecordKeepsInv ==
  ASSUME GatesInv, NEW r \in Requests, Record(r) \/ Reread(r)
  PROVE  GatesInv'
<1>1. /\ at[r] \in Working
      /\ \E x \in {"reread", "refund", "call"} : at' = [at EXCEPT ![r] = x]
      /\ UNCHANGED <<busy, queue, fut, passing, current, refs, mine>>
  BY DEF Record, Reread, gateVars, keyVars, Working
<1>2. {"reread", "refund", "call"} \subseteq Working
  BY DEF Working
<1> QED BY <1>1, <1>2, WorkKeepsInv

\* A request at work, answered
LEMMA FinishKeepsInv ==
  ASSUME GatesInv, NEW r \in Requests, at[r] \in Working, Answered(r, {mine[r], Model}, queue),
         passing' = passing, mine' = mine
  PROVE  GatesInv'
<1>1. /\ at[r] \notin {"new", "done"} /\ fut[r] = "none" /\ mine[r] \in Gates /\ Model \in Gates
      /\ \A g \in Gates : g \in {mine[r], Model} <=> Owns(r, g)
  BY WhatItOwns DEF Working, Gates
<1> QED BY <1>1, AnswerKeepsInv

LEMMA CallKeepsInv ==
  ASSUME GatesInv, NEW r \in Requests, NEW ok \in BOOLEAN, Call(r, ok)
  PROVE  GatesInv'
<1>1. /\ at[r] = "call" /\ passing' = passing /\ mine' = mine
      /\ \/ /\ at' = [at EXCEPT ![r] = "refund"]
            /\ UNCHANGED <<busy, queue, fut, keyVars>>
         \/ Answered(r, {mine[r], Model}, queue)
  BY Zenon DEF Call
<1>2. at[r] \in Working /\ "refund" \in Working
  BY <1>1 DEF Working
<1>3. CASE /\ at' = [at EXCEPT ![r] = "refund"] /\ UNCHANGED <<busy, queue, fut, keyVars>>
  <2>1. UNCHANGED <<busy, queue, fut, passing, current, refs, mine>>
    BY <1>1, <1>3 DEF keyVars
  <2> QED BY <1>2, <1>3, <2>1, WorkKeepsInv
<1>4. CASE Answered(r, {mine[r], Model}, queue)
  BY <1>1, <1>2, <1>4, FinishKeepsInv
<1> QED BY <1>1, <1>3, <1>4

LEMMA RefundKeepsInv == ASSUME GatesInv, NEW r \in Requests, Refund(r) PROVE GatesInv'
<1>1. /\ at[r] \in Working /\ Answered(r, {mine[r], Model}, queue)
      /\ passing' = passing /\ mine' = mine
  BY DEF Refund, Working
<1> QED BY <1>1, FinishKeepsInv

LEMMA RestKeepsInv ==
  ASSUME GatesInv, UNCHANGED <<busy, queue, fut, passing, current, refs, at, mine>>
  PROVE  GatesInv'
<1>1. \A g : Owners(g)' = Owners(g)
  BY DEF Owners, Holds, WaitsAt
<1>2. GateTypes /\ KeyTypes /\ Waits /\ OneKey
  BY DEF GatesInv, Core
<1>3. GateTypes' /\ KeyTypes' /\ Waits' /\ OneKey'
  BY <1>2 DEF GateTypes, KeyTypes, Waits, OneKey
<1>4. ASSUME NEW g \in Gates PROVE GateOK(g)'
  BY <1>1 DEF GatesInv, GateOK, QueueSound, Accounted, Within, WaitsAt
<1>5. ASSUME NEW u \in Users PROVE Counted(u)'
  BY DEF GatesInv, Counted, UnderWayOf
<1> QED BY <1>3, <1>4, <1>5 DEF GatesInv, Core

-----------------------------------------------------------------------------
(* The values of the meter *)

LEMMA UsageType ==
  ASSUME MeterTypes, NEW u \in Users, NEW n \in Nat
  PROVE  /\ usage[u][day] \in Nat
         /\ [usage EXCEPT ![u][day] = n] \in [Users -> [Days -> Nat]]
<1>1. usage[u] \in [Days -> Nat] /\ day \in Days
  BY DEF MeterTypes
<1>2. [usage[u] EXCEPT ![day] = n] \in [Days -> Nat]
  BY <1>1
<1>3. [usage EXCEPT ![u] = [usage[u] EXCEPT ![day] = n]] \in [Users -> [Days -> Nat]]
  BY <1>2 DEF MeterTypes
<1> QED BY <1>1, <1>3

LEMMA MetersType ==
  ASSUME FlagTypes, NEW r \in Requests, Meters(r)
  PROVE  FlagTypes'
<1>1. Metered(r) \in BOOLEAN
  BY Zenon DEF Metered
<1> QED BY <1>1, Zenon DEF FlagTypes, Meters

LEMMA FlagStep == ASSUME FlagTypes, [WorkNext]_workVars PROVE FlagTypes'
<1>1. CASE UNCHANGED <<metered, fresh>>
  BY <1>1, Zenon DEF FlagTypes
<1>2. ASSUME NEW r \in Requests, Meters(r) PROVE FlagTypes'
  BY <1>2, MetersType
<1>3. ASSUME NEW u \in Users, Evict(u) PROVE FlagTypes'
  BY <1>3, Zenon DEF Evict, FlagTypes
<1>4. ASSUME NEW r \in Requests, Arrive(r) PROVE FlagTypes'
  BY <1>1, <1>2, <1>4 DEF Arrive, AsksModel, meterVars
<1>5. ASSUME NEW r \in Requests, Resume(r) PROVE FlagTypes'
  BY <1>1, <1>2, <1>5 DEF Resume, AsksModel, meterVars
<1>6. ASSUME NEW r \in Requests, NEW ok \in BOOLEAN, Call(r, ok) PROVE FlagTypes'
  BY <1>1, <1>6 DEF Call
<1>7. ASSUME NEW r \in Requests,
             Grant(r) \/ GiveUp(r) \/ Record(r) \/ Reread(r) \/ Refund(r) \/ Expire(r)
      PROVE  FlagTypes'
  BY <1>1, <1>7 DEF Grant, GiveUp, Record, Reread, Refund, Expire, meterVars
<1>8. ASSUME NEW g \in Gates, PassOn(g) PROVE FlagTypes'
  BY <1>1, <1>8 DEF PassOn, meterVars
<1>9. ASSUME Midnight PROVE FlagTypes'
  BY <1>1, <1>9 DEF Midnight
<1>10. ASSUME UNCHANGED workVars PROVE FlagTypes'
  BY <1>1, <1>10 DEF workVars, meterVars
<1> QED BY <1>3, <1>4, <1>5, <1>6, <1>7, <1>8, <1>9, <1>10 DEF WorkNext, Serve

LEMMA MeterStep == ASSUME MeterTypes, [WorkNext]_workVars PROVE MeterTypes'
<1> USE GateAssumption
<1>1. CASE UNCHANGED <<session, day, usage, served>>
  BY <1>1 DEF MeterTypes
<1>2. ASSUME NEW r \in Requests, Arrive(r) PROVE MeterTypes'
  BY <1>1, <1>2 DEF Arrive, AsksModel, Meters, meterVars
<1>3. ASSUME NEW r \in Requests, Resume(r) PROVE MeterTypes'
  BY <1>1, <1>3 DEF Resume, AsksModel, Meters, meterVars
<1>4. ASSUME NEW r \in Requests, Grant(r) \/ GiveUp(r) \/ Reread(r) \/ Expire(r)
      PROVE  MeterTypes'
  BY <1>1, <1>4 DEF Grant, GiveUp, Reread, Expire, meterVars
<1>5. ASSUME NEW g \in Gates, PassOn(g) PROVE MeterTypes'
  BY <1>1, <1>5 DEF PassOn, meterVars
<1>6. ASSUME NEW r \in Requests, Record(r) PROVE MeterTypes'
  <2> DEFINE u == UserOf[r]
  <2>1. u \in Users /\ usage' = [usage EXCEPT ![u][day] = usage[u][day] + 1]
        /\ UNCHANGED <<session, day, served>>
    BY <1>6 DEF Record
  <2>2. usage[u][day] + 1 \in Nat
    BY <2>1, UsageType
  <2> HIDE DEF u
  <2>3. usage' \in [Users -> [Days -> Nat]]
    BY <2>1, <2>2, UsageType
  <2> QED BY <2>1, <2>3 DEF MeterTypes
<1>7. ASSUME NEW r \in Requests, Refund(r) PROVE MeterTypes'
  <2> DEFINE u == UserOf[r]
  <2>1. u \in Users /\ usage' = [usage EXCEPT ![u][day] = Refunded(usage[u][day])]
        /\ UNCHANGED <<session, day, served>>
    BY <1>7 DEF Refund
  <2>2. usage[u][day] \in Nat
    BY <2>1, UsageType
  <2>3. Refunded(usage[u][day]) \in Nat
    BY <2>2 DEF Refunded
  <2> HIDE DEF u
  <2>4. usage' \in [Users -> [Days -> Nat]]
    BY <2>1, <2>3, UsageType
  <2> QED BY <2>1, <2>4 DEF MeterTypes
<1>8. ASSUME NEW r \in Requests, NEW ok \in BOOLEAN, Call(r, ok) PROVE MeterTypes'
  <2> DEFINE S == {"none", "new", "hand", "lapsed"}
             u == UserOf[r]
  <2>1. /\ \E t \in (IF ok THEN {After(KindOf[r], session[u])}
                     ELSE {IF session[u] = "none" THEN "new" ELSE session[u],
                           After(KindOf[r], session[u])}) :
             session' = [session EXCEPT ![u] = t]
        /\ \E n \in {served[u], served[u] + 1} : served' = [served EXCEPT ![u] = n]
        /\ UNCHANGED <<day, usage>>
    BY <1>8 DEF Call
  <2>2. u \in Users /\ session[u] \in S /\ served[u] \in Nat
    BY DEF MeterTypes
  <2>3. After(KindOf[r], session[u]) \in S
    BY DEF After
  <2>4. session' \in [Users -> S]
    BY <2>1, <2>2, <2>3 DEF MeterTypes
  <2>5. served' \in [Users -> Nat]
    BY <2>1, <2>2 DEF MeterTypes
  <2> QED BY <2>1, <2>4, <2>5 DEF MeterTypes
<1>9. ASSUME Midnight PROVE MeterTypes'
  BY <1>9 DEF Midnight, MeterTypes, Days
<1>10. ASSUME NEW u \in Users, Evict(u) PROVE MeterTypes'
  BY <1>10 DEF Evict, MeterTypes
<1>11. ASSUME UNCHANGED workVars PROVE MeterTypes'
  BY <1>1, <1>11 DEF workVars, meterVars
<1> QED BY <1>2, <1>3, <1>4, <1>5, <1>6, <1>7, <1>8, <1>9, <1>10, <1>11 DEF WorkNext, Serve

-----------------------------------------------------------------------------
(* The invariant holds *)

LEMMA InitInv == WorkInit => WorkInv
<1> SUFFICES ASSUME WorkInit PROVE WorkInv
  OBVIOUS
<1>1. /\ busy = [g \in Gates |-> 0] /\ queue = [g \in Gates |-> <<>>]
      /\ fut = [r \in Requests |-> "none"] /\ passing = [g \in Gates |-> 0]
      /\ current = [u \in Users |-> Nobody] /\ refs = [u \in Users |-> 0]
      /\ at = [r \in Requests |-> "new"] /\ mine = [r \in Requests |-> Nobody]
  BY DEF WorkInit
<1>2. GateTypes /\ KeyTypes
  BY <1>1 DEF GateTypes, KeyTypes, Futures, Stages
<1>3. Waits /\ OneKey
  BY <1>1 DEF Waits, OneKey
<1>4. ASSUME NEW u \in Users PROVE Counted(u)
  <2>1. UnderWayOf(u) = {} /\ refs[u] = 0
    BY <1>1 DEF UnderWayOf
  <2> QED BY <2>1, FS_EmptySet DEF Counted
<1>5. ASSUME NEW g \in Gates PROVE GateOK(g)
  <2>1. \A r \in Requests : ~ Owns(r, g)
    BY <1>1 DEF Owns, Working
  <2>2. Owners(g) = {}
    BY <2>1, OwnersAre
  <2>3. busy[g] = 0 /\ passing[g] = 0 /\ queue[g] = <<>>
    BY <1>1
  <2>4. Accounted(g)
    BY <2>2, <2>3, FS_EmptySet DEF Accounted
  <2>5. QueueSound(g)
    BY <2>3 DEF QueueSound, Once, In
  <2>6. Within(g)
    BY <2>3, GateAssumption DEF Within, Slots
  <2> QED BY <2>4, <2>5, <2>6 DEF GateOK
<1>6. MeterTypes
  BY GateAssumption DEF WorkInit, MeterTypes, Days
<1>7. FlagTypes
  BY Zenon DEF WorkInit, FlagTypes
<1> QED BY <1>2, <1>3, <1>4, <1>5, <1>6, <1>7 DEF WorkInv, GatesInv, Core

LEMMA StepInv == WorkInv /\ [WorkNext]_workVars => WorkInv'
<1> SUFFICES ASSUME WorkInv, [WorkNext]_workVars PROVE WorkInv'
  OBVIOUS
<1>1. GatesInv /\ MeterTypes /\ FlagTypes
  BY DEF WorkInv
<1>2. GatesInv'
  <2>1. ASSUME NEW r \in Requests, Arrive(r) PROVE GatesInv'
    BY <1>1, <2>1, ArriveKeepsInv
  <2>2. ASSUME NEW r \in Requests, Serve(r) PROVE GatesInv'
    BY <1>1, <2>2, GrantKeepsInv, GiveUpKeepsInv, ResumeKeepsInv, RecordKeepsInv,
       RefundKeepsInv, CallKeepsInv DEF Serve
  <2>3. ASSUME NEW r \in Requests, Expire(r) PROVE GatesInv'
    BY <1>1, <2>3, ExpireKeepsInv
  <2>4. ASSUME NEW g \in Gates, PassOn(g) PROVE GatesInv'
    BY <1>1, <2>4, PassOnKeepsInv
  <2>5. ASSUME Midnight \/ (\E u \in Users : Evict(u)) \/ UNCHANGED workVars PROVE GatesInv'
    BY <1>1, <2>5, RestKeepsInv DEF Midnight, Evict, workVars, gateVars, keyVars
  <2> QED BY <2>1, <2>2, <2>3, <2>4, <2>5 DEF WorkNext
<1>3. MeterTypes'
  BY <1>1, MeterStep
<1>4. FlagTypes'
  BY <1>1, FlagStep
<1> QED BY <1>2, <1>3, <1>4 DEF WorkInv

LEMMA InvAlways == WorkSpec => []WorkInv
<1>1. WorkInit => WorkInv
  BY InitInv
<1>2. WorkInv /\ [WorkNext]_workVars => WorkInv'
  BY StepInv
<1> QED BY <1>1, <1>2, PTL DEF WorkSpec

LEMMA Soundness == WorkInv => GatesAreSound
<1> SUFFICES ASSUME WorkInv PROVE GatesAreSound
  OBVIOUS
<1>1. /\ GateTypes /\ KeyTypes /\ MeterTypes /\ FlagTypes /\ \A g \in Gates : GateOK(g)
  BY DEF WorkInv, GatesInv, Core
<1>2. \A g \in Gates : busy[g] <= Slots(g)
  BY <1>1 DEF GateOK, Within
<1>3. WorkTypeOK
  BY <1>1, <1>2, Zenon DEF WorkTypeOK, GateTypes, KeyTypes, MeterTypes, FlagTypes, Futures
<1>4. SlotsAccounted /\ NobodyForgotten
  BY <1>1 DEF SlotsAccounted, NobodyForgotten, GateOK, Accounted, Within
<1> QED BY <1>3, <1>4 DEF GatesAreSound

LEMMA Alone == WorkInv => OneAtATime
<1> SUFFICES ASSUME WorkInv, NEW r \in Requests, NEW s \in Requests, r # s,
                    UserOf[r] = UserOf[s], Inside(r), Inside(s)
             PROVE  FALSE
  BY DEF OneAtATime
<1>1. /\ GateTypes /\ OneKey /\ \A g \in Gates : GateOK(g)
  BY DEF WorkInv, GatesInv, Core
<1>2. PICK g \in Requests : g = mine[r] /\ g = mine[s]
  BY <1>1 DEF OneKey, Inside, Working
<1>3. g \in Gates /\ Slots(g) = 1
  BY NamesAssumption DEF Gates, Slots
<1>4. r \in Owners(g) /\ s \in Owners(g)
  BY <1>2, OwnersAre DEF Owns, Inside
<1>5. IsFiniteSet(Owners(g)) /\ busy[g] = Cardinality(Owners(g)) + passing[g] /\ busy[g] <= 1
  BY <1>1, <1>3 DEF GateOK, Accounted, Within
<1>6. Cardinality({r} \cup {s}) = 2
  <2>1. IsFiniteSet({r}) /\ Cardinality({r}) = 1 /\ s \notin {r}
    BY FS_Singleton
  <2> QED BY <2>1, FS_AddElement
<1>7. Cardinality({r} \cup {s}) <= Cardinality(Owners(g))
  BY <1>4, <1>5, FS_Subset
<1>8. Cardinality(Owners(g)) \in Nat /\ passing[g] \in Nat
  BY <1>1, <1>3, <1>5, FS_CardinalityType DEF GateTypes
<1> DEFINE owners == Cardinality(Owners(g))
<1>9. owners >= 2
  BY <1>6, <1>7, <1>8
<1>10. owners \in Nat /\ passing[g] \in Nat /\ owners + passing[g] <= 1
  BY <1>5, <1>8
<1> HIDE DEF owners
<1> QED BY <1>9, <1>10

-----------------------------------------------------------------------------
(* The meter: what a user is charged, answered and owed, and how far its     *)
(* metered request has come                                                  *)

\* A request is counted from its record on, until it is answered or taken back
Phases == {"idle", "reread", "call", "refund"}
Phase(r) == IF metered[r] /\ at[r] \in {"reread", "call", "refund"} THEN at[r] ELSE "idle"

\* p is the phase of the one request of a user that can have one
InPhase(u, p) ==
  /\ \A r \in Requests : UserOf[r] = u => Phase(r) \in {"idle", p}
  /\ p # "idle" => \E r \in Requests : UserOf[r] = u /\ Phase(r) = p

\* What is charged beyond the hands answered and under way: one hand for each
\* midnight at most, and one less as long as a refund would find nothing
Excess(u, p) == Charged(u) - served[u] - (IF p = "idle" THEN 0 ELSE 1)
Balanced(u, p) ==
  /\ Excess(u, p) \in 0 .. day
  /\ p # "idle" /\ usage[u][day] = 0 => Excess(u, p) < day

\* The allowance of the days so far, and a hand for each midnight
Limit == Allowance * (day + 1) + day
Limited(u, p) ==
  /\ \A d \in Days : usage[u][d] <= Allowance + 1
  /\ p \in {"idle", "call"} => usage[u][day] <= Allowance
  /\ served[u] + (IF p = "call" THEN 1 ELSE 0) <= Limit

Books(u, p) == InPhase(u, p) /\ Balanced(u, p) /\ (u \in Free => Limited(u, p))

CountedIsMetered ==
  \A r \in Requests : at[r] \in {"record", "reread", "refund"} => metered[r]
NothingAhead == \A u \in Users : \A d \in Days : d > day => usage[u][d] = 0
MeterInv ==
  CountedIsMetered /\ NothingAhead /\ \A u \in Users : \E p \in Phases : Books(u, p)

LEMMA ChargedIs ==
  ASSUME MeterTypes, NEW u \in Users
  PROVE  /\ usage[u] \in [Days -> Nat] /\ usage[u] \in [Days -> Int] /\ IsFiniteSet(Days)
         /\ Charged(u) = Total(usage[u]) /\ Charged(u) \in Int
<1>1. usage[u] \in [Days -> Nat]
  BY DEF MeterTypes
<1>2. usage[u] \in [Days -> Int]
  BY <1>1
<1>3. IsFiniteSet(Days)
  BY GateAssumption, FS_Interval DEF Days
<1>4. Charged(u) = Total(usage[u])
  BY DEF Charged, Total
<1>5. QED
  BY <1>1, <1>2, <1>3, <1>4, TotalType

\* A free user whose counts are in order is charged no more than the limit
LEMMA ChargedWithin ==
  ASSUME MeterTypes, NothingAhead, NEW u \in Users,
         \A d \in Days : usage[u][d] <= Allowance + 1, usage[u][day] <= Allowance
  PROVE  Charged(u) <= Limit
<1> DEFINE upto == [d \in Days |-> IF d \in 0 .. day THEN 1 ELSE 0]
           past == [d \in Days |-> IF d \in 0 .. day - 1 THEN 1 ELSE 0]
           each == [d \in Days |-> Allowance * upto[d]]
           cap == [d \in Days |-> each[d] + past[d]]
<1>1. /\ usage[u] \in [Days -> Nat] /\ usage[u] \in [Days -> Int] /\ IsFiniteSet(Days)
      /\ Charged(u) = Total(usage[u])
  BY ChargedIs
<1>2. day \in Nat /\ day \in Days /\ Allowance \in Nat /\ day <= MaxDay /\ MaxDay \in Nat
  BY GateAssumption DEF MeterTypes, Days
<1>3. 0 .. day \in SUBSET Days /\ 0 .. day - 1 \in SUBSET Days /\ Days \subseteq Nat
  BY <1>2 DEF Days
<1>4. upto \in [Days -> Int] /\ past \in [Days -> Int]
  OBVIOUS
<1>5. Marks(upto, 0 .. day, Days) /\ Marks(past, 0 .. day - 1, Days)
  BY <1>3, <1>4 DEF Marks
<1>6. \A d \in Days : upto[d] = IF d <= day THEN 1 ELSE 0
  BY <1>2, <1>3
<1>7. \A d \in Days : past[d] = IF d < day THEN 1 ELSE 0
  BY <1>2, <1>3
<1> HIDE DEF upto, past
<1>8. each \in [Days -> Int] /\ \A d \in Days : each[d] = IF d <= day THEN Allowance ELSE 0
  BY <1>2, <1>4, <1>6
<1>9. Times(each, Allowance, upto, Days)
  BY <1>2, <1>4, <1>8 DEF Times
<1> HIDE DEF each
<1>10. cap \in [Days -> Int]
       /\ \A d \in Days : cap[d] = (IF d <= day THEN Allowance ELSE 0) + (IF d < day THEN 1 ELSE 0)
  BY <1>2, <1>4, <1>7, <1>8
<1>11. Adds(cap, each, past, Days)
  BY <1>4, <1>8, <1>10 DEF Adds
<1> HIDE DEF cap
<1>12. \A d \in Days : usage[u][d] <= cap[d]
  <2> SUFFICES ASSUME NEW d \in Days PROVE usage[u][d] <= cap[d]
    OBVIOUS
  <2>1. d \in Nat /\ usage[u][d] \in Nat /\ usage[u][d] <= Allowance + 1
    BY <1>1, <1>3
  <2>2. CASE d < day
    BY <1>2, <1>10, <2>1, <2>2
  <2>3. CASE d = day
    BY <1>2, <1>10, <2>1, <2>3
  <2>4. CASE d > day
    <3>1. usage[u][d] = 0
      BY <2>4 DEF NothingAhead
    <3>2. QED
      BY <1>2, <1>10, <2>1, <2>4, <3>1
  <2>5. QED
    BY <1>2, <2>1, <2>2, <2>3, <2>4
<1>13. NoMore(usage[u], cap, Days)
  BY <1>1, <1>10, <1>12 DEF NoMore
<1>14. Total(usage[u]) <= Total(cap)
  BY <1>1, <1>13, TotalNoMore
<1>15. Total(cap) = Total(each) + Total(past) /\ Total(each) = Allowance * Total(upto)
  BY <1>1, <1>9, <1>11, TotalAdds, TotalTimes
<1>16. Total(upto) = day + 1 /\ Total(past) = day
  <2>1. Total(upto) = Cardinality(0 .. day) /\ Total(past) = Cardinality(0 .. day - 1)
    BY <1>1, <1>5, TotalMarks
  <2>2. Cardinality(0 .. (day + 1) - 1) = day + 1 /\ Cardinality(0 .. day - 1) = day
    BY <1>2, RangeSize
  <2>3. (day + 1) - 1 = day
    BY <1>2
  <2>4. QED
    BY <2>1, <2>2, <2>3
<1>17. Total(cap) = Limit
  BY <1>15, <1>16 DEF Limit
<1>18. QED
  BY <1>1, <1>14, <1>17

-----------------------------------------------------------------------------
(* Phases *)

LEMMA PhaseType == \A r \in Requests : Phase(r) \in Phases
BY DEF Phase, Phases

\* While a request works, no other of its user has a phase
LEMMA OthersIdle ==
  ASSUME WorkInv, NEW r \in Requests, at[r] \in Working
  PROVE  \A s \in Requests : s # r /\ UserOf[s] = UserOf[r] => Phase(s) = "idle"
<1> SUFFICES ASSUME NEW s \in Requests, s # r, UserOf[s] = UserOf[r] PROVE Phase(s) = "idle"
  OBVIOUS
<1>1. at[s] \notin Working
  BY Alone DEF OneAtATime, Inside
<1>2. QED
  BY <1>1 DEF Phase, Working

LEMMA PhaseIs ==
  ASSUME WorkInv, NEW r \in Requests, at[r] \in Working, NEW p \in Phases, InPhase(UserOf[r], p)
  PROVE  p = Phase(r)
BY OthersIdle DEF InPhase

\* The request alone has a phase after a step that leaves the others alone
LEMMA PhaseNext ==
  ASSUME WorkInv, NEW r \in Requests, at[r] \in Working,
         \A s \in Requests \ {r} : Phase(s)' = Phase(s), NEW q \in Phases, Phase(r)' = q
  PROVE  InPhase(UserOf[r], q)'
BY OthersIdle DEF InPhase

\* A step that touches neither a user's requests' phases nor its counts
LEMMA BooksKept ==
  ASSUME NEW u \in Users, NEW p \in Phases, Books(u, p),
         \A s \in Requests : UserOf[s] = u => Phase(s)' = Phase(s),
         usage'[u] = usage[u], served'[u] = served[u], day' = day
  PROVE  Books(u, p)'
<1>1. InPhase(u, p)'
  BY DEF Books, InPhase
<1>2. Balanced(u, p)'
  BY DEF Books, Balanced, Excess, Charged
<1>3. u \in Free => Limited(u, p)'
  BY DEF Books, Limited, Limit
<1>4. QED
  BY <1>1, <1>2, <1>3 DEF Books

\* A step of a request that keeps everyone else's books
LEMMA BooksOfOthers ==
  ASSUME NEW r \in Requests, \A u \in Users : \E p \in Phases : Books(u, p),
         \A s \in Requests \ {r} : Phase(s)' = Phase(s), day' = day,
         \A u \in Users \ {UserOf[r]} : usage'[u] = usage[u] /\ served'[u] = served[u],
         \E p \in Phases : Books(UserOf[r], p)'
  PROVE  \A u \in Users : \E p \in Phases : Books(u, p)'
<1> SUFFICES ASSUME NEW u \in Users PROVE \E p \in Phases : Books(u, p)'
  OBVIOUS
<1>1. CASE u = UserOf[r]
  BY <1>1
<1>2. CASE u # UserOf[r]
  <2>1. PICK p \in Phases : Books(u, p)
    OBVIOUS
  <2>2. Books(u, p)'
    BY <1>2, <2>1, BooksKept
  <2>3. QED
    BY <2>2
<1>3. QED
  BY <1>1, <1>2

-----------------------------------------------------------------------------
(* The steps that count *)

LEMMA CountMoves ==
  ASSUME MeterTypes, NEW u \in Users, NEW v \in Nat, usage' = [usage EXCEPT ![u][day] = v]
  PROVE  /\ usage'[u][day] = v /\ \A d \in Days \ {day} : usage'[u][d] = usage[u][d]
         /\ \A w \in Users \ {u} : usage'[w] = usage[w]
         /\ Charged(u)' = Charged(u) + (v - usage[u][day]) /\ Charged(u)' \in Int
<1>1. /\ usage[u] \in [Days -> Nat] /\ usage[u] \in [Days -> Int] /\ IsFiniteSet(Days)
      /\ Charged(u) = Total(usage[u]) /\ Charged(u) \in Int
  BY ChargedIs
<1>2. day \in Days /\ DOMAIN usage = Users
  BY DEF MeterTypes
<1>3. usage'[u] = [usage[u] EXCEPT ![day] = v] /\ \A w \in Users \ {u} : usage'[w] = usage[w]
  BY <1>2
<1>4. /\ usage'[u][day] = v /\ \A d \in Days \ {day} : usage'[u][d] = usage[u][d]
      /\ usage'[u] \in [Days -> Int]
  BY <1>1, <1>2, <1>3
<1>5. Becomes(usage'[u], usage[u], day, v, Days)
  BY <1>1, <1>2, <1>4 DEF Becomes
<1>6. Total(usage'[u]) = Total(usage[u]) + (v - usage[u][day])
  BY <1>1, <1>5, TotalBecomes
<1>7. Charged(u)' = Total(usage'[u])
  BY DEF Charged, Total
<1>8. usage[u][day] \in Int
  BY <1>1, <1>2
<1>9. QED
  BY <1>1, <1>3, <1>4, <1>6, <1>7, <1>8

\* What is known of the books of a user whose request works
Known(r) ==
  /\ UserOf[r] \in Users /\ served[UserOf[r]] \in Nat /\ usage[UserOf[r]] \in [Days -> Nat]
  /\ day \in Days /\ day \in Nat /\ Allowance \in Nat /\ Limit \in Nat
  /\ Charged(UserOf[r]) \in Int
  /\ Balanced(UserOf[r], Phase(r)) /\ (UserOf[r] \in Free => Limited(UserOf[r], Phase(r)))

LEMMA WhatIsKnown ==
  ASSUME WorkInv, MeterInv, NEW r \in Requests, at[r] \in Working
  PROVE  Known(r)
<1>1. UserOf[r] \in Users
  BY GateAssumption
<1>2. PICK p \in Phases : Books(UserOf[r], p)
  BY <1>1 DEF MeterInv
<1>3. p = Phase(r)
  BY <1>2, PhaseIs DEF Books
<1>4. MeterTypes
  BY DEF WorkInv
<1>5. day \in Days /\ day \in Nat /\ Allowance \in Nat
  BY <1>4, GateAssumption DEF MeterTypes, Days
<1>6. Limit \in Nat
  BY <1>5 DEF Limit
<1>7. served[UserOf[r]] \in Nat /\ usage[UserOf[r]] \in [Days -> Nat] /\ Charged(UserOf[r]) \in Int
  BY <1>1, <1>4, ChargedIs DEF MeterTypes
<1>8. QED
  BY <1>1, <1>2, <1>3, <1>5, <1>6, <1>7 DEF Known, Books

LEMMA RecordKeepsMeter ==
  ASSUME WorkInv, MeterInv, NEW r \in Requests, Record(r)
  PROVE  MeterInv'
<1> DEFINE u == UserOf[r]
           n == usage[u][day]
<1>1. /\ at[r] = "record" /\ at' = [at EXCEPT ![r] = "reread"]
      /\ usage' = [usage EXCEPT ![u][day] = n + 1]
      /\ metered' = metered /\ day' = day /\ served' = served
  BY DEF Record, meterVars
<1>2. MeterTypes /\ at \in [Requests -> Stages] /\ at[r] \in Working
  BY <1>1 DEF WorkInv, GatesInv, Core, KeyTypes, Working
<1>3. Known(r)
  BY <1>2, WhatIsKnown
<1>4. u \in Users /\ n \in Nat /\ n + 1 \in Nat /\ day \in Days
  BY <1>3 DEF Known
<1>5. /\ usage'[u][day] = n + 1 /\ \A d \in Days \ {day} : usage'[u][d] = usage[u][d]
      /\ \A w \in Users \ {u} : usage'[w] = usage[w]
      /\ Charged(u)' = Charged(u) + ((n + 1) - n)
  BY <1>1, <1>2, <1>4, CountMoves
<1>6. /\ \A s \in Requests \ {r} : at'[s] = at[s]
      /\ at'[r] = "reread" /\ metered[r]
  BY <1>1, <1>2 DEF MeterInv, CountedIsMetered
<1>7. /\ \A s \in Requests \ {r} : Phase(s)' = Phase(s)
      /\ Phase(r)' = "reread" /\ Phase(r) = "idle"
  BY <1>1, <1>6 DEF Phase
<1>8. CountedIsMetered' /\ NothingAhead'
  <2>1. CountedIsMetered'
    BY <1>1, <1>6 DEF MeterInv, CountedIsMetered
  <2>2. ASSUME NEW w \in Users, NEW d \in Days, d > day PROVE usage'[w][d] = 0
    BY <1>4, <1>5, <2>2 DEF MeterInv, NothingAhead, Days
  <2>3. QED
    BY <1>1, <2>1, <2>2 DEF NothingAhead
<1>9. Books(u, "reread")'
  <2>1. InPhase(u, "reread")'
    BY <1>2, <1>7, PhaseNext DEF Phases
  <2>2. Balanced(u, "reread")'
    <3>1. Excess(u, "reread")' = Excess(u, "idle")
      BY <1>1, <1>3, <1>4, <1>5 DEF Excess, Known
    <3>2. Excess(u, "idle") \in 0 .. day
      BY <1>3, <1>7 DEF Known, Balanced
    <3>3. usage'[u][day] # 0
      BY <1>4, <1>5
    <3>4. QED
      BY <1>1, <3>1, <3>2, <3>3 DEF Balanced
  <2>3. ASSUME u \in Free PROVE Limited(u, "reread")'
    <3>1. Limited(u, "idle")
      BY <1>3, <1>7, <2>3 DEF Known
    <3>2. \A d \in Days : usage'[u][d] <= Allowance + 1
      <4>1. n + 1 <= Allowance + 1
        BY <1>3, <1>4, <3>1 DEF Known, Limited
      <4>2. QED
        BY <1>5, <3>1, <4>1 DEF Limited
    <3>3. served[u] + 0 <= Limit
      BY <3>1 DEF Limited
    <3>4. QED
      BY <1>1, <3>2, <3>3 DEF Limited, Limit
  <2>4. QED
    BY <2>1, <2>2, <2>3 DEF Books
<1>10. \A w \in Users : \E p \in Phases : Books(w, p)'
  <2>1. \E p \in Phases : Books(u, p)'
    BY <1>9 DEF Phases
  <2>2. QED
    BY <1>1, <1>5, <1>7, <2>1, BooksOfOthers DEF MeterInv
<1>11. QED
  BY <1>8, <1>10 DEF MeterInv

LEMMA RereadKeepsMeter ==
  ASSUME WorkInv, MeterInv, NEW r \in Requests, Reread(r)
  PROVE  MeterInv'
<1> DEFINE u == UserOf[r]
<1>1. PICK q \in {"refund", "call"} :
           at' = [at EXCEPT ![r] = q] /\ (q = "call" => ~Over(r))
  BY DEF Reread
<1>2. /\ at[r] = "reread" /\ at' = [at EXCEPT ![r] = q]
      /\ metered' = metered /\ day' = day /\ served' = served /\ usage' = usage
  BY <1>1 DEF Reread, meterVars
<1>3. MeterTypes /\ at \in [Requests -> Stages] /\ at[r] \in Working
  BY <1>2 DEF WorkInv, GatesInv, Core, KeyTypes, Working
<1>4. Known(r)
  BY <1>3, WhatIsKnown
<1>5. /\ \A s \in Requests \ {r} : at'[s] = at[s]
      /\ at'[r] = q /\ metered[r]
  BY <1>2, <1>3 DEF MeterInv, CountedIsMetered
<1>6. /\ \A s \in Requests \ {r} : Phase(s)' = Phase(s)
      /\ Phase(r)' = q /\ Phase(r) = "reread"
  BY <1>2, <1>5, <1>1 DEF Phase
<1>7. CountedIsMetered' /\ NothingAhead'
  BY <1>2, <1>5 DEF MeterInv, CountedIsMetered, NothingAhead
<1>8. Books(u, q)'
  <2>1. InPhase(u, q)'
    BY <1>3, <1>1, <1>6, PhaseNext DEF Phases
  <2>2. Balanced(u, "reread")
    BY <1>4, <1>6 DEF Known
  <2>3. Balanced(u, q)'
    BY <1>2, <1>1, <2>2 DEF Balanced, Excess, Charged
  <2>4. ASSUME u \in Free PROVE Limited(u, q)'
    <3>1. Limited(u, "reread")
      BY <1>4, <1>6, <2>4 DEF Known
    <3>2. CASE q = "refund"
      BY <1>2, <3>1, <3>2 DEF Limited, Limit
    <3>3. CASE q = "call"
      <4>1. usage[u][day] <= Allowance
        BY <1>4, <1>1, <2>4, <3>3 DEF Over, Known
      <4>2. Charged(u) <= Limit
        BY <1>3, <1>4, <3>1, <4>1, ChargedWithin DEF Known, Limited, MeterInv
      <4>3. Excess(u, "reread") >= 0
        BY <1>4, <2>2 DEF Balanced, Known
      <4>4. served[u] + 1 <= Limit
        BY <1>4, <4>2, <4>3 DEF Excess, Known
      <4>5. QED
        BY <1>2, <3>1, <3>3, <4>1, <4>4 DEF Limited, Limit
    <3>4. QED
      BY <1>1, <3>2, <3>3
  <2>5. QED
    BY <2>1, <2>3, <2>4 DEF Books
<1>9. \A w \in Users : \E p \in Phases : Books(w, p)'
  <2>1. \E p \in Phases : Books(u, p)'
    BY <1>1, <1>8 DEF Phases
  <2>2. QED
    BY <1>2, <1>6, <2>1, BooksOfOthers DEF MeterInv
<1>10. QED
  BY <1>7, <1>9 DEF MeterInv

LEMMA CallKeepsMeter ==
  ASSUME WorkInv, MeterInv, NEW r \in Requests, NEW ok \in BOOLEAN, Call(r, ok)
  PROVE  MeterInv'
<1> DEFINE u == UserOf[r]
           refunds == metered[r] /\ NoDeal(r, ok)
           answers == metered[r] /\ ~NoDeal(r, ok)
<1>1. /\ at[r] = "call" /\ metered' = metered /\ day' = day /\ usage' = usage
      /\ at' = [at EXCEPT ![r] = IF refunds THEN "refund" ELSE "done"]
  BY DEF Call, Answered
<1>2. /\ MeterTypes /\ FlagTypes /\ at \in [Requests -> Stages] /\ at[r] \in Working
      /\ served \in [Users -> Nat]
  BY <1>1 DEF WorkInv, GatesInv, Core, KeyTypes, Working, MeterTypes
<1>3. Known(r)
  BY <1>2, WhatIsKnown
<1>4. u \in Users /\ served[u] \in Nat
  BY <1>3 DEF Known
<1>5. served' = [served EXCEPT ![u] = IF answers THEN served[u] + 1 ELSE served[u]]
  <2>1. answers <=> metered[r] /\ ok /\ ~DealtByOther(r)
    BY DEF NoDeal
  <2>2. served' = [served EXCEPT ![u] = IF metered[r] /\ ok /\ ~DealtByOther(r)
                                           THEN served[u] + 1 ELSE served[u]]
    BY DEF Call
  <2> HIDE DEF answers
  <2>3. QED
    BY <2>1, <2>2
<1>6. /\ served'[u] = served[u] + (IF answers THEN 1 ELSE 0)
      /\ \A w \in Users \ {u} : served'[w] = served[w]
  BY <1>2, <1>4, <1>5
<1>7. metered[r] = TRUE \/ metered[r] = FALSE
  BY <1>2 DEF FlagTypes
<1>8. PICK q \in Phases : q = IF refunds THEN "refund" ELSE "idle"
  BY DEF Phases
<1>9. /\ \A s \in Requests \ {r} : at'[s] = at[s]
      /\ at'[r] = IF refunds THEN "refund" ELSE "done"
  BY <1>1, <1>2
<1>10. /\ \A s \in Requests \ {r} : Phase(s)' = Phase(s)
      /\ Phase(r)' = q /\ Phase(r) = IF metered[r] THEN "call" ELSE "idle"
  <2>1. \A s \in Requests \ {r} : Phase(s)' = Phase(s)
    BY <1>1, <1>9 DEF Phase
  <2>2. Phase(r) = IF metered[r] THEN "call" ELSE "idle"
    BY <1>1 DEF Phase
  <2>3. CASE refunds
    BY <1>1, <1>9, <1>8, <2>1, <2>2, <2>3 DEF Phase
  <2>4. CASE ~refunds
    BY <1>1, <1>9, <1>8, <2>1, <2>2, <2>4 DEF Phase
  <2>5. QED
    BY <2>3, <2>4
<1>11. CountedIsMetered' /\ NothingAhead'
  <2>1. ASSUME NEW s \in Requests, at'[s] \in {"record", "reread", "refund"} PROVE metered'[s]
    <3>1. CASE s = r
      BY <1>1, <1>9, <2>1, <3>1
    <3>2. CASE s # r
      BY <1>1, <1>9, <2>1, <3>2 DEF MeterInv, CountedIsMetered
    <3>3. QED
      BY <3>1, <3>2
  <2>2. NothingAhead'
    BY <1>1 DEF MeterInv, NothingAhead
  <2>3. QED
    BY <2>1, <2>2 DEF CountedIsMetered
<1>12. \/ Phase(r) = "idle" /\ q = "idle" /\ served'[u] = served[u]
       \/ Phase(r) = "call" /\ q = "refund" /\ served'[u] = served[u]
       \/ Phase(r) = "call" /\ q = "idle" /\ served'[u] = served[u] + 1
  <2>1. CASE ~metered[r]
    BY <1>4, <1>6, <1>10, <1>8, <2>1
  <2>2. CASE metered[r] /\ NoDeal(r, ok)
    BY <1>4, <1>6, <1>10, <1>8, <2>2
  <2>3. CASE metered[r] /\ ~NoDeal(r, ok)
    BY <1>4, <1>6, <1>10, <1>8, <2>3
  <2>4. QED
    BY <2>1, <2>2, <2>3
<1>13. Books(u, q)'
  <2>1. InPhase(u, q)'
    BY <1>2, <1>10, <1>8, PhaseNext
  <2>2. Balanced(u, q)'
    <3>1. Balanced(u, Phase(r))
      BY <1>3 DEF Known
    <3>2. Charged(u)' = Charged(u) /\ Charged(u) \in Int
      BY <1>1, <1>3 DEF Charged, Known
    <3>3. Excess(u, q)' = Excess(u, Phase(r))
      BY <1>4, <1>12, <3>2 DEF Excess
    <3>4. q # "idle" => Phase(r) # "idle"
      BY <1>12
    <3>5. QED
      BY <1>1, <3>1, <3>3, <3>4 DEF Balanced
  <2>3. ASSUME u \in Free PROVE Limited(u, q)'
    <3>1. Limited(u, Phase(r))
      BY <1>3, <2>3 DEF Known
    <3>2. served'[u] + (IF q = "call" THEN 1 ELSE 0) <= Limit
      BY <1>3, <1>4, <1>12, <3>1 DEF Limited, Known
    <3>3. usage[u][day] <= Allowance
      BY <1>12, <3>1 DEF Limited
    <3>4. QED
      BY <1>1, <3>1, <3>2, <3>3 DEF Limited, Limit
  <2>4. QED
    BY <2>1, <2>2, <2>3 DEF Books
<1>14. \A w \in Users : \E p \in Phases : Books(w, p)'
  <2>1. \E p \in Phases : Books(u, p)'
    BY <1>13
  <2>2. QED
    BY <1>1, <1>6, <1>10, <2>1, BooksOfOthers DEF MeterInv
<1>15. QED
  BY <1>11, <1>14 DEF MeterInv

LEMMA RefundKeepsMeter ==
  ASSUME WorkInv, MeterInv, NEW r \in Requests, Refund(r)
  PROVE  MeterInv'
<1> DEFINE u == UserOf[r]
           n == usage[u][day]
           v == Refunded(n)
<1>1. /\ at[r] = "refund" /\ at' = [at EXCEPT ![r] = "done"]
      /\ usage' = [usage EXCEPT ![u][day] = v]
      /\ metered' = metered /\ day' = day /\ served' = served
  BY DEF Refund, Answered
<1>2. MeterTypes /\ at \in [Requests -> Stages] /\ at[r] \in Working
  BY <1>1 DEF WorkInv, GatesInv, Core, KeyTypes, Working
<1>3. Known(r)
  BY <1>2, WhatIsKnown
<1>4. /\ u \in Users /\ n \in Nat /\ v \in Nat /\ day \in Days
      /\ v = IF n > 0 THEN n - 1 ELSE 0
  BY <1>3 DEF Known, Refunded
<1> HIDE DEF v
<1>5. /\ usage'[u][day] = v /\ \A d \in Days \ {day} : usage'[u][d] = usage[u][d]
      /\ \A w \in Users \ {u} : usage'[w] = usage[w]
      /\ Charged(u)' = Charged(u) + (v - n)
  BY <1>1, <1>2, <1>4, CountMoves
<1>6. /\ \A s \in Requests \ {r} : at'[s] = at[s]
      /\ at'[r] = "done" /\ metered[r]
  BY <1>1, <1>2 DEF MeterInv, CountedIsMetered
<1>7. /\ \A s \in Requests \ {r} : Phase(s)' = Phase(s)
      /\ Phase(r)' = "idle" /\ Phase(r) = "refund"
  BY <1>1, <1>6 DEF Phase
<1>8. CountedIsMetered' /\ NothingAhead'
  <2>1. CountedIsMetered'
    BY <1>1, <1>6 DEF MeterInv, CountedIsMetered
  <2>2. ASSUME NEW w \in Users, NEW d \in Days, d > day PROVE usage'[w][d] = 0
    BY <1>4, <1>5, <2>2 DEF MeterInv, NothingAhead, Days
  <2>3. QED
    BY <1>1, <2>1, <2>2 DEF NothingAhead
<1>9. Books(u, "idle")'
  <2>1. InPhase(u, "idle")'
    BY <1>2, <1>7, PhaseNext DEF Phases
  <2>2. Balanced(u, "idle")'
    <3>1. Excess(u, "refund") \in 0 .. day /\ (n = 0 => Excess(u, "refund") < day)
      BY <1>3, <1>7 DEF Known, Balanced
    <3>2. Excess(u, "idle")' = Excess(u, "refund") + (IF n > 0 THEN 0 ELSE 1)
      BY <1>1, <1>3, <1>4, <1>5 DEF Excess, Known
    <3>3. Excess(u, "idle")' \in 0 .. day
      BY <1>3, <1>4, <3>1, <3>2 DEF Known
    <3>4. QED
      BY <1>1, <3>3 DEF Balanced
  <2>3. ASSUME u \in Free PROVE Limited(u, "idle")'
    <3>1. Limited(u, "refund")
      BY <1>3, <1>7, <2>3 DEF Known
    <3>2. v <= Allowance
      BY <1>3, <1>4, <3>1 DEF Known, Limited
    <3>3. \A d \in Days : usage'[u][d] <= Allowance + 1
      <4>1. v <= Allowance + 1
        BY <1>3, <1>4, <3>2 DEF Known
      <4>2. QED
        BY <1>5, <3>1, <4>1 DEF Limited
    <3>4. served[u] + 0 <= Limit
      BY <3>1 DEF Limited
    <3>5. QED
      BY <1>1, <1>5, <3>2, <3>3, <3>4 DEF Limited, Limit
  <2>4. QED
    BY <2>1, <2>2, <2>3 DEF Books
<1>10. \A w \in Users : \E p \in Phases : Books(w, p)'
  <2>1. \E p \in Phases : Books(u, p)'
    BY <1>9 DEF Phases
  <2>2. QED
    BY <1>1, <1>5, <1>7, <2>1, BooksOfOthers DEF MeterInv
<1>11. QED
  BY <1>8, <1>10 DEF MeterInv

-----------------------------------------------------------------------------
(* The other steps *)

\* A new day begins with nothing counted, and with one more hand of leeway
LEMMA MidnightKeepsMeter ==
  ASSUME WorkInv, MeterInv, Midnight
  PROVE  MeterInv'
<1>1. /\ day' = day + 1 /\ day < MaxDay /\ at' = at /\ metered' = metered
      /\ usage' = usage /\ served' = served
  BY DEF Midnight
<1>2. /\ MeterTypes /\ day \in Nat /\ day + 1 \in Days /\ Days \subseteq Nat
      /\ Allowance \in Nat /\ day \in Days
  BY <1>1, GateAssumption DEF WorkInv, MeterTypes, Days
<1>3. CountedIsMetered'
  BY <1>1 DEF MeterInv, CountedIsMetered
<1>4. NothingAhead'
  <2>1. \A d \in Days : d > day + 1 => d > day
    BY <1>2
  <2>2. QED
    BY <1>1, <2>1 DEF MeterInv, NothingAhead
<1>5. ASSUME NEW u \in Users, NEW p \in Phases, Books(u, p) PROVE Books(u, p)'
  <2>1. usage[u][day + 1] = 0
    BY <1>2 DEF MeterInv, NothingAhead
  <2>2. InPhase(u, p)'
    BY <1>1, <1>5 DEF Books, InPhase, Phase
  <2>3. Excess(u, p)' = Excess(u, p)
    BY <1>1 DEF Excess, Charged
  <2>4. Balanced(u, p)'
    <3>1. Excess(u, p) \in 0 .. day
      BY <1>5 DEF Books, Balanced
    <3>2. Excess(u, p) \in 0 .. day + 1 /\ Excess(u, p) < day + 1
      BY <1>2, <3>1
    <3>3. QED
      BY <1>1, <2>3, <3>2 DEF Balanced
  <2>5. ASSUME u \in Free PROVE Limited(u, p)'
    <3>1. Limited(u, p)
      BY <1>5, <2>5 DEF Books
    <3>2. Limit' = Limit + Allowance + 1 /\ Limit \in Nat
      BY <1>1, <1>2 DEF Limit
    <3>3. served[u] \in Nat
      BY <1>2 DEF MeterTypes
    <3>4. served[u] + (IF p = "call" THEN 1 ELSE 0) <= Limit'
      BY <1>2, <3>1, <3>2, <3>3 DEF Limited
    <3>5. \A d \in Days : usage'[u][d] <= Allowance + 1
      BY <1>1, <3>1 DEF Limited
    <3>6. usage'[u][day'] <= Allowance
      BY <1>1, <1>2, <2>1
    <3>7. served'[u] + (IF p = "call" THEN 1 ELSE 0) <= Limit'
      BY <1>1, <3>4
    <3>8. QED
      BY <3>5, <3>6, <3>7 DEF Limited
  <2>6. QED
    BY <2>2, <2>4, <2>5 DEF Books
<1>6. \A u \in Users : \E p \in Phases : Books(u, p)'
  BY <1>5 DEF MeterInv
<1>7. QED
  BY <1>3, <1>4, <1>6 DEF MeterInv

\* A step the meter does not notice
Quiet ==
  /\ UNCHANGED <<day, usage, served>> /\ CountedIsMetered'
  /\ \A s \in Requests : Phase(s)' = Phase(s)

LEMMA QuietKeepsMeter ==
  ASSUME MeterInv, Quiet
  PROVE  MeterInv'
<1>1. NothingAhead'
  BY DEF MeterInv, Quiet, NothingAhead
<1>2. \A u \in Users : \E p \in Phases : Books(u, p)'
  BY BooksKept DEF MeterInv, Quiet
<1>3. QED
  BY <1>1, <1>2 DEF MeterInv, Quiet

\* A request begins to work, or ends without having been counted
LEMMA OneIsQuiet ==
  ASSUME CountedIsMetered, UNCHANGED <<day, usage, served>>, NEW r \in Requests,
         \A s \in Requests \ {r} : at'[s] = at[s] /\ metered'[s] = metered[s],
         at[r] \notin Working,
         \/ at'[r] \notin Working
         \/ at'[r] = "record" /\ metered'[r]
         \/ at'[r] = "call" /\ ~metered'[r]
  PROVE  Quiet
<1>1. Phase(r) = "idle" /\ Phase(r)' = "idle"
  BY DEF Phase, Working
<1>2. \A s \in Requests \ {r} : Phase(s)' = Phase(s)
  BY DEF Phase
<1>3. CountedIsMetered'
  BY DEF CountedIsMetered, Working
<1>4. QED
  BY <1>1, <1>2, <1>3 DEF Quiet

LEMMA SameIsQuiet ==
  ASSUME CountedIsMetered, UNCHANGED <<day, usage, served, at, metered>>
  PROVE  Quiet
BY DEF CountedIsMetered, Quiet, Phase

LEMMA BeginsQuietly ==
  ASSUME FlagTypes, CountedIsMetered, NEW r \in Requests, at \in [Requests -> Stages],
         at[r] \notin Working, at' = [at EXCEPT ![r] = Meter(r)], Meters(r)
  PROVE  Quiet
<1>1. /\ UNCHANGED <<day, usage, served>> /\ metered' = [metered EXCEPT ![r] = Metered(r)]
      /\ DOMAIN metered = Requests
  BY DEF Meters, FlagTypes
<1>2. \A s \in Requests \ {r} : at'[s] = at[s] /\ metered'[s] = metered[s]
  BY <1>1
<1>3. at'[r] = Meter(r) /\ metered'[r] = Metered(r)
  BY <1>1
<1>4. CASE Metered(r)
  BY <1>1, <1>2, <1>3, <1>4, OneIsQuiet DEF Meter
<1>5. CASE ~Metered(r)
  BY <1>1, <1>2, <1>3, <1>5, OneIsQuiet DEF Meter
<1>6. QED
  BY <1>4, <1>5

LEMMA LeavesQuietly ==
  ASSUME CountedIsMetered, NEW r \in Requests, at \in [Requests -> Stages], NEW x,
         at[r] \notin Working, x \notin Working, at' = [at EXCEPT ![r] = x],
         UNCHANGED <<day, usage, served, metered>>
  PROVE  Quiet
<1>1. at'[r] = x /\ \A s \in Requests \ {r} : at'[s] = at[s] /\ metered'[s] = metered[s]
  OBVIOUS
<1>2. QED
  BY <1>1, OneIsQuiet

LEMMA StepMeter == ASSUME WorkInv, MeterInv, [WorkNext]_workVars PROVE MeterInv'
<1>1. /\ FlagTypes /\ CountedIsMetered /\ at \in [Requests -> Stages]
      /\ \A r \in Requests : fut[r] # "none" <=> at[r] \in {"user", "model"}
  BY DEF WorkInv, GatesInv, Core, KeyTypes, Waits, MeterInv
<1>2. "new" \notin Working /\ "done" \notin Working /\ "user" \notin Working /\ "model" \notin Working
  BY DEF Working
<1>3. ASSUME NEW r \in Requests, Arrive(r) PROVE MeterInv'
  <2>1. at[r] \notin Working
    BY <1>2, <1>3 DEF Arrive
  <2>2. \/ at' = [at EXCEPT ![r] = Meter(r)] /\ Meters(r)
        \/ \E x \in {"user", "model", "done"} :
             at' = [at EXCEPT ![r] = x] /\ UNCHANGED <<day, usage, served, metered>>
    BY <1>3 DEF Arrive, AsksModel, meterVars
  <2>3. Quiet
    BY <1>1, <1>2, <2>1, <2>2, BeginsQuietly, LeavesQuietly
  <2>4. QED
    BY <2>3, QuietKeepsMeter
<1>4. ASSUME NEW r \in Requests, Resume(r) PROVE MeterInv'
  <2>1. at[r] \notin Working
    BY <1>1, <1>2, <1>4 DEF Resume
  <2>2. \/ at' = [at EXCEPT ![r] = Meter(r)] /\ Meters(r)
        \/ \E x \in {"user", "model", "done"} :
             at' = [at EXCEPT ![r] = x] /\ UNCHANGED <<day, usage, served, metered>>
    BY <1>4 DEF Resume, AsksModel, Answered, meterVars
  <2>3. Quiet
    BY <1>1, <1>2, <2>1, <2>2, BeginsQuietly, LeavesQuietly
  <2>4. QED
    BY <2>3, QuietKeepsMeter
<1>5. ASSUME NEW r \in Requests, GiveUp(r) PROVE MeterInv'
  <2>1. at[r] \notin Working
    BY <1>1, <1>2, <1>5 DEF GiveUp
  <2>2. at' = [at EXCEPT ![r] = "done"] /\ UNCHANGED <<day, usage, served, metered>>
    BY <1>5 DEF GiveUp, Answered, meterVars
  <2>3. Quiet
    BY <1>1, <1>2, <2>1, <2>2, LeavesQuietly
  <2>4. QED
    BY <2>3, QuietKeepsMeter
<1>6. ASSUME \/ \E r \in Requests : Grant(r) \/ Expire(r)
             \/ \E g \in Gates : PassOn(g)
             \/ \E u \in Users : Evict(u)
             \/ UNCHANGED workVars
      PROVE  MeterInv'
  <2>1. UNCHANGED <<day, usage, served, at, metered>>
    BY <1>6 DEF Grant, Expire, PassOn, Evict, workVars, meterVars
  <2>2. QED
    BY <1>1, <2>1, SameIsQuiet, QuietKeepsMeter
<1>7. QED
  BY <1>3, <1>4, <1>5, <1>6, RecordKeepsMeter, RereadKeepsMeter, RefundKeepsMeter,
     CallKeepsMeter, MidnightKeepsMeter DEF WorkNext, Serve

LEMMA InitMeter == WorkInit => MeterInv
<1> SUFFICES ASSUME WorkInit PROVE MeterInv
  OBVIOUS
<1>1. /\ at = [r \in Requests |-> "new"] /\ day = 0
      /\ usage = [u \in Users |-> [d \in Days |-> 0]] /\ served = [u \in Users |-> 0]
  BY DEF WorkInit
<1>2. WorkInv
  BY InitInv
<1>3. CountedIsMetered /\ NothingAhead
  BY <1>1 DEF CountedIsMetered, NothingAhead
<1>4. ASSUME NEW u \in Users PROVE Books(u, "idle")
  <2>1. \A r \in Requests : Phase(r) = "idle"
    BY <1>1 DEF Phase
  <2>2. /\ usage[u] \in [Days -> Int] /\ IsFiniteSet(Days) /\ Charged(u) = Total(usage[u])
        /\ \A d \in Days : usage[u][d] = 0
    BY <1>1, <1>2, ChargedIs DEF WorkInv
  <2>3. Total(usage[u]) = 0
    <3>1. Marks(usage[u], {}, Days)
      BY <2>2 DEF Marks
    <3>2. QED
      BY <2>2, <3>1, TotalMarks, FS_EmptySet
  <2>4. Balanced(u, "idle")
    BY <1>1, <2>2, <2>3 DEF Balanced, Excess
  <2>5. Limited(u, "idle")
    <3>1. Allowance \in Nat /\ 0 \in Days /\ served[u] = 0 /\ usage[u][day] = 0
      BY <1>1, GateAssumption DEF Days
    <3>2. Limit \in Nat
      BY <1>1, <3>1 DEF Limit
    <3>3. QED
      BY <2>2, <3>1, <3>2 DEF Limited
  <2>6. QED
    BY <2>1, <2>4, <2>5 DEF Books, InPhase
<1>5. QED
  BY <1>3, <1>4 DEF MeterInv, Phases

LEMMA MeterMeans == ASSUME WorkInv, MeterInv PROVE MeterIsHonest
<1>1. ASSUME NEW u \in Users
      PROVE  /\ Charged(u) - served[u] - UnderWay(u) \in 0 .. day
             /\ u \in Free => served[u] <= Allowance * (day + 1) + day
  <2> DEFINE open == {r \in Requests : /\ UserOf[r] = u /\ metered[r]
                                       /\ at[r] \in {"reread", "call", "refund"}}
  <2>1. PICK p \in Phases : Books(u, p)
    BY DEF MeterInv
  <2>2. \A r \in Requests : r \in open <=> UserOf[r] = u /\ Phase(r) # "idle"
    BY DEF Phase
  <2>3. Cardinality(open) = IF p = "idle" THEN 0 ELSE 1
    <3>1. CASE p = "idle"
      <4>1. open = {}
        BY <2>1, <2>2, <3>1 DEF Books, InPhase
      <4>2. QED
        BY <3>1, <4>1, FS_EmptySet
    <3>2. CASE p # "idle"
      <4>1. PICK r \in Requests : UserOf[r] = u /\ Phase(r) = p
        BY <2>1, <3>2 DEF Books, InPhase
      <4>2. at[r] \in Working
        BY <3>2, <4>1 DEF Phase, Working
      <4>3. open = {r}
        BY <2>2, <3>2, <4>1, <4>2, OthersIdle
      <4>4. QED
        BY <3>2, <4>3, FS_Singleton
    <3>3. QED
      BY <3>1, <3>2
  <2>4. UnderWay(u) = IF p = "idle" THEN 0 ELSE 1
    BY <2>3 DEF UnderWay
  <2>5. Charged(u) - served[u] - UnderWay(u) \in 0 .. day
    BY <2>1, <2>4 DEF Books, Balanced, Excess
  <2>6. ASSUME u \in Free PROVE served[u] <= Allowance * (day + 1) + day
    <3>1. served[u] \in Nat /\ Allowance \in Nat /\ day \in Nat
      BY GateAssumption DEF WorkInv, MeterTypes, Days
    <3>2. Limit \in Nat
      BY <3>1 DEF Limit
    <3>3. served[u] <= Limit
      BY <2>1, <2>6, <3>1, <3>2 DEF Books, Limited
    <3>4. QED
      BY <3>3 DEF Limit
  <2>7. QED
    BY <2>5, <2>6
<1>2. Free \subseteq Users
  BY GateAssumption
<1>3. QED
  BY <1>1, <1>2 DEF MeterIsHonest, UsageIsHonest, AllowanceHolds

-----------------------------------------------------------------------------
(* The theorems *)

\* No slot is lost or given twice, and nobody queues at a gate with a free slot,
\* however waits time out and are cancelled (WorkGate): for any number of users
\* and requests, any slots and any room in the queues
THEOREM SoundTheorem == WorkSpec => []GatesAreSound
<1>1. WorkInv => GatesAreSound
  BY Soundness
<1> QED BY <1>1, InvAlways, PTL

\* The heavy requests of a user run one at a time, though its gate is dropped
\* and made anew (KeyedGates.hold)
THEOREM AloneTheorem == WorkSpec => []OneAtATime
<1>1. WorkInv => OneAtATime
  BY Alone
<1> QED BY <1>1, InvAlways, PTL

\* The usage table counts every hand answered and under way, and at most one more for
\* each midnight; and a free user is answered no more hands than the allowance of the
\* days so far, and one for each midnight (_metered, _record_hand, _refund_hand): for
\* any number of users, requests, days and slots, any allowance, whatever waits end
THEOREM MeterTheorem == WorkSpec => []MeterIsHonest
<1>1. WorkInit => WorkInv /\ MeterInv
  BY InitInv, InitMeter
<1>2. WorkInv /\ MeterInv /\ [WorkNext]_workVars => (WorkInv /\ MeterInv)'
  BY StepInv, StepMeter
<1>3. WorkInv /\ MeterInv => MeterIsHonest
  BY MeterMeans
<1>4. QED
  BY <1>1, <1>2, <1>3, PTL DEF WorkSpec

=============================================================================
