------------------------------ MODULE HeavyWork ------------------------------
(* The website's heavy requests (ui/public.py, AccessMiddleware._heavy and   *)
(* _metered; the gates are ui/ratelimit.py): study and trainer work of one   *)
(* user runs one request at a time, at most ModelSlots of it site-wide, and  *)
(* a free user's trainer hands are counted against the day's allowance.      *)
(*                                                                           *)
(* Everything but the database work and the handlers themselves runs on one  *)
(* event loop, so a step of a request is what it does between two awaits.  A *)
(* gate hands a released slot to its oldest waiter: a callback (_grant) then *)
(* settles that waiter's future, and its task wakes up later still.  The     *)
(* wait may be given up (timeout, cancellation) at every point in between.   *)
(* The token bucket in front, and the admin's routes, refuse or pass a       *)
(* request before it touches any of this: a request refused there is no step.*)
(* A gate of a user is named after the request that created it.              *)
EXTENDS Integers, Sequences, FiniteSets, Functions

CONSTANTS
  Requests,    \* each is made once
  Users, Free, \* and those without a subscription
  UserOf, KindOf,  \* who makes a request, what it asks for
  Model,       \* MODEL_GATE
  Nobody,
  ModelSlots,  \* MODEL_SLOTS
  UserQueue, ModelQueue,  \* max_waiting of the two kinds of gates
  Allowance,   \* FREE_HANDS_PER_DAY
  MaxDay       \* bound: midnights

Kinds == {"deal", "view", "format"}  \* POST new_hand, the state, another format

Gates == Requests \cup {Model}
Slots(g) == IF g = Model THEN ModelSlots ELSE 1
Room(g) == IF g = Model THEN ModelQueue ELSE UserQueue

ASSUME NamesAssumption == Model \notin Requests /\ Nobody \notin Gates
ASSUME GateAssumption ==
  /\ UserOf \in [Requests -> Users] /\ KindOf \in [Requests -> Kinds] /\ Free \subseteq Users
  /\ ModelSlots \in Nat \ {0} /\ UserQueue \in Nat /\ ModelQueue \in Nat
  /\ Allowance \in Nat /\ MaxDay \in Nat

VARIABLES
  busy,      \* WorkGate._busy
  queue,     \* WorkGate._waiters
  fut,       \* the future a request waits for
  passing,   \* _grant callbacks under way to a future that was given up
  current,   \* KeyedGates._gates: the gate under a user's key
  refs,      \* KeyedGates._refs
  at,        \* where a request is
  mine,      \* the user's gate it took (KeyedGates.hold)
  metered,   \* _metered's consumed
  fresh,     \* the session it was metered by is still the user's
  session,   \* Registry: the user's TrainerSession, as far as its hand goes
  day, usage,  \* the usage table
  served     \* the metered hands answered to a user

gateVars == <<busy, queue, fut, passing>>
keyVars == <<current, refs>>
meterVars == <<metered, fresh, session, day, usage, served>>
workVars == <<gateVars, keyVars, at, mine, meterVars>>

Days == 0 .. MaxDay
Working == {"record", "reread", "call", "refund"}
Stages == {"new", "user", "model", "done"} \cup Working

\* The gate a request waits at, and those it holds a slot of
WaitsAt(r) == IF at[r] = "model" THEN Model ELSE mine[r]
Holds(r) == CASE at[r] = "model" -> {mine[r]}
              [] at[r] \in Working -> {mine[r], Model}
              [] OTHER -> {}

-----------------------------------------------------------------------------
(* The gates *)

Waiting(g) == {i \in DOMAIN queue[g] : fut[queue[g][i]] = "waiting"}
Full(g) == Cardinality(Waiting(g)) >= Room(g)
Takes(g) == busy[g] < Slots(g) /\ queue[g] = <<>>

First(g) == CHOOSE i \in Waiting(g) : \A j \in Waiting(g) : i <= j
Heirs(G) == {queue[g][First(g)] : g \in {h \in G : Waiting(h) # {}}}

\* Mutant: one waiter that gave up is skipped, then the slot is freed
RestOne(g) == IF queue[g] = <<>> THEN <<>> ELSE Tail(queue[g])
Rest(g) == IF Waiting(g) = {} THEN <<>>
           ELSE SubSeq(queue[g], First(g) + 1, Len(queue[g]))

\* WorkGate.release of one slot of each of these gates: handed over to the
\* oldest waiter that still waits, else free again.  The other gates' queues
\* become q
Released(G, q) ==
  /\ busy' = [g \in Gates |-> IF g \in G /\ Waiting(g) = {} THEN busy[g] - 1 ELSE busy[g]]
  /\ queue' = [g \in Gates |-> IF g \in G THEN Rest(g) ELSE q[g]]

\* The request leaves its user's gate (KeyedGates.hold): the last one out
\* drops the gate.  Mutant: everyone who leaves does
DropsAlways(u) == current' = [current EXCEPT ![u] = Nobody]
Drops(u) == current' = [current EXCEPT ![u] = IF refs[u] = 1 THEN Nobody ELSE @]
LeavesKey(r) == Drops(UserOf[r]) /\ refs' = [refs EXCEPT ![UserOf[r]] = @ - 1]

\* The request is answered, giving back what it holds
Answered(r, G, q) ==
  /\ Released(G, q) /\ LeavesKey(r)
  /\ fut' = [s \in Requests |-> IF s \in Heirs(G) THEN "handed"
                                ELSE IF s = r THEN "none" ELSE fut[s]]
  /\ at' = [at EXCEPT ![r] = "done"]

-----------------------------------------------------------------------------
(* Metering *)

\* _implicit_deal_session: a session that has dealt and lost its hand
Metered(r) ==
  \/ KindOf[r] = "deal"
  \/ KindOf[r] = "view" /\ UserOf[r] \in Free /\ session[UserOf[r]] = "lapsed"

\* _metered, up to its first await
Meters(r) ==
  /\ metered' = [metered EXCEPT ![r] = Metered(r)]
  /\ fresh' = [fresh EXCEPT ![r] = TRUE]
  /\ UNCHANGED <<session, day, usage, served>>
Meter(r) == IF Metered(r) THEN "record" ELSE "call"

\* With its user's slot the request asks for the model's, in the same step
AsksModel(r, b) ==
  \/ /\ Takes(Model)
     /\ busy' = [b EXCEPT ![Model] = @ + 1] /\ fut' = [fut EXCEPT ![r] = "none"]
     /\ at' = [at EXCEPT ![r] = Meter(r)] /\ Meters(r)
     /\ UNCHANGED queue
  \/ /\ ~Takes(Model) /\ ~Full(Model)
     /\ busy' = b /\ fut' = [fut EXCEPT ![r] = "waiting"]
     /\ queue' = [queue EXCEPT ![Model] = Append(@, r)]
     /\ at' = [at EXCEPT ![r] = "model"]
     /\ UNCHANGED <<metered, fresh, session, day, usage, served>>

-----------------------------------------------------------------------------
(* The steps of a request *)

\* _heavy: the gate under the user's key, a new one if there is none.  A
\* request that finds no room at either gate is refused and leaves no trace.
Arrive(r) ==
  LET u == UserOf[r]
      g == IF current[u] = Nobody THEN r ELSE current[u]
      Enters ==
        /\ mine' = [mine EXCEPT ![r] = g] /\ current' = [current EXCEPT ![u] = g]
        /\ refs' = [refs EXCEPT ![u] = @ + 1]
  IN /\ at[r] = "new"
     /\ \/ /\ Takes(g) /\ AsksModel(r, [busy EXCEPT ![g] = @ + 1])
           /\ Enters
        \/ /\ ~Takes(g) /\ ~Full(g)
           /\ queue' = [queue EXCEPT ![g] = Append(@, r)]
           /\ fut' = [fut EXCEPT ![r] = "waiting"] /\ at' = [at EXCEPT ![r] = "user"]
           /\ Enters
           /\ UNCHANGED <<busy, metered, fresh, session, day, usage, served>>
        \/ /\ IF Takes(g) THEN ~Takes(Model) /\ Full(Model) ELSE Full(g)
           /\ at' = [at EXCEPT ![r] = "done"]
           /\ UNCHANGED <<busy, queue, fut, keyVars, mine, meterVars>>
     /\ UNCHANGED passing

\* _grant finds the future it was sent to still wanted
Grant(r) ==
  /\ fut[r] = "handed" /\ fut' = [fut EXCEPT ![r] = "granted"]
  /\ UNCHANGED <<busy, queue, passing, keyVars, at, mine, meterVars>>

\* _grant finds it given up: the slot goes on.  Mutant: it is lost
PassOnDrops(g) ==
  /\ passing[g] > 0 /\ passing' = [passing EXCEPT ![g] = @ - 1]
  /\ UNCHANGED <<busy, queue, fut, keyVars, at, mine, meterVars>>
PassOn(g) ==
  /\ passing[g] > 0 /\ passing' = [passing EXCEPT ![g] = @ - 1]
  /\ Released({g}, queue)
  /\ fut' = [s \in Requests |-> IF s \in Heirs({g}) THEN "handed" ELSE fut[s]]
  /\ UNCHANGED <<keyVars, at, mine, meterVars>>

\* The time is up (MODEL_WAIT_S), or the request is cancelled: its future is
\* dead from now on, wherever it lies
Expire(r) ==
  /\ fut[r] \in {"waiting", "handed"} /\ fut' = [fut EXCEPT ![r] = "expired"]
  /\ passing' = [passing EXCEPT ![WaitsAt(r)] = IF fut[r] = "handed" THEN @ + 1 ELSE @]
  /\ UNCHANGED <<busy, queue, keyVars, at, mine, meterVars>>

\* _abandon, once the task wakes up, and the way out: it leaves the queue, if
\* it is still there.  A slot granted in the instant the wait ended is given back
Back(r) == Holds(r) \cup (IF fut[r] = "granted" THEN {WaitsAt(r)} ELSE {})
Without(q, r) ==
  IF \A k \in DOMAIN q : q[k] # r THEN q
  ELSE LET k == CHOOSE i \in DOMAIN q : q[i] = r
       IN SubSeq(q, 1, k - 1) \o SubSeq(q, k + 1, Len(q))
GiveUp(r) ==
  /\ fut[r] \in {"expired", "granted"}
  /\ Answered(r, Back(r), [queue EXCEPT ![WaitsAt(r)] = Without(@, r)])
  /\ UNCHANGED <<passing, mine, meterVars>>

\* The task wakes up with its slot
Resume(r) ==
  /\ fut[r] = "granted"
  /\ \/ /\ at[r] = "user"
        /\ \/ AsksModel(r, busy) /\ UNCHANGED keyVars
           \/ /\ ~Takes(Model) /\ Full(Model)
              /\ Answered(r, {mine[r]}, queue)
              /\ UNCHANGED <<metered, fresh, session, day, usage, served>>
     \/ /\ at[r] = "model"
        /\ fut' = [fut EXCEPT ![r] = "none"]
        /\ at' = [at EXCEPT ![r] = Meter(r)] /\ Meters(r)
        /\ UNCHANGED <<busy, queue, keyVars>>
  /\ UNCHANGED <<passing, mine>>

\* _record_hand counts the hand (its INSERT) ...
Record(r) ==
  LET u == UserOf[r]
  IN /\ at[r] = "record" /\ at' = [at EXCEPT ![r] = "reread"]
     /\ usage' = [usage EXCEPT ![u][day] = @ + 1]
     /\ UNCHANGED <<gateVars, keyVars, mine, metered, fresh, session, day, served>>

\* ... and reads the count, of the day it is by then
Over(r) == UserOf[r] \in Free /\ usage[UserOf[r]][day] > Allowance
Reread(r) ==
  /\ at[r] = "reread"
  /\ at' = [at EXCEPT ![r] = IF Over(r) THEN "refund" ELSE "call"]
  /\ UNCHANGED <<gateVars, keyVars, mine, meterVars>>

\* What the handler leaves in the session, if it succeeds
After(k, s) ==
  CASE k = "format" -> IF s \in {"none", "new"} THEN "new" ELSE "lapsed"
    [] OTHER -> "hand"
\* and whether it dealt a hand (trainer_new_hand, _ensure_hand)
Deals(k, s) == k = "deal" \/ (k = "view" /\ s # "hand")
\* no_deal: an error, or nothing was dealt by the session that was metered.
\* Mutant: an error is paid for
DealtByOther(r) == KindOf[r] = "view" /\ ~(fresh[r] /\ Deals("view", session[UserOf[r]]))
NoDealButErrors(r, ok) == DealtByOther(r)
NoDeal(r, ok) == ~ok \/ DealtByOther(r)

\* The handler and its answer.  One that fails may have dealt first (the
\* opponents' moves come after the deal)
Call(r, ok) ==
  LET u == UserOf[r]  s == session[u]
      refunds == metered[r] /\ NoDeal(r, ok)
  IN /\ at[r] = "call"
     /\ session' \in {[session EXCEPT ![u] = t] :
                        t \in IF ok THEN {After(KindOf[r], s)}
                              ELSE {IF s = "none" THEN "new" ELSE s, After(KindOf[r], s)}}
     /\ served' = [served EXCEPT ![u] = IF metered[r] /\ ok /\ ~DealtByOther(r)
                                            THEN @ + 1 ELSE @]
     /\ IF refunds
        THEN /\ at' = [at EXCEPT ![r] = "refund"]
             /\ UNCHANGED <<busy, queue, fut, keyVars>>
        ELSE Answered(r, {mine[r], Model}, queue)
     /\ UNCHANGED <<passing, mine, metered, fresh, day, usage>>

\* _refund_hand, of the day it is by then.
Refunded(n) == IF n > 0 THEN n - 1 ELSE 0
Refund(r) ==
  /\ at[r] = "refund"
  /\ usage' = [usage EXCEPT ![UserOf[r]][day] = Refunded(@)]
  /\ Answered(r, {mine[r], Model}, queue)
  /\ UNCHANGED <<passing, mine, metered, fresh, session, day, served>>

-----------------------------------------------------------------------------
(* The world around *)

Midnight ==
  /\ day < MaxDay /\ day' = day + 1
  /\ UNCHANGED <<gateVars, keyVars, at, mine, metered, fresh, session, usage, served>>

\* Registry: the least recently used and the idle sessions go, in use or not
Evict(u) ==
  /\ session[u] # "none" /\ session' = [session EXCEPT ![u] = "none"]
  /\ fresh' = [r \in Requests |-> fresh[r] /\ UserOf[r] # u]
  /\ UNCHANGED <<gateVars, keyVars, at, mine, metered, day, usage, served>>

WorkInit ==
  /\ busy = [g \in Gates |-> 0] /\ queue = [g \in Gates |-> <<>>]
  /\ fut = [r \in Requests |-> "none"] /\ passing = [g \in Gates |-> 0]
  /\ current = [u \in Users |-> Nobody] /\ refs = [u \in Users |-> 0]
  /\ at = [r \in Requests |-> "new"] /\ mine = [r \in Requests |-> Nobody]
  /\ metered = [r \in Requests |-> FALSE] /\ fresh = metered
  /\ session = [u \in Users |-> "none"]
  /\ day = 0 /\ usage = [u \in Users |-> [d \in Days |-> 0]]
  /\ served = [u \in Users |-> 0]

Serve(r) ==
  \/ Grant(r) \/ GiveUp(r) \/ Resume(r) \/ Record(r) \/ Reread(r) \/ Refund(r)
  \/ \E ok \in BOOLEAN : Call(r, ok)

WorkNext ==
  \/ \E r \in Requests : Arrive(r)
  \/ \E r \in Requests : Serve(r) \/ Expire(r)
  \/ \E g \in Gates : PassOn(g)
  \/ Midnight
  \/ \E u \in Users : Evict(u)

WorkSpec == WorkInit /\ [][WorkNext]_workVars

(* Fairness: the loop does not rest while a callback or a task is ready, and *)
(* the database and the handlers answer.  That a wait ever times out is not  *)
(* assumed: the queues alone have to bring every request its turn.           *)
Loop == (\E r \in Requests : Serve(r)) \/ (\E g \in Gates : PassOn(g))
LiveSpec == WorkSpec /\ WF_workVars(Loop)

-----------------------------------------------------------------------------
(* Properties *)

\* The types of the state; a gate never has more holders than slots
WorkTypeOK ==
  /\ busy \in [Gates -> Nat] /\ \A g \in Gates : busy[g] <= Slots(g)
  /\ queue \in [Gates -> Seq(Requests)]
  /\ fut \in [Requests -> {"none", "waiting", "handed", "granted", "expired"}]
  /\ passing \in [Gates -> Nat]
  /\ current \in [Users -> Requests \cup {Nobody}] /\ refs \in [Users -> Nat]
  /\ at \in [Requests -> Stages] /\ mine \in [Requests -> Requests \cup {Nobody}]
  /\ metered \in [Requests -> BOOLEAN] /\ fresh \in [Requests -> BOOLEAN]
  /\ session \in [Users -> {"none", "new", "hand", "lapsed"}]
  /\ day \in Days /\ usage \in [Users -> [Days -> Nat]] /\ served \in [Users -> Nat]

\* Every slot taken is held by a request or on its way to one ("Nothing leaks",
\* WorkGate._abandon): none is lost and none is given twice
Owners(g) ==
  {r \in Requests : g \in Holds(r) \/ (WaitsAt(r) = g /\ fut[r] \in {"handed", "granted"})}
SlotsAccounted == \A g \in Gates : busy[g] = Cardinality(Owners(g)) + passing[g]

\* Nobody queues at a gate that has a free slot: it would never be called
NobodyForgotten == \A g \in Gates : queue[g] # <<>> => busy[g] = Slots(g)

\* The slots and the queues of the gates are right, whatever wait is cut short
GatesAreSound == WorkTypeOK /\ SlotsAccounted /\ NobodyForgotten

\* A user's requests run one at a time, whatever became of the gates they queued
\* at (a gate is dropped and made anew)
Inside(r) == at[r] = "model" \/ at[r] \in Working
OneAtATime ==
  \A r, s \in Requests : r # s /\ UserOf[r] = UserOf[s] => ~(Inside(r) /\ Inside(s))

\* The usage table counts the hands answered and those under way.  A refund
\* after midnight finds nothing to take back: one hand too many stays charged
\* for every midnight, never one too few
Charged(u) == SumFunction(usage[u])
UnderWay(u) ==
  Cardinality({r \in Requests : /\ UserOf[r] = u /\ metered[r]
                                /\ at[r] \in {"reread", "call", "refund"}})
UsageIsHonest ==
  \A u \in Users : Charged(u) - served[u] - UnderWay(u) \in 0 .. day

\* A free user is never answered more hands than the allowance of the days so
\* far, but for one each midnight: counted before it, read after it
AllowanceHolds ==
  \A u \in Free : served[u] <= Allowance * (day + 1) + day

\* The meter neither overcharges nor undercharges by more than the midnights
MeterIsHonest == UsageIsHonest /\ AllowanceHolds

\* Every request is answered, even if no wait ever times out
UnderWork == \E r \in Requests : at[r] \notin {"new", "done"}
EveryoneServed == UnderWork ~> ~UnderWork

=============================================================================
