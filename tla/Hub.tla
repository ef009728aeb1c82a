-------------------------------- MODULE Hub --------------------------------
(* The hub (ui/homegame.py, class Hub and _load_table): the tables that are  *)
(* in memory, one copy each.  A request finds its table in the hub or loads  *)
(* it; the watchdog thread forgets a table nobody looks at.  Nothing but the *)
(* saved rows outlives an eviction or a restart.                             *)
(*                                                                           *)
(* One open table, between its deal and its next load.  A request finds the  *)
(* table under the hub lock, or loads it under the table's loader lock, and  *)
(* only then takes the table's own lock: in between, whoever runs may evict, *)
(* load or fail.  Copies and loader locks are named by the request that made *)
(* them.  Time is in units of the longest request (see Tick): evict_idle     *)
(* waits half an hour, and no request is under way that long.                *)
EXTENDS Integers

CONSTANTS
  Requests,     \* each is made once: a poll, a stream's push, a player's move
  Nil,
  MaxHands,     \* bound: hands
  RequestTime,  \* a request is over within this time ...
  IdleLimit,    \* ... HUB_IDLE_EVICT_S ...
  AbandonLimit, \* ... HUB_ABANDONED_EVICT_S
  MaxRestarts   \* bound: restarts of the process

ASSUME NilAssumption == Nil \notin Requests
ASSUME TimeAssumption ==
  /\ RequestTime \in Nat /\ IdleLimit \in Nat /\ AbandonLimit \in Nat
  /\ RequestTime <= IdleLimit /\ IdleLimit <= AbandonLimit
ASSUME BoundAssumption == MaxHands \in Nat /\ MaxRestarts \in Nat

VARIABLES
  hub,       \* Hub._tables: the copy of the table that is loaded
  copy,      \* the LiveTables
  loading,   \* Hub._loading: the loader lock
  abandoned, \* Hub._abandoned: the hand the table was evicted in the middle of
  rows,      \* the database: homegames.hand_no, the hand whose end the stacks are of,
             \* MAX(homegame_hands.hand_no)
  at,        \* where a request is
  mine,      \* the copy it acts on
  lock,      \* the loader lock it took from the hub
  age,       \* how long it has been under way
  restarts,
  last       \* history: the last hand dealt and the last finished, as played or, after a restart, as saved

requestVars == <<at, mine, lock, age>>
vars == <<hub, copy, loading, abandoned, rows, requestVars, restarts, last>>

Hands == 0 .. MaxHands
Played == [dealt : Hands, done : Hands]
Rows == [dealt : Hands, done : Hands, record : Hands]
Reasons == {"none", "abandoned", "restart"}
Copies ==
  [dealt : Hands, done : Hands, inHand : BOOLEAN, running : BOOLEAN, dirty : BOOLEAN,
   unsaved : SUBSET Hands, told : [hand : Hands, why : Reasons], idle : 0 .. AbandonLimit + 1]
Untold == [hand |-> 0, why |-> "none"]
Blank ==
  [dealt |-> 0, done |-> 0, inHand |-> FALSE, running |-> FALSE, dirty |-> FALSE,
   unsaved |-> {}, told |-> Untold, idle |-> 0]

Stages == {"new", "waiting", "loading", "loaded", "found", "ready", "saving", "answered", "failed"}
Over == {"answered", "failed"}
UnderWay == {r \in Requests : at[r] \notin Over \cup {"new"}}

\* A request is over: what it held is garbage, like a copy nobody has
Ends(r) ==
  /\ at' = [at EXCEPT ![r] = "answered"]
  /\ mine' = [mine EXCEPT ![r] = Nil] /\ lock' = [lock EXCEPT ![r] = Nil]
  /\ age' = [age EXCEPT ![r] = 0]

\* A loader lock is held from its check of the hub to the touch
LoaderStages == {"loading", "loaded", "found"}
\* Mutant: a loader that fails does not give it back
HeldByFailed(l) == \E r \in Requests : at[r] \in LoaderStages \cup {"failed"} /\ lock[r] = l
Held(l) == \E r \in Requests : at[r] \in LoaderStages /\ lock[r] = l

-----------------------------------------------------------------------------
(* Hub.get *)

Touched(c) == [copy EXCEPT ![c].idle = 0]

\* Mutant: a request that finds its table does not count as activity
FindUntouched(r) ==
  /\ at[r] = "new" /\ hub # Nil
  /\ at' = [at EXCEPT ![r] = "ready"]
  /\ mine' = [mine EXCEPT ![r] = hub]
  /\ UNCHANGED <<hub, copy, loading, abandoned, rows, lock, age, restarts, last>>

FindLoaded(r) ==
  /\ at[r] = "new" /\ hub # Nil
  /\ at' = [at EXCEPT ![r] = "ready"]
  /\ mine' = [mine EXCEPT ![r] = hub]
  /\ copy' = Touched(hub)
  /\ UNCHANGED <<hub, loading, abandoned, rows, lock, age, restarts, last>>

FindNone(r) ==
  /\ at[r] = "new" /\ hub = Nil
  /\ loading' = IF loading = Nil THEN r ELSE loading
  /\ lock' = [lock EXCEPT ![r] = loading']
  /\ at' = [at EXCEPT ![r] = "waiting"]
  /\ UNCHANGED <<hub, copy, abandoned, rows, mine, age, restarts, last>>

Find(r) == FindLoaded(r) \/ FindNone(r)

\* It has the loader lock, and looks again
Recheck(r) ==
  /\ at[r] = "waiting" /\ ~Held(lock[r])
  /\ IF hub # Nil
     THEN at' = [at EXCEPT ![r] = "found"] /\ mine' = [mine EXCEPT ![r] = hub]
     ELSE at' = [at EXCEPT ![r] = "loading"] /\ UNCHANGED mine
  /\ UNCHANGED <<hub, copy, loading, abandoned, rows, lock, age, restarts, last>>

\* _load_table, without and with the note on a hand that was cut short: one that
\* has no record
Fresh == [Blank EXCEPT !.dealt = rows.dealt, !.done = rows.done]
CutShort == rows.record < rows.dealt
\* Mutant: a note only if the hub abandoned the hand
ToldIfAbandoned == IF abandoned = rows.dealt THEN [hand |-> rows.dealt, why |-> "abandoned"] ELSE Untold
Told == [hand |-> rows.dealt, why |-> IF abandoned = rows.dealt THEN "abandoned" ELSE "restart"]

Load(r) ==
  /\ at[r] = "loading"
  /\ at' = [at EXCEPT ![r] = "loaded"]
  /\ IF CutShort
     THEN copy' = [copy EXCEPT ![r] = [Fresh EXCEPT !.told = Told]] /\ abandoned' = 0
     ELSE copy' = [copy EXCEPT ![r] = Fresh] /\ UNCHANGED abandoned
  /\ UNCHANGED <<hub, loading, rows, mine, lock, age, restarts, last>>

\* The loader is retired; whoever waits for it tries next, beside a newer one
Retired(r) == IF loading = lock[r] THEN Nil ELSE loading

LoadFails(r) ==
  /\ at[r] = "loading"
  /\ at' = [at EXCEPT ![r] = "failed"]
  /\ loading' = Retired(r)
  /\ age' = [age EXCEPT ![r] = 0]
  /\ UNCHANGED <<hub, copy, abandoned, rows, mine, lock, restarts, last>>
\* dict.setdefault: the copy that is there already stays
Stored(r) == IF hub = Nil THEN r ELSE hub

Store(r) ==
  /\ at[r] = "loaded"
  /\ at' = [at EXCEPT ![r] = "found"]
  /\ hub' = Stored(r) /\ mine' = [mine EXCEPT ![r] = Stored(r)]
  /\ copy' = IF Stored(r) = r THEN copy ELSE [copy EXCEPT ![r] = Blank]
  /\ loading' = Retired(r)
  /\ UNCHANGED <<abandoned, rows, lock, age, restarts, last>>

Touch(r) ==
  /\ at[r] = "found"
  /\ at' = [at EXCEPT ![r] = "ready"]
  /\ copy' = Touched(mine[r])
  /\ lock' = [lock EXCEPT ![r] = Nil]
  /\ UNCHANGED <<hub, loading, abandoned, rows, mine, age, restarts, last>>

-----------------------------------------------------------------------------
(* What is done at a table, under its lock (_in_table) *)

Free(c) == \A r \in Requests : at[r] = "saving" => mine[r] # c

\* What may be played next at a table: a deal, or the last action of the hand
Plays(t) ==
  {u \in {[t EXCEPT !.dealt = @ + 1, !.inHand = TRUE, !.running = TRUE]} : ~t.inHand /\ t.dealt < MaxHands}
  \cup {u \in {[t EXCEPT !.done = t.dealt, !.inHand = FALSE, !.unsaved = @ \cup {t.dealt}]} : t.inHand}
PlayedAt(t) == [dealt |-> t.dealt, done |-> t.done]

\* _persist_safe: the hand number and the stacks, and each owed record on its own,
\* dropped if it fails; or all of it becomes a debt the watchdog retries
Written(t, records) ==
  \E top \in records :
    /\ \A h \in records : h <= top
    /\ rows' = [dealt |-> t.dealt, done |-> t.done, record |-> top]
Persisted(c, t) ==
  \/ /\ \E lost \in SUBSET t.unsaved : Written(t, {rows.record} \cup (t.unsaved \ lost))
     /\ copy' = [copy EXCEPT ![c] = [t EXCEPT !.dirty = FALSE, !.unsaved = {}]]
  \/ copy' = [copy EXCEPT ![c] = [t EXCEPT !.dirty = TRUE]] /\ UNCHANGED rows

\* A hand is played in memory first
Play(r) ==
  /\ at[r] = "ready" /\ Free(mine[r])
  /\ \E t \in Plays(copy[mine[r]]) :
       copy' = [copy EXCEPT ![mine[r]] = t] /\ last' = PlayedAt(t)
  /\ at' = [at EXCEPT ![r] = "saving"]
  /\ UNCHANGED <<hub, loading, abandoned, rows, mine, lock, age, restarts>>

Save(r) ==
  /\ at[r] = "saving"
  /\ Persisted(mine[r], copy[mine[r]])
  /\ Ends(r)
  /\ UNCHANGED <<hub, loading, abandoned, restarts, last>>

\* A poll, a push, a heartbeat, or a move that is refused
Look(r) ==
  /\ at[r] = "ready" /\ Free(mine[r])
  /\ Ends(r)
  /\ UNCHANGED <<hub, copy, loading, abandoned, rows, restarts, last>>

-----------------------------------------------------------------------------
(* The watchdog thread: a pass over the table, skipped when its lock is      *)
(* taken (_watchdog_table), and now and then evict_idle, which takes only    *)
(* the hub lock                                                              *)

\* At a table the host has started (a loaded one is paused) a clock runs out,
\* or a countdown; an owed write is retried
Watch ==
  /\ hub # Nil /\ Free(hub)
  /\ \E t \in {u \in Plays(copy[hub]) : copy[hub].running} \cup {u \in {copy[hub]} : u.dirty} :
       Persisted(hub, t) /\ last' = PlayedAt(t)
  /\ UNCHANGED <<hub, loading, abandoned, requestVars, restarts>>

\* Nobody has looked at it for long, and it owes no write.  Mutant: it may
StaleDirty(t) == t.idle > IF t.inHand THEN AbandonLimit ELSE IdleLimit
Stale(t) == ~t.dirty /\ t.idle > IF t.inHand THEN AbandonLimit ELSE IdleLimit

Evict ==
  /\ hub # Nil /\ Stale(copy[hub])
  /\ abandoned' = IF copy[hub].inHand THEN copy[hub].dealt ELSE abandoned
  /\ hub' = Nil
  /\ copy' = IF \E r \in Requests : mine[r] = hub THEN copy ELSE [copy EXCEPT ![hub] = Blank]
  /\ UNCHANGED <<loading, rows, requestVars, restarts, last>>

-----------------------------------------------------------------------------
(* Time and restarts *)

\* A request is over within RequestTime: no handler and no load takes longer
Ages == {c \in Requests : hub = c \/ at[c] = "loaded"}
Tick ==
  /\ \A r \in UnderWay : age[r] < RequestTime
  /\ UnderWay # {} \/ \E c \in Ages : copy[c].idle <= AbandonLimit
  /\ age' = [r \in Requests |-> IF r \in UnderWay THEN age[r] + 1 ELSE age[r]]
  /\ copy' = [c \in Requests |->
       IF c \in Ages /\ copy[c].idle <= AbandonLimit THEN [copy[c] EXCEPT !.idle = @ + 1] ELSE copy[c]]
  /\ UNCHANGED <<hub, loading, abandoned, rows, at, mine, lock, restarts, last>>

\* Every request and everything in memory is lost (_on_app_shutdown saved what it could)
Restart ==
  /\ restarts < MaxRestarts
  /\ restarts' = restarts + 1
  /\ at' = [r \in Requests |-> IF r \in UnderWay THEN "failed" ELSE at[r]]
  /\ hub' = Nil /\ loading' = Nil /\ abandoned' = 0
  /\ copy' = [r \in Requests |-> Blank]
  /\ mine' = [r \in Requests |-> Nil] /\ lock' = [r \in Requests |-> Nil]
  /\ age' = [r \in Requests |-> 0]
  /\ last' = PlayedAt(rows)
  /\ UNCHANGED rows

-----------------------------------------------------------------------------

Init ==
  /\ hub = Nil /\ loading = Nil /\ abandoned = 0
  /\ copy = [r \in Requests |-> Blank]
  /\ rows = [dealt |-> 0, done |-> 0, record |-> 0] /\ last = PlayedAt(rows)
  /\ at = [r \in Requests |-> "new"]
  /\ mine = [r \in Requests |-> Nil] /\ lock = [r \in Requests |-> Nil]
  /\ age = [r \in Requests |-> 0]
  /\ restarts = 0

Handle(r) ==
  Recheck(r) \/ Load(r) \/ LoadFails(r) \/ Store(r) \/ Touch(r) \/ Play(r) \/ Save(r) \/ Look(r)

Next ==
  \/ \E r \in Requests : Find(r) \/ Handle(r)
  \/ Watch \/ Evict \/ Tick \/ Restart

Spec == Init /\ [][Next]_vars

\* A request's thread runs; nobody has to make one, and the watchdog may sleep
LiveSpec == Spec /\ \A r \in Requests : WF_vars(Handle(r))

-----------------------------------------------------------------------------
(* Properties *)

TypeOK ==
  /\ hub \in Requests \cup {Nil} /\ loading \in Requests \cup {Nil}
  /\ copy \in [Requests -> Copies]
  /\ abandoned \in Hands /\ rows \in Rows /\ last \in Played
  /\ at \in [Requests -> Stages]
  /\ mine \in [Requests -> Requests \cup {Nil}] /\ lock \in [Requests -> Requests \cup {Nil}]
  /\ age \in [Requests -> 0 .. RequestTime]
  /\ restarts \in 0 .. MaxRestarts

\* Whoever acts at the table acts on the copy everybody else sees: a request
\* that found it before it was evicted, or that loaded it while another did,
\* never plays on a forgotten copy (Hub.get, evict_idle: OPS-001).
OneCopy == \A r \in Requests : at[r] \in {"ready", "saving"} => mine[r] = hub

\* The table in the hub is the table as it was last played, and while none is
\* loaded the rows are: an eviction, a load, a second loader, a failed save or a
\* dropped record never takes back the outcome of a hand, its stacks (evict_idle
\* keeps a table that owes a write).  A restart may, of what was not saved: history
\* counts from the rows then.
NothingTakenBack ==
  IF hub = Nil THEN PlayedAt(rows) = last ELSE PlayedAt(copy[hub]) = last

\* A hand that vanished is accounted for: a table that is between hands, with
\* a hand dealt that was never finished, says so; and a table that says so had
\* the hand cut short, or lost its record (_load_table, _persist_safe).
SaysCut(t) == t.told.why # "none" /\ t.told.hand = t.dealt
CutHandIsTold ==
  hub # Nil /\ ~copy[hub].inHand =>
    /\ copy[hub].done < copy[hub].dealt => SaysCut(copy[hub])
    /\ SaysCut(copy[hub]) => copy[hub].done < copy[hub].dealt \/ rows.record < rows.done

\* Whoever asks for the table gets an answer, whatever loads fail (Hub.get's
\* loader locks).
EveryoneAnswered == \A r \in Requests : at[r] = "waiting" ~> at[r] \in Over

\* What _load_table tells the players of a hand that was cut short (OPS-012):
\* "the server restarted" only if it did.  Violated: the hub's own note is
\* used up by the first load, and the rows still show the hand.
RestartsAreReal ==
  restarts = 0 /\ hub # Nil => copy[hub].told.why # "restart"

\* A hand that "was cut short ... and doesn't count" was not played to its end.
\* Violated: its record may have been dropped by a save that went through otherwise
\* (_persist_safe), and everyone has the chips of after it.
CutHandsAreCut ==
  hub # Nil /\ SaysCut(copy[hub]) => copy[hub].done < copy[hub].dealt

=============================================================================
