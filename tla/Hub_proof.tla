----------------------------- MODULE Hub_proof -----------------------------
(* Proofs about the hub, for every number of requests, every limit that is   *)
(* not below RequestTime, and any number of hands and restarts.              *)
EXTENDS Hub, TLAPS

Looking == {"waiting", "loading", "loaded", "found"}
Acting == {"ready", "saving"}

Idle(c) == copy[c].idle

\* A request that found a copy found the hub's; a copy that is still being
\* loaded is nobody's
FoundIsHubs ==
  /\ \A r \in Requests : at[r] \in {"found"} \cup Acting => hub # Nil /\ mine[r] = hub
  /\ \A r \in Requests : at[r] \in {"new", "waiting", "loading", "loaded"} => hub # r

\* The table was looked at since any request under way began, or a request
\* that is about to look at it began before
SeenSince ==
  /\ \A r \in Requests : at[r] = "loaded" => Idle(r) <= age[r]
  /\ \A r \in Requests : at[r] \in Acting => Idle(hub) <= age[r]
  /\ hub # Nil => \A r \in Requests : at[r] \in Looking =>
       \/ Idle(hub) <= age[r]
       \/ \E s \in Requests : at[s] = "found" /\ Idle(hub) <= age[s]

\* A copy that was just loaded from the rows d
LoadedFrom(t, d) ==
  /\ PlayedAt(t) = PlayedAt(d) /\ ~t.dirty /\ ~t.inHand /\ t.unsaved = {}
  /\ t.told.hand <= t.dealt /\ (SaysCut(t) <=> d.record < d.dealt)

\* What is loaded is what was saved, as long as no copy is in the hub; and what
\* is in the hub is what was saved, unless a write is owed or under way
RowsAreRead ==
  /\ hub = Nil => \A r \in Requests : at[r] = "loaded" => LoadedFrom(copy[r], rows)
  /\ hub # Nil /\ ~copy[hub].dirty /\ (\A r \in Requests : at[r] # "saving")
       => PlayedAt(copy[hub]) = PlayedAt(rows)

\* No hand has a record before it is over, nor is over before it is dealt
InOrder(d) == d.record <= d.done /\ d.done <= d.dealt

\* A table says what the rows d bear out: of a hand it neither plays nor owes
TellsTrue(t, d) ==
  /\ t.done <= t.dealt /\ d.record <= t.done /\ \A h \in t.unsaved : h <= t.done
  /\ t.told.hand <= t.dealt
  /\ ~t.inHand /\ t.done < t.dealt => SaysCut(t)
  /\ SaysCut(t) => ~t.inHand /\ ~t.dirty /\ (t.done < t.dealt \/ d.record < d.done)
CutsAreTold ==
  /\ InOrder(rows)
  /\ hub # Nil => TellsTrue(copy[hub], rows)
  /\ hub # Nil /\ (\E r \in Requests : at[r] = "saving") => ~SaysCut(copy[hub])

IInv ==
  TypeOK /\ FoundIsHubs /\ SeenSince /\ RowsAreRead /\ CutsAreTold /\ NothingTakenBack

-----------------------------------------------------------------------------
(* Types *)

LEMMA InitType == Init => TypeOK
BY NilAssumption, TimeAssumption, BoundAssumption
   DEF Init, TypeOK, Copies, Played, PlayedAt, Rows, Hands, Reasons, Stages, Blank, Untold

LEMMA BlankType == Blank \in Copies
BY BoundAssumption, TimeAssumption DEF Blank, Untold, Copies, Hands, Reasons

\* What is done to a copy of the table leaves a copy of the table
LEMMA Edits ==
  ASSUME NEW t \in Copies
  PROVE  /\ [t EXCEPT !.idle = 0] \in Copies
         /\ [t EXCEPT !.dirty = TRUE] \in Copies
         /\ [t EXCEPT !.dirty = FALSE, !.unsaved = {}] \in Copies
         /\ t.idle <= AbandonLimit => [t EXCEPT !.idle = @ + 1] \in Copies
         /\ \A u \in Plays(t) : u \in Copies
         /\ PlayedAt(t) \in Played
<1> USE BoundAssumption, TimeAssumption
<1>1. [t EXCEPT !.idle = 0] \in Copies
  BY DEF Copies
<1>2. [t EXCEPT !.dirty = TRUE] \in Copies /\ [t EXCEPT !.dirty = FALSE, !.unsaved = {}] \in Copies
  BY DEF Copies
<1>3. ASSUME t.idle <= AbandonLimit PROVE [t EXCEPT !.idle = @ + 1] \in Copies
  BY <1>3 DEF Copies
<1>4. ASSUME NEW u \in Plays(t) PROVE u \in Copies
  <2>1. CASE u = [t EXCEPT !.dealt = @ + 1, !.inHand = TRUE, !.running = TRUE] /\ t.dealt < MaxHands
    <3>1. t.dealt + 1 \in Hands
      BY <2>1 DEF Copies, Hands
    <3> QED
      BY <2>1, <3>1 DEF Copies
  <2>2. CASE u = [t EXCEPT !.done = t.dealt, !.inHand = FALSE, !.unsaved = @ \cup {t.dealt}]
    BY <2>2 DEF Copies
  <2> QED
    BY <1>4, <2>1, <2>2 DEF Plays
<1>5. PlayedAt(t) \in Played
  BY DEF Copies, PlayedAt, Played
<1> QED
  BY <1>1, <1>2, <1>3, <1>4, <1>5

LEMMA PersistedType ==
  ASSUME copy \in [Requests -> Copies], rows \in Rows,
         NEW c \in Requests, NEW t \in Copies, Persisted(c, t)
  PROVE  copy' \in [Requests -> Copies] /\ rows' \in Rows
<1>1. ASSUME NEW lost \in SUBSET t.unsaved, Written(t, {rows.record} \cup (t.unsaved \ lost))
      PROVE  rows' \in Rows
  <2>1. t.dealt \in Hands /\ t.done \in Hands /\ {rows.record} \cup (t.unsaved \ lost) \subseteq Hands
    BY DEF Copies, Rows
  <2> QED
    BY <1>1, <2>1 DEF Written, Rows
<1> QED
  BY <1>1, Edits DEF Persisted

LEMMA LoadedType ==
  ASSUME rows \in Rows, abandoned \in Hands
  PROVE  Fresh \in Copies /\ [Fresh EXCEPT !.told = Told] \in Copies
<1>1. Fresh \in Copies
  BY BlankType DEF Fresh, Copies, Rows
<1>2. Told \in [hand : Hands, why : Reasons]
  BY DEF Told, Rows, Reasons
<1> QED
  BY <1>1, <1>2 DEF Copies

LEMMA TypeStep == TypeOK /\ FoundIsHubs /\ [Next]_vars => TypeOK'
<1> SUFFICES ASSUME TypeOK, FoundIsHubs, [Next]_vars PROVE TypeOK'
  OBVIOUS
<1> USE NilAssumption, TimeAssumption, BoundAssumption DEF TypeOK, FoundIsHubs, Acting, Stages
<1>1. ASSUME NEW r \in Requests, FindLoaded(r) PROVE TypeOK'
  BY <1>1, Edits DEF FindLoaded, Touched, requestVars
<1>2. ASSUME NEW r \in Requests, FindNone(r) PROVE TypeOK'
  BY <1>2 DEF FindNone, requestVars
<1>3. ASSUME NEW r \in Requests, Recheck(r) PROVE TypeOK'
  BY <1>3 DEF Recheck, requestVars
<1>4. ASSUME NEW r \in Requests, Load(r) PROVE TypeOK'
  BY <1>4, LoadedType DEF Load, requestVars, Hands
<1>5. ASSUME NEW r \in Requests, LoadFails(r) PROVE TypeOK'
  BY <1>5 DEF LoadFails, Retired, requestVars
<1>6. ASSUME NEW r \in Requests, Store(r) PROVE TypeOK'
  BY <1>6, BlankType DEF Store, Stored, Retired, requestVars
<1>7. ASSUME NEW r \in Requests, Touch(r) PROVE TypeOK'
  BY <1>7, Edits DEF Touch, Touched, requestVars
<1>8. ASSUME NEW r \in Requests, Play(r) PROVE TypeOK'
  <2> PICK t \in Plays(copy[mine[r]]) : copy' = [copy EXCEPT ![mine[r]] = t] /\ last' = PlayedAt(t)
    BY <1>8 DEF Play
  <2>1. t \in Copies /\ PlayedAt(t) \in Played
    BY <1>8, Edits DEF Play
  <2> QED
    BY <1>8, <2>1 DEF Play, requestVars
<1>9. ASSUME NEW r \in Requests, Save(r) PROVE TypeOK'
  <2>1. mine[r] \in Requests /\ copy[mine[r]] \in Copies
    BY <1>9 DEF Save
  <2>2. Persisted(mine[r], copy[mine[r]]) /\ Ends(r) /\ UNCHANGED <<hub, loading, abandoned, restarts, last>>
    BY <1>9, Zenon DEF Save
  <2>3. copy' \in [Requests -> Copies] /\ rows' \in Rows
    BY <2>1, <2>2, PersistedType, Zenon
  <2>4. /\ at' \in [Requests -> Stages] /\ age' \in [Requests -> 0 .. RequestTime]
        /\ mine' \in [Requests -> Requests \cup {Nil}]
        /\ lock' \in [Requests -> Requests \cup {Nil}]
    BY <2>2 DEF Ends
  <2> QED
    BY <2>2, <2>3, <2>4
<1>10. ASSUME NEW r \in Requests, Look(r) PROVE TypeOK'
  BY <1>10 DEF Look, Ends, requestVars
<1>11. CASE Watch
  <2> PICK t \in Plays(copy[hub]) \cup {copy[hub]} : Persisted(hub, t) /\ last' = PlayedAt(t)
    BY <1>11 DEF Watch
  <2>1. hub \in Requests /\ copy[hub] \in Copies
    BY <1>11 DEF Watch
  <2>2. t \in Copies
    BY <2>1, Edits
  <2>3. copy' \in [Requests -> Copies] /\ rows' \in Rows /\ last' \in Played
    BY <2>1, <2>2, PersistedType, Edits
  <2> QED
    BY <1>11, <2>3 DEF Watch, requestVars
<1>12. CASE Evict
  <2>1. copy[hub].dealt \in Hands
    BY <1>12 DEF Evict, Copies
  <2> QED
    BY <1>12, <2>1, BlankType DEF Evict, requestVars
<1>13. CASE Tick
  <2>1. copy' \in [Requests -> Copies]
    BY <1>13, Edits DEF Tick
  <2>2. age' \in [Requests -> 0 .. RequestTime]
    BY <1>13 DEF Tick
  <2> QED
    BY <1>13, <2>1, <2>2 DEF Tick
<1>14. CASE Restart
  BY <1>14, BlankType DEF Restart, UnderWay, Over, requestVars, Hands, Rows, Played, PlayedAt
<1>15. CASE UNCHANGED vars
  BY <1>15 DEF vars, requestVars
<1> QED
  BY <1>1, <1>2, <1>3, <1>4, <1>5, <1>6, <1>7, <1>8, <1>9, <1>10, <1>11, <1>12, <1>13, <1>14, <1>15 DEF Next, Find, Handle

-----------------------------------------------------------------------------
(* What the edits of a copy keep *)

\* A copy that was touched, or grew older, is the same table
LEMMA IdleKeeps ==
  ASSUME NEW t \in Copies, NEW i
  PROVE  LET u == [t EXCEPT !.idle = i]
         IN /\ u.idle = i /\ u.dirty = t.dirty /\ PlayedAt(u) = PlayedAt(t)
            /\ SaysCut(u) = SaysCut(t)
            /\ LoadedFrom(t, rows) => LoadedFrom(u, rows)
            /\ TellsTrue(t, rows) => TellsTrue(u, rows)
BY DEF Copies, PlayedAt, SaysCut, LoadedFrom, TellsTrue

\* A hand that is under way, or over, was not cut short
LEMMA PlaysKeep ==
  ASSUME NEW t \in Copies, NEW u \in Plays(t), TellsTrue(t, rows), rows \in Rows
  PROVE  u.idle = t.idle /\ TellsTrue(u, rows) /\ ~SaysCut(u)
<1>0. /\ t.dealt \in Int /\ t.done \in Int /\ t.told.hand \in Int /\ rows.record \in Int
      /\ \A h \in t.unsaved : h \in Int
  BY BoundAssumption DEF Copies, Hands, Rows
<1>1. CASE u = [t EXCEPT !.dealt = @ + 1, !.inHand = TRUE, !.running = TRUE] /\ ~t.inHand
  <2>1. /\ u.dealt = t.dealt + 1 /\ u.inHand /\ u.idle = t.idle /\ u.done = t.done
        /\ u.told = t.told /\ u.unsaved = t.unsaved
    BY <1>1 DEF Copies
  <2> QED
    BY <1>0, <2>1 DEF TellsTrue, SaysCut
<1>2. CASE u = [t EXCEPT !.done = t.dealt, !.inHand = FALSE, !.unsaved = @ \cup {t.dealt}] /\ t.inHand
  <2>1. /\ u.done = t.dealt /\ u.dealt = t.dealt /\ u.told = t.told /\ u.idle = t.idle
        /\ u.unsaved = t.unsaved \cup {t.dealt} /\ ~u.inHand
    BY <1>2 DEF Copies
  <2> QED
    BY <1>0, <1>2, <2>1 DEF TellsTrue, SaysCut
<1> QED
  BY <1>1, <1>2 DEF Plays

\* What is loaded is the rows, with a note where one is due
LEMMA LoadedIsRows ==
  ASSUME TypeOK, NEW r \in Requests, Load(r)
  PROVE  /\ \A s \in Requests \ {r} : copy'[s] = copy[s]
         /\ copy'[r].idle = 0 /\ LoadedFrom(copy'[r], rows)
<1>0. rows.dealt \in Nat
  BY BoundAssumption DEF TypeOK, Rows, Hands
<1>1. CASE CutShort
  <2>1. copy' = [copy EXCEPT ![r] = [Fresh EXCEPT !.told = Told]]
    BY <1>1 DEF Load
  <2> QED
    BY <1>0, <1>1, <2>1 DEF TypeOK, Fresh, Blank, Told, PlayedAt, LoadedFrom, SaysCut, CutShort
<1>2. CASE ~CutShort
  <2>1. copy' = [copy EXCEPT ![r] = Fresh]
    BY <1>2 DEF Load
  <2> QED
    BY <1>0, <1>2, <2>1 DEF TypeOK, Fresh, Blank, Untold, PlayedAt, LoadedFrom, SaysCut, CutShort
<1> QED
  BY <1>1, <1>2

\* and says nothing but the truth
LEMMA LoadedTells ==
  ASSUME NEW t \in Copies, rows \in Rows, InOrder(rows), LoadedFrom(t, rows)
  PROVE  TellsTrue(t, rows)
<1>1. /\ t.dealt = rows.dealt /\ t.done = rows.done
      /\ rows.dealt \in Int /\ rows.done \in Int /\ rows.record \in Int
  BY BoundAssumption DEF LoadedFrom, PlayedAt, Rows, Hands
<1> QED
  BY <1>1 DEF LoadedFrom, InOrder, TellsTrue

\* The table is evicted while nobody is under way
LEMMA EvictAlone ==
  ASSUME TypeOK, FoundIsHubs, SeenSince, Evict
  PROVE  \A r \in Requests : at[r] \notin Looking \cup Acting
<1>1. hub \in Requests /\ copy[hub].idle \in Int /\ copy[hub].idle > RequestTime
  BY TimeAssumption DEF TypeOK, Evict, Stale, Copies
<1>2. \A r \in Requests : age[r] \in Int /\ age[r] <= RequestTime
  BY TimeAssumption DEF TypeOK
<1> QED
  BY <1>1, <1>2, TimeAssumption DEF SeenSince, FoundIsHubs, Idle, Evict

-----------------------------------------------------------------------------
(* Whoever found a copy found the hub's *)

LEMMA FoundStep == IInv /\ [Next]_vars => FoundIsHubs'
<1> SUFFICES ASSUME IInv, [Next]_vars PROVE FoundIsHubs'
  OBVIOUS
<1> USE NilAssumption DEF IInv, TypeOK, FoundIsHubs, Acting, Stages
<1>1. ASSUME NEW r \in Requests, FindLoaded(r) PROVE FoundIsHubs'
  BY <1>1 DEF FindLoaded, requestVars
<1>2. ASSUME NEW r \in Requests, FindNone(r) PROVE FoundIsHubs'
  BY <1>2 DEF FindNone, requestVars
<1>3. ASSUME NEW r \in Requests, Recheck(r) PROVE FoundIsHubs'
  BY <1>3 DEF Recheck, requestVars
<1>4. ASSUME NEW r \in Requests, Load(r) PROVE FoundIsHubs'
  BY <1>4 DEF Load, requestVars
<1>5. ASSUME NEW r \in Requests, LoadFails(r) PROVE FoundIsHubs'
  BY <1>5 DEF LoadFails, requestVars
<1>6. ASSUME NEW r \in Requests, Store(r) PROVE FoundIsHubs'
  BY <1>6 DEF Store, Stored, requestVars
<1>7. ASSUME NEW r \in Requests, Touch(r) PROVE FoundIsHubs'
  BY <1>7 DEF Touch, requestVars
<1>8. ASSUME NEW r \in Requests, Play(r) PROVE FoundIsHubs'
  BY <1>8 DEF Play, requestVars
<1>9. ASSUME NEW r \in Requests, Save(r) PROVE FoundIsHubs'
  BY <1>9 DEF Save, Ends, requestVars
<1>10. ASSUME NEW r \in Requests, Look(r) PROVE FoundIsHubs'
  BY <1>10 DEF Look, Ends, requestVars
<1>11. CASE Watch
  BY <1>11 DEF Watch, requestVars
<1>12. CASE Evict
  BY <1>12, EvictAlone DEF Evict, requestVars, Looking
<1>13. CASE Tick
  BY <1>13 DEF Tick, requestVars
<1>14. CASE Restart
  BY <1>14 DEF Restart, UnderWay, Over, requestVars
<1>15. CASE UNCHANGED vars
  BY <1>15 DEF vars, requestVars
<1> QED
  BY <1>1, <1>2, <1>3, <1>4, <1>5, <1>6, <1>7, <1>8, <1>9, <1>10, <1>11, <1>12, <1>13, <1>14, <1>15 DEF Next, Find, Handle

-----------------------------------------------------------------------------
(* What a step does to the copies *)

\* A touched copy was looked at just now
LEMMA TouchIs ==
  ASSUME TypeOK, NEW c \in Requests, copy' = Touched(c)
  PROVE  /\ copy'[c].idle = 0 /\ copy'[c].dirty = copy[c].dirty
         /\ PlayedAt(copy'[c]) = PlayedAt(copy[c])
         /\ SaysCut(copy'[c]) = SaysCut(copy[c])
         /\ TellsTrue(copy[c], rows) => TellsTrue(copy'[c], rows)
         /\ \A s \in Requests \ {c} : copy'[s] = copy[s]
BY IdleKeeps DEF TypeOK, Touched

\* A copy that plays or is saved was looked at as long ago as before
LEMMA PlayIs ==
  ASSUME TypeOK, FoundIsHubs, CutsAreTold, NEW r \in Requests, Play(r)
  PROVE  /\ copy'[hub].idle = copy[hub].idle
         /\ TellsTrue(copy'[hub], rows) /\ ~SaysCut(copy'[hub])
         /\ PlayedAt(copy'[hub]) = last'
         /\ \A s \in Requests \ {hub} : copy'[s] = copy[s]
<1>1. hub \in Requests /\ mine[r] = hub /\ copy[hub] \in Copies /\ rows \in Rows
  BY DEF TypeOK, FoundIsHubs, Acting, Play
<1>2. TellsTrue(copy[hub], rows)
  BY <1>1, NilAssumption DEF CutsAreTold
<1> PICK t \in Plays(copy[hub]) : copy' = [copy EXCEPT ![hub] = t] /\ last' = PlayedAt(t)
  BY <1>1 DEF Play
<1> QED
  BY <1>1, <1>2, PlaysKeep DEF TypeOK

LEMMA PersistedIs ==
  ASSUME TypeOK, NEW c \in Requests, NEW t \in Copies, Persisted(c, t),
         InOrder(rows), TellsTrue(t, rows), ~SaysCut(t)
  PROVE  /\ copy'[c].idle = t.idle /\ PlayedAt(copy'[c]) = PlayedAt(t)
         /\ TellsTrue(copy'[c], rows') /\ ~SaysCut(copy'[c]) /\ InOrder(rows')
         /\ copy'[c].dirty \/ PlayedAt(rows') = PlayedAt(t)
         /\ \A s \in Requests \ {c} : copy'[s] = copy[s]
<1>1. ASSUME NEW lost \in SUBSET t.unsaved, Written(t, {rows.record} \cup (t.unsaved \ lost)),
             copy' = [copy EXCEPT ![c] = [t EXCEPT !.dirty = FALSE, !.unsaved = {}]]
      PROVE  /\ copy'[c].idle = t.idle /\ PlayedAt(copy'[c]) = PlayedAt(t)
             /\ TellsTrue(copy'[c], rows') /\ ~SaysCut(copy'[c]) /\ InOrder(rows')
             /\ PlayedAt(rows') = PlayedAt(t)
             /\ \A s \in Requests \ {c} : copy'[s] = copy[s]
  <2> DEFINE u == copy'[c]
  <2>1. /\ u.idle = t.idle /\ u.dealt = t.dealt /\ u.done = t.done /\ u.inHand = t.inHand
        /\ u.told = t.told /\ u.unsaved = {} /\ u.dirty = FALSE
        /\ \A s \in Requests \ {c} : copy'[s] = copy[s]
    BY <1>1 DEF TypeOK, Copies
  <2>2. rows'.dealt = t.dealt /\ rows'.done = t.done /\ rows'.record <= t.done
    BY <1>1 DEF Written, TellsTrue
  <2> HIDE DEF u
  <2>3. TellsTrue(u, rows') /\ ~SaysCut(u)
    BY <2>1, <2>2 DEF TellsTrue, SaysCut
  <2>4. InOrder(rows') /\ PlayedAt(rows') = PlayedAt(t) /\ PlayedAt(u) = PlayedAt(t)
    BY <2>1, <2>2 DEF InOrder, TellsTrue, PlayedAt
  <2> QED
    BY <2>1, <2>3, <2>4 DEF u
<1>2. ASSUME copy' = [copy EXCEPT ![c] = [t EXCEPT !.dirty = TRUE]], UNCHANGED rows
      PROVE  /\ copy'[c].idle = t.idle /\ PlayedAt(copy'[c]) = PlayedAt(t)
             /\ TellsTrue(copy'[c], rows') /\ ~SaysCut(copy'[c]) /\ InOrder(rows')
             /\ copy'[c].dirty /\ \A s \in Requests \ {c} : copy'[s] = copy[s]
  <2> DEFINE u == copy'[c]
  <2>1. /\ u.idle = t.idle /\ u.dealt = t.dealt /\ u.done = t.done /\ u.inHand = t.inHand
        /\ u.told = t.told /\ u.unsaved = t.unsaved /\ u.dirty
        /\ \A s \in Requests \ {c} : copy'[s] = copy[s]
    BY <1>2 DEF TypeOK, Copies
  <2> HIDE DEF u
  <2>2. TellsTrue(u, rows) /\ ~SaysCut(u) /\ PlayedAt(u) = PlayedAt(t)
    BY <2>1 DEF TellsTrue, SaysCut, PlayedAt
  <2>3. rows' = rows
    BY <1>2
  <2> QED
    BY <2>1, <2>2, <2>3 DEF u
<1> QED
  BY <1>1, <1>2 DEF Persisted

LEMMA SaveIs ==
  ASSUME TypeOK, FoundIsHubs, CutsAreTold, NEW r \in Requests, Save(r)
  PROVE  /\ hub \in Requests /\ Persisted(hub, copy[hub]) /\ copy[hub] \in Copies
         /\ InOrder(rows) /\ TellsTrue(copy[hub], rows) /\ ~SaysCut(copy[hub])
         /\ Ends(r) /\ UNCHANGED <<hub, loading, abandoned, restarts, last>>
<1>1. hub \in Requests /\ mine[r] = hub /\ copy[hub] \in Copies /\ at[r] = "saving"
  BY DEF TypeOK, FoundIsHubs, Acting, Save
<1>2. InOrder(rows) /\ TellsTrue(copy[hub], rows) /\ ~SaysCut(copy[hub])
  BY <1>1, NilAssumption DEF CutsAreTold
<1> QED
  BY <1>1, <1>2, Zenon DEF Save

LEMMA WatchIs ==
  ASSUME TypeOK, CutsAreTold, Watch
  PROVE  /\ copy'[hub].idle = copy[hub].idle /\ InOrder(rows')
         /\ TellsTrue(copy'[hub], rows') /\ ~SaysCut(copy'[hub])
         /\ PlayedAt(copy'[hub]) = last' /\ (copy'[hub].dirty \/ PlayedAt(rows') = last')
         /\ \A s \in Requests \ {hub} : copy'[s] = copy[s]
<1>1. hub \in Requests /\ copy[hub] \in Copies /\ rows \in Rows
  BY DEF TypeOK, Watch
<1>2. InOrder(rows) /\ TellsTrue(copy[hub], rows)
  BY <1>1, NilAssumption DEF CutsAreTold
<1> PICK t \in Plays(copy[hub]) \cup {u \in {copy[hub]} : u.dirty} :
           Persisted(hub, t) /\ last' = PlayedAt(t)
  BY DEF Watch
<1>3. t \in Copies /\ t.idle = copy[hub].idle /\ TellsTrue(t, rows) /\ ~SaysCut(t)
  <2>1. CASE t \in Plays(copy[hub])
    BY <1>1, <1>2, <2>1, Edits, PlaysKeep
  <2>2. CASE t = copy[hub] /\ t.dirty
    BY <1>1, <1>2, <2>2 DEF TellsTrue
  <2> QED
    BY <2>1, <2>2
<1> QED
  BY <1>1, <1>2, <1>3, PersistedIs

-----------------------------------------------------------------------------
(* The table was seen since whoever is under way began *)

LEMMA SeenStep == IInv /\ [Next]_vars => SeenSince'
<1> SUFFICES ASSUME IInv, [Next]_vars PROVE SeenSince'
  OBVIOUS
<1>0. /\ \A c \in Requests : copy[c].idle \in Nat /\ age[c] \in Nat
      /\ at \in [Requests -> Stages] /\ hub \in Requests \cup {Nil} /\ age \in [Requests -> Nat]
      /\ mine \in [Requests -> Requests \cup {Nil}]
  BY TimeAssumption DEF IInv, TypeOK, Copies
<1> USE <1>0, NilAssumption DEF SeenSince, Looking, Acting, Idle
<1>1. ASSUME NEW r \in Requests, FindLoaded(r) PROVE SeenSince'
  BY <1>1, TouchIs DEF IInv, FindLoaded
<1>2. ASSUME NEW r \in Requests, FindNone(r) PROVE SeenSince'
  BY <1>2 DEF IInv, FindNone
<1>3. ASSUME NEW r \in Requests, Recheck(r) PROVE SeenSince'
  BY <1>3 DEF IInv, Recheck
<1>4. ASSUME NEW r \in Requests, Load(r) PROVE SeenSince'
  <2>1. /\ copy'[r].idle = 0 /\ at' = [at EXCEPT ![r] = "loaded"] /\ UNCHANGED <<hub, age>>
        /\ \A s \in Requests \ {r} : copy'[s] = copy[s]
        /\ hub # r /\ at[r] = "loading"
    BY <1>4, LoadedIsRows DEF IInv, Load, FoundIsHubs
  <2> QED
    BY <2>1 DEF IInv, FoundIsHubs
<1>5. ASSUME NEW r \in Requests, LoadFails(r) PROVE SeenSince'
  BY <1>5 DEF IInv, LoadFails
<1>6. ASSUME NEW r \in Requests, Store(r) PROVE SeenSince'
  BY <1>6 DEF IInv, Store, Stored, FoundIsHubs
<1>7. ASSUME NEW r \in Requests, Touch(r) PROVE SeenSince'
  BY <1>7, TouchIs DEF IInv, Touch, FoundIsHubs
<1>8. ASSUME NEW r \in Requests, Play(r) PROVE SeenSince'
  BY <1>8, PlayIs DEF IInv, Play, FoundIsHubs
<1>9. ASSUME NEW r \in Requests, Save(r) PROVE SeenSince'
  <2>1. /\ copy'[hub].idle = copy[hub].idle /\ \A s \in Requests \ {hub} : copy'[s] = copy[s]
        /\ hub \in Requests /\ hub' = hub /\ Ends(r) /\ at[r] = "saving"
    BY <1>9, SaveIs, PersistedIs DEF IInv, Save
  <2> QED
    BY <2>1 DEF IInv, FoundIsHubs, Ends
<1>10. ASSUME NEW r \in Requests, Look(r) PROVE SeenSince'
  BY <1>10 DEF IInv, Look, Ends
<1>11. CASE Watch
  BY <1>11, WatchIs DEF IInv, Watch, requestVars, FoundIsHubs
<1>12. CASE Evict
  BY <1>12, EvictAlone DEF IInv, Evict, requestVars
<1>13. CASE Tick
  <2>1. \A c \in Requests : copy'[c].idle \in Nat /\ copy'[c].idle <= copy[c].idle + 1
    BY <1>13, IdleKeeps DEF IInv, TypeOK, Tick
  <2>2. /\ UNCHANGED <<hub, at>>
        /\ \A s \in Requests : at[s] \in Looking \cup Acting => age'[s] = age[s] + 1
    BY <1>13 DEF Tick, UnderWay, Over
  <2> QED
    BY <2>1, <2>2 DEF IInv, FoundIsHubs
<1>14. CASE Restart
  BY <1>14 DEF IInv, Restart, UnderWay, Over
<1>15. CASE UNCHANGED vars
  BY <1>15 DEF IInv, vars, requestVars
<1> QED
  BY <1>1, <1>2, <1>3, <1>4, <1>5, <1>6, <1>7, <1>8, <1>9, <1>10, <1>11, <1>12, <1>13, <1>14, <1>15 DEF Next, Find, Handle

\* Growing older changes no table
LEMMA TickIs ==
  ASSUME TypeOK, Tick, NEW c \in Requests
  PROVE  /\ copy'[c].dirty = copy[c].dirty /\ PlayedAt(copy'[c]) = PlayedAt(copy[c])
         /\ SaysCut(copy'[c]) = SaysCut(copy[c])
         /\ LoadedFrom(copy[c], rows) => LoadedFrom(copy'[c], rows)
         /\ TellsTrue(copy[c], rows) => TellsTrue(copy'[c], rows)
BY IdleKeeps DEF TypeOK, Tick

-----------------------------------------------------------------------------
(* Nothing is taken back, and what was cut short is told *)

LEMMA RowsStep == IInv /\ [Next]_vars => (RowsAreRead /\ NothingTakenBack)'
<1> SUFFICES ASSUME IInv, [Next]_vars PROVE (RowsAreRead /\ NothingTakenBack)'
  OBVIOUS
<1>0. /\ at \in [Requests -> Stages] /\ hub \in Requests \cup {Nil}
      /\ mine \in [Requests -> Requests \cup {Nil}]
  BY DEF IInv, TypeOK
<1> USE <1>0, NilAssumption DEF RowsAreRead, NothingTakenBack, Looking, Acting
<1>1. ASSUME NEW r \in Requests, FindLoaded(r) PROVE (RowsAreRead /\ NothingTakenBack)'
  BY <1>1, TouchIs DEF IInv, FindLoaded
<1>2. ASSUME NEW r \in Requests, FindNone(r) PROVE (RowsAreRead /\ NothingTakenBack)'
  BY <1>2 DEF IInv, FindNone
<1>3. ASSUME NEW r \in Requests, Recheck(r) PROVE (RowsAreRead /\ NothingTakenBack)'
  BY <1>3 DEF IInv, Recheck
<1>4. ASSUME NEW r \in Requests, Load(r) PROVE (RowsAreRead /\ NothingTakenBack)'
  BY <1>4, LoadedIsRows DEF IInv, Load, FoundIsHubs
<1>5. ASSUME NEW r \in Requests, LoadFails(r) PROVE (RowsAreRead /\ NothingTakenBack)'
  BY <1>5 DEF IInv, LoadFails
<1>6. ASSUME NEW r \in Requests, Store(r) PROVE (RowsAreRead /\ NothingTakenBack)'
  BY <1>6 DEF IInv, Store, Stored, FoundIsHubs, LoadedFrom
<1>7. ASSUME NEW r \in Requests, Touch(r) PROVE (RowsAreRead /\ NothingTakenBack)'
  BY <1>7, TouchIs DEF IInv, Touch, FoundIsHubs
<1>8. ASSUME NEW r \in Requests, Play(r) PROVE (RowsAreRead /\ NothingTakenBack)'
  BY <1>8, PlayIs DEF IInv, Play, FoundIsHubs
<1>9. ASSUME NEW r \in Requests, Save(r) PROVE (RowsAreRead /\ NothingTakenBack)'
  BY <1>9, SaveIs, PersistedIs DEF IInv, FoundIsHubs, Ends
<1>10. ASSUME NEW r \in Requests, Look(r) PROVE (RowsAreRead /\ NothingTakenBack)'
  BY <1>10 DEF IInv, Look, Ends
<1>11. CASE Watch
  BY <1>11, WatchIs DEF IInv, Watch, requestVars, FoundIsHubs
<1>12. CASE Evict
  BY <1>12, EvictAlone DEF IInv, Evict, Stale, requestVars
<1>13. CASE Tick
  BY <1>13, TickIs DEF IInv, Tick
<1>14. CASE Restart
  BY <1>14 DEF IInv, Restart, UnderWay, Over
<1>15. CASE UNCHANGED vars
  BY <1>15 DEF IInv, vars, requestVars
<1> QED
  BY <1>1, <1>2, <1>3, <1>4, <1>5, <1>6, <1>7, <1>8, <1>9, <1>10, <1>11, <1>12, <1>13, <1>14, <1>15 DEF Next, Find, Handle

LEMMA CutsStep == IInv /\ [Next]_vars => CutsAreTold'
<1> SUFFICES ASSUME IInv, [Next]_vars PROVE CutsAreTold'
  OBVIOUS
<1>0. /\ at \in [Requests -> Stages] /\ hub \in Requests \cup {Nil}
      /\ mine \in [Requests -> Requests \cup {Nil}]
  BY DEF IInv, TypeOK
<1> USE <1>0, NilAssumption DEF CutsAreTold, Looking, Acting
<1>1. ASSUME NEW r \in Requests, FindLoaded(r) PROVE CutsAreTold'
  BY <1>1, TouchIs DEF IInv, FindLoaded
<1>2. ASSUME NEW r \in Requests, FindNone(r) PROVE CutsAreTold'
  BY <1>2 DEF IInv, FindNone
<1>3. ASSUME NEW r \in Requests, Recheck(r) PROVE CutsAreTold'
  BY <1>3 DEF IInv, Recheck
<1>4. ASSUME NEW r \in Requests, Load(r) PROVE CutsAreTold'
  BY <1>4, LoadedIsRows DEF IInv, Load, FoundIsHubs
<1>5. ASSUME NEW r \in Requests, LoadFails(r) PROVE CutsAreTold'
  BY <1>5 DEF IInv, LoadFails
<1>6. ASSUME NEW r \in Requests, Store(r) PROVE CutsAreTold'
  <2>1. CASE hub = Nil
    <3>1. r \in Requests /\ copy[r] \in Copies /\ copy' = copy /\ hub' = r /\ rows' = rows
      BY <1>6, <2>1 DEF IInv, TypeOK, Store, Stored
    <3>2. InOrder(rows) /\ TellsTrue(copy[r], rows)
      BY <1>6, <2>1, <3>1, LoadedTells DEF IInv, TypeOK, RowsAreRead, Store
    <3>3. \A q \in Requests : at'[q] # "saving"
      BY <1>6, <2>1 DEF IInv, FoundIsHubs, Store
    <3> QED
      BY <3>1, <3>2, <3>3
  <2>2. CASE hub # Nil
    <3>1. hub' = hub /\ rows' = rows /\ copy'[hub] = copy[hub]
      BY <1>6, <2>2 DEF IInv, TypeOK, Store, Stored, FoundIsHubs
    <3>2. \A q \in Requests : at'[q] = "saving" => at[q] = "saving"
      BY <1>6 DEF Store
    <3>3. InOrder(rows) /\ TellsTrue(copy[hub], rows)
      BY <2>2 DEF IInv
    <3>4. (\E q \in Requests : at[q] = "saving") => ~SaysCut(copy[hub])
      BY <2>2 DEF IInv
    <3> QED
      BY <2>2, <3>1, <3>2, <3>3, <3>4
  <2> QED
    BY <2>1, <2>2
<1>7. ASSUME NEW r \in Requests, Touch(r) PROVE CutsAreTold'
  BY <1>7, TouchIs DEF IInv, Touch, FoundIsHubs
<1>8. ASSUME NEW r \in Requests, Play(r) PROVE CutsAreTold'
  BY <1>8, PlayIs DEF IInv, Play, FoundIsHubs
<1>9. ASSUME NEW r \in Requests, Save(r) PROVE CutsAreTold'
  BY <1>9, SaveIs, PersistedIs DEF IInv, FoundIsHubs, Ends
<1>10. ASSUME NEW r \in Requests, Look(r) PROVE CutsAreTold'
  BY <1>10 DEF IInv, Look, Ends
<1>11. CASE Watch
  BY <1>11, WatchIs DEF IInv, Watch, requestVars, FoundIsHubs
<1>12. CASE Evict
  BY <1>12, EvictAlone DEF IInv, Evict, Stale, requestVars
<1>13. CASE Tick
  BY <1>13, TickIs DEF IInv, Tick
<1>14. CASE Restart
  BY <1>14 DEF IInv, Restart, UnderWay, Over
<1>15. CASE UNCHANGED vars
  BY <1>15 DEF IInv, vars, requestVars
<1> QED
  BY <1>1, <1>2, <1>3, <1>4, <1>5, <1>6, <1>7, <1>8, <1>9, <1>10, <1>11, <1>12, <1>13, <1>14, <1>15 DEF Next, Find, Handle

-----------------------------------------------------------------------------
(* Theorems *)

LEMMA IInvInit == Init => IInv
<1> SUFFICES ASSUME Init PROVE IInv
  OBVIOUS
<1> QED
  BY InitType, NilAssumption
     DEF Init, IInv, FoundIsHubs, SeenSince, RowsAreRead, CutsAreTold, InOrder, NothingTakenBack,
         Looking, Acting

LEMMA IInvStep == IInv /\ [Next]_vars => IInv'
BY TypeStep, FoundStep, SeenStep, RowsStep, CutsStep DEF IInv

LEMMA Invariance == Spec => []IInv
BY IInvInit, IInvStep, PTL DEF Spec

\* The hub's state has its types.
THEOREM TypeTheorem == Spec => []TypeOK
<1>1. IInv => TypeOK
  BY DEF IInv
<1> QED
  BY <1>1, Invariance, PTL

\* Every request that acts, acts on the copy in the hub: no eviction, no failed
\* load and no second loader ever leaves a request with a table of its own, as
\* long as no request takes longer than the shortest limit of evict_idle.
THEOREM OneCopyTheorem == Spec => []OneCopy
<1>1. IInv => OneCopy
  BY DEF IInv, FoundIsHubs, OneCopy, Acting
<1> QED
  BY <1>1, Invariance, PTL

\* No eviction, load, second loader or failed write takes back the outcome of a
\* hand that was dealt or finished, with its record or, if that is dropped, without.
THEOREM NothingTakenBackTheorem == Spec => []NothingTakenBack
<1>1. IInv => NothingTakenBack
  BY DEF IInv
<1> QED
  BY <1>1, Invariance, PTL

\* A table whose last hand was cut short says so when it is loaded, and one that
\* says so had it cut short, or its record dropped by a save.
THEOREM CutHandTheorem == Spec => []CutHandIsTold
<1>1. IInv => CutHandIsTold
  BY DEF IInv, CutsAreTold, TellsTrue, CutHandIsTold
<1> QED
  BY <1>1, Invariance, PTL

=============================================================================
