------------------------- MODULE FairShuffle_proof -------------------------
(* Proofs about the shuffle.  Every handler does one of nine things to the   *)
(* deck (Effect below): Lemma StepHasEffect says which, and each theorem is  *)
(* then a matter of the nine effects.                                        *)
EXTENDS FairShuffle, TLAPS

SeatMap == [Seats -> Users \cup {Nobody}]

\* b is by, or by with one more commitment
Committing(b) ==
  \/ b = by
  \/ \E u \in Users, i \in Seats :
       /\ stage = "commit" /\ u \notin barred /\ ~Benched(u)
       /\ b = [by EXCEPT ![i] = u]

Tally == strikes' = strikes \/ \E u \in Users : strikes' = [strikes EXCEPT ![u] = 0]

Voids == \E silent \in SUBSET Seats, wanted \in BOOLEAN : Void(silent, wanted)
Deals ==
  /\ open /\ ~inHand /\ Tally
  /\ \E b, mask, list, shown :
       /\ list = shown \/ (lock \subseteq revealed /\ list = lock /\ shown = revealed)
       /\ list = {} \/ (list = lock /\ b = by)
       /\ DealDeck(b, mask, list, shown)
Fails ==
  /\ NewDeck /\ Tally
  /\ attempt' = IF attempt < MaxAttempts THEN attempt + 1 ELSE attempt
  /\ pending' = FALSE
  /\ UNCHANGED <<inHand, handNo, barred, named, benched, seenVars>>
Keeps == stage = "commit" /\ pending' \in BOOLEAN /\ \E b : Committing(b) /\ KeepDeck(b)
LocksList ==
  /\ stage = "commit"
  /\ \E b : \E mask \in SUBSET Seats, here \in SUBSET Users :
       Committing(b) /\ LockList(b, Locks(b, mask, here))
Shows ==
  /\ Tally
  /\ \E i \in lock : revealed' = revealed \cup {i}
  /\ UNCHANGED <<inHand, handNo, attempt, stage, by, lock, pending, barred, named,
                 benched, seenVars>>
Drops ==
  /\ \E i \in Seats : stage = "commit" /\ by' = [by EXCEPT ![i] = Nobody]
  /\ UNCHANGED <<inHand, handNo, attempt, stage, lock, revealed, pending, barred, named,
                 tallyVars, seenVars>>
Starts ==
  /\ FirstDeck /\ inHand' = FALSE
  /\ strikes' \in {strikes, [u \in Users |-> 0]}
  /\ benched' \in {benched, [u \in Users |-> 0]}
  /\ UNCHANGED <<handNo, seenVars>>
  /\ ~open' \/ restarts' # 0
Stays ==
  /\ inHand' \in {inHand, FALSE}
  /\ UNCHANGED <<handNo, deckVars, tallyVars, seenVars>>

Effect ==
  Voids \/ Deals \/ Fails \/ Keeps \/ LocksList \/ Shows \/ Drops \/ Starts \/ Stays

\* A list is published only for a deal that is waiting
RevealWaits == stage = "reveal" => pending

(* A seated player's seat is a seat. *)
LEMMA SeatOfSeated == ASSUME NEW u \in Seated PROVE SeatOf(u) \in Seats /\ occ[SeatOf(u)] = u
  BY DEF Seated, SeatOf

(* A tick of the watchdog, or of a commitment, has one of the effects. *)
LEMMA TickHasEffect ==
  ASSUME TypeOK, NEW b, Committing(b), b = by \/ stage = "commit", NEW able,
         NEW mask \in SUBSET Seats, NEW here \in SUBSET Users, NEW late \in BOOLEAN,
         Ticked(b, able, mask, here, late)
  PROVE  Effect
<1>1. CASE ~open \/ ~running \/ inHand
  <2>1. CalledOff(b) BY <1>1 DEF Ticked
  <2>2. CASE stage = "reveal"
    <3>1. Void({}, FALSE) BY <2>1, <2>2 DEF CalledOff
    <3> QED BY <3>1 DEF Effect, Voids
  <2>3. CASE stage # "reveal"
    BY <2>1, <2>3 DEF CalledOff, Effect, Keeps, TypeOK
  <2> QED BY <2>2, <2>3
<1>2. CASE open /\ running /\ ~inHand /\ stage = "reveal"
  <2>1. CASE lock \subseteq revealed
    <3>1. Complete(by, mask, lock, revealed) /\ UNCHANGED strikes
      BY <1>2, <2>1 DEF Ticked
    <3>2. CASE DealDeck(by, mask, lock, revealed)
      BY <1>2, <2>1, <3>1, <3>2 DEF Effect, Deals, Tally
    <3>3. CASE ~DealDeck(by, mask, lock, revealed)
      BY <3>1, <3>3 DEF Complete, Effect, Fails, Tally
    <3> QED BY <3>2, <3>3
  <2>2. CASE ~(lock \subseteq revealed)
    <3>1. Void(lock \ revealed, TRUE) BY <1>2, <2>2 DEF Ticked
    <3>2. lock \ revealed \in SUBSET Seats BY DEF TypeOK
    <3> QED BY <3>1, <3>2 DEF Effect, Voids
  <2> QED BY <2>1, <2>2
<1>3. CASE open /\ running /\ ~inHand /\ stage # "reveal"
  <2>0. stage = "commit" BY <1>3 DEF TypeOK
  <2>1. CASE Missing(b, able, mask, here) # {} /\ ~late
    <3>1. KeepDeck(b) /\ UNCHANGED pending BY <1>3, <2>1 DEF Ticked
    <3> QED BY <2>0, <3>1 DEF Effect, Keeps, TypeOK
  <2>2. CASE LockList(b, Locks(b, mask, here))
    BY <2>0, <2>2 DEF Effect, LocksList
  <2>3. CASE Complete(b, mask, {}, {}) /\ UNCHANGED strikes
    <3>1. CASE DealDeck(b, mask, {}, {})
      BY <1>3, <2>3, <3>1 DEF Effect, Deals, Tally
    <3>2. CASE ~DealDeck(b, mask, {}, {})
      BY <2>3, <3>2 DEF Complete, Effect, Fails, Tally
    <3> QED BY <3>1, <3>2
  <2> QED BY <1>3, <2>1, <2>2, <2>3 DEF Ticked
<1> QED BY <1>1, <1>2, <1>3

(* So has a deal that is asked for. *)
LEMMA DealingHasEffect ==
  ASSUME TypeOK, RevealWaits, open, NEW mask \in SUBSET Seats, NEW here \in SUBSET Users,
         Dealing(mask, here)
  PROVE  Effect
<1>0. stage = "commit" BY DEF Dealing, RevealWaits, TypeOK
<1>1. CASE pending' = TRUE /\ KeepDeck(by)
  BY <1>0, <1>1 DEF Effect, Keeps, Committing
<1>2. CASE stage = "commit" /\ LockList(by, Locks(by, mask, here))
  BY <1>2 DEF Effect, LocksList, Committing
<1>3. CASE DealDeck(by, mask, {}, {}) /\ UNCHANGED strikes
  BY <1>3 DEF Dealing, Effect, Deals, Tally
<1> QED BY <1>0, <1>1, <1>2, <1>3 DEF Dealing

(* Every step of the shuffle has one of the effects. *)
LEMMA StepHasEffect ==
  ASSUME TypeOK, RevealWaits, Next PROVE Effect
<1>0. \A mask \in Masks : mask \in SUBSET Seats BY DEF Masks, Occupied
<1>1. ASSUME NEW u \in Users, NEW mask \in Masks, NEW here \in SUBSET Users,
             NEW late \in BOOLEAN, Commit(u, mask, here, late)
      PROVE  Effect
  <2> DEFINE b == [by EXCEPT ![SeatOf(u)] = u]
             able == capable \cup {u}
  <2>1. Committing(b) /\ stage = "commit"
    BY <1>1, SeatOfSeated DEF Commit, Committing
  <2>2. CASE pending
    <3>1. Ticked(b, able, mask, here, late) BY <1>1, <2>2 DEF Commit
    <3> HIDE DEF b, able
    <3> QED BY <1>0, <2>1, <3>1, TickHasEffect
  <2>3. CASE ~pending
    <3>1. KeepDeck(b) /\ UNCHANGED pending BY <1>1, <2>3 DEF Commit
    <3> QED BY <2>1, <3>1 DEF Effect, Keeps, TypeOK
  <2> QED BY <2>2, <2>3
<1>2. ASSUME NEW u \in Users, NEW i \in Seats, NEW mask \in Masks, Reveal(u, i, mask)
      PROVE  Effect
  <2>0. Tally BY <1>2 DEF Reveal, Tally
  <2>1. CASE lock = revealed \cup {i}
    <3>1. Complete(by, mask, lock, lock) BY <1>2, <2>1 DEF Reveal
    <3>2. CASE open /\ ~inHand /\ DealDeck(by, mask, lock, lock)
      BY <2>0, <3>2 DEF Effect, Deals
    <3>3. CASE ~(open /\ ~inHand /\ DealDeck(by, mask, lock, lock))
      BY <2>0, <3>1, <3>3 DEF Complete, Effect, Fails
    <3> QED BY <3>2, <3>3
  <2>2. CASE lock # revealed \cup {i}
    BY <1>2, <2>0, <2>2 DEF Reveal, Effect, Shows
  <2> QED BY <2>1, <2>2
<1>3. ASSUME NEW mask \in Masks, NEW here \in SUBSET Users, Deal(mask, here)
      PROVE  Effect
  BY <1>0, <1>3, DealingHasEffect DEF Deal
<1>4. ASSUME NEW mask \in Masks, NEW here \in SUBSET Users, NEW late \in BOOLEAN,
             Tick(mask, here, late)
      PROVE  Effect
  BY <1>0, <1>4, TickHasEffect DEF Tick, Committing
<1>5. ASSUME NEW on \in BOOLEAN, NEW mask \in Masks, NEW here \in SUBSET Users,
             SetRunning(on, mask, here)
      PROVE  Effect
  <2>1. CASE CalledOff(by)
    <3>1. CASE stage = "reveal"
      BY <2>1, <3>1 DEF CalledOff, Effect, Voids
    <3>2. CASE stage # "reveal"
      BY <2>1, <3>2 DEF CalledOff, Effect, Keeps, Committing, TypeOK
    <3> QED BY <3>1, <3>2
  <2>2. CASE UNCHANGED <<inHand, handNo, deckVars, tallyVars, seenVars>>
    BY <2>2 DEF Effect, Stays
  <2>3. CASE Dealing(mask, here)
    BY <1>0, <1>5, <2>3, DealingHasEffect DEF SetRunning
  <2> QED BY <1>5, <2>1, <2>2, <2>3 DEF SetRunning
<1>6. ASSUME NEW u \in Users, NEW j \in Seats, Move(u, j) PROVE Effect
  <2>1. CASE stage = "commit" /\ by[SeatOf(u)] = u
    BY <1>6, <2>1, SeatOfSeated DEF Move, Effect, Drops
  <2>2. CASE ~(stage = "commit" /\ by[SeatOf(u)] = u)
    BY <1>6, <2>2 DEF Move, Effect, Stays, deckVars
  <2> QED BY <2>1, <2>2
<1>7. ASSUME (\E u \in Users, i \in Seats : Sit(u, i)) \/ (\E u \in Users : Leave(u)) \/ EndHand
      PROVE  Effect
  BY <1>7 DEF Sit, Leave, EndHand, Effect, Stays, deckVars, tallyVars, seenVars
<1>8. ASSUME Resize PROVE Effect
  BY <1>8 DEF Resize, Effect, Voids
<1>9. ASSUME Close \/ Restart PROVE Effect
  BY <1>9 DEF Close, Restart, Effect, Starts, tallyVars, TypeOK
<1> QED BY <1>1, <1>2, <1>3, <1>4, <1>5, <1>6, <1>7, <1>8, <1>9 DEF Next

-----------------------------------------------------------------------------
(* The inductive invariant *)

\* A deck's numbers are asked for only once its list is published
DeckInv ==
  /\ RevealWaits
  /\ stage = "commit" => lock = {}
  /\ revealed \subseteq lock

\* Whoever a commitment is from may take part in this hand, so may those on the list
CommitInv ==
  /\ \A i \in Seats : by[i] # Nobody => by[i] \notin barred /\ ~Benched(by[i])
  /\ \A i \in lock : by[i] # Nobody

IInv == TypeOK /\ DeckInv /\ CommitInv

(* Blame falls on players. *)
LEMMA BlameTypes ==
  ASSUME TypeOK, NEW silent \in SUBSET Seats PROVE Blame(silent) \subseteq Users
  BY DEF TypeOK, Blame

(* A commitment map stays one. *)
LEMMA CommittingTypes == ASSUME TypeOK, NEW b, Committing(b) PROVE b \in SeatMap
  BY DEF TypeOK, Committing, SeatMap

(* What the handlers themselves change of the table is of its type. *)
LEMMA TableTypes ==
  ASSUME TypeOK, Next
  PROVE  /\ occ' \in SeatMap /\ open' \in BOOLEAN /\ running' \in BOOLEAN
         /\ capable' \subseteq Users /\ restarts' \in 0 .. MaxRestarts
<1> USE DEF TypeOK, SeatMap
<1>1. ASSUME NEW u \in Users, NEW mask \in Masks, NEW here \in SUBSET Users,
             NEW late \in BOOLEAN, Commit(u, mask, here, late)
      PROVE  capable' \subseteq Users /\ UNCHANGED <<occ, open, running, restarts>>
  BY <1>1 DEF Commit
<1>2. ASSUME NEW u \in Users, NEW i \in Seats, NEW mask \in Masks, Reveal(u, i, mask)
      PROVE  UNCHANGED <<occ, open, running, capable, restarts>>
  BY <1>2 DEF Reveal
<1>3. ASSUME NEW mask \in Masks, NEW here \in SUBSET Users, Deal(mask, here)
      PROVE  UNCHANGED <<occ, open, running, capable, restarts>>
  BY <1>3 DEF Deal
<1>4. ASSUME NEW mask \in Masks, NEW here \in SUBSET Users, NEW late \in BOOLEAN,
             Tick(mask, here, late)
      PROVE  UNCHANGED <<occ, open, running, capable, restarts>>
  BY <1>4 DEF Tick
<1>5. ASSUME NEW on \in BOOLEAN, NEW mask \in Masks, NEW here \in SUBSET Users,
             SetRunning(on, mask, here)
      PROVE  running' \in BOOLEAN /\ UNCHANGED <<occ, open, capable, restarts>>
  BY <1>5 DEF SetRunning
<1>6. ASSUME NEW u \in Users, NEW i \in Seats, Sit(u, i) \/ Move(u, i)
      PROVE  occ' \in SeatMap /\ UNCHANGED <<open, running, capable, restarts>>
  BY <1>6 DEF Sit, Move
<1>7. ASSUME NEW u \in Users, Leave(u)
      PROVE  occ' \in SeatMap /\ UNCHANGED <<open, running, capable, restarts>>
  BY <1>7 DEF Leave
<1>8. ASSUME Resize \/ EndHand \/ Close
      PROVE  /\ occ' \in SeatMap /\ open' \in BOOLEAN /\ running' \in BOOLEAN
             /\ UNCHANGED <<capable, restarts>>
  BY <1>8 DEF Resize, EndHand, Close, NoCommits
<1>9. ASSUME Restart
      PROVE  /\ running' \in BOOLEAN /\ capable' = {} /\ restarts' \in 0 .. MaxRestarts
             /\ UNCHANGED <<occ, open>>
  <2>1. restarts' \in 0 .. MaxRestarts BY <1>9, FairAssumption DEF Restart
  <2> QED BY <1>9, <2>1 DEF Restart
<1> QED BY <1>1, <1>2, <1>3, <1>4, <1>5, <1>6, <1>7, <1>8, <1>9 DEF Next

(* The invariant holds at first. *)
LEMMA InitIInv == Init => IInv
<1> SUFFICES ASSUME Init PROVE IInv OBVIOUS
<1>1. by \in SeatMap /\ occ \in SeatMap BY DEF Init, NoCommits, SeatMap
<1>2. strikes \in [Users -> 0 .. Strikes - 1] /\ benched \in [Users -> Nat]
  BY FairAssumption DEF Init
<1>3. attempt \in 1 .. MaxAttempts /\ restarts \in 0 .. MaxRestarts /\ handNo \in Nat
  BY FairAssumption DEF Init
<1>4. TypeOK BY <1>1, <1>2, <1>3 DEF Init, TypeOK, SeatMap
<1>5. DeckInv BY DEF Init, DeckInv, RevealWaits
<1>6. CommitInv BY DEF Init, CommitInv, NoCommits
<1> QED BY <1>4, <1>5, <1>6 DEF IInv

(* What an effect does to the deck and the tallies is of their types. *)
LEMMA EffectTypes ==
  ASSUME TypeOK, Effect
  PROVE  /\ inHand' \in BOOLEAN /\ handNo' \in Nat
         /\ attempt' \in 1 .. MaxAttempts /\ stage' \in {"commit", "reveal"}
         /\ by' \in SeatMap /\ lock' \subseteq Seats /\ revealed' \subseteq Seats
         /\ pending' \in BOOLEAN /\ barred' \subseteq Users /\ named' \subseteq Users
         /\ strikes' \in [Users -> 0 .. Strikes - 1] /\ benched' \in [Users -> Nat]
         /\ missed' \subseteq Users
<1> USE FairAssumption DEF TypeOK, SeatMap
<1>1. NewDeck => stage' = "commit" /\ by' \in SeatMap /\ lock' = {} /\ revealed' = {}
  BY DEF NewDeck, NoCommits
<1>2. Tally => strikes' \in [Users -> 0 .. Strikes - 1]
  BY DEF Tally
<1>3. CASE Voids
  <2> PICK silent \in SUBSET Seats, wanted \in BOOLEAN : Void(silent, wanted)
    BY <1>3 DEF Voids
  <2>1. Blame(silent) \subseteq Users BY BlameTypes
  <2>2. strikes' \in [Users -> 0 .. Strikes - 1] BY DEF Void, StrikesBy
  <2>3. benched' \in [Users -> Nat] BY DEF Void, BenchedBy
  <2>4. barred' \subseteq Users /\ named' \subseteq Users /\ missed' \subseteq Users
    BY <2>1 DEF Void, BarredBy, NamedBy
  <2>5. attempt' \in 1 .. MaxAttempts /\ pending' \in BOOLEAN BY DEF Void
  <2> QED BY <1>1, <2>2, <2>3, <2>4, <2>5 DEF Void
<1>4. CASE Deals
  <2>1. /\ inHand' = TRUE /\ handNo' = handNo + 1 /\ missed' = {} /\ FirstDeck
        /\ UNCHANGED benched
    BY <1>4 DEF Deals, DealDeck
  <2>2. strikes' \in [Users -> 0 .. Strikes - 1] BY <1>2, <1>4 DEF Deals
  <2>3. attempt' \in 1 .. MaxAttempts BY <2>1 DEF FirstDeck
  <2>4. handNo' \in Nat /\ inHand' \in BOOLEAN BY <2>1
  <2>5. benched' \in [Users -> Nat] BY <2>1
  <2>6. pending' = FALSE /\ barred' = {} /\ named' = {} /\ missed' = {}
    BY <2>1 DEF FirstDeck
  <2>7. stage' = "commit" /\ by' \in SeatMap /\ lock' = {} /\ revealed' = {}
    BY <1>1, <2>1 DEF FirstDeck
  <2> QED BY <2>2, <2>3, <2>4, <2>5, <2>6, <2>7
<1>5. CASE Fails
  <2>1. attempt' \in 1 .. MaxAttempts BY <1>5 DEF Fails
  <2>2. strikes' \in [Users -> 0 .. Strikes - 1] BY <1>2, <1>5 DEF Fails
  <2> QED BY <1>1, <1>5, <2>1, <2>2 DEF Fails, seenVars
<1>6. CASE Keeps
  BY <1>6, CommittingTypes DEF Keeps, KeepDeck, tallyVars, seenVars
<1>7. CASE LocksList
  BY <1>7, CommittingTypes DEF LocksList, LockList, Locks, tallyVars, seenVars
<1>8. CASE Shows
  BY <1>2, <1>8 DEF Shows, seenVars
<1>9. CASE Drops
  BY <1>9 DEF Drops, tallyVars, seenVars
<1>10. CASE Starts
  <2>1. strikes' \in [Users -> 0 .. Strikes - 1] /\ benched' \in [Users -> Nat]
    BY <1>10 DEF Starts
  <2>2. attempt' \in 1 .. MaxAttempts BY <1>10 DEF Starts, FirstDeck
  <2> QED BY <1>1, <1>10, <2>1, <2>2 DEF Starts, FirstDeck, seenVars
<1>11. CASE Stays
  BY <1>11 DEF Stays, deckVars, tallyVars, seenVars
<1> QED BY <1>3, <1>4, <1>5, <1>6, <1>7, <1>8, <1>9, <1>10, <1>11 DEF Effect

(* The deck's own part of the invariant is kept. *)
LEMMA DeckKept == ASSUME TypeOK, DeckInv, Effect PROVE DeckInv'
<1> USE DEF DeckInv, RevealWaits
<1>1. NewDeck => DeckInv' BY DEF NewDeck
<1>2. CASE Voids BY <1>1, <1>2 DEF Voids, Void
<1>3. CASE Deals BY <1>1, <1>3 DEF Deals, DealDeck, FirstDeck
<1>4. CASE Fails BY <1>1, <1>4 DEF Fails
<1>5. CASE Keeps BY <1>5 DEF Keeps, KeepDeck
<1>6. CASE LocksList BY <1>6 DEF LocksList, LockList
<1>7. CASE Shows BY <1>7 DEF Shows
<1>8. CASE Drops BY <1>8 DEF Drops
<1>9. CASE Starts BY <1>1, <1>9 DEF Starts, FirstDeck
<1>10. CASE Stays BY <1>10 DEF Stays, deckVars
<1> QED BY <1>2, <1>3, <1>4, <1>5, <1>6, <1>7, <1>8, <1>9, <1>10 DEF Effect

(* Commitments go on being from players who may take part: a void, which is   *)
(* the only thing that bars or benches anybody, takes all commitments along.  *)
LEMMA CommitsKept ==
  ASSUME TypeOK, DeckInv, CommitInv, Effect PROVE CommitInv'
<1> USE DEF CommitInv
<1>1. NewDeck => CommitInv' BY DEF NewDeck, NoCommits
<1>2. ASSUME NEW b, Committing(b), UNCHANGED <<handNo, barred, benched>>, by' = b,
             lock' \subseteq {i \in Seats : b[i] # Nobody}
      PROVE  CommitInv'
  <2>1. CASE b = by
    BY <1>2, <2>1 DEF Benched
  <2>2. CASE b # by
    <3> PICK u \in Users, i \in Seats : /\ u \notin barred /\ ~Benched(u)
                                       /\ b = [by EXCEPT ![i] = u]
      BY <1>2, <2>2 DEF Committing
    <3>1. \A j \in Seats : b[j] = IF j = i THEN u ELSE by[j] BY DEF TypeOK
    <3> QED BY <1>2, <3>1 DEF Benched
  <2> QED BY <2>1, <2>2
<1>3. CASE Voids BY <1>1, <1>3 DEF Voids, Void
<1>4. CASE Deals BY <1>1, <1>4 DEF Deals, DealDeck, FirstDeck
<1>5. CASE Fails BY <1>1, <1>5 DEF Fails
<1>6. CASE Keeps
  <2> PICK b : Committing(b) /\ KeepDeck(b) BY <1>6 DEF Keeps
  <2>1. lock' = {} BY <1>6 DEF Keeps, KeepDeck, DeckInv
  <2> QED BY <1>2, <2>1 DEF KeepDeck, tallyVars
<1>7. CASE LocksList
  <2> PICK b : \E mask \in SUBSET Seats, here \in SUBSET Users :
                 Committing(b) /\ LockList(b, Locks(b, mask, here))
    BY <1>7 DEF LocksList
  <2>1. lock' \subseteq {i \in Seats : b[i] # Nobody}
    BY NobodyAssumption DEF LockList, Locks
  <2> QED BY <1>2, <2>1 DEF LockList, tallyVars
<1>8. CASE Shows
  BY <1>8 DEF Shows, Benched
<1>9. CASE Drops
  <2> PICK i \in Seats : stage = "commit" /\ by' = [by EXCEPT ![i] = Nobody]
    BY <1>9 DEF Drops
  <2>1. lock' = {} BY <1>9 DEF Drops, DeckInv
  <2>2. \A j \in Seats : by'[j] = IF j = i THEN Nobody ELSE by[j] BY DEF TypeOK
  <2> QED BY <1>9, <2>1, <2>2 DEF Drops, Benched, tallyVars
<1>10. CASE Starts BY <1>1, <1>10 DEF Starts, FirstDeck
<1>11. CASE Stays BY <1>11 DEF Stays, deckVars, tallyVars, Benched
<1> QED BY <1>3, <1>4, <1>5, <1>6, <1>7, <1>8, <1>9, <1>10, <1>11 DEF Effect

LEMMA IInvInductive == IInv /\ [Next]_vars => IInv'
<1> SUFFICES ASSUME IInv, [Next]_vars PROVE IInv' OBVIOUS
<1>1. CASE Next
  <2>1. Effect BY <1>1, StepHasEffect DEF IInv, DeckInv
  <2>2. TypeOK' BY <1>1, <2>1, TableTypes, EffectTypes DEF IInv, TypeOK, SeatMap
  <2>3. DeckInv' BY <2>1, DeckKept DEF IInv
  <2>4. CommitInv' BY <2>1, CommitsKept DEF IInv
  <2> QED BY <2>2, <2>3, <2>4 DEF IInv
<1>2. CASE UNCHANGED vars
  BY <1>2 DEF IInv, TypeOK, DeckInv, CommitInv, RevealWaits, Benched, vars, tableVars,
              deckVars, tallyVars, seenVars
<1> QED BY <1>1, <1>2

(* The shuffle's state is always of its types; in particular nobody's strikes *)
(* reach the limit (_fair_void_locked).                                       *)
THEOREM TypeTheorem == Spec => []TypeOK
<1>1. IInv => TypeOK BY DEF IInv
<1> QED BY <1>1, InitIInv, IInvInductive, PTL DEF Spec

(* Only a player whose own device withheld its number is ever barred, however *)
(* seats change hands between the commitment and the deadline                 *)
(* (_fair_void_locked blames commit_users, not the seat).                     *)
THEOREM SilentTheorem == Spec => []OnlyTheSilentAreBarred
<1> USE DEF OnlyTheSilentAreBarred
<1>1. Init => OnlyTheSilentAreBarred BY DEF Init
<1>2. ASSUME IInv, OnlyTheSilentAreBarred, [Next]_vars PROVE OnlyTheSilentAreBarred'
  <2>1. CASE Next
    <3>1. Effect BY <1>2, <2>1, StepHasEffect DEF IInv, DeckInv
    <3>2. CASE Voids BY <1>2, <3>2 DEF Voids, Void, BarredBy
    <3>3. CASE Deals BY <3>3 DEF Deals, DealDeck, FirstDeck
    <3>4. CASE Fails BY <1>2, <3>4 DEF Fails, seenVars
    <3>5. CASE Keeps BY <1>2, <3>5 DEF Keeps, KeepDeck, seenVars
    <3>6. CASE LocksList BY <1>2, <3>6 DEF LocksList, LockList, seenVars
    <3>7. CASE Shows BY <1>2, <3>7 DEF Shows, seenVars
    <3>8. CASE Drops BY <1>2, <3>8 DEF Drops, seenVars
    <3>9. CASE Starts BY <3>9 DEF Starts, FirstDeck
    <3>10. CASE Stays BY <1>2, <3>10 DEF Stays, deckVars, seenVars
    <3> QED BY <3>1, <3>2, <3>3, <3>4, <3>5, <3>6, <3>7, <3>8, <3>9, <3>10 DEF Effect
  <2>2. CASE UNCHANGED vars BY <1>2, <2>2 DEF vars, deckVars, seenVars
  <2> QED BY <1>2, <2>1, <2>2
<1> QED BY <1>1, <1>2, InitIInv, IInvInductive, PTL DEF Spec

(* Only a deal writes a transcript and begins a hand. *)
LEMMA OnlyDealsWrite == ASSUME Effect, ~Deals PROVE UNCHANGED dealt /\ (inHand' => inHand)
<1>1. CASE Voids BY <1>1 DEF Voids, Void
<1>2. CASE Fails BY <1>2 DEF Fails, seenVars
<1>3. CASE Keeps BY <1>3 DEF Keeps, KeepDeck, seenVars
<1>4. CASE LocksList BY <1>4 DEF LocksList, LockList, seenVars
<1>5. CASE Shows BY <1>5 DEF Shows, seenVars
<1>6. CASE Drops BY <1>6 DEF Drops, seenVars
<1>7. CASE Starts BY <1>7 DEF Starts, seenVars
<1>8. CASE Stays
  <2>1. UNCHANGED dealt BY <1>8 DEF Stays, seenVars
  <2>2. CASE inHand' = inHand BY <2>1, <2>2
  <2>3. CASE inHand' = FALSE BY <2>1, <2>3
  <2> QED BY <1>8, <2>2, <2>3 DEF Stays
<1> QED BY <1>1, <1>2, <1>3, <1>4, <1>5, <1>6, <1>7, <1>8 DEF Effect

(* Every hand dealt is cut with the numbers of exactly the players on the     *)
(* published list (SealedDeck.finish: "every locked seat must reveal").       *)
THEOREM CutTheorem == Spec => []CutIsWhole
<1> USE DEF CutIsWhole
<1>1. Init => CutIsWhole BY DEF Init, NoHand
<1>2. ASSUME IInv, CutIsWhole, [Next]_vars PROVE CutIsWhole'
  <2>1. CASE Next
    <3>1. Effect BY <1>2, <2>1, StepHasEffect DEF IInv, DeckInv
    <3>2. CASE Deals
      <4> PICK b, mask, list, shown :
             /\ list = shown \/ (lock \subseteq revealed /\ list = lock /\ shown = revealed)
             /\ DealDeck(b, mask, list, shown)
        BY <3>2 DEF Deals
      <4>1. list = shown BY <1>2 DEF IInv, DeckInv
      <4> QED BY <4>1 DEF DealDeck
    <3>3. CASE ~Deals BY <1>2, <3>1, <3>3, OnlyDealsWrite
    <3> QED BY <3>2, <3>3
  <2>2. CASE UNCHANGED vars BY <1>2, <2>2 DEF vars, seenVars
  <2> QED BY <1>2, <2>1, <2>2
<1> QED BY <1>1, <1>2, InitIInv, IInvInductive, PTL DEF Spec

(* Once a list is published neither it nor a commitment on it changes until   *)
(* its deck is dealt or thrown away (_fair_commit_locked refuses, _move_locked *)
(* waits), so a device may reveal its number safely.                          *)
THEOREM LockTheorem == Spec => LockIsFinal
<1> DEFINE Final == stage = "reveal" /\ stage' = "reveal" =>
                      lock' = lock /\ \A i \in lock : by'[i] = by[i]
<1>1. ASSUME IInv, [Next]_vars PROVE [Final]_vars
  <2>1. CASE Next
    <3>1. Effect BY <1>1, <2>1, StepHasEffect DEF IInv, DeckInv
    <3>2. CASE Voids BY <3>2 DEF Voids, Void, NewDeck
    <3>3. CASE Deals BY <3>3 DEF Deals, DealDeck, FirstDeck, NewDeck
    <3>4. CASE Fails BY <3>4 DEF Fails, NewDeck
    <3>5. CASE Keeps \/ LocksList \/ Drops BY <3>5 DEF Keeps, LocksList, Drops
    <3>6. CASE Shows BY <3>6 DEF Shows
    <3>7. CASE Starts BY <3>7 DEF Starts, FirstDeck, NewDeck
    <3>8. CASE Stays BY <3>8 DEF Stays, deckVars
    <3> QED BY <3>1, <3>2, <3>3, <3>4, <3>5, <3>6, <3>7, <3>8 DEF Effect
  <2> QED BY <1>1, <2>1
<1> QED BY <1>1, InitIInv, IInvInductive, PTL DEF Spec, LockIsFinal

-----------------------------------------------------------------------------
(* As long as the table stays loaded *)

\* Whoever withheld a number of the upcoming hand is barred from it and named
RecordInv ==
  restarts = 0 =>
    /\ open => missed \subseteq barred \cap named
    /\ dealt.missed \subseteq dealt.named

(* A closed table stays closed. *)
LEMMA NeverReopens == Next /\ open' => open
  BY DEF Next, Commit, Reveal, Deal, Tick, SetRunning, Sit, Move, Leave, Resize, EndHand,
         Close, Restart

(* A table loaded again stays one that was. *)
LEMMA RestartsGrow == ASSUME TypeOK, Next PROVE restarts' = 0 => restarts = 0
<1>1. CASE Restart BY <1>1 DEF Restart, TypeOK
<1>2. CASE ~Restart
  BY <1>2 DEF Next, Commit, Reveal, Deal, Tick, SetRunning, Sit, Move, Leave, Resize,
              EndHand, Close
<1> QED BY <1>1, <1>2

LEMMA RecordKept ==
  ASSUME IInv, RecordInv, [Next]_vars PROVE RecordInv'
<1>1. CASE Next
  <2> SUFFICES ASSUME restarts' = 0 PROVE RecordInv' BY DEF RecordInv
  <2>0. restarts = 0 BY <1>1, RestartsGrow DEF IInv
  <2> USE <2>0 DEF RecordInv
  <2>1. Effect BY <1>1, StepHasEffect DEF IInv, DeckInv
  <2>2. open' => open BY <1>1, NeverReopens
  <2>3. CASE Voids BY <2>2, <2>3 DEF Voids, Void, BarredBy, NamedBy
  <2>4. CASE Deals BY <2>4 DEF Deals, DealDeck, FirstDeck
  <2>5. CASE Fails BY <2>2, <2>5 DEF Fails, seenVars
  <2>6. CASE Keeps BY <2>2, <2>6 DEF Keeps, KeepDeck, seenVars
  <2>7. CASE LocksList BY <2>2, <2>7 DEF LocksList, LockList, seenVars
  <2>8. CASE Shows BY <2>2, <2>8 DEF Shows, seenVars
  <2>9. CASE Drops BY <2>2, <2>9 DEF Drops, seenVars
  <2>10. CASE Starts BY <2>10 DEF Starts, seenVars
  <2>11. CASE Stays BY <2>2, <2>11 DEF Stays, deckVars, seenVars
  <2> QED BY <2>1, <2>3, <2>4, <2>5, <2>6, <2>7, <2>8, <2>9, <2>10, <2>11 DEF Effect
<1>2. CASE UNCHANGED vars
  BY <1>2 DEF RecordInv, vars, tableVars, deckVars, seenVars
<1> QED BY <1>1, <1>2

(* On a table that stays loaded, whoever withholds a number is named in the   *)
(* transcript of the hand that is dealt in the end, whatever else voided the  *)
(* deck in between (fairdeal: "never a silent one").                          *)
THEOREM RecordTheorem == Spec => []WithholdingIsOnRecord
<1>1. Init => RecordInv BY DEF Init, RecordInv, NoHand
<1>2. IInv /\ RecordInv /\ [Next]_vars => RecordInv' BY RecordKept
<1>3. RecordInv => WithholdingIsOnRecord BY DEF RecordInv, WithholdingIsOnRecord, SilentReroll
<1> QED BY <1>1, <1>2, <1>3, InitIInv, IInvInductive, PTL DEF Spec

(* On a table that stays loaded, no hand is cut with a number of a player who *)
(* voided one of its decks or is timed out (barred, _fair_penalized).         *)
THEOREM AbsenteesTheorem == Spec => AbsenteesSitOut
<1> DEFINE Out == restarts = 0 /\ ~inHand /\ inHand' =>
        dealt'.contributors \cap (missed \cup {u \in Users : Benched(u)}) = {}
<1>1. Init => RecordInv BY DEF Init, RecordInv, NoHand
<1>2. IInv /\ RecordInv /\ [Next]_vars => RecordInv' BY RecordKept
<1>3. ASSUME IInv, RecordInv, [Next]_vars PROVE [Out]_vars
  <2>1. CASE Next
    <3>1. Effect BY <1>3, <2>1, StepHasEffect DEF IInv, DeckInv
    <3>2. CASE Deals
      <4> PICK b, mask, list, shown : /\ list = {} \/ (list = lock /\ b = by)
                                      /\ DealDeck(b, mask, list, shown)
        BY <3>2 DEF Deals
      <4>1. dealt'.contributors = {b[i] : i \in list} BY DEF DealDeck
      <4>2. \A i \in lock : by[i] \notin barred /\ ~Benched(by[i])
        BY <1>3 DEF IInv, CommitInv, TypeOK
      <4>3. restarts = 0 => missed \subseteq barred BY <1>3, <3>2 DEF RecordInv, Deals
      <4> QED BY <4>1, <4>2, <4>3
    <3>3. CASE ~Deals BY <1>3, <3>1, <3>3, OnlyDealsWrite
    <3> QED BY <3>2, <3>3
  <2> QED BY <1>3, <2>1
<1> QED BY <1>1, <1>2, <1>3, InitIInv, IInvInductive, PTL DEF Spec, AbsenteesSitOut

=============================================================================
