---------------------------- MODULE FairShuffle ----------------------------
(* The verifiable shuffle of a home-game table (ui/homegame.py, FairPending  *)
(* and the _fair_* functions; the deck itself is ui/fairdeal.py): the server *)
(* seals a deck for the upcoming hand, the players' devices commit to        *)
(* numbers, the list of commitments is locked when the deal is asked for,    *)
(* the devices reveal, and the cut they make is dealt.  A device that does   *)
(* not reveal in time voids the deck: a new one is sealed, in public.        *)
(*                                                                           *)
(* A deck is sealed as soon as an open table is between hands (every view    *)
(* does it), so there is one whenever open /\ ~inHand.  Who would be dealt   *)
(* in (mask) and whose browser is at the table (here) belong to the rest of  *)
(* the table: a handler finds them one way or another, the same throughout.  *)
(* Deadlines are real time: a tick finds them passed (late) or not.  A       *)
(* commitment is the player who made it, and a request naming an older deck  *)
(* is refused, so it is no step.                                             *)
EXTENDS Integers, FiniteSets

CONSTANTS
  Users, Nobody,  \* the people who may sit down; an empty seat
  NumSeats,
  Strikes,        \* FAIR_STRIKES: missed confirmations in a row before a time-out
  PenaltyHands,   \* FAIR_PENALTY_HANDS: of this many hands
  MaxAttempts,    \* FAIR_MAX_ATTEMPTS: from here on a deal does not wait to begin
  MaxHands,       \* bound: hands dealt
  MaxRestarts     \* bound: reloads of the table

Seats == 0 .. NumSeats - 1

ASSUME NobodyAssumption == Nobody \notin Users
ASSUME FairAssumption ==
  /\ NumSeats \in Nat /\ Strikes \in Nat \ {0} /\ PenaltyHands \in Nat
  /\ MaxAttempts \in Nat \ {0} /\ MaxHands \in Nat /\ MaxRestarts \in Nat

VARIABLES
  occ,       \* LiveTable.seats: who sits where
  open, running, inHand, handNo,   \* the table's status
  attempt,   \* FairPending.attempt (counted no further than MaxAttempts)
  stage,     \* FairPending.stage
  by,        \* FairPending.commit_users: who committed from each seat
  lock,      \* SealedDeck.locked: the seats whose numbers make the cut
  revealed,  \* FairPending.reveals: the seats that have shown theirs
  pending,   \* FairPending.pending: a deal is waiting on this shuffle
  barred,    \* FairPending.barred: they voided an attempt of this hand
  named,     \* FairPending.voids: the players its void attempts name
  capable,   \* LiveTable.fair_capable: whose browser takes part
  strikes, benched,  \* LiveTable.fair_strikes, fair_penalty_until
  missed,    \* what the players saw: who withheld a number of the upcoming hand
  dealt,     \* the transcript of the last hand dealt
  restarts

tableVars == <<occ, open, running, inHand, handNo>>
deckVars  == <<attempt, stage, by, lock, revealed, pending, barred, named>>
tallyVars == <<strikes, benched>>
seenVars  == <<missed, dealt>>
vars == <<tableVars, deckVars, capable, tallyVars, seenVars, restarts>>

Occupied == {i \in Seats : occ[i] # Nobody}
Seated == {u \in Users : \E i \in Seats : occ[i] = u}
SeatOf(u) == CHOOSE i \in Seats : occ[i] = u
NoCommits == [i \in Seats |-> Nobody]

Benched(u) == benched[u] > handNo          \* _fair_penalized

NoHand == [contributors |-> {}, shown |-> {}, named |-> {}, missed |-> {}]

-----------------------------------------------------------------------------
(* Sealing and voiding *)

\* Nothing is committed to a deck just sealed
NewDeck ==
  /\ stage' = "commit" /\ by' = NoCommits /\ lock' = {} /\ revealed' = {}

\* The first deck of a hand (_fair_prepare_locked)
FirstDeck ==
  /\ NewDeck
  /\ attempt' = 1 /\ pending' = FALSE /\ barred' = {} /\ named' = {}

\* Who committed from these seats: they are blamed, not whoever sits there now
Blame(silent) == {by[i] : i \in silent} \ {Nobody}

\* Mutants: the new deck forgets who voided an earlier one; it bars whoever
\* sits in the silent seats now; it bars nobody
BarsTheLatest(silent) == Blame(silent)
BarsTheSeats(silent) == barred \cup ({occ[i] : i \in silent} \ {Nobody})
BarsNobody(silent) == barred
BarredBy(silent) == barred \cup Blame(silent)

\* Mutant: the transcript keeps the last void only
NamesTheLatest(silent) == Blame(silent)
NamedBy(silent) == named \cup Blame(silent)

StrikesBy(silent) ==
  [u \in Users |-> IF u \notin Blame(silent) THEN strikes[u]
                   ELSE IF strikes[u] + 1 < Strikes THEN strikes[u] + 1 ELSE 0]
BenchedBy(silent) ==
  [u \in Users |-> IF u \in Blame(silent) /\ strikes[u] + 1 >= Strikes
                   THEN handNo + 1 + PenaltyHands ELSE benched[u]]

\* _fair_void_locked: throw the deck away and seal another.  If silent seats
\* held a deal up, it goes on waiting, for the new deck.
Void(silent, wanted) ==
  /\ NewDeck
  /\ attempt' = IF attempt < MaxAttempts THEN attempt + 1 ELSE attempt
  /\ barred' = BarredBy(silent) /\ named' = NamedBy(silent)
  /\ strikes' = StrikesBy(silent) /\ benched' = BenchedBy(silent)
  /\ missed' = missed \cup Blame(silent)
  /\ pending' = (wanted /\ silent # {})
  /\ UNCHANGED <<inHand, handNo, dealt>>

-----------------------------------------------------------------------------
(* Locking and dealing.  In these, b and able are by and capable as the      *)
(* handler has left them so far; who sits where, the table's status and      *)
(* capable are the handler's own to change.                                  *)

\* _fair_expected: the seats dealt in whose player takes part and is here
Expected(able, mask, here) ==
  {i \in mask : occ[i] \in (able \cap here) \ barred /\ ~Benched(occ[i])}
Missing(b, able, mask, here) == {i \in Expected(able, mask, here) : b[i] = Nobody}

\* The commitments that count (_fair_lock_locked): of players dealt in, here,
\* and still in the seat they committed from
Locks(b, mask, here) == {i \in mask : b[i] = occ[i] /\ occ[i] \in here \ barred}

\* _deal_now_locked: the deck is cut with the numbers of the locked seats
DealDeck(b, mask, list, shown) ==
  /\ Cardinality(mask) >= 2 /\ handNo < MaxHands
  /\ inHand' = TRUE /\ handNo' = handNo + 1
  /\ dealt' = [contributors |-> {b[i] : i \in list}, shown |-> {b[i] : i \in shown},
               named |-> named, missed |-> missed]
  /\ missed' = {}
  /\ FirstDeck
  /\ UNCHANGED benched

\* The deck and everything that goes with it is as it was, but for the commits
KeepDeck(b) ==
  /\ by' = b
  /\ UNCHANGED <<inHand, handNo, attempt, stage, lock, revealed, barred, named,
                 tallyVars, seenVars>>

\* _fair_complete_locked: deal it.  A deal that cannot be made now (paused, too
\* few players, an error on the way) throws the deck away
Complete(b, mask, list, shown) ==
  \/ open /\ running /\ ~inHand /\ DealDeck(b, mask, list, shown)
  \/ /\ NewDeck
     /\ attempt' = IF attempt < MaxAttempts THEN attempt + 1 ELSE attempt
     /\ pending' = FALSE
     /\ UNCHANGED <<inHand, handNo, barred, named, benched, seenVars>>

\* _fair_lock_locked: is anybody's number waited for?
LockList(b, list) ==
  /\ list # {}
  /\ stage' = "reveal" /\ lock' = list /\ revealed' = {} /\ pending' = TRUE
  /\ by' = b
  /\ UNCHANGED <<inHand, handNo, attempt, barred, named, tallyVars, seenVars>>

\* _fair_tick_locked, when a deal is waiting on the shuffle.  (A deck in the
\* reveal stage still lacks a number: the last one deals it at once.)
CalledOff(b) ==
  IF stage = "reveal" THEN Void({}, FALSE) ELSE pending' = FALSE /\ KeepDeck(b)
Ticked(b, able, mask, here, late) ==
  IF ~open \/ ~running \/ inHand THEN CalledOff(b)
  ELSE IF stage = "reveal"
  THEN /\ late \/ lock \subseteq revealed
       /\ IF lock \subseteq revealed THEN Complete(b, mask, lock, revealed) /\ UNCHANGED strikes
          ELSE Void(lock \ revealed, TRUE)
  ELSE IF Missing(b, able, mask, here) # {} /\ ~late
  THEN KeepDeck(b) /\ UNCHANGED pending
  ELSE \/ LockList(b, Locks(b, mask, here))
       \/ /\ Locks(b, mask, here) = {}
          /\ Complete(b, mask, {}, {}) /\ UNCHANGED strikes

\* _fair_begin_locked and the deal, from _deal_locked
Dealing(mask, here) ==
  /\ ~inHand /\ ~pending /\ Cardinality(mask) >= 2 /\ handNo < MaxHands
  /\ IF Missing(by, capable, mask, here) # {} /\ attempt < MaxAttempts
     THEN pending' = TRUE /\ KeepDeck(by)
     ELSE \/ LockList(by, Locks(by, mask, here))
          \/ /\ Locks(by, mask, here) = {}
             /\ DealDeck(by, mask, {}, {}) /\ UNCHANGED strikes

-----------------------------------------------------------------------------
(* Handlers *)

Init ==
  /\ occ = NoCommits /\ open = TRUE /\ running = FALSE /\ inHand = FALSE /\ handNo = 0
  /\ attempt = 1 /\ stage = "commit" /\ by = NoCommits /\ lock = {} /\ revealed = {}
  /\ pending = FALSE /\ barred = {} /\ named = {} /\ capable = {}
  /\ strikes = [u \in Users |-> 0] /\ benched = strikes
  /\ missed = {} /\ dealt = NoHand /\ restarts = 0

\* Mutant: a commitment may be replaced after the list is published
CommitAnyTime(u, mask, here, late) ==
  /\ open /\ ~inHand /\ u \in Seated
  /\ u \notin barred /\ ~Benched(u)
  /\ by' = [by EXCEPT ![SeatOf(u)] = u]
  /\ capable' = capable \cup {u}
  /\ UNCHANGED <<occ, open, running, restarts, inHand, handNo, attempt, stage, lock,
                 revealed, pending, barred, named, tallyVars, seenVars>>

\* _fair_commit_locked: until the list is locked a seat may commit again
Commit(u, mask, here, late) ==
  /\ open /\ ~inHand /\ stage = "commit" /\ u \in Seated
  /\ u \notin barred /\ ~Benched(u)
  /\ LET b    == [by EXCEPT ![SeatOf(u)] = u]
         able == capable \cup {u}
     IN /\ capable' = able
        /\ IF pending THEN Ticked(b, able, mask, here, late)
           ELSE KeepDeck(b) /\ UNCHANGED pending
  /\ UNCHANGED <<occ, open, running, restarts>>

\* Mutant: one number is enough
RevealEnds(u, i, mask) ==
  /\ stage = "reveal" /\ i \in lock \ revealed /\ by[i] = u
  /\ strikes' = [strikes EXCEPT ![u] = 0]
  /\ Complete(by, mask, lock, revealed \cup {i})
  /\ UNCHANGED <<occ, open, running, capable, restarts>>

\* _fair_reveal_locked; the last number deals the hand
Reveal(u, i, mask) ==
  /\ stage = "reveal" /\ i \in lock \ revealed /\ by[i] = u
  /\ strikes' = [strikes EXCEPT ![u] = 0]
  /\ IF lock = revealed \cup {i}
     THEN Complete(by, mask, lock, lock)
     ELSE /\ revealed' = revealed \cup {i}
          /\ UNCHANGED <<inHand, handNo, attempt, stage, by, lock, pending, barred, named,
                         benched, seenVars>>
  /\ UNCHANGED <<occ, open, running, capable, restarts>>

\* _deal_locked
Deal(mask, here) ==
  /\ open /\ running /\ Dealing(mask, here)
  /\ UNCHANGED <<occ, open, running, capable, restarts>>

\* The watchdog's _fair_tick_locked
Tick(mask, here, late) ==
  /\ pending
  /\ Ticked(by, capable, mask, here, late)
  /\ UNCHANGED <<occ, open, running, capable, restarts>>

\* _set_running_locked: a pause calls a waiting deal off, a start deals if it can
SetRunning(on, mask, here) ==
  /\ open /\ running' = on
  /\ IF ~on /\ pending THEN CalledOff(by)
     ELSE \/ UNCHANGED <<inHand, handNo, deckVars, tallyVars, seenVars>>
          \/ on /\ Dealing(mask, here)
  /\ UNCHANGED <<occ, open, capable, restarts>>

\* Seats change hands (_sit_locked, _leave_locked and every cash-out, at the
\* moments HomeTable gives): the deck is left alone
Sit(u, i) ==
  /\ open /\ u \notin Seated /\ occ[i] = Nobody
  /\ occ' = [occ EXCEPT ![i] = u]
  /\ UNCHANGED <<open, running, inHand, handNo, deckVars, capable, tallyVars, seenVars, restarts>>
Leave(u) ==
  /\ u \in Seated
  /\ occ' = [occ EXCEPT ![SeatOf(u)] = Nobody]
  /\ UNCHANGED <<open, running, inHand, handNo, deckVars, capable, tallyVars, seenVars, restarts>>

\* _move_locked: never while a deal waits; a commitment names the old seat
Move(u, j) ==
  /\ open /\ ~inHand /\ ~pending /\ u \in Seated /\ occ[j] = Nobody
  /\ occ' = [occ EXCEPT ![j] = u, ![SeatOf(u)] = Nobody]
  /\ by' = IF stage = "commit" /\ by[SeatOf(u)] = u
           THEN [by EXCEPT ![SeatOf(u)] = Nobody] ELSE by
  /\ UNCHANGED <<open, running, inHand, handNo, attempt, stage, lock, revealed, pending,
                 barred, named, capable, tallyVars, seenVars, restarts>>

\* The host changes the number of seats (_settings_locked, _resize_locked): the
\* deck does not fit any more, the view that answers the request seals another
Resize ==
  /\ open /\ ~inHand
  /\ Void({}, FALSE)
  /\ UNCHANGED <<occ, open, running, capable, restarts>>

\* _finish_hand_locked
EndHand ==
  /\ inHand /\ inHand' = FALSE
  /\ UNCHANGED <<occ, open, running, handNo, deckVars, capable, tallyVars, seenVars, restarts>>

\* _close_table_locked
Close ==
  /\ open /\ ~inHand
  /\ open' = FALSE /\ running' = FALSE /\ occ' = NoCommits
  /\ FirstDeck
  /\ UNCHANGED <<inHand, handNo, capable, tallyVars, seenVars, restarts>>

\* The table is loaded again (_load_table), after a restart or an eviction: no
\* shuffle, no tally and no device is remembered
Restart ==
  /\ restarts < MaxRestarts /\ restarts' = restarts + 1
  /\ running' = FALSE /\ inHand' = FALSE
  /\ FirstDeck
  /\ capable' = {}
  /\ strikes' = [u \in Users |-> 0] /\ benched' = strikes'
  /\ UNCHANGED <<occ, open, handNo, seenVars>>

Masks == SUBSET Occupied

Next ==
  \/ \E u \in Users, mask \in Masks, here \in SUBSET Users, late \in BOOLEAN :
       Commit(u, mask, here, late)
  \/ \E u \in Users, i \in Seats, mask \in Masks : Reveal(u, i, mask)
  \/ \E mask \in Masks, here \in SUBSET Users : Deal(mask, here)
  \/ \E mask \in Masks, here \in SUBSET Users, late \in BOOLEAN : Tick(mask, here, late)
  \/ \E on \in BOOLEAN, mask \in Masks, here \in SUBSET Users : SetRunning(on, mask, here)
  \/ \E u \in Users, i \in Seats : Sit(u, i) \/ Move(u, i)
  \/ \E u \in Users : Leave(u)
  \/ Resize \/ EndHand \/ Close \/ Restart

Spec == Init /\ [][Next]_vars

-----------------------------------------------------------------------------
(* Properties *)

\* The types of the shuffle's state; a player is benched before their strikes
\* reach the limit
TypeOK ==
  /\ occ \in [Seats -> Users \cup {Nobody}]
  /\ open \in BOOLEAN /\ running \in BOOLEAN /\ inHand \in BOOLEAN /\ handNo \in Nat
  /\ attempt \in 1 .. MaxAttempts /\ stage \in {"commit", "reveal"}
  /\ by \in [Seats -> Users \cup {Nobody}]
  /\ lock \subseteq Seats /\ revealed \subseteq Seats /\ pending \in BOOLEAN
  /\ barred \subseteq Users /\ named \subseteq Users /\ capable \subseteq Users
  /\ strikes \in [Users -> 0 .. Strikes - 1] /\ benched \in [Users -> Nat]
  /\ missed \subseteq Users /\ restarts \in 0 .. MaxRestarts

\* Only a player whose own device withheld its number is barred from the hand,
\* never one who took the seat over, or who confirmed (OPS-014)
OnlyTheSilentAreBarred == barred \subseteq missed

\* A hand is cut with the numbers of everyone on its list of commitments
CutIsWhole == dealt.shown = dealt.contributors

\* Withholding a number is a visible re-roll, kept in the hand's transcript
\* (fairdeal's module text), whatever else voids the deck on the way; it holds
\* of a table that stays loaded, no longer once it was loaded again
SilentReroll == inHand /\ ~(dealt.missed \subseteq dealt.named)
WithholdingIsOnRecord == restarts = 0 => ~SilentReroll
NeverASilentReroll == ~SilentReroll

\* Whoever voided a deck of this hand, or is timed out, is not part of its cut,
\* again as long as the table stays loaded
AbsenteesSitOut ==
  [][restarts = 0 /\ ~inHand /\ inHand' =>
       dealt'.contributors \cap (missed \cup {u \in Users : Benched(u)}) = {}]_vars

\* A published list stays as it is until its deck is dealt or thrown away
LockIsFinal ==
  [][stage = "reveal" /\ stage' = "reveal" =>
       lock' = lock /\ \A i \in lock : by'[i] = by[i]]_vars

(* Fairness: the watchdog ticks every table four times a second, and a        *)
(* deadline passes with time (FAIR_COMMIT_GRACE_S, FAIR_RECOMMIT_S,           *)
(* FAIR_REVEAL_S): a waiting deal is ticked late in the end.  Nothing is      *)
(* assumed of the players' devices.                                           *)
LiveSpec ==
  Spec /\ WF_vars(\E mask \in Masks, here \in SUBSET Users : Tick(mask, here, TRUE))

\* A deal never waits on the shuffle for good, whatever the devices do: every
\* round that fails bars somebody
ShuffleEnds == pending ~> ~pending

=============================================================================
