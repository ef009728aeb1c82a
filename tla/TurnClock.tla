----------------------------- MODULE TurnClock -----------------------------
(* Time at a home-game table (ui/homegame.py): the shot clock and the time   *)
(* bank of the decision under way, the players who are away, the countdown   *)
(* to the next hand, and the watchdog thread that makes them all pass, with  *)
(* its accounting of the ticks that fail.                                    *)
(*                                                                           *)
(* Instants are kept as ages, or as seconds still to go, which Second moves. *)
(* A decision is (hand, seq).  The turn's clock and the bank under way carry *)
(* in the code the decision they are for; the step that ends a decision      *)
(* restarts the one and stops the other, so there they are just ages.        *)
(* The watchdog holds the table's lock for a tick and runs its steps one     *)
(* after the other (at); requests come between ticks.  Of the betting, what  *)
(* matters here is who acts next and when the hand is over: any player still *)
(* in the hand, and any time.  A seat left empty is one whose player is away.*)
EXTENDS Integers, FiniteSets

CONSTANTS
  Players, Host,
  DecisionChoices,  \* the shot clocks a host may set, in seconds (0: none)
  BankChoices,      \* the time banks a host may set (0: none)
  DelayChoices,     \* the waits before the next hand (0: dealt by hand)
  Opening,          \* the settings the table is opened with
  Refill,           \* TIME_BANK_REFILL_S
  Strikes,          \* TIMEOUTS_BEFORE_SIT_OUT
  PauseAfter,       \* WATCHDOG_PAUSE_AFTER_S
  Backoff,          \* WATCHDOG_BACKOFF_S
  EditWhileBurning, \* may the host change the shot clock while a bank runs?
  MaxAge,           \* bound: ages are not told apart beyond it
  MaxHands, MaxDecisions, \* bounds: hands, and decisions of one hand
  MaxUpsets         \* bound: changes of the table's settings, and steps of the
                    \* watchdog or deals asked for by a Start that fail

Rules == [decision : DecisionChoices, bank : BankChoices, delay : DelayChoices]

ASSUME PlayersAssumption == Host \in Players /\ IsFiniteSet(Players)
ASSUME ChoicesAssumption ==
  /\ DecisionChoices \subseteq Nat /\ BankChoices \subseteq Nat /\ DelayChoices \subseteq Nat
  /\ Opening \in Rules
ASSUME ClockAssumption ==
  /\ Refill \in Nat /\ Strikes \in Nat \ {0} /\ PauseAfter \in Nat /\ Backoff \in Nat
  /\ EditWhileBurning \in BOOLEAN
  /\ MaxHands \in Nat /\ MaxDecisions \in Nat /\ MaxUpsets \in Nat
\* Ages are kept for as long as anything can be waited for
ASSUME MaxAgeAssumption ==
  /\ MaxAge \in Nat /\ PauseAfter <= MaxAge
  /\ \A d \in DecisionChoices, b \in BankChoices : d + b <= MaxAge
  /\ \A d \in DelayChoices : d <= MaxAge

VARIABLES
  phase,     \* "idle", "in_hand", or "runout" (a finished all-in still revealing)
  hand, seq, \* LiveTable.hand_no, HandState.action_seq
  actor,     \* the engine's current_actor
  live,      \* the players dealt in who have not folded
  away,      \* the players with Seat.sitting_out
  leaving,   \* the players with Seat.leave_after_hand
  here,      \* who has polled within PRESENCE_WINDOW_S
  rules,     \* decision_secs, time_bank_secs, deal_delay_secs
  turn,      \* age of turn_started_mono
  burning,   \* age of bank_started_mono
  bank,      \* Seat.time_bank_left
  timeouts,  \* Seat.timeouts
  running,
  countdown, \* seconds to next_deal_mono
  stuck,     \* deal_error_rev = rev: nothing changed since the deal failed
  pending,   \* the deal waits on its shuffle
  failing,   \* age of wd_failing_since
  backoff,   \* seconds to wd_next_mono
  at,        \* where the watchdog's tick is; "free": the lock is not taken
  raised,    \* has a step of this tick failed?
  waited,    \* observer: how long the shot clock of this decision has run
  rested,    \* observer: how long the last hand has been over
  edits, faults  \* settings changed, and steps failed, so far (bounds)

handVars  == <<phase, hand, seq, actor, live>>
seatVars  == <<away, leaving, here>>
bankVars  == <<bank, timeouts>>
dealVars  == <<countdown, stuck, pending>>
watchVars == <<failing, backoff, at, raised>>
timeVars  == <<waited, rested>>
bounds    == <<edits, faults>>
vars == <<handVars, seatVars, rules, turn, burning, bankVars, running, dealVars,
          watchVars, timeVars, bounds>>

Off == -1                       \* a clock that is not running
Later(age) == IF age = Off THEN Off ELSE IF age < MaxAge THEN age + 1 ELSE age
Sooner(secs) == IF secs > 0 THEN secs - 1 ELSE secs
Least(a, b) == IF a < b THEN a ELSE b
Over(a, b) == IF a > b THEN a - b ELSE 0

\* _actor_is_away: nobody there will act for this seat
Absent == away \cup (leaving \ here)

\* Seats the deal would deal in (_eligible_mask; every stack here can pay)
Eligible == Players \ (away \cup leaving)

Free == at = "free"
Fault == edits + faults < MaxUpsets /\ faults' = faults + 1 /\ UNCHANGED edits

-----------------------------------------------------------------------------
(* The end of a decision.  gone is who is absent once it is taken.           *)

\* _settle_bank_locked: the actor pays for the bank seconds they used
\* Mutant: the whole clock is charged
SettleWhole ==
  /\ bank' = IF burning = Off THEN bank ELSE [bank EXCEPT ![actor] = Over(@, turn)]
  /\ burning' = Off
SettleBank ==
  /\ bank' = IF burning = Off THEN bank ELSE [bank EXCEPT ![actor] = Over(@, burning)]
  /\ burning' = Off

\* _start_clock_locked for a decision that has just begun
StartClock == turn' = IF rules.decision > 0 THEN 0 ELSE Off

\* The next decision is that of somebody who is there: those who are not check
\* or fold on the way (_resume_turn_locked)
NextDecision(gone) ==
  \E left \in SUBSET live, n \in 1 .. Cardinality(live) :
    /\ live \ left \subseteq gone \cup {actor}
    /\ n > 1 => live \cap gone # {}
    /\ Cardinality(left) >= 2
    /\ seq + n < MaxDecisions
    /\ phase' = "in_hand" /\ live' = left /\ seq' = seq + n
    /\ actor' \in left \ gone
    /\ StartClock
    /\ waited' = 0
    /\ UNCHANGED <<hand, leaving, countdown, rested>>

\* Between hands there is no decision, and nobody to act
NoDecision == seq' = 0 /\ actor' = Host /\ live' = {} /\ turn' = Off

\* _finish_hand_locked, and the leavers cashed out (_settle_locked) unless the
\* runout is still to be shown
HandOver ==
  /\ phase' \in {"idle", "runout"} /\ NoDecision
  /\ countdown' = Off /\ waited' = 0 /\ rested' = 0
  /\ leaving' = IF phase' = "idle" THEN {} ELSE leaving
  /\ UNCHANGED hand

\* Whoever takes a seat that was left starts with a full bank (_sit_locked)
Vacate(out) == IF phase' = "idle" THEN out \cup leaving ELSE out

\* _apply_action_locked, whoever decided: the bank is settled before the
\* decision is another; rev moves on
Decided(gone) ==
  /\ phase = "in_hand"
  /\ SettleBank
  /\ NextDecision(gone) \/ HandOver
  /\ stuck' = FALSE
  /\ UNCHANGED <<here, rules, running, pending>>

-----------------------------------------------------------------------------
(* Requests *)

\* _act_locked (a request for another decision is refused: _require_sync)
Act(p) ==
  /\ Free /\ phase = "in_hand" /\ actor = p
  /\ Decided(Absent)
  /\ timeouts' = [timeouts EXCEPT ![p] = 0]
  /\ away' = Vacate(away)
  /\ UNCHANGED <<watchVars, bounds>>

\* _host_fold_locked: folds, or checks, whoever is to act
HostFold ==
  /\ Free
  /\ Decided(Absent)
  /\ away' = Vacate(away)
  /\ UNCHANGED <<timeouts, watchVars, bounds>>

\* Mutant: somebody going away gives the actor a new clock
SitOutRestarts(p) ==
  /\ Free /\ away' = away \cup {p} /\ stuck' = FALSE
  /\ IF phase = "in_hand" /\ actor = p
     THEN Decided(Absent \cup {p})
     ELSE /\ turn' = IF phase = "in_hand" /\ rules.decision > 0 THEN 0 ELSE turn
          /\ UNCHANGED <<handVars, leaving, here, rules, burning, bank, running,
                         countdown, pending, timeVars>>
  /\ UNCHANGED <<timeouts, watchVars, bounds>>

\* _sit_out_locked and _defer_removal_locked: the actor going away acts at
\* once, anybody else's clock is none of their business
SitOut(p) ==
  /\ Free
  /\ IF phase = "in_hand" /\ actor = p
     THEN Decided(Absent \cup {p}) /\ away' = Vacate(away \cup {p})
     ELSE /\ away' = away \cup {p} /\ stuck' = FALSE
          /\ UNCHANGED <<handVars, leaving, here, rules, turn, burning, bank, running,
                         countdown, pending, timeVars>>
  /\ UNCHANGED <<timeouts, watchVars, bounds>>

\* _sit_out_locked: back, or (a seat that was left) sat down, with a full bank
Back(p) ==
  /\ Free /\ p \in away /\ away' = away \ {p} /\ stuck' = FALSE
  /\ \/ UNCHANGED bankVars
     \/ /\ p \notin live
        /\ bank' = [bank EXCEPT ![p] = rules.bank]
        /\ timeouts' = [timeouts EXCEPT ![p] = 0]
  /\ UNCHANGED <<handVars, leaving, here, rules, turn, burning, running, countdown,
                 pending, watchVars, timeVars, bounds>>

\* _leave_locked until the hand's runout is over (the hand is played out), and
\* _cancel_leave_locked
LeaveAfter(p, on) ==
  /\ Free /\ phase # "idle"
  /\ leaving' = IF on THEN leaving \cup {p} ELSE leaving \ {p}
  /\ stuck' = FALSE
  /\ UNCHANGED <<handVars, away, here, rules, turn, burning, bankVars, running,
                 countdown, pending, watchVars, timeVars, bounds>>

\* A browser polls, or has not for PRESENCE_WINDOW_S
Polls(p) ==
  /\ here' = here \cup {p} /\ p \notin here
  /\ UNCHANGED <<handVars, away, leaving, rules, turn, burning, bankVars, running,
                 dealVars, watchVars, timeVars, bounds>>
Gone(p) ==
  /\ p \in here /\ here' = here \ {p}
  /\ UNCHANGED <<handVars, away, leaving, rules, turn, burning, bankVars, running,
                 dealVars, watchVars, timeVars, bounds>>

Edit == Free /\ edits + faults < MaxUpsets /\ edits' = edits + 1 /\ UNCHANGED faults

\* _settings_locked: the shot clock.  Sending it starts the turn's clock over,
\* even unchanged; a bank that runs is left running
SetDecision(secs) ==
  /\ Edit /\ (EditWhileBurning \/ burning = Off)
  /\ rules' = [rules EXCEPT !.decision = secs]
  /\ turn' = IF phase = "in_hand" /\ secs > 0 THEN 0 ELSE Off
  /\ waited' = 0 /\ stuck' = FALSE
  /\ UNCHANGED <<handVars, seatVars, burning, bankVars, running, countdown, pending,
                 watchVars, rested>>

\* A new time bank is a full one, for everybody
SetBank(secs) ==
  /\ Edit /\ secs # rules.bank
  /\ rules' = [rules EXCEPT !.bank = secs]
  /\ bank' = [p \in Players |-> secs] /\ stuck' = FALSE
  /\ UNCHANGED <<handVars, seatVars, turn, burning, timeouts, running, countdown,
                 pending, watchVars, timeVars>>

SetDelay(secs) ==
  /\ Edit /\ secs # rules.delay
  /\ rules' = [rules EXCEPT !.delay = secs]
  /\ countdown' = Off /\ stuck' = FALSE
  /\ UNCHANGED <<handVars, seatVars, turn, burning, bankVars, running, pending,
                 watchVars, timeVars>>

-----------------------------------------------------------------------------
(* Dealing *)

Refilled(p) == Least(rules.bank, bank[p] + Refill)

DealGround == phase = "idle" /\ ~pending
CanDeal == Cardinality(Eligible) >= 2 /\ hand < MaxHands

\* _deal_now_locked: a fresh HandState; the antes may put everybody all in
Dealt ==
  /\ CanDeal
  /\ hand' = hand + 1
  /\ bank' = [p \in Players |-> IF p \in Eligible THEN Refilled(p) ELSE bank[p]]
  /\ burning' = Off /\ pending' = FALSE /\ waited' = 0 /\ rested' = 0
  /\ \/ /\ phase' = "in_hand" /\ seq' = 0 /\ live' = Eligible /\ actor' \in Eligible
        /\ StartClock
     \/ phase' \in {"idle", "runout"} /\ NoDecision

\* _deal_locked: the hand is dealt, or waits on its shuffle (FairShuffle)
DealOrWait ==
  \/ Dealt
  \/ /\ CanDeal
     /\ pending' = TRUE
     /\ UNCHANGED <<handVars, turn, burning, bank, timeVars>>

\* _player_deal_locked: a countdown is the host's to cut short.  Mutant: a hand
\* dealt so does not end it
PlayerDealKeepsCountdown(p) ==
  /\ Free /\ running /\ DealGround /\ (countdown # Off => p = Host)
  /\ DealOrWait
  /\ stuck' = FALSE
  /\ UNCHANGED <<seatVars, rules, timeouts, running, countdown, watchVars, bounds>>
PlayerDeal(p) ==
  /\ Free /\ running /\ DealGround /\ (countdown # Off => p = Host)
  /\ DealOrWait
  /\ stuck' = FALSE
  /\ countdown' = IF hand' # hand THEN Off ELSE countdown
  /\ UNCHANGED <<seatVars, rules, timeouts, running, watchVars, bounds>>

\* _fair_complete_locked: the shuffle ends with a deal, or without one
ShuffleOver ==
  /\ Free /\ pending
  /\ \/ running /\ phase = "idle" /\ Dealt /\ countdown' = Off
     \/ /\ pending' = FALSE
        /\ UNCHANGED <<handVars, turn, burning, bank, countdown, timeVars>>
  /\ stuck' = FALSE
  /\ UNCHANGED <<seatVars, rules, timeouts, running, watchVars, bounds>>

\* _set_running_locked: a Start forgives the table its failures, and deals if it
\* can; a Pause calls off the deal that waits (_fair_tick_locked)
Start ==
  /\ Free /\ running' = TRUE
  /\ failing' = Off /\ backoff' = 0 /\ countdown' = Off /\ stuck' = FALSE
  /\ \/ DealGround /\ DealOrWait /\ UNCHANGED bounds
     \/ /\ IF DealGround /\ CanDeal THEN Fault ELSE UNCHANGED bounds
        /\ UNCHANGED <<handVars, turn, burning, bank, pending, timeVars>>
  /\ UNCHANGED <<seatVars, rules, timeouts, at, raised>>
Pause ==
  /\ Free /\ running /\ running' = FALSE
  /\ countdown' = Off /\ stuck' = FALSE /\ pending' = FALSE
  /\ UNCHANGED <<handVars, seatVars, rules, turn, burning, bankVars, watchVars,
                 timeVars, bounds>>

\* The all-in has been revealed: the leavers are cashed out (_settle_locked)
RunoutOver ==
  /\ Free /\ phase = "runout" /\ phase' = "idle"
  /\ away' = away \cup leaving /\ leaving' = {}
  /\ stuck' = FALSE /\ rested' = 0
  /\ UNCHANGED <<hand, seq, actor, live, here, rules, turn, burning, bankVars, running,
                 countdown, pending, watchVars, waited, bounds>>

-----------------------------------------------------------------------------
(* The watchdog *)

\* Mutant: a table that is paused is idle
IdleWhenPaused == ~running /\ ~pending
\* _watchdog_idle, as far as it goes here
WatchdogIdle == phase # "in_hand" /\ ~running /\ ~pending

\* A step that fails does not stop the others (_watchdog_table)
StepFails ==
  /\ Fault /\ raised' = TRUE
  /\ UNCHANGED <<handVars, seatVars, rules, turn, burning, bankVars, running, dealVars,
                 failing, backoff, timeVars>>

\* How long the bank has been running, for a base clock that has run out
Burnt == IF burning = Off THEN turn - rules.decision ELSE burning

\* Mutant: the bank is not waited for
OutOfTimeEarly == rules.decision > 0 /\ turn # Off /\ turn >= rules.decision
OutOfTime ==
  /\ rules.decision > 0 /\ turn # Off /\ turn >= rules.decision
  /\ bank[actor] = 0 \/ Burnt >= bank[actor]

\* The bank starts where the base clock ended
StartBurning ==
  /\ actor \notin Absent /\ ~OutOfTime
  /\ rules.decision > 0 /\ turn # Off /\ turn >= rules.decision
  /\ burning' = Burnt
  /\ stuck' = (stuck /\ burning # Off)
  /\ UNCHANGED <<handVars, seatVars, rules, turn, bankVars, running, countdown, pending,
                 timeVars>>

\* The second time-out in a row sits the player out
TimeOut ==
  /\ actor \notin Absent /\ OutOfTime
  /\ LET out == timeouts[actor] + 1 >= Strikes
     IN /\ timeouts' = [timeouts EXCEPT ![actor] = IF out THEN 0 ELSE @ + 1]
        /\ Decided(IF out THEN Absent \cup {actor} ELSE Absent)
        /\ away' = Vacate(IF out THEN away \cup {actor} ELSE away)

\* An absent player's turn passes, clock or not
PassAbsent ==
  /\ actor \in Absent
  /\ Decided(Absent)
  /\ away' = Vacate(away)
  /\ UNCHANGED timeouts

\* _watchdog_table takes the lock; _timeout_tick_locked
ClockTick ==
  /\ Free /\ backoff = 0 /\ ~WatchdogIdle /\ at' = "deal"
  /\ \/ StepFails
     \/ /\ \/ phase = "in_hand" /\ (StartBurning \/ TimeOut \/ PassAbsent)
           \/ /\ phase = "in_hand" =>
                   actor \notin Absent /\ (rules.decision = 0 \/ turn < rules.decision)
              /\ UNCHANGED <<handVars, seatVars, rules, turn, burning, bankVars, running,
                             dealVars, timeVars>>
        /\ UNCHANGED <<raised, bounds>>
  /\ UNCHANGED <<failing, backoff>>

\* _deal_ready, with two players present
DealReady == running /\ phase = "idle" /\ Cardinality(Eligible \cap here) >= 2

\* The countdown is over: a deal, or a reason why not (HTTPException)
AutoDeal ==
  /\ DealReady /\ countdown = 0
  /\ \/ DealOrWait /\ UNCHANGED stuck
     \/ /\ stuck' = TRUE
        /\ UNCHANGED <<handVars, turn, burning, bank, pending, timeVars>>
  /\ countdown' = Off
  /\ UNCHANGED <<seatVars, rules, timeouts, running>>

\* Is there to be a countdown?
MayCount == ~pending /\ ~stuck /\ rules.delay # 0 /\ DealReady

\* What a tick makes of the countdown
Countdown == CASE ~MayCount -> Off
               [] MayCount /\ countdown = Off -> rules.delay
               [] MayCount /\ countdown # Off -> countdown

\* _auto_deal_tick_locked
DealTick ==
  /\ at = "deal" /\ at' = "account"
  /\ \/ StepFails
     \/ /\ IF countdown # 0 \/ Countdown # 0
           THEN /\ countdown' = Countdown
                /\ UNCHANGED <<handVars, seatVars, rules, turn, burning, bankVars, running,
                               stuck, pending, timeVars>>
           ELSE AutoDeal
        /\ UNCHANGED <<raised, bounds>>
  /\ UNCHANGED <<failing, backoff>>

\* _watchdog_account_locked: a table that keeps failing is paused, and ticked
\* less often
Account ==
  /\ at = "account" /\ at' = "free" /\ raised' = FALSE
  /\ failing' = IF ~raised THEN Off ELSE IF failing = Off THEN 0 ELSE failing
  /\ IF failing' >= PauseAfter
     THEN /\ backoff' = Backoff
          /\ running' = FALSE
          /\ IF running THEN countdown' = Off /\ stuck' = FALSE
             ELSE UNCHANGED <<countdown, stuck>>
     ELSE UNCHANGED <<backoff, running, countdown, stuck>>
  /\ UNCHANGED <<handVars, seatVars, rules, turn, burning, bankVars, pending, timeVars,
                 bounds>>

\* Time goes by (a tick takes none)
Second ==
  /\ Free
  /\ turn' = Later(turn)
  /\ failing' = IF failing < PauseAfter THEN Later(failing) ELSE failing
  /\ burning' = IF burning < MaxAge - rules.decision THEN Later(burning) ELSE burning
  /\ countdown' = Sooner(countdown) /\ backoff' = Sooner(backoff)
  /\ waited' = IF phase = "in_hand" /\ rules.decision > 0 THEN Later(waited) ELSE waited
  /\ rested' = IF phase = "idle" THEN Later(rested) ELSE rested
  /\ UNCHANGED <<handVars, seatVars, rules, bankVars, running, stuck, pending, at,
                 raised, bounds>>

-----------------------------------------------------------------------------

Init ==
  /\ phase = "idle" /\ hand = 0 /\ seq = 0 /\ actor = Host /\ live = {}
  /\ away = {} /\ leaving = {} /\ here = Players
  /\ rules = Opening
  /\ turn = Off /\ burning = Off
  /\ bank = [p \in Players |-> rules.bank] /\ timeouts = [p \in Players |-> 0]
  /\ running = FALSE /\ countdown = Off /\ stuck = FALSE /\ pending = FALSE
  /\ failing = Off /\ backoff = 0 /\ at = "free" /\ raised = FALSE
  /\ waited = 0 /\ rested = 0 /\ edits = 0 /\ faults = 0

Request ==
  \/ \E p \in Players : Act(p) \/ SitOut(p) \/ Back(p) \/ Polls(p) \/ Gone(p) \/ PlayerDeal(p)
  \/ \E p \in Players, on \in BOOLEAN : LeaveAfter(p, on)
  \/ HostFold \/ Start \/ Pause
  \/ \E d \in DecisionChoices : SetDecision(d)
  \/ \E b \in BankChoices : SetBank(b)
  \/ \E d \in DelayChoices : SetDelay(d)

TickStep == ClockTick \/ DealTick \/ Account

Next == Request \/ ShuffleOver \/ RunoutOver \/ TickStep \/ Second

Spec == Init /\ [][Next]_vars

-----------------------------------------------------------------------------
(* Properties *)

\* The types of the clock's state; nobody has more bank than the table gives
TypeOK ==
  /\ phase \in {"idle", "in_hand", "runout"}
  /\ hand \in 0 .. MaxHands /\ seq \in Nat /\ actor \in Players
  /\ live \subseteq Players /\ away \subseteq Players /\ leaving \subseteq Players
  /\ here \subseteq Players
  /\ rules \in Rules
  /\ turn \in Off .. MaxAge /\ burning \in Off .. MaxAge
  /\ bank \in [Players -> Nat] /\ \A p \in Players : bank[p] <= rules.bank
  /\ timeouts \in [Players -> 0 .. Strikes - 1]
  /\ running \in BOOLEAN /\ countdown \in Int /\ stuck \in BOOLEAN /\ pending \in BOOLEAN
  /\ failing \in Off .. MaxAge /\ backoff \in 0 .. Backoff
  /\ at \in {"free", "deal", "account"} /\ raised \in BOOLEAN
  /\ waited \in 0 .. MaxAge /\ rested \in 0 .. MaxAge
  /\ edits \in 0 .. MaxUpsets /\ faults \in 0 .. MaxUpsets

\* A step that ends a decision
Ends == phase = "in_hand" /\ (seq' # seq \/ phase' # "in_hand")

\* A player who is there is acted for only when this very decision has had its
\* whole shot clock and the player's whole bank (module docstring: "once the
\* base shot clock runs out the actor burns their own time_bank_left before
\* being auto-acted")
NoEarlyTimeout ==
  [][at' = "deal" /\ Ends /\ actor \notin Absent =>
       waited >= rules.decision + bank[actor]]_vars

\* Bank seconds go only from the player whose decision ends, and no more of
\* them than they took beyond the shot clock ("only the seconds actually used
\* are deducted")
ChargedFairly ==
  [][\A p \in Players : bank'[p] < bank[p] /\ rules' = rules =>
       /\ Ends /\ p = actor
       /\ bank[p] - bank'[p] <= waited - rules.decision]_vars

\* Nothing that others do, going away or leaving, gives the actor a new clock
\* or stops it: only the next decision and the host's settings do (G5)
TurnNeverProlonged ==
  [][phase = "in_hand" /\ ~Ends /\ edits' = edits => turn' \in {turn, Later(turn)}]_vars

\* The server leaves the table its pause: an automatic deal comes no sooner
\* than the delay after the last hand, its runout included
AutoDealWaits ==
  [][at = "deal" /\ (hand' # hand \/ pending' # pending) => rested >= rules.delay]_vars

\* The watchdog acts for nobody before it is time
NothingEarly == NoEarlyTimeout /\ AutoDealWaits

(* Fairness: the watchdog ticks every table four times a second and a tick    *)
(* begun runs to its end; time passes, if not within a tick (strong), whatever *)
(* the players do, and nothing is assumed of them.                            *)
(* Failing steps and edits are bounded: they do not go on for ever.           *)
LiveSpec ==
  Spec /\ SF_vars(Second) /\ WF_vars(TickStep)

\* With a shot clock, or nobody there to act, no decision lasts for ever,
\* whoever walks away, whatever fails, paused or not (G6).  A hand's decisions
\* and the hands are finitely many and none comes back: to be waiting always, from
\* some moment on, is to be waiting for one of them
Urgent == phase = "in_hand" /\ (rules.decision > 0 \/ actor \in Absent)
DecisionsEnd == []<>~Urgent

\* A running table with two players there is dealt its next hand by the server
NextHandComes ==
  DealReady /\ rules.delay > 0 /\ hand < MaxHands
    ~> hand = MaxHands \/ pending \/ stuck \/ ~DealReady \/ rules.delay = 0 \/ phase # "idle"

\* A table does not come to rest: neither within a decision nor between hands
TableMovesOn == DecisionsEnd /\ NextHandComes

=============================================================================
