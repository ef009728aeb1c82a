------------------------------- MODULE Betting -------------------------------
(* One hand of the rules engine (rust_engine/src/engine.rs, GameState): the  *)
(* antes and blinds, the betting rounds street by street, run-outs, and the  *)
(* legal moves as the Python environments offer them (env.py, actions.py).   *)
(* Cards are abstracted to the strength of each hand at the showdown         *)
(* (SidePots).  A seat not dealt in is one that has folded from the start.   *)
(*                                                                           *)
(* Two kinds of game: bomb pots (pot limit, two boards, betting from the     *)
(* flop) and hold'em (blinds, no limit, one board, betting before the flop). *)
(* In Study a hand stops at each street until its cards are entered.         *)
EXTENDS SidePots

CONSTANTS
  Ante, SmallBlind, BigBlind,
  StackChoices,   \* the stacks a seat may start with
  Games,          \* the kinds of game dealt: [holdem, reach, cover, study]
  Fractions       \* the pot fractions of the discrete bet sizes

GameKinds == [holdem : BOOLEAN, reach : BOOLEAN, cover : BOOLEAN, study : BOOLEAN]
ASSUME StakesAssumption ==
  /\ Ante \in Nat /\ SmallBlind \in Nat /\ BigBlind \in Nat \ {0}
  /\ SmallBlind <= BigBlind /\ StackChoices \subseteq Nat
ASSUME GamesAssumption == Games \subseteq GameKinds /\ Games # {}
ASSUME FractionsAssumption == Fractions \subseteq Nat \X (Nat \ {0})

Nobody == -1
\* Streets: 0 before the flop, 1 flop, 2 turn, 3 river, 4 the hand is over
River == 3
Over == 4

VARIABLES
  game,      \* GameConfig: variant, reach_cap, cover_short_bets, study_mode
  button,
  street,
  stack,     \* stacks
  total,     \* total_commit
  folded,
  commit,    \* street_commit
  bet,       \* bet_to_call
  raise,     \* last_raise_size
  level,     \* street_level_acted
  acted,     \* acted_this_street
  actor,
  awaiting,  \* awaiting_next_street: Study waits for the next street's cards
  ending     \* how the hand ended: "", "foldout", "showdown" or "runout"

betVars == <<stack, total, folded, commit, bet, raise, level, acted>>
vars == <<game, button, street, betVars, actor, awaiting, ending>>

Zero == [s \in Seats |-> 0]
Pot == Total(total)
Greater(a, b) == IF a > b THEN a ELSE b
Over0(a, b) == IF a > b THEN a - b ELSE 0         \* saturating_sub
FirstFrom(a, S) == CHOOSE s \in S : \A r \in S : Steps(a, s) <= Steps(a, r)

-----------------------------------------------------------------------------
(* Who acts next.  f, k, c stand for the folded seats, the stacks and the    *)
(* street's commitments once the move is made, b for the bet, a for who has  *)
(* acted.                                                                    *)

\* max_other_reachable_for: the most another live seat can have in this street
Reach(s, f, k, c) ==
  LET others == {c[r] + k[r] : r \in Live(f) \ {s}} \cup {0}
  IN CHOOSE m \in others : \A n \in others : n <= m

\* ~nothing_to_contest
Contest(s, f, k, c) == Reach(s, f, k, c) > c[s]

\* Seats that can act at all (the walks' first two conditions)
CanAct(f, k) == {s \in Live(f) : k[s] > 0}

\* Mutant: a seat that has acted is not asked to meet a raise
ToActOnce(f, k, c, b, a) == {s \in CanAct(f, k) : Contest(s, f, k, c) /\ s \notin a}
\* Mutant: a seat is asked again as long as another can still put chips in
ToActAgain(f, k, c, b, a) == {s \in CanAct(f, k) : Contest(s, f, k, c)}
\* find_next_actor
ToAct(f, k, c, b, a) ==
  {s \in CanAct(f, k) : Contest(s, f, k, c) /\ (s \notin a \/ c[s] < b)}

\* first_to_act_postflop, on a street that opens
Opener(btn, f, k) ==
  LET first == {s \in CanAct(f, k) : Contest(s, f, k, Zero)}
  IN IF first = {} THEN Nobody ELSE FirstFrom(btn, first)

\* The per-street state starts over.  A hand that is over keeps it in the code,
\* where nothing reads it again: the model clears it.
FreshStreet ==
  commit' = Zero /\ bet' = 0 /\ raise' = BigBlind /\ level' = Zero /\ acted' = {}
KeepStreet(c, b, r, lv, a) ==
  commit' = c /\ bet' = b /\ raise' = r /\ level' = lv /\ acted' = a

\* finalize_terminal, and the ends of a Study hand
EndHand(st, how) ==
  street' = st /\ ending' = how /\ actor' = Nobody /\ awaiting' = Nobody /\ FreshStreet

\* close_round_or_run_out, close_round_study: the round is over
CloseRound(st, f, k, c, b, r, lv, a) ==
  LET contested == Cardinality(CanAct(f, k)) >= 2
  IN \/ st = River /\ EndHand(Over, "showdown")
     \/ st # River /\ ~contested /\ game'.study /\ EndHand(st, "runout")
     \/ st # River /\ ~contested /\ ~game'.study /\ EndHand(Over, "showdown")
     \/ /\ st # River /\ contested /\ game'.study
        /\ KeepStreet(c, b, r, lv, a)
        /\ actor' = Nobody /\ street' = st /\ ending' = "" /\ awaiting' = st + 1
     \/ /\ st # River /\ contested /\ ~game'.study
        /\ FreshStreet
        /\ actor' = Opener(button', f, k)
        /\ street' = st + 1 /\ ending' = "" /\ awaiting' = Nobody

\* advance_after_action
Advance(f, k, c, b, r, lv, a) ==
  LET next == ToAct(f, k, c, b, a)
  IN /\ UNCHANGED <<game, button>>
     /\ folded' = f /\ stack' = k
     /\ IF Cardinality(Live(f)) = 1
        THEN EndHand(Over, "foldout")
        ELSE IF next # {}
        THEN /\ KeepStreet(c, b, r, lv, a)
             /\ actor' = FirstFrom(actor, next)
             /\ UNCHANGED <<street, awaiting, ending>>
        ELSE CloseRound(street, f, k, c, b, r, lv, a)

-----------------------------------------------------------------------------
(* The deal *)

\* nlh_blind_seats: heads-up the second seat after the button has the small blind
BlindSeats(btn, in) ==
  LET first  == FirstFrom(btn, in)
      second == FirstFrom(first, in \ {first})
  IN IF Cardinality(in) = 2 THEN [sb |-> second, bb |-> first]
                            ELSE [sb |-> first, bb |-> second]

\* new_hand_with_mask: antes are dead, blinds live, and the bet to call is the
\* whole big blind whatever its seat could pay
Deal(g, btn, in, start) ==
  LET anted == [s \in Seats |-> IF s \in in THEN Lesser(start[s], Ante) ELSE 0]
      left  == [s \in Seats |-> IF s \in in THEN start[s] - anted[s] ELSE 0]
      seat  == BlindSeats(btn, in)
      blind == [s \in Seats |-> IF ~g.holdem THEN 0
                                ELSE IF s = seat.sb THEN Lesser(left[s], SmallBlind)
                                ELSE IF s = seat.bb THEN Lesser(left[s], BigBlind) ELSE 0]
      k     == [s \in Seats |-> left[s] - blind[s]]
      b     == IF g.holdem THEN BigBlind ELSE 0
      st    == IF g.holdem THEN 0 ELSE 1
      able  == {s \in CanAct(Seats \ in, k) : Contest(s, Seats \ in, k, blind)}
  IN /\ street = Over /\ ending = ""       \* the blank state
     /\ game' = g /\ button' = btn
     /\ folded' = Seats \ in /\ stack' = k
     /\ total' = [s \in Seats |-> anted[s] + blind[s]]
     /\ IF able # {}
        THEN /\ KeepStreet(blind, b, BigBlind, Zero, {})
             /\ actor' = FirstFrom(IF g.holdem THEN seat.bb ELSE btn, able)
             /\ street' = st /\ ending' = "" /\ awaiting' = Nobody
        ELSE CloseRound(st, Seats \ in, k, blind, b, BigBlind, Zero, {})

-----------------------------------------------------------------------------
(* The moves the actor may make *)

Playing == actor # Nobody
Facing == bet > commit[actor]
ToCall == Lesser(Over0(bet, commit[actor]), stack[actor])
ActorReach == Reach(actor, folded, stack, commit)

\* short_shove_lockout: the bet has not grown by a full raise since their move
Lockout == Facing /\ actor \in acted /\ bet < level[actor] + raise

MinTotal == IF bet = 0 THEN BigBlind ELSE bet + raise        \* min_bet_total
\* max_bet_total
MaxTotal ==
  LET uncapped == ~game.reach /\ ActorReach > bet
      potTotal == bet + Pot + ToCall
  IN IF game.holdem
     THEN IF uncapped THEN commit[actor] + stack[actor] ELSE ActorReach
     ELSE IF uncapped THEN potTotal ELSE Lesser(potTotal, ActorReach)

\* min_raise_chips: a floor nobody can reach is the covering bet (reach_cap)
MinRaise ==
  LET delta == MinTotal - commit[actor]
      cover == Over0(ActorReach, commit[actor])
      least == IF game.reach THEN Lesser(delta, cover) ELSE delta
  IN IF Lockout \/ delta <= 0 \/ ActorReach <= bet \/ least > stack[actor] THEN 0 ELSE least

\* max_raise_chips
MaxRaise ==
  LET cap == Lesser(MaxTotal, commit[actor] + stack[actor])
  IN IF Lockout \/ cap <= Greater(commit[actor], bet) THEN 0 ELSE cap - commit[actor]

\* all_in_is_legal: a full raise, or a shove too short to be one
AllInLegal ==
  LET shove == commit[actor] + stack[actor]
  IN /\ stack[actor] > 0 /\ ~Lockout /\ shove <= MaxTotal
     /\ shove >= MinTotal \/ (Facing /\ shove > bet) \/ (~Facing /\ shove > 0)

\* sizing_chips, and whether legal_action_mask allows the size (a size equal to
\* the call or the shove is left to those moves)
SizingChips(f) ==
  LET over   == ((IF bet = 0 THEN Pot ELSE Pot + Over0(bet, commit[actor])) * f[1]) \div f[2]
      target == Lesser(Greater(bet + over, MinTotal), MaxTotal)
  IN Lesser(Over0(target, commit[actor]), stack[actor])
SizingLegal(f) ==
  LET chips == SizingChips(f)
      sum   == commit[actor] + chips
  IN /\ stack[actor] > 0 /\ ~Lockout
     /\ chips > 0 /\ sum >= MinTotal /\ sum <= MaxTotal
     /\ chips # ToCall /\ ~(AllInLegal /\ chips = stack[actor])

\* Mutant: a short all-in lowers the least raise
RaisedToAny(grown) == grown
\* commit_chips: only a full raise moves the floor
RaisedTo(grown) == IF grown >= raise THEN grown ELSE raise

\* commit_chips, then the next seat
PutIn(chips) ==
  LET c == [commit EXCEPT ![actor] = @ + chips]
      k == [stack EXCEPT ![actor] = @ - chips]
      b == Greater(bet, c[actor])
  IN /\ total' = [total EXCEPT ![actor] = @ + chips]
     /\ Advance(folded, k, c, b, IF b > bet THEN RaisedTo(b - bet) ELSE raise,
                [level EXCEPT ![actor] = b], acted \cup {actor})

Fold ==
  /\ Playing /\ Facing
  /\ UNCHANGED total
  /\ Advance(folded \cup {actor}, stack, commit, bet, raise,
             [level EXCEPT ![actor] = bet], acted \cup {actor})

CheckCall == Playing /\ PutIn(ToCall)

\* apply with one of the pot-fraction sizes
Sized(f) == Playing /\ SizingLegal(f) /\ PutIn(SizingChips(f))

AllIn == Playing /\ AllInLegal /\ PutIn(stack[actor])

\* apply_raise_chips: a raise that would leave dust behind is the shove
DustChips == Greater(BigBlind \div 100, 1)
RaiseBy(chips) ==
  /\ Playing /\ MinRaise > 0 /\ chips \in MinRaise .. MaxRaise
  /\ PutIn(IF stack[actor] - chips <= DustChips /\ stack[actor] <= MaxRaise
           THEN stack[actor] ELSE chips)

\* set_turn, set_river and the hold'em setters: the next street's cards are in
NextStreet ==
  /\ awaiting # Nobody
  /\ street' = awaiting /\ awaiting' = Nobody
  /\ FreshStreet
  /\ actor' = Opener(button, folded, stack)
  /\ UNCHANGED <<game, button, stack, total, folded, ending>>

-----------------------------------------------------------------------------
(* The environments: three gates (gate_mask_from_bounds, _pack_obs)          *)

\* Mutant: a bet under a big blind is screened in no game
ScreenDust == DustChips
\* A bet under the screen is hidden unless it is an all-in
Screen == IF game.cover THEN DustChips ELSE BigBlind
RaiseOffered == MaxRaise > 0 /\ (MaxRaise >= Screen \/ AllInLegal)

\* step_hybrid's Raise: the shove where no raise fits, or the chips, which the
\* tables clamp into the window (_apply_action_locked)
RaiseAccepted == (MinRaise = 0 /\ AllInLegal) \/ (MinRaise > 0 /\ MinRaise <= MaxRaise)

-----------------------------------------------------------------------------
(* The specification *)

\* GameState::blank
Init ==
  /\ game = CHOOSE g \in Games : TRUE
  /\ button = 0 /\ street = Over /\ ending = ""
  /\ stack = Zero /\ total = Zero /\ folded = {}
  /\ commit = Zero /\ bet = 0 /\ raise = BigBlind /\ level = Zero /\ acted = {}
  /\ actor = Nobody /\ awaiting = Nobody

Next ==
  \/ \E g \in Games, btn \in Seats, in \in {S \in SUBSET Seats : Cardinality(S) >= 2} :
       \E start \in [in -> StackChoices] : Deal(g, btn, in, start)
  \/ Fold \/ CheckCall \/ AllIn \/ NextStreet
  \/ \E f \in Fractions : Sized(f)
  \/ Playing /\ \E chips \in MinRaise .. MaxRaise : RaiseBy(chips)

Spec == Init /\ [][Next]_vars
\* Whoever is asked answers, if only because the shot clock does it for them
\* (TurnClock), and in Study the cards are entered
LiveSpec == Spec /\ WF_vars(Next)

-----------------------------------------------------------------------------
(* Properties *)

Ended == ending # ""

\* Every amount is a number of chips, and the seat to act is one that can act.
TypeOK ==
  /\ game \in GameKinds /\ button \in Seats
  /\ street \in 0 .. Over /\ awaiting \in {Nobody} \cup 1 .. River
  /\ stack \in [Seats -> Nat] /\ total \in [Seats -> Nat] /\ folded \subseteq Seats
  /\ commit \in [Seats -> Nat] /\ bet \in Nat /\ raise \in Nat
  /\ level \in [Seats -> Nat] /\ acted \subseteq Seats
  /\ ending \in {"", "foldout", "showdown", "runout"}
  /\ actor \in {Nobody} \cup CanAct(folded, stack)

\* When the hand ends, nobody who gave up has more in the pot than everybody who
\* stayed: the refunds of award_single_survivor and refund_orphan_layer are never
\* needed on a line of play ("unreachable on real lines, where the top commit
\* always belongs to an alive seat").
LiveSeatHoldsTop ==
  Ended => \A s \in folded : \E t \in Live(folded) : total[s] <= total[t]

\* The weak orders of the live seats' hands; folded seats' hands are not ranked
Ranks ==
  LET R == [Seats -> 0 .. NumSeats - 1]
  IN {r \in R : /\ \A s \in folded : r[s] = 0
                /\ \A s \in Live(folded) :
                     r[s] = Cardinality({r[t] : t \in {u \in Live(folded) : r[u] < r[s]}})}
Boards == IF game.holdem THEN {<<r>> : r \in Ranks} ELSE {<<r, q>> : r \in Ranks, q \in Ranks}
Settled == ending \in {"showdown", "foldout"} /\ (game.study => ending = "foldout")

\* Whatever the hands, the engine pays out exactly the chips that went in.
PotPaidInFull ==
  Settled => \A ranks \in Boards : Total(Won(folded, total, ranks, button)) = Pot

\* A player can win from each other player at most what they put in themselves:
\* what nobody matched comes back to whoever bet it, and a player who folded
\* gets nothing.
WinnersMatchedIt ==
  Settled => \A ranks \in Boards : \A s \in Seats :
    LET won == Won(folded, total, ranks, button)[s]
    IN IF s \in folded THEN won = 0
       ELSE won <= Total([r \in Seats |-> Lesser(total[r], total[s])])

\* The pot is divided among those who stayed and covered it, to the last chip
PotsAreRight == TypeOK /\ LiveSeatHoldsTop /\ PotPaidInFull /\ WinnersMatchedIt

\* The awards the home game animates add up to what the engine pays, seat by seat
\* (build_awards: "every seat's total is exactly what the engine pays").
AwardsMatchEngine ==
  Settled => \A ranks \in Boards :
    Awarded(folded, total, ranks, button) = Won(folded, total, ranks, button)

\* The recorded money flows of a home game add up to a player's result but for
\* the rounding of each pair: half a chip for each opponent.
FlowsNearlyAddUp ==
  Settled /\ ~game.holdem => \A ranks \in Boards : \A s \in Seats :
    LET off == FlowsTo(folded, total, ranks, button, s)
                 - (Won(folded, total, ranks, button)[s] - total[s])
    IN 2 * off <= NumSeats - 1 /\ -2 * off <= NumSeats - 1

\* What the home game shows and records of a hand is what the engine paid
TableShowsThePayout == AwardsMatchEngine /\ FlowsNearlyAddUp

\* A round closes, and what a seat has put in by then
Closes ==
  /\ Playing /\ (street' # street \/ awaiting' # awaiting \/ ending' # ending)
  /\ ending' # "foldout"
Put(s) == commit[s] + total'[s] - total[s]
Unraised(s) == \A r \in Live(folded') \ {s} : Put(r) + stack'[r] <= Put(s)
Answered(s) == s \in acted \cup {actor} /\ Put(s) >= bet /\ \A r \in Seats : Put(r) <= Put(s)

\* A round closes only when every player still in with chips has had a turn on
\* the street and has met the bet, unless nobody could put in more than they have.
EveryoneAnswers ==
  [][Closes => \A s \in CanAct(folded', stack') : Unraised(s) \/ Answered(s)]_vars

FullRaise ==
  /\ \/ bet' - bet >= raise
     \/ stack'[actor] = 0
     \/ game.reach /\ commit'[actor] = ActorReach
  /\ actor \in acted => bet - level[actor] >= raise
  /\ raise' >= raise /\ raise' >= BigBlind

\* A raise adds at least the raise before it (a big blind at least) unless it is
\* the raiser's last chip or covers all the others can reach, and a player who has
\* acted raises again only once the bet has grown by a full raise since.
RaisesAreFull ==
  [][Playing /\ actor' # Nobody /\ street' = street /\ bet' > bet => FullRaise]_vars

\* A raise the environment offers is one the engine takes (gate_mask_from_bounds:
\* "legal iff max_raise > 0 AND the raise is either a full-size wager or a genuine
\* all-in shove"), in the games that hide bets under a big blind, unless somebody
\* has gone all in for less than a big blind in a pot that is smaller still.
OfferedRaiseTaken ==
  Playing /\ ~game.cover /\ RaiseOffered =>
    RaiseAccepted \/ (~game.holdem /\ bet \in 1 .. BigBlind - 1 /\ Pot + ToCall < BigBlind)

\* The same of every game and every pot.
EveryOfferedRaiseTaken == Playing /\ RaiseOffered => RaiseAccepted

\* What is left of a hand: its streets and chips first, then who is in and has yet to
\* act on the street
Running == Playing \/ awaiting # Nobody
Stages == IF Playing THEN 2 * (Over - street)
          ELSE IF awaiting # Nobody THEN 2 * (Over - street) - 1 ELSE 0
MovesLeft == (NumSeats + 1) * (Stages + Total(stack))
               + Cardinality(Live(folded)) + Cardinality(Seats \ acted)

\* A hand never stops with nobody to act (a street that opens has somebody to open it:
\* close_round_or_run_out), and every move leaves less of it to play: nobody is asked
\* twice to no end, by short all-ins and lock-outs either.
HandsRunDown == [][(Running' \/ Ended') /\ (Running => MovesLeft' < MovesLeft)]_vars

\* Every hand comes to an end: it runs down, and players answering in turn cannot go
\* on forever.
HandEnds == (actor # Nobody) ~> Ended
BettingEnds == HandsRunDown /\ HandEnds

=============================================================================
