------------------------------ MODULE SidePots ------------------------------
(* The division of a finished hand's chips: the engine's side pots and its   *)
(* settlement over one or two boards (rust_engine/src/double_board.rs), and  *)
(* what the home games make of the same hand for their players, the awards   *)
(* they show and the money flows they record (ui/runout.py).                 *)
(*                                                                           *)
(* total is what each seat put into the pot over the hand, folded the seats  *)
(* that gave up (or sat out), ranks how strong the hand of each seat is, one *)
(* function per board, and button the dealer's seat.                         *)
EXTENDS Money, Sequences

CONSTANT NumSeats
ASSUME NumSeatsAssumption == NumSeats \in Nat /\ NumSeats >= 2

Seats == 0 .. NumSeats - 1
Live(folded) == Seats \ folded
Survivor(folded) == CHOOSE s \in Live(folded) : TRUE
Lesser(a, b) == IF a < b THEN a ELSE b

\* How many steps clockwise from seat a to seat b: all the way round to itself
Steps(a, b) == IF b > a THEN b - a ELSE b - a + NumSeats

-----------------------------------------------------------------------------
(* The engine *)

\* PotLayers::new: one layer for each different amount put in
Levels(total) == {total[s] : s \in Seats} \ {0}
LayerEach(total, l) ==
  LET below == {m \in Levels(total) \cup {0} : m < l}
  IN l - CHOOSE m \in below : \A k \in below : k <= m
Contributors(total, l) == {s \in Seats : total[s] >= l}
LayerChips(total, l) == LayerEach(total, l) * Cardinality(Contributors(total, l))

\* Mutant: a folded seat still plays for the layers it paid into
EligibleFolded(folded, total, l) == Contributors(total, l)
Eligible(folded, total, l) == Contributors(total, l) \ folded

\* award_half_ranked: the seats of S with the best hand
Best(S, rank) == {s \in S : \A r \in S : rank[r] <= rank[s]}

\* distribute_evenly_mask: the odd chips go clockwise from the button
Share(W, amount, button, s) ==
  IF s \notin W THEN 0
  ELSE amount \div Cardinality(W)
       + IF Cardinality({r \in W : Steps(button, r) < Steps(button, s)})
              < amount % Cardinality(W) THEN 1 ELSE 0

\* What board b pays of a layer: half, the odd chip on the second board
OnBoard(chips, b, ranks) ==
  IF Len(ranks) = 1 THEN chips ELSE IF b = 1 THEN chips \div 2 ELSE chips - chips \div 2

\* payout_layers_inner: what seat s wins of the layer up to l
LayerWon(folded, total, ranks, button, l, s) ==
  LET E == Eligible(folded, total, l)
  IN IF E = {}                       \* refund_orphan_layer
     THEN IF s \in Contributors(total, l) THEN LayerEach(total, l) ELSE 0
     ELSE Total([b \in DOMAIN ranks |->
            Share(Best(E, ranks[b]), OnBoard(LayerChips(total, l), b, ranks), button, s)])

\* award_single_survivor: what the survivor could not have matched goes back
SurvivorWon(folded, total, s) ==
  LET top == total[Survivor(folded)]
  IN IF s \in Live(folded) THEN Total([r \in Seats |-> Lesser(total[r], top)])
     ELSE total[s] - Lesser(total[s], top)

\* double_board_payout, single_board_payout: the chips each seat wins
Won(folded, total, ranks, button) ==
  [s \in Seats |->
     IF Cardinality(Live(folded)) = 1 THEN SurvivorWon(folded, total, s)
     ELSE Total([l \in Levels(total) |-> LayerWon(folded, total, ranks, button, l, s)])]

-----------------------------------------------------------------------------
(* The home games *)

\* pot_groups, display_pots: the layers the same players can win are one pot
Pots(folded, total) == {Eligible(folded, total, l) : l \in Levels(total)} \ {{}}
LayersOf(folded, total, pot) == {l \in Levels(total) : Eligible(folded, total, l) = pot}

\* Mutant: a pot of several layers is split as one amount
PotAwardWhole(folded, total, ranks, button, pot, b, s) ==
  Share(Best(pot, ranks[b]),
        OnBoard(Total([l \in LayersOf(folded, total, pot) |-> LayerChips(total, l)]), b, ranks),
        button, s)
\* One step of build_awards: what seat s takes of a pot on board b
PotAward(folded, total, ranks, button, pot, b, s) ==
  Total([l \in LayersOf(folded, total, pot) |->
           Share(Best(pot, ranks[b]), OnBoard(LayerChips(total, l), b, ranks), button, s)])

\* What the awards shown give a seat
Awarded(folded, total, ranks, button) ==
  [s \in Seats |->
     IF Cardinality(Live(folded)) = 1
     THEN IF s \in Live(folded) THEN Total(total) ELSE 0
     ELSE Total([pot \in Pots(folded, total) |->
            Total([b \in DOMAIN ranks |->
                     PotAward(folded, total, ranks, button, pot, b, s)])])]

\* money_flows pays fractions of a chip: they are counted in Parts-ths
Factorial[n \in Nat] == IF n = 0 THEN 1 ELSE n * Factorial[n - 1]
Parts == Factorial[NumSeats]

\* What w takes of a layer, for the flows; nobody can win it: nothing flows
LayerTaken(folded, total, ranks, button, l, w) ==
  LET alive == {s \in Live(folded) : total[s] > 0}
  IN
  IF Cardinality(alive) <= 1
  THEN IF w \in alive THEN LayerChips(total, l) ELSE 0
  ELSE IF Eligible(folded, total, l) = {} THEN 0
       ELSE LayerWon(folded, total, ranks, button, l, w)

\* What payer lost to w, each layer's winners paid alike by its contributors
Gross(folded, total, ranks, button, payer, w) ==
  Total([l \in {m \in Levels(total) : payer \in Contributors(total, m)} |->
           LayerTaken(folded, total, ranks, button, l, w)
             * (Parts \div Cardinality(Contributors(total, l)))])

\* round(n / Parts), half to even
RoundParts(n) ==
  LET q == n \div Parts
      r == 2 * (n % Parts)
  IN IF r > Parts \/ (r = Parts /\ q % 2 = 1) THEN q + 1 ELSE q

\* What payer owes payee over the hand, net, in whole chips
Flow(folded, total, ranks, button, payer, payee) ==
  RoundParts(Gross(folded, total, ranks, button, payer, payee)
               - Gross(folded, total, ranks, button, payee, payer))

\* A seat's hand by the recorded flows
FlowsTo(folded, total, ranks, button, s) ==
  Total([r \in Seats \ {s} |-> Flow(folded, total, ranks, button, r, s)])

=============================================================================
