-------------------------- MODULE HomeTable_proof --------------------------
(* Proofs about one home-game table, for every number of players, seats,     *)
(* chips, hands, failed writes and restarts.  In order: the seating and the  *)
(* hand; the ledger; the rows and memory; the records of the hands; the      *)
(* types of money; the results in cents; how money moves; the table when a   *)
(* chip is a cent; the abstract money; the closing of a table.               *)
EXTENDS HomeTable, Money_proof, WellFoundedInduction, TLAPS

-----------------------------------------------------------------------------
(* The seating, the hand and the pass under way *)

\* The pass under way, or none
PassShape ==
  pass \in [job: {"none", "settle", "tick", "deal"}, stage: Nat, pos: Nat,
            todo: SUBSET Users, detached: BOOLEAN]

SeatingShape ==
  /\ occ \in [Seats -> Users \cup {Nobody}]
  /\ dealt \in [Seats -> Users \cup {Nobody}]
  /\ phase \in {"idle", "in_hand", "runout"}
  /\ DOMAIN stack = Users
  /\ kicks \subseteq Users

\* Nobody sits twice
OneSeat == \A i, j \in Seats : occ[i] = occ[j] /\ occ[i] # Nobody => i = j

\* The pass that deals runs between hands
DealsBetweenHands == pass.job = "deal" => ~HandBusy

SeatingInv ==
  PassShape /\ SeatingShape /\ OneSeat /\ DealsBetweenHands /\ CardsKeepTheirSeat

-----------------------------------------------------------------------------
(* Where a pass stands *)

\* SeatOf finds the seat of whoever has one
LEMMA SeatOfSeated ==
  ASSUME SeatingShape, NEW u \in Seated
  PROVE  SeatOf(u) \in Occupied /\ occ[SeatOf(u)] = u /\ u \in Users
BY NobodyAssumption DEF SeatingShape, Seated, SeatOf, Occupied

\* The first of some seats is one of them
LEMMA FirstIsMember ==
  ASSUME NEW S \in SUBSET Seats, S # {}
  PROVE  First(S) \in S
<1> DEFINE Less == OpToRel(<, Nat)
<1>1. S \subseteq Nat
  BY DEF Seats
<1>2. IsWellFoundedOn(Less, Nat)
  BY NatLessThanWellFounded
<1>3. \A x, y \in Nat : x < y => <<x, y>> \in Less
  BY DEF OpToRel
<1> HIDE DEF Less
<1>4. PICK x \in S : \A y \in S : ~(<<y, x>> \in Less)
  BY <1>1, <1>2, WFMin
<1>5. \A y \in S : x <= y
  <2> SUFFICES ASSUME NEW y \in S PROVE x <= y
    OBVIOUS
  <2>1. ~(<<y, x>> \in Less)
    BY <1>4
  <2>2. x \in Nat /\ y \in Nat
    BY <1>1
  <2>3. ~(y < x)
    BY <1>3, <2>1, <2>2 DEF Less
  <2>4. QED
    BY <2>2, <2>3
<1>6. QED
  BY <1>5 DEF First

\* The pass stands at a stage of its job, and that stage has work to do
LEMMA StageOfJob ==
  ASSUME PassShape,
         NEW stage, NEW k \in Stages, At(stage, k)
  PROVE  /\ stage = "leaves" => ~HandBusy /\ Leavers(k) # {}
         /\ stage = "kicks" => ~HandBusy
         /\ stage = "withdrawals" => ~HandBusy /\ Queued(qRem, k) # {}
         /\ stage = "topups" => ~HandBusy /\ Queued(qTop, k) # {}
         /\ stage \in {"auto", "deal"} => pass.job = "deal"
<1>1. HasWork(k) /\ Plan[pass.job][k] = stage
  BY DEF At
<1>2. /\ stage = "leaves" => ~HandBusy /\ Leavers(k) # {}
      /\ stage = "kicks" => ~HandBusy
      /\ stage = "withdrawals" => ~HandBusy /\ Queued(qRem, k) # {}
      /\ stage = "topups" => ~HandBusy /\ Queued(qTop, k) # {}
  BY <1>1 DEF HasWork
<1>3. stage \in {"auto", "deal"} => pass.job = "deal"
  <2>1. CASE pass.job = "none"
    BY <2>1 DEF At, Stages, Plan, PassShape
  <2>2. CASE pass.job = "settle"
    <3>1. Plan["settle"] = <<"leaves", "kicks", "end">>
      BY DEF Plan
    <3>2. k \in {1, 2, 3}
      BY <2>2, <3>1 DEF At, Stages, PassShape
    <3>3. QED
      BY <1>1, <2>2, <3>1, <3>2
  <2>3. CASE pass.job = "tick"
    <3>1. Plan["tick"] = <<"leaves", "kicks", "withdrawals", "topups", "persist">>
      BY DEF Plan
    <3>2. k \in {1, 2, 3, 4, 5}
      BY <2>3, <3>1 DEF At, Stages, PassShape
    <3>3. QED
      BY <1>1, <2>3, <3>1, <3>2
  <2>4. QED
    BY <2>1, <2>2, <2>3 DEF PassShape
<1>4. QED
  BY <1>2, <1>3

\* A pass that begins, and one that goes on to its next seat or player
LEMMA PassBegins ==
  ASSUME NEW job \in {"none", "settle", "tick", "deal"}, pass' = Begin(job) \/ pass' = Idle
  PROVE  PassShape' /\ pass'.job \in {"none", job}
<1> DEFINE R == [job: {"none", "settle", "tick", "deal"}, stage: Nat, pos: Nat,
                todo: SUBSET Users, detached: BOOLEAN]
<1>1. Idle \in R /\ Idle.job = "none"
  BY DEF Idle
<1>2. Begin(job) \in R /\ Begin(job).job = job
  BY <1>1 DEF Begin
<1>3. QED
  BY <1>1, <1>2 DEF PassShape

LEMMA PassGoesOn ==
  ASSUME PassShape, NEW k \in Nat, NEW p \in Nat, NEW d \in BOOLEAN, NEW t \in SUBSET Users,
         \/ pass' = [pass EXCEPT !.stage = k]
         \/ pass' = [pass EXCEPT !.stage = k, !.pos = p]
         \/ pass' = [pass EXCEPT !.stage = k, !.pos = p, !.detached = d]
         \/ pass' = [pass EXCEPT !.stage = k, !.todo = t]
  PROVE  PassShape' /\ pass'.job = pass.job
BY DEF PassShape

-----------------------------------------------------------------------------
(* Every step keeps the seating *)

\* A step that leaves the seats and the hand alone, and the chips of whoever
\* holds cards
LEMMA SeatsUntouched ==
  ASSUME SeatingInv, PassShape', DealsBetweenHands',
         UNCHANGED <<occ, handVars>>, DOMAIN stack' = Users, kicks' \subseteq Users,
         phase = "in_hand" => \A i \in DealtSeats : stack'[dealt[i]] = stack[dealt[i]]
  PROVE  SeatingInv'
<1>1. SeatingShape'
  BY DEF SeatingInv, SeatingShape, handVars
<1>2. OneSeat'
  BY DEF SeatingInv, OneSeat
<1>3. CardsKeepTheirSeat'
  BY DEF SeatingInv, CardsKeepTheirSeat, HandBusy, DealtSeats, handVars
<1>4. QED
  BY <1>1, <1>2, <1>3 DEF SeatingInv

\* A step that only moves the pass on
LEMMA OnlyPassMoves ==
  ASSUME SeatingInv, PassShape', pass'.job = "deal" => ~HandBusy,
         UNCHANGED <<occ, stack, kicks, handVars>>
  PROVE  SeatingInv'
<1>1. DealsBetweenHands'
  BY DEF DealsBetweenHands, HandBusy, handVars
<1>2. DOMAIN stack' = Users /\ kicks' \subseteq Users
  BY DEF SeatingInv, SeatingShape
<1>3. QED
  BY <1>1, <1>2, SeatsUntouched

\* A cash-out of a seat that holds no cards
LEMMA CashOutKeepsSeating ==
  ASSUME SeatingInv, NEW i \in Occupied, CashOut(i),
         HandBusy => dealt[i] = Nobody,
         kicks' \subseteq Users, PassShape', DealsBetweenHands'
  PROVE  SeatingInv'
<1>1. /\ i \in Seats /\ occ[i] \in Users
      /\ occ' = [occ EXCEPT ![i] = Nobody]
      /\ stack' = [stack EXCEPT ![occ[i]] = 0]
      /\ UNCHANGED <<phase, dealt, start>>
  BY DEF CashOut, Occupied, SeatingInv, SeatingShape, handVars
<1>2. SeatingShape'
  BY <1>1 DEF SeatingInv, SeatingShape
<1>3. OneSeat'
  BY <1>1 DEF SeatingInv, SeatingShape, OneSeat
<1>4. CardsKeepTheirSeat'
  <2> SUFFICES ASSUME HandBusy, NEW j \in DealtSeats
               PROVE  /\ occ'[j] = dealt[j]
                      /\ phase = "in_hand" => stack'[dealt[j]] = start[j]
    BY <1>1 DEF CardsKeepTheirSeat, HandBusy, DealtSeats
  <2>1. j \in Seats /\ j # i /\ occ[j] = dealt[j] /\ dealt[j] # Nobody
    BY DEF DealtSeats, SeatingInv, CardsKeepTheirSeat
  <2>2. occ[j] # occ[i]
    BY <1>1, <2>1 DEF SeatingInv, OneSeat
  <2>3. QED
    BY <1>1, <2>1, <2>2 DEF SeatingInv, SeatingShape, CardsKeepTheirSeat
<1>5. QED
  BY <1>2, <1>3, <1>4 DEF SeatingInv

LEMMA InitSeating == Init => SeatingInv
<1> SUFFICES ASSUME Init PROVE SeatingInv
  OBVIOUS
<1>1. PassShape
  BY DEF Init, Idle, PassShape
<1>2. SeatingShape /\ OneSeat
  BY DEF Init, SeatingShape, OneSeat
<1>3. DealsBetweenHands /\ CardsKeepTheirSeat
  BY DEF Init, DealsBetweenHands, CardsKeepTheirSeat, HandBusy
<1>4. QED
  BY <1>1, <1>2, <1>3 DEF SeatingInv

\* No handler moves a pass under way
LEMMA PassStays ==
  ASSUME SeatingInv, UNCHANGED <<pass, phase>>
  PROVE  PassShape' /\ DealsBetweenHands'
BY DEF SeatingInv, PassShape, DealsBetweenHands, HandBusy

LEMMA LeaveKeepsSeating ==
  ASSUME SeatingInv, NEW u \in Users, Leave(u) \/ LeaveNow(u) \/ CancelLeave(u) \/ Kick(u)
  PROVE  SeatingInv'
<1>1. SeatOf(u) \in Occupied /\ occ[SeatOf(u)] = u /\ kicks \cup {u} \subseteq Users
  BY SeatOfSeated DEF SeatingInv, SeatingShape, Leave, LeaveNow, CancelLeave, Kick
<1>2. CASE Defer(u)
  <2>1. UNCHANGED <<occ, stack, handVars, pass, phase>> /\ kicks' = kicks \cup {u}
    BY <1>2 DEF Defer, moneyVars, handVars
  <2>2. PassShape' /\ DealsBetweenHands'
    BY <2>1, PassStays
  <2>3. DOMAIN stack' = Users
    BY <2>1 DEF SeatingInv, SeatingShape
  <2>4. QED
    BY <1>1, <2>1, <2>2, <2>3, SeatsUntouched
<1>3. CASE CashOut(SeatOf(u)) /\ UNCHANGED <<kicks, pass>> /\ (HandBusy => dealt[SeatOf(u)] = Nobody)
  <2>1. PassShape' /\ DealsBetweenHands' /\ kicks' \subseteq Users
    BY <1>1, <1>3, PassStays DEF CashOut, handVars
  <2>2. QED
    BY <1>1, <1>3, <2>1, CashOutKeepsSeating
<1>4. CASE UNCHANGED <<occ, stack, kicks, handVars, pass>>
  <2>1. PassShape' /\ DealsBetweenHands'
    BY <1>4, PassStays DEF handVars
  <2>2. QED
    BY <1>4, <2>1, OnlyPassMoves DEF DealsBetweenHands, HandBusy, handVars
<1>5. CASE Leave(u)
  <2>1. \/ UNCHANGED <<occ, stack, kicks, handVars, pass>>
        \/ CashOut(SeatOf(u)) /\ UNCHANGED <<kicks, pass>> /\ ~HoldsCards(u) /\ phase # "runout"
    BY <1>5 DEF Leave, moneyVars
  <2>2. ~HoldsCards(u) /\ phase # "runout" => (HandBusy => dealt[SeatOf(u)] = Nobody)
    BY DEF HoldsCards, HandBusy, SeatingInv, SeatingShape
  <2>3. QED
    BY <1>3, <1>4, <2>1, <2>2
<1>6. CASE LeaveNow(u)
  BY <1>2, <1>6 DEF LeaveNow
<1>7. CASE CancelLeave(u)
  BY <1>4, <1>7 DEF CancelLeave, moneyVars
<1>8. CASE Kick(u)
  BY <1>2, <1>3, <1>8 DEF Kick
<1>9. QED
  BY <1>5, <1>6, <1>7, <1>8

LEMMA SitKeepsSeating ==
  ASSUME SeatingInv, NEW u \in Users, NEW i \in Seats, NEW c, Sit(u, i, c)
  PROVE  SeatingInv'
<1>1. /\ occ[i] = Nobody /\ u \notin Seated
      /\ HandBusy => dealt[i] = Nobody
      /\ occ' = [occ EXCEPT ![i] = u]
      /\ stack' = [stack EXCEPT ![u] = Chips(c)]
      /\ UNCHANGED <<kicks, phase, dealt, start, pass>>
  BY DEF Sit, flagVars, handVars
<1>2. SeatingShape'
  BY <1>1 DEF SeatingInv, SeatingShape
<1>3. OneSeat'
  BY <1>1, NobodyAssumption DEF SeatingInv, SeatingShape, OneSeat, Seated
<1>4. CardsKeepTheirSeat'
  <2> SUFFICES ASSUME HandBusy, NEW j \in DealtSeats
               PROVE  /\ occ'[j] = dealt[j]
                      /\ phase = "in_hand" => stack'[dealt[j]] = start[j]
    BY <1>1 DEF CardsKeepTheirSeat, HandBusy, DealtSeats
  <2>1. j \in Seats /\ j # i /\ occ[j] = dealt[j] /\ dealt[j] # Nobody
    BY <1>1 DEF DealtSeats, SeatingInv, CardsKeepTheirSeat
  <2>2. occ[j] # u
    BY <1>1, <2>1 DEF SeatingInv, SeatingShape, Seated
  <2>3. QED
    BY <1>1, <2>1, <2>2 DEF SeatingInv, SeatingShape, CardsKeepTheirSeat
<1>5. PassShape' /\ DealsBetweenHands'
  BY <1>1, PassStays
<1>6. QED
  BY <1>2, <1>3, <1>4, <1>5 DEF SeatingInv

LEMMA MoveKeepsSeating ==
  ASSUME SeatingInv, NEW u \in Users, NEW j \in Seats, Move(u, j)
  PROVE  SeatingInv'
<1>1. /\ SeatOf(u) \in Seats /\ occ[SeatOf(u)] = u /\ occ[j] = Nobody
      /\ HandBusy => dealt[SeatOf(u)] = Nobody
      /\ occ' = [occ EXCEPT ![j] = u, ![SeatOf(u)] = Nobody]
      /\ UNCHANGED <<stack, kicks, phase, dealt, start, pass>>
  BY SeatOfSeated DEF Move, DealtIn, Occupied, SeatingInv, moneyVars, flagVars, handVars
<1>2. SeatingShape'
  BY <1>1 DEF SeatingInv, SeatingShape
<1>3. OneSeat'
  BY <1>1, NobodyAssumption DEF SeatingInv, SeatingShape, OneSeat
<1>4. CardsKeepTheirSeat'
  BY <1>1 DEF SeatingInv, SeatingShape, CardsKeepTheirSeat, HandBusy, DealtSeats
<1>5. PassShape' /\ DealsBetweenHands'
  BY <1>1, PassStays
<1>6. QED
  BY <1>2, <1>3, <1>4, <1>5 DEF SeatingInv

\* Chips reach or leave a stack at once only when its seat holds no cards
LEMMA ChipsKeepSeating ==
  ASSUME SeatingInv, NEW u \in Users, NEW c, TopUp(u, c) \/ TakeOff(u, c)
  PROVE  SeatingInv'
<1>1. PassShape' /\ DealsBetweenHands'
  BY PassStays DEF TopUp, TakeOff, handVars
<1>2. UNCHANGED <<occ, kicks, handVars>> /\ u \in Seated
  BY DEF TopUp, TakeOff, BringIn, TakeOut
<1>3. DOMAIN stack' = Users /\ kicks' \subseteq Users
  BY <1>2 DEF TopUp, TakeOff, BringIn, TakeOut, moneyVars, SeatingInv, SeatingShape
<1>4. \/ stack' = stack
      \/ ~DealtIn(u) /\ \E n : stack' = [stack EXCEPT ![u] = n]
  BY DEF TopUp, TakeOff, BringIn, TakeOut, moneyVars
<1>5. ASSUME phase = "in_hand", NEW i \in DealtSeats
      PROVE  stack'[dealt[i]] = stack[dealt[i]]
  <2>1. i \in Seats /\ occ[i] = dealt[i] /\ dealt[i] # Nobody /\ dealt[i] \in Users
    BY <1>5 DEF DealtSeats, HandBusy, SeatingInv, SeatingShape, CardsKeepTheirSeat
  <2>2. ~DealtIn(u) => dealt[i] # u
    BY <1>2, <1>5, <2>1, SeatOfSeated DEF DealtIn, HandBusy, Occupied, SeatingInv, OneSeat
  <2>3. QED
    BY <1>4, <2>1, <2>2 DEF SeatingInv, SeatingShape
<1>6. QED
  BY <1>1, <1>2, <1>3, <1>5, SeatsUntouched

LEMMA HandlerKeepsSeating ==
  ASSUME SeatingInv, Handler
  PROVE  SeatingInv'
<1>1. ASSUME NEW u \in Users, NEW i \in Seats, NEW c \in BuyIns, Sit(u, i, c)
      PROVE  SeatingInv'
  BY <1>1, SitKeepsSeating
<1>2. ASSUME NEW u \in Users, NEW c \in Changes, TopUp(u, c) \/ TakeOff(u, c)
      PROVE  SeatingInv'
  BY <1>2, ChipsKeepSeating
<1>3. ASSUME NEW u \in Users, NEW i \in Seats, Move(u, i)
      PROVE  SeatingInv'
  BY <1>3, MoveKeepsSeating
<1>4. ASSUME NEW u \in Users, Leave(u) \/ LeaveNow(u) \/ CancelLeave(u) \/ Kick(u)
      PROVE  SeatingInv'
  BY <1>4, LeaveKeepsSeating
<1>5. ASSUME NEW u \in Users,
             \/ SitOutNext(u) \/ TransferHost(u) \/ TimedOut(u)
             \/ \E on \in BOOLEAN : SitOut(u, on)
      PROVE  SeatingInv'
  <2>1. UNCHANGED <<occ, stack, kicks, handVars, phase, pass>>
    BY <1>5 DEF SitOutNext, TransferHost, TimedOut, SitOut, moneyVars, flagVars, handVars
  <2>2. PassShape' /\ DealsBetweenHands'
    BY <2>1, PassStays
  <2>3. QED
    BY <2>1, <2>2, OnlyPassMoves DEF DealsBetweenHands, HandBusy
<1>6. ASSUME NEW on \in BOOLEAN, SetRunning(on)
      PROVE  SeatingInv'
  <2>1. UNCHANGED <<occ, stack, kicks, handVars>>
    BY <1>6 DEF SetRunning, moneyVars, flagVars
  <2>2. pass' = Idle \/ (pass' = Begin("deal") /\ ~HandBusy)
    BY <1>6 DEF SetRunning
  <2>3. PassShape' /\ (pass'.job = "deal" => ~HandBusy)
    BY <2>2, PassBegins
  <2>4. QED
    BY <2>1, <2>3, OnlyPassMoves
<1>7. ASSUME Close
      PROVE  SeatingInv'
  <2>1. /\ occ' = [i \in Seats |-> Nobody]
        /\ stack' = [u \in Users |-> 0]
        /\ kicks' = {} /\ ~HandBusy
        /\ UNCHANGED <<phase, dealt, start, pass>>
    BY <1>7 DEF Close, handVars
  <2>2. SeatingShape' /\ OneSeat'
    BY <2>1 DEF SeatingInv, SeatingShape, OneSeat
  <2>3. CardsKeepTheirSeat'
    BY <2>1 DEF CardsKeepTheirSeat, HandBusy
  <2>4. PassShape' /\ DealsBetweenHands'
    BY <2>1, PassStays
  <2>5. QED
    BY <2>2, <2>3, <2>4 DEF SeatingInv
<1>8. QED
  BY <1>1, <1>2, <1>3, <1>4, <1>5, <1>6, <1>7 DEF Handler

\* A hand's end moves the stacks of a hand that is over, or only revealing
LEMMA EndHandKeepsSeating ==
  ASSUME SeatingInv, EndHand
  PROVE  SeatingInv'
<1>1. /\ UNCHANGED <<occ, kicks>> /\ DOMAIN stack' = Users
      /\ \/ phase' = "runout" /\ UNCHANGED <<dealt, start>>
         \/ phase' = "idle" /\ dealt' = [i \in Seats |-> Nobody]
      /\ pass' = Idle \/ pass' = Begin("settle")
      /\ phase = "in_hand"
  BY DEF EndHand
<1>2. SeatingShape' /\ OneSeat'
  BY <1>1 DEF SeatingInv, SeatingShape, OneSeat
<1>3. CardsKeepTheirSeat'
  BY <1>1 DEF SeatingInv, CardsKeepTheirSeat, HandBusy, DealtSeats
<1>4. PassShape' /\ DealsBetweenHands'
  BY <1>1, PassBegins DEF DealsBetweenHands
<1>5. QED
  BY <1>2, <1>3, <1>4 DEF SeatingInv

LEMMA ClockKeepsSeating ==
  ASSUME SeatingInv, RunoutOver \/ StartTick \/ StartView \/ StartDeal
  PROVE  SeatingInv'
<1>1. CASE RunoutOver
  <2>1. /\ UNCHANGED <<occ, stack, kicks, pass>> /\ phase' = "idle"
        /\ dealt' = [i \in Seats |-> Nobody]
    BY <1>1 DEF RunoutOver, moneyVars, flagVars
  <2>2. SeatingShape' /\ OneSeat' /\ CardsKeepTheirSeat'
    BY <2>1 DEF SeatingInv, SeatingShape, OneSeat, CardsKeepTheirSeat, HandBusy
  <2>3. PassShape' /\ DealsBetweenHands'
    BY <2>1 DEF SeatingInv, PassShape, DealsBetweenHands, HandBusy
  <2>4. QED
    BY <2>2, <2>3 DEF SeatingInv
<1>2. CASE StartTick \/ StartView \/ StartDeal
  <2>1. UNCHANGED <<occ, stack, kicks, handVars>>
    BY <1>2 DEF StartTick, StartView, StartDeal, moneyVars, flagVars
  <2>2. pass' \in {Begin("tick"), Begin("settle")} \/ (pass' = Begin("deal") /\ ~HandBusy)
    BY <1>2 DEF StartTick, StartView, StartDeal
  <2>3. PassShape' /\ (pass'.job = "deal" => ~HandBusy)
    BY <2>2, PassBegins
  <2>4. QED
    BY <2>1, <2>3, OnlyPassMoves
<1>3. QED
  BY <1>1, <1>2

\* A restart finds at most one player per seat, and one seat per player
LEMMA RestartKeepsSeating ==
  ASSUME SeatingInv, DOMAIN dbStack = Users, Restart
  PROVE  SeatingInv'
<1>1. /\ occ' = [i \in Seats |-> IF \E u \in Users : dbSeat[u] = i
                                 THEN CHOOSE u \in Users : dbSeat[u] = i ELSE Nobody]
      /\ dealt' = [i \in Seats |-> Nobody]
      /\ stack' = dbStack /\ kicks' = {} /\ phase' = "idle" /\ pass' = Idle
  BY DEF Restart
<1>2. SeatingShape'
  BY <1>1 DEF SeatingShape
<1>3. OneSeat'
  BY <1>1 DEF OneSeat
<1>4. PassShape' /\ DealsBetweenHands' /\ CardsKeepTheirSeat'
  BY <1>1 DEF PassShape, DealsBetweenHands, CardsKeepTheirSeat, HandBusy, Idle
<1>5. QED
  BY <1>2, <1>3, <1>4 DEF SeatingInv

\* The seat-by-seat steps between hands
LEMMA LeaveStepKeepsSeating ==
  ASSUME SeatingInv, NEW k \in Stages, LeaveStep(k)
  PROVE  SeatingInv'
<1> DEFINE i == First(Leavers(k))
<1>1. ~HandBusy /\ i \in Occupied
  <2>1. ~HandBusy /\ Leavers(k) # {}
    BY StageOfJob DEF LeaveStep, SeatingInv
  <2>2. Leavers(k) \in SUBSET Seats /\ Leavers(k) \subseteq Occupied
    BY DEF Leavers, Occupied
  <2>3. QED
    BY <2>1, <2>2, FirstIsMember
<1>2. pass' = [pass EXCEPT !.stage = k, !.pos = i + 1]
  BY DEF LeaveStep
<1>3. PassShape' /\ pass'.job = pass.job
  <2> DEFINE p == i + 1
  <2>1. p \in Nat /\ k \in Nat /\ pass' = [pass EXCEPT !.stage = k, !.pos = p]
    BY <1>1, <1>2 DEF Occupied, Seats, Stages
  <2> HIDE DEF p
  <2>2. QED
    BY <2>1, PassGoesOn DEF SeatingInv
<1>4. CASE CashOut(i) /\ UNCHANGED kicks
  <2>1. DealsBetweenHands' /\ kicks' \subseteq Users
    BY <1>1, <1>3, <1>4 DEF CashOut, handVars, DealsBetweenHands, HandBusy, SeatingInv, SeatingShape
  <2>2. QED
    BY <1>1, <1>3, <1>4, <2>1, CashOutKeepsSeating
<1>5. CASE UNCHANGED <<occ, stack, kicks, handVars>>
  BY <1>1, <1>3, <1>5, OnlyPassMoves
<1>6. QED
  BY <1>4, <1>5 DEF LeaveStep, unchangedButPass, moneyVars, flagVars

LEMMA KickStepKeepsSeating ==
  ASSUME SeatingInv, NEW k \in Stages, NEW u \in Users, KickStep(k, u)
  PROVE  SeatingInv'
<1>1. ~HandBusy
  BY StageOfJob DEF KickStep, SeatingInv
<1>2. pass' = [pass EXCEPT !.stage = k, !.todo = Kicked(k) \ {u}]
  BY DEF KickStep
<1>3. PassShape' /\ pass'.job = pass.job
  <2> DEFINE t == Kicked(k) \ {u}
  <2>1. t \in SUBSET Users /\ k \in Nat /\ pass' = [pass EXCEPT !.stage = k, !.todo = t]
    BY <1>2 DEF SeatingInv, SeatingShape, PassShape, Kicked, Stages
  <2> HIDE DEF t
  <2>2. QED
    BY <2>1, PassGoesOn DEF SeatingInv
<1>4. CASE u \in Seated /\ CashOut(SeatOf(u)) /\ kicks' = kicks \ {u}
  <2>1. DealsBetweenHands' /\ kicks' \subseteq Users
    BY <1>1, <1>3, <1>4 DEF CashOut, handVars, DealsBetweenHands, HandBusy, SeatingInv, SeatingShape
  <2>2. SeatOf(u) \in Occupied
    BY <1>4, SeatOfSeated DEF SeatingInv
  <2>3. QED
    BY <1>1, <1>3, <1>4, <2>1, <2>2, CashOutKeepsSeating
<1>5. CASE UNCHANGED <<occ, stack, handVars>> /\ kicks' \in {kicks, kicks \ {u}}
  <2>1. DealsBetweenHands' /\ kicks' \subseteq Users /\ DOMAIN stack' = Users
    BY <1>1, <1>3, <1>5 DEF handVars, DealsBetweenHands, HandBusy, SeatingInv, SeatingShape
  <2>2. QED
    BY <1>3, <1>5, <2>1, SeatsUntouched
<1>6. QED
  BY <1>4, <1>5 DEF KickStep, unchangedButPass, moneyVars, flagVars

LEMMA DetachedIsBoolean ==
  ASSUME SeatingInv, NEW k
  PROVE  Detached(k) \in BOOLEAN
BY DEF Detached, SeatingInv, PassShape

\* Landing queued chips, between hands
LEMMA LandingKeepsSeating ==
  ASSUME SeatingInv, NEW k \in Stages, WithdrawalStep(k) \/ TopUpStep(k)
  PROVE  SeatingInv'
<1>1. ~HandBusy
  BY StageOfJob DEF WithdrawalStep, TopUpStep, SeatingInv
<1>2. /\ UNCHANGED <<occ, kicks, handVars>>
      /\ DOMAIN stack' = Users
  BY DEF WithdrawalStep, TopUpStep, LandNothing, LandFails, LandRow, BringIn, TakeOut, moneyVars,
         SeatingInv, SeatingShape
<1>3. \E i \in Nat, d \in BOOLEAN : pass' = After(k, i, d)
  <2>1. CASE WithdrawalStep(k)
    <3>1. Queued(qRem, k) \in SUBSET Seats /\ Queued(qRem, k) # {}
      BY <2>1, StageOfJob DEF WithdrawalStep, SeatingInv, Queued, Occupied
    <3>2. First(Queued(qRem, k)) \in Nat
      BY <3>1, FirstIsMember DEF Seats
    <3>3. QED
      BY <2>1, <3>2, DetachedIsBoolean DEF WithdrawalStep, LandNothing, LandFails, Lands
  <2>2. CASE TopUpStep(k)
    <3>1. Queued(qTop, k) \in SUBSET Seats /\ Queued(qTop, k) # {}
      BY <2>2, StageOfJob DEF TopUpStep, SeatingInv, Queued, Occupied
    <3>2. First(Queued(qTop, k)) \in Nat
      BY <3>1, FirstIsMember DEF Seats
    <3>3. QED
      BY <2>2, <3>2, DetachedIsBoolean DEF TopUpStep, LandNothing, LandFails, Lands
  <2>3. QED
    BY <2>1, <2>2
<1>4. PassShape' /\ pass'.job = pass.job
  <2>1. PICK i \in Nat, d \in BOOLEAN : pass' = After(k, i, d)
    BY <1>3
  <2> DEFINE p == i + 1
  <2>2. p \in Nat /\ k \in Nat /\ pass' = [pass EXCEPT !.stage = k, !.pos = p, !.detached = d]
    BY <2>1 DEF After, Stages
  <2> HIDE DEF p
  <2>3. QED
    BY <2>2, PassGoesOn DEF SeatingInv
<1>5. DealsBetweenHands' /\ kicks' \subseteq Users
  BY <1>1, <1>2, <1>4 DEF DealsBetweenHands, HandBusy, handVars, SeatingInv, SeatingShape
<1>6. phase # "in_hand"
  BY <1>1 DEF HandBusy
<1>7. QED
  BY <1>2, <1>4, <1>5, <1>6, SeatsUntouched

\* The whole-table steps between hands
LEMMA DealKeepsSeating ==
  ASSUME SeatingInv, NEW k \in Stages, AutoStep(k) \/ DealStep(k)
  PROVE  SeatingInv'
<1>1. pass.job = "deal" /\ ~HandBusy
  BY StageOfJob DEF AutoStep, DealStep, SeatingInv, DealsBetweenHands
<1>2. PassShape'
  <2> DEFINE n == k + 1
  <2>1. n \in Nat /\ (pass' = Idle \/ pass' = [pass EXCEPT !.stage = n])
    BY DEF AutoStep, AutoFails, DealStep, Stages
  <2> HIDE DEF n
  <2>2. QED
    BY <2>1, PassBegins, PassGoesOn DEF SeatingInv
<1>3. DOMAIN stack' = Users /\ UNCHANGED <<occ, kicks>>
  BY DEF AutoStep, AutoFails, IfPlaying, DealStep, unchangedButPass, moneyVars, flagVars,
         SeatingInv, SeatingShape
<1>4. CASE UNCHANGED handVars
  <2>1. DealsBetweenHands' /\ phase # "in_hand" /\ kicks' \subseteq Users
    BY <1>1, <1>3, <1>4 DEF DealsBetweenHands, HandBusy, handVars, SeatingInv, SeatingShape
  <2>2. QED
    BY <1>2, <1>3, <1>4, <2>1, SeatsUntouched
<1>5. CASE /\ DealStep(k) /\ phase' = "in_hand" /\ stack' = stack
           /\ dealt' = [i \in Seats |-> IF i \in Eligible THEN occ[i] ELSE Nobody]
           /\ start' = [i \in Seats |-> IF i \in Eligible THEN stack[occ[i]] ELSE 0]
  <2>1. SeatingShape' /\ OneSeat'
    BY <1>3, <1>5 DEF SeatingInv, SeatingShape, OneSeat
  <2>2. CardsKeepTheirSeat'
    BY <1>3, <1>5 DEF CardsKeepTheirSeat, DealtSeats
  <2>3. DealsBetweenHands'
    BY <1>5 DEF DealStep, DealsBetweenHands, Idle
  <2>4. QED
    BY <1>2, <2>1, <2>2, <2>3 DEF SeatingInv
<1>6. QED
  BY <1>4, <1>5 DEF AutoStep, AutoFails, DealStep, unchangedButPass, moneyVars

LEMMA PassKeepsSeating ==
  ASSUME SeatingInv, PassStep
  PROVE  SeatingInv'
<1>1. ASSUME NEW k \in Stages, LeaveStep(k) PROVE SeatingInv'
  BY <1>1, LeaveStepKeepsSeating
<1>2. ASSUME NEW k \in Stages, NEW u \in Users, KickStep(k, u) PROVE SeatingInv'
  BY <1>2, KickStepKeepsSeating
<1>3. ASSUME NEW k \in Stages, WithdrawalStep(k) \/ TopUpStep(k) PROVE SeatingInv'
  BY <1>3, LandingKeepsSeating
<1>4. ASSUME NEW k \in Stages, AutoStep(k) \/ DealStep(k) PROVE SeatingInv'
  BY <1>4, DealKeepsSeating
<1>5. ASSUME NEW k \in Stages, PersistStep(k) \/ SettleDone(k) PROVE SeatingInv'
  <2>1. UNCHANGED <<occ, stack, kicks, handVars>> /\ pass' = Idle
    BY <1>5 DEF PersistStep, SettleDone, unchangedButPass, moneyVars, flagVars
  <2>2. PassShape' /\ pass'.job # "deal"
    BY <2>1 DEF PassShape, Idle
  <2>3. QED
    BY <2>1, <2>2, OnlyPassMoves
<1>6. QED
  BY <1>1, <1>2, <1>3, <1>4, <1>5 DEF PassStep

-----------------------------------------------------------------------------
(* The stacks in the database are one number per player, so that a restart   *)
(* finds them all.                                                           *)

RowsShape == DOMAIN dbStack = Users

\* No write adds a player's row or drops one
LEMMA SavedRowsShape ==
  ASSUME RowsShape, NEW S, SaveRows(S)
  PROVE  RowsShape'
BY DEF RowsShape, SaveRows

LEMMA CashOutRowsShape ==
  ASSUME RowsShape, NEW i, CashOut(i)
  PROVE  RowsShape'
BY SavedRowsShape DEF CashOut

LEMMA PersistRowsShape ==
  ASSUME RowsShape, NEW toSave, PersistSafe(toSave)
  PROVE  RowsShape'
BY SavedRowsShape DEF PersistSafe, RowsShape, rowVars

LEMMA LandingRowsShape ==
  ASSUME RowsShape, NEW k, WithdrawalStep(k) \/ TopUpStep(k)
  PROVE  RowsShape'
<1>1. \/ \E u : SaveRows({u})
      \/ UNCHANGED dbStack
      \/ \E u, n : dbStack' = [dbStack EXCEPT ![u] = n]
  BY DEF WithdrawalStep, TopUpStep, LandNothing, LandFails, LandRow, BringIn, TakeOut, rowVars
<1>2. QED
  BY <1>1, SavedRowsShape DEF RowsShape

LEMMA StepRowsShape ==
  ASSUME RowsShape, [Next]_vars
  PROVE  RowsShape'
<1>1. CASE Handler
  <2>1. ASSUME NEW u \in Users, NEW i \in Seats, NEW c \in BuyIns, Sit(u, i, c)
        PROVE  RowsShape'
    BY <2>1, SavedRowsShape DEF Sit
  <2>2. ASSUME NEW u \in Users, NEW c \in Changes, TopUp(u, c) \/ TakeOff(u, c)
        PROVE  RowsShape'
    BY <2>2, SavedRowsShape DEF TopUp, TakeOff, BringIn, TakeOut, rowVars, RowsShape
  <2>3. ASSUME NEW u \in Users, NEW i \in Seats, Move(u, i)
        PROVE  RowsShape'
    BY <2>3, SavedRowsShape DEF Move
  <2>4. ASSUME NEW u \in Users, Leave(u) \/ LeaveNow(u) \/ CancelLeave(u) \/ Kick(u)
        PROVE  RowsShape'
    <3>1. CashOut(SeatOf(u)) \/ Defer(u) \/ UNCHANGED dbStack
      BY <2>4 DEF Leave, LeaveNow, CancelLeave, Kick, dbVars, rowVars
    <3>2. QED
      BY <3>1, CashOutRowsShape, SavedRowsShape DEF Defer, RowsShape
  <2>5. ASSUME NEW u \in Users, SitOutNext(u) \/ TransferHost(u) \/ TimedOut(u)
        PROVE  RowsShape'
    BY <2>5, PersistRowsShape DEF SitOutNext, TransferHost, TimedOut, dbVars, rowVars, RowsShape
  <2>6. ASSUME NEW u \in Users, NEW on \in BOOLEAN, SitOut(u, on) \/ SetRunning(on)
        PROVE  RowsShape'
    BY <2>6, SavedRowsShape DEF SitOut, SetRunning, rowVars, RowsShape
  <2>7. ASSUME NEW on \in BOOLEAN, SetRunning(on)
        PROVE  RowsShape'
    BY <2>7 DEF SetRunning, rowVars, RowsShape
  <2>8. ASSUME Close
        PROVE  RowsShape'
    BY <2>8, SavedRowsShape DEF Close
  <2>9. QED
    BY <1>1, <2>1, <2>2, <2>3, <2>4, <2>5, <2>6, <2>7, <2>8 DEF Handler
<1>2. CASE EndHand
  BY <1>2, PersistRowsShape DEF EndHand
<1>3. CASE RunoutOver \/ StartTick \/ StartView \/ StartDeal \/ Restart
  BY <1>3 DEF RunoutOver, StartTick, StartView, StartDeal, Restart, dbVars, rowVars, RowsShape
<1>4. CASE PassStep
  <2>1. PICK k \in Stages :
          \/ LeaveStep(k) \/ (\E u \in Users : KickStep(k, u))
          \/ WithdrawalStep(k) \/ TopUpStep(k) \/ AutoStep(k) \/ DealStep(k)
          \/ PersistStep(k) \/ SettleDone(k)
    BY <1>4 DEF PassStep
  <2>2. CASE LeaveStep(k)
    BY <2>2, CashOutRowsShape DEF LeaveStep, unchangedButPass, dbVars, rowVars, RowsShape
  <2>3. ASSUME NEW u \in Users, KickStep(k, u) PROVE RowsShape'
    BY <2>3, CashOutRowsShape DEF KickStep, unchangedButPass, dbVars, rowVars, RowsShape
  <2>4. CASE WithdrawalStep(k) \/ TopUpStep(k)
    BY <2>4, LandingRowsShape
  <2>5. CASE AutoStep(k)
    BY <2>5, SavedRowsShape DEF AutoStep, AutoFails, unchangedButPass, dbVars, rowVars, RowsShape
  <2>6. CASE DealStep(k)
    BY <2>6, PersistRowsShape DEF DealStep, unchangedButPass, dbVars, rowVars, RowsShape
  <2>7. CASE PersistStep(k) \/ SettleDone(k)
    BY <2>7, PersistRowsShape DEF PersistStep, SettleDone, unchangedButPass, dbVars, rowVars, RowsShape
  <2>8. QED
    BY <2>1, <2>2, <2>3, <2>4, <2>5, <2>6, <2>7
<1>5. CASE UNCHANGED vars
  BY <1>5 DEF vars, dbVars, rowVars, RowsShape
<1>6. QED
  BY <1>1, <1>2, <1>3, <1>4, <1>5 DEF Next

-----------------------------------------------------------------------------

LEMMA StepSeating ==
  ASSUME SeatingInv, RowsShape, [Next]_vars
  PROVE  SeatingInv'
<1>1. CASE Handler
  BY <1>1, HandlerKeepsSeating
<1>2. CASE EndHand
  BY <1>2, EndHandKeepsSeating
<1>3. CASE RunoutOver \/ StartTick \/ StartView \/ StartDeal
  BY <1>3, ClockKeepsSeating
<1>4. CASE PassStep
  BY <1>4, PassKeepsSeating
<1>5. CASE Restart
  BY <1>5, RestartKeepsSeating DEF RowsShape
<1>6. CASE UNCHANGED vars
  <2>1. UNCHANGED <<occ, stack, kicks, handVars, pass, phase>>
    BY <1>6 DEF vars, moneyVars, flagVars, handVars
  <2>2. PassShape' /\ DealsBetweenHands'
    BY <2>1, PassStays
  <2>3. QED
    BY <2>1, <2>2, OnlyPassMoves DEF DealsBetweenHands, HandBusy
<1>7. QED
  BY <1>1, <1>2, <1>3, <1>4, <1>5, <1>6 DEF Next

\* A seat that was dealt cards stays with the player they were dealt to, with
\* the chips they were dealt in with, until the hand and its runout are over:
\* no leave, removal, move, cash-out, top-up, automatic stack, failed write or
\* restart gets between a player and a live hand
THEOREM CardsTheorem == Spec => []CardsKeepTheirSeat
<1> DEFINE IInv == SeatingInv /\ RowsShape
<1>1. Init => IInv
  BY InitSeating DEF Init, RowsShape
<1>2. IInv /\ [Next]_vars => IInv'
  BY StepSeating, StepRowsShape
<1>3. IInv => CardsKeepTheirSeat
  BY DEF SeatingInv
<1>4. QED
  BY <1>1, <1>2, <1>3, PTL DEF Spec

-----------------------------------------------------------------------------
(* The money: what a player has brought in and taken out is the same number  *)
(* in memory, in their row and in the ledger.  This rests on no write of a   *)
(* queued top-up or withdrawal failing (LandingFaults): one that does        *)
(* detaches the landing loop from the table, and the totals come apart.      *)

MoneyInv ==
  /\ DOMAIN bought = Users /\ DOMAIN dbBought = Users /\ DOMAIN ledgerIn = Users
  /\ DOMAIN left = Users /\ DOMAIN dbLeft = Users /\ DOMAIN ledgerOut = Users
  /\ \A u \in Users : /\ bought[u] = dbBought[u] /\ ledgerIn[u] = dbBought[u]
                      /\ left[u] = dbLeft[u] /\ ledgerOut[u] = dbLeft[u]

Attached == pass.detached = FALSE

\* Saving rows while no money moves
LEMMA SavedMoneyInv ==
  ASSUME MoneyInv, NEW S, SaveRows(S), UNCHANGED <<bought, left, ledger>>
  PROVE  MoneyInv'
BY DEF MoneyInv, SaveRows, ledger

LEMMA SameMoneyInv ==
  ASSUME MoneyInv, UNCHANGED <<bought, left, dbBought, dbLeft, ledger>>
  PROVE  MoneyInv'
BY DEF MoneyInv, ledger

LEMMA PersistMoneyInv ==
  ASSUME MoneyInv, NEW toSave, PersistSafe(toSave), UNCHANGED <<bought, left, ledger>>
  PROVE  MoneyInv'
BY SavedMoneyInv, SameMoneyInv DEF PersistSafe, rowVars

LEMMA BringInMoneyInv ==
  ASSUME MoneyInv, NEW u \in Users, NEW c, NEW moved, BringIn(u, c, moved)
  PROVE  MoneyInv'
BY DEF MoneyInv, BringIn, LedgerIn, SaveRows

LEMMA TakeOutMoneyInv ==
  ASSUME MoneyInv, NEW u \in Users, NEW c, NEW moved, TakeOut(u, c, moved)
  PROVE  MoneyInv'
BY DEF MoneyInv, TakeOut, LedgerOut, SaveRows

LEMMA CashOutMoneyInv ==
  ASSUME MoneyInv, NEW i, occ[i] \in Users, CashOut(i)
  PROVE  MoneyInv'
<1> DEFINE u == occ[i]
           c == Worth(i)
<1>1. /\ left' = [left EXCEPT ![u] = @ + c] /\ ledgerOut' = [ledgerOut EXCEPT ![u] = @ + c]
      /\ UNCHANGED <<bought, ledgerIn>> /\ SaveRows({u}) /\ u \in Users
  BY DEF CashOut, LedgerOut
<1> HIDE DEF u, c
<1>2. QED
  BY <1>1 DEF MoneyInv, SaveRows

LEMMA HandlerMoneyInv ==
  ASSUME SeatingInv, MoneyInv, Handler
  PROVE  MoneyInv'
<1>1. ASSUME NEW u \in Users, NEW i \in Seats, NEW c \in BuyIns, Sit(u, i, c)
      PROVE  MoneyInv'
  <2>1. /\ bought' = [bought EXCEPT ![u] = dbBought[u] + c]
        /\ left' = [left EXCEPT ![u] = dbLeft[u]]
        /\ LedgerIn(u, c) /\ SaveRows({u})
    BY <1>1 DEF Sit
  <2>2. QED
    BY <2>1 DEF MoneyInv, LedgerIn, SaveRows
<1>2. ASSUME NEW u \in Users, NEW c \in Changes, TopUp(u, c) \/ TakeOff(u, c)
      PROVE  MoneyInv'
  <2>1. \/ BringIn(u, c, Chips(c)) \/ TakeOut(u, c, Lesser(Chips(c), stack[u]))
        \/ UNCHANGED <<bought, left, dbBought, dbLeft, ledger>>
    BY <1>2 DEF TopUp, TakeOff, moneyVars, rowVars
  <2>2. QED
    BY <2>1, BringInMoneyInv, TakeOutMoneyInv, SameMoneyInv
<1>3. ASSUME NEW u \in Users, NEW i \in Seats, Move(u, i)
      PROVE  MoneyInv'
  BY <1>3, SavedMoneyInv DEF Move, moneyVars
<1>4. ASSUME NEW u \in Users, Leave(u) \/ LeaveNow(u) \/ CancelLeave(u) \/ Kick(u)
      PROVE  MoneyInv'
  <2>1. CashOut(SeatOf(u)) \/ Defer(u) \/ UNCHANGED <<bought, left, dbBought, dbLeft, ledger>>
    BY <1>4 DEF Leave, LeaveNow, CancelLeave, Kick, moneyVars, dbVars, rowVars
  <2>2. occ[SeatOf(u)] \in Users
    BY <1>4, SeatOfSeated DEF Leave, LeaveNow, CancelLeave, Kick, SeatingInv
  <2>3. CASE Defer(u)
    BY <2>3, SavedMoneyInv DEF Defer, moneyVars
  <2>4. QED
    BY <2>1, <2>2, <2>3, CashOutMoneyInv, SameMoneyInv
<1>5. ASSUME NEW u \in Users, SitOutNext(u) \/ TransferHost(u) \/ TimedOut(u)
      PROVE  MoneyInv'
  BY <1>5, PersistMoneyInv, SameMoneyInv DEF SitOutNext, TransferHost, TimedOut, moneyVars, dbVars, rowVars
<1>6. ASSUME NEW u \in Users, NEW on \in BOOLEAN, SitOut(u, on)
      PROVE  MoneyInv'
  BY <1>6, SavedMoneyInv DEF SitOut, moneyVars
<1>7. ASSUME NEW on \in BOOLEAN, SetRunning(on)
      PROVE  MoneyInv'
  BY <1>7, SameMoneyInv DEF SetRunning, moneyVars, rowVars
<1>8. ASSUME Close
      PROVE  MoneyInv'
  <2> DEFINE share(u) == ClosingShare[SeatOf(u)]
  <2>1. /\ left' = [u \in Users |-> IF u \in Seated THEN left[u] + share(u) ELSE left[u]]
        /\ ledgerOut' = [u \in Users |-> IF u \in Seated THEN ledgerOut[u] + share(u) ELSE ledgerOut[u]]
        /\ UNCHANGED <<bought, ledgerIn>> /\ SaveRows(Seated)
    BY <1>8 DEF Close
  <2> HIDE DEF share
  <2>2. QED
    BY <2>1 DEF MoneyInv, SaveRows
<1>9. QED
  BY <1>1, <1>2, <1>3, <1>4, <1>5, <1>6, <1>7, <1>8 DEF Handler

\* Landing in a loop that is attached to the table writes what memory holds
LEMMA LandingMoneyInv ==
  ASSUME SeatingInv, Attached, MoneyInv, LandingFaults = FALSE,
         NEW k \in Stages, WithdrawalStep(k) \/ TopUpStep(k)
  PROVE  MoneyInv' /\ Attached'
<1>1. ~Detached(k)
  BY DEF Detached, Attached
<1>2. CASE WithdrawalStep(k)
  <2> DEFINE i == First(Queued(qRem, k))
             u == occ[i]
             c == Lesser(qRem[u], Cents(stack[u]) - Keep)
             moved == Lesser(Chips(c), stack[u])
  <2>1. u \in Users
    <3>1. Queued(qRem, k) \in SUBSET Seats /\ Queued(qRem, k) # {} /\ Queued(qRem, k) \subseteq Occupied
      BY <1>2, StageOfJob DEF WithdrawalStep, SeatingInv, Queued, Occupied
    <3>2. QED
      BY <3>1, FirstIsMember DEF Occupied, SeatingInv, SeatingShape
  <2>2. /\ LandNothing(k, i) \/ (Lands(k, i) /\ TakeOut(u, c, moved))
    BY <1>1, <1>2 DEF WithdrawalStep, LandFails
  <2>3. MoneyInv'
    BY <2>1, <2>2, TakeOutMoneyInv, SameMoneyInv DEF LandNothing, moneyVars, rowVars
  <2>4. pass' = After(k, i, Detached(k))
    BY <2>2 DEF LandNothing, Lands
  <2>5. QED
    BY <1>1, <2>3, <2>4 DEF After, Attached, SeatingInv, PassShape
<1>3. CASE TopUpStep(k)
  <2> DEFINE i == First(Queued(qTop, k))
             u == occ[i]
             c == IF MaxBuyin > 0 THEN Lesser(qTop[u], Room(u)) ELSE qTop[u]
  <2>1. u \in Users
    <3>1. Queued(qTop, k) \in SUBSET Seats /\ Queued(qTop, k) # {} /\ Queued(qTop, k) \subseteq Occupied
      BY <1>3, StageOfJob DEF TopUpStep, SeatingInv, Queued, Occupied
    <3>2. QED
      BY <3>1, FirstIsMember DEF Occupied, SeatingInv, SeatingShape
  <2>2. LandNothing(k, i) \/ (Lands(k, i) /\ BringIn(u, c, Chips(c)))
    BY <1>1, <1>3 DEF TopUpStep, LandFails
  <2>3. MoneyInv'
    BY <2>1, <2>2, BringInMoneyInv, SameMoneyInv DEF LandNothing, moneyVars, rowVars
  <2>4. pass' = After(k, i, Detached(k))
    BY <2>2 DEF LandNothing, Lands
  <2>5. QED
    BY <1>1, <2>3, <2>4 DEF After, Attached, SeatingInv, PassShape
<1>4. QED
  BY <1>2, <1>3

LEMMA PassMoneyInv ==
  ASSUME SeatingInv, Attached, MoneyInv, LandingFaults = FALSE, PassStep
  PROVE  MoneyInv' /\ Attached'
<1>1. ASSUME NEW k \in Stages, LeaveStep(k)
      PROVE  MoneyInv' /\ Attached'
  <2> DEFINE i == First(Leavers(k))
  <2>1. occ[i] \in Users
    <3>1. Leavers(k) \in SUBSET Seats /\ Leavers(k) # {} /\ Leavers(k) \subseteq Occupied
      BY <1>1, StageOfJob DEF LeaveStep, SeatingInv, Leavers, Occupied
    <3>2. QED
      BY <3>1, FirstIsMember DEF Occupied, SeatingInv, SeatingShape
  <2>2. MoneyInv'
    BY <1>1, <2>1, CashOutMoneyInv, SameMoneyInv DEF LeaveStep, unchangedButPass, moneyVars, dbVars, rowVars
  <2>3. pass' = [pass EXCEPT !.stage = k, !.pos = i + 1]
    BY <1>1 DEF LeaveStep
  <2>4. QED
    BY <2>2, <2>3 DEF Attached, SeatingInv, PassShape
<1>2. ASSUME NEW k \in Stages, NEW u \in Users, KickStep(k, u)
      PROVE  MoneyInv' /\ Attached'
  <2>1. MoneyInv'
    <3>1. u \in Seated => occ[SeatOf(u)] \in Users
      BY SeatOfSeated DEF SeatingInv
    <3>2. QED
      BY <1>2, <3>1, CashOutMoneyInv, SameMoneyInv DEF KickStep, unchangedButPass, moneyVars, dbVars, rowVars
  <2>2. pass' = [pass EXCEPT !.stage = k, !.todo = Kicked(k) \ {u}]
    BY <1>2 DEF KickStep
  <2>3. QED
    BY <2>1, <2>2 DEF Attached, SeatingInv, PassShape
<1>3. ASSUME NEW k \in Stages, WithdrawalStep(k) \/ TopUpStep(k)
      PROVE  MoneyInv' /\ Attached'
  BY <1>3, LandingMoneyInv
<1>4. ASSUME NEW k \in Stages, AutoStep(k)
      PROVE  MoneyInv'
  <2>1. CASE AutoFails
    BY <2>1, SameMoneyInv DEF AutoFails, unchangedButPass, moneyVars, dbVars, rowVars
  <2>2. CASE ~AutoFails
    <3>1. /\ bought' = IfPlaying(bought, [u \in Users |-> bought[u] + AutoIn(u)])
          /\ left' = IfPlaying(left, [u \in Users |-> left[u] + AutoOut(u)])
          /\ ledgerIn' = IfPlaying(ledgerIn, [u \in Users |-> ledgerIn[u] + AutoIn(u)])
          /\ ledgerOut' = IfPlaying(ledgerOut, [u \in Users |-> ledgerOut[u] + AutoOut(u)])
          /\ SaveRows(Seated)
      BY <1>4, <2>2 DEF AutoStep
    <3>2. QED
      BY <3>1 DEF MoneyInv, IfPlaying, Playing, SaveRows
  <2>3. QED
    BY <2>1, <2>2
<1>5. ASSUME NEW k \in Stages, DealStep(k) \/ PersistStep(k) \/ SettleDone(k)
      PROVE  MoneyInv'
  BY <1>5, SavedMoneyInv, PersistMoneyInv, SameMoneyInv
     DEF DealStep, PersistStep, SettleDone, unchangedButPass, moneyVars, dbVars, rowVars
<1>6. ASSUME NEW k \in Stages,
             AutoStep(k) \/ DealStep(k) \/ PersistStep(k) \/ SettleDone(k)
      PROVE  Attached'
  <2>1. pass' = Idle \/ pass' = [pass EXCEPT !.stage = k + 1]
    BY <1>6 DEF AutoStep, AutoFails, DealStep, PersistStep, SettleDone
  <2>2. QED
    BY <2>1 DEF Attached, Idle, SeatingInv, PassShape
<1>7. QED
  BY <1>1, <1>2, <1>3, <1>4, <1>5, <1>6 DEF PassStep

LEMMA StepMoneyInv ==
  ASSUME SeatingInv, Attached, MoneyInv, LandingFaults = FALSE, [Next]_vars
  PROVE  MoneyInv' /\ Attached'
<1>1. CASE Handler
  <2>1. pass' = pass \/ pass' = Idle \/ pass' = Begin("deal")
    BY <1>1 DEF Handler, Sit, TopUp, TakeOff, Move, Leave, LeaveNow, CancelLeave, Kick, Defer, SitOutNext,
                TransferHost, TimedOut, SitOut, SetRunning, Close
  <2>2. QED
    BY <1>1, <2>1, HandlerMoneyInv DEF Attached, Begin, Idle
<1>2. CASE EndHand
  <2>1. MoneyInv'
    BY <1>2, PersistMoneyInv DEF EndHand
  <2>2. QED
    BY <1>2, <2>1 DEF EndHand, Attached, Begin, Idle
<1>3. CASE RunoutOver \/ StartTick \/ StartView \/ StartDeal
  BY <1>3, SameMoneyInv DEF RunoutOver, StartTick, StartView, StartDeal, Attached, Begin, Idle, moneyVars, dbVars, rowVars
<1>4. CASE PassStep
  BY <1>4, PassMoneyInv
<1>5. CASE Restart
  <2>1. /\ bought' = dbBought /\ left' = dbLeft
        /\ UNCHANGED <<dbBought, dbLeft, ledgerIn, ledgerOut>> /\ pass' = Idle
    BY <1>5 DEF Restart, dbVars, rowVars, ledger
  <2>2. QED
    BY <2>1 DEF MoneyInv, Attached, Idle
<1>6. CASE UNCHANGED vars
  BY <1>6, SameMoneyInv DEF vars, moneyVars, dbVars, rowVars, Attached
<1>7. QED
  BY <1>1, <1>2, <1>3, <1>4, <1>5, <1>6 DEF Next

\* As long as no landing write fails, each player's totals in their row equal
\* the sums of their ledger rows, at every moment, also in the middle of the
\* work between hands and after any other failed write or restart
THEOREM LedgerTheorem ==
  ASSUME LandingFaults = FALSE
  PROVE  Spec => []LedgerMatchesTotals
<1> DEFINE IInv == SeatingInv /\ RowsShape /\ Attached /\ MoneyInv
<1>1. Init => IInv
  <2> SUFFICES ASSUME Init PROVE IInv
    OBVIOUS
  <2>1. SeatingInv /\ Attached
    BY InitSeating DEF Init, Attached, Idle
  <2>2. /\ stack = [u \in Users |-> 0]
        /\ bought = stack /\ left = stack /\ dbStack = stack /\ dbBought = stack /\ dbLeft = stack
        /\ ledgerIn = stack /\ ledgerOut = stack
    BY DEF Init
  <2>3. QED
    BY <2>1, <2>2 DEF RowsShape, MoneyInv
<1>2. IInv /\ [Next]_vars => IInv'
  BY StepSeating, StepRowsShape, StepMoneyInv
<1>3. IInv => LedgerMatchesTotals
  BY DEF MoneyInv, LedgerMatchesTotals
<1>4. QED
  BY <1>1, <1>2, <1>3, PTL DEF Spec

-----------------------------------------------------------------------------
(* The rows and memory *)

SeatsSaved ==
  /\ DOMAIN dbSeat = Users
  /\ \A u \in Users : dbSeat[u] = SeatIn(occ, u)
StacksSaved == owed = {} => \A u \in Seated : stack[u] = dbStack[u]
AwaySaved ==
  /\ DOMAIN away = Users /\ DOMAIN dbAway = Users
  /\ ~dirty => \A u \in Seated : away[u] = dbAway[u]
SavedInv == SeatsSaved /\ StacksSaved /\ AwaySaved

\* Who has a seat, and where
LEMMA SeatInFacts ==
  ASSUME NEW seats, NEW u
  PROVE  /\ (\E i \in Seats : seats[i] = u) <=> SeatIn(seats, u) # NoSeat
         /\ SeatIn(seats, u) # NoSeat => SeatIn(seats, u) \in Seats /\ seats[SeatIn(seats, u)] = u
<1>1. NoSeat \notin Seats
  BY DEF NoSeat, Seats
<1>2. QED
  BY <1>1 DEF SeatIn

LEMMA SeatInIs ==
  ASSUME NEW seats, NEW u, NEW i \in Seats, seats[i] = u, \A j \in Seats : seats[j] = u => j = i
  PROVE  SeatIn(seats, u) = i
BY DEF SeatIn

\* Whoever is not concerned by a step stays in their seat
LEMMA SameSeats ==
  ASSUME NEW old, NEW new, NEW u, \A i \in Seats : new[i] = u <=> old[i] = u
  PROVE  SeatIn(new, u) = SeatIn(old, u)
BY DEF SeatIn

LEMMA SameSeatsSeated ==
  ASSUME NEW u \in Users, SeatIn(occ', u) = SeatIn(occ, u)
  PROVE  u \in Seated' <=> u \in Seated
BY SeatInFacts DEF Seated

\* A transaction that saves the rows of everybody it concerns
LEMMA SavedKeepsRows ==
  ASSUME SavedInv, NEW S, SaveRows(S), UNCHANGED saveVars, DOMAIN away' = Users,
         \A u \in Users \ S : /\ SeatIn(occ', u) = SeatIn(occ, u)
                              /\ u \in Seated => stack'[u] = stack[u] /\ away'[u] = away[u]
  PROVE  SavedInv'
<1>1. SeatsSaved'
  BY DEF SavedInv, SeatsSaved, SaveRows
<1>2. \A u \in Users \ S : u \in Seated' => u \in Seated
  BY SameSeatsSeated
<1>3. Seated' \subseteq Users /\ owed' = owed /\ dirty' = dirty
  BY DEF Seated, saveVars
<1>4. StacksSaved'
  BY <1>2, <1>3 DEF SavedInv, StacksSaved, SaveRows
<1>5. AwaySaved'
  BY <1>2, <1>3 DEF SavedInv, AwaySaved, SaveRows
<1>6. QED
  BY <1>1, <1>4, <1>5 DEF SavedInv

\* The same for one person, who did not change seats
LEMMA OneRowKept ==
  ASSUME SavedInv, NEW u \in Users, SaveRows({u}), UNCHANGED <<occ, saveVars>>,
         DOMAIN away' = Users,
         \A v \in Users \ {u} : stack'[v] = stack[v] /\ away'[v] = away[v]
  PROVE  SavedInv'
BY SavedKeepsRows

\* A step that changes nothing that is saved
LEMMA SameKeepsRows ==
  ASSUME SavedInv, UNCHANGED <<occ, stack, away, dbSeat, dbStack, dbAway, saveVars>>
  PROVE  SavedInv'
<1>1. Seated' = Seated
  BY DEF Seated
<1>2. QED
  BY <1>1 DEF SavedInv, SeatsSaved, StacksSaved, AwaySaved, saveVars

\* A save of the whole table: a failure leaves it dirty, and owing toSave
LEMMA PersistKeepsRows ==
  ASSUME SavedInv, NEW toSave, PersistSafe(toSave), UNCHANGED occ, DOMAIN away' = Users,
         toSave = {} => owed = {} /\ UNCHANGED stack
  PROVE  SavedInv'
<1>1. Seated' = Seated /\ Seated \subseteq Users
  BY DEF Seated
<1>2. CASE SaveRows({u \in Users : \E i \in Seats : occ'[i] = u})
  <2>1. SeatsSaved'
    BY <1>2 DEF SavedInv, SeatsSaved, SaveRows
  <2>2. \A u \in Seated' : u \in {v \in Users : \E i \in Seats : occ'[i] = v}
    BY DEF Seated
  <2>3. \A u \in Seated' : stack'[u] = dbStack'[u] /\ away'[u] = dbAway'[u]
    BY <1>1, <1>2, <2>2 DEF SaveRows
  <2>4. DOMAIN dbAway' = Users
    BY <1>2 DEF SaveRows
  <2>5. QED
    BY <2>1, <2>3, <2>4 DEF SavedInv, StacksSaved, AwaySaved
<1>3. CASE dirty' = TRUE /\ owed' = toSave /\ UNCHANGED rowVars
  <2>1. SeatsSaved' /\ AwaySaved'
    BY <1>1, <1>3 DEF SavedInv, SeatsSaved, AwaySaved, rowVars
  <2>2. StacksSaved'
    BY <1>1, <1>3 DEF SavedInv, StacksSaved, rowVars
  <2>3. QED
    BY <2>1, <2>2 DEF SavedInv
<1>4. QED
  BY <1>2, <1>3 DEF PersistSafe

LEMMA BringInKeepsRows ==
  ASSUME SavedInv, NEW u \in Users, NEW c, NEW moved, UNCHANGED saveVars,
         BringIn(u, c, moved) \/ TakeOut(u, c, moved)
  PROVE  SavedInv'
<1>1. /\ \E n : stack' = [stack EXCEPT ![u] = n]
      /\ UNCHANGED <<occ, away>> /\ SaveRows({u})
  BY DEF BringIn, TakeOut
<1>2. DOMAIN away' = Users
  BY <1>1 DEF SavedInv, AwaySaved
<1>3. \A v \in Users \ {u} : stack'[v] = stack[v] /\ away'[v] = away[v]
  BY <1>1
<1>4. QED
  BY <1>1, <1>2, <1>3, OneRowKept

LEMMA CashOutKeepsRows ==
  ASSUME SavedInv, SeatingInv, NEW i \in Occupied, CashOut(i)
  PROVE  SavedInv'
<1> DEFINE u == occ[i]
<1>1. /\ occ' = [occ EXCEPT ![i] = Nobody] /\ stack' = [stack EXCEPT ![u] = 0]
      /\ away' = [away EXCEPT ![u] = FALSE] /\ UNCHANGED saveVars /\ SaveRows({u})
  BY DEF CashOut
<1>2. i \in Seats /\ u \in Users
  BY DEF Occupied, SeatingInv, SeatingShape
<1>3. DOMAIN away' = Users
  BY <1>1 DEF SavedInv, AwaySaved
<1> HIDE DEF u
<1>4. ASSUME NEW v \in Users \ {u} PROVE SeatIn(occ', v) = SeatIn(occ, v)
  <2>1. \A j \in Seats : occ'[j] = v <=> occ[j] = v
    BY <1>1, <1>2, NobodyAssumption DEF u, SeatingInv, SeatingShape
  <2>2. QED
    BY <2>1, SameSeats
<1>5. \A v \in Users \ {u} : stack'[v] = stack[v] /\ away'[v] = away[v]
  BY <1>1
<1>6. QED
  BY <1>1, <1>3, <1>4, <1>5, SavedKeepsRows

LEMMA SitKeepsRows ==
  ASSUME SavedInv, SeatingInv, NEW u \in Users, NEW i \in Seats, NEW c, Sit(u, i, c)
  PROVE  SavedInv'
<1>1. /\ occ[i] = Nobody /\ occ' = [occ EXCEPT ![i] = u] /\ stack' = [stack EXCEPT ![u] = Chips(c)]
      /\ UNCHANGED <<away, saveVars>> /\ SaveRows({u})
  BY DEF Sit, flagVars
<1>2. DOMAIN away' = Users
  BY <1>1 DEF SavedInv, AwaySaved
<1>3. ASSUME NEW v \in Users \ {u} PROVE SeatIn(occ', v) = SeatIn(occ, v)
  <2>1. \A j \in Seats : occ'[j] = v <=> occ[j] = v
    BY <1>1, NobodyAssumption DEF SeatingInv, SeatingShape
  <2>2. QED
    BY <2>1, SameSeats
<1>4. \A v \in Users \ {u} : stack'[v] = stack[v] /\ away'[v] = away[v]
  BY <1>1
<1>5. QED
  BY <1>1, <1>2, <1>3, <1>4, SavedKeepsRows

LEMMA MoveKeepsRows ==
  ASSUME SavedInv, SeatingInv, NEW u \in Users, NEW j \in Seats, Move(u, j)
  PROVE  SavedInv'
<1>1. /\ SeatOf(u) \in Seats /\ occ[SeatOf(u)] = u /\ occ[j] = Nobody
      /\ occ' = [occ EXCEPT ![j] = u, ![SeatOf(u)] = Nobody]
      /\ UNCHANGED <<stack, away, saveVars>> /\ SaveRows({u})
  BY SeatOfSeated DEF Move, Occupied, SeatingInv, moneyVars, flagVars
<1>2. DOMAIN away' = Users
  BY <1>1 DEF SavedInv, AwaySaved
<1>3. ASSUME NEW v \in Users \ {u} PROVE SeatIn(occ', v) = SeatIn(occ, v)
  <2>1. \A k \in Seats : occ'[k] = v <=> occ[k] = v
    BY <1>1, NobodyAssumption DEF SeatingInv, SeatingShape
  <2>2. QED
    BY <2>1, SameSeats
<1>4. QED
  BY <1>1, <1>2, <1>3, SavedKeepsRows

LEMMA CloseKeepsRows ==
  ASSUME SavedInv, Close
  PROVE  SavedInv'
<1>1. /\ occ' = [i \in Seats |-> Nobody] /\ away' = [u \in Users |-> FALSE]
      /\ UNCHANGED saveVars /\ SaveRows(Seated)
  BY DEF Close
<1>2. ASSUME NEW v \in Users \ Seated PROVE SeatIn(occ', v) = SeatIn(occ, v)
  <2>1. \A j \in Seats : occ'[j] = v <=> occ[j] = v
    BY <1>1, NobodyAssumption DEF Seated
  <2>2. QED
    BY <2>1, SameSeats
<1>3. DOMAIN away' = Users
  BY <1>1
<1>4. QED
  BY <1>1, <1>2, <1>3, SavedKeepsRows

LEMMA HandlerKeepsRows ==
  ASSUME SavedInv, SeatingInv, Handler
  PROVE  SavedInv'
<1>1. ASSUME NEW u \in Users, NEW i \in Seats, NEW c \in BuyIns, Sit(u, i, c)
      PROVE  SavedInv'
  BY <1>1, SitKeepsRows
<1>2. ASSUME NEW u \in Users, NEW c \in Changes, TopUp(u, c) \/ TakeOff(u, c)
      PROVE  SavedInv'
  <2>1. \/ BringIn(u, c, Chips(c)) \/ TakeOut(u, c, Lesser(Chips(c), stack[u]))
        \/ UNCHANGED <<occ, stack, away, dbSeat, dbStack, dbAway>>
    BY <1>2 DEF TopUp, TakeOff, moneyVars, rowVars
  <2>2. UNCHANGED saveVars
    BY <1>2 DEF TopUp, TakeOff
  <2>3. QED
    BY <2>1, <2>2, BringInKeepsRows, SameKeepsRows
<1>3. ASSUME NEW u \in Users, NEW i \in Seats, Move(u, i)
      PROVE  SavedInv'
  BY <1>3, MoveKeepsRows
<1>4. ASSUME NEW u \in Users, UNCHANGED <<occ, stack, saveVars>>, SaveRows({u}),
             \E on : away' = [away EXCEPT ![u] = on]
      PROVE  SavedInv'
  <2>1. DOMAIN away' = Users /\ \A v \in Users \ {u} : stack'[v] = stack[v] /\ away'[v] = away[v]
    BY <1>4 DEF SavedInv, AwaySaved
  <2>2. QED
    BY <1>4, <2>1, OneRowKept
<1>5. ASSUME NEW u \in Users, Leave(u) \/ LeaveNow(u) \/ CancelLeave(u) \/ Kick(u)
      PROVE  SavedInv'
  <2>1. \/ CashOut(SeatOf(u)) \/ Defer(u)
        \/ UNCHANGED <<occ, stack, away, dbSeat, dbStack, dbAway, saveVars>>
    BY <1>5 DEF Leave, LeaveNow, CancelLeave, Kick, moneyVars, dbVars, rowVars
  <2>2. SeatOf(u) \in Occupied
    BY <1>5, SeatOfSeated DEF Leave, LeaveNow, CancelLeave, Kick, SeatingInv
  <2>3. CASE Defer(u)
    BY <1>4, <2>3 DEF Defer, moneyVars
  <2>4. QED
    BY <2>1, <2>2, <2>3, CashOutKeepsRows, SameKeepsRows
<1>6. ASSUME NEW u \in Users, SitOutNext(u) \/ TransferHost(u)
      PROVE  SavedInv'
  BY <1>6, SameKeepsRows DEF SitOutNext, TransferHost, moneyVars, flagVars, dbVars, rowVars
<1>7. ASSUME NEW u \in Users, TimedOut(u)
      PROVE  SavedInv'
  <2>1. PersistSafe(owed) /\ UNCHANGED <<occ, stack>> /\ away' = [away EXCEPT ![u] = TRUE]
    BY <1>7 DEF TimedOut, moneyVars
  <2>2. DOMAIN away' = Users
    BY <2>1 DEF SavedInv, AwaySaved
  <2>3. QED
    BY <2>1, <2>2, PersistKeepsRows
<1>8. ASSUME NEW u \in Users, NEW on \in BOOLEAN, SitOut(u, on)
      PROVE  SavedInv'
  BY <1>4, <1>8 DEF SitOut, moneyVars
<1>9. ASSUME NEW on \in BOOLEAN, SetRunning(on)
      PROVE  SavedInv'
  BY <1>9, SameKeepsRows DEF SetRunning, moneyVars, flagVars, rowVars
<1>10. QED
  BY <1>1, <1>2, <1>3, <1>5, <1>6, <1>7, <1>8, <1>9, CloseKeepsRows DEF Handler

\* What a hand wins or loses is owed until the stacks are saved
LEMMA EndHandKeepsRows ==
  ASSUME SavedInv, EndHand
  PROVE  SavedInv'
<1>1. PICK d \in Payouts : PersistSafe(owed \cup {Record(d)})
  BY DEF EndHand
<1>2. UNCHANGED occ /\ DOMAIN away' = Users
  BY DEF EndHand
<1>3. owed \cup {Record(d)} # {}
  OBVIOUS
<1>4. QED
  BY <1>1, <1>2, <1>3, PersistKeepsRows

\* A loop attached to the table lands in memory what it lands in the rows
LEMMA LandingKeepsRows ==
  ASSUME SavedInv, SeatingInv, Attached, LandingFaults = FALSE,
         NEW k \in Stages, WithdrawalStep(k) \/ TopUpStep(k)
  PROVE  SavedInv'
<1>1. ~Detached(k)
  BY DEF Detached, Attached
<1>2. \E u \in Users : \E c, moved :
        \/ UNCHANGED <<occ, stack, away, dbSeat, dbStack, dbAway>>
        \/ BringIn(u, c, moved) \/ TakeOut(u, c, moved)
  <2>1. CASE WithdrawalStep(k)
    <3> DEFINE i == First(Queued(qRem, k))
               u == occ[i]
               c == Lesser(qRem[u], Cents(stack[u]) - Keep)
               moved == Lesser(Chips(c), stack[u])
    <3>1. Queued(qRem, k) \in SUBSET Seats /\ Queued(qRem, k) # {} /\ Queued(qRem, k) \subseteq Occupied
      BY <2>1, StageOfJob DEF WithdrawalStep, SeatingInv, Queued, Occupied
    <3>2. u \in Users
      BY <3>1, FirstIsMember DEF Occupied, SeatingInv, SeatingShape
    <3>3. LandNothing(k, i) \/ TakeOut(u, c, moved)
      BY <1>1, <2>1 DEF WithdrawalStep, LandFails
    <3>4. QED
      BY <3>2, <3>3 DEF LandNothing, moneyVars, rowVars
  <2>2. CASE TopUpStep(k)
    <3> DEFINE i == First(Queued(qTop, k))
               u == occ[i]
               c == IF MaxBuyin > 0 THEN Lesser(qTop[u], Room(u)) ELSE qTop[u]
    <3>1. Queued(qTop, k) \in SUBSET Seats /\ Queued(qTop, k) # {} /\ Queued(qTop, k) \subseteq Occupied
      BY <2>2, StageOfJob DEF TopUpStep, SeatingInv, Queued, Occupied
    <3>2. u \in Users
      BY <3>1, FirstIsMember DEF Occupied, SeatingInv, SeatingShape
    <3>3. LandNothing(k, i) \/ BringIn(u, c, Chips(c))
      BY <1>1, <2>2 DEF TopUpStep, LandFails
    <3>4. QED
      BY <3>2, <3>3 DEF LandNothing, moneyVars, rowVars
  <2>3. QED
    BY <2>1, <2>2
<1>3. UNCHANGED saveVars
  BY DEF WithdrawalStep, TopUpStep
<1>4. QED
  BY <1>2, <1>3, BringInKeepsRows, SameKeepsRows

LEMMA AutoKeepsRows ==
  ASSUME SavedInv, NEW k \in Stages, AutoStep(k)
  PROVE  SavedInv'
<1>1. CASE AutoFails
  BY <1>1, SameKeepsRows DEF AutoFails, unchangedButPass, moneyVars, flagVars, dbVars, rowVars
<1>2. CASE ~AutoFails
  <2>1. UNCHANGED <<occ, away, saveVars>> /\ SaveRows(Seated)
    BY <1>2 DEF AutoStep, flagVars
  <2>2. DOMAIN away' = Users
    BY <2>1 DEF SavedInv, AwaySaved
  <2>3. QED
    BY <2>1, <2>2, SavedKeepsRows
<1>3. QED
  BY <1>1, <1>2

LEMMA PassKeepsRows ==
  ASSUME SavedInv, SeatingInv, Attached, LandingFaults = FALSE, PassStep
  PROVE  SavedInv'
<1>1. ASSUME NEW k \in Stages, LeaveStep(k)
      PROVE  SavedInv'
  <2>1. Leavers(k) \in SUBSET Seats /\ Leavers(k) # {} /\ Leavers(k) \subseteq Occupied
    BY <1>1, StageOfJob DEF LeaveStep, SeatingInv, Leavers, Occupied
  <2>2. First(Leavers(k)) \in Occupied
    BY <2>1, FirstIsMember
  <2>3. CashOut(First(Leavers(k))) \/ UNCHANGED <<occ, stack, away, dbSeat, dbStack, dbAway, saveVars>>
    BY <1>1 DEF LeaveStep, unchangedButPass, moneyVars, flagVars, dbVars, rowVars
  <2>4. QED
    BY <2>2, <2>3, CashOutKeepsRows, SameKeepsRows
<1>2. ASSUME NEW k \in Stages, NEW u \in Users, KickStep(k, u)
      PROVE  SavedInv'
  <2>1. \/ u \in Seated /\ CashOut(SeatOf(u))
        \/ UNCHANGED <<occ, stack, away, dbSeat, dbStack, dbAway, saveVars>>
    BY <1>2 DEF KickStep, unchangedButPass, moneyVars, flagVars, dbVars, rowVars
  <2>2. u \in Seated => SeatOf(u) \in Occupied
    BY SeatOfSeated DEF SeatingInv
  <2>3. QED
    BY <2>1, <2>2, CashOutKeepsRows, SameKeepsRows
<1>3. ASSUME NEW k \in Stages, DealStep(k)
      PROVE  SavedInv'
  <2>1. CASE UNCHANGED unchangedButPass
    BY <2>1, SameKeepsRows DEF unchangedButPass, moneyVars, flagVars, dbVars, rowVars
  <2>2. CASE UNCHANGED <<occ, moneyVars, flagVars>> /\ PersistSafe(owed)
    <3>1. DOMAIN away' = Users /\ UNCHANGED <<occ, stack>>
      BY <2>2 DEF SavedInv, AwaySaved, moneyVars, flagVars
    <3>2. QED
      BY <2>2, <3>1, PersistKeepsRows
  <2>3. QED
    BY <1>3, <2>1, <2>2 DEF DealStep
<1>4. ASSUME NEW k \in Stages, PersistStep(k)
      PROVE  SavedInv'
  <2>1. DOMAIN away' = Users /\ UNCHANGED <<occ, stack, away>>
    BY <1>4 DEF PersistStep, SavedInv, AwaySaved, moneyVars, flagVars
  <2>2. PersistSafe(owed) \/ UNCHANGED <<saveVars, dbSeat, dbStack, dbAway>>
    BY <1>4 DEF PersistStep, rowVars
  <2>3. QED
    BY <2>1, <2>2, PersistKeepsRows, SameKeepsRows
<1>5. ASSUME NEW k \in Stages, SettleDone(k)
      PROVE  SavedInv'
  BY <1>5, SameKeepsRows DEF SettleDone, unchangedButPass, moneyVars, flagVars, dbVars, rowVars
<1>6. QED
  BY <1>1, <1>2, <1>3, <1>4, <1>5, LandingKeepsRows, AutoKeepsRows DEF PassStep

\* The seats of the rows are the seats of memory, so a restart sits everybody
\* down where they sat
LEMMA RestartSeats ==
  ASSUME SavedInv, SeatingInv, Restart
  PROVE  occ' = occ
<1>1. ASSUME NEW i \in Seats PROVE occ'[i] = occ[i]
  <2>1. \A u \in Users : dbSeat[u] = i <=> occ[i] = u
    <3> SUFFICES ASSUME NEW u \in Users PROVE dbSeat[u] = i <=> occ[i] = u
      OBVIOUS
    <3>1. dbSeat[u] = SeatIn(occ, u) /\ i # NoSeat
      BY DEF SavedInv, SeatsSaved, Seats, NoSeat
    <3>2. CASE occ[i] = u
      <4>1. \A j \in Seats : occ[j] = u => j = i
        BY <3>2, NobodyAssumption DEF SeatingInv, OneSeat
      <4>2. QED
        BY <3>1, <3>2, <4>1, SeatInIs
    <3>3. CASE occ[i] # u
      BY <3>1, <3>3, SeatInFacts
    <3>4. QED
      BY <3>2, <3>3
  <2>2. occ'[i] = IF \E u \in Users : dbSeat[u] = i THEN CHOOSE u \in Users : dbSeat[u] = i ELSE Nobody
    BY DEF Restart
  <2>3. CASE \E u \in Users : dbSeat[u] = i
    <3>1. PICK u \in Users : u = occ'[i] /\ dbSeat[u] = i
      BY <2>2, <2>3
    <3>2. QED
      BY <2>1, <3>1
  <2>4. CASE ~ \E u \in Users : dbSeat[u] = i
    <3>1. occ'[i] = Nobody /\ occ[i] \notin Users
      BY <2>1, <2>2, <2>4
    <3>2. QED
      BY <3>1 DEF SeatingInv, SeatingShape
  <2>5. QED
    BY <2>3, <2>4
<1>2. occ \in [Seats -> Users \cup {Nobody}] /\ DOMAIN occ' = Seats
  BY DEF SeatingInv, SeatingShape, Restart
<1>3. occ' = [i \in Seats |-> occ'[i]]
  BY DEF Restart
<1>4. QED
  BY <1>1, <1>2, <1>3

LEMMA RestartKeepsRows ==
  ASSUME SavedInv, SeatingInv, Restart
  PROVE  SavedInv'
<1>1. /\ occ' = occ /\ stack' = dbStack /\ away' = dbAway
      /\ UNCHANGED <<dbSeat, dbStack, dbAway>>
  BY RestartSeats DEF Restart, dbVars, rowVars
<1>2. Seated' = Seated
  BY <1>1 DEF Seated
<1>3. QED
  BY <1>1, <1>2 DEF SavedInv, SeatsSaved, StacksSaved, AwaySaved

LEMMA StepSaved ==
  ASSUME SavedInv, SeatingInv, Attached, LandingFaults = FALSE, [Next]_vars
  PROVE  SavedInv'
<1>1. CASE RunoutOver \/ StartTick \/ StartView \/ StartDeal
  BY <1>1, SameKeepsRows
     DEF RunoutOver, StartTick, StartView, StartDeal, moneyVars, flagVars, dbVars, rowVars
<1>2. CASE UNCHANGED vars
  BY <1>2, SameKeepsRows DEF vars, moneyVars, flagVars, dbVars, rowVars
<1>3. QED
  BY <1>1, <1>2, HandlerKeepsRows, EndHandKeepsRows, PassKeepsRows, RestartKeepsRows DEF Next

RowsInv == SeatingInv /\ RowsShape /\ Attached /\ MoneyInv /\ SavedInv

LEMMA InitRows == Init => RowsInv
<1> SUFFICES ASSUME Init PROVE RowsInv
  OBVIOUS
<1>1. SeatingInv /\ Attached
  BY InitSeating DEF Init, Attached, Idle
<1>2. /\ stack = [u \in Users |-> 0]
      /\ bought = stack /\ left = stack /\ dbStack = stack /\ dbBought = stack /\ dbLeft = stack
      /\ ledgerIn = stack /\ ledgerOut = stack
  BY DEF Init
<1>3. RowsShape /\ MoneyInv
  BY <1>2 DEF RowsShape, MoneyInv
<1>4. \A u \in Users : SeatIn(occ, u) = NoSeat
  BY NobodyAssumption DEF Init, SeatIn
<1>5. SavedInv
  BY <1>2, <1>4 DEF Init, SavedInv, SeatsSaved, StacksSaved, AwaySaved
<1>6. QED
  BY <1>1, <1>3, <1>5 DEF RowsInv

LEMMA StepRows ==
  ASSUME LandingFaults = FALSE, RowsInv, [Next]_vars
  PROVE  RowsInv'
BY StepSeating, StepRowsShape, StepMoneyInv, StepSaved DEF RowsInv

\* As long as no landing write fails, what a restart finds is what memory holds:
\* every seat and every total, the stacks unless a hand's result is still owed to
\* the database, the away flags unless a failed save waits for its retry
THEOREM MemoryTheorem ==
  ASSUME LandingFaults = FALSE
  PROVE  Spec => []MemoryMatchesRows
<1>1. RowsInv /\ [Next]_vars => RowsInv'
  BY StepRows
<1>2. RowsInv => MemoryMatchesRows
  BY DEF RowsInv, SavedInv, SeatsSaved, StacksSaved, AwaySaved, MoneyInv, MemoryMatchesRows
<1>3. QED
  BY InitRows, <1>1, <1>2, PTL DEF Spec

\* Only the restart counts as one
LEMMA OnlyRestartCounts ==
  ASSUME [Next]_vars, restarts' # restarts
  PROVE  Restart
<1>1. ~Handler
  BY DEF Handler, Sit, TopUp, TakeOff, Move, Leave, LeaveNow, CancelLeave, Kick, Defer, SitOutNext,
         TransferHost, TimedOut, SitOut, SetRunning, Close, bounds
<1>2. ~PassStep
  BY DEF PassStep, LeaveStep, KickStep, WithdrawalStep, TopUpStep, AutoStep, AutoFails, DealStep,
         PersistStep, SettleDone, unchangedButPass, bounds
<1>3. ~(EndHand \/ RunoutOver \/ StartTick \/ StartView \/ StartDeal)
  BY DEF EndHand, RunoutOver, StartTick, StartView, StartDeal, bounds
<1>4. ~UNCHANGED vars
  BY DEF vars
<1>5. QED
  BY <1>1, <1>2, <1>3, <1>4 DEF Next

\* A hand that a restart cuts short never was: everyone dealt in is back in their
\* seat with the chips they began it with, also when the save of the deal failed,
\* unless the result of an earlier hand was lost with it
THEOREM VoidTheorem ==
  ASSUME LandingFaults = FALSE
  PROVE  Spec => VoidHandIsUndone
<1>1. RowsInv /\ [Next]_vars => RowsInv'
  BY StepRows
<1>2. RowsInv /\ [Next]_vars =>
        [phase = "in_hand" /\ owed = {} /\ restarts' # restarts =>
           \A i \in DealtSeats : occ'[i] = dealt[i] /\ stack'[dealt[i]] = start[i]]_vars
  <2> SUFFICES ASSUME RowsInv, [Next]_vars, phase = "in_hand", owed = {}, restarts' # restarts,
                      NEW i \in DealtSeats
               PROVE  occ'[i] = dealt[i] /\ stack'[dealt[i]] = start[i]
    OBVIOUS
  <2>1. Restart
    BY OnlyRestartCounts
  <2>2. occ' = occ /\ stack' = dbStack
    BY <2>1, RestartSeats DEF Restart, RowsInv
  <2>3. occ[i] = dealt[i] /\ stack[dealt[i]] = start[i]
    BY DEF RowsInv, SeatingInv, CardsKeepTheirSeat, HandBusy
  <2>4. dealt[i] \in Seated
    BY <2>3 DEF DealtSeats, Seated, RowsInv, SeatingInv, SeatingShape
  <2>5. QED
    BY <2>2, <2>3, <2>4 DEF RowsInv, SavedInv, StacksSaved
<1>3. QED
  BY InitRows, <1>1, <1>2, PTL DEF Spec, VoidHandIsUndone

-----------------------------------------------------------------------------
(* The records of the hands are kept by number: a number is never given out  *)
(* again.  The number in the table's row is ahead of every record there, the *)
(* number in memory is ahead of what is owed.                                *)

MetaShape ==
  /\ DOMAIN meta = {"status", "running", "host", "handNo"}
  /\ meta.handNo \in Nat /\ dbMeta.handNo \in Nat

NumbersInv ==
  /\ MetaShape
  /\ dbMeta.handNo <= meta.handNo
  /\ \A r \in results : r.no \in Nat /\ r.no <= dbMeta.handNo
  /\ \A n \in owed : n.no \in Nat /\ n.no <= meta.handNo
  /\ \A r \in results, n \in owed : r.no # n.no
  /\ phase = "in_hand" => \A r \in results \cup owed : r.no < meta.handNo

Kept == NumbersInv' /\ results \subseteq results'

\* A step that records nothing, and at most saves the number
LEMMA SameNumbers ==
  ASSUME NumbersInv, UNCHANGED <<results, owed>>,
         DOMAIN meta' = DOMAIN meta, meta'.handNo = meta.handNo,
         dbMeta'.handNo \in {dbMeta.handNo, meta.handNo},
         phase' = "in_hand" => phase = "in_hand"
  PROVE  Kept
BY DEF NumbersInv, MetaShape, Kept

\* A save of the whole table, with the records that are owed
LEMMA PersistNumbers ==
  ASSUME NumbersInv, NEW toSave, PersistSafe(toSave),
         DOMAIN meta' = DOMAIN meta, meta'.handNo \in Nat, meta'.handNo >= meta.handNo,
         \A n \in toSave : n.no \in Nat /\ n.no <= meta'.handNo,
         \A r \in results, n \in toSave : r.no # n.no,
         phase' = "in_hand" => \A r \in results \cup toSave : r.no < meta'.handNo
  PROVE  Kept
<1>1. ASSUME NEW lost \in SUBSET toSave, results' = Recorded(results, toSave \ lost),
             owed' = {}, dbMeta' = Saved(meta')
      PROVE  Kept
  <2>1. results' = results \cup (toSave \ lost)
    BY <1>1 DEF Recorded
  <2>2. dbMeta'.handNo = meta'.handNo
    BY <1>1 DEF Saved
  <2>3. \A r \in results' : r.no \in Nat /\ r.no <= dbMeta'.handNo
    BY <2>1, <2>2 DEF NumbersInv, MetaShape
  <2>4. phase' = "in_hand" => \A r \in results' \cup owed' : r.no < meta'.handNo
    BY <1>1, <2>1
  <2>5. MetaShape' /\ dbMeta'.handNo <= meta'.handNo
    BY <2>2 DEF NumbersInv, MetaShape
  <2>6. QED
    BY <1>1, <2>1, <2>3, <2>4, <2>5 DEF NumbersInv, Kept
<1>2. ASSUME owed' = toSave, UNCHANGED <<dbMeta, results>>
      PROVE  Kept
  BY <1>2 DEF NumbersInv, MetaShape, Kept
<1>3. QED
  BY <1>1, <1>2 DEF PersistSafe

LEMMA CashOutNumbers ==
  ASSUME NumbersInv, NEW i, CashOut(i)
  PROVE  Kept
<1>1. UNCHANGED <<results, owed, phase>>
  BY DEF CashOut, saveVars, handVars
<1>2. DOMAIN meta' = DOMAIN meta /\ meta'.handNo = meta.handNo
  BY DEF CashOut, NumbersInv, MetaShape
<1>3. dbMeta'.handNo \in {dbMeta.handNo, meta.handNo}
  BY <1>2 DEF CashOut, Saved
<1>4. QED
  BY <1>1, <1>2, <1>3, SameNumbers

LEMMA HandlerNumbers ==
  ASSUME NumbersInv, Handler
  PROVE  Kept
<1>1. CASE UNCHANGED <<results, owed, meta, dbMeta, phase>>
  BY <1>1, SameNumbers
<1>2. ASSUME NEW u \in Users, NEW i \in Seats, NEW c \in BuyIns, Sit(u, i, c) PROVE Kept
  BY <1>1, <1>2 DEF Sit, saveVars, handVars
<1>3. ASSUME NEW u \in Users, NEW c \in Changes, TopUp(u, c) \/ TakeOff(u, c) PROVE Kept
  BY <1>1, <1>3 DEF TopUp, TakeOff, saveVars, handVars
<1>4. ASSUME NEW u \in Users, NEW i \in Seats, Move(u, i) PROVE Kept
  BY <1>1, <1>4 DEF Move, saveVars, handVars
<1>5. ASSUME NEW u \in Users, Leave(u) \/ LeaveNow(u) \/ CancelLeave(u) \/ Kick(u) PROVE Kept
  <2>1. CashOut(SeatOf(u)) \/ UNCHANGED <<results, owed, meta, dbMeta, phase>>
    BY <1>5 DEF Leave, LeaveNow, CancelLeave, Kick, Defer, saveVars, handVars, dbVars
  <2>2. QED
    BY <1>1, <2>1, CashOutNumbers
<1>6. ASSUME NEW u \in Users, SitOutNext(u) PROVE Kept
  BY <1>1, <1>6 DEF SitOutNext, saveVars, handVars, dbVars
<1>7. ASSUME NEW u \in Users, NEW on \in BOOLEAN, SitOut(u, on) PROVE Kept
  BY <1>1, <1>7 DEF SitOut, saveVars, handVars
<1>8. ASSUME UNCHANGED <<results, owed, phase>>, dbMeta' = Saved(meta'),
             DOMAIN meta' = DOMAIN meta, meta'.handNo = meta.handNo
      PROVE  Kept
  <2>1. dbMeta'.handNo = meta.handNo
    BY <1>8 DEF Saved
  <2>2. QED
    BY <1>8, <2>1, SameNumbers
<1>9. ASSUME NEW u \in Users, TransferHost(u) PROVE Kept
  <2>1. UNCHANGED <<results, owed, phase>> /\ dbMeta' = Saved(meta')
    BY <1>9 DEF TransferHost, saveVars, handVars
  <2>2. DOMAIN meta' = DOMAIN meta /\ meta'.handNo = meta.handNo
    BY <1>9 DEF TransferHost, NumbersInv, MetaShape
  <2>3. QED
    BY <1>8, <2>1, <2>2
<1>10. ASSUME NEW on \in BOOLEAN, SetRunning(on) PROVE Kept
  <2>1. UNCHANGED <<results, owed, phase>> /\ dbMeta' = Saved(meta')
    BY <1>10 DEF SetRunning, saveVars, handVars
  <2>2. DOMAIN meta' = DOMAIN meta /\ meta'.handNo = meta.handNo
    BY <1>10 DEF SetRunning, NumbersInv, MetaShape
  <2>3. QED
    BY <1>8, <2>1, <2>2
<1>11. ASSUME Close PROVE Kept
  <2>1. UNCHANGED <<results, owed, phase>> /\ dbMeta' = Saved(meta')
    BY <1>11 DEF Close, saveVars, handVars
  <2>2. DOMAIN meta' = DOMAIN meta /\ meta'.handNo = meta.handNo
    BY <1>11 DEF Close, NumbersInv, MetaShape
  <2>3. QED
    BY <1>8, <2>1, <2>2
<1>12. ASSUME NEW u \in Users, TimedOut(u) PROVE Kept
  <2>1. PersistSafe(owed) /\ UNCHANGED <<meta, phase>>
    BY <1>12 DEF TimedOut, handVars
  <2>2. QED
    BY <2>1, PersistNumbers DEF NumbersInv, MetaShape
<1>13. QED
  BY <1>2, <1>3, <1>4, <1>5, <1>6, <1>7, <1>9, <1>10, <1>11, <1>12 DEF Handler

\* The record of a hand has the number of the hand, which no record has
LEMMA EndHandNumbers ==
  ASSUME NumbersInv, EndHand
  PROVE  Kept
<1>1. PICK d \in Payouts : PersistSafe(owed \cup {Record(d)})
  BY DEF EndHand
<1>2. phase = "in_hand" /\ phase' # "in_hand" /\ meta' = meta
  BY DEF EndHand
<1> DEFINE rec == Record(d)
<1>3. rec.no = meta.handNo
  BY DEF Record
<1> HIDE DEF rec
<1>4. \A n \in owed \cup {rec} : n.no \in Nat /\ n.no <= meta'.handNo
  BY <1>2, <1>3 DEF NumbersInv, MetaShape
<1>5. \A r \in results, n \in owed \cup {rec} : r.no # n.no
  BY <1>2, <1>3 DEF NumbersInv, MetaShape
<1>6. PersistSafe(owed \cup {rec})
  BY <1>1 DEF rec
<1>7. DOMAIN meta' = DOMAIN meta /\ meta'.handNo \in Nat /\ meta'.handNo >= meta.handNo
  BY <1>2 DEF NumbersInv, MetaShape
<1> DEFINE toSave == owed \cup {rec}
<1> HIDE DEF toSave
<1>8. QED
  BY <1>2, <1>4, <1>5, <1>6, <1>7, PersistNumbers DEF toSave

LEMMA PassNumbers ==
  ASSUME NumbersInv, PassStep
  PROVE  Kept
<1>1. CASE UNCHANGED <<results, owed, meta, dbMeta, phase>>
  BY <1>1, SameNumbers
<1>2. ASSUME NEW k \in Stages, LeaveStep(k) \/ \E u \in Users : KickStep(k, u) PROVE Kept
  <2>1. (\E i : CashOut(i)) \/ UNCHANGED <<results, owed, meta, dbMeta, phase>>
    BY <1>2 DEF LeaveStep, KickStep, unchangedButPass, saveVars, handVars, dbVars
  <2>2. QED
    BY <1>1, <2>1, CashOutNumbers
<1>3. ASSUME NEW k \in Stages, WithdrawalStep(k) \/ TopUpStep(k) PROVE Kept
  BY <1>1, <1>3 DEF WithdrawalStep, TopUpStep, saveVars, handVars
<1>4. ASSUME NEW k \in Stages, AutoStep(k) PROVE Kept
  <2>1. UNCHANGED <<results, owed, meta, phase>> /\ (dbMeta' = dbMeta \/ dbMeta' = Saved(meta))
    BY <1>4 DEF AutoStep, AutoFails, unchangedButPass, saveVars, handVars, dbVars
  <2>2. QED
    BY <2>1, SameNumbers DEF Saved
<1>5. ASSUME NEW k \in Stages, DealStep(k) PROVE Kept
  <2>1. CASE PersistSafe(owed) /\ meta' = [meta EXCEPT !.handNo = @ + 1]
    <3>1. DOMAIN meta' = DOMAIN meta /\ meta'.handNo = meta.handNo + 1
      BY <2>1 DEF NumbersInv, MetaShape
    <3>2. \A n \in owed : n.no \in Nat /\ n.no <= meta'.handNo
      BY <3>1 DEF NumbersInv, MetaShape
    <3>3. \A r \in results \cup owed : r.no < meta'.handNo
      BY <3>1 DEF NumbersInv, MetaShape
    <3>4. meta'.handNo \in Nat /\ meta'.handNo >= meta.handNo
      BY <3>1 DEF NumbersInv, MetaShape
    <3>5. \A r \in results, n \in owed : r.no # n.no
      BY DEF NumbersInv
    <3>6. QED
      BY <2>1, <3>1, <3>2, <3>3, <3>4, <3>5, PersistNumbers
  <2>2. QED
    BY <1>1, <1>5, <2>1 DEF DealStep, unchangedButPass, saveVars, handVars, dbVars
<1>6. ASSUME NEW k \in Stages, PersistStep(k) PROVE Kept
  <2>1. PersistSafe(owed) \/ UNCHANGED <<results, owed, dbMeta>>
    BY <1>6 DEF PersistStep, saveVars
  <2>2. UNCHANGED <<meta, phase>>
    BY <1>6 DEF PersistStep, handVars
  <2>3. CASE PersistSafe(owed)
    BY <2>2, <2>3, PersistNumbers DEF NumbersInv, MetaShape
  <2>4. QED
    BY <1>1, <2>1, <2>2, <2>3
<1>7. ASSUME NEW k \in Stages, SettleDone(k) PROVE Kept
  BY <1>1, <1>7 DEF SettleDone, unchangedButPass, saveVars, handVars, dbVars
<1>8. QED
  BY <1>2, <1>3, <1>4, <1>5, <1>6, <1>7 DEF PassStep

LEMMA StepNumbers ==
  ASSUME NumbersInv, [Next]_vars
  PROVE  Kept
<1>1. CASE UNCHANGED <<results, owed, meta, dbMeta>> /\ (phase' = "in_hand" => phase = "in_hand")
  BY <1>1, SameNumbers
<1>2. CASE RunoutOver \/ StartTick \/ StartView \/ StartDeal
  BY <1>1, <1>2 DEF RunoutOver, StartTick, StartView, StartDeal, saveVars, handVars, dbVars
<1>3. CASE Restart
  <2>1. /\ UNCHANGED <<results, dbMeta>> /\ owed' = {} /\ phase' = "idle"
        /\ meta' = [status |-> dbMeta.status, running |-> FALSE, host |-> dbMeta.host,
                    handNo |-> dbMeta.handNo]
    BY <1>3 DEF Restart, dbVars
  <2>2. DOMAIN meta' = {"status", "running", "host", "handNo"} /\ meta'.handNo = dbMeta.handNo
    BY <2>1
  <2>3. QED
    BY <2>1, <2>2 DEF NumbersInv, MetaShape, Kept
<1>4. CASE UNCHANGED vars
  BY <1>1, <1>4 DEF vars, saveVars, handVars, dbVars
<1>5. QED
  BY <1>2, <1>3, <1>4, HandlerNumbers, EndHandNumbers, PassNumbers DEF Next

LEMMA InitNumbers == Init => NumbersInv
<1> SUFFICES ASSUME Init PROVE NumbersInv
  OBVIOUS
<1>1. PICK host \in Users :
        meta = [status |-> "open", running |-> FALSE, host |-> host, handNo |-> 0]
  BY DEF Init
<1>2. DOMAIN meta = {"status", "running", "host", "handNo"} /\ meta.handNo = 0
  BY <1>1
<1>3. dbMeta.handNo = 0
  BY <1>2 DEF Init, Saved
<1>4. QED
  BY <1>2, <1>3 DEF Init, NumbersInv, MetaShape

\* No hand's record is ever replaced by another's, whatever write fails or is
\* lost and whenever the table restarts: the number of a hand is saved with its
\* result (_persist_safe), so it is not given out again
THEOREM RecordsTheorem == Spec => RecordsNeverReplaced
<1>1. Init => NumbersInv
  BY InitNumbers
<1>2. NumbersInv /\ [Next]_vars => NumbersInv' /\ [results \subseteq results']_vars
  BY StepNumbers DEF Kept
<1>3. QED
  BY <1>1, <1>2, PTL DEF Spec, RecordsNeverReplaced

-----------------------------------------------------------------------------
(* Types.  No amount of money is ever negative, in memory, in the rows or in *)
(* the ledger; that rests on the shares of a cash-out, so on the money       *)
(* arithmetic.                                                               *)

LEMMA SeatsFinite ==
  ASSUME NEW S \in SUBSET Seats
  PROVE  S \subseteq Int /\ IsFiniteSet(S)
<1>1. IsFiniteSet(Seats) /\ Seats \subseteq Int
  BY RangeSize, SeatsAssumption DEF Seats
<1>2. QED
  BY <1>1, FS_Subset

\* A conversion of an amount that is not negative
LEMMA AmountType ==
  ASSUME NEW c \in Int
  PROVE  /\ Chips(c) \in Int /\ Cents(c) \in Int
         /\ c >= 0 => Chips(c) \in Nat /\ Cents(c) \in Nat
BY ConversionType, StakesAssumption DEF Chips, Cents

LEMMA AntesType == AnteChips \in Nat /\ Keep \in Nat /\ BBCents > 0
<1>1. AnteCents \in Int /\ AnteCents >= 0 /\ BBCents \in Nat \ {0} /\ AnteCents \in Nat
  BY StakesAssumption
<1>2. AnteChips \in Nat
  BY <1>1, AmountType DEF AnteChips
<1>3. QED
  BY <1>1, <1>2 DEF Keep

\* and it is the first of them
LEMMA FirstIsFirst ==
  ASSUME NEW S \in SUBSET Seats, S # {}
  PROVE  First(S) \in S /\ \A j \in S : First(S) <= j
<1>1. S \subseteq Int /\ IsFiniteSet(S)
  BY SeatsFinite
<1>2. Least(S) \in S /\ \A j \in S : Least(S) <= j
  BY <1>1, LeastIsLeast
<1>3. First(S) = Least(S)
  BY DEF First, Least
<1>4. QED
  BY <1>2, <1>3

MoneyType ==
  /\ stack \in MoneyOK /\ bought \in MoneyOK /\ left \in MoneyOK
  /\ dbStack \in MoneyOK /\ dbBought \in MoneyOK /\ dbLeft \in MoneyOK
  /\ ledgerIn \in MoneyOK /\ ledgerOut \in MoneyOK
  /\ qTop \in MoneyOK /\ qRem \in MoneyOK

LEMMA MoneyOnTableType ==
  ASSUME MoneyType
  PROVE  MoneyOnTable \in Int
<1> DEFINE f == [u \in Users |-> IF u \in Seated THEN bought[u] - left[u] ELSE dbBought[u] - dbLeft[u]]
<1>1. f \in [Users -> Int]
  BY DEF MoneyType, MoneyOK
<1> HIDE DEF f
<1>2. Total(f) \in Int
  BY <1>1, UsersAssumption, TotalType
<1>3. QED
  BY <1>2 DEF MoneyOnTable, f

\* What the seats of a non-empty part of the table are worth together
LEMMA SharesType ==
  ASSUME SeatingShape, MoneyType, NEW S \in SUBSET Occupied, S # {}, NEW money \in Int
  PROVE  LET shares == Apportion(money, [j \in S |-> stack[occ[j]]])
         IN  /\ shares \in [S -> Nat]
             /\ Total(shares) = IF money < 0 THEN 0 ELSE money
<1> DEFINE chips == [j \in S |-> stack[occ[j]]]
<1>1. chips \in [S -> Int]
  BY DEF Occupied, SeatingShape, MoneyType, MoneyOK
<1>2. S \in SUBSET Seats
  BY DEF Occupied
<1>3. IsFiniteSet(S) /\ S \subseteq Int
  BY <1>2, SeatsFinite
<1> HIDE DEF chips
<1>4. /\ Apportion(money, chips) \in [S -> Nat]
      /\ Total(Apportion(money, chips)) = IF money < 0 THEN 0 ELSE money
  BY <1>1, <1>3, ApportionTheorem
<1>5. QED
  BY <1>4 DEF chips

LEMMA WorthType ==
  ASSUME SeatingShape, MoneyType, NEW i \in Occupied
  PROVE  Worth(i) \in Nat
<1> DEFINE money == MoneyOnTable
<1>1. money \in Int /\ Occupied \in SUBSET Occupied /\ Occupied # {}
  BY MoneyOnTableType
<1> HIDE DEF money
<1>2. Apportion(money, [j \in Occupied |-> stack[occ[j]]]) \in [Occupied -> Nat]
  BY <1>1, SharesType
<1>3. QED
  BY <1>2 DEF Worth, money

LEMMA ShareOfType ==
  ASSUME SeatingShape, MoneyType, NEW money \in Int, NEW i \in Seats
  PROVE  ShareOf(money, i) \in Nat
<1> DEFINE S == {k \in Occupied : k >= i}
<1>1. CASE occ[i] = Nobody
  BY <1>1 DEF ShareOf
<1>2. CASE occ[i] # Nobody
  <2>1. i \in S /\ S \in SUBSET Occupied
    BY <1>2 DEF Occupied, Seats
  <2>2. ShareOf(money, i) = Apportion(money, [j \in S |-> stack[occ[j]]])[i]
    BY <1>2 DEF ShareOf
  <2> HIDE DEF S
  <2>3. Apportion(money, [j \in S |-> stack[occ[j]]]) \in [S -> Nat]
    BY <2>1, SharesType
  <2>4. QED
    BY <2>1, <2>2, <2>3
<1>3. QED
  BY <1>1, <1>2

\* The money left before each seat is paid: there is such a sequence of amounts,
\* built up seat by seat
NextMoney(g, i) ==
  IF i = 0 THEN MoneyOnTable
  ELSE LET before == g[i - 1] IN before - ShareOf(before, i - 1)
IsClosingMoney(g) == g = [i \in 0 .. NumSeats |-> NextMoney(g, i)]

LEMMA ClosingMoneyExists == \E g : IsClosingMoney(g)
<1> DEFINE D == 0 .. NumSeats
           Upto(n) == \E g : /\ g = [i \in D |-> g[i]]
                             /\ \A i \in D : i <= n => g[i] = NextMoney(g, i)
           Bad == {n \in Nat : ~Upto(n)}
           Less == OpToRel(<, Nat)
<1>0. D \subseteq Nat /\ NumSeats \in Nat /\ \A i \in D : i # 0 => i - 1 \in D
  BY SeatsAssumption
<1>1. Upto(0)
  <2> DEFINE g == [i \in D |-> MoneyOnTable]
  <2>1. \A i \in D : i <= 0 => g[i] = NextMoney(g, i)
    <3> SUFFICES ASSUME NEW i \in D, i <= 0 PROVE g[i] = NextMoney(g, i)
      OBVIOUS
    <3>1. i = 0
      BY <1>0
    <3>2. QED
      BY <3>1 DEF NextMoney
  <2>2. g = [i \in D |-> g[i]]
    OBVIOUS
  <2> HIDE DEF g
  <2>3. QED
    BY <2>1, <2>2
<1>2. ASSUME NEW n \in Nat, Upto(n) PROVE Upto(n + 1)
  <2>1. PICK g : g = [i \in D |-> g[i]] /\ \A i \in D : i <= n => g[i] = NextMoney(g, i)
    BY <1>2
  <2> DEFINE h == [i \in D |-> IF i <= n THEN g[i] ELSE NextMoney(g, i)]
  <2>2. h = [i \in D |-> h[i]]
    OBVIOUS
  <2>3. ASSUME NEW i \in D, i <= n + 1 PROVE h[i] = NextMoney(h, i)
    <3>1. h[i] = NextMoney(g, i)
      BY <2>1
    <3>2. i # 0 => h[i - 1] = g[i - 1]
      BY <1>0, <2>3
    <3> HIDE DEF h
    <3>3. NextMoney(h, i) = NextMoney(g, i)
      BY <3>2 DEF NextMoney
    <3>4. QED
      BY <3>1, <3>3
  <2> HIDE DEF h
  <2>4. QED
    BY <2>2, <2>3
<1>3. \A n \in Nat : Upto(n)
  <2> HIDE DEF Upto
  <2>1. SUFFICES ASSUME Bad # {} PROVE FALSE
    OBVIOUS
  <2>2. IsWellFoundedOn(Less, Nat) /\ Bad \subseteq Nat
    BY NatLessThanWellFounded
  <2>3. \A x, y \in Nat : x < y => <<x, y>> \in Less
    BY DEF OpToRel
  <2> HIDE DEF Less
  <2>4. PICK n \in Bad : \A m \in Bad : ~(<<m, n>> \in Less)
    BY <2>1, <2>2, WFMin
  <2>5. n \in Nat /\ n # 0 /\ n - 1 \in Nat
    BY <1>1, <2>4
  <2>6. Upto(n - 1)
    <3>1. n - 1 < n
      BY <2>5
    <3>2. <<n - 1, n>> \in Less
      BY <2>3, <2>5, <3>1
    <3>3. n - 1 \notin Bad
      BY <2>4, <3>2
    <3>4. QED
      BY <2>5, <3>3
  <2>7. Upto((n - 1) + 1)
    BY <1>2, <2>5, <2>6
  <2>8. (n - 1) + 1 = n
    BY <2>5
  <2>9. QED
    BY <2>4, <2>7, <2>8
<1>4. PICK g : g = [i \in D |-> g[i]] /\ \A i \in D : i <= NumSeats => g[i] = NextMoney(g, i)
  BY <1>0, <1>3
<1>5. \A i \in D : g[i] = NextMoney(g, i)
  BY <1>0, <1>4
<1>6. g = [i \in D |-> NextMoney(g, i)]
  BY <1>4, <1>5
<1>7. QED
  BY <1>6 DEF IsClosingMoney

LEMMA ClosingMoneyIs ==
  /\ ClosingMoney[0] = MoneyOnTable
  /\ \A i \in Seats : ClosingMoney[i + 1] = ClosingMoney[i] - ShareOf(ClosingMoney[i], i)
<1>1. IsClosingMoney(ClosingMoney)
  <2>1. ClosingMoney = CHOOSE g : IsClosingMoney(g)
    BY DEF ClosingMoney, IsClosingMoney, NextMoney
  <2>2. QED
    BY <2>1, ClosingMoneyExists
<1> DEFINE g == ClosingMoney
<1>2. \A i \in 0 .. NumSeats : g[i] = NextMoney(g, i)
  BY <1>1 DEF IsClosingMoney
<1> HIDE DEF g
<1>3. g[0] = MoneyOnTable
  BY <1>2, SeatsAssumption DEF NextMoney
<1>4. ASSUME NEW i \in Seats PROVE g[i + 1] = g[i] - ShareOf(g[i], i)
  <2>1. i + 1 \in 0 .. NumSeats /\ i + 1 # 0 /\ (i + 1) - 1 = i
    BY SeatsAssumption DEF Seats
  <2>2. g[i + 1] = NextMoney(g, i + 1)
    BY <1>2, <2>1
  <2>3. QED
    BY <2>1, <2>2 DEF NextMoney
<1>5. QED
  BY <1>3, <1>4 DEF g

-----------------------------------------------------------------------------

LEMMA ClosingMoneyType ==
  ASSUME SeatingShape, MoneyType
  PROVE  \A i \in Seats : ClosingMoney[i] \in Int
<1> DEFINE Bad == {i \in Seats : ClosingMoney[i] \notin Int}
<1>1. Bad \in SUBSET Seats
  OBVIOUS
<1>2. SUFFICES ASSUME Bad # {} PROVE FALSE
  OBVIOUS
<1>3. PICK n \in Bad : \A i \in Bad : n <= i
  <2> HIDE DEF Bad
  <2>1. First(Bad) \in Bad /\ \A i \in Bad : First(Bad) <= i
    BY <1>1, <1>2, FirstIsFirst
  <2>2. QED
    BY <2>1
<1>4. n \in Seats /\ ClosingMoney[n] \notin Int /\ n \in Int
  BY DEF Seats
<1>5. n # 0
  BY <1>4, MoneyOnTableType, ClosingMoneyIs
<1>6. n - 1 \in Seats /\ (n - 1) + 1 = n /\ ~(n <= n - 1)
  BY <1>4, <1>5, SeatsAssumption DEF Seats
<1>7. ClosingMoney[n - 1] \in Int
  BY <1>3, <1>6
<1>8. ShareOf(ClosingMoney[n - 1], n - 1) \in Nat
  BY <1>6, <1>7, ShareOfType
<1>9. ClosingMoney[(n - 1) + 1] = ClosingMoney[n - 1] - ShareOf(ClosingMoney[n - 1], n - 1)
  BY <1>6, ClosingMoneyIs
<1> DEFINE a == ClosingMoney[n - 1]
           b == ShareOf(ClosingMoney[n - 1], n - 1)
<1>10. ClosingMoney[n] = a - b /\ a \in Int /\ b \in Nat
  BY <1>6, <1>7, <1>8, <1>9
<1> HIDE DEF a, b
<1>11. a - b \in Int
  BY <1>10
<1>12. QED
  BY <1>4, <1>10, <1>11

LEMMA ClosingShareType ==
  ASSUME SeatingShape, MoneyType
  PROVE  ClosingShare \in [Seats -> Nat]
<1>1. ASSUME NEW i \in Seats PROVE ShareOf(ClosingMoney[i], i) \in Nat
  <2>1. ClosingMoney[i] \in Int
    BY ClosingMoneyType
  <2>2. QED
    BY <2>1, ShareOfType
<1>2. QED
  BY <1>1 DEF ClosingShare

-----------------------------------------------------------------------------
(* Each step keeps the amounts of money *)

\* The rows are saved from memory
LEMMA SavedMoneyType ==
  ASSUME MoneyType, NEW S, SaveRows(S),
         stack' \in MoneyOK, bought' \in MoneyOK, left' \in MoneyOK,
         ledgerIn' \in MoneyOK, ledgerOut' \in MoneyOK, qTop' \in MoneyOK, qRem' \in MoneyOK
  PROVE  MoneyType'
<1>1. dbStack' \in MoneyOK
  BY DEF MoneyType, MoneyOK, SaveRows
<1>2. dbBought' \in MoneyOK
  BY DEF MoneyType, MoneyOK, SaveRows
<1>3. dbLeft' \in MoneyOK
  BY DEF MoneyType, MoneyOK, SaveRows
<1>4. QED
  BY <1>1, <1>2, <1>3 DEF MoneyType, MoneyOK

LEMMA SameMoneyType ==
  ASSUME MoneyType,
         UNCHANGED <<stack, bought, left, dbStack, dbBought, dbLeft, ledgerIn, ledgerOut>>,
         qTop' \in MoneyOK, qRem' \in MoneyOK
  PROVE  MoneyType'
BY DEF MoneyType, MoneyOK

\* A save of the whole table while no money moves but the stacks
LEMMA PersistMoneyType ==
  ASSUME MoneyType, NEW toSave, PersistSafe(toSave), stack' \in MoneyOK,
         UNCHANGED <<bought, left, ledger, qTop, qRem>>
  PROVE  MoneyType'
<1>1. /\ bought' \in MoneyOK /\ left' \in MoneyOK /\ ledgerIn' \in MoneyOK /\ ledgerOut' \in MoneyOK
      /\ qTop' \in MoneyOK /\ qRem' \in MoneyOK
  BY DEF MoneyType, ledger
<1>2. CASE SaveRows({u \in Users : \E i \in Seats : occ'[i] = u})
  BY <1>1, <1>2, SavedMoneyType
<1>3. CASE UNCHANGED rowVars
  BY <1>1, <1>3 DEF MoneyType, rowVars, MoneyOK
<1>4. QED
  BY <1>2, <1>3 DEF PersistSafe

LEMMA BringInMoneyType ==
  ASSUME MoneyType, NEW u \in Users, NEW c \in Nat, NEW moved \in Nat, BringIn(u, c, moved),
         qTop' \in MoneyOK, qRem' \in MoneyOK
  PROVE  MoneyType'
<1>1. /\ stack' = [stack EXCEPT ![u] = @ + moved] /\ bought' = [bought EXCEPT ![u] = @ + c]
      /\ ledgerIn' = [ledgerIn EXCEPT ![u] = @ + c] /\ ledgerOut' = ledgerOut /\ left' = left
      /\ SaveRows({u})
  BY DEF BringIn, LedgerIn
<1>2. stack' \in MoneyOK /\ bought' \in MoneyOK /\ ledgerIn' \in MoneyOK
  BY <1>1 DEF MoneyType, MoneyOK
<1>3. left' \in MoneyOK /\ ledgerOut' \in MoneyOK
  BY <1>1 DEF MoneyType
<1>4. QED
  BY <1>1, <1>2, <1>3, SavedMoneyType

LEMMA TakeOutMoneyType ==
  ASSUME MoneyType, NEW u \in Users, NEW c \in Nat, NEW moved \in Nat, moved <= stack[u],
         TakeOut(u, c, moved), qTop' \in MoneyOK, qRem' \in MoneyOK
  PROVE  MoneyType'
<1>1. /\ stack' = [stack EXCEPT ![u] = @ - moved] /\ left' = [left EXCEPT ![u] = @ + c]
      /\ ledgerOut' = [ledgerOut EXCEPT ![u] = @ + c] /\ ledgerIn' = ledgerIn /\ bought' = bought
      /\ SaveRows({u})
  BY DEF TakeOut, LedgerOut
<1>2. stack[u] - moved \in Nat
  BY DEF MoneyType, MoneyOK
<1>3. stack' \in MoneyOK /\ left' \in MoneyOK /\ ledgerOut' \in MoneyOK
  BY <1>1, <1>2 DEF MoneyType, MoneyOK
<1>4. bought' \in MoneyOK /\ ledgerIn' \in MoneyOK
  BY <1>1 DEF MoneyType
<1>5. QED
  BY <1>1, <1>3, <1>4, SavedMoneyType

LEMMA CashOutMoneyType ==
  ASSUME SeatingShape, MoneyType, NEW i \in Occupied, CashOut(i)
  PROVE  MoneyType'
<1> DEFINE u == occ[i]
           share == Worth(i)
<1>1. u \in Users /\ share \in Nat
  BY WorthType DEF Occupied, SeatingShape
<1>2. /\ stack' = [stack EXCEPT ![u] = 0] /\ left' = [left EXCEPT ![u] = @ + share]
      /\ ledgerOut' = [ledgerOut EXCEPT ![u] = @ + share] /\ ledgerIn' = ledgerIn
      /\ bought' = bought /\ SaveRows({u})
      /\ qTop' = [qTop EXCEPT ![u] = 0] /\ qRem' = [qRem EXCEPT ![u] = 0]
  BY DEF CashOut, LedgerOut
<1> HIDE DEF u, share
<1>3. stack' \in MoneyOK /\ left' \in MoneyOK /\ ledgerOut' \in MoneyOK
  BY <1>1, <1>2 DEF MoneyType, MoneyOK
<1>4. qTop' \in MoneyOK /\ qRem' \in MoneyOK
  BY <1>1, <1>2 DEF MoneyType, MoneyOK
<1>5. bought' \in MoneyOK /\ ledgerIn' \in MoneyOK
  BY <1>2 DEF MoneyType
<1>6. QED
  BY <1>2, <1>3, <1>4, <1>5, SavedMoneyType

LEMMA LesserType ==
  ASSUME NEW a \in Int, NEW b \in Int
  PROVE  Lesser(a, b) \in {a, b} /\ Lesser(a, b) <= a /\ Lesser(a, b) <= b
BY DEF Lesser

LEMMA HandlerMoneyType ==
  ASSUME SeatingInv, MoneyType, Handler
  PROVE  MoneyType'
<1>0. SeatingShape /\ qTop \in MoneyOK /\ qRem \in MoneyOK
  BY DEF SeatingInv, MoneyType
<1>1. ASSUME NEW u \in Users, NEW i \in Seats, NEW c \in BuyIns, Sit(u, i, c)
      PROVE  MoneyType'
  <2>1. c \in Nat /\ Chips(c) \in Nat
    BY AmountsAssumption, AmountType
  <2> DEFINE chips == Chips(c)
  <2>2. /\ stack' = [stack EXCEPT ![u] = chips] /\ bought' = [bought EXCEPT ![u] = dbBought[u] + c]
        /\ left' = [left EXCEPT ![u] = dbLeft[u]]
        /\ ledgerIn' = [ledgerIn EXCEPT ![u] = @ + c] /\ ledgerOut' = ledgerOut
        /\ qTop' = qTop /\ qRem' = qRem /\ SaveRows({u})
    BY <1>1 DEF Sit, LedgerIn, flagVars
  <2>3. chips \in Nat
    BY <2>1
  <2> HIDE DEF chips
  <2>4. stack' \in MoneyOK /\ bought' \in MoneyOK /\ left' \in MoneyOK
    BY <2>1, <2>2, <2>3 DEF MoneyType, MoneyOK
  <2>5. ledgerIn' \in MoneyOK /\ ledgerOut' \in MoneyOK
    BY <2>1, <2>2 DEF MoneyType, MoneyOK
  <2>6. QED
    BY <1>0, <2>2, <2>4, <2>5, SavedMoneyType
<1>2. ASSUME NEW u \in Users, NEW c \in Changes, TopUp(u, c)
      PROVE  MoneyType'
  <2>1. c \in Nat /\ Chips(c) \in Nat
    BY AmountsAssumption, AmountType
  <2>2. CASE DealtIn(u)
    <3>1. /\ qTop' = [qTop EXCEPT ![u] = @ + c] /\ qRem' = qRem
          /\ UNCHANGED <<stack, bought, left, dbStack, dbBought, dbLeft, ledgerIn, ledgerOut>>
      BY <1>2, <2>2 DEF TopUp, moneyVars, rowVars, ledger
    <3>2. qTop' \in MoneyOK
      BY <1>0, <2>1, <3>1 DEF MoneyOK
    <3>3. QED
      BY <1>0, <3>1, <3>2, SameMoneyType
  <2>3. CASE ~DealtIn(u)
    <3>1. BringIn(u, c, Chips(c)) /\ qTop' = qTop /\ qRem' = qRem
      BY <1>2, <2>3 DEF TopUp
    <3>2. QED
      BY <1>0, <2>1, <3>1, BringInMoneyType
  <2>4. QED
    BY <2>2, <2>3
<1>3. ASSUME NEW u \in Users, NEW c \in Changes, TakeOff(u, c)
      PROVE  MoneyType'
  <2>1. c \in Nat /\ Chips(c) \in Nat /\ stack[u] \in Nat
    BY AmountsAssumption, AmountType DEF MoneyType, MoneyOK
  <2>2. CASE DealtIn(u)
    <3>1. /\ qRem' = [qRem EXCEPT ![u] = c] /\ qTop' = [qTop EXCEPT ![u] = 0]
          /\ UNCHANGED <<stack, bought, left, dbStack, dbBought, dbLeft, ledgerIn, ledgerOut>>
      BY <1>3, <2>2 DEF TakeOff, moneyVars, rowVars, ledger
    <3>2. qRem' \in MoneyOK /\ qTop' \in MoneyOK
      BY <1>0, <2>1, <3>1 DEF MoneyOK
    <3>3. QED
      BY <3>1, <3>2, SameMoneyType
  <2>3. CASE ~DealtIn(u)
    <3> DEFINE moved == Lesser(Chips(c), stack[u])
    <3>1. TakeOut(u, c, moved) /\ qTop' = qTop /\ qRem' = qRem
      BY <1>3, <2>3 DEF TakeOff
    <3>2. moved \in Nat /\ moved <= stack[u]
      BY <2>1, LesserType
    <3> HIDE DEF moved
    <3>3. QED
      BY <1>0, <2>1, <3>1, <3>2, TakeOutMoneyType
  <2>4. QED
    BY <2>2, <2>3
<1>4. ASSUME NEW u \in Users,
             \/ (\E i \in Seats : Move(u, i)) \/ Defer(u) \/ \E on \in BOOLEAN : SitOut(u, on)
      PROVE  MoneyType'
  <2>1. UNCHANGED <<stack, bought, left, ledgerIn, ledgerOut, qTop, qRem>> /\ SaveRows({u})
    BY <1>4 DEF Move, Defer, SitOut, moneyVars, flagVars, ledger
  <2>2. QED
    BY <2>1, SavedMoneyType DEF MoneyType
<1>5. ASSUME NEW u \in Users, Leave(u) \/ LeaveNow(u) \/ CancelLeave(u) \/ Kick(u)
      PROVE  MoneyType'
  <2>1. \/ CashOut(SeatOf(u)) \/ Defer(u)
        \/ UNCHANGED <<stack, bought, left, dbStack, dbBought, dbLeft, ledgerIn, ledgerOut, qTop, qRem>>
    BY <1>5 DEF Leave, LeaveNow, CancelLeave, Kick, moneyVars, dbVars, rowVars, ledger
  <2>2. SeatOf(u) \in Occupied
    BY <1>0, <1>5, SeatOfSeated DEF Leave, LeaveNow, CancelLeave, Kick
  <2>3. QED
    BY <1>0, <1>4, <2>1, <2>2, CashOutMoneyType, SameMoneyType
<1>6. ASSUME NEW u \in Users, TimedOut(u)
      PROVE  MoneyType'
  <2>1. PersistSafe(owed) /\ UNCHANGED <<stack, bought, left, ledger, qTop, qRem>>
    BY <1>6 DEF TimedOut, moneyVars
  <2>2. stack' \in MoneyOK
    BY <2>1 DEF MoneyType
  <2>3. QED
    BY <2>1, <2>2, PersistMoneyType
<1>7. ASSUME \/ \E u \in Users : SitOutNext(u) \/ TransferHost(u)
             \/ \E on \in BOOLEAN : SetRunning(on)
      PROVE  MoneyType'
  <2>1. UNCHANGED <<stack, bought, left, dbStack, dbBought, dbLeft, ledgerIn, ledgerOut, qTop, qRem>>
    BY <1>7 DEF SitOutNext, TransferHost, SetRunning, moneyVars, flagVars, dbVars, rowVars, ledger
  <2>2. QED
    BY <1>0, <2>1, SameMoneyType
<1>8. ASSUME Close
      PROVE  MoneyType'
  <2> DEFINE share(u) == ClosingShare[SeatOf(u)]
  <2>1. \A u \in Seated : share(u) \in Nat
    BY <1>0, SeatOfSeated, ClosingShareType DEF Occupied
  <2>2. /\ left' = [u \in Users |-> IF u \in Seated THEN left[u] + share(u) ELSE left[u]]
        /\ ledgerOut' = [u \in Users |-> IF u \in Seated THEN ledgerOut[u] + share(u) ELSE ledgerOut[u]]
        /\ stack' = [u \in Users |-> 0] /\ qTop' = [u \in Users |-> 0] /\ qRem' = qTop'
        /\ bought' = bought /\ ledgerIn' = ledgerIn /\ SaveRows(Seated)
    BY <1>8 DEF Close
  <2> HIDE DEF share
  <2>3. left' \in MoneyOK /\ ledgerOut' \in MoneyOK
    BY <2>1, <2>2 DEF MoneyType, MoneyOK
  <2>4. /\ stack' \in MoneyOK /\ qTop' \in MoneyOK /\ qRem' \in MoneyOK
    BY <2>2 DEF MoneyOK
  <2>5. bought' \in MoneyOK /\ ledgerIn' \in MoneyOK
    BY <2>2 DEF MoneyType
  <2>6. QED
    BY <2>2, <2>3, <2>4, <2>5, SavedMoneyType
<1>9. QED
  BY <1>1, <1>2, <1>3, <1>4, <1>5, <1>6, <1>7, <1>8 DEF Handler

LEMMA EndHandMoneyType ==
  ASSUME SeatingInv, MoneyType, EndHand
  PROVE  MoneyType'
<1>1. PICK d \in Payouts :
        /\ stack' = [u \in Users |-> IF u \in Seated /\ SeatOf(u) \in DealtSeats
                                     THEN start[SeatOf(u)] + d[SeatOf(u)] ELSE stack[u]]
        /\ UNCHANGED <<bought, left, ledger, qTop, qRem>>
        /\ PersistSafe(owed \cup {Record(d)})
  BY DEF EndHand
<1>2. ASSUME NEW u \in Users
      PROVE  (IF u \in Seated /\ SeatOf(u) \in DealtSeats
              THEN start[SeatOf(u)] + d[SeatOf(u)] ELSE stack[u]) \in Nat
  <2>1. stack[u] \in Nat
    BY DEF MoneyType, MoneyOK
  <2>2. ASSUME NEW i \in DealtSeats PROVE start[i] + d[i] \in Nat
    <3>1. d[i] \in Int /\ start[i] + d[i] >= 0
      BY BoundsAssumption DEF Payouts
    <3>2. start[i] = stack[dealt[i]] /\ dealt[i] \in Users
      BY DEF DealtSeats, EndHand, SeatingInv, SeatingShape, CardsKeepTheirSeat, HandBusy
    <3>3. start[i] \in Int
      BY <3>2 DEF MoneyType, MoneyOK
    <3>4. QED
      BY <3>1, <3>3
  <2>3. QED
    BY <2>1, <2>2
<1>3. stack' \in MoneyOK
  <2> DEFINE f(u) == IF u \in Seated /\ SeatOf(u) \in DealtSeats
                     THEN start[SeatOf(u)] + d[SeatOf(u)] ELSE stack[u]
  <2>1. stack' = [u \in Users |-> f(u)] /\ \A u \in Users : f(u) \in Nat
    BY <1>1, <1>2
  <2> HIDE DEF f
  <2>2. QED
    BY <2>1 DEF MoneyOK
<1>4. QED
  BY <1>1, <1>3, PersistMoneyType

\* The seat a loop of the work between hands has come to
LEMMA LandingSeat ==
  ASSUME SeatingInv, NEW k \in Stages
  PROVE  /\ WithdrawalStep(k) => First(Queued(qRem, k)) \in Occupied
         /\ TopUpStep(k) => First(Queued(qTop, k)) \in Occupied
<1>1. CASE WithdrawalStep(k)
  <2>1. Queued(qRem, k) \in SUBSET Seats /\ Queued(qRem, k) # {} /\ Queued(qRem, k) \subseteq Occupied
    BY <1>1, StageOfJob DEF WithdrawalStep, SeatingInv, Queued, Occupied
  <2>2. First(Queued(qRem, k)) \in Occupied
    BY <2>1, FirstIsMember
  <2>3. ~TopUpStep(k)
    BY <1>1 DEF WithdrawalStep, TopUpStep, At
  <2>4. QED
    BY <2>2, <2>3
<1>2. CASE TopUpStep(k)
  <2>1. Queued(qTop, k) \in SUBSET Seats /\ Queued(qTop, k) # {} /\ Queued(qTop, k) \subseteq Occupied
    BY <1>2, StageOfJob DEF TopUpStep, SeatingInv, Queued, Occupied
  <2>2. First(Queued(qTop, k)) \in Occupied
    BY <2>1, FirstIsMember
  <2>3. ~WithdrawalStep(k)
    BY <1>2 DEF WithdrawalStep, TopUpStep, At
  <2>4. QED
    BY <2>2, <2>3
<1>3. QED
  BY <1>1, <1>2

\* What a landing writes to the row alone, when its loop is detached
LEMMA LandRowMoneyType ==
  ASSUME MoneyType, NEW u \in Users, NEW inC \in Nat, NEW outC \in Nat, NEW moved \in Int,
         stack[u] + moved \in Nat, LandRow(u, inC, outC, moved),
         ledgerIn' \in MoneyOK, ledgerOut' \in MoneyOK, qTop' \in MoneyOK, qRem' \in MoneyOK
  PROVE  MoneyType'
<1>1. /\ dbStack' = [dbStack EXCEPT ![u] = stack[u] + moved]
      /\ dbBought' = [dbBought EXCEPT ![u] = bought[u] + inC]
      /\ dbLeft' = [dbLeft EXCEPT ![u] = left[u] + outC]
      /\ UNCHANGED <<stack, bought, left>>
  BY DEF LandRow, moneyVars
<1>2. dbStack' \in MoneyOK /\ dbBought' \in MoneyOK /\ dbLeft' \in MoneyOK
  BY <1>1 DEF MoneyType, MoneyOK
<1>3. stack' \in MoneyOK /\ bought' \in MoneyOK /\ left' \in MoneyOK
  BY <1>1 DEF MoneyType
<1>4. QED
  BY <1>2, <1>3 DEF MoneyType, MoneyOK

LEMMA WithdrawalMoneyType ==
  ASSUME SeatingInv, MoneyType, NEW k \in Stages, WithdrawalStep(k)
  PROVE  MoneyType'
<1> DEFINE i == First(Queued(qRem, k))
           u == occ[i]
           c == Lesser(qRem[u], Cents(stack[u]) - Keep)
           moved == Lesser(Chips(c), stack[u])
<1>1. u \in Users
  BY LandingSeat DEF Occupied, SeatingInv, SeatingShape
<1>2. stack[u] \in Nat /\ qRem[u] \in Nat /\ qRem \in MoneyOK /\ qTop \in MoneyOK
      /\ ledgerIn \in MoneyOK /\ ledgerOut \in MoneyOK
  BY <1>1 DEF MoneyType, MoneyOK
<1>3. c \in Int
  <2>1. Cents(stack[u]) \in Int /\ Keep \in Int
    BY <1>2, AmountType, AntesType
  <2>2. QED
    BY <1>2, <2>1, LesserType
<1>4. qTop' = qTop /\ (qRem' = qRem \/ qRem' = [qRem EXCEPT ![u] = 0])
  BY DEF WithdrawalStep
<1>5. qTop' \in MoneyOK /\ qRem' \in MoneyOK
  BY <1>1, <1>2, <1>4 DEF MoneyOK
<1>6. CASE LandNothing(k, i) \/ LandFails(k, i)
  <2>1. UNCHANGED <<stack, bought, left, dbStack, dbBought, dbLeft, ledgerIn, ledgerOut>>
    BY <1>6 DEF LandNothing, LandFails, moneyVars, rowVars, ledger
  <2>2. QED
    BY <1>5, <2>1, SameMoneyType
<1>7. CASE /\ c >= BBCents
           /\ \/ LandRow(u, 0, c, -moved) /\ LedgerOut(u, c)
              \/ TakeOut(u, c, moved)
  <2>1. c \in Nat
    BY <1>3, <1>7, AntesType, StakesAssumption
  <2>2. Chips(c) \in Nat
    BY <2>1, AmountType
  <2>3. moved \in Nat /\ moved <= stack[u] /\ -moved \in Int /\ stack[u] + (-moved) \in Nat
    BY <1>2, <2>2, LesserType
  <2> HIDE DEF moved, c, u, i
  <2>4. CASE TakeOut(u, c, moved)
    BY <1>1, <1>5, <2>1, <2>3, <2>4, TakeOutMoneyType
  <2>5. CASE LandRow(u, 0, c, -moved) /\ LedgerOut(u, c)
    <3>1. ledgerOut' \in MoneyOK /\ ledgerIn' \in MoneyOK
      BY <1>1, <1>2, <2>1, <2>5 DEF LedgerOut, MoneyOK
    <3>2. 0 \in Nat
      OBVIOUS
    <3> DEFINE less == -moved
    <3>3. less \in Int /\ stack[u] + less \in Nat /\ LandRow(u, 0, c, less)
      BY <2>3, <2>5
    <3> HIDE DEF less
    <3>4. QED
      BY <1>1, <1>5, <2>1, <3>1, <3>2, <3>3, LandRowMoneyType
  <2>6. QED
    BY <1>7, <2>4, <2>5
<1>8. QED
  BY <1>6, <1>7 DEF WithdrawalStep

LEMMA TopUpStepMoneyType ==
  ASSUME SeatingInv, MoneyType, NEW k \in Stages, TopUpStep(k)
  PROVE  MoneyType'
<1> DEFINE i == First(Queued(qTop, k))
           u == occ[i]
           c == IF MaxBuyin > 0 THEN Lesser(qTop[u], Room(u)) ELSE qTop[u]
           moved == Chips(c)
<1>1. u \in Users
  BY LandingSeat DEF Occupied, SeatingInv, SeatingShape
<1>2. stack[u] \in Nat /\ qTop[u] \in Nat /\ qRem \in MoneyOK /\ qTop \in MoneyOK
      /\ ledgerIn \in MoneyOK /\ ledgerOut \in MoneyOK
  BY <1>1 DEF MoneyType, MoneyOK
<1>3. c \in Int
  <2>1. Cents(stack[u]) \in Int /\ MaxBuyin \in Int
    BY <1>2, AmountType, AmountsAssumption
  <2>2. Room(u) \in Int
    BY <2>1 DEF Room
  <2>3. QED
    BY <1>2, <2>2, LesserType
<1>4. qRem' = qRem /\ (qTop' = qTop \/ qTop' = [qTop EXCEPT ![u] = 0])
  BY DEF TopUpStep
<1>5. qTop' \in MoneyOK /\ qRem' \in MoneyOK
  BY <1>1, <1>2, <1>4 DEF MoneyOK
<1>6. CASE LandNothing(k, i) \/ LandFails(k, i)
  <2>1. UNCHANGED <<stack, bought, left, dbStack, dbBought, dbLeft, ledgerIn, ledgerOut>>
    BY <1>6 DEF LandNothing, LandFails, moneyVars, rowVars, ledger
  <2>2. QED
    BY <1>5, <2>1, SameMoneyType
<1>7. CASE /\ c >= 1
           /\ \/ LandRow(u, c, 0, moved) /\ LedgerIn(u, c)
              \/ BringIn(u, c, moved)
  <2>1. c \in Nat
    BY <1>3, <1>7
  <2>2. moved \in Nat
    BY <2>1, AmountType
  <2> HIDE DEF moved, c, u, i
  <2>3. CASE BringIn(u, c, moved)
    BY <1>1, <1>5, <2>1, <2>2, <2>3, BringInMoneyType
  <2>4. CASE LandRow(u, c, 0, moved) /\ LedgerIn(u, c)
    <3>1. ledgerOut' \in MoneyOK /\ ledgerIn' \in MoneyOK
      BY <1>1, <1>2, <2>1, <2>4 DEF LedgerIn, MoneyOK
    <3>2. 0 \in Nat /\ moved \in Int /\ stack[u] + moved \in Nat
      BY <1>2, <2>2
    <3>3. QED
      BY <1>1, <1>5, <2>1, <2>4, <3>1, <3>2, LandRowMoneyType
  <2>5. QED
    BY <1>7, <2>3, <2>4
<1>8. QED
  BY <1>6, <1>7 DEF TopUpStep

\* The amounts of an automatic change of the stacks
LEMMA AutoType ==
  ASSUME MoneyType, NEW u \in Users
  PROVE  AutoIn(u) \in Nat /\ AutoOut(u) \in Nat
<1>1. stack[u] \in Nat /\ bought[u] \in Nat /\ MaxCents \in Nat
  BY AmountsAssumption DEF MoneyType, MoneyOK
<1>2. AutoCents \in Nat
  BY AmountsAssumption DEF AutoCents, Lesser
<1>3. AutoThreshold \in Nat /\ AutoThreshold <= AutoCents
  BY <1>2, AmountsAssumption DEF AutoThreshold, Lesser
<1>4. Cents(stack[u]) \in Nat /\ Chips(AutoCents) \in Nat
  BY <1>1, <1>2, AmountType
<1> DEFINE room == Chips(AutoCents) - stack[u]
           over == stack[u] - Chips(AutoCents)
<1>5. room \in Int /\ over \in Int
  BY <1>1, <1>4
<1>6. room > 0 => Cents(room) \in Nat
  BY <1>5, AmountType
<1>7. over > 0 => Cents(over) \in Nat
  BY <1>5, AmountType
<1>8. Cents(stack[u]) < AutoThreshold => AutoCents - Cents(stack[u]) \in Nat
  BY <1>2, <1>3, <1>4
<1>9. Chips(AutoCents) > stack[u] => room > 0
  BY <1>1, <1>4
<1>10. Chips(AutoCents) < stack[u] => over > 0
  BY <1>1, <1>4
<1>11. AutoIn(u) \in Nat
  <2> DEFINE small == AutoMode = "topup" /\ Cents(stack[u]) < AutoThreshold
             short == /\ AutoMode = "set" /\ Chips(AutoCents) > AnteChips
                      /\ Chips(AutoCents) > stack[u]
             add == CASE small -> AutoCents - Cents(stack[u])
                      [] short -> Cents(room)
                      [] OTHER -> 0
  <2>1. AutoIn(u) = IF bought[u] + add <= MaxCents THEN add ELSE 0
    BY DEF AutoIn
  <2>2. small => add = AutoCents - Cents(stack[u])
    OBVIOUS
  <2>3. ~(small /\ short)
    OBVIOUS
  <2>4. short => add = Cents(room)
    BY <2>3
  <2>5. ~small /\ ~short => add = 0
    OBVIOUS
  <2>6. small => add \in Nat
    BY <1>8, <2>2
  <2>7. short => add \in Nat
    BY <1>6, <1>9, <2>4
  <2> HIDE DEF add, small, short
  <2>8. QED
    BY <2>1, <2>5, <2>6, <2>7
<1>12. AutoOut(u) \in Nat
  BY <1>7, <1>10 DEF AutoOut
<1>13. QED
  BY <1>11, <1>12

LEMMA AutoMoneyType ==
  ASSUME SeatingInv, MoneyType, NEW k \in Stages, AutoStep(k)
  PROVE  MoneyType'
<1>1. CASE AutoFails
  <2>1. UNCHANGED <<stack, bought, left, dbStack, dbBought, dbLeft, ledgerIn, ledgerOut, qTop, qRem>>
    BY <1>1 DEF AutoFails, unchangedButPass, moneyVars, flagVars, dbVars, rowVars, ledger
  <2>2. QED
    BY <2>1, SameMoneyType DEF MoneyType
<1>2. CASE ~AutoFails
  <2> DEFINE more(u) == Chips(AutoIn(u))
             less(u) == Lesser(Chips(AutoOut(u)), stack[u])
             in(u) == AutoIn(u)
             out(u) == AutoOut(u)
  <2>1. ASSUME NEW u \in Users
        PROVE  /\ more(u) \in Nat /\ less(u) \in Nat /\ less(u) <= stack[u] /\ stack[u] \in Nat
               /\ in(u) \in Nat /\ out(u) \in Nat
    <3>1. in(u) \in Nat /\ out(u) \in Nat
      BY AutoType
    <3>2. stack[u] \in Nat
      BY DEF MoneyType, MoneyOK
    <3>3. more(u) \in Nat /\ Chips(AutoOut(u)) \in Nat
      BY <3>1, AmountType
    <3>4. QED
      BY <3>1, <3>2, <3>3, LesserType
  <2>2. /\ stack' = [u \in Users |-> IF Playing(u) THEN stack[u] + more(u) - less(u) ELSE stack[u]]
        /\ bought' = [u \in Users |-> IF Playing(u) THEN bought[u] + in(u) ELSE bought[u]]
        /\ left' = [u \in Users |-> IF Playing(u) THEN left[u] + out(u) ELSE left[u]]
        /\ ledgerIn' = [u \in Users |-> IF Playing(u) THEN ledgerIn[u] + in(u) ELSE ledgerIn[u]]
        /\ ledgerOut' = [u \in Users |-> IF Playing(u) THEN ledgerOut[u] + out(u) ELSE ledgerOut[u]]
        /\ qTop' = qTop /\ qRem' = qRem /\ SaveRows(Seated)
    BY <1>2 DEF AutoStep, IfPlaying, flagVars
  <2> HIDE DEF more, less, in, out
  <2>3. ASSUME NEW u \in Users
        PROVE  (IF Playing(u) THEN stack[u] + more(u) - less(u) ELSE stack[u]) \in Nat
    BY <2>1
  <2>4. stack' \in MoneyOK
    BY <2>2, <2>3 DEF MoneyOK
  <2>5. bought' \in MoneyOK /\ left' \in MoneyOK
    BY <2>1, <2>2 DEF MoneyType, MoneyOK
  <2>6. ledgerIn' \in MoneyOK /\ ledgerOut' \in MoneyOK
    BY <2>1, <2>2 DEF MoneyType, MoneyOK
  <2>7. qTop' \in MoneyOK /\ qRem' \in MoneyOK
    BY <2>2 DEF MoneyType
  <2>8. QED
    BY <2>2, <2>4, <2>5, <2>6, <2>7, SavedMoneyType
<1>3. QED
  BY <1>1, <1>2

LEMMA PassMoneyType ==
  ASSUME SeatingInv, MoneyType, PassStep
  PROVE  MoneyType'
<1>0. SeatingShape /\ qTop \in MoneyOK /\ qRem \in MoneyOK /\ stack \in MoneyOK
  BY DEF SeatingInv, MoneyType
<1>1. ASSUME UNCHANGED <<stack, bought, left, dbStack, dbBought, dbLeft, ledgerIn, ledgerOut, qTop, qRem>>
      PROVE  MoneyType'
  BY <1>0, <1>1, SameMoneyType
<1>2. ASSUME NEW k \in Stages, LeaveStep(k)
      PROVE  MoneyType'
  <2>1. Leavers(k) \in SUBSET Seats /\ Leavers(k) # {} /\ Leavers(k) \subseteq Occupied
    BY <1>2, StageOfJob DEF LeaveStep, SeatingInv, Leavers, Occupied
  <2>2. First(Leavers(k)) \in Occupied
    BY <2>1, FirstIsMember
  <2>3. \/ CashOut(First(Leavers(k)))
        \/ UNCHANGED <<stack, bought, left, dbStack, dbBought, dbLeft, ledgerIn, ledgerOut, qTop, qRem>>
    BY <1>2 DEF LeaveStep, unchangedButPass, moneyVars, flagVars, dbVars, rowVars, ledger
  <2>4. QED
    BY <1>0, <1>1, <2>2, <2>3, CashOutMoneyType
<1>3. ASSUME NEW k \in Stages, NEW u \in Users, KickStep(k, u)
      PROVE  MoneyType'
  <2>1. \/ u \in Seated /\ CashOut(SeatOf(u))
        \/ UNCHANGED <<stack, bought, left, dbStack, dbBought, dbLeft, ledgerIn, ledgerOut, qTop, qRem>>
    BY <1>3 DEF KickStep, unchangedButPass, moneyVars, flagVars, dbVars, rowVars, ledger
  <2>2. u \in Seated => SeatOf(u) \in Occupied
    BY <1>0, SeatOfSeated
  <2>3. QED
    BY <1>0, <1>1, <2>1, <2>2, CashOutMoneyType
<1>4. ASSUME NEW k \in Stages, DealStep(k) \/ PersistStep(k) \/ SettleDone(k)
      PROVE  MoneyType'
  <2>1. CASE PersistSafe(owed) /\ UNCHANGED <<stack, bought, left, ledger, qTop, qRem>>
    BY <1>0, <2>1, PersistMoneyType
  <2>2. QED
    BY <1>1, <1>4, <2>1
       DEF DealStep, PersistStep, SettleDone, unchangedButPass, moneyVars, flagVars, dbVars, rowVars, ledger
<1>5. QED
  BY <1>2, <1>3, <1>4, WithdrawalMoneyType, TopUpStepMoneyType, AutoMoneyType DEF PassStep

LEMMA StepMoneyType ==
  ASSUME SeatingInv, MoneyType, [Next]_vars
  PROVE  MoneyType'
<1>1. CASE RunoutOver \/ StartTick \/ StartView \/ StartDeal \/ UNCHANGED vars
  <2>1. UNCHANGED <<stack, bought, left, dbStack, dbBought, dbLeft, ledgerIn, ledgerOut, qTop, qRem>>
    BY <1>1 DEF RunoutOver, StartTick, StartView, StartDeal, vars, moneyVars, flagVars, dbVars, rowVars, ledger
  <2>2. QED
    BY <2>1, SameMoneyType DEF MoneyType
<1>2. CASE Restart
  <2>1. /\ stack' = dbStack /\ bought' = dbBought /\ left' = dbLeft
        /\ UNCHANGED <<dbStack, dbBought, dbLeft, ledgerIn, ledgerOut>>
        /\ qTop' = [u \in Users |-> 0] /\ qRem' = qTop'
    BY <1>2 DEF Restart, dbVars, rowVars, ledger
  <2>2. qTop' \in MoneyOK /\ qRem' \in MoneyOK
    BY <2>1 DEF MoneyOK
  <2>3. QED
    BY <2>1, <2>2 DEF MoneyType, MoneyOK
<1>3. QED
  BY <1>1, <1>2, HandlerMoneyType, EndHandMoneyType, PassMoneyType DEF Next

-----------------------------------------------------------------------------
(* The flags of the players, the table's own row, the counters *)

FlagType ==
  /\ away \in [Users -> BOOLEAN] /\ dbAway \in [Users -> BOOLEAN]
  /\ sitNext \subseteq Users /\ leaving \subseteq Users
  /\ sitNext # {} => phase = "in_hand"
  /\ dbSeat \in [Users -> Seats \cup {NoSeat}]
  /\ start \in [Seats -> Int]
  /\ dirty \in BOOLEAN

MetaType ==
  /\ meta \in [status: {"open", "closed"}, running: BOOLEAN, host: Users, handNo: 0 .. MaxHands]
  /\ dbMeta \in [status: {"open", "closed"}, host: Users, handNo: 0 .. MaxHands]

CountersType ==
  /\ faults \in 0 .. MaxFaults /\ restarts \in 0 .. MaxRestarts
  /\ pass.stage \in Stages

\* Rows saved from memory
LEMMA SavedFlagType ==
  ASSUME FlagType, NEW S, SaveRows(S), away' \in [Users -> BOOLEAN]
  PROVE  dbAway' \in [Users -> BOOLEAN] /\ dbSeat' \in [Users -> Seats \cup {NoSeat}]
<1>1. dbAway' \in [Users -> BOOLEAN]
  BY DEF FlagType, SaveRows
<1>2. \A u \in Users : SeatIn(occ', u) \in Seats \cup {NoSeat}
  BY DEF SeatIn
<1>3. dbSeat' \in [Users -> Seats \cup {NoSeat}]
  BY <1>2 DEF FlagType, SaveRows
<1>4. QED
  BY <1>1, <1>3

LEMMA PersistFlagType ==
  ASSUME FlagType, NEW toSave, PersistSafe(toSave), away' \in [Users -> BOOLEAN]
  PROVE  /\ dbAway' \in [Users -> BOOLEAN] /\ dbSeat' \in [Users -> Seats \cup {NoSeat}]
         /\ dirty' \in BOOLEAN
<1>1. CASE SaveRows({u \in Users : \E i \in Seats : occ'[i] = u}) /\ dirty' = FALSE
  BY <1>1, SavedFlagType
<1>2. CASE UNCHANGED rowVars /\ dirty' = TRUE
  BY <1>2 DEF FlagType, rowVars
<1>3. QED
  BY <1>1, <1>2 DEF PersistSafe

\* A step of one transaction that may change one player's flags
LEMMA RowFlagType ==
  ASSUME FlagType, NEW S, SaveRows(S) \/ UNCHANGED rowVars,
         away' \in [Users -> BOOLEAN], sitNext' \subseteq sitNext, leaving' \subseteq Users,
         UNCHANGED <<phase, start, dirty>>
  PROVE  FlagType'
<1>1. dbAway' \in [Users -> BOOLEAN] /\ dbSeat' \in [Users -> Seats \cup {NoSeat}]
  BY SavedFlagType DEF FlagType, rowVars
<1>2. QED
  BY <1>1 DEF FlagType

LEMMA CashOutFlagType ==
  ASSUME FlagType, NEW i, CashOut(i)
  PROVE  FlagType'
<1> DEFINE u == occ[i]
<1>1. /\ away' = [away EXCEPT ![u] = FALSE] /\ sitNext' = sitNext \ {u} /\ leaving' = leaving \ {u}
      /\ SaveRows({u}) /\ UNCHANGED <<phase, start, dirty>>
  BY DEF CashOut, handVars, saveVars
<1> HIDE DEF u
<1>2. away' \in [Users -> BOOLEAN] /\ sitNext' \subseteq sitNext /\ leaving' \subseteq Users
  BY <1>1 DEF FlagType
<1>3. QED
  BY <1>1, <1>2, RowFlagType

LEMMA HandlerFlagType ==
  ASSUME SeatingInv, FlagType, Handler
  PROVE  FlagType'
<1>1. ASSUME NEW S, SaveRows(S) \/ UNCHANGED rowVars, UNCHANGED <<away, sitNext, leaving, phase, start, dirty>>
      PROVE  FlagType'
  BY <1>1, RowFlagType DEF FlagType
<1>2. ASSUME NEW u \in Users, NEW i \in Seats, NEW c \in BuyIns, Sit(u, i, c) PROVE FlagType'
  BY <1>1, <1>2 DEF Sit, flagVars, handVars, saveVars
<1>3. ASSUME NEW u \in Users, NEW c \in Changes, TopUp(u, c) \/ TakeOff(u, c) PROVE FlagType'
  BY <1>1, <1>3 DEF TopUp, TakeOff, BringIn, TakeOut, handVars, saveVars
<1>4. ASSUME NEW u \in Users, NEW i \in Seats, Move(u, i) PROVE FlagType'
  BY <1>1, <1>4 DEF Move, flagVars, handVars, saveVars
<1>5. ASSUME NEW u \in Users, NEW on \in BOOLEAN, away' = [away EXCEPT ![u] = on], SaveRows({u}),
             sitNext' \in {sitNext, sitNext \ {u}}, UNCHANGED <<leaving, phase, start, dirty>>
      PROVE  FlagType'
  <2>1. away' \in [Users -> BOOLEAN] /\ sitNext' \subseteq sitNext /\ leaving' \subseteq Users
    BY <1>5 DEF FlagType
  <2>2. QED
    BY <1>5, <2>1, RowFlagType
<1>6. ASSUME NEW u \in Users, Defer(u) PROVE FlagType'
  <2>1. /\ away' = [away EXCEPT ![u] = TRUE] /\ SaveRows({u}) /\ sitNext' = sitNext
        /\ UNCHANGED <<leaving, phase, start, dirty>>
    BY <1>6 DEF Defer, handVars, saveVars
  <2>2. QED
    BY <1>5, <2>1
<1>7. ASSUME NEW u \in Users, NEW on \in BOOLEAN, SitOut(u, on) PROVE FlagType'
  BY <1>5, <1>7 DEF SitOut, handVars, saveVars
<1>8. ASSUME NEW u \in Users, Leave(u) \/ LeaveNow(u) \/ CancelLeave(u) \/ Kick(u) PROVE FlagType'
  <2>1. \/ CashOut(SeatOf(u)) \/ Defer(u)
        \/ /\ leaving' \in {leaving \cup {u}, leaving \ {u}} /\ sitNext' \subseteq sitNext
           /\ UNCHANGED <<away, phase, start, dirty, rowVars>>
    BY <1>8 DEF Leave, LeaveNow, CancelLeave, Kick, handVars, saveVars, dbVars
  <2>2. ASSUME /\ leaving' \in {leaving \cup {u}, leaving \ {u}} /\ sitNext' \subseteq sitNext
               /\ UNCHANGED <<away, phase, start, dirty, rowVars>>
        PROVE  FlagType'
    BY <2>2, RowFlagType DEF FlagType
  <2>3. QED
    BY <1>6, <2>1, <2>2, CashOutFlagType
<1>9. ASSUME NEW u \in Users, SitOutNext(u) PROVE FlagType'
  <2>1. /\ sitNext' = sitNext \cup {u} /\ phase' = "in_hand"
        /\ UNCHANGED <<away, leaving, start, dirty, dbAway, dbSeat>>
    BY <1>9 DEF SitOutNext, HoldsCards, handVars, saveVars, dbVars, rowVars
  <2>2. QED
    BY <2>1 DEF FlagType
<1>10. ASSUME NEW u \in Users, TransferHost(u) PROVE FlagType'
  BY <1>1, <1>10 DEF TransferHost, flagVars, handVars, saveVars
<1>11. ASSUME NEW on \in BOOLEAN, SetRunning(on) PROVE FlagType'
  BY <1>1, <1>11 DEF SetRunning, flagVars, handVars, saveVars
<1>12. ASSUME NEW u \in Users, TimedOut(u) PROVE FlagType'
  <2>1. /\ PersistSafe(owed) /\ away' = [away EXCEPT ![u] = TRUE] /\ sitNext' = sitNext \ {u}
        /\ UNCHANGED <<leaving, phase, start>>
    BY <1>12 DEF TimedOut, handVars
  <2>2. away' \in [Users -> BOOLEAN]
    BY <2>1 DEF FlagType
  <2>3. dbAway' \in [Users -> BOOLEAN] /\ dbSeat' \in [Users -> Seats \cup {NoSeat}] /\ dirty' \in BOOLEAN
    BY <2>1, <2>2, PersistFlagType
  <2>4. QED
    BY <2>1, <2>2, <2>3 DEF FlagType
<1>13. ASSUME Close PROVE FlagType'
  <2>1. /\ away' = [u \in Users |-> FALSE] /\ sitNext' = {} /\ leaving' = {} /\ SaveRows(Seated)
        /\ UNCHANGED <<phase, start, dirty>>
    BY <1>13 DEF Close, handVars, saveVars
  <2>2. away' \in [Users -> BOOLEAN]
    BY <2>1
  <2>3. QED
    BY <2>1, <2>2, RowFlagType
<1>14. QED
  BY <1>2, <1>3, <1>4, <1>7, <1>8, <1>9, <1>10, <1>11, <1>12, <1>13 DEF Handler

LEMMA EndHandFlagType ==
  ASSUME SeatingInv, FlagType, EndHand
  PROVE  FlagType'
<1>1. PICK d \in Payouts :
        /\ away' = [u \in Users |-> away[u] \/ u \in sitNext] /\ sitNext' = {} /\ leaving' = leaving
        /\ start' = start \/ start' = [i \in Seats |-> 0]
        /\ PersistSafe(owed \cup {Record(d)})
  BY DEF EndHand
<1>2. away' \in [Users -> BOOLEAN]
  BY <1>1
<1>3. dbAway' \in [Users -> BOOLEAN] /\ dbSeat' \in [Users -> Seats \cup {NoSeat}] /\ dirty' \in BOOLEAN
  BY <1>1, <1>2, PersistFlagType
<1>4. start' \in [Seats -> Int]
  BY <1>1 DEF FlagType
<1>5. QED
  BY <1>1, <1>2, <1>3, <1>4 DEF FlagType

LEMMA PassFlagType ==
  ASSUME SeatingInv, FlagType, MoneyType, PassStep
  PROVE  FlagType'
<1>1. ASSUME NEW S, SaveRows(S) \/ UNCHANGED rowVars, UNCHANGED <<away, sitNext, leaving, phase, start, dirty>>
      PROVE  FlagType'
  BY <1>1, RowFlagType DEF FlagType
<1>2. ASSUME NEW k \in Stages, LeaveStep(k) \/ \E u \in Users : KickStep(k, u) PROVE FlagType'
  <2>1. (\E i : CashOut(i)) \/ UNCHANGED <<away, sitNext, leaving, phase, start, dirty, rowVars>>
    BY <1>2 DEF LeaveStep, KickStep, unchangedButPass, flagVars, handVars, saveVars, dbVars
  <2>2. QED
    BY <1>1, <2>1, CashOutFlagType
<1>3. ASSUME NEW k \in Stages, WithdrawalStep(k) \/ TopUpStep(k) PROVE FlagType'
  <2>1. UNCHANGED <<away, sitNext, leaving, phase, start, dirty>>
    BY <1>3 DEF WithdrawalStep, TopUpStep, LandNothing, LandFails, LandRow, BringIn, TakeOut, handVars, saveVars
  <2>2. \/ UNCHANGED rowVars \/ \E u : SaveRows({u})
        \/ \E u \in Seated : \E inC, outC, moved : LandRow(u, inC, outC, moved)
    <3>1. CASE WithdrawalStep(k)
      <4>1. occ[First(Queued(qRem, k))] \in Seated
        BY <3>1, LandingSeat DEF Occupied, Seated, SeatingInv, SeatingShape
      <4>2. QED
        BY <3>1, <4>1 DEF WithdrawalStep, LandNothing, LandFails, TakeOut
    <3>2. CASE TopUpStep(k)
      <4>1. occ[First(Queued(qTop, k))] \in Seated
        BY <3>2, LandingSeat DEF Occupied, Seated, SeatingInv, SeatingShape
      <4>2. QED
        BY <3>2, <4>1 DEF TopUpStep, LandNothing, LandFails, BringIn
    <3>3. QED
      BY <1>3, <3>1, <3>2
  <2>3. ASSUME NEW u \in Seated, NEW inC, NEW outC, NEW moved, LandRow(u, inC, outC, moved) PROVE FlagType'
    <3>1. SeatOf(u) \in Seats /\ u \in Users
      BY SeatOfSeated DEF SeatingInv, Occupied
    <3>2. dbSeat' = [dbSeat EXCEPT ![u] = SeatOf(u)] /\ dbAway' = [dbAway EXCEPT ![u] = away[u]]
      BY <2>3 DEF LandRow
    <3>3. dbSeat' \in [Users -> Seats \cup {NoSeat}] /\ dbAway' \in [Users -> BOOLEAN]
      BY <3>1, <3>2 DEF FlagType
    <3>4. QED
      BY <2>1, <3>3 DEF FlagType
  <2>4. QED
    BY <1>1, <2>1, <2>2, <2>3
<1>4. ASSUME NEW k \in Stages, AutoStep(k) PROVE FlagType'
  <2>1. UNCHANGED <<away, sitNext, leaving, phase, start, dirty>> /\ (UNCHANGED rowVars \/ SaveRows(Seated))
    BY <1>4 DEF AutoStep, AutoFails, unchangedButPass, flagVars, handVars, saveVars, dbVars
  <2>2. QED
    BY <1>1, <2>1
<1>5. ASSUME NEW k \in Stages, DealStep(k) \/ PersistStep(k) \/ SettleDone(k) PROVE FlagType'
  <2>1. CASE UNCHANGED <<rowVars, away, sitNext, leaving, phase, start, dirty>>
    BY <1>1, <2>1
  <2>2. CASE /\ PersistSafe(owed) /\ UNCHANGED <<away, sitNext, leaving>>
             /\ phase' = phase \/ phase' = "in_hand"
             /\ start' = start \/ start' = [i \in Seats |-> IF i \in Eligible THEN stack[occ[i]] ELSE 0]
    <3>1. away' \in [Users -> BOOLEAN]
      BY <2>2 DEF FlagType
    <3>2. dbAway' \in [Users -> BOOLEAN] /\ dbSeat' \in [Users -> Seats \cup {NoSeat}] /\ dirty' \in BOOLEAN
      BY <2>2, <3>1, PersistFlagType
    <3>3. \A i \in Eligible : stack[occ[i]] \in Int
      BY DEF Eligible, Occupied, SeatingInv, SeatingShape, MoneyType, MoneyOK
    <3>4. start' \in [Seats -> Int]
      BY <2>2, <3>3 DEF FlagType
    <3>5. QED
      BY <2>2, <3>1, <3>2, <3>4 DEF FlagType
  <2>3. QED
    BY <1>5, <2>1, <2>2
       DEF DealStep, PersistStep, SettleDone, unchangedButPass, flagVars, handVars, saveVars, dbVars
<1>6. QED
  BY <1>2, <1>3, <1>4, <1>5 DEF PassStep

LEMMA StepFlagType ==
  ASSUME SeatingInv, FlagType, MoneyType, [Next]_vars
  PROVE  FlagType'
<1>1. CASE StartTick \/ StartView \/ StartDeal \/ UNCHANGED vars
  <2>1. UNCHANGED <<away, sitNext, leaving, phase, start, dirty, dbAway, dbSeat>>
    BY <1>1 DEF StartTick, StartView, StartDeal, vars, flagVars, handVars, saveVars, dbVars, rowVars
  <2>2. QED
    BY <2>1 DEF FlagType
<1>2. CASE RunoutOver
  <2>1. /\ UNCHANGED <<away, sitNext, leaving, dirty, dbAway, dbSeat>> /\ phase = "runout"
        /\ start' = [i \in Seats |-> 0]
    BY <1>2 DEF RunoutOver, flagVars, saveVars, dbVars, rowVars
  <2>2. QED
    BY <2>1 DEF FlagType
<1>3. CASE Restart
  <2>1. /\ away' = dbAway /\ sitNext' = {} /\ leaving' = {} /\ dirty' = FALSE
        /\ start' = [i \in Seats |-> 0] /\ UNCHANGED <<dbAway, dbSeat>>
        /\ phase' = "idle"
    BY <1>3 DEF Restart, dbVars, rowVars
  <2>2. away' \in [Users -> BOOLEAN] /\ dbAway' \in [Users -> BOOLEAN]
    <3>1. dbAway \in [Users -> BOOLEAN]
      BY DEF FlagType
    <3>2. away' = dbAway /\ dbAway' = dbAway
      BY <2>1
    <3>3. QED
      BY <3>1, <3>2, Zenon
  <2>3. dirty' \in BOOLEAN
    BY <2>1, Zenon
  <2>4. /\ sitNext' \subseteq Users /\ leaving' \subseteq Users
        /\ sitNext' # {} => phase' = "in_hand"
        /\ start' \in [Seats -> Int]
        /\ dbSeat' \in [Users -> Seats \cup {NoSeat}]
    BY <2>1 DEF FlagType
  <2>5. QED
    BY <2>2, <2>3, <2>4 DEF FlagType
<1>4. QED
  BY <1>1, <1>2, <1>3, HandlerFlagType, EndHandFlagType, PassFlagType DEF Next

\* A step that leaves the table's state as it is, or changes one thing of it
LEMMA SameMetaType ==
  ASSUME MetaType, dbMeta' = dbMeta \/ dbMeta' = Saved(meta'),
         \/ meta' = meta
         \/ \E h \in Users : meta' = [meta EXCEPT !.host = h]
         \/ \E on \in BOOLEAN : meta' = [meta EXCEPT !.running = on]
         \/ meta' = [meta EXCEPT !.status = "closed", !.running = FALSE]
         \/ meta' = [meta EXCEPT !.handNo = @ + 1] /\ meta.handNo < MaxHands
  PROVE  MetaType'
<1>1. meta' \in [status: {"open", "closed"}, running: BOOLEAN, host: Users, handNo: 0 .. MaxHands]
  <2>1. CASE meta' = [meta EXCEPT !.handNo = @ + 1] /\ meta.handNo < MaxHands
    <3> DEFINE n == meta.handNo + 1
    <3>1. meta' = [meta EXCEPT !.handNo = n] /\ n \in 0 .. MaxHands
      BY <2>1, BoundsAssumption DEF MetaType
    <3> HIDE DEF n
    <3>2. QED
      BY <3>1 DEF MetaType
  <2>2. QED
    BY <2>1 DEF MetaType
<1>2. QED
  BY <1>1 DEF MetaType, Saved

LEMMA CashOutMetaType ==
  ASSUME SeatingInv, MetaType, NEW i \in Occupied, CashOut(i)
  PROVE  MetaType'
<1> DEFINE rest == Occupied \ {i}
           next == First(rest)
<1>1. rest # {} => occ[next] \in Users
  <2>1. rest \in SUBSET Seats /\ rest \subseteq Occupied
    BY DEF Occupied
  <2>2. rest # {} => next \in Occupied
    BY <2>1, FirstIsMember
  <2>3. QED
    BY <2>2 DEF Occupied, SeatingInv, SeatingShape
<1>2. /\ meta' = IF meta.host = occ[i] /\ rest # {} THEN [meta EXCEPT !.host = occ[next]] ELSE meta
      /\ dbMeta' = dbMeta \/ dbMeta' = Saved(meta')
  BY DEF CashOut, First
<1> HIDE DEF rest, next
<1>3. QED
  BY <1>1, <1>2, SameMetaType

LEMMA PersistMetaType ==
  ASSUME MetaType, NEW toSave, PersistSafe(toSave),
         meta' = meta \/ (meta' = [meta EXCEPT !.handNo = @ + 1] /\ meta.handNo < MaxHands)
  PROVE  MetaType'
<1>1. dbMeta' = dbMeta \/ dbMeta' = Saved(meta')
  BY DEF PersistSafe
<1>2. QED
  BY <1>1, SameMetaType

LEMMA HandlerMetaType ==
  ASSUME SeatingInv, MetaType, Handler
  PROVE  MetaType'
<1>1. CASE UNCHANGED <<meta, dbMeta>>
  BY <1>1, SameMetaType
<1>2. ASSUME NEW u \in Users, NEW i \in Seats, NEW c \in BuyIns, Sit(u, i, c) PROVE MetaType'
  BY <1>1, <1>2 DEF Sit
<1>3. ASSUME NEW u \in Users, NEW c \in Changes, TopUp(u, c) \/ TakeOff(u, c) PROVE MetaType'
  BY <1>1, <1>3 DEF TopUp, TakeOff
<1>4. ASSUME NEW u \in Users, NEW i \in Seats, Move(u, i) PROVE MetaType'
  BY <1>1, <1>4 DEF Move
<1>5. ASSUME NEW u \in Users, Leave(u) \/ LeaveNow(u) \/ CancelLeave(u) \/ Kick(u) PROVE MetaType'
  <2>1. CashOut(SeatOf(u)) \/ UNCHANGED <<meta, dbMeta>>
    BY <1>5 DEF Leave, LeaveNow, CancelLeave, Kick, Defer, dbVars
  <2>2. SeatOf(u) \in Occupied
    BY <1>5, SeatOfSeated DEF Leave, LeaveNow, CancelLeave, Kick, SeatingInv
  <2>3. QED
    BY <1>1, <2>1, <2>2, CashOutMetaType
<1>6. ASSUME NEW u \in Users, SitOutNext(u) PROVE MetaType'
  BY <1>1, <1>6 DEF SitOutNext, dbVars
<1>7. ASSUME NEW u \in Users, NEW on \in BOOLEAN, SitOut(u, on) PROVE MetaType'
  BY <1>1, <1>7 DEF SitOut
<1>8. ASSUME NEW u \in Users, TransferHost(u) PROVE MetaType'
  <2>1. meta' = [meta EXCEPT !.host = u] /\ dbMeta' = Saved(meta')
    BY <1>8 DEF TransferHost
  <2>2. QED
    BY <2>1, SameMetaType
<1>9. ASSUME NEW on \in BOOLEAN, SetRunning(on) PROVE MetaType'
  <2>1. meta' = [meta EXCEPT !.running = on] /\ dbMeta' = Saved(meta')
    BY <1>9 DEF SetRunning
  <2>2. QED
    BY <2>1, SameMetaType
<1>10. ASSUME NEW u \in Users, TimedOut(u) PROVE MetaType'
  <2>1. PersistSafe(owed) /\ meta' = meta
    BY <1>10 DEF TimedOut
  <2>2. QED
    BY <2>1, PersistMetaType
<1>11. ASSUME Close PROVE MetaType'
  <2>1. meta' = [meta EXCEPT !.status = "closed", !.running = FALSE] /\ dbMeta' = Saved(meta')
    BY <1>11 DEF Close
  <2>2. QED
    BY <2>1, SameMetaType
<1>12. QED
  BY <1>2, <1>3, <1>4, <1>5, <1>6, <1>7, <1>8, <1>9, <1>10, <1>11 DEF Handler

LEMMA StepMetaType ==
  ASSUME SeatingInv, MetaType, [Next]_vars
  PROVE  MetaType'
<1>1. CASE UNCHANGED <<meta, dbMeta>>
  BY <1>1, SameMetaType
<1>2. CASE EndHand
  <2>1. PICK d \in Payouts : PersistSafe(owed \cup {Record(d)}) /\ meta' = meta
    BY <1>2 DEF EndHand
  <2>2. QED
    BY <2>1, PersistMetaType
<1>3. CASE PassStep
  <2>1. ASSUME NEW k \in Stages, LeaveStep(k) PROVE MetaType'
    <3>1. Leavers(k) \in SUBSET Seats /\ Leavers(k) # {} /\ Leavers(k) \subseteq Occupied
      BY <2>1, StageOfJob DEF LeaveStep, SeatingInv, Leavers, Occupied
    <3>2. First(Leavers(k)) \in Occupied
      BY <3>1, FirstIsMember
    <3>3. CashOut(First(Leavers(k))) \/ UNCHANGED <<meta, dbMeta>>
      BY <2>1 DEF LeaveStep, unchangedButPass, dbVars
    <3>4. QED
      BY <1>1, <3>2, <3>3, CashOutMetaType
  <2>2. ASSUME NEW k \in Stages, NEW u \in Users, KickStep(k, u) PROVE MetaType'
    <3>1. (u \in Seated /\ CashOut(SeatOf(u))) \/ UNCHANGED <<meta, dbMeta>>
      BY <2>2 DEF KickStep, unchangedButPass, dbVars
    <3>2. u \in Seated => SeatOf(u) \in Occupied
      BY SeatOfSeated DEF SeatingInv
    <3>3. QED
      BY <1>1, <3>1, <3>2, CashOutMetaType
  <2>3. ASSUME NEW k \in Stages, WithdrawalStep(k) \/ TopUpStep(k) PROVE MetaType'
    BY <1>1, <2>3 DEF WithdrawalStep, TopUpStep
  <2>4. ASSUME NEW k \in Stages, AutoStep(k) PROVE MetaType'
    <3>1. meta' = meta /\ (dbMeta' = dbMeta \/ dbMeta' = Saved(meta'))
      BY <2>4 DEF AutoStep, AutoFails, unchangedButPass, dbVars
    <3>2. QED
      BY <3>1, SameMetaType
  <2>5. ASSUME NEW k \in Stages, DealStep(k) PROVE MetaType'
    <3>1. \/ UNCHANGED <<meta, dbMeta>>
          \/ PersistSafe(owed) /\ meta' = [meta EXCEPT !.handNo = @ + 1] /\ meta.handNo < MaxHands
      BY <2>5 DEF DealStep, unchangedButPass, dbVars
    <3>2. QED
      BY <1>1, <3>1, PersistMetaType
  <2>6. ASSUME NEW k \in Stages, PersistStep(k) \/ SettleDone(k) PROVE MetaType'
    <3>1. meta' = meta /\ (PersistSafe(owed) \/ dbMeta' = dbMeta)
      BY <2>6 DEF PersistStep, SettleDone, unchangedButPass, dbVars
    <3>2. QED
      BY <1>1, <3>1, PersistMetaType
  <2>7. QED
    BY <1>3, <2>1, <2>2, <2>3, <2>4, <2>5, <2>6 DEF PassStep
<1>4. CASE RunoutOver \/ StartTick \/ StartView \/ StartDeal \/ UNCHANGED vars
  BY <1>1, <1>4 DEF RunoutOver, StartTick, StartView, StartDeal, vars, dbVars
<1>5. CASE Restart
  <2>1. /\ meta' = [status |-> dbMeta.status, running |-> FALSE, host |-> dbMeta.host,
                    handNo |-> dbMeta.handNo]
        /\ dbMeta' = dbMeta
    BY <1>5 DEF Restart, dbVars
  <2>2. QED
    BY <2>1 DEF MetaType
<1>6. QED
  BY <1>2, <1>3, <1>4, <1>5, HandlerMetaType DEF Next

LEMMA StepFaults ==
  ASSUME PassShape, CountersType, [Next]_vars
  PROVE  faults' \in {faults, faults + 1} /\ (faults' # faults => faults < MaxFaults)
<1>1. CASE faults' = faults
  BY <1>1
<1>2. CASE Fault
  BY <1>2 DEF Fault
<1>3. Handler => Fault \/ faults' = faults
  BY DEF Handler, Sit, TopUp, TakeOff, Move, Leave, LeaveNow, CancelLeave, Kick, Defer, SitOutNext,
         TransferHost, TimedOut, SitOut, SetRunning, Close, bounds, PersistSafe
<1>4. PassStep => Fault \/ faults' = faults
  BY DEF PassStep, LeaveStep, KickStep, WithdrawalStep, TopUpStep, AutoStep, AutoFails, DealStep,
         PersistStep, SettleDone, unchangedButPass, bounds, PersistSafe, LandNothing, LandFails, Lands
<1>5. EndHand => Fault \/ faults' = faults
  BY DEF EndHand, PersistSafe
<1>6. RunoutOver \/ StartTick \/ StartView \/ StartDeal \/ Restart \/ UNCHANGED vars => faults' = faults
  BY DEF RunoutOver, StartTick, StartView, StartDeal, Restart, vars, bounds
<1>7. QED
  BY <1>1, <1>2, <1>3, <1>4, <1>5, <1>6 DEF Next

LEMMA StepCountersType ==
  ASSUME PassShape, CountersType, [Next]_vars
  PROVE  CountersType'
<1>1. faults' \in {faults, faults + 1} /\ (faults' # faults => faults < MaxFaults)
  BY StepFaults
<1>2. faults' \in 0 .. MaxFaults
  BY <1>1, BoundsAssumption DEF CountersType
<1>3. restarts' \in 0 .. MaxRestarts
  <2>1. CASE restarts' = restarts
    BY <2>1 DEF CountersType
  <2>2. CASE restarts' # restarts
    <3>1. restarts < MaxRestarts /\ restarts' = restarts + 1
      BY <2>2, OnlyRestartCounts DEF Restart
    <3>2. QED
      BY <3>1, BoundsAssumption DEF CountersType
  <2>3. QED
    BY <2>1, <2>2
<1>4. pass'.stage \in Stages
  <2>1. pass' = pass \/ pass' = Idle \/ (\E job : pass' = Begin(job)) => pass'.stage \in Stages
    <3>1. Idle.stage = 1 /\ \A job : Begin(job).stage = 1
      BY DEF Idle, Begin
    <3>2. QED
      BY <3>1 DEF CountersType, Stages
  <2>2. Handler => pass' = pass \/ pass' = Idle \/ \E job : pass' = Begin(job)
    BY DEF Handler, Sit, TopUp, TakeOff, Move, Leave, LeaveNow, CancelLeave, Kick, Defer, SitOutNext,
           TransferHost, TimedOut, SitOut, SetRunning, Close
  <2>3. EndHand \/ RunoutOver \/ StartTick \/ StartView \/ StartDeal \/ Restart \/ UNCHANGED vars =>
          pass' = pass \/ pass' = Idle \/ \E job : pass' = Begin(job)
    BY DEF EndHand, RunoutOver, StartTick, StartView, StartDeal, Restart, vars
  <2>4. ASSUME NEW k \in Stages, LeaveStep(k) \/ (\E u \in Users : KickStep(k, u)) PROVE pass'.stage = k
    BY <2>4 DEF LeaveStep, KickStep, PassShape
  <2>5. ASSUME NEW k \in Stages, WithdrawalStep(k) \/ TopUpStep(k) PROVE pass'.stage = k
    <3>1. \E i, d : pass' = After(k, i, d)
      BY <2>5 DEF WithdrawalStep, TopUpStep, LandNothing, LandFails, Lands
    <3>2. QED
      BY <3>1 DEF After, PassShape
  <2>6. ASSUME NEW k \in Stages, AutoStep(k) PROVE pass'.stage \in Stages
    <3>1. CASE AutoFails
      BY <2>1, <3>1 DEF AutoFails
    <3>2. CASE pass' = [pass EXCEPT !.stage = k + 1]
      <4>1. pass.job = "deal"
        BY <2>6, StageOfJob DEF AutoStep
      <4>2. Plan["deal"] = <<"leaves", "kicks", "withdrawals", "topups", "auto", "deal">>
        BY DEF Plan
      <4>3. Plan["deal"][k] = "auto" /\ k \in 1 .. 6
        BY <2>6, <4>1 DEF AutoStep, At, Stages
      <4>4. k = 5
        BY <4>2, <4>3
      <4>5. QED
        BY <3>2, <4>4 DEF PassShape, Stages
    <3>3. QED
      BY <2>6, <3>1, <3>2 DEF AutoStep
  <2>7. ASSUME NEW k \in Stages, DealStep(k) \/ PersistStep(k) \/ SettleDone(k) PROVE pass' = Idle
    BY <2>7 DEF DealStep, PersistStep, SettleDone
  <2>8. QED
    BY <2>1, <2>2, <2>3, <2>4, <2>5, <2>6, <2>7 DEF Next, PassStep
<1>5. QED
  BY <1>2, <1>3, <1>4 DEF CountersType

TypeInv == SeatingInv /\ MoneyType /\ FlagType /\ MetaType /\ CountersType

LEMMA InitTypes == Init => TypeInv
<1> SUFFICES ASSUME Init PROVE TypeInv
  OBVIOUS
<1>1. stack = [u \in Users |-> 0]
  BY DEF Init
<1>2. MoneyType
  <2>1. stack \in MoneyOK
    BY <1>1 DEF MoneyOK
  <2>2. QED
    BY <2>1 DEF Init, MoneyType
<1>3. FlagType
  <2>1. away = [u \in Users |-> FALSE] /\ dbAway = away /\ dirty = FALSE
    BY DEF Init
  <2>2. away \in [Users -> BOOLEAN] /\ dbAway \in [Users -> BOOLEAN] /\ dirty \in BOOLEAN
    BY <2>1, Zenon
  <2>3. /\ sitNext \subseteq Users /\ leaving \subseteq Users
        /\ sitNext # {} => phase = "in_hand"
        /\ start \in [Seats -> Int]
        /\ dbSeat \in [Users -> Seats \cup {NoSeat}]
    BY DEF Init
  <2>4. QED
    BY <2>2, <2>3 DEF FlagType
<1>4. MetaType
  <2>1. PICK host \in Users :
          meta = [status |-> "open", running |-> FALSE, host |-> host, handNo |-> 0]
    BY DEF Init
  <2>2. 0 \in 0 .. MaxHands
    BY BoundsAssumption
  <2>3. meta \in [status: {"open", "closed"}, running: BOOLEAN, host: Users, handNo: 0 .. MaxHands]
    BY <2>1, <2>2
  <2>4. dbMeta = [status |-> meta.status, host |-> meta.host, handNo |-> meta.handNo]
    BY DEF Init, Saved
  <2>5. QED
    BY <2>3, <2>4 DEF MetaType
<1>5. CountersType
  BY BoundsAssumption DEF Init, CountersType, Idle, Stages
<1>6. QED
  BY <1>2, <1>3, <1>4, <1>5, InitSeating DEF TypeInv

LEMMA StepTypes ==
  ASSUME TypeInv, [Next]_vars
  PROVE  TypeInv'
<1>1. RowsShape
  BY DEF TypeInv, MoneyType, MoneyOK, RowsShape
<1>2. SeatingInv'
  BY <1>1, StepSeating DEF TypeInv
<1>3. QED
  BY <1>2, StepMoneyType, StepFlagType, StepMetaType, StepCountersType DEF TypeInv, SeatingInv

LEMMA TypesAreOK == TypeInv => TypeOK
BY DEF TypeInv, SeatingInv, PassShape, SeatingShape, MoneyType, FlagType, MetaType, CountersType, TypeOK

\* Whatever fails or restarts, every amount of money stays a whole number that is
\* not negative: nobody is charged by a cash-out, and no stack goes below nothing
THEOREM TypeTheorem == Spec => []TypeOK
<1>1. TypeInv /\ [Next]_vars => TypeInv'
  BY StepTypes
<1>2. QED
  BY InitTypes, <1>1, TypesAreOK, PTL DEF Spec

-----------------------------------------------------------------------------
(* The results of the hands                                                  *)

\* Nobody is dealt two seats, so what the players get is what their seats get
LEMMA ForUsersIs ==
  ASSUME SeatingInv, HandBusy, NEW amounts \in [DealtSeats -> Int]
  PROVE  /\ ForUsers(amounts) \in [Users -> Int]
         /\ Total(ForUsers(amounts)) = Total(amounts)
         /\ \A i \in DealtSeats : dealt[i] \in Users /\ ForUsers(amounts)[dealt[i]] = amounts[i]
         /\ \A u \in Users : (\A i \in DealtSeats : dealt[i] # u) => ForUsers(amounts)[u] = 0
<1> DEFINE D == DealtSeats
           g == ForUsers(amounts)
           b == [i \in D |-> dealt[i]]
           R == {b[i] : i \in D}
<1>1. D \in SUBSET Seats /\ \A i \in D : dealt[i] \in Users /\ occ[i] = dealt[i]
  BY DEF DealtSeats, SeatingInv, SeatingShape, CardsKeepTheirSeat
<1>2. \A i, j \in D : dealt[i] = dealt[j] => i = j
  BY <1>1, NobodyAssumption DEF SeatingInv, OneSeat
<1>3. ASSUME NEW i \in D PROVE g[dealt[i]] = amounts[i]
  <2>1. (CHOOSE j \in D : dealt[j] = dealt[i]) = i
    BY <1>2
  <2>2. g[dealt[i]] = amounts[CHOOSE j \in D : dealt[j] = dealt[i]]
    BY <1>1 DEF ForUsers
  <2>3. QED
    BY <2>1, <2>2
<1>4. ASSUME NEW u \in Users, \A i \in D : dealt[i] # u PROVE g[u] = 0
  BY <1>4 DEF ForUsers
<1>5. g \in [Users -> Int]
  <2>1. g = [u \in Users |-> g[u]]
    BY DEF ForUsers
  <2>2. \A u \in Users : g[u] \in Int
    <3> SUFFICES ASSUME NEW u \in Users PROVE g[u] \in Int
      OBVIOUS
    <3>1. CASE \E i \in D : dealt[i] = u
      BY <1>3, <3>1
    <3>2. CASE \A i \in D : dealt[i] # u
      BY <1>4, <3>2
    <3>3. QED
      BY <3>1, <3>2
  <2> HIDE DEF g
  <2>3. QED
    BY <2>1, <2>2
<1>6. IsFiniteSet(D) /\ IsFiniteSet(Users)
  BY <1>1, SeatsFinite, UsersAssumption
<1>7. b \in [D -> Users] /\ \A i, j \in D : b[i] = b[j] => i = j
  BY <1>1, <1>2
<1>8. \A i \in D : amounts[i] = g[b[i]]
  BY <1>3
<1>9. DOMAIN amounts = D /\ amounts \in [D -> Int] /\ DOMAIN g = Users
  BY <1>5
<1>10. R \in SUBSET Users /\ \A u \in Users \ R : g[u] = 0
  BY <1>4, <1>7
<1> HIDE DEF D, g, b
<1>11. SumOn(amounts, D) = SumOn(g, R)
  BY <1>5, <1>6, <1>7, <1>8, <1>9, SumRenamed
<1> HIDE DEF R
<1>12. SumOn(g, Users \ R) = 0
  <2> DEFINE T == Users \ R
  <2>1. T \in SUBSET Users
    OBVIOUS
  <2>2. SumOn(g, T) \in Int
    BY <1>5, <1>6, <2>1, SumType
  <2>3. \A u \in T : g[u] = 0 * g[u]
    BY <1>5, <1>10
  <2> HIDE DEF T
  <2>4. PICK zero \in Int : zero = 0
    OBVIOUS
  <2>5. \A u \in T : g[u] = zero * g[u]
    BY <2>3, <2>4
  <2>6. SumOn(g, T) = zero * SumOn(g, T)
    BY <1>5, <1>6, <2>1, <2>5, SumTimes
  <2>7. SumOn(g, T) = 0
    BY <2>2, <2>4, <2>6
  <2>8. QED
    BY <2>7 DEF T
<1>13. SumOn(g, Users) = SumOn(g, R) + SumOn(g, Users \ R)
  <2>1. R \cup (Users \ R) = Users /\ R \cap (Users \ R) = {} /\ Users \ R \in SUBSET Users
    BY <1>10
  <2>2. QED
    BY <1>5, <1>6, <1>10, <2>1, SumParts
<1>14. SumOn(g, R) \in Int
  BY <1>5, <1>6, <1>10, SumType
<1>15. Total(g) = Total(amounts)
  <2>1. Total(g) = SumOn(g, Users) /\ Total(amounts) = SumOn(amounts, D)
    BY <1>9, TotalIsSum
  <2>2. QED
    BY <1>11, <1>12, <1>13, <1>14, <2>1
<1>16. QED
  BY <1>1, <1>3, <1>4, <1>5, <1>15 DEF D, g

\* A record adds up
WellRecorded(r) ==
  /\ Total(r.cents) = 0
  /\ \A u \in Users : LET off == r.cents[u] * BBChips - r.delta[u] * BBCents
                      IN -BBChips < off /\ off < BBChips

LEMMA RecordIsWell ==
  ASSUME SeatingInv, HandBusy, NEW d \in Payouts
  PROVE  WellRecorded(Record(d))
<1> DEFINE cents == ZeroSumCents(d, BBChips, BBCents)
           D == DealtSeats
<1>1. d \in [D -> Int] /\ Total(d) = 0
  BY BoundsAssumption DEF Payouts
<1>2. IsFiniteSet(D) /\ D \subseteq Int
  <2>1. D \in SUBSET Seats
    BY DEF DealtSeats
  <2>2. QED
    BY <2>1, SeatsFinite
<1>3. BBChips \in Nat \ {0} /\ BBCents \in Int /\ BBChips > 0
  BY StakesAssumption
<1> HIDE DEF D
<1>4. /\ cents \in [D -> Int] /\ Total(cents) = 0
      /\ \A i \in D : LET off == cents[i] * BBChips - d[i] * BBCents
                      IN  -BBChips < off /\ off < BBChips
  BY <1>1, <1>2, <1>3, ZeroSumTheorem
<1> HIDE DEF cents
<1>5. Record(d).cents = ForUsers(cents) /\ Record(d).delta = ForUsers(d)
  BY DEF Record, cents
<1>6. /\ Total(ForUsers(cents)) = 0
      /\ \A i \in D : ForUsers(cents)[dealt[i]] = cents[i] /\ ForUsers(d)[dealt[i]] = d[i]
      /\ \A u \in Users : (\A i \in D : dealt[i] # u) => ForUsers(cents)[u] = 0 /\ ForUsers(d)[u] = 0
  BY <1>1, <1>4, ForUsersIs DEF D
<1>7. ASSUME NEW u \in Users
      PROVE  LET off == ForUsers(cents)[u] * BBChips - ForUsers(d)[u] * BBCents
             IN -BBChips < off /\ off < BBChips
  <2>1. CASE \E i \in D : dealt[i] = u
    BY <1>4, <1>6, <2>1
  <2>2. CASE \A i \in D : dealt[i] # u
    <3>1. ForUsers(cents)[u] = 0 /\ ForUsers(d)[u] = 0
      BY <1>6, <2>2
    <3>2. 0 * BBChips - 0 * BBCents = 0
      BY <1>3
    <3>3. QED
      BY <1>3, <3>1, <3>2
  <2>3. QED
    BY <2>1, <2>2
<1>8. QED
  BY <1>5, <1>6, <1>7 DEF WellRecorded

ResultsInv == \A r \in results \cup owed : WellRecorded(r)

LEMMA PersistResults ==
  ASSUME ResultsInv, NEW toSave, PersistSafe(toSave), \A r \in toSave : WellRecorded(r)
  PROVE  ResultsInv'
<1>1. results' \cup owed' \subseteq results \cup toSave
  BY DEF PersistSafe, Recorded
<1>2. \A r \in results' \cup owed' : WellRecorded(r)
  BY <1>1 DEF ResultsInv
<1>3. QED
  BY <1>2 DEF ResultsInv, WellRecorded

\* Only a hand's end makes a record
LEMMA StepRecords ==
  ASSUME [Next]_vars, ~EndHand
  PROVE  (results' = results /\ (owed' = owed \/ owed' = {})) \/ PersistSafe(owed)
<1>1. CASE Handler
  BY <1>1 DEF Handler, Sit, TopUp, TakeOff, Move, Leave, LeaveNow, CancelLeave, Kick, Defer, SitOutNext,
              TransferHost, TimedOut, SitOut, SetRunning, Close, CashOut, saveVars, dbVars
<1>2. CASE RunoutOver \/ StartTick \/ StartView \/ StartDeal \/ UNCHANGED vars
  BY <1>2 DEF RunoutOver, StartTick, StartView, StartDeal, vars, saveVars, dbVars
<1>3. CASE PassStep
  <2>1. ASSUME NEW k \in Stages, LeaveStep(k) \/ \E u \in Users : KickStep(k, u)
        PROVE  results' = results /\ owed' = owed
    BY <2>1 DEF LeaveStep, KickStep, CashOut, unchangedButPass, saveVars, dbVars
  <2>2. ASSUME NEW k \in Stages, WithdrawalStep(k) \/ TopUpStep(k) \/ AutoStep(k) \/ SettleDone(k)
        PROVE  results' = results /\ owed' = owed
    BY <2>2 DEF WithdrawalStep, TopUpStep, AutoStep, AutoFails, SettleDone, unchangedButPass, saveVars, dbVars
  <2>3. ASSUME NEW k \in Stages, DealStep(k) \/ PersistStep(k)
        PROVE  (results' = results /\ owed' = owed) \/ PersistSafe(owed)
    BY <2>3 DEF DealStep, PersistStep, unchangedButPass, saveVars, dbVars
  <2>4. QED
    BY <1>3, <2>1, <2>2, <2>3 DEF PassStep
<1>4. CASE Restart
  BY <1>4 DEF Restart, dbVars
<1>5. QED
  BY <1>1, <1>2, <1>3, <1>4 DEF Next

LEMMA StepResults ==
  ASSUME SeatingInv, ResultsInv, [Next]_vars
  PROVE  ResultsInv'
<1>1. CASE results' = results /\ (owed' = owed \/ owed' = {})
  BY <1>1 DEF ResultsInv, WellRecorded
<1>2. CASE PersistSafe(owed)
  BY <1>2, PersistResults DEF ResultsInv
<1>3. CASE EndHand
  <2>1. PICK d \in Payouts : PersistSafe(owed \cup {Record(d)})
    BY <1>3 DEF EndHand
  <2> DEFINE rec == Record(d)
  <2>2. WellRecorded(rec)
    BY <1>3, RecordIsWell DEF EndHand, HandBusy
  <2> HIDE DEF rec
  <2>3. PersistSafe(owed \cup {rec})
    BY <2>1 DEF rec
  <2>4. \A r \in owed \cup {rec} : WellRecorded(r)
    BY <2>2 DEF ResultsInv
  <2>5. QED
    BY <2>3, <2>4, PersistResults
<1>4. QED
  BY <1>1, <1>2, <1>3, StepRecords

\* Whatever the stakes, whatever write fails and whenever the table restarts, the
\* results a hand is recorded with add up to zero in cents as its chips do, and
\* nobody's is a whole cent off what they won or lost (zero_sum_cents, OPS-015)
THEOREM ResultsTheorem == Spec => []ResultsAddUp
<1> DEFINE IInv == SeatingInv /\ RowsShape /\ ResultsInv
<1>1. Init => IInv
  BY InitSeating DEF Init, RowsShape, ResultsInv
<1>2. IInv /\ [Next]_vars => IInv'
  BY StepSeating, StepRowsShape, StepResults
<1>3. IInv => ResultsAddUp
  BY DEF ResultsInv, WellRecorded, ResultsAddUp
<1>4. QED
  BY <1>1, <1>2, <1>3, PTL DEF Spec

-----------------------------------------------------------------------------
(* How a step moves the money of the table in memory, as long as no landing  *)
(* write fails: in every case but a restart it is one of these.              *)

\* Nobody who has no seat has chips
EmptyHanded == \A u \in Users : u \notin Seated => stack[u] = 0 /\ dbStack[u] = 0

Still == UNCHANGED <<stack, bought, left>> /\ Seated' = Seated
Brings(u, c) ==
  /\ stack' = [stack EXCEPT ![u] = @ + Chips(c)]
  /\ bought' = [bought EXCEPT ![u] = @ + c] /\ left' = left
  /\ Seated' = Seated \cup {u} /\ (meta.status = "closed" => u \in Seated)
Takes(u, c) ==
  /\ AllowRathole /\ u \in Seated /\ c < Cents(stack[u])
  /\ stack' = [stack EXCEPT ![u] = @ - Lesser(Chips(c), stack[u])]
  /\ left' = [left EXCEPT ![u] = @ + c] /\ bought' = bought
  /\ Seated' = Seated
Leaves(u) ==
  /\ u \in Seated
  /\ stack' = [stack EXCEPT ![u] = 0]
  /\ left' = [left EXCEPT ![u] = @ + Worth(SeatOf(u))] /\ bought' = bought
  /\ Seated' = Seated \ {u}
  /\ \A v \in Users \ {u} : SeatIn(occ', v) = SeatIn(occ, v)
Closes ==
  /\ stack' = [u \in Users |-> 0]
  /\ left' = [u \in Users |-> IF u \in Seated THEN left[u] + ClosingShare[SeatOf(u)] ELSE left[u]]
  /\ bought' = bought /\ Seated' = {}
Resets ==
  /\ AutoMode # "off" /\ Seated' = Seated
  /\ stack' = IfPlaying(stack, [u \in Users |->
                stack[u] + Chips(AutoIn(u)) - Lesser(Chips(AutoOut(u)), stack[u])])
  /\ bought' = IfPlaying(bought, [u \in Users |-> bought[u] + AutoIn(u)])
  /\ left' = IfPlaying(left, [u \in Users |-> left[u] + AutoOut(u)])
HandMoves(d) ==
  /\ stack' = [u \in Users |-> IF u \in Seated /\ SeatOf(u) \in DealtSeats
                               THEN start[SeatOf(u)] + d[SeatOf(u)] ELSE stack[u]]
  /\ UNCHANGED <<occ, bought, left>> /\ Seated' = Seated
  /\ PersistSafe(owed \cup {Record(d)})

Moved ==
  \/ Still \/ Closes \/ Resets
  \/ \E u \in Users : Leaves(u) \/ \E c \in Nat : Brings(u, c) \/ Takes(u, c)

\* The stack in a row is written from memory, and it is when its player gets up
RowsFollow ==
  \A u \in Users : /\ dbStack'[u] = dbStack[u] \/ dbStack'[u] = stack'[u]
                   /\ u \in Seated /\ u \notin Seated' => dbStack'[u] = stack'[u]

LEMMA SavedRowsFollow ==
  ASSUME NEW S, SaveRows(S), \A u \in Users : u \in Seated /\ u \notin Seated' => u \in S
  PROVE  RowsFollow
BY DEF SaveRows, RowsFollow

LEMMA SameRowsFollow ==
  ASSUME UNCHANGED <<occ, dbStack>>
  PROVE  RowsFollow /\ Seated' = Seated
BY DEF RowsFollow, Seated

LEMMA PersistRowsFollow ==
  ASSUME NEW toSave, PersistSafe(toSave), UNCHANGED occ
  PROVE  RowsFollow /\ Seated' = Seated
<1>1. Seated' = Seated
  BY DEF Seated
<1>2. CASE \E S : SaveRows(S)
  BY <1>1, <1>2, SavedRowsFollow
<1>3. CASE UNCHANGED rowVars
  BY <1>1, <1>3, SameRowsFollow DEF rowVars
<1>4. QED
  BY <1>1, <1>2, <1>3 DEF PersistSafe

LEMMA CashOutMoves ==
  ASSUME SeatingInv, NEW i \in Occupied, CashOut(i)
  PROVE  occ[i] \in Users /\ Leaves(occ[i]) /\ RowsFollow
<1> DEFINE u == occ[i]
<1>1. i \in Seats /\ u \in Users /\ occ[i] # Nobody /\ \A j \in Seats : occ[j] = u => j = i
  BY NobodyAssumption DEF Occupied, SeatingInv, SeatingShape, OneSeat
<1>2. SeatOf(u) = i /\ u \in Seated
  BY <1>1 DEF SeatOf, Seated
<1>3. /\ occ' = [occ EXCEPT ![i] = Nobody] /\ stack' = [stack EXCEPT ![u] = 0]
      /\ left' = [left EXCEPT ![u] = @ + Worth(i)] /\ bought' = bought /\ SaveRows({u})
  BY DEF CashOut
<1> HIDE DEF u
<1>4. Seated' = Seated \ {u}
  <2>1. DOMAIN occ = Seats
    BY DEF SeatingInv, SeatingShape
  <2>2. \A v \in Users : v \in Seated' <=> v \in Seated /\ v # u
    BY <1>1, <1>3, <2>1, NobodyAssumption DEF Seated, u
  <2>3. Seated' \subseteq Users /\ Seated \subseteq Users
    BY DEF Seated
  <2>4. QED
    BY <2>2, <2>3
<1>5. RowsFollow
  BY <1>3, <1>4, SavedRowsFollow
<1>6. ASSUME NEW v \in Users \ {u} PROVE SeatIn(occ', v) = SeatIn(occ, v)
  <2>1. DOMAIN occ = Seats /\ v # Nobody
    BY NobodyAssumption DEF SeatingInv, SeatingShape
  <2>2. \A j \in Seats : occ'[j] = v <=> occ[j] = v
    BY <1>1, <1>3, <2>1 DEF u
  <2>3. QED
    BY <2>2 DEF SeatIn
<1>7. QED
  BY <1>1, <1>2, <1>3, <1>4, <1>5, <1>6 DEF Leaves, u

LEMMA BringInMoves ==
  ASSUME NEW u \in Seated, NEW c \in Nat, BringIn(u, c, Chips(c))
  PROVE  Brings(u, c) /\ RowsFollow
<1>1. Seated' = Seated
  BY DEF Seated, BringIn
<1>2. QED
  BY <1>1, SavedRowsFollow DEF BringIn, Brings

LEMMA KeepType == Keep \in Nat \ {0}
BY StakesAssumption DEF Keep

LEMMA TakeOutMoves ==
  ASSUME NEW u \in Seated, NEW c \in Nat, AllowRathole, c < Cents(stack[u]),
         TakeOut(u, c, Lesser(Chips(c), stack[u]))
  PROVE  Takes(u, c) /\ RowsFollow
<1>1. Seated' = Seated
  BY DEF Seated, TakeOut
<1>2. QED
  BY <1>1, SavedRowsFollow DEF TakeOut, Takes

LEMMA HandlerMoves ==
  ASSUME SeatingInv, MoneyInv, MoneyType, EmptyHanded, Handler
  PROVE  Moved /\ RowsFollow
<1>0. Seated \subseteq Users /\ SeatingShape
  BY DEF Seated, SeatingInv
<1>1. ASSUME NEW u \in Users, NEW i \in Seats, NEW c \in BuyIns, Sit(u, i, c)
      PROVE  Moved /\ RowsFollow
  <2>1. c \in Nat /\ Chips(c) \in Nat
    BY AmountsAssumption, AmountType
  <2>2. /\ occ[i] = Nobody /\ u \notin Seated
        /\ occ' = [occ EXCEPT ![i] = u] /\ stack' = [stack EXCEPT ![u] = Chips(c)]
        /\ bought' = [bought EXCEPT ![u] = dbBought[u] + c]
        /\ left' = [left EXCEPT ![u] = dbLeft[u]] /\ SaveRows({u})
    BY <1>1 DEF Sit
  <2>3. stack[u] = 0 /\ dbBought[u] = bought[u] /\ dbLeft[u] = left[u]
    BY <2>2 DEF EmptyHanded, MoneyInv
  <2>4. Seated' = Seated \cup {u}
    <3>1. DOMAIN occ = Seats
      BY DEF SeatingInv, SeatingShape
    <3>2. \A v \in Users : v \in Seated' <=> v \in Seated \/ v = u
      BY <2>2, <3>1, NobodyAssumption DEF Seated
    <3>3. Seated' \subseteq Users
      BY DEF Seated
    <3>4. QED
      BY <1>0, <3>2, <3>3
  <2>5. stack' = [stack EXCEPT ![u] = @ + Chips(c)]
    <3> DEFINE n == Chips(c)
    <3>1. n \in Nat
      BY <2>1
    <3> HIDE DEF n
    <3>2. stack[u] + n = n
      BY <2>3, <3>1
    <3>3. stack' = [stack EXCEPT ![u] = n]
      BY <2>2 DEF n
    <3>4. stack' = [stack EXCEPT ![u] = @ + n]
      BY <3>2, <3>3
    <3>5. QED
      BY <3>4 DEF n
  <2>6. bought' = [bought EXCEPT ![u] = @ + c] /\ left' = left
    BY <2>2, <2>3 DEF MoneyType, MoneyOK
  <2>7. Brings(u, c)
    BY <1>1, <2>4, <2>5, <2>6 DEF Brings, Sit, Open
  <2>8. RowsFollow
    BY <2>2, <2>4, SavedRowsFollow
  <2>9. QED
    BY <2>1, <2>7, <2>8 DEF Moved
<1>2. ASSUME NEW u \in Users, NEW c \in Changes, TopUp(u, c)
      PROVE  Moved /\ RowsFollow
  <2>1. c \in Nat /\ u \in Seated
    BY <1>2, AmountsAssumption DEF TopUp
  <2>2. BringIn(u, c, Chips(c)) \/ UNCHANGED <<occ, stack, bought, left, dbStack>>
    BY <1>2 DEF TopUp, moneyVars, rowVars
  <2>3. QED
    BY <2>1, <2>2, BringInMoves, SameRowsFollow DEF Moved, Still
<1>3. ASSUME NEW u \in Users, NEW c \in Changes, TakeOff(u, c)
      PROVE  Moved /\ RowsFollow
  <2>1. c \in Nat /\ u \in Seated /\ AllowRathole
    BY <1>3, AmountsAssumption DEF TakeOff
  <2>2. \/ TakeOut(u, c, Lesser(Chips(c), stack[u])) /\ Cents(stack[u]) - c >= Keep
        \/ UNCHANGED <<occ, stack, bought, left, dbStack>>
    BY <1>3 DEF TakeOff, moneyVars, rowVars
  <2>3. Cents(stack[u]) \in Int /\ Keep \in Nat \ {0}
    BY AmountType, KeepType DEF MoneyType, MoneyOK
  <2>4. Cents(stack[u]) - c >= Keep => c < Cents(stack[u])
    BY <2>1, <2>3
  <2>5. QED
    BY <2>1, <2>2, <2>4, TakeOutMoves, SameRowsFollow DEF Moved, Still
<1>4. ASSUME NEW u \in Users, NEW j \in Seats, Move(u, j)
      PROVE  Moved /\ RowsFollow
  <2>1. /\ SeatOf(u) \in Seats /\ occ[SeatOf(u)] = u /\ occ[j] = Nobody
        /\ occ' = [occ EXCEPT ![j] = u, ![SeatOf(u)] = Nobody]
        /\ UNCHANGED <<stack, bought, left>> /\ SaveRows({u}) /\ u \in Seated
    BY <1>4, SeatOfSeated DEF Move, Occupied, SeatingInv, moneyVars
  <2>2. \A v \in Users : v \in Seated' <=> v \in Seated
    <3>1. occ \in [Seats -> Users \cup {Nobody}] /\ OneSeat
      BY DEF SeatingInv, SeatingShape
    <3> DEFINE k == SeatOf(u)
    <3>2. occ'[j] = u /\ occ'[k] = Nobody /\ \A m \in Seats \ {j, k} : occ'[m] = occ[m]
      BY <2>1, <3>1, NobodyAssumption
    <3>3. occ[k] = u /\ k \in Seats
      BY <2>1
    <3> HIDE DEF k
    <3>4. ASSUME NEW v \in Users PROVE v \in Seated' <=> v \in Seated
      <4>1. CASE v = u
        BY <2>1, <3>2, <4>1 DEF Seated
      <4>2. CASE v # u
        BY <2>1, <3>2, <3>3, <4>2, NobodyAssumption DEF Seated
      <4>3. QED
        BY <4>1, <4>2
    <3>5. QED
      BY <3>4
  <2>3. Seated' = Seated
    <3>1. Seated' \subseteq Users
      BY DEF Seated
    <3>2. QED
      BY <1>0, <2>2, <3>1
  <2>4. RowsFollow
    BY <2>1, <2>3, SavedRowsFollow
  <2>5. QED
    BY <2>1, <2>3, <2>4 DEF Moved, Still
<1>5. ASSUME NEW u \in Users, Defer(u) \/ \E on \in BOOLEAN : SitOut(u, on)
      PROVE  Moved /\ RowsFollow
  <2>1. UNCHANGED <<occ, stack, bought, left>> /\ SaveRows({u})
    BY <1>5 DEF Defer, SitOut, moneyVars
  <2>2. Seated' = Seated
    BY <2>1 DEF Seated
  <2>3. QED
    BY <2>1, <2>2, SavedRowsFollow DEF Moved, Still
<1>6. ASSUME NEW u \in Users, Leave(u) \/ LeaveNow(u) \/ CancelLeave(u) \/ Kick(u)
      PROVE  Moved /\ RowsFollow
  <2>1. CashOut(SeatOf(u)) \/ Defer(u) \/ UNCHANGED <<occ, stack, bought, left, dbStack>>
    BY <1>6 DEF Leave, LeaveNow, CancelLeave, Kick, moneyVars, dbVars, rowVars
  <2>2. SeatOf(u) \in Occupied
    BY <1>0, <1>6, SeatOfSeated DEF Leave, LeaveNow, CancelLeave, Kick
  <2>3. QED
    BY <1>5, <2>1, <2>2, CashOutMoves, SameRowsFollow DEF Moved, Still
<1>7. ASSUME NEW u \in Users, TimedOut(u)
      PROVE  Moved /\ RowsFollow
  BY <1>7, PersistRowsFollow DEF TimedOut, moneyVars, Moved, Still
<1>8. ASSUME \/ \E u \in Users : SitOutNext(u) \/ TransferHost(u)
             \/ \E on \in BOOLEAN : SetRunning(on)
      PROVE  Moved /\ RowsFollow
  <2>1. UNCHANGED <<occ, stack, bought, left, dbStack>>
    BY <1>8 DEF SitOutNext, TransferHost, SetRunning, moneyVars, dbVars, rowVars
  <2>2. QED
    BY <2>1, SameRowsFollow DEF Moved, Still
<1>9. ASSUME Close
      PROVE  Moved /\ RowsFollow
  <2>1. occ' = [i \in Seats |-> Nobody] /\ SaveRows(Seated)
    BY <1>9 DEF Close
  <2>2. Seated' = {}
    BY <2>1, NobodyAssumption DEF Seated
  <2>3. Closes
    BY <1>9, <2>2 DEF Close, Closes
  <2>4. QED
    BY <2>1, <2>3, SavedRowsFollow DEF Moved
<1>10. QED
  BY <1>1, <1>2, <1>3, <1>4, <1>5, <1>6, <1>7, <1>8, <1>9 DEF Handler

LEMMA PassMoves ==
  ASSUME SeatingInv, Attached, MoneyType, LandingFaults = FALSE, PassStep
  PROVE  Moved /\ RowsFollow
<1>0. SeatingShape
  BY DEF SeatingInv
<1>1. ASSUME NEW k \in Stages, LeaveStep(k)
      PROVE  Moved /\ RowsFollow
  <2> DEFINE i == First(Leavers(k))
  <2>1. i \in Occupied
    <3>1. Leavers(k) \in SUBSET Seats /\ Leavers(k) # {} /\ Leavers(k) \subseteq Occupied
      BY <1>1, StageOfJob DEF LeaveStep, SeatingInv, Leavers, Occupied
    <3>2. QED
      BY <3>1, FirstIsMember
  <2>2. CashOut(i) \/ UNCHANGED <<occ, stack, bought, left, dbStack>>
    BY <1>1 DEF LeaveStep, unchangedButPass, moneyVars, dbVars, rowVars
  <2> HIDE DEF i
  <2>3. QED
    BY <2>1, <2>2, CashOutMoves, SameRowsFollow DEF Moved, Still
<1>2. ASSUME NEW k \in Stages, NEW u \in Users, KickStep(k, u)
      PROVE  Moved /\ RowsFollow
  <2>1. u \in Seated => SeatOf(u) \in Occupied
    BY <1>0, SeatOfSeated
  <2>2. (u \in Seated /\ CashOut(SeatOf(u))) \/ UNCHANGED <<occ, stack, bought, left, dbStack>>
    BY <1>2 DEF KickStep, unchangedButPass, moneyVars, dbVars, rowVars
  <2>3. QED
    BY <2>1, <2>2, CashOutMoves, SameRowsFollow DEF Moved, Still
<1>3. ASSUME NEW k \in Stages, WithdrawalStep(k)
      PROVE  Moved /\ RowsFollow
  <2> DEFINE i == First(Queued(qRem, k))
             u == occ[i]
             c == Lesser(qRem[u], Cents(stack[u]) - Keep)
             moved == Lesser(Chips(c), stack[u])
  <2>1. i \in Occupied
    BY <1>3, LandingSeat
  <2>2. ~Detached(k)
    BY DEF Detached, Attached
  <2>3. \/ UNCHANGED <<occ, stack, bought, left, dbStack>>
        \/ AllowRathole /\ c >= BBCents /\ TakeOut(u, c, moved)
    BY <1>3, <2>2 DEF WithdrawalStep, LandNothing, LandFails, moneyVars, rowVars
  <2>4. u \in Users /\ u \in Seated
    BY <1>0, <2>1 DEF Occupied, Seated, SeatingShape
  <2>5. Cents(stack[u]) \in Int /\ Keep \in Nat \ {0} /\ qRem[u] \in Nat /\ BBCents \in Nat
    BY <2>4, AmountType, KeepType, StakesAssumption DEF MoneyType, MoneyOK
  <2>6. c \in Int /\ c <= Cents(stack[u]) - Keep
    BY <2>5, LesserType
  <2>7. c < Cents(stack[u])
    <3> HIDE DEF c
    <3>1. QED
      BY <2>5, <2>6
  <2>8. c >= BBCents => c \in Nat
    <3> HIDE DEF c
    <3>1. QED
      BY <2>5, <2>6
  <2>9. CASE UNCHANGED <<occ, stack, bought, left, dbStack>>
    BY <2>9, SameRowsFollow DEF Moved, Still
  <2>10. CASE AllowRathole /\ c >= BBCents /\ TakeOut(u, c, moved)
    <3> HIDE DEF c, u
    <3>1. Takes(u, c) /\ RowsFollow
      BY <2>4, <2>7, <2>8, <2>10, TakeOutMoves
    <3>2. QED
      BY <2>4, <2>8, <2>10, <3>1 DEF Moved
  <2>11. QED
    BY <2>3, <2>9, <2>10
<1>4. ASSUME NEW k \in Stages, TopUpStep(k)
      PROVE  Moved /\ RowsFollow
  <2> DEFINE i == First(Queued(qTop, k))
             u == occ[i]
             c == IF MaxBuyin > 0 THEN Lesser(qTop[u], Room(u)) ELSE qTop[u]
  <2>1. i \in Occupied
    BY <1>4, LandingSeat
  <2>2. ~Detached(k)
    BY DEF Detached, Attached
  <2>3. \/ UNCHANGED <<occ, stack, bought, left, dbStack>>
        \/ c >= 1 /\ BringIn(u, c, Chips(c))
    BY <1>4, <2>2 DEF TopUpStep, LandNothing, LandFails, moneyVars, rowVars
  <2>4. u \in Users /\ u \in Seated
    BY <1>0, <2>1 DEF Occupied, Seated, SeatingShape
  <2>5. Cents(stack[u]) \in Int /\ qTop[u] \in Nat /\ MaxBuyin \in Nat
    BY <2>4, AmountType, AmountsAssumption DEF MoneyType, MoneyOK
  <2>6. Room(u) \in Int
    BY <2>5 DEF Room
  <2>7. c \in Int
    BY <2>5, <2>6, LesserType
  <2>8. c >= 1 => c \in Nat
    <3> HIDE DEF c
    <3>1. QED
      BY <2>7
  <2>9. CASE UNCHANGED <<occ, stack, bought, left, dbStack>>
    BY <2>9, SameRowsFollow DEF Moved, Still
  <2>10. CASE c >= 1 /\ BringIn(u, c, Chips(c))
    <3> HIDE DEF c, u
    <3>1. Brings(u, c) /\ RowsFollow
      BY <2>4, <2>8, <2>10, BringInMoves
    <3>2. QED
      BY <2>4, <2>8, <2>10, <3>1 DEF Moved
  <2>11. QED
    BY <2>3, <2>9, <2>10
<1>5. ASSUME NEW k \in Stages, AutoStep(k)
      PROVE  Moved /\ RowsFollow
  <2>1. CASE AutoFails
    BY <2>1, SameRowsFollow DEF AutoFails, unchangedButPass, moneyVars, dbVars, rowVars, Moved, Still
  <2>2. CASE ~AutoFails
    <3>1. AutoMode # "off"
      BY <1>5 DEF AutoStep, At, HasWork
    <3>2. UNCHANGED occ /\ SaveRows(Seated)
      BY <1>5, <2>2 DEF AutoStep
    <3>3. Seated' = Seated
      BY <3>2 DEF Seated
    <3>4. Resets
      BY <1>5, <2>2, <3>1, <3>3 DEF AutoStep, Resets
    <3>5. QED
      BY <3>2, <3>3, <3>4, SavedRowsFollow DEF Moved
  <2>3. QED
    BY <2>1, <2>2
<1>6. ASSUME NEW k \in Stages, DealStep(k) \/ PersistStep(k) \/ SettleDone(k)
      PROVE  Moved /\ RowsFollow
  <2>1. UNCHANGED <<occ, stack, bought, left>> /\ (UNCHANGED dbStack \/ PersistSafe(owed))
    BY <1>6 DEF DealStep, PersistStep, SettleDone, unchangedButPass, moneyVars, dbVars, rowVars
  <2>2. QED
    BY <2>1, PersistRowsFollow, SameRowsFollow DEF Moved, Still
<1>7. QED
  BY <1>1, <1>2, <1>3, <1>4, <1>5, <1>6 DEF PassStep

\* Every step but a restart moves the money one of those ways, or is a hand's end
LEMMA StepMoves ==
  ASSUME SeatingInv, Attached, MoneyInv, MoneyType, EmptyHanded, LandingFaults = FALSE, [Next]_vars
  PROVE  \/ Restart
         \/ Moved /\ RowsFollow /\ ~EndHand
         \/ /\ RowsFollow /\ phase = "in_hand"
            /\ \E d \in Payouts : HandMoves(d)
<1>1. CASE EndHand
  <2>1. PICK d \in Payouts :
          /\ stack' = [u \in Users |-> IF u \in Seated /\ SeatOf(u) \in DealtSeats
                                       THEN start[SeatOf(u)] + d[SeatOf(u)] ELSE stack[u]]
          /\ UNCHANGED <<occ, bought, left>>
          /\ PersistSafe(owed \cup {Record(d)})
    BY <1>1 DEF EndHand
  <2>2. Seated' = Seated /\ RowsFollow
    BY <2>1, PersistRowsFollow
  <2>3. HandMoves(d)
    BY <2>1, <2>2 DEF HandMoves
  <2>4. phase = "in_hand"
    BY <1>1 DEF EndHand
  <2>5. QED
    BY <2>2, <2>3, <2>4
<1>2. CASE RunoutOver \/ StartTick \/ StartView \/ StartDeal \/ UNCHANGED vars
  <2>1. UNCHANGED <<occ, stack, bought, left, dbStack>>
    BY <1>2 DEF RunoutOver, StartTick, StartView, StartDeal, vars, moneyVars, dbVars, rowVars
  <2>2. QED
    BY <1>1, <2>1, SameRowsFollow DEF Moved, Still
<1>3. QED
  BY <1>1, <1>2, HandlerMoves, PassMoves DEF Next

-----------------------------------------------------------------------------
(* The money on the table, and the stacks of its seats                       *)

\* What is on the table is what was brought in and not taken out
Net == [u \in Users |-> bought[u] - left[u]]
LEMMA NetIsMoney ==
  ASSUME MoneyInv, MoneyType
  PROVE  Net \in [Users -> Int] /\ MoneyOnTable = Total(Net)
<1> DEFINE onTable == [u \in Users |-> IF u \in Seated THEN bought[u] - left[u]
                                       ELSE dbBought[u] - dbLeft[u]]
<1>1. onTable = Net
  BY DEF Net, MoneyInv
<1>2. Net \in [Users -> Int]
  BY DEF Net, MoneyType, MoneyOK
<1> HIDE DEF onTable
<1>3. QED
  BY <1>1, <1>2 DEF MoneyOnTable, onTable

\* The same as NetIsMoney, of the state after a step
LEMMA NetIsMoneyNext ==
  ASSUME MoneyInv', MoneyType'
  PROVE  /\ [u \in Users |-> bought'[u] - left'[u]] \in [Users -> Int]
         /\ MoneyOnTable' = Total([u \in Users |-> bought'[u] - left'[u]])
<1> DEFINE onTable == [u \in Users |-> IF u \in Seated' THEN bought'[u] - left'[u]
                                       ELSE dbBought'[u] - dbLeft'[u]]
           after == [u \in Users |-> bought'[u] - left'[u]]
<1>1. onTable = after
  BY DEF MoneyInv
<1>2. after \in [Users -> Int]
  BY DEF MoneyType, MoneyOK
<1> HIDE DEF after
<1>3. MoneyOnTable' = Total(onTable)
  BY DEF MoneyOnTable
<1> HIDE DEF onTable
<1>4. MoneyOnTable' = Total(after)
  BY <1>1, <1>3
<1>5. QED
  BY <1>2, <1>4 DEF after

\* The stacks of the seats are the stacks of the players
SeatStacks == [j \in Occupied |-> stack[occ[j]]]
LEMMA SeatStacksAre ==
  ASSUME SeatingInv, MoneyType, EmptyHanded
  PROVE  SeatStacks \in [Occupied -> Nat] /\ Total(SeatStacks) = Total(stack)
<1> DEFINE b == [j \in Occupied |-> occ[j]]
<1>1. \A j \in Occupied : j \in Seats /\ occ[j] \in Users /\ occ[j] # Nobody
  BY DEF Occupied, SeatingInv, SeatingShape
<1>2. SeatStacks \in [Occupied -> Nat] /\ \A j \in Occupied : SeatStacks[j] = stack[occ[j]]
  BY <1>1 DEF SeatStacks, MoneyType, MoneyOK
<1>3. b \in [Occupied -> Users] /\ \A j \in Occupied : b[j] = occ[j]
  BY <1>1
<1>4. \A i, j \in Occupied : b[i] = b[j] => i = j
  BY <1>1, <1>3 DEF SeatingInv, OneSeat
<1>5. \A u \in Users : (\A j \in Occupied : b[j] # u) => stack[u] = 0
  BY <1>3, NobodyAssumption DEF EmptyHanded, Seated, Occupied
<1>6. IsFiniteSet(Occupied) /\ IsFiniteSet(Users)
  <2>1. Occupied \in SUBSET Seats
    BY DEF Occupied
  <2>2. QED
    BY <2>1, SeatsFinite, UsersAssumption
<1>7. SeatStacks \in [Occupied -> Int] /\ stack \in [Users -> Int]
  BY <1>2 DEF MoneyType, MoneyOK
<1>8. \A j \in Occupied : SeatStacks[j] = stack[b[j]]
  BY <1>2, <1>3
<1> HIDE DEF b
<1>9. Total(SeatStacks) = Total(stack)
  BY <1>3, <1>4, <1>5, <1>6, <1>7, <1>8, TotalRenamed
<1>10. QED
  BY <1>2, <1>9

\* Whoever has no seat after a step has no chips
LEMMA StepEmptyHanded ==
  ASSUME SeatingInv, SavedInv, MoneyType, EmptyHanded, RowsFollow \/ Restart,
         Moved \/ (phase = "in_hand" /\ \E d \in Payouts : HandMoves(d)) \/ Restart
  PROVE  EmptyHanded'
<1>1. CASE Restart
  <2>1. occ' = occ /\ stack' = dbStack /\ dbStack' = dbStack
    BY <1>1, RestartSeats DEF Restart, dbVars, rowVars
  <2>2. QED
    BY <2>1 DEF EmptyHanded, Seated
<1>2. CASE ~Restart
  <2>0. DOMAIN stack = Users
    BY DEF MoneyType, MoneyOK
  <2>1. \A u \in Users : u \notin Seated' => stack'[u] = 0
    <3>1. CASE Still
      BY <3>1 DEF Still, EmptyHanded
    <3>2. ASSUME NEW u \in Users, NEW c \in Nat, Brings(u, c) \/ Takes(u, c)
          PROVE  \A v \in Users : v \notin Seated' => stack'[v] = 0
      <4>1. (\E n : stack' = [stack EXCEPT ![u] = n]) /\ u \in Seated' /\ Seated \subseteq Seated'
        BY <3>2 DEF Brings, Takes
      <4>2. QED
        BY <2>0, <4>1 DEF EmptyHanded
    <3>3. ASSUME NEW u \in Users, Leaves(u)
          PROVE  \A v \in Users : v \notin Seated' => stack'[v] = 0
      BY <2>0, <3>3 DEF Leaves, EmptyHanded
    <3>4. CASE Closes
      BY <3>4 DEF Closes
    <3>5. CASE Resets
      BY <3>5 DEF Resets, IfPlaying, Playing, EmptyHanded
    <3>6. CASE \E d \in Payouts : HandMoves(d)
      BY <3>6 DEF HandMoves, EmptyHanded
    <3>7. QED
      BY <1>2, <3>1, <3>2, <3>3, <3>4, <3>5, <3>6 DEF Moved
  <2>2. RowsFollow
    BY <1>2
  <2>3. \A u \in Users : u \notin Seated' => dbStack'[u] = 0
    BY <2>1, <2>2 DEF RowsFollow, EmptyHanded
  <2>4. QED
    BY <2>1, <2>3 DEF EmptyHanded
<1>3. QED
  BY <1>1, <1>2

\* The seats from n on
FromSeat(n) == {k \in Occupied : k >= n}

-----------------------------------------------------------------------------
(* The closing of a table                                                    *)

\* A share of some money is a part of it, and all of it for the only seat
LEMMA ShareIsPart ==
  ASSUME SeatingShape, MoneyType, NEW S \in SUBSET Occupied, NEW i \in S, NEW money \in Nat
  PROVE  LET share == Apportion(money, [j \in S |-> stack[occ[j]]])[i]
         IN  share \in Nat /\ share <= money /\ (S = {i} => share = money)
<1> DEFINE shares == Apportion(money, [j \in S |-> stack[occ[j]]])
<1>1. S # {} /\ money \in Int /\ ~(money < 0)
  OBVIOUS
<1>2. shares \in [S -> Nat] /\ Total(shares) = money
  BY <1>1, SharesType
<1>3. IsFiniteSet(S)
  <2>1. S \in SUBSET Seats
    BY DEF Occupied
  <2>2. QED
    BY <2>1, SeatsFinite
<1> HIDE DEF shares
<1>4. shares[i] \in Nat /\ shares[i] <= money
  BY <1>2, <1>3, TotalNat
<1>5. ASSUME S = {i} PROVE shares[i] = money
  <2> DEFINE none == [j \in S \ {i} |-> shares[j]]
  <2>1. shares \in [S -> Int]
    BY <1>2
  <2>2. LeftOut(none, shares, i, S)
    BY <2>1 DEF LeftOut
  <2>3. Total(none) = Total(shares) - shares[i]
    BY <1>3, <2>2, TotalWithout
  <2>4. S \ {i} = {} /\ IsFiniteSet({})
    BY <1>5, FS_EmptySet
  <2>5. none \in [{} -> Int] /\ \A j \in {} : none[j] = 0
    BY <2>4
  <2> HIDE DEF none
  <2>6. Total(none) = 0
    BY <2>4, <2>5, TotalZero
  <2>7. QED
    BY <1>2, <1>4, <2>3, <2>6
<1>6. QED
  BY <1>4, <1>5 DEF shares

\* What seat n is paid when the table closes
LEMMA ShareOfIsPart ==
  ASSUME SeatingShape, MoneyType, NEW n \in Seats, NEW money \in Nat, FromSeat(n) = {} => money = 0
  PROVE  /\ ShareOf(money, n) \in Nat /\ ShareOf(money, n) <= money
         /\ FromSeat(n + 1) = {} => ShareOf(money, n) = money
<1>1. n \in Int /\ \A k \in Occupied : k \in Int
  BY DEF Seats, Occupied
<1>2. CASE occ[n] = Nobody
  <2>1. n \notin Occupied
    BY <1>2 DEF Occupied
  <2>2. \A k \in Occupied : k >= n + 1 <=> k >= n
    BY <1>1, <2>1
  <2>3. FromSeat(n + 1) = FromSeat(n)
    BY <2>2 DEF FromSeat
  <2>4. QED
    BY <1>2, <2>3 DEF ShareOf
<1>3. CASE occ[n] # Nobody
  <2>1. n \in FromSeat(n) /\ FromSeat(n) \in SUBSET Occupied
    BY <1>1, <1>3 DEF FromSeat, Occupied
  <2>2. ShareOf(money, n) = Apportion(money, [j \in FromSeat(n) |-> stack[occ[j]]])[n]
    BY <1>3 DEF ShareOf, FromSeat
  <2>3. FromSeat(n + 1) = {} => FromSeat(n) = {n}
    BY <1>1, <2>1 DEF FromSeat
  <2>4. QED
    BY <2>1, <2>2, <2>3, ShareIsPart
<1>4. QED
  BY <1>2, <1>3

\* The seats are paid all the money of the table, to the cent
LEMMA ClosingPaysAll ==
  ASSUME SeatingShape, MoneyType, MoneyOnTable >= 0, Occupied = {} => MoneyOnTable = 0
  PROVE  Total(ClosingShare) = MoneyOnTable
<1> DEFINE Before(n) == 0 .. n - 1
           Paid(n) == /\ ClosingMoney[n] \in Nat /\ (FromSeat(n) = {} => ClosingMoney[n] = 0)
                      /\ SumOn(ClosingShare, Before(n)) = MoneyOnTable - ClosingMoney[n]
           Bad == {n \in 0 .. NumSeats : ~Paid(n)}
<1>1. /\ ClosingShare \in [Seats -> Int] /\ DOMAIN ClosingShare = Seats /\ IsFiniteSet(Seats)
      /\ MoneyOnTable \in Int /\ MoneyOnTable \in Nat
  BY ClosingShareType, MoneyOnTableType, SeatsFinite
<1>2. Paid(0)
  <2>1. FromSeat(0) = Occupied
    BY DEF FromSeat, Occupied, Seats
  <2>2. Before(0) = {}
    OBVIOUS
  <2>3. SumOn(ClosingShare, {}) = 0
    BY <1>1, SumEmpty
  <2>4. QED
    BY <1>1, <2>1, <2>2, <2>3, ClosingMoneyIs
<1>3. ASSUME NEW m \in Seats, Paid(m) PROVE Paid(m + 1)
  <2> DEFINE money == ClosingMoney[m]
             share == ShareOf(money, m)
  <2>1. money \in Nat /\ (FromSeat(m) = {} => money = 0)
    BY <1>3
  <2>2. share \in Nat /\ share <= money /\ (FromSeat(m + 1) = {} => share = money)
    BY <2>1, ShareOfIsPart
  <2>3. ClosingMoney[m + 1] = money - share /\ ClosingShare[m] = share
    BY ClosingMoneyIs DEF ClosingShare
  <2>4. m \in Before(m + 1) /\ Before(m + 1) \in SUBSET Seats /\ Before(m + 1) \ {m} = Before(m)
    BY SeatsAssumption DEF Seats
  <2>5. SumOn(ClosingShare, Before(m)) = MoneyOnTable - money
    BY <1>3
  <2> HIDE DEF money, share, Before
  <2>6. SumOn(ClosingShare, Before(m + 1)) = ClosingShare[m] + SumOn(ClosingShare, Before(m))
    BY <1>1, <2>4, SumTakeOut
  <2>7. money - share \in Nat
    BY <2>1, <2>2
  <2>8. QED
    BY <1>1, <2>1, <2>2, <2>3, <2>5, <2>6, <2>7
<1>4. Bad = {}
  <2> HIDE DEF Paid
  <2>1. SUFFICES ASSUME Bad # {} PROVE FALSE
    OBVIOUS
  <2>2. IsFiniteSet(Bad) /\ Bad \subseteq Int
    <3>1. 0 .. (NumSeats + 1) - 1 = 0 .. NumSeats /\ NumSeats + 1 \in Nat
      BY SeatsAssumption
    <3>2. IsFiniteSet(0 .. NumSeats)
      BY <3>1, RangeSize
    <3>3. Bad \subseteq 0 .. NumSeats
      OBVIOUS
    <3> HIDE DEF Bad
    <3>4. IsFiniteSet(Bad)
      BY <3>2, <3>3, FS_Subset
    <3>5. QED
      BY <3>3, <3>4
  <2>3. PICK n \in Bad : \A i \in Bad : n <= i
    <3> HIDE DEF Bad
    <3>1. Least(Bad) \in Bad /\ \A i \in Bad : Least(Bad) <= i
      BY <2>1, <2>2, LeastIsLeast
    <3>2. QED
      BY <3>1
  <2>4. n \in 0 .. NumSeats /\ ~Paid(n) /\ n # 0
    BY <1>2
  <2>5. n - 1 \in Seats /\ (n - 1) + 1 = n /\ n - 1 \in 0 .. NumSeats /\ ~(n <= n - 1)
    BY <2>4, SeatsAssumption DEF Seats
  <2>6. Paid(n - 1)
    BY <2>3, <2>5
  <2>7. Paid((n - 1) + 1)
    BY <1>3, <2>5, <2>6
  <2>8. QED
    BY <2>4, <2>5, <2>7
<1>5. Paid(NumSeats)
  <2>1. NumSeats \in 0 .. NumSeats
    BY SeatsAssumption
  <2> HIDE DEF Paid
  <2>2. QED
    BY <1>4, <2>1
<1>6. FromSeat(NumSeats) = {} /\ Before(NumSeats) = Seats
  BY SeatsAssumption DEF FromSeat, Occupied, Seats
<1>7. SumOn(ClosingShare, Seats) = MoneyOnTable
  <2>1. ClosingMoney[NumSeats] = 0
    BY <1>5, <1>6
  <2>2. SumOn(ClosingShare, Before(NumSeats)) = MoneyOnTable - 0
    BY <1>5, <2>1
  <2> HIDE DEF Before
  <2>3. QED
    BY <1>1, <1>6, <2>2
<1>8. QED
  BY <1>1, <1>7, TotalIsSum

\* and so are the players
PaidOut == [u \in Users |-> IF u \in Seated THEN ClosingShare[SeatOf(u)] ELSE 0]
LEMMA PlayersArePaid ==
  ASSUME SeatingInv, MoneyType
  PROVE  PaidOut \in [Users -> Nat] /\ Total(PaidOut) = Total(ClosingShare)
<1> DEFINE f == [i \in Occupied |-> ClosingShare[i]]
           b == [i \in Occupied |-> occ[i]]
           id == [i \in Occupied |-> i]
<1>0. SeatingShape
  BY DEF SeatingInv
<1>1. ClosingShare \in [Seats -> Nat]
  BY <1>0, ClosingShareType
<1>2. \A i \in Occupied : i \in Seats /\ occ[i] \in Users /\ occ[i] \in Seated
  BY <1>0 DEF Occupied, Seated, SeatingShape
<1>3. \A i, j \in Occupied : occ[i] = occ[j] => i = j
  BY DEF Occupied, SeatingInv, OneSeat
<1>4. \A u \in Seated : SeatOf(u) \in Occupied /\ occ[SeatOf(u)] = u
  BY <1>0, SeatOfSeated
<1>5. \A i \in Occupied : SeatOf(occ[i]) = i
  BY <1>2, <1>3, <1>4
<1>6. IsFiniteSet(Occupied) /\ IsFiniteSet(Seats) /\ IsFiniteSet(Users)
  <2>1. Occupied \in SUBSET Seats
    BY DEF Occupied
  <2>2. QED
    BY <2>1, SeatsFinite, UsersAssumption
<1>7. PaidOut \in [Users -> Nat]
  BY <1>1, <1>2, <1>4 DEF PaidOut
<1>8. f \in [Occupied -> Int] /\ ClosingShare \in [Seats -> Int] /\ PaidOut \in [Users -> Int]
  BY <1>1, <1>2, <1>7
<1>9. Total(f) = Total(PaidOut)
  <2>1. b \in [Occupied -> Users] /\ \A i, j \in Occupied : b[i] = b[j] => i = j
    BY <1>2, <1>3
  <2>2. \A i \in Occupied : f[i] = PaidOut[b[i]]
    BY <1>2, <1>5 DEF PaidOut
  <2>3. \A u \in Users : (\A i \in Occupied : b[i] # u) => PaidOut[u] = 0
    BY <1>4 DEF PaidOut
  <2> HIDE DEF f, b
  <2>4. QED
    BY <1>6, <1>8, <2>1, <2>2, <2>3, TotalRenamed
<1>10. Total(f) = Total(ClosingShare)
  <2>1. id \in [Occupied -> Seats] /\ \A i, j \in Occupied : id[i] = id[j] => i = j
    BY <1>2
  <2>2. \A i \in Occupied : f[i] = ClosingShare[id[i]]
    OBVIOUS
  <2>3. \A n \in Seats : (\A i \in Occupied : id[i] # n) => ClosingShare[n] = 0
    <3> SUFFICES ASSUME NEW n \in Seats, \A i \in Occupied : id[i] # n PROVE ClosingShare[n] = 0
      OBVIOUS
    <3>1. n \notin Occupied
      OBVIOUS
    <3>2. occ[n] = Nobody
      BY <3>1 DEF Occupied
    <3>3. QED
      BY <3>2 DEF ClosingShare, ShareOf
  <2> HIDE DEF f, id
  <2>4. QED
    BY <1>6, <1>8, <2>1, <2>2, <2>3, TotalRenamed
<1>11. QED
  BY <1>7, <1>9, <1>10

-----------------------------------------------------------------------------
(* Stakes at which a cent is a whole number of chips                         *)

Divides == BBChips % BBCents = 0
Ratio == BBChips \div BBCents

LEMMA RatioIs ==
  ASSUME Divides
  PROVE  Ratio \in Nat \ {0} /\ BBChips = Ratio * BBCents
<1>1. BBChips \in Nat \ {0} /\ BBCents \in Nat \ {0} /\ BBChips \in Int /\ BBChips \in Nat
  BY StakesAssumption
<1>2. Ratio \in Nat
  BY <1>1, DivBounds DEF Ratio
<1>3. BBChips % BBCents = BBChips - BBCents * Ratio
  BY <1>1, DivMod DEF Ratio
<1>4. BBCents * Ratio \in Int /\ BBCents * Ratio = Ratio * BBCents
  BY <1>1, <1>2
<1>5. BBChips = Ratio * BBCents
  BY <1>1, <1>3, <1>4 DEF Divides
<1>6. Ratio # 0
  <2>1. Ratio = 0 => Ratio * BBCents = 0
    BY <1>1
  <2>2. QED
    BY <1>1, <1>5, <2>1
<1>7. QED
  BY <1>2, <1>5, <1>6

LEMMA ExactChips ==
  ASSUME Divides, NEW c \in Int
  PROVE  Chips(c) = Ratio * c
<1>1. BBCents \in Nat \ {0} /\ Ratio \in Nat \ {0} /\ BBChips = Ratio * BBCents
  BY RatioIs, StakesAssumption
<1> HIDE DEF Ratio
<1>2. CentsToChips(c, Ratio * BBCents, BBCents) = Ratio * c
  BY <1>1, WholeConversion
<1>3. QED
  BY <1>1, <1>2 DEF Chips

\* Money against chips, at par
LEMMA ParTrade ==
  ASSUME Divides, NEW z \in Int
  PROVE  BBCents * (Ratio * z) = BBChips * z
<1>1. BBCents \in Nat \ {0} /\ Ratio \in Nat \ {0} /\ BBChips = Ratio * BBCents
  BY RatioIs, StakesAssumption
<1> HIDE DEF Ratio
<1>2. BBCents * (Ratio * z) = (Ratio * BBCents) * z
  BY <1>1
<1>3. QED
  BY <1>1, <1>2

\* A cent less than a stack is worth (rounded) is never more than its chips
LEMMA ChipsFit ==
  ASSUME Divides, NEW x \in Nat, NEW c \in Nat, NEW y \in Nat, Cents(x) >= c,
         2 * x + Ratio <= 2 * y \/ (c < Cents(x) /\ x = y)
  PROVE  Ratio * c <= y
<1> DEFINE q == Cents(x)
           k == Ratio
<1>1. k \in Nat \ {0} /\ BBCents \in Nat \ {0} /\ BBChips = k * BBCents
  BY RatioIs, StakesAssumption
<1>2. q \in Nat /\ k * (2 * q) <= 2 * x + k
  <2> HIDE DEF k, q
  <2>1. ChipsToCents(x, k * BBCents, BBCents) \in Nat /\ k * (2 * ChipsToCents(x, k * BBCents, BBCents)) <= 2 * x + k
    BY <1>1, NearestCents
  <2>2. q = ChipsToCents(x, k * BBCents, BBCents)
    BY <1>1 DEF q, Cents
  <2>3. QED
    BY <2>1, <2>2
<1>3. q >= c /\ (2 * x + k <= 2 * y \/ (c < q /\ x = y))
  OBVIOUS
<1> HIDE DEF q, k
<1>4. ASSUME NEW m \in Nat PROVE k * m \in Nat
  BY <1>1
<1>5. CASE 2 * x + k <= 2 * y
  <2>1. q - c \in Nat
    BY <1>2, <1>3
  <2>2. k * (q - c) = k * q - k * c /\ k * (2 * q) = 2 * (k * q)
    BY <1>1, <1>2
  <2>3. k * c \in Nat /\ k * q \in Nat /\ k * (q - c) \in Nat
    BY <1>2, <1>4, <2>1
  <2>4. k * c <= y
    BY <1>1, <1>2, <1>5, <2>2, <2>3
  <2>5. QED
    BY <2>4 DEF k
<1>6. CASE c < q /\ x = y
  <2>1. (q - c) - 1 \in Nat
    BY <1>2, <1>6
  <2>2. k * ((q - c) - 1) = k * q - k * c - k /\ k * (2 * q) = 2 * (k * q)
    BY <1>1, <1>2
  <2>3. k * c \in Nat /\ k * q \in Nat /\ k * ((q - c) - 1) \in Nat
    BY <1>2, <1>4, <2>1
  <2>4. k * c <= y
    BY <1>1, <1>2, <1>6, <2>2, <2>3
  <2>5. QED
    BY <2>4 DEF k
<1>7. QED
  BY <1>3, <1>5, <1>6

\* Chips come and go only against money
EvenFor(u) ==
  /\ bought'[u] >= bought[u] /\ left'[u] >= left[u]
  /\ BBCents * (stack'[u] - stack[u]) =
       BBChips * ((bought'[u] - bought[u]) - (left'[u] - left[u]))
Even == \A u \in Users : EvenFor(u)

\* One player's chips and money
LEMMA OneIsEven ==
  ASSUME Divides, NEW s \in Nat, NEW b \in Nat, NEW l \in Nat, NEW in \in Nat, NEW out \in Nat,
         NEW s2, NEW b2, NEW l2,
         s2 = (s + Ratio * in) - Ratio * out, b2 = b + in, l2 = l + out
  PROVE  /\ b2 >= b /\ l2 >= l
         /\ BBCents * (s2 - s) = BBChips * ((b2 - b) - (l2 - l))
<1> DEFINE z == in - out
           k == Ratio
<1>1. z \in Int /\ k \in Int
  BY RatioIs
<1>2. (b2 - b) - (l2 - l) = z
  OBVIOUS
<1>3. s2 - s = k * z
  <2>1. s2 = (s + k * in) - k * out
    OBVIOUS
  <2> HIDE DEF k
  <2>2. k * (in - out) = k * in - k * out /\ k * in \in Int /\ k * out \in Int
    BY <1>1
  <2>3. QED
    BY <2>1, <2>2
<1>4. BBCents * (k * z) = BBChips * z
  BY <1>1, ParTrade
<1> HIDE DEF k, z
<1>5. QED
  BY <1>2, <1>3, <1>4

\* The chips an automatic stack gains or loses
LEMMA AutoIsEven ==
  ASSUME Divides, MoneyType, NEW u \in Users
  PROVE  /\ AutoIn(u) \in Nat /\ Chips(AutoIn(u)) = Ratio * AutoIn(u)
         /\ AutoOut(u) \in Nat /\ Lesser(Chips(AutoOut(u)), stack[u]) = Ratio * AutoOut(u)
<1>1. AutoIn(u) \in Nat /\ AutoOut(u) \in Nat /\ stack[u] \in Nat /\ Ratio \in Nat \ {0}
  BY AutoType, RatioIs DEF MoneyType, MoneyOK
<1>2. Chips(AutoIn(u)) = Ratio * AutoIn(u) /\ Chips(AutoOut(u)) = Ratio * AutoOut(u)
  BY <1>1, ExactChips
<1> DEFINE out == AutoOut(u)
           a == AutoCents
           k == Ratio
           x == stack[u] - k * a
<1>3. k * out <= stack[u]
  <2>1. a \in Nat /\ AnteChips \in Nat
    BY AmountsAssumption, AntesType DEF AutoCents, Lesser
  <2>2. Chips(a) = k * a
    BY <2>1, ExactChips
  <2>3. CASE out = 0
    <3>1. k * 0 = 0
      BY <1>1
    <3>2. QED
      BY <1>1, <2>3, <3>1
  <2>4. CASE out # 0
    <3>1. AnteChips < k * a /\ k * a < stack[u] /\ out = Cents(x)
      BY <2>2, <2>4 DEF AutoOut
    <3>2. a # 0
      <4>1. k * 0 = 0
        BY <1>1
      <4>2. QED
        BY <2>1, <3>1, <4>1
    <3> DEFINE m == k * a
    <3>3. m >= k /\ m \in Nat
      <4>1. a \in Nat \ {0} /\ k \in Nat
        BY <1>1, <2>1, <3>2
      <4> HIDE DEF a, k
      <4>2. QED
        BY <4>1, TimesGrows
    <3>4. x \in Nat /\ 2 * x + k <= 2 * stack[u]
      <4>1. x = stack[u] - m /\ m < stack[u] /\ k \in Nat
        BY <1>1, <3>1
      <4> HIDE DEF x, m, k
      <4>2. QED
        BY <1>1, <3>3, <4>1
    <3>5. out \in Nat /\ Cents(x) >= out
      BY <1>1, <3>1
    <3> HIDE DEF x, out, m, a
    <3>6. QED
      BY <1>1, <3>4, <3>5, ChipsFit
  <2>5. QED
    BY <2>3, <2>4
<1>4. Lesser(k * out, stack[u]) = k * out
  <2>1. k * out \in Nat
    BY <1>1
  <2> DEFINE m == k * out
  <2> HIDE DEF m
  <2>2. Lesser(m, stack[u]) = m
    BY <1>1, <1>3, <2>1 DEF Lesser, m
  <2>3. QED
    BY <2>2 DEF m
<1>5. QED
  BY <1>1, <1>2, <1>4

\* Nobody gets up: chips come and go against money, or not at all
Trades ==
  \/ Still \/ Resets
  \/ \E u \in Users, c \in Nat : Brings(u, c) \/ Takes(u, c)

LEMMA TradesAreEven ==
  ASSUME Divides, MoneyType, Trades
  PROVE  Even /\ Seated \subseteq Seated'
<1>0. /\ \A u \in Users : stack[u] \in Nat /\ bought[u] \in Nat /\ left[u] \in Nat
      /\ DOMAIN stack = Users /\ DOMAIN bought = Users /\ DOMAIN left = Users
      /\ Ratio \in Nat \ {0}
  BY RatioIs DEF MoneyType, MoneyOK
<1>1. ASSUME NEW u \in Users, stack'[u] = stack[u], bought'[u] = bought[u], left'[u] = left[u]
      PROVE  EvenFor(u)
  <2>1. stack'[u] - stack[u] = 0 /\ (bought'[u] - bought[u]) - (left'[u] - left[u]) = 0
    BY <1>0, <1>1
  <2>2. BBCents * 0 = 0 /\ BBChips * 0 = 0
    BY StakesAssumption
  <2>3. bought'[u] >= bought[u] /\ left'[u] >= left[u]
    BY <1>0, <1>1
  <2>4. QED
    BY <2>1, <2>2, <2>3 DEF EvenFor
<1>2. ASSUME NEW u \in Users, NEW in \in Nat, NEW out \in Nat,
             stack'[u] = (stack[u] + Ratio * in) - Ratio * out,
             bought'[u] = bought[u] + in, left'[u] = left[u] + out
      PROVE  EvenFor(u)
  <2> DEFINE s == stack[u]
             b == bought[u]
             l == left[u]
             s2 == stack'[u]
             b2 == bought'[u]
             l2 == left'[u]
  <2>1. s \in Nat /\ b \in Nat /\ l \in Nat
    BY <1>0
  <2>2. s2 = (s + Ratio * in) - Ratio * out /\ b2 = b + in /\ l2 = l + out
    BY <1>2
  <2> HIDE DEF s, b, l, s2, b2, l2
  <2>3. b2 >= b /\ l2 >= l /\ BBCents * (s2 - s) = BBChips * ((b2 - b) - (l2 - l))
    BY <2>1, <2>2, OneIsEven
  <2>4. QED
    BY <2>3 DEF s, b, l, s2, b2, l2, EvenFor
<1>3. ASSUME Still PROVE Even
  BY <1>1, <1>3 DEF Still, Even
<1>4. ASSUME NEW u \in Users, NEW c \in Nat, Brings(u, c) PROVE Even
  <2>1. Chips(c) = Ratio * c
    BY ExactChips
  <2>2. /\ stack' = [stack EXCEPT ![u] = @ + Ratio * c]
        /\ bought' = [bought EXCEPT ![u] = @ + c] /\ left' = left
    BY <1>4, <2>1 DEF Brings
  <2>3. \A v \in Users \ {u} : stack'[v] = stack[v] /\ bought'[v] = bought[v] /\ left'[v] = left[v]
    BY <2>2
  <2>4. /\ stack'[u] = (stack[u] + Ratio * c) - Ratio * 0
        /\ bought'[u] = bought[u] + c /\ left'[u] = left[u] + 0
    <3>1. Ratio * 0 = 0 /\ Ratio * c \in Nat
      BY <1>0
    <3>2. stack'[u] = stack[u] + Ratio * c /\ bought'[u] = bought[u] + c /\ left'[u] = left[u]
      BY <1>0, <2>2
    <3>3. QED
      BY <1>0, <3>1, <3>2
  <2>5. QED
    BY <1>1, <1>2, <2>3, <2>4 DEF Even
<1>5. ASSUME NEW u \in Users, NEW c \in Nat, Takes(u, c) PROVE Even
  <2>1. Chips(c) = Ratio * c /\ Ratio * c \in Nat /\ stack[u] \in Nat
    BY <1>0, ExactChips
  <2>2. Ratio * c <= stack[u]
    <3>1. c < Cents(stack[u])
      BY <1>5 DEF Takes
    <3>2. Cents(stack[u]) \in Nat
      BY <2>1, AmountType
    <3>3. QED
      BY <2>1, <3>1, <3>2, ChipsFit
  <2>3. Lesser(Chips(c), stack[u]) = Ratio * c
    <3> DEFINE m == Ratio * c
    <3> HIDE DEF m
    <3>1. m \in Nat /\ m <= stack[u]
      BY <2>1, <2>2 DEF m
    <3>2. Lesser(m, stack[u]) = m
      BY <2>1, <3>1 DEF Lesser
    <3>3. QED
      BY <2>1, <3>2 DEF m
  <2>4. /\ stack' = [stack EXCEPT ![u] = @ - Ratio * c]
        /\ left' = [left EXCEPT ![u] = @ + c] /\ bought' = bought
    BY <1>5, <2>3 DEF Takes
  <2>5. \A v \in Users \ {u} : stack'[v] = stack[v] /\ bought'[v] = bought[v] /\ left'[v] = left[v]
    BY <2>4
  <2>6. /\ stack'[u] = (stack[u] + Ratio * 0) - Ratio * c
        /\ bought'[u] = bought[u] + 0 /\ left'[u] = left[u] + c
    <3>1. Ratio * 0 = 0
      BY <1>0
    <3>2. stack'[u] = stack[u] - Ratio * c /\ bought'[u] = bought[u] /\ left'[u] = left[u] + c
      BY <1>0, <2>4
    <3>3. QED
      BY <1>0, <2>1, <3>1, <3>2
  <2>7. QED
    BY <1>1, <1>2, <2>5, <2>6 DEF Even
<1>6. ASSUME Resets PROVE Even
  <2>1. ASSUME NEW u \in Users
        PROVE  EvenFor(u)
    <3>1. CASE ~Playing(u)
      <4>1. stack'[u] = stack[u] /\ bought'[u] = bought[u] /\ left'[u] = left[u]
        BY <1>6, <3>1 DEF Resets, IfPlaying
      <4>2. QED
        BY <1>1, <4>1
    <3>2. CASE Playing(u)
      <4> DEFINE in == AutoIn(u)
                 out == AutoOut(u)
      <4>1. /\ stack'[u] = stack[u] + Chips(AutoIn(u)) - Lesser(Chips(AutoOut(u)), stack[u])
            /\ bought'[u] = bought[u] + in /\ left'[u] = left[u] + out
        BY <1>6, <3>2 DEF Resets, IfPlaying
      <4>3. in \in Nat /\ out \in Nat
        BY AutoIsEven
      <4>2. stack'[u] = (stack[u] + Ratio * in) - Ratio * out
        <5>1. Chips(AutoIn(u)) = Ratio * in /\ Lesser(Chips(AutoOut(u)), stack[u]) = Ratio * out
          BY AutoIsEven
        <5> DEFINE x == Chips(AutoIn(u))
                   y == Lesser(Chips(AutoOut(u)), stack[u])
                   ri == Ratio * in
                   ro == Ratio * out
        <5>2. x = ri /\ y = ro
          BY <5>1
        <5>3. stack'[u] = stack[u] + x - y
          BY <4>1
        <5>4. ri \in Nat /\ ro \in Nat /\ stack[u] \in Nat
          BY <1>0, <4>3
        <5> HIDE DEF x, y, ri, ro
        <5>6. stack'[u] = (stack[u] + ri) - ro
          BY <5>2, <5>3, <5>4
        <5>7. QED
          BY <5>6 DEF ri, ro
      <4> HIDE DEF in, out
      <4>4. QED
        BY <1>2, <4>1, <4>2, <4>3
    <3>3. QED
      BY <3>1, <3>2
  <2>2. QED
    BY <2>1 DEF Even
<1>7. Seated \subseteq Seated'
  BY DEF Trades, Still, Brings, Takes, Resets
<1>8. QED
  BY <1>3, <1>4, <1>5, <1>6, <1>7 DEF Trades

-----------------------------------------------------------------------------
(* What the chips of the table are worth beyond the money on it              *)

\* The same, player by player
Gain == [u \in Users |-> BBCents * stack[u] - BBChips * (bought[u] - left[u])]
SurplusFacts ==
  /\ Gain \in [Users -> Int] /\ Surplus = Total(Gain)
  /\ stack \in [Users -> Int] /\ Total(stack) \in Nat
  /\ Net \in [Users -> Int] /\ Total(Net) \in Int /\ MoneyOnTable = Total(Net)
  /\ Surplus = BBCents * Total(stack) - BBChips * Total(Net)

LEMMA SurplusIs == MoneyInv /\ MoneyType /\ EmptyHanded => SurplusFacts
<1> SUFFICES ASSUME MoneyInv, MoneyType, EmptyHanded PROVE SurplusFacts
  OBVIOUS
<1> DEFINE seated == [u \in Users |-> IF u \in Seated THEN stack[u] ELSE 0]
           worth == [u \in Users |-> BBCents * stack[u]]
           owing == [u \in Users |-> (-BBChips) * Net[u]]
<1>1. BBCents \in Nat /\ BBChips \in Nat /\ BBCents \in Int /\ -BBChips \in Int /\ BBChips \in Int
  BY StakesAssumption
<1>2. /\ stack \in [Users -> Nat] /\ stack \in [Users -> Int] /\ Net \in [Users -> Int]
      /\ MoneyOnTable = Total(Net)
  BY NetIsMoney DEF MoneyType, MoneyOK
<1>3. seated = stack
  <2>1. \A u \in Users : seated[u] = stack[u]
    BY DEF EmptyHanded
  <2>2. stack = [u \in Users |-> stack[u]] /\ seated = [u \in Users |-> seated[u]]
    BY <1>2
  <2> HIDE DEF seated
  <2>3. QED
    BY <2>1, <2>2
<1>4. Total(stack) \in Nat /\ Total(stack) \in Int /\ Total(Net) \in Int
  BY <1>2, UsersAssumption, TotalNat, TotalType
<1>5. Surplus = BBCents * Total(stack) - BBChips * Total(Net)
  BY <1>2, <1>3 DEF Surplus
<1>6. \A u \in Users : BBCents * stack[u] \in Int /\ (-BBChips) * Net[u] \in Int
  BY <1>1, <1>2
<1>7. Times(worth, BBCents, stack, Users)
  BY <1>1, <1>2, <1>6 DEF Times
<1>8. Times(owing, -BBChips, Net, Users)
  BY <1>1, <1>2, <1>6 DEF Times
<1>9. ASSUME NEW u \in Users PROVE Gain[u] = worth[u] + owing[u]
  <2> DEFINE n == bought[u] - left[u]
             s == stack[u]
  <2>1. n \in Int /\ s \in Int /\ Net[u] = n
    BY <1>2 DEF Net, MoneyType, MoneyOK
  <2>2. Gain[u] = BBCents * s - BBChips * n /\ worth[u] = BBCents * s /\ owing[u] = (-BBChips) * n
    BY <2>1 DEF Gain
  <2> HIDE DEF n, s, worth, owing
  <2>3. (-BBChips) * n = -(BBChips * n) /\ BBChips * n \in Int /\ BBCents * s \in Int
    BY <1>1, <2>1
  <2>4. QED
    BY <2>2, <2>3
<1>10. worth \in [Users -> Int] /\ owing \in [Users -> Int]
  BY <1>6
<1> HIDE DEF worth, owing, seated
<1>11. Total(worth) = BBCents * Total(stack) /\ Total(owing) = (-BBChips) * Total(Net)
  BY <1>7, <1>8, UsersAssumption, TotalTimes
<1>12. Gain \in [Users -> Int]
  <2>1. Gain = [u \in Users |-> Gain[u]]
    BY DEF Gain
  <2>2. \A u \in Users : Gain[u] \in Int
    BY <1>9, <1>10
  <2>3. QED
    BY <2>1, <2>2
<1>13. Adds(Gain, worth, owing, Users)
  BY <1>9, <1>10, <1>12 DEF Adds
<1>14. Total(Gain) = Total(worth) + Total(owing)
  BY <1>13, UsersAssumption, TotalAdds
<1>15. Total(Gain) = BBCents * Total(stack) - BBChips * Total(Net)
  <2>1. (-BBChips) * Total(Net) = -(BBChips * Total(Net)) /\ BBChips * Total(Net) \in Int
        /\ BBCents * Total(stack) \in Int
    BY <1>1, <1>4
  <2>2. QED
    BY <1>11, <1>14, <2>1
<1>16. QED
  BY <1>2, <1>4, <1>5, <1>12, <1>15 DEF SurplusFacts

LEMMA EvenKeepsSurplus ==
  ASSUME MoneyType, MoneyType', SurplusFacts, SurplusFacts', Even
  PROVE  Surplus' = Surplus
<1>1. ASSUME NEW u \in Users PROVE Gain'[u] = Gain[u]
  <2> DEFINE s == stack[u]
             n == bought[u] - left[u]
             s2 == stack'[u]
             n2 == bought'[u] - left'[u]
  <2>1. s \in Int /\ n \in Int /\ s2 \in Int /\ n2 \in Int
    BY DEF MoneyType, MoneyOK
  <2>2. (bought'[u] - bought[u]) - (left'[u] - left[u]) = n2 - n
    BY DEF MoneyType, MoneyOK
  <2>3. BBCents * (s2 - s) = BBChips * (n2 - n)
    BY <2>2 DEF Even, EvenFor
  <2>4. Gain[u] = BBCents * s - BBChips * n /\ Gain'[u] = BBCents * s2 - BBChips * n2
    BY DEF Gain
  <2> HIDE DEF s, n, s2, n2
  <2>5. /\ BBCents * (s2 - s) = BBCents * s2 - BBCents * s
        /\ BBChips * (n2 - n) = BBChips * n2 - BBChips * n
        /\ BBCents * s2 \in Int /\ BBCents * s \in Int /\ BBChips * n2 \in Int /\ BBChips * n \in Int
    BY <2>1, StakesAssumption
  <2>6. QED
    BY <2>3, <2>4, <2>5
<1>2. Gain' = Gain
  <2>1. Gain = [u \in Users |-> Gain[u]] /\ Gain' = [u \in Users |-> Gain'[u]]
    BY DEF Gain
  <2>2. QED
    BY <1>1, <2>1
<1>3. QED
  BY <1>2 DEF SurplusFacts

\* A hand's end moves to each player what their seat won
\* A hand's end moves to each player what their seat won
LEMMA HandMovesPayouts ==
  ASSUME SeatingInv, MoneyType, phase = "in_hand", NEW d \in Payouts, HandMoves(d)
  PROVE  /\ ForUsers(d) \in [Users -> Int] /\ Total(ForUsers(d)) = 0
         /\ \A u \in Users : /\ stack'[u] = stack[u] + ForUsers(d)[u]
                             /\ u \notin Seated => ForUsers(d)[u] = 0
<1>1. d \in [DealtSeats -> Int] /\ Total(d) = 0
  BY BoundsAssumption DEF Payouts
<1>2. HandBusy /\ SeatingShape
  BY DEF HandBusy, SeatingInv
<1>3. \A i \in DealtSeats : i \in Seats /\ occ[i] = dealt[i] /\ stack[dealt[i]] = start[i] /\ dealt[i] # Nobody
  BY <1>2 DEF DealtSeats, SeatingInv, CardsKeepTheirSeat
<1>4. /\ ForUsers(d) \in [Users -> Int] /\ Total(ForUsers(d)) = 0
      /\ \A i \in DealtSeats : dealt[i] \in Users /\ ForUsers(d)[dealt[i]] = d[i]
      /\ \A u \in Users : (\A i \in DealtSeats : dealt[i] # u) => ForUsers(d)[u] = 0
  BY <1>1, <1>2, ForUsersIs
<1>5. ASSUME NEW u \in Users
      PROVE  /\ stack'[u] = stack[u] + ForUsers(d)[u]
             /\ u \notin Seated => ForUsers(d)[u] = 0
  <2>1. stack'[u] = IF u \in Seated /\ SeatOf(u) \in DealtSeats
                    THEN start[SeatOf(u)] + d[SeatOf(u)] ELSE stack[u]
    BY DEF HandMoves
  <2>2. CASE u \in Seated /\ SeatOf(u) \in DealtSeats
    <3> DEFINE i == SeatOf(u)
    <3>1. occ[i] = u /\ i \in DealtSeats
      BY <1>2, <2>2, SeatOfSeated
    <3> HIDE DEF i
    <3>2. start[i] = stack[u] /\ ForUsers(d)[u] = d[i]
      BY <1>3, <1>4, <3>1
    <3>3. stack'[u] = start[i] + d[i]
      BY <2>1, <2>2 DEF i
    <3>4. QED
      BY <2>2, <3>2, <3>3
  <2>3. CASE ~(u \in Seated /\ SeatOf(u) \in DealtSeats)
    <3>1. ASSUME NEW i \in DealtSeats, dealt[i] = u PROVE FALSE
      <4>1. occ[i] = u /\ i \in Seats
        BY <1>3, <3>1
      <4>2. u \in Seated
        BY <4>1 DEF Seated
      <4>3. SeatOf(u) = i
        <5>1. \A j \in Seats : occ[j] = u => j = i
          BY <4>1, NobodyAssumption DEF SeatingInv, OneSeat
        <5>2. QED
          BY <4>1, <5>1 DEF SeatOf
      <4>4. QED
        BY <2>3, <4>2, <4>3
    <3>2. ForUsers(d)[u] = 0
      BY <1>4, <3>1
    <3>3. stack[u] \in Int
      BY DEF MoneyType, MoneyOK
    <3>4. QED
      BY <2>1, <2>3, <3>2, <3>3
  <2>4. QED
    BY <2>2, <2>3
<1>6. QED
  BY <1>4, <1>5

LEMMA HandKeepsSurplus ==
  ASSUME SeatingInv, MoneyType, MoneyType', SurplusFacts, SurplusFacts',
         phase = "in_hand", NEW d \in Payouts, HandMoves(d)
  PROVE  Total(stack') = Total(stack) /\ Surplus' = Surplus
<1> DEFINE won == ForUsers(d)
<1>1. won \in [Users -> Int] /\ Total(won) = 0 /\ \A u \in Users : stack'[u] = stack[u] + won[u]
  BY HandMovesPayouts
<1> HIDE DEF won
<1>2. stack \in [Users -> Int] /\ stack' \in [Users -> Int]
  BY DEF SurplusFacts
<1>3. Total(stack') = Total(stack) + Total(won)
  BY <1>1, <1>2, UsersAssumption, TotalAdds DEF Adds
<1>4. Total(stack') = Total(stack)
  BY <1>1, <1>3 DEF SurplusFacts
<1>5. Net' = Net
  BY DEF HandMoves, Net
<1>6. QED
  BY <1>4, <1>5 DEF SurplusFacts

\* The money there is to share out
Payable == IF MoneyOnTable < 0 THEN 0 ELSE MoneyOnTable

\* What seat i leaves with: its part of that, to the cent
LEMMA WorthFacts ==
  ASSUME SeatingInv, MoneyType, EmptyHanded, NEW i \in Occupied
  PROVE  LET s == stack[occ[i]]
             pool == Total(stack)
             off == Worth(i) * pool - Payable * s
         IN  /\ Payable \in Nat /\ Worth(i) \in 0 .. Payable /\ s \in 0 .. pool
             /\ Occupied = {i} => Worth(i) = Payable
             /\ pool # 0 => -pool < off /\ off < pool
<1> DEFINE chips == SeatStacks
           money == MoneyOnTable
           shares == Apportion(money, chips)
           t == IF money < 0 THEN 0 ELSE money
           w == [j \in Occupied |-> IF chips[j] < 0 THEN 0 ELSE chips[j]]
<1>0. SeatingShape
  BY DEF SeatingInv
<1>1. money \in Int
  BY MoneyOnTableType
<1>2. Occupied \subseteq Int /\ IsFiniteSet(Occupied) /\ Occupied # {}
  <2>1. Occupied \in SUBSET Seats
    BY DEF Occupied
  <2>2. QED
    BY <2>1, SeatsFinite
<1>3. chips \in [Occupied -> Nat] /\ Total(chips) = Total(stack) /\ chips \in [Occupied -> Int]
  BY SeatStacksAre
<1>4. Worth(i) = shares[i] /\ chips[i] = stack[occ[i]] /\ t = Payable
  BY DEF Worth, SeatStacks, Payable
<1> HIDE DEF chips, money
<1>5. w = chips
  <2>1. \A j \in Occupied : w[j] = chips[j]
    BY <1>3
  <2>2. w = [j \in Occupied |-> w[j]] /\ chips = [j \in Occupied |-> chips[j]]
    BY <1>3
  <2> HIDE DEF w
  <2>3. QED
    BY <2>1, <2>2
<1>6. /\ shares \in [Occupied -> Nat] /\ Total(shares) = t
      /\ Total(w) # 0 => \A j \in Occupied :
           -Total(w) < shares[j] * Total(w) - t * w[j] /\ shares[j] * Total(w) - t * w[j] < Total(w)
  <2>1. LET all == Apportion(money, chips)
            paid == IF money < 0 THEN 0 ELSE money
            held == [j \in Occupied |-> IF chips[j] < 0 THEN 0 ELSE chips[j]]
            pool == Total(held)
        IN  /\ all \in [Occupied -> Nat] /\ Total(all) = paid
            /\ \A j, k \in Occupied : chips[j] <= 0 /\ chips[k] > 0 => all[j] = 0
            /\ pool # 0 => \A j \in Occupied : LET off == all[j] * pool - paid * held[j]
                                              IN  -pool < off /\ off < pool
    BY <1>1, <1>2, <1>3, ApportionTheorem
  <2>2. QED
    BY <2>1
<1>7. t \in Nat
  BY <1>1
<1> HIDE DEF shares, t, w
<1>8. shares[i] \in Nat /\ shares[i] <= t
  BY <1>2, <1>6, TotalNat
<1>9. chips[i] \in Nat /\ chips[i] <= Total(chips) /\ Total(chips) \in Nat
  BY <1>2, <1>3, TotalNat
<1>10. Occupied = {i} => shares[i] = t
  <2>1. ASSUME Occupied = {i} PROVE shares[i] = t
    <3> DEFINE none == [j \in Occupied \ {i} |-> shares[j]]
    <3>1. shares \in [Occupied -> Int]
      BY <1>6
    <3>2. LeftOut(none, shares, i, Occupied)
      BY <3>1 DEF LeftOut
    <3>3. Total(none) = Total(shares) - shares[i]
      BY <1>2, <3>2, TotalWithout
    <3>4. Occupied \ {i} = {} /\ IsFiniteSet({})
      BY <2>1, FS_EmptySet
    <3>5. none \in [{} -> Int] /\ \A j \in {} : none[j] = 0
      BY <3>4
    <3> HIDE DEF none
    <3>6. Total(none) = 0
      BY <3>4, <3>5, TotalZero
    <3>7. QED
      BY <1>6, <1>7, <1>8, <3>3, <3>6
  <2>2. QED
    BY <2>1
<1>11. Total(stack) # 0 => /\ -Total(stack) < shares[i] * Total(stack) - t * chips[i]
                           /\ shares[i] * Total(stack) - t * chips[i] < Total(stack)
  BY <1>3, <1>5, <1>6
<1>12. QED
  BY <1>3, <1>4, <1>7, <1>8, <1>9, <1>10, <1>11

\* Whoever leaves takes their chips off the table and their share of the money
LEMMA LeavesMoves ==
  ASSUME SeatingInv, MoneyType, MoneyType', EmptyHanded, SurplusFacts, SurplusFacts', NEW u \in Users, Leaves(u)
  PROVE  /\ Total(stack') = Total(stack) - stack[u]
         /\ Total(Net') = Total(Net) - Worth(SeatOf(u))
<1> DEFINE share == Worth(SeatOf(u))
           n == Net[u] - share
<1>1. SeatOf(u) \in Occupied /\ SeatingShape
  BY SeatOfSeated DEF Leaves, SeatingInv
<1>2. share \in Nat
  BY <1>1, WorthType
<1>3. /\ stack' = [stack EXCEPT ![u] = 0] /\ left' = [left EXCEPT ![u] = @ + share] /\ bought' = bought
  BY DEF Leaves
<1> HIDE DEF share
<1>4. /\ stack \in [Users -> Int] /\ stack' \in [Users -> Int] /\ Net \in [Users -> Int] /\ Net' \in [Users -> Int]
      /\ Total(stack) \in Int /\ Total(Net) \in Int
  BY DEF SurplusFacts
<1>5. Becomes(stack', stack, u, 0, Users)
  BY <1>3, <1>4 DEF Becomes
<1>6. /\ bought \in [Users -> Int] /\ left \in [Users -> Int]
  BY DEF MoneyType, MoneyOK
<1>7. Net'[u] = n /\ \A v \in Users \ {u} : Net'[v] = Net[v]
  BY <1>2, <1>3, <1>6 DEF Net
<1>8. Becomes(Net', Net, u, n, Users)
  BY <1>4, <1>7 DEF Becomes
<1>9. Total(stack') = Total(stack) + (0 - stack[u])
  BY <1>5, UsersAssumption, TotalBecomes
<1>10. Total(Net') = Total(Net) + (n - Net[u])
  <2> HIDE DEF n
  <2>1. QED
    BY <1>8, UsersAssumption, TotalBecomes
<1>11. stack[u] \in Int /\ Net[u] \in Int
  BY <1>4
<1>12. Total(stack') = Total(stack) - stack[u]
  BY <1>4, <1>9, <1>11
<1>13. Total(Net') = Total(Net) - share
  BY <1>2, <1>4, <1>10, <1>11
<1>14. QED
  BY <1>12, <1>13 DEF share

Nearly == Size(Surplus') < Size(Surplus) + BBChips /\ (Surplus = 0 /\ WholeStacks => Surplus' = 0)

LEMMA LeavesNearly ==
  ASSUME SeatingInv, MoneyType, MoneyType', EmptyHanded, SurplusFacts, SurplusFacts', NEW u \in Users, Leaves(u)
  PROVE  Nearly
<1> DEFINE a == BBCents
           b == BBChips
           pool == Total(stack)
           net == Total(Net)
           s == stack[u]
           share == Worth(SeatOf(u))
           before == a * pool - b * net
           after == a * (pool - s) - b * (net - share)
<1>1. SeatOf(u) \in Occupied /\ occ[SeatOf(u)] = u /\ u \in Seated
  BY SeatOfSeated DEF Leaves, SeatingInv
<1>2. /\ Payable \in Nat /\ share \in 0 .. Payable /\ s \in 0 .. pool
      /\ pool # 0 => -pool < share * pool - Payable * s /\ share * pool - Payable * s < pool
  BY <1>1, WorthFacts
<1>3. /\ a \in Nat \ {0} /\ b \in Nat \ {0} /\ pool \in Nat /\ net \in Int
      /\ Payable = IF net < 0 THEN 0 ELSE net
  BY StakesAssumption DEF SurplusFacts, Payable
<1>4. Surplus = before /\ Surplus' = after
  BY LeavesMoves DEF SurplusFacts
<1>5. before \in Int /\ after \in Int
  BY <1>2, <1>3
<1>6. ASSUME Surplus = 0, WholeStacks PROVE \E w \in Int : a * s = b * w
  <2>1. (s * a) % b = 0 /\ s * a \in Int /\ s * a = a * s
    BY <1>1, <1>2, <1>3, <1>6 DEF WholeStacks
  <2> HIDE DEF a, b, s
  <2> DEFINE x == s * a
  <2> HIDE DEF x
  <2>2. x % b = x - b * (x \div b) /\ x \div b \in Int
    BY <1>3, <2>1, DivMod DEF x
  <2>3. b * (x \div b) \in Int
    BY <1>3, <2>2
  <2>4. x = b * (x \div b)
    BY <2>1, <2>2, <2>3 DEF x
  <2>5. QED
    BY <2>1, <2>2, <2>4 DEF x
<1> HIDE DEF a, b, pool, net, s, share
<1>7. CASE net >= 0
  <2>1. Payable = net /\ net \in Nat
    BY <1>3, <1>7
  <2> DEFINE m == Size(before)
  <2>2. m \in Nat /\ before <= m /\ -before <= m
    <3> HIDE DEF before
    <3>1. QED
      BY <1>5 DEF Size
  <2> HIDE DEF m
  <2>3. after < m + b /\ -after < m + b
    BY <1>2, <1>3, <2>1, <2>2, PayingIsNear
  <2>4. Size(after) < m + b
    <3> HIDE DEF after
    <3>1. QED
      BY <2>3 DEF Size
  <2>5. ASSUME Surplus = 0, WholeStacks PROVE after = 0
    <3>1. PICK w \in Int : a * s = b * w
      BY <1>6, <2>5
    <3>2. a * pool = b * net
      <4>1. a * pool - b * net = 0 /\ a * pool \in Int /\ b * net \in Int
        BY <1>3, <1>4, <2>5
      <4>2. QED
        BY <4>1
    <3>3. share \in 0 .. net /\ (pool # 0 => -pool < share * pool - net * s /\ share * pool - net * s < pool)
      BY <1>2, <2>1
    <3>4. /\ a \in Nat \ {0} /\ b \in Nat \ {0} /\ pool \in Nat /\ s \in 0 .. pool
          /\ net \in Nat /\ share \in 0 .. net /\ w \in Int
      BY <1>2, <1>3, <2>1, <3>1, <3>3
    <3>5. FairShare(share, s, net, pool) /\ AtRate(a, pool, b, net) /\ AtRate(a, s, b, w)
      BY <3>1, <3>2, <3>3 DEF FairShare, AtRate
    <3>6. Owing(a, pool - s, b, net - share) = 0
      BY <3>4, <3>5, PayingIsExact
    <3>7. QED
      BY <3>6 DEF after, Owing
  <2>6. QED
    BY <1>4, <2>4, <2>5 DEF Nearly, m, b
<1>8. CASE net < 0
  <2>1. share = 0
    BY <1>2, <1>3, <1>8
  <2>2. a * (pool - s) \in Nat /\ a * s \in Nat /\ a * (pool - s) = a * pool - a * s
    <3>1. pool - s \in Nat /\ s \in Nat /\ a \in Nat /\ pool \in Nat
      BY <1>2, <1>3
    <3>2. \A i, j \in Nat : i * j \in Nat
      OBVIOUS
    <3>3. QED
      BY <3>1, <3>2
  <2>3. b * net < 0 /\ b * net \in Int
    <3>1. -net \in Nat \ {0} /\ b \in Nat
      BY <1>3, <1>8
    <3>2. b * (-net) >= b /\ b * (-net) = -(b * net) /\ b * net \in Int
      BY <1>3, <3>1, TimesGrows
    <3>3. QED
      BY <1>3, <3>2
  <2>4. net - share = net
    BY <1>3, <2>1
  <2>5. after = a * (pool - s) - b * net /\ a * pool \in Int
    BY <1>3, <2>4
  <2>6. 0 < after /\ after <= before /\ 0 < before
    <3> DEFINE x == a * (pool - s)
               y == a * pool
               z == b * net
               r == a * s
    <3>1. x \in Nat /\ r \in Nat /\ x = y - r /\ z < 0 /\ z \in Int /\ y \in Int
      BY <2>2, <2>3, <2>5
    <3>2. after = x - z /\ before = y - z
      BY <2>5
    <3> HIDE DEF x, y, z, r, after, before
    <3>3. QED
      BY <3>1, <3>2
  <2>7. Size(after) = after /\ Size(before) = before
    <3> HIDE DEF after, before
    <3>1. QED
      BY <1>5, <2>6 DEF Size
  <2>8. Size(after) < Size(before) + b /\ before # 0
    <3> HIDE DEF after, before
    <3>1. QED
      BY <1>3, <1>5, <2>6, <2>7
  <2>9. QED
    BY <1>4, <2>8 DEF Nearly, b
<1>9. QED
  BY <1>3, <1>7, <1>8

\* A closing pays out all the money there is
LEMMA NothingToShare ==
  ASSUME SeatingShape, MoneyType, MoneyOnTable < 0
  PROVE  \A i \in Seats : ClosingShare[i] = 0
<1> DEFINE money == MoneyOnTable
           Bad == {i \in Seats : ClosingMoney[i] # money}
<1>1. money \in Int /\ money < 0
  BY MoneyOnTableType
<1>2. ASSUME NEW i \in Seats PROVE ShareOf(money, i) = 0
  <2>1. CASE occ[i] = Nobody
    BY <2>1 DEF ShareOf
  <2>2. CASE occ[i] # Nobody
    <3> DEFINE shares == Apportion(money, [j \in FromSeat(i) |-> stack[occ[j]]])
    <3>1. i \in FromSeat(i) /\ FromSeat(i) \in SUBSET Occupied /\ FromSeat(i) \in SUBSET Seats
      BY <2>2 DEF FromSeat, Occupied, Seats
    <3>2. ShareOf(money, i) = shares[i]
      BY <2>2 DEF ShareOf, FromSeat
    <3>3. shares \in [FromSeat(i) -> Nat] /\ Total(shares) = 0
      <4> HIDE DEF money
      <4>1. QED
        BY <1>1, <3>1, SharesType
    <3>4. IsFiniteSet(FromSeat(i))
      BY <3>1, SeatsFinite
    <3> HIDE DEF shares
    <3>5. shares[i] \in Nat /\ shares[i] <= 0
      BY <3>1, <3>3, <3>4, TotalNat
    <3>6. QED
      BY <3>2, <3>5
  <2>3. QED
    BY <2>1, <2>2
<1>3. Bad = {}
  <2>1. SUFFICES ASSUME Bad # {} PROVE FALSE
    OBVIOUS
  <2>2. PICK n \in Bad : \A i \in Bad : n <= i
    <3>1. Bad \in SUBSET Seats
      OBVIOUS
    <3> HIDE DEF Bad
    <3>2. First(Bad) \in Bad /\ \A i \in Bad : First(Bad) <= i
      BY <2>1, <3>1, FirstIsFirst
    <3>3. QED
      BY <3>2
  <2>3. n \in Seats /\ ClosingMoney[n] # money /\ n \in Int /\ n # 0
    BY ClosingMoneyIs DEF Seats
  <2>4. n - 1 \in Seats /\ (n - 1) + 1 = n /\ ~(n <= n - 1)
    BY <2>3, SeatsAssumption DEF Seats
  <2>5. ClosingMoney[n - 1] = money
    BY <2>2, <2>4
  <2>6. ClosingMoney[(n - 1) + 1] = money - ShareOf(money, n - 1)
    BY <2>4, <2>5, ClosingMoneyIs
  <2>7. ClosingMoney[(n - 1) + 1] = money - 0
    BY <1>2, <2>4, <2>6
  <2>8. QED
    BY <1>1, <2>3, <2>4, <2>7
<1>4. QED
  BY <1>2, <1>3 DEF ClosingShare

LEMMA ClosingPays ==
  ASSUME SeatingInv, MoneyType, Seated # {}
  PROVE  PaidOut \in [Users -> Nat] /\ Total(PaidOut) = Payable
<1>1. PaidOut \in [Users -> Nat] /\ Total(PaidOut) = Total(ClosingShare) /\ SeatingShape
  BY PlayersArePaid DEF SeatingInv
<1>2. MoneyOnTable \in Int
  BY MoneyOnTableType
<1>3. CASE MoneyOnTable < 0
  <2>1. ClosingShare \in [Seats -> Int] /\ \A i \in Seats : ClosingShare[i] = 0
    <3>1. ClosingShare \in [Seats -> Nat]
      BY <1>1, ClosingShareType
    <3>2. QED
      BY <1>1, <1>3, <3>1, NothingToShare
  <2>2. IsFiniteSet(Seats)
    BY SeatsFinite
  <2>3. Total(ClosingShare) = 0
    BY <2>1, <2>2, TotalZero
  <2>4. QED
    BY <1>1, <1>3, <2>3 DEF Payable
<1>4. CASE MoneyOnTable >= 0
  <2>1. Occupied # {}
    BY NobodyAssumption DEF Occupied, Seated
  <2>2. Total(ClosingShare) = MoneyOnTable
    BY <1>1, <1>4, <2>1, ClosingPaysAll
  <2>3. QED
    BY <1>1, <1>2, <1>4, <2>2 DEF Payable
<1>5. QED
  BY <1>2, <1>3, <1>4

LEMMA ClosesNearly ==
  ASSUME SeatingInv, MoneyType, MoneyType', SurplusFacts, SurplusFacts', Seated # {}, Closes
  PROVE  Nearly
<1> DEFINE a == BBCents
           b == BBChips
           pool == Total(stack)
           net == Total(Net)
<1>1. PaidOut \in [Users -> Nat] /\ Total(PaidOut) = Payable /\ PaidOut \in [Users -> Int]
  BY ClosingPays
<1>2. /\ a \in Nat \ {0} /\ b \in Nat \ {0} /\ pool \in Nat /\ net \in Int
      /\ Payable = IF net < 0 THEN 0 ELSE net
  BY StakesAssumption DEF SurplusFacts, Payable
<1>3. Surplus = a * pool - b * net
  BY DEF SurplusFacts
<1>4. Total(stack') = 0
  <2>1. \A u \in Users : stack'[u] = 0
    BY DEF Closes
  <2>2. stack' \in [Users -> Int]
    BY DEF SurplusFacts
  <2>3. QED
    BY <2>1, <2>2, UsersAssumption, TotalZero
<1>5. Total(Net) = Total(Net') + Total(PaidOut)
  <2>1. ASSUME NEW u \in Users PROVE Net[u] = Net'[u] + PaidOut[u]
    <3>1. left'[u] = left[u] + PaidOut[u] /\ bought'[u] = bought[u]
      <4>1. left'[u] = IF u \in Seated THEN left[u] + ClosingShare[SeatOf(u)] ELSE left[u]
        BY DEF Closes
      <4>2. left[u] \in Int
        BY DEF MoneyType, MoneyOK
      <4>3. QED
        BY <4>1, <4>2 DEF PaidOut, Closes
    <3>2. PaidOut[u] \in Int /\ left[u] \in Int /\ bought[u] \in Int
      BY <1>1 DEF MoneyType, MoneyOK
    <3>3. Net[u] = bought[u] - left[u] /\ Net'[u] = bought'[u] - left'[u]
      BY DEF Net
    <3> HIDE DEF Net
    <3>4. QED
      BY <3>1, <3>2, <3>3
  <2>2. Net \in [Users -> Int] /\ Net' \in [Users -> Int]
    BY DEF SurplusFacts
  <2>3. Adds(Net, Net', PaidOut, Users)
    BY <1>1, <2>1, <2>2 DEF Adds
  <2>4. QED
    BY <2>3, UsersAssumption, TotalAdds
<1>6. Total(Net') \in Int /\ Surplus' = a * Total(stack') - b * Total(Net')
  BY DEF SurplusFacts
<1> HIDE DEF a, b, pool
<1>7. a * 0 = 0 /\ b * 0 = 0 /\ a * pool \in Nat /\ b * net \in Int
  BY <1>2
<1>8. CASE net >= 0
  <2>1. Total(Net') = 0
    BY <1>1, <1>2, <1>5, <1>6, <1>8
  <2>2. Surplus' = 0
    BY <1>4, <1>6, <1>7, <2>1
  <2>3. Size(Surplus') = 0 /\ Size(Surplus) >= 0
    <3>1. Surplus \in Int
      BY <1>3, <1>7
    <3>2. QED
      BY <2>2, <3>1 DEF Size
  <2>4. Size(Surplus) \in Int
    BY <1>3, <1>7 DEF Size
  <2>5. Size(Surplus') < Size(Surplus) + b
    BY <1>2, <2>3, <2>4
  <2>6. QED
    BY <2>2, <2>5 DEF Nearly, b
<1>9. CASE net < 0
  <2>1. Total(Net') = net
    BY <1>1, <1>2, <1>5, <1>6, <1>9
  <2>2. Surplus' = -(b * net)
    BY <1>4, <1>6, <1>7, <2>1
  <2>3. b * net < 0
    <3>1. -net \in Nat \ {0} /\ b \in Nat
      BY <1>2, <1>9
    <3>2. b * (-net) >= b /\ b * (-net) = -(b * net)
      BY <1>2, <3>1, TimesGrows
    <3>3. QED
      BY <1>2, <1>7, <3>2
  <2>4. 0 < Surplus' /\ Surplus' <= Surplus /\ Surplus \in Int /\ Surplus' \in Int
    BY <1>3, <1>7, <2>2, <2>3
  <2>5. Size(Surplus') = Surplus' /\ Size(Surplus) = Surplus
    <3>1. \A n \in Int : 0 < n => Size(n) = n
      BY DEF Size
    <3>2. 0 < Surplus
      BY <2>4
    <3>3. QED
      BY <2>4, <3>1, <3>2
  <2>6. Size(Surplus') < Size(Surplus) + b /\ Surplus # 0
    BY <1>2, <2>4, <2>5
  <2>7. QED
    BY <2>6 DEF Nearly, b
<1>10. QED
  BY <1>2, <1>8, <1>9

\* A closing of a table nobody sits at changes nothing
LEMMA ClosesNothing ==
  ASSUME MoneyType, EmptyHanded, Closes, Seated = {}
  PROVE  Still
<1>1. stack' = stack
  <2>1. \A u \in Users : stack'[u] = stack[u]
    BY DEF Closes, EmptyHanded
  <2>2. stack' = [u \in Users |-> stack'[u]] /\ stack = [u \in Users |-> stack[u]]
    BY DEF Closes, MoneyType, MoneyOK
  <2>3. QED
    BY <2>1, <2>2
<1>2. left' = left
  <2>1. left' = [u \in Users |-> left[u]] /\ left = [u \in Users |-> left[u]]
    BY DEF Closes, MoneyType, MoneyOK
  <2>2. QED
    BY <2>1
<1>3. QED
  BY <1>1, <1>2 DEF Closes, Still

\* Whoever gets up is paid, so totals only grow
LEMMA MovesOnlyAdd ==
  ASSUME Divides, SeatingInv, MoneyType, Moved
  PROVE  \A u \in Users : bought'[u] >= bought[u] /\ left'[u] >= left[u]
<1>0. /\ \A u \in Users : bought[u] \in Nat /\ left[u] \in Nat
      /\ DOMAIN bought = Users /\ DOMAIN left = Users /\ SeatingShape
  BY DEF MoneyType, MoneyOK, SeatingInv
<1>1. ASSUME NEW u \in Users, Leaves(u)
      PROVE  \A v \in Users : bought'[v] >= bought[v] /\ left'[v] >= left[v]
  <2>1. Worth(SeatOf(u)) \in Nat
    <3>1. SeatOf(u) \in Occupied
      BY <1>0, <1>1, SeatOfSeated DEF Leaves
    <3>2. QED
      BY <1>0, <3>1, WorthType
  <2> DEFINE share == Worth(SeatOf(u))
  <2>2. left' = [left EXCEPT ![u] = @ + share] /\ bought' = bought
    BY <1>1 DEF Leaves
  <2>3. share \in Nat
    BY <2>1
  <2> HIDE DEF share
  <2>4. QED
    BY <1>0, <2>2, <2>3
<1>2. CASE Closes
  <2>1. \A u \in Seated : ClosingShare[SeatOf(u)] \in Nat
    <3>1. \A u \in Seated : SeatOf(u) \in Seats
      BY <1>0, SeatOfSeated DEF Occupied
    <3>2. QED
      BY <1>0, <3>1, ClosingShareType
  <2>2. QED
    BY <1>0, <1>2, <2>1 DEF Closes
<1>3. CASE Trades
  BY <1>3, TradesAreEven DEF Even, EvenFor
<1>4. QED
  BY <1>1, <1>2, <1>3 DEF Moved, Trades

\* No result of a hand is lost: no write fails, or the table never restarts
KeepsResults == MaxFaults = 0 \/ MaxRestarts = 0
SavedAtOnce == MaxFaults = 0 => owed = {}

LEMMA NoFault ==
  ASSUME MaxFaults = 0, CountersType, NEW toSave, PersistSafe(toSave)
  PROVE  /\ owed' = {} /\ results' = Recorded(results, toSave)
         /\ SaveRows({u \in Users : \E i \in Seats : occ'[i] = u})
<1>1. ~Fault
  BY DEF Fault, CountersType
<1>2. toSave \ {} = toSave
  OBVIOUS
<1>3. QED
  BY <1>1, <1>2 DEF PersistSafe

LEMMA StepSavedAtOnce ==
  ASSUME CountersType, SavedAtOnce, [Next]_vars
  PROVE  SavedAtOnce'
<1>1. ASSUME MaxFaults = 0 PROVE owed' = {}
  <2>1. CASE EndHand
    BY <1>1, <2>1, NoFault DEF EndHand
  <2>2. CASE ~EndHand
    BY <1>1, <2>2, StepRecords, NoFault DEF SavedAtOnce
  <2>3. QED
    BY <2>1, <2>2
<1>2. QED
  BY <1>1 DEF SavedAtOnce

TableInv == RowsInv /\ TypeInv /\ EmptyHanded

\* A table that owes the database nothing has it in its rows as it is in memory
RowsAreThis == dbStack = stack /\ dbBought = bought /\ dbLeft = left

LEMMA RowsAreMemory == TableInv /\ owed = {} => RowsAreThis
<1> SUFFICES ASSUME TableInv, owed = {} PROVE RowsAreThis
  OBVIOUS
<1>1. \A u \in Users : dbStack[u] = stack[u]
  BY DEF TableInv, RowsInv, SavedInv, StacksSaved, EmptyHanded
<1>2. \A u \in Users : dbBought[u] = bought[u] /\ dbLeft[u] = left[u]
  BY DEF TableInv, RowsInv, MoneyInv
<1>3. /\ stack \in [Users -> Nat] /\ dbStack \in [Users -> Nat] /\ bought \in [Users -> Nat]
      /\ dbBought \in [Users -> Nat] /\ left \in [Users -> Nat] /\ dbLeft \in [Users -> Nat]
  BY DEF TableInv, TypeInv, MoneyType, MoneyOK
<1>4. QED
  BY <1>1, <1>2, <1>3 DEF RowsAreThis

LEMMA TableSurplus == TableInv => SurplusFacts
BY SurplusIs DEF TableInv, RowsInv, TypeInv

LEMMA InitTable == Init => TableInv
<1> SUFFICES ASSUME Init PROVE TableInv
  OBVIOUS
<1>1. stack = [u \in Users |-> 0] /\ dbStack = stack
  BY DEF Init
<1>2. EmptyHanded
  BY <1>1 DEF EmptyHanded
<1>3. QED
  BY <1>2, InitRows, InitTypes DEF TableInv

LEMMA StepTable ==
  ASSUME LandingFaults = FALSE, TableInv, [Next]_vars
  PROVE  TableInv'
<1>1. SeatingInv /\ Attached /\ MoneyInv /\ SavedInv /\ MoneyType /\ EmptyHanded
  BY DEF TableInv, RowsInv, TypeInv
<1>2. EmptyHanded'
  BY <1>1, StepMoves, StepEmptyHanded
<1>3. QED
  BY <1>2, StepRows, StepTypes DEF TableInv

\* A restart that finds nothing owed leaves the table what it was
LEMMA RestartIsStill ==
  ASSUME TableInv, owed = {}, Restart
  PROVE  Still
<1>1. occ' = occ
  BY RestartSeats DEF TableInv, RowsInv
<1>2. Seated' = Seated
  BY <1>1 DEF Seated
<1>3. stack' = stack /\ bought' = bought /\ left' = left
  BY RowsAreMemory DEF Restart, RowsAreThis
<1>4. QED
  BY <1>2, <1>3 DEF Still

\* Every step is one of these
LEMMA MovedIs == Moved <=> Trades \/ Closes \/ \E u \in Users : Leaves(u)
BY DEF Moved, Trades

LEMMA LeavesType ==
  ASSUME NEW u \in Users, Leaves(u)
  PROVE  ~(Seated \subseteq Seated')
BY DEF Leaves

\* No step but a restart that loses a hand changes what the chips are worth beyond
\* the money, except for the less than a cent a cash-out is rounded by
LEMMA StepKeepsWorth ==
  ASSUME Divides, LandingFaults = FALSE, TableInv, [Next]_vars
  PROVE  WorthIsKept \/ (owed # {} /\ restarts' # restarts)
<1>0. SeatingInv /\ Attached /\ MoneyInv /\ SavedInv /\ MoneyType /\ EmptyHanded /\ CountersType
  BY DEF TableInv, RowsInv, TypeInv
<1>1. TableInv' /\ MoneyType'
  BY StepTable DEF TableInv, TypeInv
<1>2. SurplusFacts /\ SurplusFacts'
  <2>1. (TableInv => SurplusFacts)'
    BY TableSurplus, PTL
  <2>2. QED
    BY <1>1, <2>1, TableSurplus
<1>3. ASSUME Trades PROVE WorthIsKept
  <2>1. Even /\ Seated \subseteq Seated'
    BY <1>0, <1>3, TradesAreEven
  <2>2. Surplus' = Surplus
    BY <1>0, <1>1, <1>2, <2>1, EvenKeepsSurplus
  <2>3. QED
    BY <2>1, <2>2 DEF WorthIsKept
<1>4. ASSUME NEW u \in Users, Leaves(u) PROVE WorthIsKept
  <2>1. Nearly
    BY <1>0, <1>1, <1>2, <1>4, LeavesNearly
  <2>2. ~(Seated \subseteq Seated')
    BY <1>4, LeavesType
  <2>3. QED
    BY <2>1, <2>2 DEF WorthIsKept, Nearly
<1>5. ASSUME Closes PROVE WorthIsKept
  <2>1. CASE Seated = {}
    BY <1>0, <1>3, <1>5, <2>1, ClosesNothing DEF Trades
  <2>2. CASE Seated # {}
    <3>1. Nearly
      BY <1>0, <1>1, <1>2, <1>5, <2>2, ClosesNearly
    <3>2. ~(Seated \subseteq Seated')
      BY <1>5, <2>2 DEF Closes
    <3>3. QED
      BY <3>1, <3>2 DEF WorthIsKept, Nearly
  <2>3. QED
    BY <2>1, <2>2
<1>6. ASSUME phase = "in_hand", NEW d \in Payouts, HandMoves(d) PROVE WorthIsKept
  <2>1. Surplus' = Surplus
    BY <1>0, <1>1, <1>2, <1>6, HandKeepsSurplus
  <2>2. Seated \subseteq Seated'
    BY <1>6 DEF HandMoves
  <2>3. QED
    BY <2>1, <2>2 DEF WorthIsKept
<1>7. ASSUME Restart PROVE WorthIsKept \/ (owed # {} /\ restarts' # restarts)
  <2>1. restarts' # restarts
    BY <1>0, <1>7 DEF Restart, CountersType
  <2>2. CASE owed = {}
    BY <1>3, <1>7, <2>2, RestartIsStill DEF Trades
  <2>3. QED
    BY <2>1, <2>2
<1>8. ASSUME Moved PROVE WorthIsKept
  BY <1>3, <1>4, <1>5, <1>8, MovedIs
<1>9. QED
  BY <1>0, <1>6, <1>7, <1>8, StepMoves

\* The chips on the table are worth the money on it: no step makes or loses any of
\* that worth but a cash-out, by less than a cent and by nothing where there is nothing
\* to round, for every stake at which a cent is a whole number of chips, whatever
\* saves fail, as long as no landing write does (and no restart finds the result of a
\* hand unsaved)
THEOREM SolvencyTheorem ==
  ASSUME LandingFaults = FALSE, BBChips % BBCents = 0
  PROVE  Spec => TableIsSolvent
<1>1. Divides
  BY DEF Divides
<1>2. TableInv /\ [Next]_vars => TableInv'
  BY StepTable
<1>3. TableInv => TypeOK
  BY TypesAreOK DEF TableInv
<1>4. TableInv /\ [Next]_vars
        => [~UNCHANGED <<occ, moneyVars>> => WorthIsKept \/ (owed # {} /\ restarts' # restarts)]_vars
  BY <1>1, StepKeepsWorth
<1>5. QED
  BY InitTable, <1>2, <1>3, <1>4, PTL DEF Spec, TableIsSolvent

\* When a chip is a cent nothing is ever rounded
AtPar == BBChips = BBCents
SolvencyInv == TableInv /\ Surplus = 0 /\ SavedAtOnce

LEMMA InitSolvency == Init => SolvencyInv
<1> SUFFICES ASSUME Init PROVE SolvencyInv
  OBVIOUS
<1>1. stack = [u \in Users |-> 0] /\ bought = stack /\ left = stack /\ owed = {}
  BY DEF Init
<1>2. SurplusFacts /\ TableInv /\ SavedAtOnce
  BY <1>1, InitTable, TableSurplus DEF SavedAtOnce
<1>3. \A u \in Users : Gain[u] = 0
  <2>1. BBCents * 0 = 0 /\ BBChips * 0 = 0
    BY StakesAssumption
  <2>2. QED
    BY <1>1, <2>1 DEF Gain
<1>4. Surplus = 0
  BY <1>2, <1>3, UsersAssumption, TotalZero DEF SurplusFacts
<1>5. QED
  BY <1>2, <1>4 DEF SolvencyInv

LEMMA ParDivides ==
  ASSUME AtPar
  PROVE  Divides /\ \A s \in Nat : (s * BBCents) % BBChips = 0
<1>1. BBCents \in Nat \ {0} /\ BBChips = BBCents
  BY StakesAssumption DEF AtPar
<1>2. ASSUME NEW n \in Nat \ {0}, NEW s \in Nat PROVE (s * n) % n = 0
  <2> DEFINE a == s * n
             q == a \div n
             r == a % n
  <2>1. a \in Int
    OBVIOUS
  <2>2. q \in Int /\ r \in 0 .. n - 1 /\ r = a - n * q
    <3> HIDE DEF a
    <3>1. QED
      BY <2>1, DivMod
  <2>3. a = n * s
    OBVIOUS
  <2> HIDE DEF a, q, r
  <2>4. n * q <= n * s /\ n * s < n * (q + 1)
    <3>1. n * (q + 1) = n * q + n /\ n * q \in Int /\ n * s \in Int
      BY <2>2
    <3>2. QED
      BY <2>2, <2>3, <3>1
  <2>5. q + 1 \in Int /\ s \in Int
    BY <2>2
  <2>6. q <= s /\ s < q + 1
    BY <2>2, <2>4, <2>5, Cancelled
  <2>7. q = s
    BY <2>2, <2>6
  <2>8. r = 0
    <3>1. n * s \in Int
      OBVIOUS
    <3>2. QED
      BY <2>2, <2>3, <2>7, <3>1
  <2>9. QED
    BY <2>8 DEF r, a
<1>3. Divides
  <2>1. (1 * BBCents) % BBCents = 0 /\ 1 * BBCents = BBCents
    BY <1>1, <1>2
  <2>2. QED
    BY <1>1, <2>1 DEF Divides
<1>4. QED
  BY <1>1, <1>2, <1>3

LEMMA StepSolvency ==
  ASSUME LandingFaults = FALSE, AtPar, KeepsResults, SolvencyInv, [Next]_vars
  PROVE  SolvencyInv'
<1>0. TableInv /\ CountersType /\ MoneyType /\ Surplus = 0
  BY DEF SolvencyInv, TableInv, TypeInv
<1>1. TableInv' /\ SavedAtOnce'
  BY <1>0, StepTable, StepSavedAtOnce DEF SolvencyInv
<1>2. ASSUME restarts' # restarts PROVE owed = {}
  <2>1. MaxRestarts # 0
    <3>1. Restart
      BY <1>2, OnlyRestartCounts
    <3>2. restarts < MaxRestarts /\ restarts \in 0 .. MaxRestarts
      BY <1>0, <3>1 DEF Restart, CountersType
    <3>3. QED
      BY <3>2, BoundsAssumption
  <2>2. QED
    BY <2>1 DEF KeepsResults, SolvencyInv, SavedAtOnce
<1>3. WholeStacks
  <2>1. \A u \in Seated : stack[u] \in Nat
    BY <1>0 DEF Seated, MoneyType, MoneyOK
  <2>2. QED
    BY <2>1, ParDivides DEF WholeStacks
<1>4. WorthIsKept
  BY <1>0, <1>2, ParDivides, StepKeepsWorth
<1>5. Surplus' = 0
  BY <1>0, <1>3, <1>4 DEF WorthIsKept
<1>6. QED
  BY <1>1, <1>5 DEF SolvencyInv

-----------------------------------------------------------------------------
(* The abstract money of the table                                           *)

LEMMA SameTotal ==
  ASSUME NEW f
  PROVE  SavedMoney!Total(f) = Total(f)
BY DEF SavedMoney!Total, Total, SumFunction, SumFunctionOnSet, FoldFunctionOnSet, MapThenFoldSet,
       SavedMoney!SumFunction, SavedMoney!SumFunctionOnSet, SavedMoney!FoldFunctionOnSet,
       SavedMoney!MapThenFoldSet

\* A row has a seat when its player has one
SavedSeats == \A u \in Users : dbSeat[u] # NoSeat <=> u \in Seated

LEMMA RowsSeated == TableInv => SavedSeats
<1> SUFFICES ASSUME TableInv PROVE SavedSeats
  OBVIOUS
<1>1. \A u \in Users : dbSeat[u] = SeatIn(occ, u)
  BY DEF TableInv, RowsInv, SavedInv, SeatsSaved
<1>2. QED
  BY <1>1, SeatInFacts DEF Seated, SavedSeats

LEMMA RowsOwnSeats == TableInv => SavedMoney!OwnSeats
<1> SUFFICES ASSUME TableInv PROVE SavedMoney!OwnSeats
  OBVIOUS
<1>1. \A u \in Users : dbSeat[u] = SeatIn(occ, u)
  BY DEF TableInv, RowsInv, SavedInv, SeatsSaved
<1>2. \A u \in Users : dbSeat[u] = NoSeat => u \notin Seated
  BY <1>1, SeatInFacts DEF Seated
<1>3. \A u, v \in Users : dbSeat[u] = dbSeat[v] /\ dbSeat[u] # NoSeat => u = v
  BY <1>1, SeatInFacts
<1>4. QED
  BY <1>2, <1>3 DEF SavedMoney!OwnSeats, TableInv, EmptyHanded

\* The money to share out is what the rows say is on the table
LEMMA SavedPayable ==
  ASSUME TableInv, owed = {}
  PROVE  SavedMoney!Payable = Payable /\ SavedMoney!Pool = Total(stack)
<1>1. dbStack = stack /\ dbBought = bought /\ dbLeft = left
  BY RowsAreMemory DEF RowsAreThis
<1>2. Net = [u \in Users |-> dbBought[u] - dbLeft[u]]
  BY <1>1 DEF Net
<1>3. MoneyOnTable = Total(Net)
  BY NetIsMoney DEF TableInv, RowsInv, TypeInv
<1>4. SavedMoney!OnTable = Total(Net)
  BY <1>2, SameTotal DEF SavedMoney!OnTable
<1>5. SavedMoney!Pool = Total(stack)
  BY <1>1, SameTotal DEF SavedMoney!Pool
<1>6. QED
  BY <1>3, <1>4, <1>5 DEF SavedMoney!Payable, Payable

\* Both states of a step that owes nothing before or after it
Settled ==
  /\ TableInv /\ owed = {} /\ TableInv' /\ owed' = {}
  /\ RowsAreThis /\ RowsAreThis' /\ SavedSeats /\ SavedSeats'

LEMMA SettledBoth ==
  ASSUME TableInv, owed = {}, TableInv', owed' = {}
  PROVE  Settled
<1>1. (TableInv /\ owed = {} => RowsAreThis)' /\ (TableInv => SavedSeats)'
  BY RowsAreMemory, RowsSeated, PTL
<1>2. QED
  BY <1>1, RowsAreMemory, RowsSeated DEF Settled

LEMMA TradeIsTrade ==
  ASSUME Divides, Settled, Trades, results' = results
  PROVE  SavedMoney!Trade
<1>1. MoneyType /\ MoneyType'
  BY DEF Settled, TableInv, TypeInv
<1>2. Even /\ Seated \subseteq Seated'
  BY <1>1, TradesAreEven
<1>3. ASSUME NEW u \in Users
      PROVE  /\ SavedMoney!In(u) >= 0 /\ SavedMoney!Out(u) >= 0
             /\ BBCents * (dbStack'[u] - dbStack[u]) = BBChips * (SavedMoney!In(u) - SavedMoney!Out(u))
  <2>1. /\ bought'[u] >= bought[u] /\ left'[u] >= left[u]
        /\ BBCents * (stack'[u] - stack[u]) = BBChips * ((bought'[u] - bought[u]) - (left'[u] - left[u]))
    BY <1>2 DEF Even, EvenFor
  <2>2. bought'[u] \in Int /\ bought[u] \in Int /\ left'[u] \in Int /\ left[u] \in Int
    BY <1>1 DEF MoneyType, MoneyOK
  <2>3. bought'[u] - bought[u] >= 0 /\ left'[u] - left[u] >= 0
    BY <2>1, <2>2
  <2>4. SavedMoney!In(u) = bought'[u] - bought[u] /\ SavedMoney!Out(u) = left'[u] - left[u]
    BY DEF SavedMoney!In, SavedMoney!Out, Settled, RowsAreThis
  <2>5. dbStack'[u] = stack'[u] /\ dbStack[u] = stack[u]
    BY DEF Settled, RowsAreThis
  <2>6. QED
    BY <2>1, <2>3, <2>4, <2>5
<1>4. \A u \in Users : dbSeat[u] # NoSeat => dbSeat'[u] # NoSeat
  BY <1>2 DEF Settled, SavedSeats
<1>5. QED
  BY <1>3, <1>4 DEF SavedMoney!Trade

LEMMA LeaveIsGetUp ==
  ASSUME Settled, NEW u \in Users, Leaves(u), results' = results
  PROVE  SavedMoney!GetUp(u)
<1> DEFINE i == SeatOf(u)
           share == Worth(SeatOf(u))
<1>1. SeatingInv /\ SeatingShape /\ MoneyType /\ EmptyHanded
  BY DEF Settled, TableInv, RowsInv, TypeInv, SeatingInv
<1>2. i \in Occupied /\ occ[i] = u /\ u \in Seated
  BY <1>1, SeatOfSeated DEF Leaves
<1>3. /\ Payable \in Nat /\ share \in 0 .. Payable
      /\ Occupied = {i} => share = Payable
      /\ Total(stack) # 0 =>
           /\ -Total(stack) < share * Total(stack) - Payable * stack[u]
           /\ share * Total(stack) - Payable * stack[u] < Total(stack)
  BY <1>1, <1>2, WorthFacts
<1>4. SavedMoney!Payable = Payable /\ SavedMoney!Pool = Total(stack) /\ Total(stack) \in Nat
  BY SavedPayable, TableSurplus DEF Settled, SurplusFacts
<1>5. /\ dbStack = stack /\ dbBought = bought /\ dbLeft = left
      /\ dbStack' = stack' /\ dbBought' = bought' /\ dbLeft' = left'
  BY DEF Settled, RowsAreThis
<1>6. stack' = [stack EXCEPT ![u] = 0] /\ left' = [left EXCEPT ![u] = @ + share] /\ bought' = bought
  BY DEF Leaves
<1> HIDE DEF share
<1>7. DOMAIN left = Users /\ \A v \in Users : left[v] \in Nat
  BY <1>1 DEF MoneyType, MoneyOK
<1>8. SavedMoney!Out(u) = share /\ \A v \in Users \ {u} : SavedMoney!Out(v) = 0
  BY <1>3, <1>5, <1>6, <1>7 DEF SavedMoney!Out
<1>9. dbSeat[u] # NoSeat /\ dbSeat' = [dbSeat EXCEPT ![u] = NoSeat]
  <2>1. u \notin Seated'
    BY DEF Leaves
  <2>2. dbSeat[u] # NoSeat /\ dbSeat'[u] = NoSeat
    BY <1>2, <2>1 DEF Settled, SavedSeats
  <2>3. \A v \in Users : dbSeat[v] = SeatIn(occ, v) /\ dbSeat'[v] = SeatIn(occ', v)
    BY DEF Settled, TableInv, RowsInv, SavedInv, SeatsSaved
  <2>4. \A v \in Users \ {u} : dbSeat'[v] = dbSeat[v]
    BY <2>3 DEF Leaves
  <2>5. dbSeat \in [Users -> Seats \cup {NoSeat}] /\ dbSeat' \in [Users -> Seats \cup {NoSeat}]
    BY DEF Settled, TableInv, TypeInv, FlagType
  <2>6. QED
    BY <2>2, <2>4, <2>5
<1>10. ASSUME \A v \in Users \ {u} : dbSeat[v] = NoSeat PROVE share = Payable
  <2>1. \A v \in Users \ {u} : v \notin Seated
    BY <1>10 DEF Settled, SavedSeats
  <2>2. ASSUME NEW j \in Occupied PROVE j = i
    <3>1. j \in Seats /\ i \in Seats /\ occ[j] \in Users /\ occ[j] # Nobody
      BY <1>1, <1>2, <2>2 DEF Occupied, SeatingShape
    <3>2. occ[j] \in Seated
      BY <3>1 DEF Seated
    <3>3. occ[j] = occ[i]
      BY <1>2, <2>1, <3>1, <3>2
    <3> HIDE DEF i
    <3>4. QED
      BY <1>1, <3>1, <3>3 DEF SeatingInv, OneSeat
  <2>3. Occupied = {i}
    <3> HIDE DEF i
    <3>1. QED
      BY <1>2, <2>2
  <2>4. QED
    BY <1>3, <2>3
<1>11. SavedMoney!Pool > 0 =>
         /\ -SavedMoney!Pool < SavedMoney!Out(u) * SavedMoney!Pool - SavedMoney!Payable * dbStack[u]
         /\ SavedMoney!Out(u) * SavedMoney!Pool - SavedMoney!Payable * dbStack[u] < SavedMoney!Pool
  <2> DEFINE pool == Total(stack)
  <2>1. pool > 0 => pool # 0
    BY <1>4
  <2> HIDE DEF pool
  <2>2. pool > 0 => -pool < share * pool - Payable * stack[u] /\ share * pool - Payable * stack[u] < pool
    BY <1>3, <2>1 DEF pool
  <2>3. SavedMoney!Pool = pool /\ SavedMoney!Out(u) = share /\ dbStack[u] = stack[u]
    BY <1>4, <1>5, <1>8 DEF pool
  <2>4. QED
    BY <1>4, <2>2, <2>3
<1>12. dbStack' = [dbStack EXCEPT ![u] = 0] /\ dbBought' = dbBought
  BY <1>5, <1>6
<1>13. SavedMoney!Out(u) \in 0 .. SavedMoney!Payable
  BY <1>3, <1>4, <1>8
<1>14. (\A v \in Users \ {u} : dbSeat[v] = NoSeat) => SavedMoney!Out(u) = SavedMoney!Payable
  BY <1>4, <1>8, <1>10
<1>15. QED
  BY <1>8, <1>9, <1>11, <1>12, <1>13, <1>14 DEF SavedMoney!GetUp

LEMMA CloseIsAllGetUp ==
  ASSUME Settled, Closes, results' = results
  PROVE  SavedMoney!AllGetUp
<1>1. SeatingInv /\ SeatingShape /\ MoneyType /\ MoneyType' /\ EmptyHanded
  BY DEF Settled, TableInv, RowsInv, TypeInv, SeatingInv
<1>2. /\ dbStack' = stack' /\ dbBought' = bought' /\ dbBought = bought
      /\ dbLeft = left /\ dbLeft' = left'
  BY DEF Settled, RowsAreThis
<1>3. \A u \in Users : dbSeat'[u] = NoSeat /\ dbStack'[u] = 0
  BY <1>2 DEF Closes, Settled, SavedSeats
<1>4. PaidOut \in [Users -> Nat] /\ Total(PaidOut) = Total(ClosingShare)
  BY <1>1, PlayersArePaid
<1>5. \A u \in Users : left'[u] = left[u] + PaidOut[u] /\ left[u] \in Nat /\ left'[u] \in Nat /\ PaidOut[u] \in Nat
  <2>1. ASSUME NEW u \in Users PROVE left'[u] = left[u] + PaidOut[u]
    <3>1. left'[u] = IF u \in Seated THEN left[u] + ClosingShare[SeatOf(u)] ELSE left[u]
      BY DEF Closes
    <3>2. left[u] \in Int
      BY <1>1 DEF MoneyType, MoneyOK
    <3>3. QED
      BY <3>1, <3>2 DEF PaidOut
  <2>2. QED
    BY <1>1, <1>4, <2>1 DEF MoneyType, MoneyOK
<1>6. \A u \in Users : SavedMoney!Out(u) = PaidOut[u]
  BY <1>2, <1>5 DEF SavedMoney!Out
<1>7. \A u \in Users : dbSeat[u] = NoSeat => PaidOut[u] = 0
  BY DEF Settled, SavedSeats, PaidOut
<1>8. ASSUME NEW u \in Users, dbSeat[u] # NoSeat
      PROVE  SavedMoney!Total(dbLeft') = SavedMoney!Total(dbLeft) + SavedMoney!Payable
  <2>1. Seated # {}
    BY <1>8 DEF Settled, SavedSeats
  <2>2. Total(PaidOut) = Payable
    BY <1>1, <2>1, ClosingPays
  <2>3. left' \in [Users -> Int] /\ left \in [Users -> Int] /\ PaidOut \in [Users -> Int]
    BY <1>1, <1>4 DEF MoneyType, MoneyOK
  <2>4. Adds(left', left, PaidOut, Users)
    BY <1>5, <2>3 DEF Adds
  <2>5. Total(left') = Total(left) + Total(PaidOut)
    BY <2>4, UsersAssumption, TotalAdds
  <2>6. SavedMoney!Payable = Payable
    BY SavedPayable DEF Settled
  <2>7. QED
    BY <1>2, <2>2, <2>5, <2>6, SameTotal
<1>9. bought' = bought
  BY DEF Closes
<1>10. \A u \in Users : SavedMoney!Out(u) >= 0 /\ (dbSeat[u] = NoSeat => SavedMoney!Out(u) = 0)
  BY <1>5, <1>6, <1>7
<1>11. QED
  BY <1>2, <1>3, <1>8, <1>9, <1>10 DEF SavedMoney!AllGetUp

\* The rows of a hand's save that got through
LEMMA HandIsHand ==
  ASSUME Settled, NumbersInv, phase = "in_hand", NEW d \in Payouts, HandMoves(d), faults \in Nat
  PROVE  SavedMoney!Hand \/ SavedMoney!HandUnrecorded
<1> DEFINE h == Record(d)
<1>0. SeatingInv /\ MoneyType /\ MoneyType'
  BY DEF Settled, TableInv, TypeInv
<1>1. /\ ForUsers(d) \in [Users -> Int] /\ Total(ForUsers(d)) = 0
      /\ \A u \in Users : /\ stack'[u] = stack[u] + ForUsers(d)[u]
                          /\ u \notin Seated => ForUsers(d)[u] = 0
  BY <1>0, HandMovesPayouts
<1>2. h.no = meta.handNo /\ h.delta = ForUsers(d)
  BY DEF Record
<1> HIDE DEF h
<1>3. \A g \in results : g.no < h.no
  BY <1>2 DEF NumbersInv
<1>4. results' = results \cup {h} \/ (results' = results /\ faults' = faults + 1)
  <2>1. PersistSafe({h})
    <3>1. owed \cup {h} = {h}
      BY DEF Settled
    <3>2. PersistSafe(owed \cup {h})
      BY DEF HandMoves, h
    <3>3. QED
      BY <3>1, <3>2
  <2>2. CASE \E lost \in SUBSET {h} :
               /\ IF lost = {} THEN UNCHANGED faults ELSE Fault
               /\ results' = Recorded(results, {h} \ lost)
    <3>1. PICK lost \in SUBSET {h} :
               /\ IF lost = {} THEN UNCHANGED faults ELSE Fault
               /\ results' = Recorded(results, {h} \ lost)
      BY <2>2
    <3>2. CASE lost = {}
      <4>1. results' = Recorded(results, {h})
        <5>1. {h} \ lost = {h}
          BY <3>2
        <5>2. QED
          BY <3>1, <5>1
      <4>2. \A g \in results : g.no # h.no
        BY <1>2, <1>3 DEF NumbersInv, MetaShape
      <4>3. QED
        BY <4>1, <4>2 DEF Recorded
    <3>3. CASE lost # {}
      <4>1. {h} \ lost = {} /\ Fault
        BY <3>1, <3>3
      <4>2. results' = Recorded(results, {})
        BY <3>1, <4>1
      <4>3. QED
        BY <4>1, <4>2 DEF Recorded, Fault
    <3>4. QED
      BY <3>2, <3>3
  <2>3. CASE UNCHANGED results /\ Fault
    BY <2>3 DEF Fault
  <2>4. QED
    BY <2>1, <2>2, <2>3 DEF PersistSafe
<1>5. /\ dbStack = stack /\ dbBought = bought /\ dbLeft = left
      /\ dbStack' = stack' /\ dbBought' = bought' /\ dbLeft' = left'
  BY DEF Settled, RowsAreThis
<1>6. bought' = bought /\ left' = left /\ occ' = occ
  BY DEF HandMoves
<1>7. dbSeat' = dbSeat
  <2>1. dbSeat \in [Users -> Seats \cup {NoSeat}] /\ dbSeat' \in [Users -> Seats \cup {NoSeat}]
    BY DEF Settled, TableInv, TypeInv, FlagType
  <2>2. \A u \in Users : dbSeat'[u] = dbSeat[u]
    BY <1>6 DEF Settled, TableInv, RowsInv, SavedInv, SeatsSaved
  <2>3. QED
    BY <2>1, <2>2
<1>8. \A u \in Users : dbSeat[u] = NoSeat => u \notin Seated
  BY DEF Settled, SavedSeats
<1>9. \A u \in Users : /\ dbStack'[u] = dbStack[u] + h.delta[u]
                       /\ dbSeat[u] = NoSeat => h.delta[u] = 0
  BY <1>1, <1>2, <1>5, <1>8
<1>10. SavedMoney!Total(h.delta) = 0
  BY <1>1, <1>2, SameTotal
<1>11. CASE results' = results \cup {h}
  BY <1>3, <1>5, <1>6, <1>7, <1>9, <1>10, <1>11 DEF SavedMoney!Hand
<1>12. CASE results' = results /\ faults' = faults + 1
  <2>1. SavedMoney!Total(dbStack') = SavedMoney!Total(dbStack)
    <3>1. SurplusFacts /\ SurplusFacts'
      <4>1. (TableInv => SurplusFacts)'
        BY TableSurplus, PTL
      <4>2. QED
        BY <4>1, TableSurplus DEF Settled
    <3>2. Total(stack') = Total(stack)
      BY <1>0, <3>1, HandKeepsSurplus
    <3>3. QED
      BY <1>5, <3>2, SameTotal
  <2>2. \A u \in Users : dbSeat[u] = NoSeat => dbStack'[u] = dbStack[u]
    <3>1. \A u \in Users : dbStack[u] \in Int
      BY <1>0 DEF MoneyType, MoneyOK
    <3>2. QED
      BY <1>9, <3>1
  <2>3. QED
    BY <1>5, <1>6, <1>7, <1>12, <2>1, <2>2 DEF SavedMoney!HandUnrecorded
<1>13. QED
  BY <1>4, <1>11, <1>12

\* A save of nothing owed records nothing
LEMMA NothingOwed ==
  ASSUME owed = {}, [Next]_vars, ~EndHand
  PROVE  results' = results /\ owed' = {}
<1>1. CASE results' = results /\ (owed' = owed \/ owed' = {})
  BY <1>1
<1>2. CASE PersistSafe(owed)
  <2>1. Recorded(results, {}) = results /\ \A lost \in SUBSET owed : owed \ lost = {}
    BY DEF Recorded
  <2>2. QED
    BY <1>2, <2>1 DEF PersistSafe
<1>3. QED
  BY <1>1, <1>2, StepRecords

\* While a hand is owed, totals only grow and no record goes
LEMMA OwedStepCatches ==
  ASSUME Divides, LandingFaults = FALSE, TableInv, TableInv', NumbersInv, [Next]_vars
  PROVE  SavedMoney!Catches
<1>0. SeatingInv /\ Attached /\ MoneyInv /\ MoneyType /\ EmptyHanded
  BY DEF TableInv, RowsInv, TypeInv
<1>1. MoneyInv /\ MoneyInv' /\ MoneyType /\ MoneyType'
  BY DEF TableInv, RowsInv, TypeInv
<1>2. results \subseteq results'
  BY StepNumbers DEF Kept
<1>3. \A u \in Users : bought'[u] >= bought[u] /\ left'[u] >= left[u]
  <2>1. CASE Restart
    <3>1. \A u \in Users : bought'[u] = bought[u] /\ left'[u] = left[u]
      BY <1>1, <2>1 DEF Restart, MoneyInv
    <3>2. QED
      BY <1>1, <3>1 DEF MoneyType, MoneyOK
  <2>2. CASE Moved
    BY <1>0, <2>2, MovesOnlyAdd
  <2>3. CASE \E d \in Payouts : HandMoves(d)
    <3>1. bought' = bought /\ left' = left
      BY <2>3 DEF HandMoves
    <3>2. QED
      BY <1>1, <3>1 DEF MoneyType, MoneyOK
  <2>4. QED
    BY <1>0, <2>1, <2>2, <2>3, StepMoves
<1>4. \A u \in Users : /\ dbBought'[u] = bought'[u] /\ dbBought[u] = bought[u]
                       /\ dbLeft'[u] = left'[u] /\ dbLeft[u] = left[u]
  BY <1>1 DEF MoneyInv
<1>5. \A u \in Users : /\ bought'[u] \in Int /\ bought[u] \in Int
                       /\ left'[u] \in Int /\ left[u] \in Int
  BY <1>1 DEF MoneyType, MoneyOK
<1>6. \A u \in Users : SavedMoney!In(u) >= 0 /\ SavedMoney!Out(u) >= 0
  BY <1>3, <1>4, <1>5 DEF SavedMoney!In, SavedMoney!Out
<1>7. QED
  BY <1>2, <1>6 DEF SavedMoney!Catches

LEMMA StepSavedMoney ==
  ASSUME Divides, LandingFaults = FALSE, TableInv, NumbersInv, [Next]_vars
  PROVE  SavedMoney!Next \/ UNCHANGED SavedMoney!vars
<1>0. /\ SeatingInv /\ Attached /\ MoneyInv /\ MoneyType /\ EmptyHanded /\ CountersType
      /\ PassShape /\ faults \in Nat
  BY BoundsAssumption DEF TableInv, RowsInv, TypeInv, SeatingInv, CountersType
<1>1. TableInv'
  BY StepTable
<1>2. faults' >= faults
  BY <1>0, StepFaults
<1>3. SavedMoney!OwnSeats'
  <2>1. (TableInv => SavedMoney!OwnSeats)'
    BY RowsOwnSeats, PTL
  <2>2. QED
    BY <1>1, <2>1
<1>4. CASE owed # {}
  <2>1. SavedMoney!Catches
    BY <1>1, OwedStepCatches
  <2>2. QED
    BY <1>2, <1>3, <1>4, <2>1 DEF SavedMoney!Next
<1>5. CASE owed = {}
  <2>1. ASSUME owed' = {}, SavedMoney!Event PROVE SavedMoney!Next
    BY <1>2, <1>3, <1>5, <2>1 DEF SavedMoney!Next
  <2>2. CASE Restart
    BY <1>5, <2>2 DEF Restart, dbVars, rowVars, SavedMoney!vars, SavedMoney!money
  <2>3. CASE Moved /\ ~EndHand
    <3>1. results' = results /\ owed' = {}
      BY <1>5, <2>3, NothingOwed
    <3>2. Settled
      BY <1>1, <1>5, <3>1, SettledBoth
    <3>3. CASE Trades
      BY <2>1, <3>1, <3>2, <3>3, TradeIsTrade DEF SavedMoney!Event
    <3>4. CASE Closes
      BY <2>1, <3>1, <3>2, <3>4, CloseIsAllGetUp DEF SavedMoney!Event
    <3>5. ASSUME NEW u \in Users, Leaves(u) PROVE SavedMoney!Next
      BY <2>1, <3>1, <3>2, <3>5, LeaveIsGetUp DEF SavedMoney!Event
    <3>6. QED
      BY <2>3, <3>3, <3>4, <3>5, MovedIs
  <2>4. ASSUME phase = "in_hand", NEW d \in Payouts, HandMoves(d) PROVE SavedMoney!Next
    <3>1. CASE owed' = {}
      <4>1. Settled
        BY <1>1, <1>5, <3>1, SettledBoth
      <4>2. SavedMoney!Hand \/ SavedMoney!HandUnrecorded
        BY <1>0, <2>4, <4>1, HandIsHand
      <4>3. QED
        BY <2>1, <3>1, <4>2 DEF SavedMoney!Event
    <3>2. CASE owed' # {}
      <4>1. Fault /\ UNCHANGED <<rowVars, dbMeta, results>>
        BY <2>4, <3>2 DEF HandMoves, PersistSafe
      <4>2. faults' > faults
        BY <1>0, <4>1 DEF Fault
      <4>3. UNCHANGED SavedMoney!money
        BY <4>1 DEF rowVars, SavedMoney!money
      <4>4. QED
        BY <1>2, <1>3, <1>5, <3>2, <4>2, <4>3 DEF SavedMoney!Next
    <3>3. QED
      BY <3>1, <3>2
  <2>5. QED
    BY <1>0, <2>2, <2>3, <2>4, StepMoves
<1>6. QED
  BY <1>4, <1>5

\* Every transaction that commits is a whole business event: the saved rows of the
\* table implement the abstract money of a table (TableMoney), for every stake at
\* which a cent is a whole number of chips, whatever saves fail and whenever the
\* process restarts, as long as no landing write fails
THEOREM SavedMoneyTheorem ==
  ASSUME LandingFaults = FALSE, BBChips % BBCents = 0
  PROVE  Spec => SavedMoneyIsWhole
<1> DEFINE IInv == TableInv /\ NumbersInv
<1>1. Divides
  BY DEF Divides
<1>2. Init => IInv /\ SavedMoney!Init
  <2>1. Init => SavedMoney!Init
    BY DEF Init, SavedMoney!Init
  <2>2. QED
    BY <2>1, InitNumbers, InitTable
<1>3. IInv /\ [Next]_vars => IInv' /\ [SavedMoney!Next]_(SavedMoney!vars)
  BY <1>1, StepTable, StepNumbers, StepSavedMoney DEF Kept
<1>4. QED
  BY <1>2, <1>3, PTL DEF Spec, SavedMoneyIsWhole, SavedMoney!Spec

-----------------------------------------------------------------------------
(* The money of a closed table                                               *)

\* A closed table is saved as closed, and nobody sits or plays at it
StatusInv ==
  /\ dbMeta.status = meta.status
  /\ meta.status = "closed" => Seated = {} /\ ~HandBusy

LEMMA StepMeta ==
  ASSUME [Next]_vars, ~Close, ~Restart
  PROVE  /\ dbMeta' = dbMeta \/ dbMeta' = Saved(meta')
         /\ \/ meta' = meta
            \/ \E h : meta' = [meta EXCEPT !.host = h]
            \/ \E on : meta' = [meta EXCEPT !.running = on]
            \/ \E n : meta' = [meta EXCEPT !.handNo = n]
<1>1. CASE Handler
  <2>1. ASSUME NEW u \in Users, TransferHost(u)
        PROVE  dbMeta' = Saved(meta') /\ \E h : meta' = [meta EXCEPT !.host = h]
    BY <2>1 DEF TransferHost
  <2>2. ASSUME NEW on \in BOOLEAN, SetRunning(on)
        PROVE  dbMeta' = Saved(meta') /\ \E n : meta' = [meta EXCEPT !.running = n]
    BY <2>2 DEF SetRunning
  <2>3. ASSUME NEW u \in Users, TimedOut(u)
        PROVE  meta' = meta /\ (dbMeta' = dbMeta \/ dbMeta' = Saved(meta'))
    BY <2>3 DEF TimedOut, PersistSafe
  <2>4. ASSUME NEW i, CashOut(i)
        PROVE  /\ dbMeta' = dbMeta \/ dbMeta' = Saved(meta')
               /\ meta' = meta \/ \E h : meta' = [meta EXCEPT !.host = h]
    BY <2>4 DEF CashOut
  <2>5. ASSUME NEW u \in Users, Leave(u) \/ LeaveNow(u) \/ CancelLeave(u) \/ Kick(u)
        PROVE  CashOut(SeatOf(u)) \/ UNCHANGED <<meta, dbMeta>>
    BY <2>5 DEF Leave, LeaveNow, CancelLeave, Kick, Defer, dbVars
  <2>6. ASSUME \/ \E u \in Users, i \in Seats, c \in BuyIns : Sit(u, i, c)
               \/ \E u \in Users, c \in Changes : TopUp(u, c) \/ TakeOff(u, c)
               \/ \E u \in Users, i \in Seats : Move(u, i)
               \/ \E u \in Users : SitOutNext(u)
               \/ \E u \in Users, on \in BOOLEAN : SitOut(u, on)
        PROVE  UNCHANGED <<meta, dbMeta>>
    BY <2>6 DEF Sit, TopUp, TakeOff, Move, SitOutNext, SitOut, dbVars
  <2>7. QED
    BY <1>1, <2>1, <2>2, <2>3, <2>4, <2>5, <2>6 DEF Handler
<1>2. CASE EndHand
  BY <1>2 DEF EndHand, PersistSafe
<1>3. CASE RunoutOver \/ StartTick \/ StartView \/ StartDeal \/ UNCHANGED vars
  BY <1>3 DEF RunoutOver, StartTick, StartView, StartDeal, vars, dbVars
<1>4. CASE PassStep
  <2>1. ASSUME NEW k \in Stages, LeaveStep(k) \/ \E u \in Users : KickStep(k, u)
        PROVE  (\E i : CashOut(i)) \/ UNCHANGED <<meta, dbMeta>>
    BY <2>1 DEF LeaveStep, KickStep, unchangedButPass, dbVars
  <2>2. ASSUME NEW k \in Stages, WithdrawalStep(k) \/ TopUpStep(k) \/ SettleDone(k)
        PROVE  UNCHANGED <<meta, dbMeta>>
    BY <2>2 DEF WithdrawalStep, TopUpStep, SettleDone, unchangedButPass, dbVars
  <2>3. ASSUME NEW k \in Stages, AutoStep(k)
        PROVE  meta' = meta /\ (dbMeta' = dbMeta \/ dbMeta' = Saved(meta'))
    BY <2>3 DEF AutoStep, AutoFails, unchangedButPass, dbVars
  <2>4. ASSUME NEW k \in Stages, DealStep(k) \/ PersistStep(k)
        PROVE  /\ dbMeta' = dbMeta \/ dbMeta' = Saved(meta')
               /\ meta' = meta \/ \E n : meta' = [meta EXCEPT !.handNo = n]
    BY <2>4 DEF DealStep, PersistStep, PersistSafe, unchangedButPass, dbVars
  <2>5. ASSUME NEW i, CashOut(i)
        PROVE  /\ dbMeta' = dbMeta \/ dbMeta' = Saved(meta')
               /\ meta' = meta \/ \E h : meta' = [meta EXCEPT !.host = h]
    BY <2>5 DEF CashOut
  <2>6. QED
    BY <1>4, <2>1, <2>2, <2>3, <2>4, <2>5 DEF PassStep
<1>5. QED
  BY <1>1, <1>2, <1>3, <1>4 DEF Next

\* A hand is only begun at a table where somebody sits
LEMMA StepPhase ==
  ASSUME [Next]_vars
  PROVE  phase' = phase \/ phase' = "idle" \/ phase = "in_hand" \/ Cardinality(Eligible) >= 2
<1>1. CASE Handler
  BY <1>1 DEF Handler, Sit, TopUp, TakeOff, Move, Leave, LeaveNow, CancelLeave, Kick, Defer, SitOutNext,
              TransferHost, TimedOut, SitOut, SetRunning, Close, CashOut, handVars
<1>2. CASE EndHand \/ RunoutOver \/ StartTick \/ StartView \/ StartDeal \/ Restart \/ UNCHANGED vars
  BY <1>2 DEF EndHand, RunoutOver, StartTick, StartView, StartDeal, Restart, vars, handVars
<1>3. CASE PassStep
  <2>1. ASSUME NEW k \in Stages, LeaveStep(k) \/ \E u \in Users : KickStep(k, u)
        PROVE  phase' = phase
    BY <2>1 DEF LeaveStep, KickStep, CashOut, unchangedButPass, handVars
  <2>2. ASSUME NEW k \in Stages, WithdrawalStep(k) \/ TopUpStep(k) \/ AutoStep(k) \/ SettleDone(k) \/ PersistStep(k)
        PROVE  phase' = phase
    BY <2>2 DEF WithdrawalStep, TopUpStep, AutoStep, AutoFails, SettleDone, PersistStep, unchangedButPass, handVars
  <2>3. ASSUME NEW k \in Stages, DealStep(k)
        PROVE  phase' = phase \/ Cardinality(Eligible) >= 2
    BY <2>3 DEF DealStep, unchangedButPass, handVars
  <2>4. QED
    BY <1>3, <2>1, <2>2, <2>3 DEF PassStep
<1>4. QED
  BY <1>1, <1>2, <1>3 DEF Next

LEMMA NobodyOccupies ==
  ASSUME SeatingShape, Seated = {}
  PROVE  Occupied = {} /\ ~(Cardinality(Eligible) >= 2)
<1>1. Occupied = {}
  BY DEF Occupied, Seated, SeatingShape
<1>2. Eligible = {}
  BY <1>1 DEF Eligible
<1>3. QED
  BY <1>1, <1>2, FS_EmptySet

LEMMA StepStatus ==
  ASSUME SeatingInv, SavedInv, MetaType, StatusInv, [Next]_vars,
         Restart \/ Moved \/ (phase = "in_hand" /\ \E d \in Payouts : HandMoves(d))
  PROVE  StatusInv'
<1>1. CASE Close
  <2>1. meta' = [meta EXCEPT !.status = "closed", !.running = FALSE] /\ dbMeta' = Saved(meta')
    BY <1>1 DEF Close
  <2>2. dbMeta'.status = meta'.status
    BY <2>1 DEF Saved
  <2>3. occ' = [i \in Seats |-> Nobody] /\ ~HandBusy /\ phase' = phase
    BY <1>1 DEF Close, handVars
  <2>4. Seated' = {}
    BY <2>3, NobodyAssumption DEF Seated
  <2>5. QED
    BY <2>2, <2>3, <2>4 DEF StatusInv, HandBusy
<1>2. CASE Restart
  <2>1. /\ meta' = [status |-> dbMeta.status, running |-> FALSE, host |-> dbMeta.host, handNo |-> dbMeta.handNo]
        /\ dbMeta' = dbMeta /\ phase' = "idle"
    BY <1>2 DEF Restart, dbVars
  <2>2. Seated' = Seated
    BY <1>2, RestartSeats DEF Seated
  <2>3. QED
    BY <2>1, <2>2 DEF StatusInv, HandBusy
<1>3. CASE ~Close /\ ~Restart
  <2>1. meta'.status = meta.status /\ dbMeta'.status = meta.status
    <3>1. meta'.status = meta.status
      BY <1>3, StepMeta DEF MetaType
    <3>2. dbMeta' = dbMeta \/ dbMeta' = Saved(meta')
      BY <1>3, StepMeta
    <3>3. QED
      BY <3>1, <3>2 DEF Saved, StatusInv
  <2>2. ASSUME meta.status = "closed" PROVE Seated' = {} /\ ~HandBusy'
    <3>1. Seated = {} /\ phase = "idle"
      BY <2>2 DEF StatusInv, HandBusy
    <3>2. Seated' = {}
      BY <1>3, <2>2, <3>1 DEF Moved, Still, Closes, Resets, Leaves, Brings, Takes
    <3>3. phase' = "idle"
      BY <3>1, NobodyOccupies, StepPhase DEF SeatingInv
    <3>4. QED
      BY <3>2, <3>3 DEF HandBusy
  <2>3. QED
    BY <2>1, <2>2 DEF StatusInv
<1>4. QED
  BY <1>1, <1>2, <1>3

\* There is money for everyone who leaves, and none is left behind by the last
NoneBehind == Seated = {} => MoneyOnTable = 0
Covered == MoneyOnTable >= 0 /\ NoneBehind

\* Chips that can only be bought: taken off neither by the players nor by resets
OnlyBought == AllowRathole = FALSE /\ AutoMode # "set"

LEMMA MovesKeepCovered ==
  ASSUME OnlyBought, SeatingInv, MoneyInv, MoneyType, Covered, MoneyInv', MoneyType', Moved
  PROVE  Covered'
<1> DEFINE after == [u \in Users |-> bought'[u] - left'[u]]
<1>1. after \in [Users -> Int] /\ MoneyOnTable' = Total(after)
  BY NetIsMoneyNext
<1>2. Net \in [Users -> Int] /\ MoneyOnTable = Total(Net) /\ MoneyOnTable \in Int
  BY NetIsMoney, MoneyOnTableType
<1>3. /\ \A u \in Users : after[u] = bought'[u] - left'[u] /\ Net[u] = bought[u] - left[u]
      /\ \A u \in Users : bought[u] \in Int /\ left[u] \in Int
      /\ DOMAIN bought = Users /\ DOMAIN left = Users
  BY DEF Net, MoneyType, MoneyOK
<1> HIDE DEF after
<1>4. MoneyOnTable >= 0 /\ (Seated = {} => MoneyOnTable = 0) /\ MoneyOnTable \in Nat /\ SeatingShape
  BY <1>2 DEF Covered, NoneBehind, SeatingInv
<1>5. CASE Still
  <2>1. after = Net
    BY <1>1, <1>2, <1>3, <1>5 DEF Still
  <2>2. QED
    BY <1>1, <1>2, <1>4, <1>5, <2>1 DEF Covered, NoneBehind, Still
<1>6. ASSUME NEW u \in Users, NEW c \in Nat, Brings(u, c) PROVE Covered'
  <2> DEFINE n == Net[u] + c
  <2>1. bought' = [bought EXCEPT ![u] = @ + c] /\ left' = left /\ Seated' # {}
    BY <1>6 DEF Brings
  <2>2. after[u] = n /\ \A v \in Users \ {u} : after[v] = Net[v]
    BY <1>3, <2>1
  <2>3. Becomes(after, Net, u, n, Users)
    BY <1>1, <1>2, <2>2 DEF Becomes
  <2>4. Net[u] \in Int
    BY <1>2
  <2>5. Total(after) = Total(Net) + (n - Net[u])
    BY <2>3, UsersAssumption, TotalBecomes
  <2>6. Total(after) = MoneyOnTable + c
    BY <1>2, <2>4, <2>5
  <2>7. QED
    BY <1>1, <1>4, <2>1, <2>6 DEF Covered, NoneBehind
<1>7. ASSUME NEW u \in Users, NEW c \in Nat, Takes(u, c) PROVE Covered'
  BY <1>7 DEF Takes, OnlyBought
<1>8. ASSUME NEW u \in Users, Leaves(u) PROVE Covered'
  <2> DEFINE i == SeatOf(u)
             share == Worth(i)
             n == Net[u] - share
  <2>1. u \in Seated /\ i \in Occupied /\ occ[i] = u
    BY <1>4, <1>8, SeatOfSeated DEF Leaves
  <2>2. Occupied \in SUBSET Occupied
    OBVIOUS
  <2>3. share \in Nat /\ share <= MoneyOnTable /\ (Occupied = {i} => share = MoneyOnTable)
    BY <1>4, <2>1, <2>2, ShareIsPart DEF Worth
  <2>4. Seated' = {} => Occupied = {i}
    <3>1. ASSUME Seated' = {}, NEW j \in Occupied PROVE j = i
      <4>1. j \in Seats /\ i \in Seats /\ occ[j] \in Seated /\ occ[j] # Nobody
        <5>1. j \in Seats /\ i \in Seats /\ occ[j] # Nobody
          BY <2>1 DEF Occupied
        <5>2. occ[j] \in Users
          BY <1>4, <5>1 DEF SeatingShape
        <5>3. QED
          BY <5>1, <5>2 DEF Seated
      <4>2. occ[j] = u
        BY <1>8, <3>1, <4>1 DEF Leaves
      <4>3. QED
        BY <2>1, <4>1, <4>2 DEF SeatingInv, OneSeat
    <3>2. QED
      BY <2>1, <3>1
  <2>5. left' = [left EXCEPT ![u] = @ + share] /\ bought' = bought
    BY <1>8 DEF Leaves
  <2> HIDE DEF share, i
  <2>6. after[u] = n /\ \A v \in Users \ {u} : after[v] = Net[v]
    BY <1>3, <2>3, <2>5
  <2>7. Becomes(after, Net, u, n, Users) /\ Net[u] \in Int
    BY <1>1, <1>2, <2>6 DEF Becomes
  <2>8. Total(after) = Total(Net) + (n - Net[u])
    BY <2>7, UsersAssumption, TotalBecomes
  <2>9. Total(after) = MoneyOnTable - share
    BY <1>2, <2>3, <2>7, <2>8
  <2>10. QED
    BY <1>1, <1>4, <2>3, <2>4, <2>9 DEF Covered, NoneBehind
<1>9. CASE Closes
  <2>1. Occupied = {} => MoneyOnTable = 0
    <3>1. Occupied = {} => Seated = {}
      BY NobodyAssumption DEF Occupied, Seated
    <3>2. QED
      BY <1>4, <3>1
  <2>2. Total(ClosingShare) = MoneyOnTable
    BY <1>4, <2>1, ClosingPaysAll
  <2>3. PaidOut \in [Users -> Nat] /\ Total(PaidOut) = MoneyOnTable
    BY <2>2, PlayersArePaid
  <2>4. \A u \in Users : left'[u] = left[u] + PaidOut[u]
    BY <1>3, <1>9 DEF Closes, PaidOut
  <2>5. \A u \in Users : PaidOut[u] \in Int /\ bought'[u] = bought[u]
    BY <1>9, <2>3 DEF Closes
  <2>6. \A u \in Users : Net[u] = after[u] + PaidOut[u]
    BY <1>3, <2>4, <2>5
  <2>7. Adds(Net, after, PaidOut, Users)
    BY <1>1, <1>2, <2>3, <2>6 DEF Adds
  <2>8. Total(Net) = Total(after) + Total(PaidOut) /\ Total(after) \in Int
    BY <1>1, <2>7, UsersAssumption, TotalAdds, TotalType
  <2>9. Total(after) = 0
    BY <1>2, <2>3, <2>8
  <2>10. QED
    BY <1>1, <2>9 DEF Covered, NoneBehind
<1>10. CASE Resets
  <2>1. ASSUME NEW u \in Users
        PROVE  Net[u] <= after[u] /\ (u \notin Seated => after[u] = Net[u])
    <3>1. CASE Playing(u)
      <4> DEFINE in == AutoIn(u)
      <4>1. AutoOut(u) = 0
        BY DEF AutoOut, OnlyBought
      <4>2. bought'[u] = bought[u] + in /\ left'[u] = left[u] + 0
        BY <1>10, <3>1, <4>1 DEF Resets, IfPlaying
      <4>3. in \in Nat
        BY AutoType DEF MoneyType, MoneyOK
      <4> HIDE DEF in
      <4>4. QED
        BY <1>3, <3>1, <4>2, <4>3 DEF Playing
    <3>2. CASE ~Playing(u)
      <4>1. bought'[u] = bought[u] /\ left'[u] = left[u]
        BY <1>10, <3>2 DEF Resets, IfPlaying
      <4>2. QED
        BY <1>3, <4>1
    <3>3. QED
      BY <3>1, <3>2
  <2>2. NoMore(Net, after, Users)
    BY <1>1, <1>2, <2>1 DEF NoMore
  <2>3. Total(Net) <= Total(after) /\ Total(after) \in Int
    BY <1>1, <2>2, UsersAssumption, TotalNoMore, TotalType
  <2>4. Seated = {} => after = Net
    BY <1>1, <1>2, <2>1
  <2>5. Seated' = Seated
    BY <1>10 DEF Resets
  <2>6. QED
    BY <1>1, <1>2, <1>4, <2>3, <2>4, <2>5 DEF Covered, NoneBehind
<1>11. QED
  BY <1>5, <1>6, <1>7, <1>8, <1>9, <1>10 DEF Moved

\* Neither a hand nor a restart touches the money
LEMMA SameKeepsCovered ==
  ASSUME MoneyInv, MoneyType, Covered, MoneyInv', MoneyType',
         \A u \in Users : bought'[u] = bought[u] /\ left'[u] = left[u], Seated' = Seated
  PROVE  Covered'
<1> DEFINE after == [u \in Users |-> bought'[u] - left'[u]]
<1>1. after = Net
  BY DEF Net
<1>2. MoneyOnTable' = Total(after)
  BY NetIsMoneyNext
<1> HIDE DEF after
<1>3. MoneyOnTable' = MoneyOnTable
  BY <1>1, <1>2, NetIsMoney
<1>4. QED
  BY <1>3 DEF Covered, NoneBehind

ClosingInv == RowsInv /\ TypeInv /\ EmptyHanded /\ StatusInv /\ ResultsInv

LEMMA InitClosing == Init => ClosingInv /\ Covered
<1> SUFFICES ASSUME Init PROVE ClosingInv /\ Covered
  OBVIOUS
<1>1. /\ stack = [u \in Users |-> 0] /\ bought = stack /\ left = stack /\ dbStack = stack
      /\ dbBought = stack /\ dbLeft = stack
  BY DEF Init
<1>2. EmptyHanded
  BY <1>1 DEF EmptyHanded
<1>3. StatusInv
  <2>1. PICK h \in Users : meta = [status |-> "open", running |-> FALSE, host |-> h, handNo |-> 0]
    BY DEF Init
  <2>2. dbMeta = Saved(meta)
    BY DEF Init
  <2>3. QED
    BY <2>1, <2>2 DEF StatusInv, Saved
<1>4. ResultsInv
  BY DEF Init, ResultsInv
<1>5. MoneyOnTable = 0
  <2>1. MoneyInv /\ MoneyType
    BY InitRows, InitTypes DEF RowsInv, TypeInv
  <2>2. Net \in [Users -> Int] /\ \A u \in Users : Net[u] = 0
    BY <1>1 DEF Net
  <2>3. QED
    BY <2>1, <2>2, NetIsMoney, UsersAssumption, TotalZero
<1>6. QED
  BY <1>2, <1>3, <1>4, <1>5, InitRows, InitTypes DEF ClosingInv, Covered, NoneBehind

LEMMA StepClosing ==
  ASSUME LandingFaults = FALSE, ClosingInv, [Next]_vars
  PROVE  ClosingInv' /\ (OnlyBought /\ Covered => Covered')
<1>0. SeatingInv /\ Attached /\ MoneyInv /\ SavedInv /\ MoneyType /\ EmptyHanded /\ MetaType
  BY DEF ClosingInv, RowsInv, TypeInv
<1>1. RowsInv' /\ TypeInv' /\ ResultsInv' /\ MoneyType' /\ MoneyInv'
  <2>1. RowsInv' /\ TypeInv'
    BY StepRows, StepTypes DEF ClosingInv, TypeInv
  <2>2. ResultsInv'
    BY <1>0, StepResults DEF ClosingInv
  <2>3. QED
    BY <2>1, <2>2 DEF RowsInv, TypeInv
<1>2. EmptyHanded'
  BY <1>0, StepMoves, StepEmptyHanded
<1>3. StatusInv'
  BY <1>0, StepMoves, StepStatus DEF ClosingInv
<1>4. ASSUME OnlyBought, Covered PROVE Covered'
  <2>1. CASE Restart
    <3>1. \A u \in Users : bought'[u] = bought[u] /\ left'[u] = left[u]
      BY <1>0, <2>1 DEF Restart, MoneyInv
    <3>2. Seated' = Seated
      BY <1>0, <2>1, RestartSeats DEF Seated
    <3>3. QED
      BY <1>0, <1>1, <1>4, <3>1, <3>2, SameKeepsCovered
  <2>2. CASE Moved
    BY <1>0, <1>1, <1>4, <2>2, MovesKeepCovered
  <2>3. CASE \E d \in Payouts : HandMoves(d)
    <3>1. (\A u \in Users : bought'[u] = bought[u] /\ left'[u] = left[u]) /\ Seated' = Seated
      BY <2>3 DEF HandMoves
    <3>2. QED
      BY <1>0, <1>1, <1>4, <3>1, SameKeepsCovered
  <2>4. QED
    BY <1>0, <2>1, <2>2, <2>3, StepMoves
<1>5. QED
  BY <1>1, <1>2, <1>3, <1>4 DEF ClosingInv

LEMMA SolventNoneBehind ==
  ASSUME SolvencyInv
  PROVE  NoneBehind
<1> SUFFICES ASSUME Seated = {} PROVE MoneyOnTable = 0
  BY DEF NoneBehind
<1>1. stack \in [Users -> Int] /\ \A u \in Users : stack[u] = 0
  BY DEF SolvencyInv, TableInv, EmptyHanded, TypeInv, MoneyType, MoneyOK
<1>2. Total(stack) = 0
  BY <1>1, UsersAssumption, TotalZero
<1> DEFINE m == MoneyOnTable
<1>3. m \in Int /\ Surplus = BBCents * Total(stack) - BBChips * m
  BY TableSurplus DEF SolvencyInv, SurplusFacts
<1> HIDE DEF m
<1>4. BBCents * 0 = 0 /\ BBChips * 0 = 0 /\ BBChips * m \in Int /\ BBChips \in Nat \ {0}
  BY <1>3, StakesAssumption
<1>5. BBChips * m = BBChips * 0
  BY <1>2, <1>3, <1>4 DEF SolvencyInv
<1>6. m = 0
  BY <1>3, <1>4, <1>5, Cancelled
<1>7. QED
  BY <1>6 DEF m

LEMMA ClosingAddsUp ==
  ASSUME ClosingInv, NoneBehind
  PROVE  CentsAddUp
<1>1. ASSUME dbMeta.status = "closed"
      PROVE  Total(dbBought) = Total(dbLeft) /\ \A u \in Users : dbStack[u] = 0 /\ dbSeat[u] = NoSeat
  <2>1. Seated = {} /\ MoneyOnTable = 0
    BY <1>1 DEF ClosingInv, StatusInv, NoneBehind
  <2>2. MoneyInv /\ MoneyType
    BY DEF ClosingInv, RowsInv, TypeInv
  <2>3. Net \in [Users -> Int] /\ Total(Net) = 0
    BY <2>1, <2>2, NetIsMoney
  <2>4. /\ dbBought \in [Users -> Int] /\ dbLeft \in [Users -> Int]
        /\ \A u \in Users : dbBought[u] = Net[u] + dbLeft[u]
    BY <2>2 DEF Net, MoneyInv, MoneyType, MoneyOK
  <2>5. Adds(dbBought, Net, dbLeft, Users)
    BY <2>3, <2>4 DEF Adds
  <2>6. Total(dbBought) = Total(Net) + Total(dbLeft) /\ Total(dbLeft) \in Int
    BY <2>4, <2>5, UsersAssumption, TotalAdds, TotalType
  <2>7. \A u \in Users : dbStack[u] = 0
    BY <2>1 DEF ClosingInv, EmptyHanded
  <2>8. \A u \in Users : dbSeat[u] = NoSeat
    BY <2>1, SeatInFacts DEF ClosingInv, RowsInv, SavedInv, SeatsSaved, Seated
  <2>9. QED
    BY <2>3, <2>6, <2>7, <2>8
<1>2. ResultsAddUp
  BY DEF ClosingInv, ResultsInv, WellRecorded, ResultsAddUp
<1>3. QED
  BY <1>1, <1>2 DEF CentsAddUp, ClosedIsZeroSum

\* No cent is made or lost by rounding: the recorded results of a hand add up, and a
\* table that closes has paid out exactly what came in, whatever a chip is worth and
\* whatever saves fail, as long as chips only leave the table with their player; and
\* with withdrawals and resets too when a chip is a cent
THEOREM CentsTheorem ==
  ASSUME LandingFaults = FALSE,
         \/ AllowRathole = FALSE /\ AutoMode # "set"
         \/ BBChips = BBCents /\ (MaxFaults = 0 \/ MaxRestarts = 0)
  PROVE  Spec => []CentsAddUp
<1>1. ASSUME AllowRathole = FALSE, AutoMode # "set" PROVE Spec => []CentsAddUp
  <2>1. ClosingInv /\ Covered /\ [Next]_vars => (ClosingInv /\ Covered)'
    BY <1>1, StepClosing DEF OnlyBought
  <2>2. ClosingInv /\ Covered => CentsAddUp
    BY ClosingAddsUp DEF Covered
  <2>3. QED
    BY InitClosing, <2>1, <2>2, PTL DEF Spec
<1>2. ASSUME BBChips = BBCents, MaxFaults = 0 \/ MaxRestarts = 0 PROVE Spec => []CentsAddUp
  <2>1. AtPar /\ KeepsResults
    BY <1>2 DEF AtPar, KeepsResults
  <2>2. Init => ClosingInv /\ SolvencyInv
    BY InitClosing, InitSolvency
  <2>3. ClosingInv /\ SolvencyInv /\ [Next]_vars => (ClosingInv /\ SolvencyInv)'
    BY <2>1, StepClosing, StepSolvency
  <2>4. ClosingInv /\ SolvencyInv => CentsAddUp
    BY ClosingAddsUp, SolventNoneBehind
  <2>5. QED
    BY <2>2, <2>3, <2>4, PTL DEF Spec
<1>3. QED
  BY <1>1, <1>2

=============================================================================
