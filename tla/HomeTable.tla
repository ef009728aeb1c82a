----------------------------- MODULE HomeTable -----------------------------
(* One home-game table: the LiveTable in memory, its rows in the database,   *)
(* the money ledger, and every way chips and money move between them         *)
(* (ui/homegame.py).  Handlers run one at a time under the table's lock; the *)
(* work done between hands (deferred cash-outs, queued chips, automatic      *)
(* chips, the deal) is a sequence of separate transactions under one hold of *)
(* that lock, so it is modelled one transaction per step ("pass"): a crash   *)
(* or a failing write can fall between any two of them.                      *)
(*                                                                           *)
(* A player sits in at most one seat, so what a Seat object holds is kept    *)
(* per player; for a player who is not seated nothing reads it (the money    *)
(* totals then stay as last written, the rest is 0 / FALSE).                 *)
EXTENDS Money, Sequences

CONSTANTS
  Users,          \* the people who may sit down
  Nobody,         \* an empty seat
  NumSeats,       \* seats are numbered 0 .. NumSeats - 1
  BBChips, BBCents, \* one big blind, in chips and in cents
  AnteCents,
  BuyIns, Changes, \* the amounts (cents) people sit down with, add or take off
  MaxCents,       \* the most a player may bring in over the table's life
  MaxBuyin,       \* the host's maximum stack after a buy-in (0: none)
  AllowRathole,   \* may chips be taken off the table?
  AutoMode,       \* "off", "set" (stack reset at each deal) or "topup"
  AutoTarget, AutoBelow,  \* the target of either, the top-up's threshold
  MaxSwing,       \* bound: the chips one dealt player can win or lose in a hand
  MaxHands,       \* bound: hands dealt
  MaxFaults,      \* bound: database writes that fail
  MaxRestarts,    \* bound: server restarts
  LandingFaults   \* may the write of a queued top-up or withdrawal fail?

Seats == 0 .. NumSeats - 1
NoSeat == -1

ASSUME NobodyAssumption == Nobody \notin Users
ASSUME SeatsAssumption == NumSeats \in Nat \ {0}
ASSUME UsersAssumption == IsFiniteSet(Users)
ASSUME StakesAssumption == BBChips \in Nat \ {0} /\ BBCents \in Nat \ {0} /\ AnteCents \in Nat
ASSUME AmountsAssumption ==
  /\ BuyIns \subseteq Nat /\ Changes \subseteq Nat
  /\ MaxCents \in Nat /\ MaxBuyin \in Nat /\ AllowRathole \in BOOLEAN
  /\ AutoMode \in {"off", "set", "topup"} /\ AutoTarget \in Nat /\ AutoBelow \in Nat
ASSUME BoundsAssumption ==
  /\ MaxSwing \in Nat /\ MaxHands \in Nat
  /\ MaxFaults \in Nat /\ MaxRestarts \in Nat /\ LandingFaults \in BOOLEAN

VARIABLES
  occ,       \* LiveTable.seats: who sits where
  stack,     \* Seat.stack_chips
  bought,    \* Seat.buyin_cents: money brought in over the table's life
  left,      \* Seat.leftover_cents: money taken out over the table's life
  away,      \* Seat.sitting_out
  sitNext,   \* the players with Seat.sit_out_next
  leaving,   \* the players with Seat.leave_after_hand
  kicks,     \* LiveTable.pending_kicks
  qTop,      \* Seat.queued_topup_cents
  qRem,      \* Seat.queued_remove_cents
  phase,     \* "idle", "in_hand", or "runout" (a finished all-in still revealing)
  dealt,     \* HandState.dealt_user_ids: who was dealt each seat
  start,     \* HandState.hand_start_stacks of the dealt seats
  meta,      \* status, running, host and hand number of the table
  dirty,     \* LiveTable.persist_dirty
  owed,      \* LiveTable.unsaved: the results of hands not in the database yet
  dbSeat, dbStack, dbBought, dbLeft, dbAway,  \* homegame_players
  ledgerIn, ledgerOut,  \* homegame_ledger: each player's money in and out, summed
  dbMeta,    \* homegames
  results,   \* homegame_hand_results: [no, delta, cents] of each recorded hand
  pass,      \* the between-hands work under way, if any
  faults, restarts  \* failed writes and restarts so far (bounds)

moneyVars == <<stack, bought, left>>
flagVars  == <<away, sitNext, leaving, kicks, qTop, qRem>>
handVars  == <<phase, dealt, start>>
saveVars  == <<dirty, owed>>
rowVars   == <<dbSeat, dbStack, dbBought, dbLeft, dbAway>>
ledger    == <<ledgerIn, ledgerOut>>
dbVars    == <<rowVars, ledger, dbMeta, results>>
vars == <<occ, moneyVars, flagVars, handVars, meta, saveVars, dbVars, pass,
          faults, restarts>>

-----------------------------------------------------------------------------
(* Reading the table *)

Chips(cents) == CentsToChips(cents, BBChips, BBCents)
Cents(chips) == ChipsToCents(chips, BBChips, BBCents)
AnteChips == Chips(AnteCents)

Occupied == {i \in Seats : occ[i] # Nobody}
Seated == {u \in Users : \E i \in Seats : occ[i] = u}
SeatOf(u) == CHOOSE i \in Seats : occ[i] = u

HandBusy == phase # "idle"
DealtIn(u) == HandBusy /\ dealt[SeatOf(u)] # Nobody
HoldsCards(u) == phase = "in_hand" /\ dealt[SeatOf(u)] # Nobody

\* The money on the table: everything brought in less everything taken out,
\* over everyone who ever played (the seated from memory, the rest from rows)
MoneyOnTable ==
  Total([u \in Users |-> IF u \in Seated THEN bought[u] - left[u]
                                         ELSE dbBought[u] - dbLeft[u]])

\* Mutant: each stack rounded on its own
RoundedWorth(i) == Cents(stack[occ[i]])

\* The cents seat i's stack is worth (_ledger_state)
Worth(i) == Apportion(MoneyOnTable, [j \in Occupied |-> stack[occ[j]]])[i]

\* _check_amount and _check_buyin_limits for bringing c cents to a stack of have
AmountOk(c, have) ==
  /\ c >= BBCents
  /\ have + c > AnteCents
  /\ Chips(have + c) > AnteChips
  /\ MaxBuyin > 0 => have + c <= MaxBuyin

Eligible == {i \in Occupied : ~away[occ[i]] /\ stack[occ[i]] > AnteChips}

\* The work of one hold of the lock, stage by stage: _settle_locked alone (a
\* hand's end, a view), a watchdog tick, the deal.  (The deal's
\* _apply_sit_out_next_locked finds nobody: EndHand has sat them out, and so
\* TypeOK has it.)
Plan == [none   |-> <<>>,
         settle |-> <<"leaves", "kicks", "end">>,
         tick   |-> <<"leaves", "kicks", "withdrawals", "topups", "persist">>,
         deal   |-> <<"leaves", "kicks", "withdrawals", "topups", "auto", "deal">>]

Idle == [job |-> "none", stage |-> 1, pos |-> 0, todo |-> {}, detached |-> FALSE]
Free == pass = Idle            \* nobody holds the table's lock
Begin(job) == [Idle EXCEPT !.job = job]

First(S) == CHOOSE i \in S : \A j \in S : i <= j

\* What stage k of the pass still has to do: a loop over the seats goes on from
\* pos, and _settle_locked lists pending_kicks when its turn comes
From(k) == IF k = pass.stage THEN pass.pos ELSE 0
Leavers(k) == {i \in Occupied : i >= From(k) /\ occ[i] \in leaving}
Kicked(k) == IF k = pass.stage THEN pass.todo ELSE kicks
Queued(q, k) == {i \in Occupied : i >= From(k) /\ q[occ[i]] # 0}
HasWork(k) ==
  LET stage == Plan[pass.job][k]
  IN /\ stage = "leaves"      => ~HandBusy /\ Leavers(k) # {}
     /\ stage = "kicks"       => ~HandBusy /\ Kicked(k) # {}
     /\ stage = "withdrawals" => ~HandBusy /\ Queued(qRem, k) # {}
     /\ stage = "topups"      => ~HandBusy /\ Queued(qTop, k) # {}
     /\ stage = "auto"        => AutoMode # "off"

\* The pass has come to this stage: it is stage k, and nothing is left before it
At(stage, k) ==
  /\ k \in pass.stage .. Len(Plan[pass.job])
  /\ Plan[pass.job][k] = stage
  /\ HasWork(k)
  /\ \A m \in pass.stage .. (k - 1) : ~HasWork(m)
Stages == 1 .. 6

Fault == faults < MaxFaults /\ faults' = faults + 1

-----------------------------------------------------------------------------
(* Writing the table.  A row is written as memory is after the step, so      *)
(* these come after the conjuncts that change memory.                        *)

SeatIn(seats, u) ==
  IF \E i \in Seats : seats[i] = u THEN CHOOSE i \in Seats : seats[i] = u ELSE NoSeat

\* Mutant: the hand number is not saved
SavedWithoutHandNo(m) == [status |-> m.status, host |-> m.host, handNo |-> 0]

\* The table's own row; running is saved too, but a table always loads paused
Saved(m) == [status |-> m.status, host |-> m.host, handNo |-> m.handNo]

\* _persist_player for each player of S
SaveRows(S) ==
  /\ dbSeat'   = [u \in Users |-> IF u \in S THEN SeatIn(occ', u) ELSE dbSeat[u]]
  /\ dbStack'  = [u \in Users |-> IF u \in S THEN stack'[u] ELSE dbStack[u]]
  /\ dbBought' = [u \in Users |-> IF u \in S THEN bought'[u] ELSE dbBought[u]]
  /\ dbLeft'   = [u \in Users |-> IF u \in S THEN left'[u] ELSE dbLeft[u]]
  /\ dbAway'   = [u \in Users |-> IF u \in S THEN away'[u] ELSE dbAway[u]]

\* _write_owed: INSERT OR REPLACE by hand number
Recorded(old, new) == {r \in old : \A n \in new : n.no # r.no} \cup new

\* Mutant: the hand's record is not in the transaction that saves its stacks
PersistSafeApart(toSave) ==
  /\ SaveRows({u \in Users : \E i \in Seats : occ'[i] = u})
  /\ dbMeta' = Saved(meta')
  /\ dirty' = FALSE
  /\ owed' = toSave
  /\ UNCHANGED <<results, faults>>
\* Mutant: a failed save is forgotten
PersistSafeForgets(toSave) ==
  \/ /\ SaveRows({u \in Users : \E i \in Seats : occ'[i] = u})
     /\ dbMeta' = Saved(meta')
     /\ results' = Recorded(results, toSave)
     /\ dirty' = FALSE /\ owed' = {}
     /\ UNCHANGED faults
  \/ /\ Fault
     /\ dirty' = FALSE /\ owed' = toSave
     /\ UNCHANGED <<rowVars, dbMeta, results>>

\* _persist_safe: all seated rows, the table's row and the owed writes in one
\* transaction; a failure leaves the table dirty, to be retried, and an owed
\* write that fails on its own is dropped without holding up the rest
PersistSafe(toSave) ==
  \/ \E lost \in SUBSET toSave :
       /\ IF lost = {} THEN UNCHANGED faults ELSE Fault
       /\ SaveRows({u \in Users : \E i \in Seats : occ'[i] = u})
       /\ dbMeta' = Saved(meta')
       /\ results' = Recorded(results, toSave \ lost)
       /\ dirty' = FALSE
       /\ owed' = {}
  \/ /\ Fault
     /\ dirty' = TRUE
     /\ owed' = toSave
     /\ UNCHANGED <<rowVars, dbMeta, results>>

LedgerIn(u, c) == ledgerIn' = [ledgerIn EXCEPT ![u] = @ + c] /\ UNCHANGED ledgerOut
LedgerOut(u, c) == ledgerOut' = [ledgerOut EXCEPT ![u] = @ + c] /\ UNCHANGED ledgerIn

\* _cash_out_seat: seat i leaves with its share; a host who leaves hands the
\* table to the first player still seated
CashOut(i) ==
  LET u     == occ[i]
      share == Worth(i)
      rest  == Occupied \ {i}
  IN /\ occ' = [occ EXCEPT ![i] = Nobody]
     /\ stack' = [stack EXCEPT ![u] = 0]
     /\ left' = [left EXCEPT ![u] = @ + share]
     /\ LedgerOut(u, share)
     /\ away' = [away EXCEPT ![u] = FALSE]
     /\ sitNext' = sitNext \ {u}
     /\ leaving' = leaving \ {u}
     /\ qTop' = [qTop EXCEPT ![u] = 0]
     /\ qRem' = [qRem EXCEPT ![u] = 0]
     /\ UNCHANGED <<bought, results, saveVars, handVars>>
     /\ SaveRows({u})
     /\ meta' = IF meta.host = u /\ rest # {}
                THEN [meta EXCEPT !.host = occ[CHOOSE j \in rest : \A k \in rest : j <= k]]
                ELSE meta
     /\ dbMeta' = IF meta.host = u THEN Saved(meta') ELSE dbMeta

\* The rows and the ledger after c cents, worth moved chips, come to or leave
\* a seated player (one _mutation)
BringIn(u, c, moved) ==
  /\ stack' = [stack EXCEPT ![u] = @ + moved]
  /\ bought' = [bought EXCEPT ![u] = @ + c]
  /\ LedgerIn(u, c)
  /\ UNCHANGED <<occ, left, away>>
  /\ SaveRows({u})
TakeOut(u, c, moved) ==
  /\ stack' = [stack EXCEPT ![u] = @ - moved]
  /\ left' = [left EXCEPT ![u] = @ + c]
  /\ LedgerOut(u, c)
  /\ UNCHANGED <<occ, bought, away>>
  /\ SaveRows({u})

Lesser(a, b) == IF a < b THEN a ELSE b

-----------------------------------------------------------------------------
(* Requests of the players and the host: each is one transaction, and one    *)
(* that fails is rolled back whole (_mutation), so only success is a step.   *)

Init ==
  /\ occ = [i \in Seats |-> Nobody]
  /\ stack = [u \in Users |-> 0] /\ bought = stack /\ left = stack
  /\ away = [u \in Users |-> FALSE]
  /\ sitNext = {} /\ leaving = {} /\ kicks = {}
  /\ qTop = stack /\ qRem = stack
  /\ phase = "idle"
  /\ dealt = [i \in Seats |-> Nobody] /\ start = [i \in Seats |-> 0]
  /\ \E host \in Users :   \* who opened the table
       meta = [status |-> "open", running |-> FALSE, host |-> host, handNo |-> 0]
  /\ dirty = FALSE /\ owed = {}
  /\ dbSeat = [u \in Users |-> NoSeat]
  /\ dbStack = stack /\ dbBought = stack /\ dbLeft = stack /\ dbAway = away
  /\ ledgerIn = stack /\ ledgerOut = stack
  /\ dbMeta = Saved(meta) /\ results = {}
  /\ pass = Idle /\ faults = 0 /\ restarts = 0

bounds == <<faults, restarts>>
Open == Free /\ meta.status = "open"

\* _sit_locked: the earlier totals of a returning player come from the row
Sit(u, i, c) ==
  /\ Open /\ occ[i] = Nobody /\ u \notin Seated
  /\ AmountOk(c, 0) /\ dbBought[u] + c <= MaxCents
  /\ ~(HandBusy /\ dealt[i] # Nobody)
  /\ occ' = [occ EXCEPT ![i] = u]
  /\ stack' = [stack EXCEPT ![u] = Chips(c)]
  /\ bought' = [bought EXCEPT ![u] = dbBought[u] + c]
  /\ left' = [left EXCEPT ![u] = dbLeft[u]]
  /\ LedgerIn(u, c)
  /\ UNCHANGED <<flagVars, handVars, meta, saveVars, dbMeta, results, pass, bounds>>
  /\ SaveRows({u})

\* _topup_locked and _rebuy_locked: now, or queued while holding cards
TopUp(u, c) ==
  /\ Open /\ u \in Seated
  /\ IF DealtIn(u)
     THEN /\ AmountOk(c, Cents(stack[u]) + qTop[u])
          /\ bought[u] + qTop[u] + c <= MaxCents
          /\ qTop' = [qTop EXCEPT ![u] = @ + c]
          /\ UNCHANGED <<occ, moneyVars, away, rowVars, ledger>>
     ELSE /\ AmountOk(c, Cents(stack[u]))
          /\ bought[u] + c <= MaxCents
          /\ BringIn(u, c, Chips(c))
          /\ UNCHANGED qTop
  /\ UNCHANGED <<sitNext, leaving, kicks, qRem, handVars, meta, saveVars,
                 dbMeta, results, pass, bounds>>

\* A seat keeps at least an ante and a big blind when chips come off it
Keep == AnteCents + BBCents

\* _remove_chips_locked
TakeOff(u, c) ==
  /\ Open /\ AllowRathole /\ u \in Seated /\ c >= BBCents
  /\ IF DealtIn(u)
     THEN /\ qRem' = [qRem EXCEPT ![u] = c]
          /\ qTop' = [qTop EXCEPT ![u] = 0]
          /\ UNCHANGED <<occ, moneyVars, away, rowVars, ledger>>
     ELSE /\ Cents(stack[u]) - c >= Keep
          /\ TakeOut(u, c, Lesser(Chips(c), stack[u]))
          /\ UNCHANGED <<qTop, qRem>>
  /\ UNCHANGED <<sitNext, leaving, kicks, handVars, meta, saveVars,
                 dbMeta, results, pass, bounds>>

\* _move_locked (no shuffle under way)
Move(u, j) ==
  /\ Open /\ u \in Seated /\ occ[j] = Nobody
  /\ u \notin leaving \cup kicks /\ ~DealtIn(u)
  /\ occ' = [occ EXCEPT ![j] = u, ![SeatOf(u)] = Nobody]
  /\ UNCHANGED <<moneyVars, flagVars, handVars, meta, saveVars, ledger,
                 dbMeta, results, pass, bounds>>
  /\ SaveRows({u})

\* Mutant: the row of a player removed mid-hand loses its seat at once
DeferWithoutSeat(u) ==
  /\ away' = [away EXCEPT ![u] = TRUE]
  /\ kicks' = kicks \cup {u}
  /\ dbSeat' = [dbSeat EXCEPT ![u] = NoSeat]
  /\ dbAway' = [dbAway EXCEPT ![u] = TRUE]
  /\ UNCHANGED <<occ, moneyVars, sitNext, leaving, qTop, qRem, handVars, meta, saveVars,
                 dbStack, dbBought, dbLeft, ledger, dbMeta, results, pass, bounds>>

\* _defer_removal_locked: out of the game, cashed out when the hand is over
Defer(u) ==
  /\ away' = [away EXCEPT ![u] = TRUE]
  /\ kicks' = kicks \cup {u}
  /\ UNCHANGED <<occ, moneyVars, sitNext, leaving, qTop, qRem, handVars, meta,
                 saveVars, ledger, dbMeta, results, pass, bounds>>
  /\ SaveRows({u})

\* Mutant: a player holding cards leaves at once
LeaveMidHand(u) ==
  /\ Free /\ u \in Seated /\ phase # "runout"
  /\ CashOut(SeatOf(u)) /\ UNCHANGED <<kicks, pass, bounds>>

\* _leave_locked: at once, or when the hand (and its runout) is over
Leave(u) ==
  /\ Free /\ u \in Seated
  /\ IF HoldsCards(u) \/ phase = "runout"
     THEN /\ u \notin leaving
          /\ leaving' = leaving \cup {u}
          /\ sitNext' = sitNext \ {u}
          /\ UNCHANGED <<occ, moneyVars, away, kicks, qTop, qRem, handVars, meta,
                         saveVars, dbVars, pass, bounds>>
     ELSE CashOut(SeatOf(u)) /\ UNCHANGED <<kicks, pass, bounds>>

\* _leave_locked with now: out of the hand at once
LeaveNow(u) ==
  /\ Free /\ u \in Seated
  /\ HoldsCards(u) \/ phase = "runout"
  /\ Defer(u)

CancelLeave(u) ==
  /\ Free /\ u \in Seated /\ u \in leaving
  /\ leaving' = leaving \ {u}
  /\ UNCHANGED <<occ, moneyVars, away, sitNext, kicks, qTop, qRem, handVars,
                 meta, saveVars, dbVars, pass, bounds>>

\* _kick_locked
Kick(u) ==
  /\ Open /\ u # meta.host /\ u \in Seated
  /\ IF HandBusy THEN Defer(u)
     ELSE CashOut(SeatOf(u)) /\ UNCHANGED <<kicks, pass, bounds>>

\* _sit_out_locked: now (by the player or the host), or after this hand
SitOut(u, on) ==
  /\ Open /\ u \in Seated
  /\ on \/ u \notin kicks
  /\ away' = [away EXCEPT ![u] = on]
  /\ sitNext' = sitNext \ {u}
  /\ UNCHANGED <<occ, moneyVars, leaving, kicks, qTop, qRem, handVars, meta,
                 saveVars, ledger, dbMeta, results, pass, bounds>>
  /\ SaveRows({u})
SitOutNext(u) ==
  /\ Open /\ u \in Seated /\ HoldsCards(u)
  /\ sitNext' = sitNext \cup {u}
  /\ UNCHANGED <<occ, moneyVars, away, leaving, kicks, qTop, qRem, handVars,
                 meta, saveVars, dbVars, pass, bounds>>

\* _set_running_locked; Start deals at once when a hand can be dealt
SetRunning(on) ==
  /\ Open
  /\ meta' = [meta EXCEPT !.running = on]
  /\ dbMeta' = Saved(meta')
  /\ pass' = IF on /\ ~HandBusy /\ Cardinality(Eligible) >= 2 THEN Begin("deal") ELSE Idle
  /\ UNCHANGED <<occ, moneyVars, flagVars, handVars, saveVars, rowVars, ledger,
                 results, bounds>>

\* _transfer_host_locked
TransferHost(u) ==
  /\ Open /\ u \in Seated /\ u # meta.host
  /\ meta' = [meta EXCEPT !.host = u]
  /\ dbMeta' = Saved(meta')
  /\ UNCHANGED <<occ, moneyVars, flagVars, handVars, saveVars, rowVars, ledger,
                 results, pass, bounds>>

\* What seat i is paid when the table closes, out of what the seats before it
\* left: its share among the seats still to be paid
ShareOf(money, i) ==
  IF occ[i] = Nobody THEN 0
  ELSE Apportion(money, [j \in {k \in Occupied : k >= i} |-> stack[occ[j]]])[i]
\* The money on the table before seat i is paid
ClosingMoney[i \in 0 .. NumSeats] ==
  IF i = 0 THEN MoneyOnTable
  ELSE LET before == ClosingMoney[i - 1] IN before - ShareOf(before, i - 1)
ClosingShare == [i \in Seats |-> ShareOf(ClosingMoney[i], i)]

\* _close_table_locked: everyone is cashed out in one transaction
Close ==
  /\ Open /\ ~HandBusy
  /\ left' = [u \in Users |-> IF u \in Seated THEN left[u] + ClosingShare[SeatOf(u)] ELSE left[u]]
  /\ ledgerOut' = [u \in Users |->
       IF u \in Seated THEN ledgerOut[u] + ClosingShare[SeatOf(u)] ELSE ledgerOut[u]]
  /\ occ' = [i \in Seats |-> Nobody]
  /\ stack' = [u \in Users |-> 0]
  /\ away' = [u \in Users |-> FALSE]
  /\ sitNext' = {} /\ leaving' = {} /\ kicks' = {}
  /\ qTop' = [u \in Users |-> 0] /\ qRem' = qTop'
  /\ meta' = [meta EXCEPT !.status = "closed", !.running = FALSE]
  /\ dbMeta' = Saved(meta')
  /\ UNCHANGED <<bought, ledgerIn, handVars, saveVars, results, pass, bounds>>
  /\ SaveRows(Seated)

-----------------------------------------------------------------------------
(* The hand, the clock, the restart *)

\* _timeout_tick_locked: a player whose clock ran out twice sits out
TimedOut(u) ==
  /\ Free /\ u \in Seated /\ HoldsCards(u) /\ ~away[u]
  /\ away' = [away EXCEPT ![u] = TRUE]
  /\ sitNext' = sitNext \ {u}
  /\ UNCHANGED <<occ, moneyVars, leaving, kicks, qTop, qRem, handVars, meta,
                 ledger, pass, restarts>>
  /\ PersistSafe(owed)

\* The engine's payouts: chips only change hands among the seats dealt in
DealtSeats == {i \in Seats : dealt[i] # Nobody}
\* Mutant: chips nobody wins leave the table
PayoutsLose == {d \in [DealtSeats -> -MaxSwing .. 0] : \A i \in DealtSeats : start[i] + d[i] >= 0}
Payouts == {d \in [DealtSeats -> -MaxSwing .. MaxSwing] :
              Total(d) = 0 /\ \A i \in DealtSeats : start[i] + d[i] >= 0}

\* What each player dealt in has of the seats' amounts
ForUsers(amounts) ==
  [u \in Users |-> IF \E i \in DealtSeats : dealt[i] = u
                   THEN amounts[CHOOSE i \in DealtSeats : dealt[i] = u] ELSE 0]

\* _record_hand_locked: the result of the hand, in chips and in cents
Record(d) ==
  [no |-> meta.handNo, delta |-> ForUsers(d),
   cents |-> ForUsers(ZeroSumCents(d, BBChips, BBCents))]

\* _finish_hand_locked: the stacks move in memory, the result is owed, both
\* are saved together; then the deferred cash-outs
EndHand ==
  /\ Free /\ phase = "in_hand"
  /\ \E d \in Payouts :
       LET at(u) == u \in Seated /\ SeatOf(u) \in DealtSeats IN
       /\ stack' = [u \in Users |-> IF at(u) THEN start[SeatOf(u)] + d[SeatOf(u)] ELSE stack[u]]
       /\ away' = [u \in Users |-> away[u] \/ u \in sitNext]
       /\ sitNext' = {}
       /\ \/ phase' = "runout" /\ UNCHANGED <<dealt, start>>
          \/ phase' = "idle" /\ dealt' = [i \in Seats |-> Nobody] /\ start' = [i \in Seats |-> 0]
       /\ pass' = IF leaving \cup kicks = {} THEN Idle ELSE Begin("settle")
       /\ UNCHANGED <<occ, bought, left, leaving, kicks, qTop, qRem, meta, ledger, restarts>>
       /\ PersistSafe(owed \cup {Record(d)})

\* The all-in has finished revealing (_runout_blocking turns false with time)
RunoutOver ==
  /\ phase = "runout"
  /\ phase' = "idle"
  /\ dealt' = [i \in Seats |-> Nobody] /\ start' = [i \in Seats |-> 0]
  /\ UNCHANGED <<occ, moneyVars, flagVars, meta, saveVars, dbVars, pass, bounds>>

\* The process dies and the table is loaded again (_load_table): the rows are
\* all there is, the hand is void and the table comes back paused
Restart ==
  /\ restarts < MaxRestarts /\ restarts' = restarts + 1
  /\ occ' = [i \in Seats |-> IF \E u \in Users : dbSeat[u] = i
                             THEN CHOOSE u \in Users : dbSeat[u] = i ELSE Nobody]
  /\ stack' = dbStack /\ bought' = dbBought /\ left' = dbLeft /\ away' = dbAway
  /\ sitNext' = {} /\ leaving' = {} /\ kicks' = {}
  /\ qTop' = [u \in Users |-> 0] /\ qRem' = qTop'
  /\ phase' = "idle"
  /\ dealt' = [i \in Seats |-> Nobody] /\ start' = [i \in Seats |-> 0]
  /\ meta' = [status |-> dbMeta.status, running |-> FALSE, host |-> dbMeta.host,
               handNo |-> dbMeta.handNo]
  /\ dirty' = FALSE /\ owed' = {} /\ pass' = Idle
  /\ UNCHANGED <<dbVars, faults>>

-----------------------------------------------------------------------------
(* The work between hands, one transaction per step *)

unchangedButPass == <<occ, moneyVars, flagVars, handVars, meta, saveVars, dbVars, restarts>>

\* Mutants: the watchdog takes a table with a removal, or a save, to do for idle
TickWithoutKicks ==
  /\ Free
  /\ dirty \/ (~HandBusy /\ \E u \in Seated : u \in leaving \/ qTop[u] # 0 \/ qRem[u] # 0)
  /\ pass' = Begin("tick")
  /\ UNCHANGED <<occ, moneyVars, flagVars, handVars, meta, saveVars, dbVars, bounds>>
TickWithoutSaves ==
  /\ Free
  /\ ~HandBusy /\ (kicks # {} \/ \E u \in Seated : u \in leaving \/ qTop[u] # 0 \/ qRem[u] # 0)
  /\ pass' = Begin("tick")
  /\ UNCHANGED <<occ, moneyVars, flagVars, handVars, meta, saveVars, dbVars, bounds>>

\* _watchdog_table, when there is anything to settle, land or save
StartTick ==
  /\ Free
  /\ dirty \/ (~HandBusy /\ (kicks # {} \/ \E u \in Seated :
                 u \in leaving \/ qTop[u] # 0 \/ qRem[u] # 0))
  /\ pass' = Begin("tick")
  /\ UNCHANGED <<occ, moneyVars, flagVars, handVars, meta, saveVars, dbVars, bounds>>

\* Anybody's view of the table settles what is due first (_view_ticks_locked);
\* the answer to a request is such a view
StartView ==
  /\ Free /\ ~HandBusy /\ leaving \cup kicks # {}
  /\ pass' = Begin("settle")
  /\ UNCHANGED <<occ, moneyVars, flagVars, handVars, meta, saveVars, dbVars, bounds>>

\* _deal_locked, by a player or by the automatic deal (_deal_preconditions)
StartDeal ==
  /\ Open /\ meta.running /\ ~HandBusy
  /\ pass' = Begin("deal")
  /\ UNCHANGED <<occ, moneyVars, flagVars, handVars, meta, saveVars, dbVars, bounds>>

\* _apply_leaves_locked: seat by seat; a cash-out that fails waits for the
\* next round
LeaveStep(k) ==
  /\ At("leaves", k)
  /\ LET i == First(Leavers(k)) IN
     /\ pass' = [pass EXCEPT !.stage = k, !.pos = i + 1]
     /\ \/ CashOut(i) /\ UNCHANGED <<kicks, bounds>>
        \/ Fault /\ UNCHANGED unchangedButPass

\* _settle_locked: whoever was removed mid-hand, in no particular order
KickStep(k, u) ==
  /\ At("kicks", k) /\ u \in Kicked(k)
  /\ pass' = [pass EXCEPT !.stage = k, !.todo = Kicked(k) \ {u}]
  /\ \/ /\ u \in Seated /\ CashOut(SeatOf(u))
        /\ kicks' = kicks \ {u} /\ UNCHANGED bounds
     \/ /\ u \notin Seated
        /\ kicks' = kicks \ {u}
        /\ UNCHANGED <<occ, moneyVars, away, sitNext, leaving, qTop, qRem,
                       handVars, meta, saveVars, dbVars, bounds>>
     \/ u \in Seated /\ Fault /\ UNCHANGED unchangedButPass

(* _apply_queued_topups_locked: the withdrawals, then the top-ups asked for  *)
(* mid-hand, seat by seat.  A transaction that fails puts copies of the      *)
(* Seats in memory (_mutation), while the loop goes on with the objects it   *)
(* started from: from then on it is detached, what it lands reaches the      *)
(* database but not the table.  Each loop starts attached.                   *)

Detached(k) == k = pass.stage /\ pass.detached
After(k, i, detached) ==
  [pass EXCEPT !.stage = k, !.pos = i + 1, !.detached = detached]

LandRow(u, inC, outC, moved) ==
  /\ dbSeat'   = [dbSeat EXCEPT ![u] = SeatOf(u)]
  /\ dbStack'  = [dbStack EXCEPT ![u] = stack[u] + moved]
  /\ dbBought' = [dbBought EXCEPT ![u] = bought[u] + inC]
  /\ dbLeft'   = [dbLeft EXCEPT ![u] = left[u] + outC]
  /\ dbAway'   = [dbAway EXCEPT ![u] = away[u]]
  /\ UNCHANGED <<occ, moneyVars, away>>

\* The three ends of landing: no chips to move, the write failed, it did not
LandNothing(k, i) ==
  /\ pass' = After(k, i, Detached(k))
  /\ UNCHANGED <<occ, moneyVars, away, rowVars, ledger, faults>>
LandFails(k, i) ==
  /\ LandingFaults /\ Fault
  /\ pass' = After(k, i, TRUE)
  /\ UNCHANGED <<occ, moneyVars, away, rowVars, ledger>>
Lands(k, i) == pass' = After(k, i, Detached(k)) /\ UNCHANGED faults

WithdrawalStep(k) ==
  /\ At("withdrawals", k)
  /\ LET i     == First(Queued(qRem, k))
         u     == occ[i]
         c     == Lesser(qRem[u], Cents(stack[u]) - Keep)
         moved == Lesser(Chips(c), stack[u])
     IN /\ qRem' = IF Detached(k) THEN qRem ELSE [qRem EXCEPT ![u] = 0]
        /\ \/ (~AllowRathole \/ c < BBCents) /\ LandNothing(k, i)
           \/ /\ AllowRathole /\ c >= BBCents
              /\ \/ LandFails(k, i)
                 \/ /\ Lands(k, i)
                    /\ IF Detached(k)
                       THEN LandRow(u, 0, c, -moved) /\ LedgerOut(u, c)
                       ELSE TakeOut(u, c, moved)
  /\ UNCHANGED <<sitNext, leaving, kicks, qTop, handVars, meta, saveVars,
                 dbMeta, results, restarts>>

\* What a stack of u may still grow by under the host's maximum
Room(u) == LET room == MaxBuyin - Cents(stack[u]) IN IF room < 0 THEN 0 ELSE room

TopUpStep(k) ==
  /\ At("topups", k)
  /\ LET i == First(Queued(qTop, k))
         u == occ[i]
         c == IF MaxBuyin > 0 THEN Lesser(qTop[u], Room(u)) ELSE qTop[u]
     IN /\ qTop' = IF Detached(k) THEN qTop ELSE [qTop EXCEPT ![u] = 0]
        /\ \/ c < 1 /\ LandNothing(k, i)
           \/ /\ c >= 1
              /\ \/ LandFails(k, i)
                 \/ /\ Lands(k, i)
                    /\ IF Detached(k)
                       THEN LandRow(u, c, 0, Chips(c)) /\ LedgerIn(u, c)
                       ELSE BringIn(u, c, Chips(c))
  /\ UNCHANGED <<sitNext, leaving, kicks, qRem, handVars, meta, saveVars,
                 dbMeta, results, restarts>>

\* _apply_auto_stacks_locked: the stacks of the players dealing in are reset to
\* the target ("set") or refilled once below the threshold ("topup")
AutoCents == IF MaxBuyin > 0 THEN Lesser(AutoTarget, MaxBuyin) ELSE AutoTarget
AutoThreshold == IF Lesser(AutoBelow, AutoCents) = 0 THEN AutoCents
                 ELSE Lesser(AutoBelow, AutoCents)
Playing(u) == u \in Seated /\ ~away[u]
IfPlaying(old, new) == [u \in Users |-> IF Playing(u) THEN new[u] ELSE old[u]]

AutoIn(u) ==
  LET add == CASE AutoMode = "topup" /\ Cents(stack[u]) < AutoThreshold
                    -> AutoCents - Cents(stack[u])
               [] AutoMode = "set" /\ Chips(AutoCents) > AnteChips
                                   /\ Chips(AutoCents) > stack[u]
                    -> Cents(Chips(AutoCents) - stack[u])
               [] OTHER -> 0
  IN IF bought[u] + add <= MaxCents THEN add ELSE 0
AutoOut(u) ==
  IF AutoMode = "set" /\ AnteChips < Chips(AutoCents)
     /\ Chips(AutoCents) < stack[u]
  THEN Cents(stack[u] - Chips(AutoCents)) ELSE 0

\* Mutant: the ledger rows are written outside the transaction
AutoFailsApart ==
  /\ Fault /\ pass' = Idle
  /\ ledgerIn' = IfPlaying(ledgerIn, [u \in Users |-> ledgerIn[u] + AutoIn(u)])
  /\ UNCHANGED <<occ, moneyVars, flagVars, handVars, meta, saveVars, rowVars, ledgerOut,
                 dbMeta, results, restarts>>
\* One transaction for the whole table; a failure stops the deal
AutoFails == Fault /\ pass' = Idle /\ UNCHANGED unchangedButPass
AutoStep(k) ==
  /\ At("auto", k)
  /\ \/ /\ stack' = IfPlaying(stack, [u \in Users |->
                      stack[u] + Chips(AutoIn(u)) - Lesser(Chips(AutoOut(u)), stack[u])])
        /\ bought' = IfPlaying(bought, [u \in Users |-> bought[u] + AutoIn(u)])
        /\ left' = IfPlaying(left, [u \in Users |-> left[u] + AutoOut(u)])
        /\ ledgerIn' = IfPlaying(ledgerIn, [u \in Users |-> ledgerIn[u] + AutoIn(u)])
        /\ ledgerOut' = IfPlaying(ledgerOut, [u \in Users |-> ledgerOut[u] + AutoOut(u)])
        /\ UNCHANGED <<occ, flagVars, handVars, meta, saveVars, results, bounds>>
        /\ SaveRows(Seated) /\ dbMeta' = Saved(meta)
        /\ pass' = [pass EXCEPT !.stage = k + 1]
     \/ AutoFails

\* _deal_now_locked: two eligible seats or no hand; the deal may first wait for
\* the shuffle, and then starts over (_fair_begin_locked)
DealStep(k) ==
  /\ At("deal", k)
  /\ pass' = Idle
  /\ \/ UNCHANGED <<unchangedButPass, faults>>
     \/ /\ Cardinality(Eligible) >= 2 /\ meta.handNo < MaxHands
        /\ phase' = "in_hand"
        /\ dealt' = [i \in Seats |-> IF i \in Eligible THEN occ[i] ELSE Nobody]
        /\ start' = [i \in Seats |-> IF i \in Eligible THEN stack[occ[i]] ELSE 0]
        /\ meta' = [meta EXCEPT !.handNo = @ + 1]
        /\ UNCHANGED <<occ, moneyVars, flagVars, ledger, restarts>>
        /\ PersistSafe(owed)

\* _retry_persist_locked, the last step of a tick
PersistStep(k) ==
  /\ At("persist", k)
  /\ pass' = Idle
  /\ UNCHANGED <<occ, moneyVars, flagVars, handVars, meta, ledger, restarts>>
  /\ IF dirty THEN PersistSafe(owed) ELSE UNCHANGED <<saveVars, rowVars, dbMeta, results, faults>>

SettleDone(k) == At("end", k) /\ pass' = Idle /\ UNCHANGED <<unchangedButPass, faults>>

-----------------------------------------------------------------------------

Handler ==
  \/ \E u \in Users, i \in Seats, c \in BuyIns : Sit(u, i, c)
  \/ \E u \in Users, c \in Changes : TopUp(u, c) \/ TakeOff(u, c)
  \/ \E u \in Users, i \in Seats : Move(u, i)
  \/ \E u \in Users : Leave(u) \/ LeaveNow(u) \/ CancelLeave(u) \/ Kick(u)
                     \/ SitOutNext(u) \/ TransferHost(u) \/ TimedOut(u)
  \/ \E u \in Users, on \in BOOLEAN : SitOut(u, on)
  \/ \E on \in BOOLEAN : SetRunning(on)
  \/ Close

PassStep ==
  \E k \in Stages :
    \/ LeaveStep(k)
    \/ \E u \in Users : KickStep(k, u)
    \/ WithdrawalStep(k)
    \/ TopUpStep(k)
    \/ AutoStep(k)
    \/ DealStep(k)
    \/ PersistStep(k)
    \/ SettleDone(k)

Next ==
  \/ Handler \/ EndHand \/ RunoutOver
  \/ StartTick \/ StartView \/ StartDeal \/ PassStep
  \/ Restart

Spec == Init /\ [][Next]_vars

-----------------------------------------------------------------------------
(* Properties *)

MoneyOK == [Users -> Nat]

\* The types of the table's state; no stack or total is ever negative, and
\* nobody is still to sit out between hands
TypeOK ==
  /\ occ \in [Seats -> Users \cup {Nobody}]
  /\ stack \in MoneyOK /\ bought \in MoneyOK /\ left \in MoneyOK
  /\ away \in [Users -> BOOLEAN]
  /\ sitNext \subseteq Users /\ leaving \subseteq Users /\ kicks \subseteq Users
  /\ sitNext # {} => phase = "in_hand"
  /\ qTop \in MoneyOK /\ qRem \in MoneyOK
  /\ phase \in {"idle", "in_hand", "runout"}
  /\ dealt \in [Seats -> Users \cup {Nobody}] /\ start \in [Seats -> Int]
  /\ meta.status \in {"open", "closed"} /\ meta.host \in Users /\ meta.handNo \in 0 .. MaxHands
  /\ dirty \in BOOLEAN
  /\ dbSeat \in [Users -> Seats \cup {NoSeat}]
  /\ dbStack \in MoneyOK /\ dbBought \in MoneyOK /\ dbLeft \in MoneyOK
  /\ ledgerIn \in MoneyOK /\ ledgerOut \in MoneyOK
  /\ pass.job \in {"none", "settle", "tick", "deal"} /\ pass.stage \in Stages
  /\ pass.todo \subseteq Users /\ pass.detached \in BOOLEAN
  /\ faults \in 0 .. MaxFaults /\ restarts \in 0 .. MaxRestarts

\* A player's running totals equal the sums of their ledger rows
\* (reconcile_ledger), in every state the database can be left in
LedgerMatchesTotals ==
  \A u \in Users : ledgerIn[u] = dbBought[u] /\ ledgerOut[u] = dbLeft[u]

\* What the table believes is what is saved: seats and money totals always,
\* stacks unless a hand's result is still owed to the database, away flags
\* unless a failed save is waiting to be retried
MemoryMatchesRows ==
  \A u \in Users :
    /\ dbSeat[u] = SeatIn(occ, u)
    /\ bought[u] = dbBought[u] /\ left[u] = dbLeft[u]
    /\ u \in Seated => /\ owed = {} => stack[u] = dbStack[u]
                       /\ ~dirty => away[u] = dbAway[u]

\* A seat that was dealt cards stays with the player they were dealt to until
\* the hand and its runout are over ("cannot happen" in _sit_locked), and their
\* chips do not change under them: a hand ends with start + payout
CardsKeepTheirSeat ==
  HandBusy => \A i \in DealtSeats :
    /\ occ[i] = dealt[i]
    /\ phase = "in_hand" => stack[dealt[i]] = start[i]

\* What the chips of the table are worth beyond the money on it (a chip is
\* BBCents units, a cent BBChips of them)
Surplus ==
  BBCents * Total([u \in Users |-> IF u \in Seated THEN stack[u] ELSE 0])
    - BBChips * MoneyOnTable
WholeStacks == \A u \in Seated : (stack[u] * BBCents) % BBChips = 0
Size(n) == IF n < 0 THEN -n ELSE n

\* Play, buy-ins, rebuys and automatic chips never create or destroy a chip; a
\* cash-out rounds away less than a cent, and nothing where there is nothing to
\* round (module docstring)
WorthIsKept ==
  IF Seated \subseteq Seated' THEN Surplus' = Surplus
  ELSE /\ Size(Surplus') < Size(Surplus) + BBChips
       /\ Surplus = 0 /\ WholeStacks => Surplus' = 0

\* What is on the table is well-formed, and stays worth what was paid for it (but
\* when a restart finds a hand unsaved, whose chips are back where they were while
\* players may have been paid since)
TableIsSolvent ==
  /\ []TypeOK
  /\ [][~UNCHANGED <<occ, moneyVars>> => WorthIsKept \/ (owed # {} /\ restarts' # restarts)]_vars

\* Exactly worth it, for a stake whose chips are whole cents
ChipsBacked == Surplus = 0

\* Every committed change of the saved money is a whole business event
SavedMoney == INSTANCE TableMoney WITH
  seat <- dbSeat, chips <- dbStack, paidIn <- dbBought, paidOut <- dbLeft, hands <- results,
  behind <- owed # {}, failures <- faults
SavedMoneyIsWhole == SavedMoney!Spec

\* A closed table paid out exactly what came in and holds no chips
ClosedIsZeroSum ==
  dbMeta.status = "closed" =>
    /\ Total(dbBought) = Total(dbLeft)
    /\ \A u \in Users : dbStack[u] = 0 /\ dbSeat[u] = NoSeat

\* The recorded results of a hand add up in cents the way its chips do, each
\* within a cent of exact (zero_sum_cents, OPS-015)
ResultsAddUp ==
  \A r \in results :
    /\ Total(r.cents) = 0
    /\ \A u \in Users : LET off == r.cents[u] * BBChips - r.delta[u] * BBCents
                        IN -BBChips < off /\ off < BBChips

\* No cent is made or lost by rounding, from the hands to the closing of the table
CentsAddUp == ClosedIsZeroSum /\ ResultsAddUp

\* A hand number is saved with the hand's result, so no later hand is recorded
\* over it (INSERT OR REPLACE would not notice)
RecordsNeverReplaced == [][results \subseteq results']_vars

\* A restart in the middle of a hand gives everyone who was dealt in the seat
\* and the chips they had when it began, also when the save of the deal failed
\* (an earlier hand whose save failed is lost with them)
VoidHandIsUndone ==
  [][phase = "in_hand" /\ owed = {} /\ restarts' # restarts =>
       \A i \in DealtSeats : occ'[i] = dealt[i] /\ stack'[dealt[i]] = start[i]]_vars

(* Fairness: the watchdog thread tries every table four times a second, and   *)
(* only skips one whose lock is taken at that instant (strong: handlers keep  *)
(* it for milliseconds); a pass begun runs on; a hand is brought to its end   *)
(* by the players, the shot clock and the away rule; a runout ends with time. *)
(* Failing writes are bounded, so they fall short of forever.                 *)
LiveSpec ==
  /\ Spec
  /\ SF_vars(StartTick) /\ WF_vars(PassStep)
  /\ WF_vars(EndHand) /\ WF_vars(RunoutOver)

\* Whoever left or was removed during a hand is cashed out in the end, even if
\* the write fails at first (or they change their mind, or the table closes)
LeaversAreSettled ==
  \A u \in Users : u \in leaving \cup kicks ~> u \notin leaving \cup kicks

\* A save that failed is made up for: the table does not stay ahead of the
\* database
SavesCatchUp == dirty ~> ~dirty

=============================================================================
