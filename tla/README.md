# A TLA+ model of the home-game tables

The repository holds a study server for five-card pot-limit Omaha: a rules engine, a
network trained by self-play and by counterfactual-regret solving, review and range tools
on top of it, and **home games**: tables at which friends play over the web for money they
settle among themselves. The home games (`src/python/plo5bp/ui/homegame.py`, 6172 lines)
are the one part in which several people, threads, timers, a database and a crash meet, and
in which being wrong costs somebody money. They are what this project models, in TLA+,
checks with TLC and proves facts about with TLAPS.

`PROJECT.json` maps every definition to the lines of the source it stands for, and lists
the components, runs, mutants, findings, hazards and theorems.

## 1. The system

### Inventory

| Component | State it keeps | Operations | Modelled by |
|---|---|---|---|
| **home table**: seats, chips, money, persistence (`homegame.py`) | `LiveTable` (seats, stacks, totals, flags, queued chips, the hand, `persist_dirty`, `unsaved`) and its rows: `homegames`, `homegame_players`, `homegame_ledger`, `homegame_hand_results` | sit, top-up, rebuy, take chips off, move, leave, kick, sit out, start/pause, hand the table on, close; deal, end of a hand; settle, land queued chips, automatic chips, retry a save; load | `HomeTable`, `Money`, `TableMoney` |
| **turn clock, time bank, automatic deal, watchdog** (`homegame.py`) | `turn_started_mono`, `bank_started_mono`, each seat's `time_bank_left` and `timeouts`, `next_deal_mono`, `wd_failing_since`, `wd_next_mono` | act, time out, burn the bank, sit out and come back, count down, deal, pause a failing table | `TurnClock` |
| **table hub** (`class Hub`, `_load_table`) | the tables in memory, loader locks, the hands abandoned | find, load, evict the idle, forget at a restart | `Hub` |
| **verifiable shuffle** (`FairPending`, `_fair_*`, `fairdeal.py`) | the sealed deck, commitments, locked list, reveals, barred players; strikes and time-outs of the table | seal, commit, lock, reveal, void, deal, call off | `FairShuffle` |
| **hand grading** (`_queue_grading`, `_grader_loop`, `_grade_job`, `_store_grades`) | queue and held keys in memory, `homegame_grade_jobs`, the hand's marks | save, queue, sweep, replay, store, give up, die, start again | `Grading` |
| **rules engine** (`engine.rs`, `double_board.rs`, `state.rs`; `env.py`, `actions.py`) | `GameState`: stacks, commitments, bet and raise, who acted, street | deal, fold, call, raise, all-in, open a street, run out, pay | `Betting`, `SidePots` |
| **runout and hand history** (`runout.py`) | pots, awards and flows of a hand | group, award, record | `SidePots` (the numbers; timelines and equities are presentation) |
| **heavy-work gates and metering** (`ratelimit.py`, `public.py`) | gates per user and one for the model, their queues; the usage table; a trainer session's hand | wait, take, hand over, give up; count, refund | `HeavyWork` |
| **accounts, sessions, billing** (`public.py`) | the users row: status, source, subscription, customer, period, when it was checked; `stripe_events` | check out, confirm, webhook events, refresh, comp | `Billing` (billing; sign-in and sessions are not modelled) |
| buy-in approvals | requests waiting for the host | ask, approve, refuse | no; an approved request ends in `Sit` or `TopUp` |
| views, routes, clubs, people, statistics, bot | reads and permissions | one request, one handler | no |
| model serving and hot swap | the served network | check, swap | no; `Grading!ModelChanges` |
| trainer, hand review, range tools, website | little shared state | requests | no; how they are admitted is `HeavyWork` |
| live tracking and OCR | recognised tables | heuristics over pixels and text | out of reach |
| hand evaluation, encodings | tables over cards | pure functions | out of a model checker's reach |
| regret solver, training | numerical | iteration | out of reach |
| deployment and operations | files on the server | scripts run by hand | no |

### How the parts interact

Every request finds its table in the hub, takes the table's lock and runs one handler. A
handler that changes saved state does so in one `_mutation`: memory and rows change
together, and on an error the transaction is rolled back *and* the table's memory restored.
A watchdog thread visits every table four times a second, skips one whose lock is taken,
and does the work nobody asks for: cash-outs deferred during a hand, queued chips, a save
that failed, a clock that ran out, a shuffle that waits, the automatic deal. Views do part
of that work too. The deal may wait on the shuffle, and starts over when it is ready. The
save of a hand's end hands the grader its job. The hand itself is played by the rules
engine, which the table asks for legal moves and tells what was done; who must act next
starts the turn clock, and the chips the engine pays end up in the seats and, divided again
by `runout.py`, in the hand's record. Requests for study and trainer work, from the same
site, pass the gates of `ratelimit.py` first, and what a user may do there depends on what
the users row says of a subscription at Stripe.

### What is hard about it

* **Deferred work.** Nobody's chips may move while they hold cards, so leaving, removal,
  top-ups, withdrawals and sitting out are noted and done later. Any of them may meet any
  other, a restart, or a change of mind.
* **Work between hands is many transactions.** One hold of the lock settles, lands, resets
  and deals, each in a transaction of its own. A crash or a failing write falls between them.
* **The end of a hand is not rolled back.** Chips move in memory even if the save fails; the
  table is then *dirty* and ahead of its rows until a retry, while requests go on saving
  single rows. A save that goes through may still drop the hand's record.
* **Money is whole cents, chips may be worth less.** Every cash-out divides the money on the
  table, so rounding must neither create nor lose a cent.
* **A protocol with absent parties.** The shuffle's devices may not answer, commitments name
  seats that change hands, and a deadline races the last answer.
* **Two records of one job.** A grading job is in the database and in memory, and two
  threads move it.
* **Clocks that belong to a decision.** Whoever ends it, in whatever way, must stop its
  clock and settle its bank; settings and absences change under way.
* **A table may be forgotten.** Requests hold on to a copy they found while the hub evicts
  it, another loads it, or a load fails with others waiting for it.
* **A slot on its way.** A gate hands a slot to a waiter by a callback; the waiter may give
  up before the callback, after it, and before it wakes.
* **Read, ask, write.** Billing reads a row, asks Stripe over the network, and writes. Events
  come late, twice and out of order.
* **Short stacks.** Short all-ins, lock-outs and covering caps decide who still has to act and
  who may win which chips.

### What makes each part correct

* table: the ledger and the totals agree; memory and rows agree unless a save is waiting;
  chips are worth the money on the table; a closed table paid out what came in; seats that
  hold cards keep player and chips; a void hand is undone; no record is overwritten;
  whoever leaves is paid; a failed save is made up for.
* shuffle: a cut has everyone's number that its list promised; the list is final; those who
  withheld are named and kept out, and only those; no deal waits for good.
* grading: no job is lost, a hand has all its tries, every hand is settled.
* clock: nobody present is acted for before their whole clock and bank are used; bank seconds
  go from whoever used them; no decision lasts for ever, nor does a running table's pause.
* hub: whoever acts at a table acts on the copy in the hub; no hand is taken back; a hand cut
  short is told of; everybody is answered.
* engine: rounds ask everybody, raises are full, hands end; what is paid is what was bet, and
  nobody wins more than they covered from each; the home game shows the same.
* gates: no slot is lost or given twice, a user's requests run one at a time, the meter counts
  hands answered, everybody is served.
* billing: an ended subscription is not trusted for long, one nobody can confirm no longer than
  its paid period and the grace, a live one gives access.

The hazards behind these, each at its line, are in `PROJECT.json`.

## 2. The modules

| Module | What it is |
|---|---|
| `Money` | chips to cents and back, `Apportion` (`apportion_cents`) and `ZeroSumCents` (`zero_sum_cents`): pure operators |
| `HomeTable` | one table: `LiveTable`, its rows, the ledger, the between-hands passes, failing writes, restarts |
| `TableMoney` | abstract: what the saved money promises, whatever the table does |
| `TurnClock` | time at a table: the decision's clock, the banks, the countdown, the watchdog |
| `Hub` | one table as the hub sees it: copies, loads, evictions, requests under way |
| `FairShuffle` | the shuffle's protocol at one table |
| `Grading` | the grading queue, its thread and its rows |
| `SidePots` | a finished hand's division, by the engine and by the home game: pure operators |
| `Betting` | one hand of the rules engine, ending in `SidePots` |
| `HeavyWork` | gates, their queues, and the daily allowance |
| `Billing` | a user's subscription at Stripe and what the users row says of it |
| `MC*` | symmetry and small instances for TLC |
| `*_proof` | the theorems and their proofs |

### HomeTable

*State.* A player sits in at most one seat, so a `Seat` object's fields are functions on
`Users` (`stack`, `bought`, `left`, `away`, `qTop`, `qRem`) or sets of users (`sitNext`,
`leaving`); `occ` says who sits where. `phase`, `dealt`, `start` are the hand. `dirty` and
`owed` are `persist_dirty` and `unsaved`. `db*`, `ledger*`, `results` are the rows; the
ledger keeps each player's sums in and out, all that `reconcile_ledger` reads.

*Steps.* A request is one atomic action, since it runs under the table's lock in one
transaction; one that fails is undone whole, so only success is a step. What happens between
hands is different: it is several transactions under one hold of the lock. `Plan` lists the
stages of the three jobs that do such work (`_settle_locked` alone, the watchdog's tick, the
deal); `pass` is the job under way, and each transaction of it is a step. While a pass runs
no handler does (`Free`), but a `Restart` may fall anywhere. Every transaction of a pass may
also fail (`Fault`), in the way the code takes that failure: the loop goes on, the deal is
dropped, or the table turns dirty.

*Failures in the landing loop.* `_mutation` restores memory by replacing the seats with
copies. `_apply_queued_topups_locked` goes on looping over the objects it started from, so
after one failure it lands chips in the rows but not on the table: `pass.detached`.
`LandingFaults` turns this failure on, so that properties it breaks can be checked for
everything else.

*Loading.* `Restart` rebuilds the table from the rows alone: paused, no hand, nothing queued.
The hub's eviction of an idle table is a `Restart` at a moment when little is lost.

*The engine.* A hand is played outside; `Payouts` are chip results that sum to zero and
cost nobody more than they started with.

*Abstract specification.* `TableMoney` knows only saved seats, chips, totals and hands. A change
of them is one of a few whole events: players exchange money for chips at par; somebody gets up and
is paid their part of the money, less than a cent off, the last one all of it; everybody gets up and
all the money is paid; one finished hand moves chips and is recorded with exactly the results it
moved, or, if a write failed, without its record. While a hand whose save failed is still to be made
up for (`behind`) a commit may save one row from after it and leave another from before it: then the
abstract table only promises that money is not taken back and no record vanishes. `SavedMoneyIsWhole`,
the refinement mapping `HomeTable!SavedMoney`, says that every commit of the table is one of these.

### FairShuffle

A deck is sealed whenever the table is open and between hands. `by` keeps who committed from
each seat, `lock` the seats on the published list, `revealed` those that have shown their
number. Which seats would be dealt in (`mask`), whose browser is present (`here`) and
whether the deadline has passed (`late`) are inputs that every handler may find any way.
Hashes and the permutation are not modelled: a commitment is its author. `Ticked`
(`_fair_tick_locked`), `Complete`, `Void` and `LockList` are operators because the commit,
the reveal, the deal and the watchdog all end in them. `missed` and `dealt` record what was
seen at the table, to state properties about it.

### Grading

One action per step of `_grader_loop` that another thread can come between: the sweep reads
rows and queues them one at a time, a hand is taken, replayed, its failure counted or its
marks stored. `Save` and `Post` are the table's thread: the job commits with the hand, and
is queued afterwards. An error `_grade_job` does not catch ends the thread (`Dies`).

### TurnClock

Instants of the code are ages here, or seconds still to go, and `Second` moves them all. The
watchdog holds the table's lock for a tick and runs its steps one after the other (`at`),
each of which may fail (`StepFails`) without stopping the next; requests come between ticks.
Of the betting it matters only who acts next and when the hand is over, so `NextDecision` lets
any player still in be next and passes the absent, as `_resume_turn_locked` does. The code
marks the clock and the bank with the decision they belong to (`turn_key`, `bank_key`); each
step that ends a decision restarts the one and stops the other, so the model keeps only their
ages and the properties say what the marks are for. `waited` and `rested` are observers.
`EditWhileBurning` turns on the one case that breaks `ChargedFairly` (section 5).

### Hub

A table has one `copy` per request that loaded it, and the hub has at most one of them. A request
is a sequence of steps, since finding the table, loading it and taking its lock are under three
different locks. `Tick` lets no request be under way longer than `RequestTime`: handlers and loads
take milliseconds, streams look the table up anew for each push, and the hub waits half an hour,
which is all the argument for evicting a table without its lock needs, and what `OneCopyTheorem`
assumes. `rows` is what a load reads: the hand number, the hand whose end the stacks are of, and
the last hand on record. These differ since `Persisted` commits the number and the stacks together
with *some* of the records the table owes (`unsaved`): each is written in a savepoint of its own,
and one that fails is dropped. `last` remembers the last hand as played.

### Betting and SidePots

One action per move of `GameState::apply`, with legality, sizes, the raise floor, lock-outs and
the covering caps of the four kinds of game that differ in them (bomb pots as the home games
play them, with a covering cap, hold'em, and Study with its stops at each street). Cards
appear only when a hand is over: `SidePots` divides the pot for *every* order of the live
hands on each board, and `PotsAreRight` and `TableShowsThePayout` quantify over all of them.
`Screen`, `RaiseOffered` and `RaiseAccepted` are the Python side, which offers what the engine
is then asked to take.

### HeavyWork

A request is the steps between two awaits on the event loop. A released slot goes to the
oldest waiter that still waits: its future is settled by a callback (`Grant`), and its task
wakes up after that (`Resume`); `Expire`, `GiveUp` and `Back` are a wait that ends in between.
`PassOn` is a callback that finds its waiter gone and passes the slot on. `KeyedGates` drops a
user's gate with its last user, and a new gate is a new name. Metered requests count a hand,
read the count again, do the work and take the count back if no hand was dealt, each an await.

### Billing

`sub`, `until` and `owner` are Stripe's side, `row` is the user's. Each job of a thread is a
read, a question to Stripe and a write, and others come between. Stripe is external: it sends
events about what has happened, which arrive in any order, as often as it likes; or it does
not answer. `crossed` notes that a write was decided from an outdated reading. `_paid` lets a
user in on three grounds, and the model has them apart: a status that is fresh (`Trusted`), an
answer from Stripe (`Visit` to `Write`), and, if the question is put off or nobody answers
(`FailsOpen`), the cached status until the period's end and `Grace`.

## 3. What is checked

| Run | Instance | Shows |
|---|---|---|
| `table_play` | 2 players, 2 seats, one hand, a chip worth half a cent, stacks reset at each deal, top-ups and withdrawals | cards keep their seat; the chips stay worth the money |
| `table_faults` | 2 players, two hands, a chip worth half a cent, automatic top-ups, one failing write, one restart | ledger = totals, memory = rows, no cent made or lost, a void hand is undone, no record replaced; the saved money refines `TableMoney` |
| `table_live` | one hand, one failing write, fairness | leavers are settled, a failed save is made up for |
| `shuffle` | 2 players, 2 seats, two hands, one reload, fairness | blame, whole cuts, the record of voids, absentees, final lists; the shuffle ends |
| `grading` | 3 hands (one from a seed), a queue of 2, two tries, one failing write, one restart, fairness | types, no lost job, all tries, every hand settled |
| `clock` | 2 players; a shot clock, a bank and a delay of 0 or 1 s; two hands of two decisions; one edit or failing step; fairness | nobody acted for or dealt to early; banks pay what was used; a decision keeps its clock; the table moves on |
| `betting` | 3 seats, stacks of 1, 3 and 8 chips, antes and blinds of 1, 1 and 3, four kinds of game, pot and half-pot sizes and every raise; fairness | pots, awards and flows for every order of the hands; offered raises are taken; rounds and raises; a hand runs down to its end |
| `heavy` | 3 requests of a free user and one of a subscriber, one model slot, queues of 2 and 1, an allowance of one hand, one midnight; fairness | slots, one request at a time, the meter, everybody served |
| `billing` | 2 subscriptions, 2 threads, periods of two days, a grace of one, three days and five events | an ended subscription is trusted a day at most unasked, and unanswered until its period and the grace are over; a live one gives access |
| `hub` | 3 requests, two hands, one restart, failing loads, saves that fail or drop a record; fairness | one copy, nothing taken back, a cut hand told of, everybody answered |
| `table_detached`, `billing_overwrite` | as small as the case allows | two of the disagreements of section 5 |

`table_mixed`, `shuffle_restart`, `grading_twice`, `clock_settings`, `betting_gate`,
`billing_comp`, `hub_explain` and `hub_record` are further configurations, each of which shows a
disagreement of section 5 by a counterexample (`tlc -config clock_settings.cfg MCTurnClock`);
they are no part of the runs of `PROJECT.json`. Nor is `table_stakes`, which takes half an hour
(4.3 million states) and finds no error: `TableIsSolvent` and `SavedMoneyIsWhole` together, at the
half-cent stake, with resets, withdrawals, one failing write and one restart.

**Bounds.** *Table.* Two players meet in every way two can: both leaving, one kicked while the
other queues chips, one moving to a free seat. Buy-ins and changes of two cents keep every
relation of amounts to the ante, the big blind, the automatic target and the host's maximum
(below, equal, above: a lost half cent is below); `MaxCents` and `MaxSwing` cap totals and
results. With two chips to the cent a hand of one chip's swing leaves half cents in two stacks, so
cash-outs do round; that a cent is a whole number of chips is the stake "that allows" whole-cent
raise sizes (homegame.py:51). Two hands are enough for a record to be overwritten. One failing
write and one restart, at any place, are what the code promises to survive; `table_faults` has
both in one behaviour. In `table_live` the stacks stay as they were (`MaxSwing = 0`), which
neither property reads.
*Shuffle.* A player who withheld, is barred and comes back into the other seat takes two players,
two seats and two hands; `Strikes` has its real value, `PenaltyHands` is 1 for 20 and
`MaxAttempts` 2 for 4 (past it the counter is read only as "no more waiting").
*Grading.* A queue of two with three hands fills up.
*Clock.* Lengths of 0 and 1 s tell "none" from "some", and ages beyond the longest wait are not
told apart (`MaxAge`); two decisions are enough for a clock to leak into the next one, and two
hands for a countdown to leak past the deal that should have ended it; the theorems have the
general case. *Betting.* Stacks below, at and above the big blind once the ante is paid give
all-ins short, exact and covered; three seats give side pots of two layers beside the main one and
a player locked out between two others. *Heavy.* One user may have one request running, one
waiting for the model and one waiting for the user's gate, while the other user holds the model.
*Billing.* An old subscription and a new one; five events are both checkouts' and one ending; on
the third day the period and the grace of one bought on the first are over. *Hub.* One request on
an old copy, one loading, one waiting for the loader.

**Symmetry.** Players, subscriptions and threads are interchangeable, seats are ordered, so safety
runs use permutations of `Users`, `Subs` and `Workers`; runs with liveness use none.

**Deadlock.** A closed table, a hand that is over, or a model whose bounds are used up stops:
those runs say `CHECK_DEADLOCK FALSE`. The grading run checks for deadlock.

**Fairness.** `HomeTable`: the watchdog tries each table four times a second but skips a
locked one, and handlers hold the lock for milliseconds, so `StartTick` is strongly fair; a
pass that has begun runs on (weak); a hand is ended by players or clock, and a runout ends
with time (weak). `FairShuffle`: only that a waiting deal is, in the end, ticked after its
deadline; nothing is assumed of devices. `Grading`: the saving thread goes on to queue the
hand, the grader takes its steps while it lives and is started again by the next request;
nothing is assumed of models: `HandsAreSettled` has "a model is served for good" as its
premise. `TurnClock`: time passes (strong, since it does not pass within a tick) and the
watchdog's tick goes on (weak); nothing of players. `Betting`: whoever is asked answers, if
only because the shot clock does it for them. `HeavyWork`: the event loop runs what is ready,
and handlers return; that a wait ever times out is not assumed. `Hub`: a request's thread
runs. Failing writes, failing steps and restarts are bounded, so none lasts for ever.

Each property of a passing run has a mutant: an operator in the module, marked "Mutant",
that breaks the code the way a plausible bug would and makes TLC find the property violated.

## 4. What is proved

All theorems hold for every value of the constants under the modules' assumptions: an empty
seat is nobody (`NobodyAssumption`), there is a seat (`SeatsAssumption`), people are finitely many
(`UsersAssumption`), a table has a big blind and its amounts are not negative (`StakesAssumption`,
`AmountsAssumption`: the code refuses any other settings or request), bounds are natural numbers,
strikes, attempts and tries are at least one (`BoundsAssumption`, `FairAssumption`,
`GradingAssumption`), ages are kept as long as anything waits (`MaxAgeAssumption`), and no
request outlives the hub's idle limit (`TimeAssumption`). `LandingFaults = FALSE`, where a theorem
assumes it, leaves out the failing write of `table_detached`.

**`Money_proof`.** A sum over the seats is a fold, and what it amounts to needs induction over a
finite set. `SubsetInduction` gets it from the well-foundedness of strict inclusion: the subsets
with a property, as a set, in place of a property of subsets. From it come the facts about `Total`
that the other proofs use: a sum changes with one of its summands (`TotalBecomes`), adds, scales,
and is monotone. Both largest-remainder divisions hand out one extra cent to the first `n` in an
order by remainder and seat; `Rank` numbers that order without gaps, so exactly `n` get one (the
lemmas on `Marks`). With this `ApportionTheorem`: what is divided is handed out, whole, to stacks
that have chips, each share less than a cent from its exact proportion; and `ZeroSumTheorem`:
results that sum to zero in chips do so in cents, nobody's a cent off.

**`HomeTable_proof`**, in the order of the module.

*Seats dealt into a hand keep their player and chips* (`CardsTheorem`,
landing failures included). The property is not inductive: a pass in the middle of its loops
must be known to be between hands, nobody may sit twice (or `SeatOf` would pick the wrong
seat) and a reload must not seat anybody under a hand. `SeatingInv` adds these: the shape of
the pass, one seat per player, dealing passes run between hands. Each action is shown to
keep it; most only need that seats and hand are untouched. *Totals equal the ledger*
(`LedgerTheorem`, assuming `LandingFaults = FALSE`; the run `table_detached` shows why it
must be). The ledger changes with the rows, and rows are written from memory, so `MoneyInv`
adds that totals in memory equal the rows, for seated and absent players alike, that saved rows
have their shape (`RowsShape`, which a reload needs), and that no loop is detached.

*What a restart finds is what memory holds*
(`MemoryTheorem`, without landing faults): every transaction saves the rows of everybody it
concerns (`SavedKeepsRows`), and a save of the whole table leaves it dirty when it fails, owing the
hand's result when stacks moved (`PersistKeepsRows`). Stating it for every number of failed writes
made the property exact: stacks match the rows unless a *result is owed*, not merely unless the
table is dirty. So *a hand that a restart cuts short never was* (`VoidTheorem`): seats from the
rows are the seats of memory (`RestartSeats`), and the chips dealt in with are saved even when the
save of the deal itself fails. The exception in both, a result still owed, needs two failed saves
and a restart, which the runs' single fault does not reach. *No record is replaced*
(`RecordsTheorem`, landing faults included): `NumbersInv` says that the number in the table's row is
ahead of every record, that the number in memory is ahead of what is owed and, during a hand, ahead of
everything recorded.

*Nothing becomes negative* (`TypeTheorem`, without any hypothesis). That a stack cannot is more
than a type: a cash-out pays the player's share of the money at the table, so `TypeInv` needs
`Apportion` to charge nobody, seat by seat through a closing (`ClosingMoney` stays a natural
number while it is shared out), and a hand to cost nobody more than they brought into it.
*Recorded results add up* (`ResultsTheorem`, without any hypothesis): a record, or a result owed
to the database, is `ZeroSumCents` of chips that sum to zero.

*A table is worth its chips* (`SolvencyTheorem`). Forty disjuncts of `Next` move money in seven
ways, which `StepMoves` shows once: nothing moves; a player brings money and gets chips, takes
chips off for money, or leaves with all they have; the table closes, reloads, or a hand moves
chips from one to another. `Surplus` is what the chips are worth beyond the money. Both theorems
about money ask for one thing of the stake, that a cent is a whole number of chips (`BBChips %
BBCents = 0`, the docstring's condition for whole-cent raise sizes, homegame.py:51; with the
code's 10,000 chips to the big blind, every big blind that divides $100). Then chips come and go
at par (`ParTrade`), and five of the seven ways leave the surplus as it is (`EvenKeepsSurplus`,
`HandKeepsSurplus`). A cash-out is a share of the money that is less than a cent from the stack's
exact part (`ApportionTheorem`), so it changes the surplus by less than a cent, and where the
surplus is nothing and the stacks are whole cents, by nothing (`LeavesNearly`; for a whole
closing, seat by seat, `ClosesNearly`). The rest of `TableInv` is the types, that nobody has chips
without a seat (`EmptyHanded`), and that the rows are memory's. Any number of writes may fail, and
the table may restart; the property itself leaves out one step, the restart that finds a hand's
result still owed, and `table_mixed` shows why.

*The saved money refines the abstract money* (`SavedMoneyTheorem`, under the same assumptions):
step by step, as long as no result is owed each transaction's rows are memory's before and after
(`RowsAreMemory`), so the seven ways become the events of `TableMoney` (`TradeIsTrade`,
`LeaveIsGetUp`, `CloseIsAllGetUp`, `HandIsHand`). A save that fails with a hand's result leaves
the rows alone and the table `behind`; what is committed until it is made up for never takes money
back and replaces no record (`OwedStepCatches`, which needs `NumbersInv`).

*No cent is made or lost* (`CentsTheorem`). A closing pays everyone their share of what the
earlier ones left, so it pays out all there is (`ClosingPaysAll`) unless there is less than
nothing, or nobody to pay it to: `Covered` excludes both. Where chips leave only with their player
it holds for any stakes and through failed saves and restarts, since each takes a share of the
money, and the last one all of it. Where they may be taken off (withdrawals, stacks reset at each
deal) they are taken at their nominal value, and the theorem asks for a chip of a cent and for
results not to be lost. TLC shows that both matter: with a lost result a player takes off chips
that the restart gave back, and the winner has left with the money; and with a big blind of two
chips and five cents, one who brings 7 cents fourteen times gets three chips each time, for the
2.8 they are worth, and can take off more than came in. The code's chip is a ten-thousandth of a
big blind, and what stays in front of who takes chips off is at least a big blind and the ante: it
would take thousands of changes, all rounded one way.

**`FairShuffle_proof`.** Every handler ends in one of nine effects on the deck (voided,
dealt, failed to deal, kept with perhaps one more commitment, locked, shown, one commitment
dropped, started afresh, untouched). `StepHasEffect` shows this once; the theorems
then argue about effects. `IInv` is the types, `DeckInv` (a list exists only in the reveal
stage, and what is shown is on it) and `CommitInv` (whoever a commitment
is from is neither barred nor timed out, and every seat on the list has a commitment): without
it a step could deal somebody who withheld a number. From it: `TypeTheorem`, `SilentTheorem`,
`CutTheorem`, `LockTheorem`. `RecordTheorem` and `AbsenteesTheorem` speak of a table up to its
first reload, as their properties do, since a reload forgets the voids (`shuffle_restart`).

**`Grading_proof`.** `NoJobIsLostTheorem` and `AllTriesTheorem`. `IInv` adds that a hand held
by the queue or the thread has been saved, and that a saved job's attempts never run ahead
of the failures seen: without it "this was the last try" could not be told. `QueueTheorem` is
the type invariant, whose last part says what `_grader_keys` is for; with it go `KeysOK` (the keys
are the hands in the queue and the one under way, none of them twice) and `DeadIsIdle` (a dead
grader holds nothing).

**`TurnClock_proof`.** A clock cannot be shown to belong to its decision by looking at the clock;
`Clocks` says that its age is the time this decision has been waited for, and that the bank's is
what of it was beyond the shot clock. Every step keeps this but one, the host changing the shot
clock while a bank burns, so `NothingEarlyTheorem` and `ChargedTheorem` assume
`EditWhileBurning = FALSE` (the counterexample is `clock_settings`). `CountsDown` says that the
countdown and the rest since the last hand make up the delay. `TurnTheorem` needs only types.

**`Hub_proof`.** `OneCopy` says nothing of an eviction to come: that the hub's copy is still the
one a request found rests on time, so `SeenSince` bounds the copy's idle time by the age of every
request that looks for it or acts on it, *while another may still be about to touch it*.
`RowsAreRead` says that the hub's clean copy is what was saved, hand number and stacks, whatever
records were dropped on the way. `CutsAreTold` says that the note a load leaves stays true: a
table that says "cut short" is between hands, and of its last hand the rows lack the end or the
record. With them `OneCopyTheorem`, `NothingTakenBackTheorem` and `CutHandTheorem` follow, and
`TypeTheorem`.

**`Public_proof`** has two parts, which share nothing but the prover's library.

*Paid access* (`Billing`). `TrustTheorem`: whoever wrote the row heard Stripe on the same day
(`AnswersAreOfToday`: requests take no time by the measure of days), so an active row was
written while a subscription was alive, or the day the last one ended (`RowIsBacked`). For the status
honoured without an answer, `EndsAreBought` follows the period's end from Stripe to the row: it
is one that somebody paid for, so the grace never runs on an end that was not bought.
`PayingTheorem` follows what a thread knows: while it is not marked as outdated, what it read of
the row is what the row says (`Fresh`), and what Stripe told it of a subscription holds as long as
that one is alive (`AnswerHolds`). So a subscription that is alive is on the row, or the event of
its checkout is still to be handled (`AliveIsGranted`); once nothing is outstanding, only the
first is left. `NilAssumption` keeps the marks "nothing" and "unlinked" apart from subscriptions.

*Gates and meter* (`HeavyWork`). A slot is taken by a request that holds it, by one it is on its
way to, or by a callback on its way to a wait that was given up; nothing in `WorkGate` says which,
only `_busy` counts them. `GatesInv` counts them (`Accounted`), says that whoever stands in a queue
waits there or has given up there, and stands once (`QueueSound`), and that a queue only forms at a
full gate (`Within`). `GateReleased` is the handing over of a slot, once for every way a request ends;
the queue operations behind it are lemmas on sequences (`RestLemma`, `WithoutLemma`).
`SoundTheorem` follows. For `AloneTheorem` the references of a key count the requests under way
(`Counted`), and these all took the gate that is there now (`OneKey`), which has one slot.
`MeterTheorem` rests on it: at most one request of a user is between its record and its answer
or refund, and the phase of that one (`InPhase`) says what the books owe. What is charged beyond
the hands answered and the one under way is at most one hand for each midnight, and strictly less
while a refund would find nothing to take back, the day having changed under it (`Balanced`). A day
never counts more than one over its allowance, and none at all more while the request is being
answered (`Limited`), which bounds the sum over the days.

**`Betting_proof`**, the betting. Both what a round asks and what a pot pays rest on `IInv`, three
facts about the chips. `RoundOK`: nobody has put in more than the bet, and a raise is as large as
the floor says. `Leveled`: whoever had chips when the street began had put in the same by then,
and nobody more. `Met`: somebody who is still in has put in the whole bet. The third is what keeps
a folded seat from holding the top of the pot, and before the flop it is false: the bet is a whole
big blind even if its seat could not pay one, and then nobody may have put it in. `BlindShort`
describes that time: the big blind is all in and nobody with chips has acted. It is not inductive
on its own either, since everybody may fold to the small blind, who may have put in more than the
big blind could; that this fold needs somebody else all in for more follows from the order in
which players are asked (`InTurn`: from the big blind on, so the small blind is last).
`AdvanceKeeps` is the step to the next player, the next street or the end, once for all moves; the
moves themselves are a fold (`FoldKeeps`) and chips put in that are at least the call, all there
is, or in between only as a legal raise (`PutInKeeps`). From it: `TypeTheorem`, `TopTheorem`,
`AnswersTheorem` (a round that closes has nobody left in `ToAct`, and `Met` says what they
answered), `RaisesTheorem`, `RunDownTheorem`, and `OfferedTheorem`, which was false as the
property first stood (`betting_gate`, section 5). `GamesAssumption` asks for some kind of game.
`RunDownTheorem` proves the first half of `BettingEnds`, `HandsRunDown`: `MovesLeft` counts the
streets and the chips left, then the players still in and those who have yet to act, and every
move lowers it (`LeftFalls`): chips put in are chips fewer behind, a fold is a player fewer, and a
check is by somebody who had not acted, since a player is asked again only to meet a bet. No
street opens without somebody to open it (`OpenerIs`). That the moves are made at all (`HandEnds`)
is the fairness, and stays with TLC.

*The pots.* For any number of seats, any amounts and any order of the hands. The layers up to an
amount add up to it (`LayersReach`, by induction over the set of levels, since a layer starts where the
one below ends), so all layers together hold the pot (`LayersHoldPot`): each such fact sums a table of
amounts by its rows and by its columns (`TotalSwap`). An even share with its odd chips going clockwise
hands out the amount (`ShareIs`, from the same `RankCount` as the cents of `Money_proof`), hence so do
the boards (`PaidIs`), a layer (`LayerPaid`) and all of them (`WonIsPot`). That a winner takes at most
what they cover (`WinnersMatch`) and that no layer is without somebody to win it (`LayersContested`)
need `TopTheorem`: `PotsTheorem` follows from the pots' arithmetic and from the betting together, and so
does the equality of the awards with the engine's pay (`AwardsMatch`). The recorded flows
are divided by numbers of seats, so that they add up needs every such number to divide `Parts`
(`PartsDivide`, which shows first that the recursive `Factorial` has values at all); each pair is off by
half a chip at most, itself not at all (`FlowsMatch`). `PayoutTheorem` puts the two together.

**Only model-checked.** Liveness, which rests on fairness. Every safety property of the passing
runs is proved, under the assumptions named with each theorem. Neither checked nor proved is the worth
of a table at a stake where a cent is no whole number of chips (a big blind of 30 cents, say): there a
buy-in is itself rounded, and what adds up over many has no bound that does not grow with their number.

## 5. Where code and documents disagree

Runs:

* `table_detached` (code): after a queued top-up fails to be written, the players landed
  after it in the same loop get their money in the ledger and the rows but not on the table,
  keep their queued top-up, and their next save undoes the total.
* `billing_overwrite` (code): an event of the old subscription reads the row, asks Stripe, and
  by the time it writes "none", the new subscription, alive and paid, is on the row. The comment
  at the write says that this never happens.

Configurations kept beside them:

* `table_mixed` (documented otherwise, homegame.py:48): a hand whose save failed, then one
  player's row saved by a request, then a restart before the retry. The table comes back with one
  stack from after the hand and one from before it: chips appear or vanish.
* `shuffle_restart` (documented otherwise, fairdeal.py:48): who withheld a number, and that they
  are barred, is in memory only. A reload before the deal leaves a transcript that names nobody.
* `grading_twice` (code, homegame.py:4154): a sweep may queue and settle a hand whose own thread
  has not queued it yet. Queued again it has no saved job, so the first replay that fails counts
  as the last and "could not be graded" is stored over its marks.
* `clock_settings` (code, homegame.py:5464): the host changing the shot clock while the actor's
  bank burns starts the decision's clock over and leaves the bank running, so the actor
  pays bank seconds during a shot clock they have. The module's text says the bank is burned once
  the base clock runs out, and only for the seconds used.
* `betting_gate` (code, actions.py:49): at a home table, after somebody has gone all in for less than
  a big blind in a pot that is smaller still (the ante need only be positive, homegame.py:5731), the
  gate offers a raise whose least size is more than its greatest, and the engine takes none. So it does
  in Study, with covering bets and antes under a big blind. `OfferedRaiseTaken` states the
  exception, and its proof shows that games that hide bets under a big blind have no other.
* `billing_comp` (documented otherwise, public.py:1283): a comp is taken away by late events of an
  ended subscription.
* `hub_explain` (documented otherwise, homegame.py:1353): a hand cut short by an eviction is
  explained once; evicted and loaded again, the table says that the server restarted.
* `hub_record` (documented otherwise, homegame.py:1353): a hand is finished and saved, but its record
  fails in its savepoint and is dropped (homegame.py:1521). Evicted and loaded again, the table
  tells its players that the hand "was cut short (the server restarted) and doesn't count", while they
  have the chips of after it.

And one too small for a run: `money_flows` says it decomposes results "exactly" into flows, but
each pair is rounded; `FlowsNearlyAddUp` states the bound that holds.

## 6. What is not modelled

In the modelled parts: approvals (they end in modelled handlers); each player's own automatic
chips (the table's are modelled); settings other than those that are constants here or actions of
`TurnClock`; wording and history of events; cryptography; what the network says about a hand; a
second grader thread (`_start_grader` takes no lock), which would only grade beside the first,
since the key of a hand in work is held. An engine that pays out more than was bet is excluded by
`Payouts`; `PotPaidInFull` is the reason. In `HeavyWork` a hand dealt by a handler that then fails
is not one answered (it is refunded, and may be seen); cancellations outside the waits for a gate
are left out. `Billing` has one user, no sign-in and no e-mail links, no administrators (always
let in), and no subscription without a period's end (for which `_within_stripe_grace` counts the
grace from the day the status went stale). `Betting` has no cards but their order at the end, and
sees one hand.

The other components and the reasons are in the inventory: they read what the modelled parts
keep, evaluate cards or images, or compute in floating point. The evaluator, the encodings, the
solver and the training are most of the repository's lines, and nothing in them is a protocol:
their state is arrays of numbers whose correctness is numerical, which a model checker over small
instances cannot say anything about.

## 7. Plan

Done: the modules above and their theorems. What would come next, in this order:

1. Approvals and per-player automatic chips, as further actions of `HomeTable`.
2. Composition of the deal with the shuffle (`HomeTable` with `FairShuffle`), so that who is
   dealt in (`mask`) is the table's own.
3. Candidates: model swap, the resumable solver batch, deployment checks.
