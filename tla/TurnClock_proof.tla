-------------------------- MODULE TurnClock_proof --------------------------
(* Proofs about the table's clocks, for any number of players and of hands,  *)
(* and any settings a host may choose from.  Where a theorem says so, the    *)
(* host does not change the shot clock while a time bank runs.               *)
EXTENDS TurnClock, TLAPS

\* The turn's clock tells how long this decision has been waited for, and the
\* bank how much of that was beyond the shot clock
Clocks ==
  /\ turn = IF phase = "in_hand" /\ rules.decision > 0 THEN waited ELSE Off
  /\ burning # Off => /\ phase = "in_hand" /\ rules.decision > 0
                      /\ burning = waited - rules.decision

\* The countdown and the rest there has been make up the delay
CountsDown ==
  /\ countdown >= Off
  /\ countdown # Off => phase = "idle" /\ rested + countdown >= rules.delay

IInv == TypeOK /\ CountsDown
FairInv == IInv /\ Clocks

-----------------------------------------------------------------------------
(* Numbers *)

LEMMA RulesType ==
  ASSUME rules \in Rules
  PROVE  /\ rules.decision \in Nat /\ rules.bank \in Nat /\ rules.delay \in Nat
         /\ rules.decision <= MaxAge /\ rules.delay <= MaxAge
         /\ rules.decision + rules.bank <= MaxAge
<1>1. rules.decision \in DecisionChoices /\ rules.bank \in BankChoices /\ rules.delay \in DelayChoices
  BY DEF Rules
<1>2. rules.decision \in Nat /\ rules.bank \in Nat /\ rules.delay \in Nat
  BY <1>1, ChoicesAssumption
<1>3. rules.decision + rules.bank <= MaxAge /\ rules.delay <= MaxAge
  BY <1>1, MaxAgeAssumption
<1> QED
  BY <1>2, <1>3, MaxAgeAssumption

LEMMA LaterType ==
  ASSUME NEW a \in Off .. MaxAge
  PROVE  /\ Later(a) \in Off .. MaxAge
         /\ a # Off => Later(a) >= a /\ Later(a) # Off
         /\ a = Off => Later(a) = Off
BY MaxAgeAssumption DEF Later, Off

-----------------------------------------------------------------------------
(* Decisions and deals *)

\* Whoever decides pays for at most the bank's running time
LEMMA SettleIs ==
  ASSUME TypeOK, SettleBank
  PROVE  /\ burning' = Off /\ bank' \in [Players -> Nat]
         /\ \A p \in Players : bank'[p] <= bank[p] /\ (p # actor => bank'[p] = bank[p])
         /\ burning = Off => bank' = bank
         /\ burning # Off => bank[actor] - bank'[actor] <= burning
<1>1. CASE burning = Off
  BY <1>1 DEF TypeOK, SettleBank
<1>2. CASE burning # Off
  <2>1. burning \in Nat
    BY <1>2, MaxAgeAssumption DEF TypeOK, Off
  <2>2. bank' = [bank EXCEPT ![actor] = Over(bank[actor], burning)]
    BY <1>2 DEF SettleBank
  <2>3. /\ Over(bank[actor], burning) \in Nat /\ Over(bank[actor], burning) <= bank[actor]
        /\ bank[actor] - Over(bank[actor], burning) <= burning
    BY <2>1 DEF TypeOK, Over
  <2> QED
    BY <1>2, <2>1, <2>2, <2>3 DEF TypeOK, SettleBank
<1> QED
  BY <1>1, <1>2

\* A decision is followed by the next one, its clock at the start, or the hand
\* is over and there is none
LEMMA DecidedIs ==
  ASSUME TypeOK, NEW gone, Decided(gone)
  PROVE  /\ phase = "in_hand" /\ phase' \in {"idle", "in_hand", "runout"}
         /\ seq' \in Nat /\ actor' \in Players /\ live' \subseteq Players
         /\ leaving' \in {leaving, {}} /\ hand' = hand /\ waited' = 0
         /\ rested' \in {rested, 0} /\ countdown' \in {countdown, Off}
         /\ turn' = IF phase' = "in_hand" /\ rules.decision > 0 THEN 0 ELSE Off
         /\ stuck' = FALSE /\ SettleBank /\ UNCHANGED <<here, rules, running, pending>>
         /\ seq' # seq \/ phase' # "in_hand"
         /\ phase' # "in_hand" => countdown' = Off /\ rested' = 0
         /\ phase' = "in_hand" => countdown' = countdown
<1>1. /\ phase = "in_hand" /\ SettleBank /\ stuck' = FALSE
      /\ UNCHANGED <<here, rules, running, pending>> /\ (NextDecision(gone) \/ HandOver)
  BY DEF Decided
<1>2. CASE NextDecision(gone)
  <2> PICK left \in SUBSET live, n \in 1 .. Cardinality(live) :
        /\ phase' = "in_hand" /\ live' = left /\ seq' = seq + n /\ actor' \in left \ gone
        /\ StartClock /\ waited' = 0 /\ UNCHANGED <<hand, leaving, countdown, rested>>
    BY <1>2 DEF NextDecision
  <2>1. n \in Nat /\ n > 0
    OBVIOUS
  <2> QED
    BY <1>1, <2>1 DEF StartClock, TypeOK
<1>3. CASE HandOver
  BY <1>1, <1>3, PlayersAssumption DEF HandOver, NoDecision, TypeOK
<1> QED
  BY <1>1, <1>2, <1>3

\* A deal starts the first decision's clock, or there is none
LEMMA DealtIs ==
  ASSUME TypeOK, Dealt
  PROVE  /\ phase' \in {"idle", "in_hand", "runout"}
         /\ hand' = hand + 1 /\ hand' \in 0 .. MaxHands
         /\ seq' \in Nat /\ actor' \in Players /\ live' \subseteq Players
         /\ turn' = IF phase' = "in_hand" /\ rules.decision > 0 THEN 0 ELSE Off
         /\ burning' = Off /\ waited' = 0 /\ rested' = 0 /\ pending' = FALSE
         /\ bank' \in [Players -> Nat]
         /\ \A p \in Players : bank[p] <= bank'[p] /\ bank'[p] <= rules.bank
<1>1. \A p \in Players : Refilled(p) \in Nat /\ bank[p] <= Refilled(p) /\ Refilled(p) <= rules.bank
  BY RulesType, ClockAssumption DEF TypeOK, Refilled, Least
<1>2. bank' = [p \in Players |-> IF p \in Eligible THEN Refilled(p) ELSE bank[p]]
  BY DEF Dealt
<1>3. bank' \in [Players -> Nat] /\ \A p \in Players : bank[p] <= bank'[p] /\ bank'[p] <= rules.bank
  BY <1>1, <1>2 DEF TypeOK
<1>4. /\ hand' = hand + 1 /\ hand < MaxHands
      /\ burning' = Off /\ pending' = FALSE /\ waited' = 0 /\ rested' = 0
  BY DEF Dealt, CanDeal
<1>5. hand' \in 0 .. MaxHands
  BY <1>4, ClockAssumption DEF TypeOK
<1>6. CASE phase' = "in_hand" /\ seq' = 0 /\ live' = Eligible /\ actor' \in Eligible /\ StartClock
  BY <1>3, <1>4, <1>5, <1>6 DEF Eligible, StartClock
<1>7. CASE phase' \in {"idle", "runout"} /\ NoDecision
  BY <1>3, <1>4, <1>5, <1>7, PlayersAssumption DEF NoDecision
<1> QED
  BY <1>6, <1>7 DEF Dealt

\* A deal happens, or waits, or does not: what is common to the three
DealOrNot ==
  \/ Dealt
  \/ UNCHANGED <<handVars, turn, burning, bank, timeVars>> /\ pending' \in BOOLEAN

LEMMA DealOrNotIs ==
  ASSUME TypeOK, DealOrNot
  PROVE  /\ phase' \in {"idle", "in_hand", "runout"} /\ hand' \in 0 .. MaxHands
         /\ seq' \in Nat /\ actor' \in Players /\ live' \subseteq Players
         /\ turn' \in Off .. MaxAge /\ burning' \in Off .. MaxAge
         /\ bank' \in [Players -> Nat]
         /\ \A p \in Players : bank[p] <= bank'[p] /\ bank'[p] <= rules.bank
         /\ pending' \in BOOLEAN /\ waited' \in 0 .. MaxAge /\ rested' \in 0 .. MaxAge
<1>1. CASE Dealt
  BY <1>1, DealtIs, MaxAgeAssumption DEF Off
<1>2. CASE UNCHANGED <<handVars, turn, burning, bank, timeVars>> /\ pending' \in BOOLEAN
  BY <1>2 DEF TypeOK, handVars, timeVars
<1> QED
  BY <1>1, <1>2 DEF DealOrNot

-----------------------------------------------------------------------------
(* Types *)

\* TypeOK in two: the Boolean variables, and the others
Flags ==
  running \in BOOLEAN /\ stuck \in BOOLEAN /\ pending \in BOOLEAN /\ raised \in BOOLEAN
Types ==
  /\ phase \in {"idle", "in_hand", "runout"}
  /\ hand \in 0 .. MaxHands /\ seq \in Nat /\ actor \in Players
  /\ live \subseteq Players /\ away \subseteq Players /\ leaving \subseteq Players
  /\ here \subseteq Players
  /\ rules \in Rules
  /\ turn \in Off .. MaxAge /\ burning \in Off .. MaxAge
  /\ bank \in [Players -> Nat] /\ \A p \in Players : bank[p] <= rules.bank
  /\ timeouts \in [Players -> 0 .. Strikes - 1]
  /\ countdown \in Int
  /\ failing \in Off .. MaxAge /\ backoff \in 0 .. Backoff
  /\ at \in {"free", "deal", "account"}
  /\ waited \in 0 .. MaxAge /\ rested \in 0 .. MaxAge
  /\ edits \in 0 .. MaxUpsets /\ faults \in 0 .. MaxUpsets

LEMMA TypeParts == TypeOK <=> Flags /\ Types
BY Zenon DEF TypeOK, Flags, Types

LEMMA InitType == Init => TypeOK
<1> SUFFICES ASSUME Init PROVE TypeOK
  OBVIOUS
<1>1. Flags
  BY Zenon DEF Init, Flags
<1>2. rules \in Rules /\ rules.bank \in Nat
  BY RulesType, ChoicesAssumption DEF Init
<1>3. Types
  BY <1>2, PlayersAssumption, ClockAssumption, MaxAgeAssumption DEF Init, Types, Off
<1> QED
  BY <1>1, <1>3, TypeParts

\* A decision keeps the types of everything it is about but the seats
LEMMA DecidedType ==
  ASSUME TypeOK, NEW gone, Decided(gone)
  PROVE  /\ phase' \in {"idle", "in_hand", "runout"} /\ hand' \in 0 .. MaxHands
         /\ seq' \in Nat /\ actor' \in Players /\ live' \subseteq Players
         /\ leaving' \subseteq Players /\ here' \subseteq Players /\ rules' \in Rules
         /\ turn' \in Off .. MaxAge /\ burning' \in Off .. MaxAge
         /\ bank' \in [Players -> Nat] /\ \A p \in Players : bank'[p] <= rules'.bank
         /\ countdown' \in Int
         /\ waited' \in 0 .. MaxAge /\ rested' \in 0 .. MaxAge
<1>1. rules.bank \in Nat /\ \A p \in Players : bank[p] \in Nat
  BY RulesType DEF TypeOK
<1>2. SettleBank /\ rules' = rules /\ here' = here
  BY DecidedIs
<1>3. burning' = Off /\ bank' \in [Players -> Nat] /\ \A p \in Players : bank'[p] <= rules'.bank
  BY <1>1, <1>2, SettleIs DEF TypeOK
<1>4. Types
  BY TypeParts
<1>5. turn' \in {0, Off} /\ waited' = 0 /\ rested' \in {rested, 0} /\ countdown' \in {countdown, Off}
  BY DecidedIs
<1>6. /\ turn' \in Off .. MaxAge /\ burning' \in Off .. MaxAge
      /\ waited' \in 0 .. MaxAge /\ rested' \in 0 .. MaxAge /\ countdown' \in Int
  BY <1>3, <1>4, <1>5, MaxAgeAssumption DEF Types, Off
<1>7. leaving' \subseteq Players /\ here' \subseteq Players /\ rules' \in Rules /\ hand' \in 0 .. MaxHands
  BY <1>2, <1>4, DecidedIs DEF Types
<1> QED
  BY <1>3, <1>6, <1>7, DecidedIs

LEMMA VacateType ==
  ASSUME TypeOK, NEW out \in SUBSET Players
  PROVE  Vacate(out) \subseteq Players
BY DEF TypeOK, Vacate

\* The steps of a tick and of the players' requests
LEMMA TypesStep == TypeOK /\ [Next]_vars => Types'
<1> SUFFICES ASSUME TypeOK, [Next]_vars PROVE Types'
  OBVIOUS
<1> USE PlayersAssumption, ClockAssumption DEF Types, handVars, seatVars, bankVars, dealVars, watchVars, timeVars, bounds
<1>0. Types /\ rules.bank \in Nat /\ rules.decision \in Nat /\ rules.delay \in Nat
  BY RulesType, TypeParts DEF Types
<1>1. ASSUME NEW p \in Players, Act(p) PROVE Types'
  <2>1. Decided(Absent) /\ timeouts' = [timeouts EXCEPT ![p] = 0] /\ UNCHANGED <<watchVars, bounds>>
    BY <1>0, <1>1 DEF Act
  <2>2. away' \subseteq Players
    BY <1>0, <1>1, VacateType DEF Act
  <2> QED
    BY <1>0, <2>1, <2>2, DecidedType
<1>2. CASE HostFold
  <2>1. Decided(Absent) /\ UNCHANGED <<timeouts, watchVars, bounds>>
    BY <1>0, <1>2 DEF HostFold
  <2>2. away' \subseteq Players
    BY <1>0, <1>2, VacateType DEF HostFold
  <2> QED
    BY <1>0, <2>1, <2>2, DecidedType
<1>3. ASSUME NEW p \in Players, SitOut(p) PROVE Types'
  <2>1. CASE phase = "in_hand" /\ actor = p
    <3>1. Decided(Absent \cup {p}) /\ UNCHANGED <<timeouts, watchVars, bounds>>
      BY <1>0, <1>3, <2>1 DEF SitOut
    <3>2. away' \subseteq Players
      BY <1>0, <1>3, <2>1, VacateType DEF SitOut
    <3> QED
      BY <1>0, <3>1, <3>2, DecidedType
  <2>2. CASE ~(phase = "in_hand" /\ actor = p)
    BY <1>0, <1>3, <2>2 DEF SitOut
  <2> QED
    BY <1>0, <2>1, <2>2
<1>4. ASSUME NEW p \in Players, Back(p) PROVE Types'
  BY <1>0, <1>4 DEF Back
<1>5. ASSUME NEW p \in Players, Polls(p) \/ Gone(p) PROVE Types'
  BY <1>0, <1>5 DEF Polls, Gone
<1>6. ASSUME NEW p \in Players, PlayerDeal(p) PROVE Types'
  <2>1. DealOrNot
    BY <1>0, <1>6 DEF PlayerDeal, DealOrWait, DealOrNot, TypeOK
  <2>2. countdown' \in Int
    BY <1>0, <1>6 DEF PlayerDeal, Off
  <2> QED
    BY <1>0, <1>6, <2>1, <2>2, DealOrNotIs DEF PlayerDeal
<1>7. ASSUME NEW p \in Players, NEW on \in BOOLEAN, LeaveAfter(p, on) PROVE Types'
  BY <1>0, <1>7 DEF LeaveAfter
<1>8. CASE Start
  <2>1. DealOrNot
    BY <1>0, <1>8 DEF Start, DealOrWait, DealOrNot, TypeOK
  <2>2. edits' \in 0 .. MaxUpsets /\ faults' \in 0 .. MaxUpsets
    BY <1>0, <1>8 DEF Start, Fault
  <2>3. failing' = Off /\ backoff' = 0 /\ countdown' = Off /\ UNCHANGED <<seatVars, rules, timeouts, at>>
    BY <1>8 DEF Start
  <2> QED
    BY <1>0, <2>1, <2>2, <2>3, DealOrNotIs, MaxAgeAssumption DEF Off
<1>9. CASE Pause
  BY <1>0, <1>9 DEF Pause, Off
<1>10. ASSUME NEW d \in DecisionChoices, SetDecision(d) PROVE Types'
  <2>1. rules' \in Rules /\ rules'.bank = rules.bank
    BY <1>0, <1>10 DEF SetDecision, Rules
  <2> QED
    BY <1>0, <1>10, <2>1, MaxAgeAssumption DEF SetDecision, Edit, Off
<1>11. ASSUME NEW b \in BankChoices, SetBank(b) PROVE Types'
  <2>1. rules' \in Rules /\ rules'.bank = b /\ b \in Nat
    BY <1>0, <1>11, ChoicesAssumption DEF SetBank, Rules
  <2> QED
    BY <1>0, <1>11, <2>1 DEF SetBank, Edit
<1>12. ASSUME NEW d \in DelayChoices, SetDelay(d) PROVE Types'
  <2>1. rules' \in Rules /\ rules'.bank = rules.bank
    BY <1>0, <1>12 DEF SetDelay, Rules
  <2> QED
    BY <1>0, <1>12, <2>1 DEF SetDelay, Edit, Off
<1>13. CASE ShuffleOver
  <2>1. DealOrNot
    BY <1>0, <1>13 DEF ShuffleOver, DealOrNot
  <2> QED
    BY <1>0, <1>13, <2>1, DealOrNotIs DEF ShuffleOver, Off
<1>14. CASE RunoutOver
  BY <1>0, <1>14, MaxAgeAssumption DEF RunoutOver
<1>15. CASE ClockTick
  <2>1. CASE StepFails
    BY <1>0, <1>15, <2>1 DEF ClockTick, StepFails, Fault
  <2>2. CASE StartBurning /\ UNCHANGED <<raised, bounds>>
    <3>1. Burnt \in Off .. MaxAge
      BY <1>0, <2>2, MaxAgeAssumption DEF StartBurning, Burnt, Off
    <3> QED
      BY <1>0, <1>15, <2>2, <3>1 DEF ClockTick, StartBurning
  <2>3. CASE TimeOut /\ UNCHANGED <<raised, bounds>>
    <3> PICK gone : Decided(gone)
      BY <1>0, <2>3 DEF TimeOut
    <3>1. away' \subseteq Players
      BY <1>0, <2>3, VacateType DEF TimeOut
    <3>2. timeouts' \in [Players -> 0 .. Strikes - 1]
      BY <1>0, <2>3 DEF TimeOut
    <3> QED
      BY <1>0, <1>15, <2>3, <3>1, <3>2, DecidedType DEF ClockTick
  <2>4. CASE PassAbsent /\ UNCHANGED <<raised, bounds>>
    <3>1. Decided(Absent)
      BY <1>0, <2>4 DEF PassAbsent
    <3>2. away' \subseteq Players
      BY <1>0, <2>4, VacateType DEF PassAbsent
    <3> QED
      BY <1>0, <1>15, <2>4, <3>1, <3>2, DecidedType DEF ClockTick, PassAbsent
  <2>5. CASE UNCHANGED <<handVars, seatVars, rules, turn, burning, bankVars, running, dealVars,
                         timeVars, raised, bounds>>
    BY <1>0, <1>15, <2>5 DEF ClockTick
  <2> QED
    BY <1>0, <1>15, <2>1, <2>2, <2>3, <2>4, <2>5 DEF ClockTick
<1>16. CASE DealTick
  <2>1. CASE StepFails
    BY <1>0, <1>16, <2>1 DEF DealTick, StepFails, Fault
  <2>2. CASE /\ countdown' = Countdown /\ UNCHANGED <<raised, bounds>>
             /\ UNCHANGED <<handVars, seatVars, rules, turn, burning, bankVars, running,
                            stuck, pending, timeVars>>
    <3>1. Countdown \in Int
      BY <1>0 DEF Countdown, Off
    <3> QED
      BY <1>0, <1>16, <2>2, <3>1 DEF DealTick
  <2>3. CASE AutoDeal /\ UNCHANGED <<raised, bounds>>
    <3>1. DealOrNot
      BY <1>0, <2>3 DEF AutoDeal, DealOrWait, DealOrNot, TypeOK
    <3> QED
      BY <1>0, <1>16, <2>3, <3>1, DealOrNotIs DEF DealTick, AutoDeal, Off
  <2> QED
    BY <1>0, <1>16, <2>1, <2>2, <2>3 DEF DealTick
<1>17. CASE Account
  BY <1>0, <1>17, MaxAgeAssumption DEF Account, Off
<1>18. CASE Second
  <2>1. turn' \in Off .. MaxAge /\ failing' \in Off .. MaxAge /\ burning' \in Off .. MaxAge
    BY <1>0, <1>18, LaterType DEF Second
  <2>2. waited' \in 0 .. MaxAge /\ rested' \in 0 .. MaxAge
    BY <1>0, <1>18, MaxAgeAssumption DEF Second, Later, Off
  <2>3. countdown' \in Int /\ backoff' \in 0 .. Backoff
    BY <1>0, <1>18 DEF Second, Sooner
  <2> QED
    BY <1>0, <1>18, <2>1, <2>2, <2>3 DEF Second
<1>19. CASE UNCHANGED vars
  BY <1>0, <1>19 DEF vars
<1> QED
  BY <1>0, <1>1, <1>2, <1>3, <1>4, <1>5, <1>6, <1>7, <1>8, <1>9, <1>10, <1>11, <1>12, <1>13, <1>14,
     <1>15, <1>16, <1>17, <1>18, <1>19 DEF Next, Request, TickStep

\* The Boolean variables stay Boolean
LEMMA FlagsStep == TypeOK /\ [Next]_vars => Flags'
<1> SUFFICES ASSUME Flags, [Next]_vars PROVE Flags'
  BY TypeParts
<1> USE Zenon DEF Flags, bounds, watchVars, dealVars
<1>1. ASSUME NEW gone, Decided(gone), UNCHANGED raised PROVE Flags'
  BY <1>1 DEF Decided
<1>2. Dealt \/ UNCHANGED pending \/ pending' \in BOOLEAN => pending' \in BOOLEAN
  BY DEF Dealt
<1>3. DealOrWait => pending' \in BOOLEAN
  BY DEF DealOrWait, Dealt
<1>4. Request => Flags'
  <2>1. ASSUME NEW p \in Players, Act(p) \/ SitOut(p) PROVE Flags'
    BY <1>1, <2>1 DEF Act, SitOut
  <2>2. ASSUME NEW p \in Players, Back(p) \/ Polls(p) \/ Gone(p) PROVE Flags'
    BY <2>2 DEF Back, Polls, Gone
  <2>3. ASSUME NEW p \in Players, PlayerDeal(p) PROVE Flags'
    BY <1>3, <2>3 DEF PlayerDeal
  <2>4. ASSUME NEW p \in Players, NEW on \in BOOLEAN, LeaveAfter(p, on) PROVE Flags'
    BY <2>4 DEF LeaveAfter
  <2>5. HostFold \/ Pause => Flags'
    BY <1>1 DEF HostFold, Pause
  <2>6. Start => Flags'
    BY <1>3 DEF Start
  <2>7. ASSUME NEW n, SetDecision(n) \/ SetBank(n) \/ SetDelay(n) PROVE Flags'
    BY <2>7 DEF SetDecision, SetBank, SetDelay
  <2> QED
    BY <2>1, <2>2, <2>3, <2>4, <2>5, <2>6, <2>7 DEF Request
<1>5. ShuffleOver \/ RunoutOver \/ Second \/ UNCHANGED vars => Flags'
  BY <1>2 DEF ShuffleOver, RunoutOver, Second, vars
<1>6. ClockTick => Flags'
  <2>1. StepFails => Flags'
    BY DEF StepFails
  <2>2. (TimeOut \/ PassAbsent) /\ UNCHANGED <<raised, bounds>> => Flags'
    BY <1>1 DEF TimeOut, PassAbsent
  <2>3. StartBurning /\ UNCHANGED <<raised, bounds>> => Flags'
    BY DEF StartBurning
  <2> QED
    BY <2>1, <2>2, <2>3 DEF ClockTick
<1>7. DealTick => Flags'
  <2>1. StepFails => Flags'
    BY DEF StepFails
  <2>2. AutoDeal /\ UNCHANGED <<raised, bounds>> => Flags'
    BY <1>3 DEF AutoDeal
  <2> QED
    BY <2>1, <2>2 DEF DealTick
<1>8. Account => Flags'
  BY DEF Account
<1> QED
  BY <1>4, <1>5, <1>6, <1>7, <1>8 DEF Next, TickStep

LEMMA TypeStep == TypeOK /\ [Next]_vars => TypeOK'
<1>1. Flags' /\ Types' => TypeOK'
  BY Zenon DEF TypeOK, Flags, Types
<1> QED
  BY <1>1, FlagsStep, TypesStep

-----------------------------------------------------------------------------
(* The countdown *)

\* A decision leaves no countdown behind that it did not find, and a hand that
\* is over none
LEMMA DecidedCounts ==
  ASSUME TypeOK, CountsDown, NEW gone, Decided(gone)
  PROVE  CountsDown'
BY DecidedIs DEF CountsDown, Off

\* Nor does a deal, which ends it
LEMMA DealCounts ==
  ASSUME TypeOK, CountsDown, DealOrNot, rules' = rules,
         countdown' \in {countdown, Off}, Dealt => countdown' = Off
  PROVE  CountsDown'
<1>1. CASE Dealt
  BY <1>1 DEF CountsDown, Off
<1>2. CASE UNCHANGED <<handVars, turn, burning, bank, timeVars>>
  BY <1>2 DEF CountsDown, Off, handVars, timeVars
<1> QED
  BY <1>1, <1>2 DEF DealOrNot

LEMMA CountsDownStep == TypeOK /\ CountsDown /\ [Next]_vars => CountsDown'
<1> SUFFICES ASSUME TypeOK, CountsDown, [Next]_vars PROVE CountsDown'
  OBVIOUS
<1> USE DEF handVars, seatVars, bankVars, dealVars, watchVars, timeVars, bounds
<1>0. /\ rules.delay \in Nat /\ rules.delay <= MaxAge /\ rested \in 0 .. MaxAge /\ countdown \in Int
      /\ hand \in Int /\ MaxAge \in Nat
  BY RulesType, MaxAgeAssumption DEF TypeOK
<1>1. ASSUME NEW p \in Players, Act(p) PROVE CountsDown'
  BY <1>1, DecidedCounts DEF Act
<1>2. CASE HostFold
  BY <1>2, DecidedCounts DEF HostFold
<1>3. ASSUME NEW p \in Players, SitOut(p) PROVE CountsDown'
  <2>1. CASE Decided(Absent \cup {p})
    BY <2>1, DecidedCounts
  <2>2. CASE UNCHANGED <<handVars, rules, countdown, timeVars>>
    BY <2>2 DEF CountsDown
  <2> QED
    BY <1>3, <2>1, <2>2 DEF SitOut
<1>4. ASSUME NEW p \in Players, Back(p) \/ Polls(p) \/ Gone(p) PROVE CountsDown'
  BY <1>4 DEF Back, Polls, Gone, CountsDown
<1>5. ASSUME NEW p \in Players, PlayerDeal(p) PROVE CountsDown'
  <2>1. DealOrNot /\ rules' = rules /\ countdown' \in {countdown, Off}
    BY <1>5 DEF PlayerDeal, DealOrWait, DealOrNot
  <2>2. Dealt => countdown' = Off
    BY <1>0, <1>5 DEF PlayerDeal, Dealt
  <2> QED
    BY <2>1, <2>2, DealCounts
<1>6. ASSUME NEW p \in Players, NEW on \in BOOLEAN, LeaveAfter(p, on) PROVE CountsDown'
  BY <1>6 DEF LeaveAfter, CountsDown
<1>7. CASE Start \/ Pause
  BY <1>7 DEF Start, Pause, CountsDown, Off
<1>8. ASSUME NEW d \in DecisionChoices, SetDecision(d) PROVE CountsDown'
  <2>1. rules'.delay = rules.delay
    BY <1>8 DEF SetDecision, TypeOK, Rules
  <2> QED
    BY <1>8, <2>1 DEF SetDecision, CountsDown
<1>9. ASSUME NEW b \in BankChoices, SetBank(b) PROVE CountsDown'
  <2>1. rules'.delay = rules.delay
    BY <1>9 DEF SetBank, TypeOK, Rules
  <2> QED
    BY <1>9, <2>1 DEF SetBank, CountsDown
<1>10. ASSUME NEW d \in DelayChoices, SetDelay(d) PROVE CountsDown'
  BY <1>10 DEF SetDelay, CountsDown, Off
<1>11. CASE ShuffleOver
  <2>1. DealOrNot /\ rules' = rules /\ countdown' \in {countdown, Off}
    BY <1>11 DEF ShuffleOver, DealOrNot
  <2>2. Dealt => countdown' = Off
    BY <1>0, <1>11 DEF ShuffleOver, Dealt
  <2> QED
    BY <2>1, <2>2, DealCounts
<1>12. CASE RunoutOver
  BY <1>12 DEF RunoutOver, CountsDown
<1>13. CASE ClockTick
  <2>1. CASE TimeOut \/ PassAbsent
    <3> PICK gone : Decided(gone)
      BY <2>1 DEF TimeOut, PassAbsent
    <3> QED
      BY DecidedCounts
  <2>2. CASE UNCHANGED <<handVars, rules, countdown, timeVars>>
    BY <2>2 DEF CountsDown
  <2> QED
    BY <1>13, <2>1, <2>2 DEF ClockTick, StepFails, StartBurning
<1>14. CASE DealTick
  <2>1. CASE AutoDeal
    BY <2>1 DEF AutoDeal, CountsDown, Off
  <2>2. CASE /\ countdown' = Countdown
             /\ UNCHANGED <<handVars, seatVars, rules, turn, burning, bankVars, running,
                            stuck, pending, timeVars>>
    <3>1. Countdown = Off \/ (MayCount /\ countdown = Off /\ Countdown = rules.delay)
                           \/ (countdown # Off /\ Countdown = countdown)
      BY DEF Countdown
    <3>2. MayCount => phase = "idle"
      BY Zenon DEF MayCount, DealReady
    <3> QED
      BY <1>0, <2>2, <3>1, <3>2 DEF CountsDown, Off
  <2>3. CASE UNCHANGED <<handVars, rules, countdown, timeVars>>
    BY <2>3 DEF CountsDown
  <2> QED
    BY <1>14, <2>1, <2>2, <2>3 DEF DealTick, StepFails
<1>15. CASE Account
  <2>1. countdown' \in {countdown, Off} /\ UNCHANGED <<handVars, rules, timeVars>>
    BY <1>15 DEF Account
  <2> QED
    BY <2>1 DEF CountsDown, Off
<1>16. CASE Second
  BY <1>0, <1>16 DEF Second, CountsDown, Later, Sooner, Off
<1>17. CASE UNCHANGED vars
  BY <1>17 DEF vars, CountsDown
<1> QED
  BY <1>1, <1>2, <1>3, <1>4, <1>5, <1>6, <1>7, <1>8, <1>9, <1>10, <1>11, <1>12, <1>13, <1>14,
     <1>15, <1>16, <1>17 DEF Next, Request, TickStep

-----------------------------------------------------------------------------
(* The turn's clock and the bank *)

LEMMA DecidedClocks ==
  ASSUME TypeOK, NEW gone, Decided(gone)
  PROVE  Clocks'
<1>1. /\ waited' = 0 /\ rules' = rules
      /\ turn' = IF phase' = "in_hand" /\ rules.decision > 0 THEN 0 ELSE Off
  BY DecidedIs
<1>2. burning' = Off
  BY DecidedIs, SettleIs
<1> QED
  BY <1>1, <1>2 DEF Clocks

LEMMA DealClocks ==
  ASSUME TypeOK, Clocks, DealOrNot, rules' = rules
  PROVE  Clocks'
<1>1. CASE Dealt
  BY <1>1, DealtIs DEF Clocks
<1>2. CASE UNCHANGED <<handVars, turn, burning, bank, timeVars>>
  BY <1>2 DEF Clocks, handVars, timeVars
<1> QED
  BY <1>1, <1>2 DEF DealOrNot

LEMMA ClocksStep ==
  ASSUME EditWhileBurning = FALSE, TypeOK, CountsDown, Clocks, [Next]_vars
  PROVE  Clocks'
<1> USE DEF handVars, seatVars, bankVars, dealVars, watchVars, timeVars, bounds
<1>0. /\ rules.decision \in Nat /\ rules.decision <= MaxAge /\ MaxAge \in Nat
      /\ waited \in 0 .. MaxAge /\ turn \in Off .. MaxAge /\ burning \in Off .. MaxAge
  BY RulesType, MaxAgeAssumption DEF TypeOK
<1>1. ASSUME NEW p \in Players, Act(p) PROVE Clocks'
  BY <1>1, DecidedClocks DEF Act
<1>2. CASE HostFold
  BY <1>2, DecidedClocks DEF HostFold
<1>3. ASSUME NEW p \in Players, SitOut(p) PROVE Clocks'
  <2>1. CASE Decided(Absent \cup {p})
    BY <2>1, DecidedClocks
  <2>2. CASE UNCHANGED <<handVars, rules, turn, burning, timeVars>>
    BY <2>2 DEF Clocks
  <2> QED
    BY <1>3, <2>1, <2>2 DEF SitOut
<1>4. ASSUME NEW p \in Players, Back(p) \/ Polls(p) \/ Gone(p) PROVE Clocks'
  BY <1>4 DEF Back, Polls, Gone, Clocks
<1>5. ASSUME NEW p \in Players, PlayerDeal(p) PROVE Clocks'
  <2>1. DealOrNot /\ rules' = rules
    BY <1>5 DEF PlayerDeal, DealOrWait, DealOrNot
  <2> QED
    BY <2>1, DealClocks
<1>6. ASSUME NEW p \in Players, NEW on \in BOOLEAN, LeaveAfter(p, on) PROVE Clocks'
  BY <1>6 DEF LeaveAfter, Clocks
<1>7. CASE Start
  <2>1. DealOrNot /\ rules' = rules
    BY <1>7 DEF Start, DealOrWait, DealOrNot, TypeOK
  <2> QED
    BY <2>1, DealClocks
<1>8. CASE Pause
  BY <1>8 DEF Pause, Clocks
<1>9. ASSUME NEW d \in DecisionChoices, SetDecision(d) PROVE Clocks'
  <2>1. rules'.decision = d /\ burning' = Off
    BY <1>9 DEF SetDecision, TypeOK, Rules
  <2> QED
    BY <1>9, <2>1 DEF SetDecision, Clocks
<1>10. ASSUME NEW b \in BankChoices, SetBank(b) PROVE Clocks'
  <2>1. rules'.decision = rules.decision
    BY <1>10 DEF SetBank, TypeOK, Rules
  <2> QED
    BY <1>10, <2>1 DEF SetBank, Clocks
<1>11. ASSUME NEW d \in DelayChoices, SetDelay(d) PROVE Clocks'
  <2>1. rules'.decision = rules.decision
    BY <1>11 DEF SetDelay, TypeOK, Rules
  <2> QED
    BY <1>11, <2>1 DEF SetDelay, Clocks
<1>12. CASE ShuffleOver
  <2>1. DealOrNot /\ rules' = rules
    BY <1>12 DEF ShuffleOver, DealOrNot
  <2> QED
    BY <2>1, DealClocks
<1>13. CASE RunoutOver
  BY <1>13 DEF RunoutOver, Clocks
<1>14. CASE ClockTick
  <2>1. CASE TimeOut \/ PassAbsent
    <3> PICK gone : Decided(gone)
      BY <2>1 DEF TimeOut, PassAbsent
    <3> QED
      BY DecidedClocks
  <2>2. CASE StartBurning
    <3>1. phase = "in_hand" /\ turn = waited /\ Burnt = waited - rules.decision
      BY <1>0, <2>2 DEF StartBurning, Burnt, Clocks
    <3> QED
      BY <2>2, <3>1 DEF StartBurning, Clocks
  <2>3. CASE UNCHANGED <<handVars, rules, turn, burning, timeVars>>
    BY <2>3 DEF Clocks
  <2> QED
    BY <1>14, <2>1, <2>2, <2>3 DEF ClockTick, StepFails
<1>15. CASE DealTick
  <2>1. CASE AutoDeal
    <3>1. DealOrNot /\ rules' = rules
      BY <2>1 DEF AutoDeal, DealOrWait, DealOrNot, TypeOK
    <3> QED
      BY <3>1, DealClocks
  <2>2. CASE UNCHANGED <<handVars, rules, turn, burning, timeVars>>
    BY <2>2 DEF Clocks
  <2> QED
    BY <1>15, <2>1, <2>2 DEF DealTick, StepFails
<1>16. CASE Account
  BY <1>16 DEF Account, Clocks
<1>17. CASE Second
  BY <1>0, <1>17 DEF Second, Clocks, Later, Off
<1>18. CASE UNCHANGED vars
  BY <1>18 DEF vars, Clocks
<1> QED
  BY <1>1, <1>2, <1>3, <1>4, <1>5, <1>6, <1>7, <1>8, <1>9, <1>10, <1>11, <1>12, <1>13, <1>14,
     <1>15, <1>16, <1>17, <1>18 DEF Next, Request, TickStep

-----------------------------------------------------------------------------
(* Theorems *)

LEMMA IInvInit == Init => IInv
BY InitType DEF Init, IInv, CountsDown, Off

LEMMA IInvStep == IInv /\ [Next]_vars => IInv'
BY TypeStep, CountsDownStep DEF IInv

LEMMA FairInvInit == Init => FairInv
BY IInvInit DEF Init, FairInv, Clocks, Off

LEMMA FairInvStep ==
  ASSUME EditWhileBurning = FALSE
  PROVE  FairInv /\ [Next]_vars => FairInv'
<1> SUFFICES ASSUME FairInv, [Next]_vars PROVE FairInv'
  OBVIOUS
<1> QED
  BY IInvStep, ClocksStep DEF FairInv, IInv

\* The clocks' state has its types, and nobody's bank is more than the table's.
THEOREM TypeTheorem == Spec => []TypeOK
<1>1. IInv => TypeOK
  BY DEF IInv
<1> QED
  BY <1>1, IInvInit, IInvStep, PTL DEF Spec

\* Outside a decision's end nothing touches the actor's clock but time, and the
\* host's settings.
LEMMA TurnStep ==
  ASSUME TypeOK, [Next]_vars, phase = "in_hand", ~Ends, edits' = edits
  PROVE  turn' \in {turn, Later(turn)}
<1> USE DEF handVars, seatVars, bankVars, dealVars, watchVars, timeVars, bounds
<1>1. ASSUME NEW gone, Decided(gone) PROVE FALSE
  BY <1>1, DecidedIs DEF Ends
<1>2. ASSUME NEW p \in Players, Act(p) \/ SitOut(p) PROVE turn' = turn
  BY <1>1, <1>2 DEF Act, SitOut
<1>3. ASSUME NEW p \in Players, Back(p) \/ Polls(p) \/ Gone(p) PROVE turn' = turn
  BY <1>3 DEF Back, Polls, Gone
<1>4. ASSUME NEW p \in Players, PlayerDeal(p) PROVE FALSE
  BY <1>4 DEF PlayerDeal, DealGround
<1>5. ASSUME NEW p \in Players, NEW on \in BOOLEAN, LeaveAfter(p, on) PROVE turn' = turn
  BY <1>5 DEF LeaveAfter
<1>6. CASE HostFold \/ Start \/ Pause \/ ShuffleOver \/ RunoutOver
  BY <1>1, <1>6 DEF HostFold, Start, DealGround, Pause, ShuffleOver, RunoutOver
<1>7. ASSUME NEW n, SetDecision(n) \/ SetBank(n) \/ SetDelay(n) PROVE FALSE
  BY <1>7 DEF SetDecision, SetBank, SetDelay, Edit, TypeOK
<1>8. CASE ClockTick
  BY <1>1, <1>8 DEF ClockTick, StepFails, StartBurning, TimeOut, PassAbsent
<1>9. CASE DealTick
  BY <1>9 DEF DealTick, StepFails, AutoDeal, DealReady
<1>10. CASE Account \/ Second \/ UNCHANGED vars
  BY <1>10 DEF Account, Second, vars
<1> QED
  BY <1>1, <1>2, <1>3, <1>4, <1>5, <1>6, <1>7, <1>8, <1>9, <1>10 DEF Next, Request, TickStep

\* Nothing that others do gives the actor a new clock, or stops it.
THEOREM TurnTheorem == Spec => TurnNeverProlonged
<1>1. TypeOK /\ [Next]_vars =>
        [phase = "in_hand" /\ ~Ends /\ edits' = edits => turn' \in {turn, Later(turn)}]_vars
  BY TurnStep
<1> QED
  BY <1>1, TypeTheorem, PTL DEF Spec, TurnNeverProlonged

\* Requests come between ticks, and leave the tick alone; but a poll may come
\* at any time
LEMMA RequestsAreFree ==
  ASSUME Request
  PROVE  (Free /\ at' = at) \/ \E p \in Players : Polls(p) \/ Gone(p)
<1> USE DEF watchVars
<1>1. ASSUME NEW p \in Players, Act(p) \/ SitOut(p) \/ Back(p) \/ PlayerDeal(p) PROVE Free /\ at' = at
  BY <1>1 DEF Act, SitOut, Back, PlayerDeal
<1>2. ASSUME NEW p \in Players, NEW on \in BOOLEAN, LeaveAfter(p, on) PROVE Free /\ at' = at
  BY <1>2 DEF LeaveAfter
<1>3. CASE HostFold \/ Start \/ Pause
  BY <1>3 DEF HostFold, Start, Pause
<1>4. ASSUME NEW n, SetDecision(n) \/ SetBank(n) \/ SetDelay(n) PROVE Free /\ at' = at
  BY <1>4 DEF SetDecision, SetBank, SetDelay, Edit
<1> QED
  BY <1>1, <1>2, <1>3, <1>4 DEF Request

\* No tick deals before the table has had its pause.
LEMMA DealTickWaits ==
  ASSUME IInv, [Next]_vars, at = "deal", hand' # hand \/ pending' # pending
  PROVE  rested >= rules.delay
<1> USE DEF handVars, seatVars, bankVars, dealVars, watchVars, timeVars, bounds
<1>1. ASSUME NEW p \in Players, Polls(p) \/ Gone(p) PROVE FALSE
  BY <1>1 DEF Polls, Gone
<1>2. ASSUME UNCHANGED vars PROVE FALSE
  BY <1>2 DEF vars
<1>3. DealTick
  BY <1>1, <1>2, RequestsAreFree DEF Next, TickStep, ShuffleOver, RunoutOver, ClockTick, Account, Second, Free
<1>4. countdown = 0
  BY <1>3 DEF DealTick, StepFails, AutoDeal
<1> QED
  BY <1>4, RulesType DEF IInv, TypeOK, CountsDown, Off

\* An automatic deal comes no sooner than the delay after the last hand.
THEOREM AutoDealTheorem == Spec => AutoDealWaits
<1>1. IInv /\ [Next]_vars =>
        [at = "deal" /\ (hand' # hand \/ pending' # pending) => rested >= rules.delay]_vars
  BY DealTickWaits
<1> QED
  BY <1>1, IInvInit, IInvStep, PTL DEF Spec, AutoDealWaits

\* A tick acts for a player who is there only when the shot clock and the bank
\* have both run out.
LEMMA TimeOutWaits ==
  ASSUME FairInv, [Next]_vars, at' = "deal", Ends, actor \notin Absent
  PROVE  waited >= rules.decision + bank[actor]
<1> USE DEF handVars, seatVars, bankVars, dealVars, watchVars, timeVars, bounds
<1>1. ASSUME NEW p \in Players, Polls(p) \/ Gone(p) PROVE FALSE
  BY <1>1 DEF Polls, Gone, Ends
<1>2. ASSUME UNCHANGED vars PROVE FALSE
  BY <1>2 DEF vars, Ends
<1>3. ClockTick
  BY <1>1, <1>2, RequestsAreFree
     DEF Next, TickStep, ShuffleOver, RunoutOver, DealTick, Account, Second, Free
<1>4. phase = "in_hand" /\ OutOfTime
  BY <1>3 DEF ClockTick, StepFails, StartBurning, TimeOut, PassAbsent, Ends
<1>5. /\ rules.decision \in Nat /\ bank[actor] \in Nat /\ waited \in Nat
      /\ burning \in Off .. MaxAge
  BY RulesType DEF FairInv, IInv, TypeOK
<1>6. turn = waited /\ Burnt = waited - rules.decision
  BY <1>4, <1>5 DEF FairInv, Clocks, OutOfTime, Burnt
<1> QED
  BY <1>4, <1>5, <1>6 DEF OutOfTime

\* Nobody is acted for early, as long as the host leaves the shot clock alone
\* while a time bank runs.
THEOREM NoEarlyTheorem ==
  ASSUME EditWhileBurning = FALSE
  PROVE  Spec => NoEarlyTimeout
<1>1. FairInv /\ [Next]_vars =>
        [at' = "deal" /\ Ends /\ actor \notin Absent => waited >= rules.decision + bank[actor]]_vars
  BY TimeOutWaits
<1>2. FairInv /\ [Next]_vars => FairInv'
  BY FairInvStep
<1> QED
  BY <1>1, <1>2, FairInvInit, PTL DEF Spec, NoEarlyTimeout

\* The watchdog acts for nobody, and deals to nobody, before it is time, as
\* long as the host leaves the shot clock alone while a time bank runs.
THEOREM NothingEarlyTheorem ==
  ASSUME EditWhileBurning = FALSE
  PROVE  Spec => NothingEarly
<1> QED
  BY NoEarlyTheorem, AutoDealTheorem DEF NothingEarly

\* Whose bank shrinks is the one whose decision ends.
LEMMA ChargedStep ==
  ASSUME FairInv, [Next]_vars, NEW p \in Players, bank'[p] < bank[p], rules' = rules
  PROVE  Ends /\ p = actor /\ bank[p] - bank'[p] <= waited - rules.decision
<1> USE DEF handVars, seatVars, bankVars, dealVars, watchVars, timeVars, bounds
<1>0. TypeOK /\ bank[p] \in Nat /\ bank[p] <= rules.bank /\ rules.bank \in Nat
  BY RulesType DEF FairInv, IInv, TypeOK
<1>1. ASSUME NEW gone, Decided(gone)
      PROVE  Ends /\ p = actor /\ bank[p] - bank'[p] <= waited - rules.decision
  <2>1. SettleBank /\ Ends
    BY <1>0, <1>1, DecidedIs DEF Ends
  <2>2. burning # Off /\ p = actor /\ bank[p] - bank'[p] <= burning
    BY <1>0, <2>1, SettleIs DEF TypeOK
  <2> QED
    BY <2>1, <2>2 DEF FairInv, Clocks
<1>2. ASSUME bank' = bank PROVE FALSE
  BY <1>0, <1>2
<1>3. ASSUME DealOrNot PROVE FALSE
  BY <1>0, <1>3, DealOrNotIs DEF TypeOK
<1>4. ASSUME NEW q \in Players, Act(q) \/ SitOut(q) PROVE \E gone : Decided(gone)
  BY <1>2, <1>4 DEF Act, SitOut
<1>5. ASSUME NEW q \in Players, Back(q) PROVE FALSE
  BY <1>0, <1>5 DEF Back, TypeOK
<1>6. ASSUME NEW q \in Players, Polls(q) \/ Gone(q) PROVE FALSE
  BY <1>2, <1>6 DEF Polls, Gone
<1>7. ASSUME NEW q \in Players, PlayerDeal(q) PROVE FALSE
  BY <1>3, <1>7 DEF PlayerDeal, DealOrWait, DealOrNot
<1>8. ASSUME NEW q \in Players, NEW on \in BOOLEAN, LeaveAfter(q, on) PROVE FALSE
  BY <1>2, <1>8 DEF LeaveAfter
<1>9. CASE HostFold
  BY <1>1, <1>9 DEF HostFold
<1>10. CASE Start
  BY <1>0, <1>3, <1>10 DEF Start, DealOrWait, DealOrNot, TypeOK
<1>11. ASSUME NEW n, SetDecision(n) \/ SetDelay(n) PROVE FALSE
  BY <1>2, <1>11 DEF SetDecision, SetDelay
<1>12. ASSUME NEW b \in BankChoices, SetBank(b) PROVE FALSE
  <2>1. rules'.bank = b
    BY <1>12 DEF SetBank, TypeOK, Rules, FairInv, IInv
  <2> QED
    BY <1>12, <2>1 DEF SetBank
<1>13. CASE Pause \/ RunoutOver \/ Account \/ Second \/ UNCHANGED vars
  BY <1>2, <1>13 DEF Pause, RunoutOver, Account, Second, vars
<1>14. CASE ShuffleOver
  BY <1>3, <1>14 DEF ShuffleOver, DealOrNot
<1>15. CASE ClockTick
  BY <1>1, <1>2, <1>15 DEF ClockTick, StepFails, StartBurning, TimeOut, PassAbsent
<1>16. CASE DealTick
  BY <1>0, <1>2, <1>3, <1>16 DEF DealTick, StepFails, AutoDeal, DealOrWait, DealOrNot, TypeOK
<1> QED
  BY <1>1, <1>4, <1>5, <1>6, <1>7, <1>8, <1>9, <1>10, <1>11, <1>12, <1>13, <1>14, <1>15, <1>16
     DEF Next, Request, TickStep

\* Bank seconds go only from the player who decided, and only those that were
\* used, as long as the host leaves the shot clock alone while a bank runs.
THEOREM ChargedTheorem ==
  ASSUME EditWhileBurning = FALSE
  PROVE  Spec => ChargedFairly
<1>1. FairInv /\ [Next]_vars =>
        [\A p \in Players : bank'[p] < bank[p] /\ rules' = rules =>
           /\ Ends /\ p = actor
           /\ bank[p] - bank'[p] <= waited - rules.decision]_vars
  BY ChargedStep
<1>2. FairInv /\ [Next]_vars => FairInv'
  BY FairInvStep
<1> QED
  BY <1>1, <1>2, FairInvInit, PTL DEF Spec, ChargedFairly

=============================================================================
