----------------------------- MODULE TableMoney -----------------------------
(* What the saved money of a home-game table promises, whatever the table    *)
(* does in memory: every committed change of the database is a whole         *)
(* business event.  Players exchange money for chips at par; somebody gets   *)
(* up and is paid their share of the money, to the cent; everybody does, and *)
(* all the money is paid; or one finished hand moves chips between seated    *)
(* players and is recorded with exactly those results.                       *)
(*                                                                           *)
(* Writes may fail.  A hand whose save fails leaves the saved money behind   *)
(* the table until the save is made up for; a hand whose record alone fails  *)
(* moves its chips without one.  Stated for stakes at which a cent is a      *)
(* whole number of chips.                                                    *)
EXTENDS Money

CONSTANTS Users, NoSeat, BBChips, BBCents

VARIABLES
  seat,     \* each player's seat, NoSeat for none
  chips,    \* the chips in front of each player
  paidIn, paidOut,  \* each player's money in and out, in cents
  hands,    \* the recorded hands: [no, delta, cents]
  behind,   \* a finished hand is still to be saved
  failures  \* the writes that have failed

money == <<seat, chips, paidIn, paidOut, hands>>
vars == <<money, behind, failures>>

Init ==
  /\ seat = [u \in Users |-> NoSeat]
  /\ chips = [u \in Users |-> 0] /\ paidIn = chips /\ paidOut = chips
  /\ hands = {} /\ behind = FALSE /\ failures = 0

In(u) == paidIn'[u] - paidIn[u]
Out(u) == paidOut'[u] - paidOut[u]
OnTable == Total([u \in Users |-> paidIn[u] - paidOut[u]])
Payable == IF OnTable < 0 THEN 0 ELSE OnTable
Pool == Total(chips)

\* Chips appear and vanish only against money, and money only against chips
Trade ==
  /\ \A u \in Users :
       /\ In(u) >= 0 /\ Out(u) >= 0
       /\ BBCents * (chips'[u] - chips[u]) = BBChips * (In(u) - Out(u))
       /\ seat[u] # NoSeat => seat'[u] # NoSeat
  /\ UNCHANGED hands

\* Whoever gets up has their part of the chips in money, and the last one all of it
GetUp(u) ==
  /\ seat[u] # NoSeat /\ seat' = [seat EXCEPT ![u] = NoSeat]
  /\ chips' = [chips EXCEPT ![u] = 0]
  /\ Out(u) \in 0 .. Payable
  /\ Pool > 0 => LET off == Out(u) * Pool - Payable * chips[u] IN -Pool < off /\ off < Pool
  /\ (\A v \in Users \ {u} : seat[v] = NoSeat) => Out(u) = Payable
  /\ \A v \in Users \ {u} : Out(v) = 0
  /\ UNCHANGED <<paidIn, hands>>

AllGetUp ==
  /\ \A u \in Users : /\ seat'[u] = NoSeat /\ chips'[u] = 0
                      /\ Out(u) >= 0 /\ (seat[u] = NoSeat => Out(u) = 0)
  /\ (\E u \in Users : seat[u] # NoSeat) => Total(paidOut') = Total(paidOut) + Payable
  /\ UNCHANGED <<paidIn, hands>>

\* One hand is recorded, and its results are what the stacks changed by
Hand ==
  /\ \E h \in hands' :
       /\ hands' = hands \cup {h}
       /\ \A g \in hands : g.no < h.no
       /\ Total(h.delta) = 0
       /\ \A u \in Users : /\ chips'[u] = chips[u] + h.delta[u]
                           /\ seat[u] = NoSeat => h.delta[u] = 0
  /\ UNCHANGED <<seat, paidIn, paidOut>>

\* Its record could not be written
HandUnrecorded ==
  /\ failures' > failures
  /\ Total(chips') = Total(chips)
  /\ \A u \in Users : seat[u] = NoSeat => chips'[u] = chips[u]
  /\ UNCHANGED <<seat, paidIn, paidOut, hands>>

Event == Trade \/ (\E u \in Users : GetUp(u)) \/ AllGetUp \/ Hand \/ HandUnrecorded

\* Until a hand that could not be saved is made up for, a row may be of before it
\* or of after it
Catches == (\A u \in Users : In(u) >= 0 /\ Out(u) >= 0) /\ hands \subseteq hands'

OwnSeats ==
  /\ \A u \in Users : seat[u] = NoSeat => chips[u] = 0
  /\ \A u, v \in Users : u # v /\ seat[u] = seat[v] => seat[u] = NoSeat

Next ==
  /\ failures' >= failures /\ OwnSeats'
  /\ \/ ~behind /\ ~behind' /\ Event
     \/ ~behind /\ behind' /\ failures' > failures /\ UNCHANGED money
     \/ behind /\ Catches

Spec == Init /\ [][Next]_vars

=============================================================================
