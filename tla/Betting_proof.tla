---------------------------- MODULE Betting_proof ----------------------------
(* Proofs about one hand of the rules engine, for any number of seats, any   *)
(* stakes, stacks, kinds of game and bet sizes: first the betting, with its  *)
(* inductive invariant, then the division of the pot and what the home game  *)
(* shows of it, for any hands.                                               *)
EXTENDS Betting, Money_proof, TLAPS

-----------------------------------------------------------------------------
(* Seats in order                                                            *)

LEMMA SeatsFinite == IsFiniteSet(Seats) /\ Seats \subseteq Nat /\ 0 \in Seats
<1>1. IsFiniteSet(0 .. NumSeats - 1)
  BY NumSeatsAssumption, FS_Interval
<1>2. QED
  BY <1>1, NumSeatsAssumption DEF Seats

LEMMA StepsType ==
  ASSUME NEW a \in Seats, NEW b \in Seats
  PROVE  Steps(a, b) \in 1 .. NumSeats /\ (b # a => Steps(a, b) < NumSeats)
BY NumSeatsAssumption DEF Steps, Seats

\* Two seats are never the same number of steps away
LEMMA StepsApart ==
  ASSUME NEW a \in Seats, NEW b \in Seats, NEW c \in Seats, b # c
  PROVE  Steps(a, b) # Steps(a, c)
BY NumSeatsAssumption DEF Steps, Seats

\* From a seat b on the way from a to c, it is so many steps less to c
LEMMA StepsOn ==
  ASSUME NEW a \in Seats, NEW b \in Seats, NEW c \in Seats, Steps(a, b) < Steps(a, c)
  PROVE  Steps(b, c) = Steps(a, c) - Steps(a, b)
BY NumSeatsAssumption DEF Steps, Seats

\* ... and from a seat beyond it, the rest of the way round
LEMMA StepsRound ==
  ASSUME NEW a \in Seats, NEW b \in Seats, NEW c \in Seats, Steps(a, b) < Steps(a, c), a # c
  PROVE  Steps(b, a) = NumSeats - Steps(a, b) /\ Steps(b, c) < Steps(b, a)
BY NumSeatsAssumption DEF Steps, Seats

\* The values a function takes on a finite set
LEMMA ImageFinite ==
  ASSUME NEW S, IsFiniteSet(S), NEW g
  PROVE  IsFiniteSet({g[x] : x \in S})
<1> DEFINE h == [x \in S |-> g[x]]
<1>1. h \in Surjection(S, {g[x] : x \in S})
  BY DEF Surjection, Range
<1>2. QED
  BY <1>1, FS_Surjection

LEMMA FirstFromIs ==
  ASSUME NEW a \in Seats, NEW S \in SUBSET Seats, S # {}
  PROVE  FirstFrom(a, S) \in S /\ \A r \in S : Steps(a, FirstFrom(a, S)) <= Steps(a, r)
<1> DEFINE D == {Steps(a, s) : s \in S}
<1>1. IsFiniteSet(D)
  <2> DEFINE g == [s \in S |-> Steps(a, s)]
  <2>1. IsFiniteSet(S)
    BY SeatsFinite, FS_Subset
  <2>2. IsFiniteSet({g[s] : s \in S})
    <3> HIDE DEF g
    <3> QED BY <2>1, ImageFinite
  <2>3. {g[s] : s \in S} = D
    OBVIOUS
  <2>4. QED
    BY <2>2, <2>3
<1>2. D \subseteq Int /\ D # {}
  BY StepsType
<1>3. Least(D) \in D /\ \A i \in D : Least(D) <= i
  <2> HIDE DEF D
  <2> QED BY <1>1, <1>2, LeastIsLeast
<1>4. \E s \in S : \A r \in S : Steps(a, s) <= Steps(a, r)
  BY <1>3
<1>5. QED
  BY <1>4 DEF FirstFrom

-----------------------------------------------------------------------------
(* What another can put in, and who is asked                                 *)

Amounts == [Seats -> Nat]

LEMMA MaxExists ==
  ASSUME NEW S, IsFiniteSet(S), S \subseteq Int, S # {}
  PROVE  \E m \in S : \A n \in S : n <= m
<1> DEFINE N == {-n : n \in S}
<1>1. IsFiniteSet(N)
  <2> DEFINE g == [n \in S |-> -n]
  <2>1. IsFiniteSet({g[n] : n \in S})
    <3> HIDE DEF g
    <3> QED BY ImageFinite
  <2>2. {g[n] : n \in S} = N
    OBVIOUS
  <2>3. QED
    BY <2>1, <2>2
<1>2. N \subseteq Int /\ N # {}
  <2>1. \A n \in S : n \in Int
    OBVIOUS
  <2>2. \A n \in S : -n \in Int
    BY <2>1
  <2>3. N \subseteq Int
    BY <2>2
  <2>4. PICK n \in S : TRUE
    OBVIOUS
  <2>5. -n \in N
    BY <2>4
  <2>6. QED
    BY <2>3, <2>5
<1>3. Least(N) \in N /\ \A i \in N : Least(N) <= i
  <2> HIDE DEF N
  <2> QED BY <1>1, <1>2, LeastIsLeast
<1>4. PICK m \in S : Least(N) = -m
  BY <1>3
<1>5. \A n \in S : -m <= -n
  BY <1>3, <1>4
<1>6. m \in Int /\ \A n \in S : n \in Int
  OBVIOUS
<1>7. QED
  BY <1>4, <1>5, <1>6

LEMMA ReachIs ==
  ASSUME NEW f \in SUBSET Seats, NEW k \in Amounts, NEW c \in Amounts, NEW s \in Seats
  PROVE  /\ Reach(s, f, k, c) \in Nat
         /\ \A r \in Live(f) \ {s} : c[r] + k[r] <= Reach(s, f, k, c)
         /\ Reach(s, f, k, c) # 0 => \E r \in Live(f) \ {s} : Reach(s, f, k, c) = c[r] + k[r]
<1> DEFINE R == Live(f) \ {s}
           others == {c[r] + k[r] : r \in R} \cup {0}
<1>1. R \subseteq Seats
  BY DEF Live
<1>2. IsFiniteSet(R)
  BY <1>1, SeatsFinite, FS_Subset
<1>3. IsFiniteSet({c[r] + k[r] : r \in R})
  <2> DEFINE g == [r \in R |-> c[r] + k[r]]
  <2>1. IsFiniteSet({g[r] : r \in R})
    <3> HIDE DEF g
    <3> QED BY <1>2, ImageFinite
  <2>2. {g[r] : r \in R} = {c[r] + k[r] : r \in R}
    OBVIOUS
  <2>3. QED
    BY <2>1, <2>2
<1>4. IsFiniteSet(others)
  BY <1>3, FS_AddElement
<1>5. \A n \in others : n \in Nat
  BY <1>1 DEF Amounts
<1>6. \E m \in others : \A n \in others : n <= m
  <2>1. others \subseteq Int /\ others # {}
    BY <1>5
  <2> HIDE DEF others
  <2> QED BY <1>4, <2>1, MaxExists
<1>7. Reach(s, f, k, c) = CHOOSE m \in others : \A n \in others : n <= m
  BY DEF Reach
<1>8. Reach(s, f, k, c) \in others /\ \A n \in others : n <= Reach(s, f, k, c)
  BY <1>6, <1>7
<1>9. QED
  BY <1>5, <1>8

LEMMA ContestIs ==
  ASSUME NEW f \in SUBSET Seats, NEW k \in Amounts, NEW c \in Amounts, NEW s \in Seats
  PROVE  Contest(s, f, k, c) <=> \E r \in Live(f) \ {s} : c[r] + k[r] > c[s]
<1>1. c[s] \in Nat /\ \A r \in Live(f) : c[r] + k[r] \in Nat
  BY DEF Live, Amounts
<1>2. QED
  BY <1>1, ReachIs DEF Contest

LEMMA CanActIs ==
  ASSUME NEW f \in SUBSET Seats, NEW k \in Amounts
  PROVE  /\ CanAct(f, k) \subseteq Seats /\ IsFiniteSet(CanAct(f, k))
         /\ Cardinality(CanAct(f, k)) \in Nat
         /\ \A s : s \in CanAct(f, k) <=> s \in Live(f) /\ k[s] > 0
         /\ Live(f) \subseteq Seats /\ IsFiniteSet(Live(f)) /\ Cardinality(Live(f)) \in Nat
<1>1. CanAct(f, k) \subseteq Seats /\ Live(f) \subseteq Seats
  BY DEF CanAct, Live
<1>2. IsFiniteSet(CanAct(f, k)) /\ IsFiniteSet(Live(f))
  BY <1>1, SeatsFinite, FS_Subset
<1>3. QED
  BY <1>1, <1>2, FS_CardinalityType DEF CanAct

\* Two members, or more
LEMMA TwoMembers ==
  ASSUME NEW S, IsFiniteSet(S)
  PROVE  Cardinality(S) >= 2 <=> \E x, y \in S : x # y
<1>1. Cardinality(S) \in Nat
  BY FS_CardinalityType
<1>2. ASSUME NEW x \in S, NEW y \in S, x # y PROVE Cardinality(S) >= 2
  <2>1. IsFiniteSet({x}) /\ Cardinality({x}) = 1 /\ y \notin {x}
    BY <1>2, FS_Singleton
  <2>2. Cardinality({x} \cup {y}) = 2 /\ IsFiniteSet({x} \cup {y})
    <3> DEFINE X == {x}
    <3> HIDE DEF X
    <3>1. IsFiniteSet(X) /\ Cardinality(X) = 1 /\ y \notin X
      BY <2>1 DEF X
    <3>2. IsFiniteSet(X \cup {y}) /\ Cardinality(X \cup {y}) = Cardinality(X) + 1
      BY <3>1, FS_AddElement
    <3>3. QED
      BY <3>1, <3>2 DEF X
  <2>3. {x} \cup {y} \subseteq S
    OBVIOUS
  <2>4. Cardinality({x} \cup {y}) <= Cardinality(S)
    BY <2>3, FS_Subset
  <2>5. QED
    BY <1>1, <2>2, <2>4
<1>3. ASSUME Cardinality(S) >= 2 PROVE \E x, y \in S : x # y
  <2>1. S # {}
    BY <1>3, FS_EmptySet
  <2>2. PICK x \in S : TRUE
    BY <2>1
  <2>3. CASE S = {x}
    BY <1>3, <2>3, FS_Singleton
  <2>4. CASE S # {x}
    BY <2>2, <2>4
  <2>5. QED
    BY <2>3, <2>4
<1>4. QED
  BY <1>2, <1>3

\* Who is asked: whoever can act, has not answered, and can be called
LEMMA ToActIs ==
  ASSUME NEW f \in SUBSET Seats, NEW k \in Amounts, NEW c \in Amounts, NEW b \in Nat, NEW a
  PROVE  /\ ToAct(f, k, c, b, a) \subseteq CanAct(f, k)
         /\ \A s \in CanAct(f, k) :
              s \in ToAct(f, k, c, b, a) <=>
                /\ s \notin a \/ c[s] < b
                /\ \E r \in Live(f) \ {s} : c[r] + k[r] > c[s]
<1>1. CanAct(f, k) \subseteq Seats
  BY CanActIs
<1>2. QED
  BY <1>1, ContestIs DEF ToAct

\* A street that opens with two who can act has somebody to open it
LEMMA OpenerIs ==
  ASSUME NEW f \in SUBSET Seats, NEW k \in Amounts, NEW btn \in Seats,
         Cardinality(CanAct(f, k)) >= 2
  PROVE  Opener(btn, f, k) \in ToAct(f, k, Zero, 0, {})
<1> DEFINE first == {s \in CanAct(f, k) : Contest(s, f, k, Zero)}
<1>1. Zero \in Amounts
  BY DEF Zero, Amounts
<1>2. PICK x, y \in CanAct(f, k) : x # y
  BY CanActIs, TwoMembers
<1>3. /\ x \in Seats /\ x \in Live(f) /\ k[x] > 0 /\ k[x] \in Nat
      /\ y \in Seats /\ y \in Live(f) /\ k[y] > 0 /\ k[y] \in Nat
  BY CanActIs DEF Amounts
<1>4. Zero[x] + k[x] > Zero[y]
  BY <1>3 DEF Zero
<1>5. Contest(y, f, k, Zero)
  BY <1>1, <1>2, <1>3, <1>4, ContestIs
<1>6. first # {} /\ first \subseteq Seats
  BY <1>5, CanActIs
<1>7. FirstFrom(btn, first) \in first
  <2> HIDE DEF first
  <2> QED BY <1>6, FirstFromIs
<1>8. Opener(btn, f, k) \in first
  BY <1>6, <1>7 DEF Opener
<1>9. QED
  BY <1>8 DEF ToAct

-----------------------------------------------------------------------------
(* The invariant.  f, k, c and t stand for the folded seats, the stacks, the *)
(* street's commitments and the hand's, b for the bet, r for the last raise, *)
(* a for who has acted, g for the game.                                      *)

\* Nobody has put in more than the bet; a raise is a big blind at least, and more than
\* that only if the bet is; and in a bomb pot somebody has put in the bet
RoundOK(g, c, b, r, t) ==
  /\ \A s \in Seats : c[s] <= b /\ c[s] <= t[s]
  /\ r >= BigBlind /\ (r = BigBlind \/ r <= b)
  /\ ~g.holdem /\ b > 0 => \E s \in Seats : c[s] = b

\* Whoever had chips when the street began has put in as much before it as anybody
LevelTo(n, f, k, c, t) ==
  /\ \A s \in Seats : t[s] - c[s] <= n
  /\ \A s \in Live(f) : c[s] + k[s] > 0 => t[s] - c[s] = n
Leveled(f, k, c, t) == \E n \in Nat : LevelTo(n, f, k, c, t)

\* Somebody who is still in has put in the bet
Met(f, c, b) == \E s \in Live(f) : c[s] = b

\* ... or the bet is a big blind that bb could not pay in full, and nobody has called yet
\* who has chips left.  Nobody who folded had put anything in, but for the small blind,
\* who is asked last of all and folds only if somebody all in has put in more.
BlindShort(sb, bb, f, k, c, b, a) ==
  /\ b > 0 /\ bb \in Live(f) /\ k[bb] = 0
  /\ \A s \in CanAct(f, k) : s \notin a
  /\ \A s \in Seats \ {sb, bb} : s \in f \cup CanAct(f, k) => c[s] = 0
  /\ \A s \in Live(f) \ {bb} : Steps(bb, s) <= Steps(bb, sb)
  /\ sb \in f => \E s \in Live(f) : k[s] = 0 /\ c[s] > c[sb]

\* The players are asked in turn, from the big blind on
InTurn(bb, f, k, c, b, a, p) == \A s \in ToAct(f, k, c, b, a) : Steps(bb, p) <= Steps(bb, s)
Unmet(f, k, c, b, a, p) ==
  \E sb, bb \in Seats :
    sb # bb /\ BlindShort(sb, bb, f, k, c, b, a) /\ InTurn(bb, f, k, c, b, a, p)

\* LiveSeatHoldsTop
Top(f, t) == \A s \in f : \E m \in Live(f) : t[s] <= t[m]

PhaseOK ==
  /\ actor # Nobody =>
       /\ ending = "" /\ awaiting = Nobody /\ street # Over
       /\ actor \in ToAct(folded, stack, commit, bet, acted)
  /\ awaiting # Nobody =>
       /\ actor = Nobody /\ ending = "" /\ awaiting = street + 1
       /\ Cardinality(CanAct(folded, stack)) >= 2
       /\ \A s \in CanAct(folded, stack) : commit[s] = bet
BetOK ==
  /\ actor # Nobody \/ awaiting # Nobody => Leveled(folded, stack, commit, total)
  /\ actor # Nobody => Met(folded, commit, bet) \/ Unmet(folded, stack, commit, bet, acted, actor)
TopOK == ending # "" => Top(folded, total)

IInv == TypeOK /\ RoundOK(game, commit, bet, raise, total) /\ PhaseOK /\ BetOK /\ TopOK

Fits(f, k, c, b, r, lv, a, t) ==
  /\ f \in SUBSET Seats /\ k \in Amounts /\ c \in Amounts /\ b \in Nat /\ r \in Nat
  /\ lv \in Amounts /\ a \in SUBSET Seats /\ t \in Amounts

\* While somebody is asked, nobody who folded has put in more than everybody still in
LEMMA TopHolds ==
  ASSUME NEW f, NEW k, NEW c, NEW b, NEW r, NEW lv, NEW a, NEW t, Fits(f, k, c, b, r, lv, a, t),
         \A s \in Seats : c[s] <= b, Leveled(f, k, c, t),
         Met(f, c, b) \/ \E sb, bb \in Seats : BlindShort(sb, bb, f, k, c, b, a),
         NEW m \in Live(f), c[m] + k[m] > 0
  PROVE  Top(f, t)
<1>1. f \in SUBSET Seats /\ Live(f) \subseteq Seats
  BY DEF Fits, Live
<1>2. \A s \in Seats : c[s] \in Nat /\ k[s] \in Nat /\ t[s] \in Nat
  BY DEF Fits, Amounts
<1>3. b \in Nat
  BY DEF Fits
<1>4. PICK n \in Nat : LevelTo(n, f, k, c, t)
  BY DEF Leveled
<1>5. /\ \A s \in Seats : t[s] <= n + c[s]
      /\ \A s \in Live(f) : c[s] + k[s] > 0 => t[s] = n + c[s]
  BY <1>1, <1>2, <1>4 DEF LevelTo
<1>6. t[m] >= n
  BY <1>1, <1>2, <1>5
<1>7. SUFFICES ASSUME NEW s \in f PROVE \E x \in Live(f) : t[s] <= t[x]
  BY DEF Top
<1>8. CASE Met(f, c, b)
  <2>1. PICK x \in Live(f) : c[x] = b
    BY <1>8 DEF Met
  <2>2. t[s] <= n + b
    BY <1>1, <1>2, <1>3, <1>5
  <2>3. CASE b = 0
    BY <1>1, <1>2, <1>6, <2>2, <2>3
  <2>4. CASE b # 0
    <3>1. t[x] = n + b
      BY <1>1, <1>2, <1>3, <1>5, <2>1, <2>4
    <3>2. QED
      BY <2>2, <3>1
  <2>5. QED
    BY <2>3, <2>4
<1>9. CASE \E sb, bb \in Seats : BlindShort(sb, bb, f, k, c, b, a)
  <2>1. PICK sb \in Seats, bb \in Seats : BlindShort(sb, bb, f, k, c, b, a)
    BY <1>9
  <2>2. s # bb
    BY <2>1 DEF BlindShort, Live
  <2>3. CASE s # sb
    <3>1. c[s] = 0
      BY <1>1, <2>1, <2>2, <2>3 DEF BlindShort
    <3>2. QED
      BY <1>1, <1>2, <1>5, <1>6, <3>1
  <2>4. CASE s = sb
    <3>1. PICK x \in Live(f) : k[x] = 0 /\ c[x] > c[sb]
      BY <2>1, <2>4 DEF BlindShort
    <3>2. t[x] = n + c[x]
      BY <1>1, <1>2, <1>5, <3>1
    <3>3. QED
      BY <1>1, <1>2, <1>5, <2>4, <3>1, <3>2
  <2>5. QED
    BY <2>3, <2>4
<1>10. QED
  BY <1>8, <1>9

\* When nobody is left to ask and two can still act, both have put in the bet
LEMMA AllMet ==
  ASSUME NEW f, NEW k, NEW c, NEW b, NEW r, NEW lv, NEW a, NEW t, Fits(f, k, c, b, r, lv, a, t),
         \A s \in Seats : c[s] <= b, ToAct(f, k, c, b, a) = {}, Cardinality(CanAct(f, k)) >= 2
  PROVE  \A s \in CanAct(f, k) : c[s] = b
<1>1. /\ f \in SUBSET Seats /\ k \in Amounts /\ c \in Amounts /\ b \in Nat
      /\ \A s \in Seats : c[s] \in Nat /\ k[s] \in Nat
  BY DEF Fits, Amounts
<1>2. CanAct(f, k) \subseteq Seats /\ \A s : s \in CanAct(f, k) <=> s \in Live(f) /\ k[s] > 0
  BY <1>1, CanActIs
<1>3. SUFFICES ASSUME NEW s \in CanAct(f, k), c[s] # b PROVE FALSE
  OBVIOUS
<1>4. PICK x \in CanAct(f, k) : x # s
  <2>1. IsFiniteSet(CanAct(f, k))
    BY <1>1, CanActIs
  <2>2. PICK y, z \in CanAct(f, k) : y # z
    BY <2>1, TwoMembers
  <2>3. QED
    BY <2>2
<1>5. \A y \in CanAct(f, k) :
        ~(/\ y \notin a \/ c[y] < b
          /\ \E m \in Live(f) \ {y} : c[m] + k[m] > c[y])
  BY <1>1, ToActIs
<1>6. c[s] < b
  BY <1>1, <1>2, <1>3
<1>7. ~(c[x] + k[x] > c[s])
  BY <1>2, <1>4, <1>5, <1>6
<1>8. c[x] < b /\ c[s] + k[s] > c[x]
  BY <1>1, <1>2, <1>4, <1>6, <1>7
<1>9. QED
  BY <1>2, <1>4, <1>5, <1>8

\* The next street begins level
LEMMA NextLevel ==
  ASSUME NEW f, NEW k, NEW c, NEW b, NEW r, NEW lv, NEW a, NEW t, Fits(f, k, c, b, r, lv, a, t),
         \A s \in Seats : c[s] <= b, Leveled(f, k, c, t), \A s \in CanAct(f, k) : c[s] = b
  PROVE  Leveled(f, k, Zero, t)
<1>1. /\ f \in SUBSET Seats /\ k \in Amounts /\ b \in Nat /\ Live(f) \subseteq Seats
      /\ \A s \in Seats : c[s] \in Nat /\ k[s] \in Nat /\ t[s] \in Nat
  BY DEF Fits, Amounts, Live
<1>2. PICK n \in Nat : LevelTo(n, f, k, c, t)
  BY DEF Leveled
<1>3. n + b \in Nat
  BY <1>1
<1>4. \A s \in Seats : Zero[s] = 0
  BY DEF Zero
<1>5. \A s \in Seats : t[s] - Zero[s] <= n + b
  BY <1>1, <1>2, <1>4 DEF LevelTo
<1>6. ASSUME NEW s \in Live(f), Zero[s] + k[s] > 0 PROVE t[s] - Zero[s] = n + b
  <2>1. s \in Seats /\ s \in CanAct(f, k)
    BY <1>1, <1>4, <1>6 DEF CanAct
  <2>2. c[s] = b /\ t[s] - c[s] = n
    BY <1>1, <1>2, <2>1, <1>6, <1>4 DEF LevelTo
  <2>3. QED
    BY <1>1, <1>4, <2>1, <2>2
<1>7. QED
  BY <1>3, <1>5, <1>6 DEF Leveled, LevelTo

-----------------------------------------------------------------------------
(* How a move leaves the hand.                                               *)

LEMMA Streets ==
  /\ \A st \in 0 .. River : st \in 0 .. Over /\ st # Over /\ (st # River => st + 1 \in 1 .. River)
  /\ \A st \in 1 .. River : st \in 0 .. River
  /\ \A st \in 0 .. Over : st # Over => st \in 0 .. River
BY DEF River, Over

\* What the next state is made of
Becomes4(f, k, t) == folded' = f /\ stack' = k /\ total' = t
GameKept == game' \in GameKinds /\ button' \in Seats

LEMMA FreshKeeps ==
  ASSUME FreshStreet, total' \in Amounts
  PROVE  /\ RoundOK(game', commit', bet', raise', total')
         /\ commit' \in Amounts /\ bet' \in Nat /\ raise' \in Nat /\ level' \in Amounts
         /\ acted' \subseteq Seats
<1>1. commit' = Zero /\ bet' = 0 /\ raise' = BigBlind /\ level' = Zero /\ acted' = {}
  BY DEF FreshStreet
<1>2. \A s \in Seats : Zero[s] = 0 /\ total'[s] \in Nat
  BY DEF Zero, Amounts
<1>3. Zero \in Amounts /\ BigBlind \in Nat
  BY StakesAssumption DEF Zero, Amounts
<1>4. \A s \in Seats : commit'[s] <= bet' /\ commit'[s] <= total'[s]
  BY <1>1, <1>2
<1>5. raise' >= BigBlind /\ (raise' = BigBlind \/ raise' <= bet')
  BY <1>1, <1>3
<1>6. ~(bet' > 0)
  BY <1>1
<1>7. RoundOK(game', commit', bet', raise', total')
  BY <1>4, <1>5, <1>6 DEF RoundOK
<1>8. QED
  BY <1>1, <1>3, <1>7

\* A hand that ends
LEMMA EndKeeps ==
  ASSUME NEW f, NEW k, NEW t, Becomes4(f, k, t), GameKept,
         f \in SUBSET Seats, k \in Amounts, t \in Amounts, Top(f, t),
         NEW st \in 0 .. Over, NEW how \in {"foldout", "showdown", "runout"}, EndHand(st, how)
  PROVE  IInv'
<1>1. /\ street' = st /\ ending' = how /\ actor' = Nobody /\ awaiting' = Nobody /\ FreshStreet
      /\ folded' = f /\ stack' = k /\ total' = t /\ game' \in GameKinds /\ button' \in Seats
  BY DEF EndHand, Becomes4, GameKept
<1>2. /\ RoundOK(game', commit', bet', raise', total')
      /\ commit' \in Amounts /\ bet' \in Nat /\ raise' \in Nat /\ level' \in Amounts
      /\ acted' \subseteq Seats
  BY <1>1, FreshKeeps
<1>3. TypeOK'
  BY <1>1, <1>2 DEF TypeOK, Amounts
<1>4. PhaseOK' /\ BetOK'
  BY <1>1 DEF PhaseOK, BetOK
<1>5. TopOK'
  BY <1>1 DEF TopOK
<1>6. QED
  BY <1>2, <1>3, <1>4, <1>5 DEF IInv

\* A street that opens
LEMMA OpenKeeps ==
  ASSUME NEW f, NEW k, NEW t, Becomes4(f, k, t), GameKept,
         f \in SUBSET Seats, k \in Amounts, t \in Amounts,
         Leveled(f, k, Zero, t), Cardinality(CanAct(f, k)) >= 2,
         FreshStreet, actor' = Opener(button', f, k), street' \in 1 .. River,
         ending' = "", awaiting' = Nobody
  PROVE  IInv'
<1>1. /\ folded' = f /\ stack' = k /\ total' = t /\ game' \in GameKinds /\ button' \in Seats
  BY DEF Becomes4, GameKept
<1>2. /\ RoundOK(game', commit', bet', raise', total')
      /\ commit' \in Amounts /\ bet' \in Nat /\ raise' \in Nat /\ level' \in Amounts
      /\ acted' \subseteq Seats
  BY <1>1, FreshKeeps
<1>3. commit' = Zero /\ bet' = 0 /\ acted' = {}
  BY DEF FreshStreet
<1>4. actor' \in ToAct(f, k, Zero, 0, {})
  <2>1. PICK btn \in Seats : btn = button'
    BY <1>1
  <2>2. QED
    BY <2>1, OpenerIs
<1>5. actor' \in CanAct(f, k)
  BY <1>4 DEF ToAct
<1>6. actor' \in Seats /\ actor' \in Live(f)
  BY <1>5, CanActIs
<1>7. TypeOK'
  <2>1. street' \in 0 .. Over
    BY Streets
  <2>2. QED
    BY <1>1, <1>2, <1>5, <2>1 DEF TypeOK, Amounts
<1>8. PhaseOK'
  <2>1. street' # Over
    BY Streets
  <2>2. QED
    BY <1>1, <1>3, <1>4, <2>1 DEF PhaseOK
<1>9. BetOK'
  <2>1. Met(folded', commit', bet')
    BY <1>1, <1>3, <1>6 DEF Met, Zero
  <2>2. QED
    BY <1>1, <1>3, <2>1 DEF BetOK
<1>10. TopOK'
  BY DEF TopOK
<1>11. QED
  BY <1>2, <1>7, <1>8, <1>9, <1>10 DEF IInv

\* A round that closes
LEMMA CloseKeeps ==
  ASSUME NEW f, NEW k, NEW c, NEW b, NEW r, NEW lv, NEW a, NEW t, Fits(f, k, c, b, r, lv, a, t),
         Becomes4(f, k, t), GameKept, NEW st \in 0 .. River,
         RoundOK(game', c, b, r, t), Leveled(f, k, c, t), Top(f, t), ToAct(f, k, c, b, a) = {},
         CloseRound(st, f, k, c, b, r, lv, a)
  PROVE  IInv'
<1>1. /\ f \in SUBSET Seats /\ k \in Amounts /\ t \in Amounts /\ c \in Amounts /\ lv \in Amounts
      /\ b \in Nat /\ r \in Nat /\ a \in SUBSET Seats
      /\ st \in 0 .. Over /\ Over \in 0 .. Over
  BY DEF Fits, River, Over
<1>2. ASSUME EndHand(Over, "showdown") \/ EndHand(st, "runout") PROVE IInv'
  BY <1>1, <1>2, EndKeeps
<1>3. ASSUME Cardinality(CanAct(f, k)) >= 2
      PROVE  (\A s \in CanAct(f, k) : c[s] = b) /\ Leveled(f, k, Zero, t)
  <2>1. \A s \in Seats : c[s] <= b
    BY DEF RoundOK
  <2>2. \A s \in CanAct(f, k) : c[s] = b
    BY <1>3, <2>1, AllMet
  <2>3. QED
    BY <2>1, <2>2, NextLevel
<1>4. ASSUME st # River, Cardinality(CanAct(f, k)) >= 2, KeepStreet(c, b, r, lv, a),
             actor' = Nobody, street' = st, ending' = "", awaiting' = st + 1
      PROVE  IInv'
  <2>1. /\ commit' = c /\ bet' = b /\ raise' = r /\ level' = lv /\ acted' = a
        /\ folded' = f /\ stack' = k /\ total' = t /\ game' \in GameKinds /\ button' \in Seats
    BY <1>4 DEF KeepStreet, Becomes4, GameKept
  <2>2. TypeOK'
    <3>1. awaiting' \in 1 .. River
      BY <1>4, Streets
    <3>2. QED
      BY <1>1, <1>4, <2>1, <3>1 DEF TypeOK, Amounts
  <2>3. PhaseOK'
    BY <1>3, <1>4, <2>1 DEF PhaseOK
  <2>4. BetOK'
    BY <1>4, <2>1 DEF BetOK
  <2>5. TopOK'
    BY <1>4 DEF TopOK
  <2>6. RoundOK(game', commit', bet', raise', total')
    BY <2>1
  <2>7. QED
    BY <2>2, <2>3, <2>4, <2>5, <2>6 DEF IInv
<1>5. ASSUME st # River, Cardinality(CanAct(f, k)) >= 2, FreshStreet,
             actor' = Opener(button', f, k), street' = st + 1, ending' = "", awaiting' = Nobody
      PROVE  IInv'
  <2>1. street' \in 1 .. River
    BY <1>5, Streets
  <2>2. QED
    BY <1>1, <1>3, <1>5, <2>1, OpenKeeps
<1>6. QED
  BY <1>2, <1>4, <1>5 DEF CloseRound

\* What the invariant says while somebody is asked
LEMMA InPlay ==
  ASSUME IInv, Playing
  PROVE  /\ Fits(folded, stack, commit, bet, raise, level, acted, total)
         /\ RoundOK(game, commit, bet, raise, total) /\ Leveled(folded, stack, commit, total)
         /\ Met(folded, commit, bet) \/ Unmet(folded, stack, commit, bet, acted, actor)
         /\ actor \in Seats /\ actor \in Live(folded) /\ stack[actor] > 0
         /\ actor \notin acted \/ commit[actor] < bet
         /\ \E r \in Live(folded) \ {actor} : commit[r] + stack[r] > commit[actor]
         /\ \A s \in Seats : /\ stack[s] \in Nat /\ commit[s] \in Nat /\ total[s] \in Nat
                             /\ level[s] \in Nat
         /\ street \in 0 .. River /\ ending = "" /\ awaiting = Nobody
<1>1. TypeOK /\ PhaseOK /\ BetOK /\ RoundOK(game, commit, bet, raise, total) /\ actor # Nobody
  BY DEF IInv, Playing
<1>2. Fits(folded, stack, commit, bet, raise, level, acted, total)
  BY <1>1 DEF Fits, TypeOK, Amounts
<1>3. Leveled(folded, stack, commit, total) /\ (Met(folded, commit, bet) \/ Unmet(folded, stack, commit, bet, acted, actor))
  BY <1>1 DEF BetOK
<1>4. actor \in ToAct(folded, stack, commit, bet, acted) /\ ending = "" /\ awaiting = Nobody /\ street # Over
  BY <1>1 DEF PhaseOK
<1>5. folded \in SUBSET Seats /\ stack \in Amounts /\ commit \in Amounts /\ bet \in Nat
  BY <1>2 DEF Fits
<1>6. actor \in CanAct(folded, stack)
  BY <1>4 DEF ToAct
<1>7. /\ actor \notin acted \/ commit[actor] < bet
      /\ \E r \in Live(folded) \ {actor} : commit[r] + stack[r] > commit[actor]
  <2>1. \A s \in CanAct(folded, stack) :
          s \in ToAct(folded, stack, commit, bet, acted) <=>
            /\ s \notin acted \/ commit[s] < bet
            /\ \E r \in Live(folded) \ {s} : commit[r] + stack[r] > commit[s]
    BY <1>5, ToActIs
  <2>2. QED
    BY <1>4, <1>6, <2>1
<1>8. actor \in Seats /\ actor \in Live(folded) /\ stack[actor] > 0
  BY <1>5, <1>6, CanActIs
<1>9. \A s \in Seats : stack[s] \in Nat /\ commit[s] \in Nat /\ total[s] \in Nat /\ level[s] \in Nat
  BY <1>2 DEF Fits, Amounts
<1>10. street \in 0 .. River
  <2>1. street \in 0 .. Over
    BY <1>1 DEF TypeOK
  <2>2. QED
    BY <1>4, <2>1, Streets
<1>11. QED
  BY <1>1, <1>2, <1>3, <1>4, <1>7, <1>8, <1>9, <1>10

\* The blind is still short, and those left to ask come after the actor
StillUnmet(f, k, c, b, a, p) ==
  \E sb, bb \in Seats :
    /\ sb # bb /\ BlindShort(sb, bb, f, k, c, b, a)
    /\ \A s \in ToAct(f, k, c, b, a) : Steps(bb, p) < Steps(bb, s)

\* Who is asked next comes before the others left to ask
LEMMA TurnPasses ==
  ASSUME NEW f, NEW k, NEW c, NEW b, NEW r, NEW lv, NEW a, NEW t, Fits(f, k, c, b, r, lv, a, t),
         NEW p \in Seats, StillUnmet(f, k, c, b, a, p), ToAct(f, k, c, b, a) # {}
  PROVE  Unmet(f, k, c, b, a, FirstFrom(p, ToAct(f, k, c, b, a)))
<1> DEFINE next == ToAct(f, k, c, b, a)
           q == FirstFrom(p, next)
<1>1. PICK sb \in Seats, bb \in Seats :
        /\ sb # bb /\ BlindShort(sb, bb, f, k, c, b, a)
        /\ \A s \in next : Steps(bb, p) < Steps(bb, s)
  BY DEF StillUnmet
<1>2. next \in SUBSET Seats /\ next # {}
  BY ToActIs, CanActIs DEF Fits
<1>3. q \in next /\ \A s \in next : Steps(p, q) <= Steps(p, s)
  <2> HIDE DEF next
  <2> QED BY <1>2, FirstFromIs
<1>4. ASSUME NEW s \in next PROVE Steps(bb, q) <= Steps(bb, s)
  <2>1. q \in Seats /\ s \in Seats
    BY <1>2, <1>3
  <2>2. Steps(p, q) = Steps(bb, q) - Steps(bb, p) /\ Steps(p, s) = Steps(bb, s) - Steps(bb, p)
    BY <1>1, <1>3, <2>1, StepsOn
  <2>3. Steps(bb, q) \in Int /\ Steps(bb, s) \in Int /\ Steps(bb, p) \in Int
    BY <2>1, StepsType
  <2>4. Steps(p, q) <= Steps(p, s)
    BY <1>3
  <2>5. QED
    BY <2>2, <2>3, <2>4
<1>5. QED
  BY <1>1, <1>4 DEF Unmet, InTurn

\* A move, whatever it was: the hand goes on, to the next player or the next street, or ends
LEMMA AdvanceKeeps ==
  ASSUME IInv, Playing,
         NEW f, NEW k, NEW c, NEW b, NEW r, NEW lv, NEW a, NEW t, Fits(f, k, c, b, r, lv, a, t),
         RoundOK(game, c, b, r, t), Leveled(f, k, c, t),
         Met(f, c, b) \/ StillUnmet(f, k, c, b, a, actor),
         NEW m \in Live(f), c[m] + k[m] > 0,
         Advance(f, k, c, b, r, lv, a), total' = t
  PROVE  IInv'
<1> DEFINE next == ToAct(f, k, c, b, a)
<1>1. /\ actor \in Seats /\ street \in 0 .. River /\ awaiting = Nobody /\ ending = ""
      /\ game \in GameKinds /\ button \in Seats
  BY InPlay DEF IInv, TypeOK
<1>2. /\ game' = game /\ button' = button /\ folded' = f /\ stack' = k
      /\ Becomes4(f, k, t) /\ GameKept
  BY <1>1 DEF Advance, Becomes4, GameKept
<1>3. /\ f \in SUBSET Seats /\ k \in Amounts /\ c \in Amounts /\ b \in Nat /\ r \in Nat
      /\ lv \in Amounts /\ a \in SUBSET Seats /\ t \in Amounts
  BY DEF Fits
<1>4. \A s \in Seats : c[s] <= b
  BY DEF RoundOK
<1>5. Met(f, c, b) \/ \E sb, bb \in Seats : BlindShort(sb, bb, f, k, c, b, a)
  BY DEF StillUnmet
<1>6. Top(f, t)
  BY <1>4, <1>5, TopHolds
<1>7. CASE EndHand(Over, "foldout")
  <2>1. Over \in 0 .. Over
    BY DEF Over
  <2>2. QED
    BY <1>2, <1>3, <1>6, <1>7, <2>1, EndKeeps
<1>8. CASE next = {} /\ CloseRound(street, f, k, c, b, r, lv, a)
  <2>1. PICK st \in 0 .. River : st = street
    BY <1>1
  <2>2. CloseRound(st, f, k, c, b, r, lv, a)
    BY <1>8, <2>1
  <2>3. RoundOK(game', c, b, r, t)
    BY <1>2
  <2>4. QED
    BY <1>2, <1>6, <1>8, <2>2, <2>3, CloseKeeps
<1>9. CASE /\ next # {} /\ KeepStreet(c, b, r, lv, a) /\ actor' = FirstFrom(actor, next)
           /\ UNCHANGED <<street, awaiting, ending>>
  <2>1. /\ commit' = c /\ bet' = b /\ raise' = r /\ level' = lv /\ acted' = a /\ total' = t
        /\ street' = street /\ awaiting' = Nobody /\ ending' = ""
    BY <1>1, <1>9 DEF KeepStreet
  <2>2. next \in SUBSET Seats
    BY <1>3, ToActIs, CanActIs
  <2>3. actor' \in next
    <3> HIDE DEF next
    <3>1. PICK p \in Seats : p = actor
      BY <1>1
    <3>2. actor' = FirstFrom(p, next)
      BY <1>9, <3>1
    <3>3. QED
      BY <1>9, <2>2, <3>2, FirstFromIs
  <2>4. actor' \in CanAct(f, k)
    BY <2>3 DEF ToAct
  <2>5. TypeOK'
    <3>1. /\ folded' \subseteq Seats /\ stack' \in [Seats -> Nat] /\ commit' \in [Seats -> Nat]
          /\ bet' \in Nat /\ raise' \in Nat /\ level' \in [Seats -> Nat] /\ acted' \subseteq Seats
          /\ total' \in [Seats -> Nat]
      BY <1>2, <1>3, <2>1 DEF Amounts
    <3>2. game' \in GameKinds /\ button' \in Seats
      BY <1>1, <1>2
    <3>3. street' \in 0 .. Over
      BY <1>1, <2>1, Streets
    <3>4. actor' \in {Nobody} \cup CanAct(folded', stack')
      BY <1>2, <2>4
    <3>5. QED
      BY <2>1, <3>1, <3>2, <3>3, <3>4 DEF TypeOK
  <2>6. PhaseOK'
    <3>1. actor' \in ToAct(folded', stack', commit', bet', acted')
      BY <1>2, <2>1, <2>3
    <3>2. street' # Over
      BY <1>1, <2>1, Streets
    <3>3. QED
      BY <2>1, <3>1, <3>2 DEF PhaseOK
  <2>7. BetOK'
    <3>1. Leveled(folded', stack', commit', total')
      BY <1>2, <2>1
    <3>2. CASE Met(f, c, b)
      <4>1. Met(folded', commit', bet')
        BY <1>2, <2>1, <3>2
      <4>2. QED
        BY <3>1, <4>1 DEF BetOK
    <3>3. CASE StillUnmet(f, k, c, b, a, actor)
      <4>1. PICK p \in Seats : p = actor
        BY <1>1
      <4>2. StillUnmet(f, k, c, b, a, p)
        BY <3>3, <4>1
      <4>3. Unmet(f, k, c, b, a, FirstFrom(p, next))
        BY <1>9, <4>2, TurnPasses
      <4>4. Unmet(folded', stack', commit', bet', acted', actor')
        BY <1>2, <1>9, <2>1, <4>1, <4>3
      <4>5. QED
        BY <3>1, <4>4 DEF BetOK
    <3>4. QED
      BY <3>2, <3>3
  <2>8. TopOK'
    BY <2>1 DEF TopOK
  <2>9. RoundOK(game', commit', bet', raise', total')
    BY <1>2, <2>1
  <2>10. QED
    BY <2>5, <2>6, <2>7, <2>8, <2>9 DEF IInv
<1>10. QED
  BY <1>7, <1>8, <1>9 DEF Advance

\* A player who folds: whoever put in the bet is somebody else, and a small blind folds
\* to nobody but a player all in for more
LEMMA FoldKeeps ==
  ASSUME IInv, Fold
  PROVE  IInv'
<1> DEFINE f == folded \cup {actor}
           a == acted \cup {actor}
           lv == [level EXCEPT ![actor] = bet]
<1>1. /\ Playing /\ commit[actor] < bet /\ total' = total
      /\ Advance(f, stack, commit, bet, raise, lv, a)
  <2>1. Facing /\ Playing
    BY DEF Fold
  <2>2. commit[actor] \in Nat /\ bet \in Nat
    BY <2>1, InPlay DEF Fits
  <2>3. QED
    BY <2>1, <2>2 DEF Fold, Facing
<1>2. /\ Fits(folded, stack, commit, bet, raise, level, acted, total)
      /\ RoundOK(game, commit, bet, raise, total) /\ Leveled(folded, stack, commit, total)
      /\ Met(folded, commit, bet) \/ Unmet(folded, stack, commit, bet, acted, actor)
      /\ actor \in Seats /\ actor \in Live(folded) /\ stack[actor] > 0
  BY <1>1, InPlay
<1>3. /\ folded \in SUBSET Seats /\ stack \in Amounts /\ commit \in Amounts /\ bet \in Nat
      /\ raise \in Nat /\ level \in Amounts /\ acted \in SUBSET Seats /\ total \in Amounts
      /\ \A s \in Seats : commit[s] \in Nat /\ stack[s] \in Nat
  BY <1>2 DEF Fits, Amounts
<1>4. Live(f) = Live(folded) \ {actor} /\ CanAct(f, stack) = CanAct(folded, stack) \ {actor}
  BY DEF Live, CanAct
<1>5. Fits(f, stack, commit, bet, raise, lv, a, total)
  BY <1>2, <1>3 DEF Fits, Amounts
<1>6. Leveled(f, stack, commit, total)
  BY <1>2, <1>4 DEF Leveled, LevelTo
<1>7. PICK r \in Live(folded) \ {actor} : commit[r] + stack[r] > commit[actor]
  BY <1>1, InPlay
<1>8. r \in Live(f) /\ r \in Seats /\ commit[r] + stack[r] > 0
  BY <1>2, <1>3, <1>4, <1>7 DEF Live
<1>9. ASSUME Met(folded, commit, bet) PROVE Met(f, commit, bet)
  <2>1. PICK x \in Live(folded) : commit[x] = bet
    BY <1>9 DEF Met
  <2>2. x # actor
    BY <1>1, <2>1, <1>2, <1>3
  <2>3. QED
    BY <1>4, <2>1, <2>2 DEF Met
<1>10. ASSUME Unmet(folded, stack, commit, bet, acted, actor)
       PROVE  StillUnmet(f, stack, commit, bet, a, actor)
  <2>1. PICK sb \in Seats, bb \in Seats :
          /\ sb # bb /\ BlindShort(sb, bb, folded, stack, commit, bet, acted)
          /\ \A s \in ToAct(folded, stack, commit, bet, acted) : Steps(bb, actor) <= Steps(bb, s)
    BY <1>10 DEF Unmet, InTurn
  <2>2. /\ bet > 0 /\ bb \in Live(folded) /\ stack[bb] = 0
        /\ \A s \in CanAct(folded, stack) : s \notin acted
        /\ \A s \in Seats \ {sb, bb} : s \in folded \cup CanAct(folded, stack) => commit[s] = 0
        /\ \A s \in Live(folded) \ {bb} : Steps(bb, s) <= Steps(bb, sb)
        /\ sb \in folded => \E s \in Live(folded) : stack[s] = 0 /\ commit[s] > commit[sb]
    BY <2>1 DEF BlindShort
  <2>3. bb # actor /\ actor \in CanAct(folded, stack)
    BY <1>2, <1>3, <2>2 DEF CanAct
  <2>4. ASSUME NEW s \in CanAct(folded, stack),
               \E x \in Live(folded) \ {s} : commit[x] + stack[x] > commit[s]
        PROVE  Steps(bb, actor) <= Steps(bb, s)
    <3>1. s \in ToAct(folded, stack, commit, bet, acted)
      BY <1>3, <2>2, <2>4, ToActIs
    <3>2. QED
      BY <2>1, <3>1
  <2>5. ASSUME sb = actor
        PROVE  \E s \in Live(f) : stack[s] = 0 /\ commit[s] > commit[sb]
    <3>1. CASE stack[r] = 0
      BY <1>3, <1>7, <1>8, <2>5, <3>1
    <3>2. CASE stack[r] # 0
      <4>1. r # bb /\ r # sb /\ r \in CanAct(folded, stack) /\ stack[r] > 0
        BY <1>3, <1>7, <1>8, <2>2, <2>5, <3>2 DEF CanAct
      <4>2. commit[r] = 0
        BY <1>8, <2>2, <4>1
      <4>3. commit[actor] + stack[actor] > commit[r] /\ actor \in Live(folded) \ {r}
        BY <1>2, <1>3, <1>7, <4>2
      <4>4. Steps(bb, sb) <= Steps(bb, r)
        BY <2>4, <2>5, <4>1, <4>3
      <4>5. Steps(bb, r) <= Steps(bb, sb)
        BY <1>7, <2>2, <4>1
      <4>6. Steps(bb, r) # Steps(bb, sb)
        BY <1>8, <4>1, StepsApart
      <4>7. Steps(bb, r) \in Int /\ Steps(bb, sb) \in Int
        BY <1>8, StepsType
      <4>8. QED
        BY <4>4, <4>5, <4>6, <4>7
    <3>3. QED
      BY <3>1, <3>2
  <2>6. BlindShort(sb, bb, f, stack, commit, bet, a)
    <3>1. bet > 0 /\ bb \in Live(f) /\ stack[bb] = 0
      BY <1>4, <2>2, <2>3
    <3>2. \A s \in CanAct(f, stack) : s \notin a
      BY <1>4, <2>2
    <3>3. \A s \in Seats \ {sb, bb} : s \in f \cup CanAct(f, stack) => commit[s] = 0
      BY <1>4, <2>2, <2>3
    <3>4. \A s \in Live(f) \ {bb} : Steps(bb, s) <= Steps(bb, sb)
      BY <1>4, <2>2
    <3>5. sb \in f => \E s \in Live(f) : stack[s] = 0 /\ commit[s] > commit[sb]
      <4>1. ASSUME sb \in folded PROVE \E s \in Live(f) : stack[s] = 0 /\ commit[s] > commit[sb]
        <5>1. PICK x \in Live(folded) : stack[x] = 0 /\ commit[x] > commit[sb]
          BY <2>2, <4>1
        <5>2. x # actor
          BY <1>2, <5>1
        <5>3. QED
          BY <1>4, <5>1, <5>2
      <4>2. QED
        BY <2>5, <4>1
    <3>6. QED
      BY <3>1, <3>2, <3>3, <3>4, <3>5 DEF BlindShort
  <2>7. ASSUME NEW s \in ToAct(f, stack, commit, bet, a) PROVE Steps(bb, actor) < Steps(bb, s)
    <3>1. /\ s \in CanAct(f, stack)
          /\ \E x \in Live(f) \ {s} : commit[x] + stack[x] > commit[s]
      <4>1. f \in SUBSET Seats /\ s \in CanAct(f, stack) /\ Contest(s, f, stack, commit)
        BY <1>2, <1>3, <2>7 DEF ToAct
      <4>2. s \in Seats /\ stack \in Amounts /\ commit \in Amounts
        BY <1>3, <4>1 DEF CanAct, Live
      <4>3. QED
        <5> HIDE DEF f, a, lv
        <5> QED BY <4>1, <4>2, ContestIs
    <3>2. s # actor /\ s \in CanAct(folded, stack) /\ s \in Seats
      BY <1>4, <3>1 DEF CanAct, Live
    <3>3. \E x \in Live(folded) \ {s} : commit[x] + stack[x] > commit[s]
      BY <1>4, <3>1
    <3>4. Steps(bb, actor) <= Steps(bb, s)
      BY <2>4, <3>2, <3>3
    <3>5. Steps(bb, actor) # Steps(bb, s) /\ Steps(bb, actor) \in Int /\ Steps(bb, s) \in Int
      BY <1>2, <3>2, StepsApart, StepsType
    <3>6. QED
      BY <3>4, <3>5
  <2>8. QED
    BY <2>1, <2>6, <2>7 DEF StillUnmet
<1>11. QED
  <2> HIDE DEF f, a, lv
  <2>1. Met(f, commit, bet) \/ StillUnmet(f, stack, commit, bet, a, actor)
    BY <1>2, <1>9, <1>10
  <2>2. QED
    BY <1>1, <1>2, <1>5, <1>6, <1>8, <2>1, AdvanceKeeps

\* Chips that go in: at least the call, or all the player has
LEMMA PutInKeeps ==
  ASSUME IInv, Playing, NEW chips \in Nat, chips <= stack[actor],
         commit[actor] + chips >= bet \/ chips = stack[actor], PutIn(chips)
  PROVE  IInv'
<1> DEFINE c == [commit EXCEPT ![actor] = @ + chips]
           k == [stack EXCEPT ![actor] = @ - chips]
           b == Greater(bet, c[actor])
           r == IF b > bet THEN RaisedTo(b - bet) ELSE raise
           lv == [level EXCEPT ![actor] = b]
           a == acted \cup {actor}
           t == [total EXCEPT ![actor] = @ + chips]
<1>1. total' = t /\ Advance(folded, k, c, b, r, lv, a)
  BY DEF PutIn
<1>2. /\ Fits(folded, stack, commit, bet, raise, level, acted, total)
      /\ RoundOK(game, commit, bet, raise, total) /\ Leveled(folded, stack, commit, total)
      /\ Met(folded, commit, bet) \/ Unmet(folded, stack, commit, bet, acted, actor)
      /\ actor \in Seats /\ actor \in Live(folded) /\ stack[actor] > 0
  BY InPlay
<1>3. /\ folded \in SUBSET Seats /\ stack \in Amounts /\ commit \in Amounts /\ bet \in Nat
      /\ raise \in Nat /\ level \in Amounts /\ acted \in SUBSET Seats /\ total \in Amounts
      /\ \A s \in Seats : commit[s] \in Nat /\ stack[s] \in Nat /\ total[s] \in Nat
      /\ Live(folded) \subseteq Seats
  BY <1>2 DEF Fits, Amounts, Live
<1>4. /\ c \in Amounts /\ k \in Amounts /\ t \in Amounts
      /\ c[actor] = commit[actor] + chips /\ k[actor] = stack[actor] - chips
      /\ t[actor] = total[actor] + chips
      /\ \A s \in Seats \ {actor} : c[s] = commit[s] /\ k[s] = stack[s] /\ t[s] = total[s]
  BY <1>2, <1>3 DEF Amounts
<1>5. b \in Nat /\ b >= bet /\ b >= c[actor] /\ (b = bet \/ b = c[actor])
  <2>1. c[actor] \in Nat
    BY <1>2, <1>3, <1>4
  <2>2. QED
    BY <1>3, <2>1 DEF Greater
<1>6. /\ r \in Nat /\ lv \in Amounts /\ a \in SUBSET Seats
      /\ r = raise \/ (r >= raise /\ r <= b)
  BY <1>2, <1>3, <1>5 DEF RaisedTo, Amounts
<1> HIDE DEF c, k, b, r, lv, a, t
<1>7. Fits(folded, k, c, b, r, lv, a, t)
  BY <1>3, <1>4, <1>5, <1>6 DEF Fits
<1>8. RoundOK(game, c, b, r, t)
  <2>1. /\ \A s \in Seats : commit[s] <= bet /\ commit[s] <= total[s]
        /\ raise >= BigBlind /\ (raise = BigBlind \/ raise <= bet)
        /\ ~game.holdem /\ bet > 0 => \E s \in Seats : commit[s] = bet
    BY <1>2 DEF RoundOK
  <2>2. \A s \in Seats : c[s] <= b /\ c[s] <= t[s]
    <3> SUFFICES ASSUME NEW s \in Seats PROVE c[s] <= b /\ c[s] <= t[s]
      OBVIOUS
    <3>1. CASE s = actor
      BY <1>2, <1>3, <1>4, <1>5, <2>1, <3>1
    <3>2. CASE s # actor
      BY <1>3, <1>4, <1>5, <2>1, <3>2
    <3>3. QED
      BY <3>1, <3>2
  <2>3. r >= BigBlind /\ (r = BigBlind \/ r <= b)
    <3>1. BigBlind \in Nat
      BY StakesAssumption
    <3>2. QED
      BY <1>3, <1>5, <1>6, <2>1, <3>1
  <2>4. ASSUME ~game.holdem, b > 0 PROVE \E s \in Seats : c[s] = b
    <3>1. CASE c[actor] = b
      BY <1>2, <3>1
    <3>2. CASE c[actor] # b
      <4>1. b = bet
        BY <1>5, <3>2
      <4>2. PICK s \in Seats : commit[s] = bet
        BY <2>1, <2>4, <4>1
      <4>3. CASE s = actor
        BY <1>2, <1>3, <1>4, <1>5, <3>2, <4>1, <4>2, <4>3
      <4>4. CASE s # actor
        BY <1>4, <4>1, <4>2, <4>4
      <4>5. QED
        BY <4>3, <4>4
    <3>3. QED
      BY <3>1, <3>2
  <2>5. QED
    BY <2>2, <2>3, <2>4 DEF RoundOK
<1>9. \A s \in Seats : c[s] + k[s] = commit[s] + stack[s] /\ t[s] - c[s] = total[s] - commit[s]
  <2> SUFFICES ASSUME NEW s \in Seats
               PROVE  c[s] + k[s] = commit[s] + stack[s] /\ t[s] - c[s] = total[s] - commit[s]
    OBVIOUS
  <2>1. CASE s = actor
    BY <1>3, <1>4, <2>1
  <2>2. CASE s # actor
    BY <1>4, <2>2
  <2>3. QED
    BY <2>1, <2>2
<1>10. Leveled(folded, k, c, t)
  <2>1. PICK n \in Nat : LevelTo(n, folded, stack, commit, total)
    BY <1>2 DEF Leveled
  <2>2. LevelTo(n, folded, k, c, t)
    BY <1>3, <1>9, <2>1 DEF LevelTo
  <2>3. QED
    BY <2>2 DEF Leveled
<1>11. c[actor] + k[actor] > 0
  BY <1>2, <1>3, <1>9
<1>12. ASSUME c[actor] >= bet PROVE Met(folded, c, b)
  <2>1. c[actor] \in Nat
    BY <1>2, <1>3, <1>4
  <2>2. c[actor] = b
    BY <1>3, <1>5, <1>12, <2>1
  <2>3. QED
    BY <1>2, <2>2 DEF Met
<1>13. ASSUME ~(c[actor] >= bet), Met(folded, commit, bet) PROVE Met(folded, c, b)
  <2>1. PICK x \in Live(folded) : commit[x] = bet
    BY <1>13 DEF Met
  <2>2. x # actor /\ b = bet
    BY <1>2, <1>3, <1>4, <1>5, <1>13, <2>1
  <2>3. c[x] = b
    BY <1>3, <1>4, <2>1, <2>2
  <2>4. QED
    BY <2>3 DEF Met
<1>14. ASSUME ~(c[actor] >= bet), Unmet(folded, stack, commit, bet, acted, actor)
       PROVE  StillUnmet(folded, k, c, b, a, actor)
  <2>1. PICK sb \in Seats, bb \in Seats :
          /\ sb # bb /\ BlindShort(sb, bb, folded, stack, commit, bet, acted)
          /\ \A s \in ToAct(folded, stack, commit, bet, acted) : Steps(bb, actor) <= Steps(bb, s)
    BY <1>14 DEF Unmet, InTurn
  <2>2. /\ bet > 0 /\ bb \in Live(folded) /\ stack[bb] = 0
        /\ \A s \in CanAct(folded, stack) : s \notin acted
        /\ \A s \in Seats \ {sb, bb} : s \in folded \cup CanAct(folded, stack) => commit[s] = 0
        /\ \A s \in Live(folded) \ {bb} : Steps(bb, s) <= Steps(bb, sb)
        /\ sb \in folded => \E s \in Live(folded) : stack[s] = 0 /\ commit[s] > commit[sb]
    BY <2>1 DEF BlindShort
  <2>3. b = bet /\ k[actor] = 0
    BY <1>2, <1>3, <1>4, <1>5, <1>14
  <2>4. bb # actor /\ actor \notin folded
    BY <1>2, <2>2 DEF Live
  <2>5. CanAct(folded, k) = CanAct(folded, stack) \ {actor}
    <3>1. \A s \in CanAct(folded, k) : s \in CanAct(folded, stack) \ {actor}
      BY <1>3, <1>4, <2>3 DEF CanAct
    <3>2. \A s \in CanAct(folded, stack) \ {actor} : s \in CanAct(folded, k)
      BY <1>3, <1>4 DEF CanAct
    <3>3. QED
      BY <3>1, <3>2
  <2>6. BlindShort(sb, bb, folded, k, c, b, a)
    <3>1. b > 0 /\ bb \in Live(folded) /\ k[bb] = 0
      BY <1>4, <2>2, <2>3, <2>4
    <3>2. \A s \in CanAct(folded, k) : s \notin a
      BY <2>2, <2>5 DEF a
    <3>3. \A s \in Seats \ {sb, bb} : s \in folded \cup CanAct(folded, k) => c[s] = 0
      BY <1>4, <2>2, <2>4, <2>5
    <3>4. sb \in folded => \E s \in Live(folded) : k[s] = 0 /\ c[s] > c[sb]
      <4>1. SUFFICES ASSUME sb \in folded PROVE \E s \in Live(folded) : k[s] = 0 /\ c[s] > c[sb]
        OBVIOUS
      <4>2. PICK x \in Live(folded) : stack[x] = 0 /\ commit[x] > commit[sb]
        BY <2>2, <4>1
      <4>3. x # actor /\ sb # actor
        BY <1>2, <1>3, <2>4, <4>1, <4>2
      <4>4. k[x] = 0 /\ c[x] > c[sb]
        BY <1>3, <1>4, <4>2, <4>3
      <4>5. QED
        BY <4>4
    <3>5. QED
      BY <2>2, <3>1, <3>2, <3>3, <3>4 DEF BlindShort
  <2>7. ASSUME NEW s \in ToAct(folded, k, c, b, a) PROVE Steps(bb, actor) < Steps(bb, s)
    <3>1. s \in CanAct(folded, k) /\ Contest(s, folded, k, c)
      BY <2>7 DEF ToAct
    <3>2. s # actor /\ s \in CanAct(folded, stack) /\ s \in Seats
      BY <2>5, <3>1, <1>3 DEF CanAct, Live
    <3>3. \E x \in Live(folded) \ {s} : c[x] + k[x] > c[s]
      BY <1>3, <1>4, <3>1, <3>2, ContestIs
    <3>4. \E x \in Live(folded) \ {s} : commit[x] + stack[x] > commit[s]
      <4>1. PICK x \in Live(folded) \ {s} : c[x] + k[x] > c[s]
        BY <3>3
      <4>2. x \in Seats /\ c[x] + k[x] = commit[x] + stack[x] /\ c[s] = commit[s]
        BY <1>3, <1>4, <1>9, <3>2
      <4>3. QED
        BY <4>1, <4>2
    <3>5. Contest(s, folded, stack, commit)
      BY <1>3, <3>2, <3>4, ContestIs
    <3>6. s \in ToAct(folded, stack, commit, bet, acted)
      BY <2>2, <3>2, <3>5 DEF ToAct
    <3>7. Steps(bb, actor) <= Steps(bb, s)
      BY <2>1, <3>6
    <3>8. Steps(bb, actor) # Steps(bb, s) /\ Steps(bb, actor) \in Int /\ Steps(bb, s) \in Int
      BY <1>2, <3>2, StepsApart, StepsType
    <3>9. QED
      BY <3>7, <3>8
  <2>8. QED
    BY <2>1, <2>6, <2>7 DEF StillUnmet
<1>15. Met(folded, c, b) \/ StillUnmet(folded, k, c, b, a, actor)
  BY <1>2, <1>12, <1>13, <1>14
<1>16. QED
  BY <1>1, <1>2, <1>7, <1>8, <1>10, <1>11, <1>15, AdvanceKeeps

-----------------------------------------------------------------------------
(* The moves offered, as numbers                                             *)

\* MinTotal and MaxTotal, as they come out
MostOK(top) ==
  \/ game.holdem = TRUE /\ game.reach = FALSE /\ ActorReach > bet /\ top = commit[actor] + stack[actor]
  \/ game.holdem = TRUE /\ (game.reach = TRUE \/ ~(ActorReach > bet)) /\ top = ActorReach
  \/ game.holdem = FALSE /\ game.reach = FALSE /\ ActorReach > bet /\ top = bet + Pot + ToCall
  \/ /\ game.holdem = FALSE /\ (game.reach = TRUE \/ ~(ActorReach > bet))
     /\ top = Lesser(bet + Pot + ToCall, ActorReach)

LEMMA Bounds ==
  ASSUME IInv, Playing
  PROVE  /\ ActorReach \in Nat /\ Pot \in Nat /\ \A s \in Seats : total[s] <= Pot
         /\ ToCall \in Nat /\ ToCall <= stack[actor]
         /\ commit[actor] + ToCall >= bet \/ ToCall = stack[actor]
         /\ ToCall = 0 \/ commit[actor] + ToCall <= bet
         /\ MinTotal \in Nat /\ MinTotal >= bet + BigBlind /\ MinTotal >= bet + raise
         /\ MinTotal = bet + BigBlind \/ (MinTotal = bet + raise /\ raise <= bet)
         /\ MaxTotal \in Nat /\ MostOK(MaxTotal)
<1>1. /\ Fits(folded, stack, commit, bet, raise, level, acted, total)
      /\ RoundOK(game, commit, bet, raise, total) /\ actor \in Seats
      /\ commit[actor] \in Nat /\ stack[actor] \in Nat
  BY InPlay
<1>2. /\ folded \in SUBSET Seats /\ stack \in Amounts /\ commit \in Amounts /\ bet \in Nat
      /\ raise \in Nat /\ total \in Amounts
  BY <1>1 DEF Fits
<1>3. ActorReach \in Nat
  BY <1>1, <1>2, ReachIs DEF ActorReach
<1>4. Pot \in Nat /\ \A s \in Seats : total[s] <= Pot
  <2>1. IsFiniteSet(Seats) /\ total \in [Seats -> Nat]
    BY <1>2, SeatsFinite DEF Amounts
  <2>2. QED
    BY <2>1, TotalNat DEF Pot
<1>5. /\ ToCall \in Nat /\ ToCall <= stack[actor]
      /\ commit[actor] + ToCall >= bet \/ ToCall = stack[actor]
      /\ ToCall = 0 \/ commit[actor] + ToCall <= bet
  BY <1>1, <1>2 DEF ToCall, Lesser, Over0
<1>6. /\ MinTotal \in Nat /\ MinTotal >= bet + BigBlind /\ MinTotal >= bet + raise
      /\ MinTotal = bet + BigBlind \/ (MinTotal = bet + raise /\ raise <= bet)
  <2>1. BigBlind \in Nat /\ raise >= BigBlind /\ (raise = BigBlind \/ raise <= bet)
    BY <1>1, StakesAssumption DEF RoundOK
  <2>2. CASE bet = 0
    BY <1>2, <2>1, <2>2 DEF MinTotal
  <2>3. CASE bet # 0
    BY <1>2, <2>1, <2>3 DEF MinTotal
  <2>4. QED
    BY <2>2, <2>3
<1>7. MostOK(MaxTotal)
  <2>1. /\ game.holdem = TRUE \/ game.holdem = FALSE
        /\ game.reach = TRUE \/ game.reach = FALSE
    BY DEF IInv, TypeOK, GameKinds
  <2> DEFINE potTotal == bet + Pot + ToCall
             over == ActorReach > bet
             shove == commit[actor] + stack[actor]
  <2>2. over \/ ~over
    OBVIOUS
  <2>3. MaxTotal = IF game.holdem
                   THEN IF ~game.reach /\ over THEN shove ELSE ActorReach
                   ELSE IF ~game.reach /\ over THEN potTotal ELSE Lesser(potTotal, ActorReach)
    BY DEF MaxTotal
  <2>4. MostOK(MaxTotal) <=>
          \/ game.holdem = TRUE /\ game.reach = FALSE /\ over /\ MaxTotal = shove
          \/ game.holdem = TRUE /\ (game.reach = TRUE \/ ~over) /\ MaxTotal = ActorReach
          \/ game.holdem = FALSE /\ game.reach = FALSE /\ over /\ MaxTotal = potTotal
          \/ /\ game.holdem = FALSE /\ (game.reach = TRUE \/ ~over)
             /\ MaxTotal = Lesser(potTotal, ActorReach)
    BY DEF MostOK
  <2> HIDE DEF potTotal, over, shove
  <2>5. QED
    BY <2>1, <2>2, <2>3, <2>4, Zenon
<1>8. MaxTotal \in Nat
  BY <1>1, <1>2, <1>3, <1>4, <1>5, <1>7 DEF MostOK, Lesser
<1>9. QED
  BY <1>3, <1>4, <1>5, <1>6, <1>7, <1>8

\* A size is a full raise, and the player has it
LEMMA RaiseBounds ==
  ASSUME IInv, Playing
  PROVE  /\ MinRaise \in Nat
         /\ MinRaise > 0 => MinRaise <= stack[actor] /\ commit[actor] + MinRaise > bet
         /\ MaxRaise \in Nat /\ MaxRaise <= stack[actor]
         /\ MaxRaise > 0 => commit[actor] + MaxRaise <= MaxTotal
<1>1. /\ ActorReach \in Nat /\ MinTotal \in Nat /\ MinTotal >= bet + BigBlind /\ MaxTotal \in Nat
      /\ commit[actor] \in Nat /\ stack[actor] \in Nat /\ bet \in Nat
      /\ BigBlind \in Nat /\ BigBlind > 0
  <2>1. bet \in Nat
    BY InPlay DEF Fits
  <2>2. commit[actor] \in Nat /\ stack[actor] \in Nat
    BY InPlay
  <2>3. QED
    BY <2>1, <2>2, Bounds, StakesAssumption
<1>2. /\ MinRaise \in Nat
      /\ MinRaise > 0 => MinRaise <= stack[actor] /\ commit[actor] + MinRaise > bet
  <2> DEFINE delta == MinTotal - commit[actor]
             cover == Over0(ActorReach, commit[actor])
             least == IF game.reach THEN Lesser(delta, cover) ELSE delta
  <2>1. MinRaise = IF Lockout \/ delta <= 0 \/ ActorReach <= bet \/ least > stack[actor]
                   THEN 0 ELSE least
    BY DEF MinRaise
  <2>2. least = delta \/ least = Lesser(delta, cover)
    OBVIOUS
  <2>3. least = delta \/ (least = cover /\ cover <= delta)
    BY <1>1, <2>2 DEF Lesser, Over0
  <2> HIDE DEF least
  <2>4. CASE Lockout \/ delta <= 0 \/ ActorReach <= bet \/ least > stack[actor]
    BY <2>1, <2>4
  <2>5. CASE ~(Lockout \/ delta <= 0 \/ ActorReach <= bet \/ least > stack[actor])
    <3>1. MinRaise = least /\ delta > 0 /\ ActorReach > bet /\ ~(least > stack[actor])
      BY <1>1, <2>1, <2>5
    <3>2. CASE least = delta
      BY <1>1, <3>1, <3>2
    <3>3. CASE least = cover
      BY <1>1, <3>1, <3>3 DEF Over0
    <3>4. QED
      BY <2>3, <3>2, <3>3
  <2>6. QED
    BY <2>4, <2>5
<1>3. /\ MaxRaise \in Nat /\ MaxRaise <= stack[actor]
      /\ MaxRaise > 0 => commit[actor] + MaxRaise <= MaxTotal
  <2> DEFINE cap == Lesser(MaxTotal, commit[actor] + stack[actor])
  <2>1. cap \in Nat /\ cap <= MaxTotal /\ cap <= commit[actor] + stack[actor]
    BY <1>1 DEF Lesser
  <2>2. MaxRaise = IF Lockout \/ cap <= Greater(commit[actor], bet) THEN 0 ELSE cap - commit[actor]
    BY DEF MaxRaise
  <2> HIDE DEF cap
  <2>3. CASE Lockout \/ cap <= Greater(commit[actor], bet)
    BY <1>1, <2>2, <2>3
  <2>4. CASE ~(Lockout \/ cap <= Greater(commit[actor], bet))
    <3>1. MaxRaise = cap - commit[actor] /\ cap > commit[actor]
      BY <1>1, <2>1, <2>2, <2>4 DEF Greater
    <3>2. QED
      BY <1>1, <2>1, <3>1
  <2>5. QED
    BY <2>3, <2>4
<1>4. QED
  BY <1>2, <1>3

\* What goes in: the call, a bet as large as the bet to call, or everything
Puts(chips) ==
  /\ Playing /\ PutIn(chips) /\ chips \in Nat /\ chips <= stack[actor]
  /\ commit[actor] + chips >= bet \/ chips = stack[actor]

LEMMA CallPuts ==
  ASSUME IInv, CheckCall
  PROVE  Puts(ToCall)
BY Bounds DEF CheckCall, Puts

LEMMA AllInPuts ==
  ASSUME IInv, AllIn
  PROVE  Puts(stack[actor])
<1>1. Playing /\ PutIn(stack[actor])
  BY DEF AllIn
<1>2. stack[actor] \in Nat
  BY <1>1, InPlay
<1>3. QED
  BY <1>1, <1>2 DEF Puts

\* A size is at least a full raise
LEMMA SizedPuts ==
  ASSUME IInv, NEW f \in Fractions, Sized(f)
  PROVE  Puts(SizingChips(f)) /\ commit[actor] + SizingChips(f) >= MinTotal
<1> DEFINE base == IF bet = 0 THEN Pot ELSE Pot + Over0(bet, commit[actor])
           over == (base * f[1]) \div f[2]
           target == Lesser(Greater(bet + over, MinTotal), MaxTotal)
<1>1. Playing /\ PutIn(SizingChips(f)) /\ commit[actor] + SizingChips(f) >= MinTotal
  BY DEF Sized, SizingLegal
<1>2. /\ MinTotal \in Nat /\ MinTotal >= bet + BigBlind /\ MaxTotal \in Nat /\ Pot \in Nat
      /\ commit[actor] \in Nat /\ stack[actor] \in Nat /\ bet \in Nat /\ BigBlind \in Nat
  BY <1>1, Bounds, InPlay, StakesAssumption DEF Fits
<1>3. f[1] \in Nat /\ f[2] \in Nat \ {0}
  BY FractionsAssumption
<1>4. over \in Int
  <2>1. base \in Int
    BY <1>2 DEF Over0
  <2> HIDE DEF base
  <2>2. base * f[1] \in Int
    BY <1>3, <2>1
  <2>3. QED
    BY <1>3, <2>2, DivMod
<1>5. SizingChips(f) = Lesser(Over0(target, commit[actor]), stack[actor])
  BY DEF SizingChips
<1> HIDE DEF over
<1>6. target \in Int
  BY <1>2, <1>4 DEF Lesser, Greater
<1> HIDE DEF target
<1>7. SizingChips(f) \in Nat /\ SizingChips(f) <= stack[actor]
  BY <1>2, <1>5, <1>6 DEF Lesser, Over0
<1>8. commit[actor] + SizingChips(f) >= bet
  BY <1>1, <1>2, <1>7
<1>9. QED
  BY <1>1, <1>7, <1>8 DEF Puts

\* A raise by an amount, or the shove if it would leave dust
LEMMA RaisePuts ==
  ASSUME IInv, NEW n \in Int, RaiseBy(n)
  PROVE  \E chips \in {n, stack[actor]} :
           Puts(chips) /\ n \in MinRaise .. MaxRaise /\ MinRaise > 0
<1> DEFINE chips == IF stack[actor] - n <= DustChips /\ stack[actor] <= MaxRaise
                    THEN stack[actor] ELSE n
<1>1. Playing /\ PutIn(chips) /\ MinRaise > 0 /\ n \in MinRaise .. MaxRaise
  BY DEF RaiseBy
<1>2. /\ MinRaise \in Nat /\ MaxRaise \in Nat /\ MaxRaise <= stack[actor]
      /\ commit[actor] + MinRaise > bet
      /\ stack[actor] \in Nat /\ commit[actor] \in Nat /\ bet \in Nat
  BY <1>1, RaiseBounds, InPlay DEF Fits
<1>3. n \in Nat /\ n <= stack[actor] /\ commit[actor] + n >= bet
  BY <1>1, <1>2
<1>4. chips = n \/ chips = stack[actor]
  OBVIOUS
<1> HIDE DEF chips
<1>5. Puts(chips)
  BY <1>1, <1>2, <1>3, <1>4 DEF Puts
<1>6. QED
  BY <1>1, <1>4, <1>5

LEMMA PutsKeeps ==
  ASSUME IInv, NEW chips, Puts(chips)
  PROVE  IInv'
BY PutInKeeps DEF Puts

-----------------------------------------------------------------------------
(* The deal                                                                  *)

\* Both blinds are dealt in, and from the big blind the small blind is the last seat round
LEMMA BlindsApart ==
  ASSUME NEW btn \in Seats, NEW in \in SUBSET Seats, Cardinality(in) >= 2
  PROVE  LET seat == BlindSeats(btn, in)
         IN  /\ seat.sb \in in /\ seat.bb \in in /\ seat.sb # seat.bb
             /\ \A s \in in \ {seat.bb} : Steps(seat.bb, s) <= Steps(seat.bb, seat.sb)
<1> DEFINE first == FirstFrom(btn, in)
           rest == in \ {first}
           second == FirstFrom(first, rest)
<1>1. IsFiniteSet(in)
  BY SeatsFinite, FS_Subset
<1>2. PICK x \in in, y \in in : x # y
  BY <1>1, TwoMembers
<1>3. first \in in /\ \A r \in in : Steps(btn, first) <= Steps(btn, r)
  BY <1>2, FirstFromIs
<1>4. rest \in SUBSET Seats /\ rest # {} /\ first \in Seats
  BY <1>2, <1>3
<1> HIDE DEF first
<1>5. second \in rest /\ \A r \in rest : Steps(first, second) <= Steps(first, r)
  <2> HIDE DEF rest
  <2> QED BY <1>4, FirstFromIs
<1>6. second \in in /\ second # first /\ second \in Seats
  BY <1>5
<1> HIDE DEF second
<1>7. CASE Cardinality(in) = 2
  <2>1. BlindSeats(btn, in) = [sb |-> second, bb |-> first]
    BY <1>7 DEF BlindSeats, first, second
  <2>2. \A s \in in : s = first \/ s = second
    <3>1. SUFFICES ASSUME NEW s \in in, s # first, s # second PROVE FALSE
      OBVIOUS
    <3>2. IsFiniteSet(rest) /\ Cardinality(rest) = 1
      BY <1>1, <1>3, <1>7, FS_RemoveElement
    <3>3. s \in rest /\ second \in rest
      BY <1>5, <3>1
    <3>4. PICK z : rest = {z}
      BY <3>2, FS_Singleton
    <3>5. QED
      BY <3>1, <3>3, <3>4
  <2>3. \A s \in in \ {first} : Steps(first, s) <= Steps(first, second)
    <3>1. Steps(first, second) \in Int
      BY <1>4, <1>6, StepsType
    <3>2. QED
      BY <2>2, <3>1
  <2>4. QED
    BY <1>3, <1>6, <2>1, <2>3
<1>8. CASE Cardinality(in) # 2
  <2>1. BlindSeats(btn, in) = [sb |-> first, bb |-> second]
    BY <1>8 DEF BlindSeats, first, second
  <2>2. ASSUME NEW s \in in \ {second} PROVE Steps(second, s) <= Steps(second, first)
    <3>1. CASE s = first
      <4>1. Steps(second, first) \in Int
        BY <1>4, <1>6, StepsType
      <4>2. QED
        BY <3>1, <4>1
    <3>2. CASE s # first
      <4>1. s \in rest /\ s \in Seats
        BY <2>2, <3>2
      <4>2. Steps(first, second) <= Steps(first, s)
        BY <1>5, <4>1
      <4>3. Steps(first, second) # Steps(first, s)
        BY <1>4, <1>6, <2>2, <4>1, StepsApart
      <4>4. Steps(first, second) \in Int /\ Steps(first, s) \in Int
        BY <1>4, <1>6, <4>1, StepsType
      <4>5. Steps(first, second) < Steps(first, s)
        BY <4>2, <4>3, <4>4
      <4>6. Steps(second, s) < Steps(second, first)
        BY <1>4, <1>6, <3>2, <4>1, <4>5, StepsRound
      <4>7. Steps(second, s) \in Int /\ Steps(second, first) \in Int
        BY <1>4, <1>6, <4>1, StepsType
      <4>8. QED
        BY <4>6, <4>7
    <3>3. QED
      BY <3>1, <3>2
  <2>3. QED
    BY <1>3, <1>6, <2>1, <2>2
<1>9. QED
  BY <1>7, <1>8

\* A hand is dealt: nobody has put in more than an ante before the blinds, and the blinds
\* are at most the bet, which somebody has put in unless the big blind is all in for less
LEMMA DealKeeps ==
  ASSUME NEW g \in Games, NEW btn \in Seats, NEW in \in SUBSET Seats, Cardinality(in) >= 2,
         NEW start \in [in -> StackChoices], Deal(g, btn, in, start)
  PROVE  IInv'
<1> DEFINE anted == [s \in Seats |-> IF s \in in THEN Lesser(start[s], Ante) ELSE 0]
           left  == [s \in Seats |-> IF s \in in THEN start[s] - anted[s] ELSE 0]
           seat  == BlindSeats(btn, in)
           blind == [s \in Seats |-> IF ~g.holdem THEN 0
                                     ELSE IF s = seat.sb THEN Lesser(left[s], SmallBlind)
                                     ELSE IF s = seat.bb THEN Lesser(left[s], BigBlind) ELSE 0]
           f     == Seats \ in
           k     == [s \in Seats |-> left[s] - blind[s]]
           b     == IF g.holdem THEN BigBlind ELSE 0
           st    == IF g.holdem THEN 0 ELSE 1
           t     == [s \in Seats |-> anted[s] + blind[s]]
           able  == {s \in CanAct(f, k) : Contest(s, f, k, blind)}
           p     == IF g.holdem THEN seat.bb ELSE btn
<1>1. /\ game' = g /\ button' = btn /\ folded' = f /\ stack' = k /\ total' = t
      /\ \/ /\ able # {} /\ KeepStreet(blind, b, BigBlind, Zero, {})
            /\ actor' = FirstFrom(p, able)
            /\ street' = st /\ ending' = "" /\ awaiting' = Nobody
         \/ able = {} /\ CloseRound(st, f, k, blind, b, BigBlind, Zero, {})
  BY DEF Deal
<1>2. /\ Ante \in Nat /\ SmallBlind \in Nat /\ BigBlind \in Nat /\ BigBlind > 0
      /\ SmallBlind <= BigBlind /\ \A s \in in : start[s] \in Nat
  <2>1. \A s \in in : start[s] \in StackChoices
    OBVIOUS
  <2>2. StackChoices \subseteq Nat
    BY StakesAssumption
  <2>3. \A s \in in : start[s] \in Nat
    BY <2>1, <2>2
  <2>4. /\ Ante \in Nat /\ SmallBlind \in Nat /\ BigBlind \in Nat /\ BigBlind > 0
        /\ SmallBlind <= BigBlind
    BY StakesAssumption
  <2>5. QED
    BY <2>3, <2>4
<1>3. /\ seat.sb \in in /\ seat.bb \in in /\ seat.sb # seat.bb
      /\ \A s \in in \ {seat.bb} : Steps(seat.bb, s) <= Steps(seat.bb, seat.sb)
  BY BlindsApart
<1>4. g \in GameKinds /\ (g.holdem = TRUE \/ g.holdem = FALSE)
  BY GamesAssumption DEF GameKinds
<1> HIDE DEF seat
<1>5. \A s \in Seats : anted[s] \in Nat /\ left[s] \in Nat /\ (left[s] > 0 => anted[s] = Ante)
                       /\ anted[s] <= Ante /\ (s \notin in => anted[s] = 0 /\ left[s] = 0)
  BY <1>2 DEF Lesser
<1> HIDE DEF anted, left
<1>6. /\ g.holdem = FALSE => b = 0 /\ st = 1 /\ p = btn /\ \A s \in Seats : blind[s] = 0
      /\ g.holdem = TRUE =>
           /\ b = BigBlind /\ st = 0 /\ p = seat.bb
           /\ \A s \in Seats : blind[s] = IF s = seat.sb THEN Lesser(left[s], SmallBlind)
                                         ELSE IF s = seat.bb THEN Lesser(left[s], BigBlind) ELSE 0
  OBVIOUS
<1> HIDE DEF blind, b, st, p
<1>7. /\ \A s \in Seats : blind[s] \in Nat /\ blind[s] <= left[s] /\ blind[s] <= b
      /\ b \in Nat /\ p \in Seats /\ st \in 0 .. River /\ BigBlind >= b
  <2>1. CASE g.holdem = FALSE
    BY <1>2, <1>5, <1>6, <2>1 DEF River
  <2>2. CASE g.holdem = TRUE
    BY <1>2, <1>3, <1>5, <1>6, <2>2 DEF Lesser, River
  <2>3. QED
    BY <1>4, <2>1, <2>2
<1>8. blind \in Amounts
  <2>1. blind = [s \in Seats |-> blind[s]]
    BY DEF blind
  <2>2. QED
    BY <1>7, <2>1 DEF Amounts
<1>9. \A s \in Seats : /\ k[s] = left[s] - blind[s] /\ k[s] \in Nat
                       /\ t[s] = anted[s] + blind[s] /\ t[s] \in Nat
  BY <1>5, <1>7
<1>10. k \in Amounts /\ t \in Amounts /\ f \in SUBSET Seats /\ Live(f) = in
  BY <1>9 DEF Amounts, Live
<1>11. Fits(f, k, blind, b, BigBlind, Zero, {}, t)
  BY <1>2, <1>7, <1>8, <1>10 DEF Fits, Zero, Amounts
<1> HIDE DEF k, t
<1>12. RoundOK(g, blind, b, BigBlind, t)
  <2>1. \A s \in Seats : blind[s] <= b /\ blind[s] <= t[s]
    BY <1>5, <1>7, <1>9
  <2>2. ~g.holdem /\ b > 0 => FALSE
    BY <1>4, <1>6
  <2>3. BigBlind >= BigBlind
    BY <1>2
  <2>4. QED
    BY <2>1, <2>2, <2>3 DEF RoundOK
<1>13. Leveled(f, k, blind, t)
  <2>1. \A s \in Seats : t[s] - blind[s] <= Ante
    BY <1>2, <1>5, <1>7, <1>9
  <2>2. ASSUME NEW s \in Live(f), blind[s] + k[s] > 0 PROVE t[s] - blind[s] = Ante
    <3>1. s \in Seats
      BY <1>10
    <3>2. left[s] > 0
      BY <1>5, <1>7, <1>9, <2>2, <3>1
    <3>3. QED
      BY <1>2, <1>5, <1>7, <1>9, <3>1, <3>2
  <2>3. QED
    BY <1>2, <2>1, <2>2 DEF Leveled, LevelTo
<1>14. Top(f, t)
  <2>1. PICK m \in in : TRUE
    BY <1>3
  <2>2. ASSUME NEW s \in f PROVE t[s] <= t[m]
    <3>1. s \in Seats /\ s \notin in /\ m \in Seats
      OBVIOUS
    <3>2. blind[s] = 0 /\ anted[s] = 0
      BY <1>5, <1>7, <3>1
    <3>3. QED
      BY <1>9, <3>1, <3>2
  <2>3. QED
    BY <1>10, <2>1, <2>2 DEF Top
<1>15. able = ToAct(f, k, blind, b, {}) /\ able \in SUBSET Seats
  <2>1. able = ToAct(f, k, blind, b, {})
    BY DEF ToAct
  <2>2. QED
    BY <1>10, <2>1, CanActIs
<1> HIDE DEF f, able
<1>16. CASE able = {} /\ CloseRound(st, f, k, blind, b, BigBlind, Zero, {})
  <2>1. Becomes4(f, k, t) /\ GameKept
    BY <1>1, <1>4 DEF Becomes4, GameKept
  <2>2. RoundOK(game', blind, b, BigBlind, t)
    BY <1>1, <1>12
  <2>3. ToAct(f, k, blind, b, {}) = {}
    BY <1>15, <1>16
  <2>4. QED
    BY <1>7, <1>11, <1>13, <1>14, <1>16, <2>1, <2>2, <2>3, CloseKeeps
<1>17. CASE /\ able # {} /\ KeepStreet(blind, b, BigBlind, Zero, {})
            /\ actor' = FirstFrom(p, able)
            /\ street' = st /\ ending' = "" /\ awaiting' = Nobody
  <2>1. /\ commit' = blind /\ bet' = b /\ raise' = BigBlind /\ level' = Zero /\ acted' = {}
        /\ game' = g /\ button' = btn /\ folded' = f /\ stack' = k /\ total' = t
        /\ street' = st /\ ending' = "" /\ awaiting' = Nobody
    BY <1>1, <1>17 DEF KeepStreet
  <2> DEFINE q == FirstFrom(p, able)
  <2>2. q \in able /\ \A s \in able : Steps(p, q) <= Steps(p, s)
    BY <1>7, <1>15, <1>17, FirstFromIs
  <2>3. actor' = q
    BY <1>17
  <2> HIDE DEF q
  <2>4. q \in CanAct(f, k)
    BY <1>15, <2>2 DEF ToAct
  <2>5. TypeOK'
    <3>1. /\ folded' \subseteq Seats /\ stack' \in [Seats -> Nat] /\ commit' \in [Seats -> Nat]
          /\ bet' \in Nat /\ raise' \in Nat /\ level' \in [Seats -> Nat] /\ acted' \subseteq Seats
          /\ total' \in [Seats -> Nat]
      BY <1>11, <2>1 DEF Fits, Amounts
    <3>2. street' \in 0 .. Over
      BY <1>7, <2>1, Streets
    <3>3. actor' \in {Nobody} \cup CanAct(folded', stack')
      BY <2>1, <2>3, <2>4
    <3>4. QED
      BY <1>4, <2>1, <3>1, <3>2, <3>3 DEF TypeOK
  <2>6. PhaseOK'
    <3>1. actor' \in ToAct(folded', stack', commit', bet', acted')
      BY <1>15, <2>1, <2>2, <2>3
    <3>2. street' # Over
      BY <1>7, <2>1, Streets
    <3>3. QED
      BY <2>1, <3>1, <3>2 DEF PhaseOK
  <2>7. Met(f, blind, b) \/ Unmet(f, k, blind, b, {}, q)
    <3>1. seat.bb \in Live(f) /\ seat.bb \in Seats /\ seat.sb \in Seats
      BY <1>3, <1>10
    <3>2. CASE g.holdem = FALSE
      <4>1. blind[seat.bb] = b
        BY <1>6, <3>1, <3>2
      <4>2. QED
        BY <3>1, <4>1 DEF Met
    <3>3. CASE g.holdem = TRUE /\ left[seat.bb] >= BigBlind
      <4>1. blind[seat.bb] = b
        BY <1>2, <1>3, <1>5, <1>6, <3>1, <3>3 DEF Lesser
      <4>2. QED
        BY <3>1, <4>1 DEF Met
    <3>4. CASE g.holdem = TRUE /\ ~(left[seat.bb] >= BigBlind)
      <4>1. /\ b = BigBlind /\ p = seat.bb /\ blind[seat.bb] = left[seat.bb]
            /\ \A s \in Seats \ {seat.sb, seat.bb} : blind[s] = 0
        BY <1>2, <1>3, <1>5, <1>6, <3>1, <3>4 DEF Lesser
      <4>2. k[seat.bb] = 0
        BY <1>5, <1>9, <3>1, <4>1
      <4>3. seat.sb \notin f
        BY <1>3 DEF f
      <4>4. BlindShort(seat.sb, seat.bb, f, k, blind, b, {})
        BY <1>2, <1>3, <1>10, <3>1, <4>1, <4>2, <4>3 DEF BlindShort
      <4>5. InTurn(seat.bb, f, k, blind, b, {}, q)
        BY <1>15, <2>2, <4>1 DEF InTurn
      <4>6. QED
        BY <1>3, <3>1, <4>4, <4>5 DEF Unmet
    <3>5. QED
      BY <1>4, <3>2, <3>3, <3>4
  <2>8. BetOK'
    <3>1. Leveled(folded', stack', commit', total')
      BY <1>13, <2>1
    <3>2. Met(folded', commit', bet') \/ Unmet(folded', stack', commit', bet', acted', actor')
      BY <2>1, <2>3, <2>7
    <3>3. QED
      BY <3>1, <3>2 DEF BetOK
  <2>9. TopOK'
    BY <2>1 DEF TopOK
  <2>10. RoundOK(game', commit', bet', raise', total')
    BY <1>12, <2>1
  <2>11. QED
    BY <2>5, <2>6, <2>8, <2>9, <2>10 DEF IInv
<1>18. QED
  BY <1>1, <1>16, <1>17

-----------------------------------------------------------------------------
(* The invariant holds                                                       *)

LEMMA InitHolds == Init => IInv
<1> SUFFICES ASSUME Init PROVE IInv
  OBVIOUS
<1>1. /\ street = Over /\ ending = "" /\ stack = Zero /\ total = Zero /\ folded = {}
      /\ commit = Zero /\ bet = 0 /\ raise = BigBlind /\ level = Zero /\ acted = {}
      /\ actor = Nobody /\ awaiting = Nobody /\ button = 0
  BY DEF Init
<1>2. game \in GameKinds
  BY GamesAssumption DEF Init
<1>3. Zero \in [Seats -> Nat] /\ BigBlind \in Nat /\ 0 \in Seats
  BY StakesAssumption, SeatsFinite DEF Zero
<1>4. street \in 0 .. Over
  <2>1. Over \in 0 .. Over
    BY DEF Over
  <2>2. QED
    BY <1>1, <2>1
<1>5. TypeOK
  BY <1>1, <1>2, <1>3, <1>4 DEF TypeOK
<1>6. RoundOK(game, commit, bet, raise, total)
  <2>1. \A s \in Seats : Zero[s] = 0
    BY DEF Zero
  <2>2. /\ \A s \in Seats : Zero[s] <= 0 /\ Zero[s] <= Zero[s]
        /\ BigBlind >= BigBlind /\ ~(0 > 0)
    BY <1>3, <2>1
  <2>3. RoundOK(game, Zero, 0, BigBlind, Zero)
    BY <2>2 DEF RoundOK
  <2>4. QED
    BY <1>1, <2>3
<1>7. PhaseOK /\ BetOK /\ TopOK
  BY <1>1 DEF PhaseOK, BetOK, TopOK
<1>8. QED
  BY <1>5, <1>6, <1>7 DEF IInv

LEMMA NextStreetKeeps ==
  ASSUME IInv, NextStreet
  PROVE  IInv'
<1>1. /\ awaiting # Nobody /\ street' = awaiting /\ awaiting' = Nobody /\ FreshStreet
      /\ actor' = Opener(button, folded, stack) /\ ending' = ending
      /\ game' = game /\ button' = button /\ stack' = stack /\ total' = total /\ folded' = folded
  BY DEF NextStreet
<1>2. /\ TypeOK /\ RoundOK(game, commit, bet, raise, total) /\ ending = ""
      /\ Cardinality(CanAct(folded, stack)) >= 2
      /\ \A s \in CanAct(folded, stack) : commit[s] = bet
      /\ Leveled(folded, stack, commit, total)
  BY <1>1 DEF IInv, PhaseOK, BetOK
<1>3. Fits(folded, stack, commit, bet, raise, level, acted, total)
  BY <1>2 DEF TypeOK, Fits, Amounts
<1>4. Leveled(folded, stack, Zero, total)
  <2>1. \A s \in Seats : commit[s] <= bet
    BY <1>2 DEF RoundOK
  <2>2. QED
    BY <1>2, <1>3, <2>1, NextLevel
<1>5. Becomes4(folded, stack, total) /\ GameKept
  BY <1>1, <1>2 DEF Becomes4, GameKept, TypeOK
<1>6. street' \in 1 .. River
  BY <1>1, <1>2 DEF TypeOK
<1>7. folded \in SUBSET Seats /\ stack \in Amounts /\ total \in Amounts
  BY <1>3 DEF Fits
<1>8. actor' = Opener(button', folded, stack) /\ ending' = "" /\ awaiting' = Nobody /\ FreshStreet
  BY <1>1, <1>2
<1>9. QED
  BY <1>2, <1>4, <1>5, <1>6, <1>7, <1>8, OpenKeeps

\* The steps of the specification: what goes into the pot, a fold, a deal, a street
LEMMA Steps4 ==
  ASSUME IInv, Next
  PROVE  \/ \E g \in Games, btn \in Seats, in \in SUBSET Seats :
              Cardinality(in) >= 2 /\ \E start \in [in -> StackChoices] : Deal(g, btn, in, start)
         \/ Fold \/ NextStreet
         \/ \E chips : Puts(chips)
<1>1. CASE \E g \in Games, btn \in Seats, in \in {S \in SUBSET Seats : Cardinality(S) >= 2} :
             \E start \in [in -> StackChoices] : Deal(g, btn, in, start)
  BY <1>1
<1>2. CASE Fold \/ NextStreet
  BY <1>2
<1>3. CASE CheckCall
  BY <1>3, CallPuts
<1>4. CASE AllIn
  BY <1>4, AllInPuts
<1>5. CASE \E f \in Fractions : Sized(f)
  BY <1>5, SizedPuts
<1>6. CASE Playing /\ \E chips \in MinRaise .. MaxRaise : RaiseBy(chips)
  <2>1. PICK n \in MinRaise .. MaxRaise : RaiseBy(n)
    BY <1>6
  <2>2. n \in Int
    BY <2>1
  <2>3. QED
    BY <2>1, <2>2, RaisePuts
<1>7. QED
  BY <1>1, <1>2, <1>3, <1>4, <1>5, <1>6 DEF Next

LEMMA NextKeeps == IInv /\ [Next]_vars => IInv'
<1> SUFFICES ASSUME IInv, [Next]_vars PROVE IInv'
  OBVIOUS
<1>1. CASE Next
  <2>1. ASSUME NEW g \in Games, NEW btn \in Seats, NEW in \in SUBSET Seats, Cardinality(in) >= 2,
               NEW start \in [in -> StackChoices], Deal(g, btn, in, start)
        PROVE  IInv'
    BY <2>1, DealKeeps
  <2>2. CASE Fold
    BY <2>2, FoldKeeps
  <2>3. CASE NextStreet
    BY <2>3, NextStreetKeeps
  <2>4. CASE \E chips : Puts(chips)
    BY <2>4, PutsKeeps
  <2>5. QED
    BY <1>1, <2>1, <2>2, <2>3, <2>4, Steps4
<1>2. CASE UNCHANGED vars
  <2>1. /\ game' = game /\ button' = button /\ street' = street /\ stack' = stack /\ total' = total
        /\ folded' = folded /\ commit' = commit /\ bet' = bet /\ raise' = raise /\ level' = level
        /\ acted' = acted /\ actor' = actor /\ awaiting' = awaiting /\ ending' = ending
    BY <1>2 DEF vars, betVars
  <2>2. TypeOK' <=> TypeOK
    BY <2>1 DEF TypeOK
  <2>3. (PhaseOK' <=> PhaseOK) /\ (BetOK' <=> BetOK) /\ (TopOK' <=> TopOK)
    BY <2>1 DEF PhaseOK, BetOK, TopOK
  <2>4. QED
    BY <2>1, <2>2, <2>3 DEF IInv
<1>3. QED
  BY <1>1, <1>2

THEOREM BettingInvariant == Spec => []IInv
<1>1. Init => IInv
  BY InitHolds
<1>2. IInv /\ [Next]_vars => IInv'
  BY NextKeeps
<1>3. QED
  BY <1>1, <1>2, PTL DEF Spec

\* Every amount is a number of chips, and the seat asked is one that can act.
THEOREM TypeTheorem == Spec => []TypeOK
<1>1. IInv => TypeOK
  BY DEF IInv
<1>2. QED
  BY <1>1, BettingInvariant, PTL

\* When a hand ends, nobody who gave up has more in the pot than everybody who stayed.
THEOREM TopTheorem == Spec => []LiveSeatHoldsTop
<1>1. IInv => LiveSeatHoldsTop
  BY DEF IInv, TopOK, Top, LiveSeatHoldsTop, Ended
<1>2. QED
  BY <1>1, BettingInvariant, PTL

-----------------------------------------------------------------------------
(* Everyone answers                                                          *)

\* A move that closes the round leaves nobody to ask
LEMMA ClosedMeans ==
  ASSUME NEW f, NEW k, NEW c, NEW b, NEW r, NEW lv, NEW a, NEW t, Fits(f, k, c, b, r, lv, a, t),
         Advance(f, k, c, b, r, lv, a), Closes, NEW s \in CanAct(f, k)
  PROVE  \/ \A x \in Live(f) \ {s} : c[x] + k[x] <= c[s]
         \/ s \in a /\ c[s] >= b
<1>1. f \in SUBSET Seats /\ k \in Amounts /\ c \in Amounts /\ b \in Nat
  BY DEF Fits
<1>2. /\ Live(f) \subseteq Seats /\ s \in Seats
      /\ \A x \in Seats : c[x] \in Nat /\ k[x] \in Nat
  BY <1>1, CanActIs DEF Amounts
<1>3. ~EndHand(Over, "foldout")
  BY DEF EndHand, Closes
<1>4. ~UNCHANGED <<street, awaiting, ending>>
  BY DEF Closes
<1>5. ToAct(f, k, c, b, a) = {}
  BY <1>3, <1>4 DEF Advance
<1>6. ~(s \notin a \/ c[s] < b) \/ ~Contest(s, f, k, c)
  BY <1>5 DEF ToAct
<1>7. ASSUME ~Contest(s, f, k, c) PROVE \A x \in Live(f) \ {s} : c[x] + k[x] <= c[s]
  <2>1. \A x \in Live(f) \ {s} : ~(c[x] + k[x] > c[s])
    BY <1>1, <1>2, <1>7, ContestIs
  <2>2. QED
    BY <1>2, <2>1
<1>8. QED
  BY <1>1, <1>2, <1>6, <1>7

LEMMA FoldAnswers ==
  ASSUME IInv, Fold, Closes, NEW s \in CanAct(folded', stack')
  PROVE  Unraised(s) \/ Answered(s)
<1> DEFINE f == folded \cup {actor}
           a == acted \cup {actor}
           lv == [level EXCEPT ![actor] = bet]
<1>1. /\ Playing /\ total' = total /\ Advance(f, stack, commit, bet, raise, lv, a)
      /\ folded' = f /\ stack' = stack
  BY DEF Fold, Advance
<1>2. /\ Fits(folded, stack, commit, bet, raise, level, acted, total) /\ actor \in Seats
      /\ RoundOK(game, commit, bet, raise, total)
      /\ \A x \in Seats : commit[x] \in Nat /\ total[x] \in Nat
  BY <1>1, InPlay
<1>3. Fits(f, stack, commit, bet, raise, lv, a, total) /\ f \in SUBSET Seats /\ bet \in Nat
  BY <1>2 DEF Fits, Amounts
<1>4. /\ \A x \in Seats : Put(x) = commit[x] /\ commit[x] <= bet
      /\ stack \in Amounts
  BY <1>1, <1>2 DEF Put, RoundOK, Fits
<1>5. s \in CanAct(f, stack) /\ s \in Seats /\ Live(f) \subseteq Seats
  BY <1>1, <1>3, <1>4, CanActIs
<1> HIDE DEF f, a, lv
<1>6. \/ \A x \in Live(f) \ {s} : commit[x] + stack[x] <= commit[s]
      \/ s \in a /\ commit[s] >= bet
  BY <1>1, <1>3, <1>5, ClosedMeans
<1>7. ASSUME \A x \in Live(f) \ {s} : commit[x] + stack[x] <= commit[s] PROVE Unraised(s)
  BY <1>1, <1>4, <1>5, <1>7 DEF Unraised
<1>8. ASSUME s \in a, commit[s] >= bet PROVE Answered(s)
  <2>1. Put(s) >= bet /\ \A x \in Seats : Put(x) <= Put(s)
    BY <1>2, <1>3, <1>4, <1>5, <1>8
  <2>2. QED
    BY <1>8, <2>1 DEF Answered, a
<1>9. QED
  BY <1>6, <1>7, <1>8

LEMMA PutsAnswers ==
  ASSUME IInv, NEW chips, Puts(chips), Closes, NEW s \in CanAct(folded', stack')
  PROVE  Unraised(s) \/ Answered(s)
<1> DEFINE c == [commit EXCEPT ![actor] = @ + chips]
           k == [stack EXCEPT ![actor] = @ - chips]
           b == Greater(bet, c[actor])
           r == IF b > bet THEN RaisedTo(b - bet) ELSE raise
           lv == [level EXCEPT ![actor] = b]
           a == acted \cup {actor}
           t == [total EXCEPT ![actor] = @ + chips]
<1>1. /\ Playing /\ chips \in Nat /\ chips <= stack[actor]
      /\ total' = t /\ Advance(folded, k, c, b, r, lv, a)
      /\ folded' = folded /\ stack' = k
  BY DEF Puts, PutIn, Advance
<1>2. /\ Fits(folded, stack, commit, bet, raise, level, acted, total) /\ actor \in Seats
      /\ RoundOK(game, commit, bet, raise, total)
      /\ \A x \in Seats : commit[x] \in Nat /\ total[x] \in Nat /\ stack[x] \in Nat
  BY <1>1, InPlay
<1>3. /\ folded \in SUBSET Seats /\ stack \in Amounts /\ commit \in Amounts /\ bet \in Nat
      /\ raise \in Nat /\ level \in Amounts /\ acted \in SUBSET Seats /\ total \in Amounts
      /\ \A x \in Seats : commit[x] <= bet
  BY <1>2 DEF Fits, RoundOK
<1>4. /\ c \in Amounts /\ k \in Amounts /\ t \in Amounts
      /\ c[actor] = commit[actor] + chips /\ t[actor] = total[actor] + chips
      /\ \A x \in Seats \ {actor} : c[x] = commit[x] /\ t[x] = total[x]
  BY <1>1, <1>2, <1>3 DEF Amounts
<1>5. b \in Nat /\ b >= bet /\ b >= c[actor]
  <2>1. c[actor] \in Nat
    BY <1>1, <1>2, <1>4
  <2>2. QED
    BY <1>3, <2>1 DEF Greater
<1>6. r \in Nat /\ lv \in Amounts /\ a \in SUBSET Seats
  BY <1>2, <1>3, <1>5 DEF RaisedTo, Amounts
<1> HIDE DEF c, k, b, r, lv, a, t
<1>7. Fits(folded, k, c, b, r, lv, a, t)
  BY <1>3, <1>4, <1>5, <1>6 DEF Fits
<1>8. \A x \in Seats : Put(x) = c[x] /\ c[x] <= b /\ c[x] \in Nat
  <2> SUFFICES ASSUME NEW x \in Seats PROVE Put(x) = c[x] /\ c[x] <= b /\ c[x] \in Nat
    OBVIOUS
  <2>1. Put(x) = commit[x] + t[x] - total[x]
    BY <1>1 DEF Put
  <2>2. CASE x = actor
    BY <1>1, <1>2, <1>4, <1>5, <2>1, <2>2
  <2>3. CASE x # actor
    BY <1>2, <1>3, <1>4, <1>5, <2>1, <2>3
  <2>4. QED
    BY <2>2, <2>3
<1>9. s \in CanAct(folded, k) /\ s \in Seats /\ Live(folded) \subseteq Seats
  BY <1>1, <1>3, <1>4, CanActIs
<1>10. \/ \A x \in Live(folded) \ {s} : c[x] + k[x] <= c[s]
       \/ s \in a /\ c[s] >= b
  BY <1>1, <1>7, <1>9, ClosedMeans
<1>11. ASSUME \A x \in Live(folded) \ {s} : c[x] + k[x] <= c[s] PROVE Unraised(s)
  BY <1>1, <1>8, <1>9, <1>11 DEF Unraised
<1>12. ASSUME s \in a, c[s] >= b PROVE Answered(s)
  <2>1. Put(s) >= bet /\ \A x \in Seats : Put(x) <= Put(s)
    BY <1>3, <1>5, <1>8, <1>9, <1>12
  <2>2. QED
    BY <1>12, <2>1 DEF Answered, a
<1>13. QED
  BY <1>10, <1>11, <1>12

\* A betting round closes only when every player still in with chips has had a turn and met
\* the bet, or when nobody else could put in more than they have: no raise, short all-in,
\* fold or skipped turn ever closes a round over somebody's head.
THEOREM AnswersTheorem == Spec => EveryoneAnswers
<1>1. IInv /\ [Next]_vars =>
        [Closes => \A s \in CanAct(folded', stack') : Unraised(s) \/ Answered(s)]_vars
  <2> SUFFICES ASSUME IInv, Next, Closes, NEW s \in CanAct(folded', stack')
               PROVE  Unraised(s) \/ Answered(s)
    OBVIOUS
  <2>1. Playing /\ street # Over /\ awaiting = Nobody
    BY DEF Closes, Playing, IInv, PhaseOK
  <2>2. CASE Fold
    BY <2>2, FoldAnswers
  <2>3. CASE \E chips : Puts(chips)
    BY <2>3, PutsAnswers
  <2>4. ~NextStreet
    BY <2>1 DEF NextStreet
  <2>5. ASSUME NEW g \in Games, NEW btn \in Seats, NEW in \in SUBSET Seats,
               NEW start \in [in -> StackChoices]
        PROVE  ~Deal(g, btn, in, start)
    BY <2>1 DEF Deal
  <2>6. QED
    BY <2>2, <2>3, <2>4, <2>5, Steps4
<1>2. QED
  BY <1>1, BettingInvariant, PTL DEF Spec, EveryoneAnswers

-----------------------------------------------------------------------------
(* Raises are full                                                           *)

Raises == Playing /\ actor' # Nobody /\ street' = street /\ bet' > bet

\* What a move leaves when the street goes on
LEMMA GoesOn ==
  ASSUME IInv, Playing, NEW f, NEW k, NEW c, NEW b, NEW r, NEW lv, NEW a,
         Advance(f, k, c, b, r, lv, a), actor' # Nobody, street' = street
  PROVE  commit' = c /\ bet' = b /\ raise' = r /\ stack' = k
<1>1. street \in 0 .. River
  BY InPlay
<1>2. street' # street + 1
  BY <1>1 DEF River
<1>3. ~CloseRound(street, f, k, c, b, r, lv, a)
  BY <1>2 DEF CloseRound, EndHand
<1>4. ~EndHand(Over, "foldout")
  BY DEF EndHand
<1>5. QED
  BY <1>3, <1>4 DEF Advance, KeepStreet

\* Whoever puts in a raise has not been locked out of it, and the floor only goes up
LEMMA PutsRaise ==
  ASSUME IInv, NEW chips, Puts(chips), Raises
  PROVE  /\ bet' = commit[actor] + chips /\ commit'[actor] = commit[actor] + chips
         /\ stack'[actor] = stack[actor] - chips
         /\ raise' >= raise /\ raise' >= BigBlind
         /\ chips # ToCall
         /\ ~Lockout => (actor \in acted => bet - level[actor] >= raise)
<1> DEFINE c == [commit EXCEPT ![actor] = @ + chips]
           k == [stack EXCEPT ![actor] = @ - chips]
           b == Greater(bet, c[actor])
           r == IF b > bet THEN RaisedTo(b - bet) ELSE raise
           lv == [level EXCEPT ![actor] = b]
           a == acted \cup {actor}
<1>1. /\ Playing /\ chips \in Nat /\ Advance(folded, k, c, b, r, lv, a)
      /\ actor' # Nobody /\ street' = street /\ bet' > bet
  BY DEF Puts, PutIn, Raises
<1>2. commit' = c /\ bet' = b /\ raise' = r /\ stack' = k
  <2> HIDE DEF c, k, b, r, lv, a
  <2> QED BY <1>1, GoesOn
<1>3. /\ Fits(folded, stack, commit, bet, raise, level, acted, total) /\ actor \in Seats
      /\ RoundOK(game, commit, bet, raise, total)
      /\ commit[actor] \in Nat /\ stack[actor] \in Nat /\ level[actor] \in Nat
      /\ actor \notin acted \/ commit[actor] < bet
  BY <1>1, InPlay
<1>4. /\ stack \in Amounts /\ commit \in Amounts /\ bet \in Nat /\ raise \in Nat
      /\ raise >= BigBlind /\ BigBlind \in Nat
  BY <1>3, StakesAssumption DEF Fits, RoundOK
<1>5. c[actor] = commit[actor] + chips /\ k[actor] = stack[actor] - chips
  BY <1>3, <1>4 DEF Amounts
<1>6. bet' = commit[actor] + chips
  BY <1>1, <1>2, <1>3, <1>4, <1>5 DEF Greater
<1>7. raise' >= raise /\ raise' >= BigBlind
  BY <1>1, <1>2, <1>3, <1>4, <1>6 DEF RaisedTo
<1>8. chips # ToCall
  <2>1. ToCall = 0 \/ commit[actor] + ToCall <= bet
    BY <1>1, Bounds
  <2>2. commit[actor] <= bet
    BY <1>3 DEF RoundOK
  <2>3. QED
    BY <1>1, <1>3, <1>4, <1>6, <2>1, <2>2
<1>9. ASSUME ~Lockout, actor \in acted PROVE bet - level[actor] >= raise
  <2>1. Facing
    BY <1>3, <1>4, <1>9 DEF Facing
  <2>2. ~(bet < level[actor] + raise)
    BY <1>9, <2>1 DEF Lockout
  <2>3. QED
    BY <1>3, <1>4, <2>2
<1>10. QED
  BY <1>2, <1>5, <1>6, <1>7, <1>8, <1>9

\* No raise is under the floor unless it is all the raiser has or all the others can reach.
LEMMA StepRaises ==
  ASSUME IInv, Next, Raises
  PROVE  FullRaise
<1>1. /\ Playing /\ street # Over /\ awaiting = Nobody /\ actor' # Nobody
      /\ street' = street /\ bet' > bet
  BY DEF Raises, Playing, IInv, PhaseOK
<1>2. /\ commit[actor] \in Nat /\ stack[actor] \in Nat /\ bet \in Nat /\ raise \in Nat
      /\ ActorReach \in Nat /\ MinTotal \in Nat /\ MinTotal >= bet + raise
  BY <1>1, InPlay, Bounds DEF Fits
<1>3. ASSUME NEW chips, Puts(chips), chips # ToCall => ~Lockout,
             \/ commit[actor] + chips >= MinTotal
             \/ chips = stack[actor]
             \/ game.reach /\ commit[actor] + chips = ActorReach
      PROVE  FullRaise
  <2>1. /\ bet' = commit[actor] + chips /\ commit'[actor] = commit[actor] + chips
        /\ stack'[actor] = stack[actor] - chips
        /\ raise' >= raise /\ raise' >= BigBlind
        /\ actor \in acted => bet - level[actor] >= raise
    BY <1>3, PutsRaise
  <2>2. CASE commit[actor] + chips >= MinTotal
    <3>1. bet' - bet >= raise
      <4>1. chips \in Nat
        BY <1>3 DEF Puts
      <4>2. QED
        BY <1>2, <2>1, <2>2, <4>1
    <3>2. QED
      BY <2>1, <3>1 DEF FullRaise
  <2>3. CASE chips = stack[actor]
    <3>1. stack'[actor] = 0
      BY <1>2, <2>1, <2>3
    <3>2. QED
      BY <2>1, <3>1 DEF FullRaise
  <2>4. CASE game.reach /\ commit[actor] + chips = ActorReach
    BY <2>1, <2>4 DEF FullRaise
  <2>5. QED
    BY <1>3, <2>2, <2>3, <2>4
<1>4. CASE CheckCall
  <2>1. Puts(ToCall)
    BY <1>4, CallPuts
  <2>2. FALSE
    BY <2>1, PutsRaise
  <2>3. QED
    BY <2>2
<1>5. CASE AllIn
  <2>1. Puts(stack[actor]) /\ ~Lockout
    BY <1>5, AllInPuts DEF AllIn, AllInLegal
  <2>2. QED
    BY <1>3, <2>1
<1>6. CASE \E f \in Fractions : Sized(f)
  <2>1. PICK f \in Fractions : Sized(f)
    BY <1>6
  <2>2. Puts(SizingChips(f)) /\ commit[actor] + SizingChips(f) >= MinTotal
    BY <2>1, SizedPuts
  <2>3. ~Lockout
    BY <2>1 DEF Sized, SizingLegal
  <2>4. QED
    BY <1>3, <2>2, <2>3
<1>7. CASE \E n \in MinRaise .. MaxRaise : RaiseBy(n)
  <2>1. PICK n \in MinRaise .. MaxRaise : RaiseBy(n)
    BY <1>7
  <2>2. n \in Int
    BY <2>1
  <2>3. PICK chips \in {n, stack[actor]} :
          Puts(chips) /\ n \in MinRaise .. MaxRaise /\ MinRaise > 0
    BY <2>1, <2>2, RaisePuts
  <2>4. ~Lockout
    BY <2>3 DEF MinRaise
  <2>5. CASE chips = stack[actor]
    BY <1>3, <2>3, <2>4, <2>5
  <2>6. CASE chips = n
    <3> DEFINE delta == MinTotal - commit[actor]
               cover == Over0(ActorReach, commit[actor])
               least == IF game.reach THEN Lesser(delta, cover) ELSE delta
    <3>1. MinRaise = least /\ ActorReach > bet
      <4>1. ~(ActorReach <= bet)
        BY <2>3 DEF MinRaise
      <4>2. MinRaise = least
        BY <2>3 DEF MinRaise
      <4>3. QED
        BY <1>2, <4>1, <4>2
    <3>2. \/ least = delta
          \/ game.reach /\ game.reach = TRUE /\ least = cover
      <4>1. game.reach = TRUE \/ game.reach = FALSE
        BY DEF IInv, TypeOK, GameKinds
      <4>2. CASE game.reach = TRUE
        BY <1>2, <4>2 DEF Lesser
      <4>3. CASE game.reach = FALSE
        BY <4>3
      <4>4. QED
        BY <4>1, <4>2, <4>3
    <3> HIDE DEF least
    <3>3. n \in Int /\ n >= MinRaise /\ n <= MaxRaise /\ MaxRaise \in Nat /\ MinRaise \in Nat /\ MinRaise > 0
      BY <1>1, <2>2, <2>3, RaiseBounds
    <3>4. CASE least = delta
      <4>1. commit[actor] + n >= MinTotal
        BY <1>2, <3>1, <3>3, <3>4
      <4>2. QED
        BY <1>3, <2>3, <2>4, <2>6, <4>1
    <3>5. CASE game.reach /\ game.reach = TRUE /\ least = cover
      <4>1. commit[actor] + MaxRaise <= MaxTotal /\ MaxTotal \in Nat
        BY <1>1, <3>3, RaiseBounds, Bounds
      <4>2. MaxTotal <= ActorReach
        <5>1. MostOK(MaxTotal) /\ Pot \in Nat /\ ToCall \in Nat
          BY <1>1, Bounds
        <5>2. MaxTotal = ActorReach \/ MaxTotal = Lesser(bet + Pot + ToCall, ActorReach)
          BY <3>5, <5>1 DEF MostOK
        <5>3. QED
          BY <1>2, <5>1, <5>2 DEF Lesser
      <4>3. commit[actor] + n = ActorReach
        BY <1>2, <3>1, <3>3, <3>5, <4>1, <4>2 DEF Over0
      <4>4. QED
        BY <1>3, <2>3, <2>4, <2>6, <3>5, <4>3
    <3>6. QED
      BY <3>2, <3>4, <3>5
  <2>7. QED
    BY <2>3, <2>5, <2>6
<1>8. CASE Fold
  <2>1. Advance(folded \cup {actor}, stack, commit, bet, raise, [level EXCEPT ![actor] = bet],
                acted \cup {actor})
    BY <1>8 DEF Fold
  <2>2. bet' = bet
    BY <1>1, <2>1, GoesOn
  <2>3. QED
    BY <1>1, <1>2, <2>2
<1>9. CASE NextStreet
  BY <1>1, <1>9 DEF NextStreet
<1>10. ASSUME NEW g \in Games, NEW btn \in Seats, NEW in \in SUBSET Seats,
              NEW start \in [in -> StackChoices], Deal(g, btn, in, start)
       PROVE  FALSE
  BY <1>1, <1>10 DEF Deal
<1>11. QED
  BY <1>4, <1>5, <1>6, <1>7, <1>8, <1>9, <1>10 DEF Next

\* The raises of a hand are full ones: whatever the stacks, a bet rises by at least the raise
\* before it but for a shove or a covering bet, and a short all-in reopens nothing.
THEOREM RaisesTheorem == Spec => RaisesAreFull
<1>1. IInv /\ [Next]_vars =>
        [Playing /\ actor' # Nobody /\ street' = street /\ bet' > bet => FullRaise]_vars
  BY StepRaises DEF Raises
<1>2. QED
  BY <1>1, BettingInvariant, PTL DEF Spec, RaisesAreFull

-----------------------------------------------------------------------------
(* Every hand runs down                                                      *)

\* One fewer of what weighs more than all the rest can come to; or as many, and less of that
LEMMA RunsDown ==
  ASSUME NEW n \in Nat, NEW x \in Nat, NEW y \in Nat, NEW l \in 0 .. n, NEW m \in 0 .. n,
         NEW p \in 0 .. n, NEW q \in 0 .. n,
         m <= l, y < x \/ (y = x /\ q <= p /\ (m < l \/ q < p))
  PROVE  (n + 1) * y + m + q < (n + 1) * x + l + p
<1>1. CASE y = x
  <2>1. (n + 1) * y = (n + 1) * x /\ (n + 1) * x \in Nat
    BY <1>1
  <2>2. QED
    BY <1>1, <2>1
<1>2. CASE y < x
  <2>1. PICK d \in Nat : x = y + 1 + d
    <3>1. x - y - 1 \in Nat
      BY <1>2
    <3>2. QED
      BY <3>1
  <2>2. (n + 1) * x = (n + 1) * y + (n + 1) + (n + 1) * d
    BY <2>1
  <2>3. (n + 1) * y \in Nat /\ (n + 1) * d \in Nat
    OBVIOUS
  <2>4. QED
    BY <2>2, <2>3
<1>3. QED
  BY <1>1, <1>2

\* MovesLeft, of its parts
Counts(st, chips, in, wait) ==
  /\ NumSeats \in Nat /\ st \in Nat /\ chips \in Nat
  /\ in \in 0 .. NumSeats /\ wait \in 0 .. NumSeats
Left(st, chips, in, wait) == (NumSeats + 1) * (st + chips) + in + wait

LEMMA LeftFalls ==
  ASSUME NEW st, NEW chips, NEW in, NEW wait, Counts(st, chips, in, wait),
         NEW st2, NEW chips2, NEW in2, NEW wait2, Counts(st2, chips2, in2, wait2),
         st2 <= st, chips2 <= chips, in2 <= in,
         \/ st2 < st \/ chips2 < chips
         \/ wait2 <= wait /\ (in2 < in \/ wait2 < wait)
  PROVE  Left(st2, chips2, in2, wait2) < Left(st, chips, in, wait)
<1>1. /\ NumSeats \in Nat /\ in \in 0 .. NumSeats /\ wait \in 0 .. NumSeats
      /\ in2 \in 0 .. NumSeats /\ wait2 \in 0 .. NumSeats
      /\ st \in Nat /\ chips \in Nat /\ st2 \in Nat /\ chips2 \in Nat
  BY DEF Counts
<1>2. st + chips \in Nat /\ st2 + chips2 \in Nat
  BY <1>1
<1>3. \/ st2 + chips2 < st + chips
      \/ st2 + chips2 = st + chips /\ wait2 <= wait /\ (in2 < in \/ wait2 < wait)
  BY <1>1
<1>4. QED
  BY <1>1, <1>2, <1>3, RunsDown DEF Left

\* A round that closes ends the hand, or leaves somebody to open the next street
LEMMA CloseRunsDown ==
  ASSUME NEW st \in 0 .. River, NEW f, NEW k, NEW c, NEW b, NEW r, NEW lv, NEW a,
         CloseRound(st, f, k, c, b, r, lv, a),
         f \in SUBSET Seats, k \in Amounts, button' \in Seats
  PROVE  (Running' \/ Ended') /\ Stages' \in Nat /\ Stages' < 2 * (Over - st)
<1>1. st \in Nat /\ st <= 3 /\ Over = 4 /\ Nobody = -1
  BY DEF River, Over, Nobody
<1>2. ASSUME NEW how \in {"showdown", "runout"}, NEW s, EndHand(s, how)
      PROVE  Ended' /\ Stages' = 0
  BY <1>2 DEF EndHand, Ended, Stages, Playing
<1>3. ASSUME actor' = Nobody, street' = st, awaiting' = st + 1
      PROVE  Running' /\ Stages' = 2 * (Over - st) - 1
  BY <1>1, <1>3 DEF Running, Stages, Playing
<1>4. ASSUME Cardinality(CanAct(f, k)) >= 2, actor' = Opener(button', f, k), street' = st + 1
      PROVE  Running' /\ Stages' = 2 * (Over - (st + 1))
  <2>1. PICK btn \in Seats : btn = button'
    OBVIOUS
  <2>2. actor' \in ToAct(f, k, Zero, 0, {})
    BY <1>4, <2>1, OpenerIs
  <2>3. actor' \in Seats
    BY <2>2, CanActIs DEF ToAct
  <2>4. actor' # Nobody
    BY <1>1, <2>3, SeatsFinite
  <2>5. QED
    BY <1>4, <2>4 DEF Running, Stages, Playing
<1>5. CASE EndHand(Over, "showdown") \/ EndHand(st, "runout")
  BY <1>1, <1>2, <1>5
<1>6. CASE actor' = Nobody /\ street' = st /\ awaiting' = st + 1
  BY <1>1, <1>3, <1>6
<1>7. CASE /\ Cardinality(CanAct(f, k)) >= 2
           /\ actor' = Opener(button', f, k) /\ street' = st + 1
  BY <1>1, <1>4, <1>7
<1>8. QED
  BY <1>5, <1>6, <1>7 DEF CloseRound

\* A move: the next player is asked on the same street, or a street less is left
LEMMA AdvanceRunsDown ==
  ASSUME IInv, Playing, NEW f \in SUBSET Seats, NEW k \in Amounts,
         NEW c, NEW b, NEW r, NEW lv, NEW a, Advance(f, k, c, b, r, lv, a)
  PROVE  /\ folded' = f /\ stack' = k /\ (Running' \/ Ended')
         /\ Stages \in Nat /\ Stages' \in Nat
         /\ Stages' <= Stages /\ (Stages' < Stages \/ (Stages' = Stages /\ acted' = a))
<1> DEFINE next == ToAct(f, k, c, b, a)
<1>1. /\ actor \in Seats /\ street \in 0 .. River /\ button \in Seats
      /\ street \in Nat /\ street <= 3 /\ Over = 4 /\ Nobody = -1
  <2>1. actor \in Seats /\ street \in 0 .. River
    BY InPlay
  <2>2. button \in Seats
    BY DEF IInv, TypeOK
  <2>3. street \in Nat /\ street <= 3 /\ Over = 4 /\ Nobody = -1
    BY <2>1 DEF River, Over, Nobody
  <2>4. QED
    BY <2>1, <2>2, <2>3
<1>2. Stages = 2 * (Over - street)
  BY DEF Stages
<1>3. Stages \in Nat /\ Stages > 0
  BY <1>1, <1>2
<1>4. folded' = f /\ stack' = k /\ button' = button
  BY DEF Advance
<1>5. CASE EndHand(Over, "foldout")
  <2>1. Ended' /\ Stages' = 0
    BY <1>5 DEF EndHand, Ended, Stages, Playing
  <2>2. QED
    BY <1>3, <1>4, <2>1
<1>6. CASE CloseRound(street, f, k, c, b, r, lv, a)
  <2>1. PICK st \in 0 .. River : st = street
    BY <1>1
  <2>2. CloseRound(st, f, k, c, b, r, lv, a) /\ button' \in Seats
    BY <1>1, <1>4, <1>6, <2>1
  <2>3. (Running' \/ Ended') /\ Stages' \in Nat /\ Stages' < 2 * (Over - st)
    BY <2>2, CloseRunsDown
  <2>4. QED
    BY <1>2, <1>3, <1>4, <2>1, <2>3
<1>7. CASE /\ next # {} /\ KeepStreet(c, b, r, lv, a) /\ actor' = FirstFrom(actor, next)
           /\ UNCHANGED <<street, awaiting, ending>>
  <2>1. next \in SUBSET Seats
    BY CanActIs DEF ToAct
  <2>2. actor' \in Seats
    <3>1. PICK p \in Seats : p = actor
      BY <1>1
    <3> HIDE DEF next
    <3>2. QED
      BY <1>7, <2>1, <3>1, FirstFromIs
  <2>3. actor' # Nobody
    BY <1>1, <2>2, SeatsFinite
  <2>4. Running' /\ Stages' = Stages /\ acted' = a
    BY <1>2, <1>7, <2>3 DEF Running, Stages, Playing, KeepStreet
  <2>5. QED
    BY <1>3, <1>4, <2>4
<1>8. QED
  BY <1>5, <1>6, <1>7 DEF Advance

\* What the count is made of
LEMMA CountsAre ==
  ASSUME NEW f \in SUBSET Seats, NEW k \in Amounts, NEW a \in SUBSET Seats
  PROVE  /\ Total(k) \in Nat /\ NumSeats \in Nat
         /\ Cardinality(Live(f)) \in 0 .. NumSeats
         /\ Cardinality(Seats \ a) \in 0 .. NumSeats
<1>1. IsFiniteSet(Seats) /\ Cardinality(Seats) = NumSeats /\ NumSeats \in Nat
  <2>1. Cardinality(0 .. NumSeats - 1) = NumSeats
    BY NumSeatsAssumption, FS_Interval
  <2>2. QED
    BY <2>1, SeatsFinite, NumSeatsAssumption DEF Seats
<1>2. Live(f) \subseteq Seats /\ Seats \ a \subseteq Seats
  BY DEF Live
<1>3. Cardinality(Live(f)) \in Nat /\ Cardinality(Live(f)) <= NumSeats
  BY <1>1, <1>2, FS_Subset, FS_CardinalityType
<1>4. Cardinality(Seats \ a) \in Nat /\ Cardinality(Seats \ a) <= NumSeats
  BY <1>1, <1>2, FS_Subset, FS_CardinalityType
<1>5. Total(k) \in Nat
  BY <1>1, TotalNat DEF Amounts
<1>6. QED
  BY <1>1, <1>3, <1>4, <1>5

\* One seat out of a set of them
LEMMA OneFewer ==
  ASSUME NEW S \in SUBSET Seats, NEW s \in S
  PROVE  Cardinality(S \ {s}) < Cardinality(S)
<1>1. IsFiniteSet(S)
  BY SeatsFinite, FS_Subset
<1>2. Cardinality(S \ {s}) = Cardinality(S) - 1 /\ Cardinality(S) \in Nat
  BY <1>1, FS_RemoveElement, FS_CardinalityType
<1>3. QED
  BY <1>2

\* A fold leaves one player fewer
LEMMA FoldRunsDown ==
  ASSUME IInv, Fold
  PROVE  (Running' \/ Ended') /\ MovesLeft' < MovesLeft
<1> DEFINE f == folded \cup {actor}
           a == acted \cup {actor}
<1>1. Playing /\ Advance(f, stack, commit, bet, raise, [level EXCEPT ![actor] = bet], a)
  BY DEF Fold
<1>2. /\ actor \in Seats /\ actor \in Live(folded) /\ folded \in SUBSET Seats /\ stack \in Amounts
      /\ acted \in SUBSET Seats /\ f \in SUBSET Seats /\ a \in SUBSET Seats
  BY <1>1, InPlay DEF Fits
<1>3. /\ folded' = f /\ stack' = stack /\ (Running' \/ Ended')
      /\ Stages \in Nat /\ Stages' \in Nat
      /\ Stages' <= Stages /\ (Stages' < Stages \/ (Stages' = Stages /\ acted' = a))
  <2> HIDE DEF f, a
  <2> QED BY <1>1, <1>2, AdvanceRunsDown
<1>4. Cardinality(Live(f)) < Cardinality(Live(folded))
  <2>1. Live(f) = Live(folded) \ {actor} /\ Live(folded) \in SUBSET Seats
    BY DEF Live
  <2>2. QED
    BY <1>2, <2>1, OneFewer
<1>5. Cardinality(Seats \ a) <= Cardinality(Seats \ acted)
  <2>1. IsFiniteSet(Seats \ acted) /\ Seats \ a \subseteq Seats \ acted
    BY SeatsFinite, FS_Subset
  <2>2. QED
    BY <2>1, FS_Subset
<1>6. acted' \in SUBSET Seats
  BY <1>2, FoldKeeps DEF IInv, TypeOK
<1>7. /\ Total(stack) \in Nat /\ NumSeats \in Nat
      /\ Cardinality(Live(folded)) \in 0 .. NumSeats /\ Cardinality(Live(f)) \in 0 .. NumSeats
      /\ Cardinality(Seats \ acted) \in 0 .. NumSeats
      /\ Cardinality(Seats \ acted') \in 0 .. NumSeats
  <2> HIDE DEF f
  <2> QED BY <1>2, <1>6, CountsAre
<1>8. acted' = a => Cardinality(Seats \ acted') <= Cardinality(Seats \ acted)
  BY <1>5
<1>9. Counts(Stages, Total(stack), Cardinality(Live(folded)), Cardinality(Seats \ acted))
  BY <1>3, <1>7 DEF Counts
<1>10. Counts(Stages', Total(stack), Cardinality(Live(f)), Cardinality(Seats \ acted'))
  BY <1>3, <1>7 DEF Counts
<1>11. Left(Stages', Total(stack), Cardinality(Live(f)), Cardinality(Seats \ acted'))
         < Left(Stages, Total(stack), Cardinality(Live(folded)), Cardinality(Seats \ acted))
  <2> HIDE DEF a, f
  <2>1. /\ Total(stack) <= Total(stack)
        /\ Cardinality(Live(f)) <= Cardinality(Live(folded))
    BY <1>4, <1>7
  <2>2. QED
    BY <1>3, <1>4, <1>8, <1>9, <1>10, <2>1, LeftFalls
<1>12. QED
  BY <1>3, <1>11 DEF MovesLeft, Left

\* Chips put in are chips fewer behind; a check is by somebody who had not acted
LEMMA PutsRunsDown ==
  ASSUME IInv, NEW chips, Puts(chips)
  PROVE  (Running' \/ Ended') /\ MovesLeft' < MovesLeft
<1> DEFINE c == [commit EXCEPT ![actor] = @ + chips]
           k == [stack EXCEPT ![actor] = @ - chips]
           b == Greater(bet, c[actor])
           r == IF b > bet THEN RaisedTo(b - bet) ELSE raise
           lv == [level EXCEPT ![actor] = b]
           a == acted \cup {actor}
<1>1. /\ Playing /\ chips \in Nat /\ chips <= stack[actor]
      /\ commit[actor] + chips >= bet \/ chips = stack[actor]
      /\ Advance(folded, k, c, b, r, lv, a)
  BY DEF Puts, PutIn
<1>2. /\ actor \in Seats /\ actor \in Live(folded) /\ folded \in SUBSET Seats /\ stack \in Amounts
      /\ acted \in SUBSET Seats /\ a \in SUBSET Seats /\ stack[actor] \in Nat /\ stack[actor] > 0
      /\ commit[actor] \in Nat /\ bet \in Nat /\ (actor \notin acted \/ commit[actor] < bet)
  BY <1>1, InPlay DEF Fits
<1>3. /\ k \in Amounts /\ k[actor] = stack[actor] - chips
      /\ \A s \in Seats \ {actor} : k[s] = stack[s]
  BY <1>1, <1>2 DEF Amounts
<1>4. /\ folded' = folded /\ stack' = k /\ (Running' \/ Ended')
      /\ Stages \in Nat /\ Stages' \in Nat
      /\ Stages' <= Stages /\ (Stages' < Stages \/ (Stages' = Stages /\ acted' = a))
  <2> HIDE DEF k, c, b, r, lv, a
  <2> QED BY <1>1, <1>2, <1>3, AdvanceRunsDown
<1>5. Total(k) = Total(stack) - chips
  <2>1. Becomes(k, stack, actor, stack[actor] - chips, Seats)
    BY <1>1, <1>2, <1>3 DEF Becomes, Amounts
  <2>2. Total(k) = Total(stack) + (stack[actor] - chips - stack[actor])
    <3> HIDE DEF k
    <3> QED BY <2>1, SeatsFinite, TotalBecomes
  <2>3. Total(stack) \in Nat
    BY <1>2, CountsAre
  <2>4. QED
    BY <1>1, <1>2, <2>2, <2>3
<1>6. acted' \in SUBSET Seats
  BY PutsKeeps DEF IInv, TypeOK
<1>7. /\ Total(stack) \in Nat /\ Total(k) \in Nat /\ NumSeats \in Nat
      /\ Cardinality(Live(folded)) \in 0 .. NumSeats
      /\ Cardinality(Seats \ acted) \in 0 .. NumSeats
      /\ Cardinality(Seats \ acted') \in 0 .. NumSeats
  <2> HIDE DEF k
  <2> QED BY <1>2, <1>3, <1>6, CountsAre
<1>8. chips = 0 => Cardinality(Seats \ a) < Cardinality(Seats \ acted)
  <2> SUFFICES ASSUME chips = 0 PROVE Cardinality(Seats \ a) < Cardinality(Seats \ acted)
    OBVIOUS
  <2>1. actor \notin acted
    BY <1>1, <1>2
  <2>2. Seats \ a = (Seats \ acted) \ {actor} /\ actor \in Seats \ acted
    BY <1>2, <2>1
  <2>3. QED
    BY <2>2, OneFewer
<1>9. /\ Total(k) <= Total(stack) /\ Cardinality(Live(folded)) <= Cardinality(Live(folded))
      /\ chips # 0 => Total(k) < Total(stack)
      /\ chips = 0 /\ acted' = a => Cardinality(Seats \ acted') < Cardinality(Seats \ acted)
  <2> HIDE DEF k
  <2>1. /\ Total(k) <= Total(stack) /\ (chips # 0 => Total(k) < Total(stack))
        /\ Cardinality(Live(folded)) <= Cardinality(Live(folded))
    BY <1>1, <1>5, <1>7
  <2>2. QED
    BY <1>8, <2>1
<1> HIDE DEF k, a
<1>10. Counts(Stages, Total(stack), Cardinality(Live(folded)), Cardinality(Seats \ acted))
  BY <1>4, <1>7 DEF Counts
<1>11. Counts(Stages', Total(k), Cardinality(Live(folded)), Cardinality(Seats \ acted'))
  BY <1>4, <1>7 DEF Counts
<1>12. Left(Stages', Total(k), Cardinality(Live(folded)), Cardinality(Seats \ acted'))
         < Left(Stages, Total(stack), Cardinality(Live(folded)), Cardinality(Seats \ acted))
  <2>1. CASE Stages' < Stages \/ Total(k) < Total(stack)
    BY <1>4, <1>9, <1>10, <1>11, <2>1, LeftFalls
  <2>2. CASE Stages' = Stages /\ Cardinality(Seats \ acted') < Cardinality(Seats \ acted)
    <3>1. Cardinality(Seats \ acted') <= Cardinality(Seats \ acted)
      BY <1>7, <2>2
    <3>2. QED
      BY <3>1, <1>4, <1>9, <1>10, <1>11, <2>2, LeftFalls
  <2>3. QED
    BY <1>4, <1>9, <2>1, <2>2
<1>13. QED
  BY <1>4, <1>12 DEF MovesLeft, Left

\* The next street opens
LEMMA StreetRunsDown ==
  ASSUME IInv, NextStreet
  PROVE  (Running' \/ Ended') /\ MovesLeft' < MovesLeft
<1>1. /\ awaiting # Nobody /\ street' = awaiting /\ folded' = folded /\ stack' = stack
      /\ actor' = Opener(button, folded, stack)
  BY DEF NextStreet
<1>2. /\ actor = Nobody /\ Cardinality(CanAct(folded, stack)) >= 2 /\ awaiting \in 1 .. River
      /\ folded \in SUBSET Seats /\ stack \in Amounts /\ acted \in SUBSET Seats /\ button \in Seats
  BY <1>1 DEF IInv, TypeOK, PhaseOK, Amounts
<1>3. actor' # Nobody
  <2>1. actor' \in ToAct(folded, stack, Zero, 0, {})
    BY <1>1, <1>2, OpenerIs
  <2>2. actor' \in Seats
    BY <1>2, <2>1, CanActIs DEF ToAct
  <2>3. QED
    BY <2>2, SeatsFinite DEF Nobody
<1>4. /\ awaiting = street + 1 /\ street \in 0 .. Over /\ awaiting <= 3 /\ Over = 4
  <2>1. awaiting = street + 1
    BY <1>1 DEF IInv, PhaseOK
  <2>2. street \in 0 .. Over
    BY DEF IInv, TypeOK
  <2>3. QED
    BY <1>2, <2>1, <2>2 DEF River, Over
<1>5. Stages = 2 * (Over - street) - 1 /\ Stages' = 2 * (Over - (street + 1)) /\ Running'
  BY <1>1, <1>2, <1>3, <1>4 DEF Stages, Playing, Running
<1>6. Stages \in Nat /\ Stages' \in Nat /\ Stages' < Stages /\ Stages' <= Stages
  BY <1>4, <1>5
<1>7. acted' = {}
  BY DEF NextStreet, FreshStreet
<1>8. /\ Total(stack) \in Nat /\ NumSeats \in Nat
      /\ Cardinality(Live(folded)) \in 0 .. NumSeats
      /\ Cardinality(Seats \ acted) \in 0 .. NumSeats
      /\ Cardinality(Seats \ acted') \in 0 .. NumSeats
  BY <1>2, <1>7, CountsAre
<1>9. Counts(Stages, Total(stack), Cardinality(Live(folded)), Cardinality(Seats \ acted))
  BY <1>6, <1>8 DEF Counts
<1>10. Counts(Stages', Total(stack), Cardinality(Live(folded)), Cardinality(Seats \ acted'))
  BY <1>6, <1>8 DEF Counts
<1>11. Total(stack) <= Total(stack) /\ Cardinality(Live(folded)) <= Cardinality(Live(folded))
  BY <1>8
<1>12. Left(Stages', Total(stack), Cardinality(Live(folded)), Cardinality(Seats \ acted'))
         < Left(Stages, Total(stack), Cardinality(Live(folded)), Cardinality(Seats \ acted))
  BY <1>6, <1>9, <1>10, <1>11, LeftFalls
<1>13. QED
  BY <1>1, <1>5, <1>12 DEF MovesLeft, Left

\* A deal leaves somebody to act, or has ended already: nobody has chips to bet with
LEMMA DealRuns ==
  ASSUME NEW g \in Games, NEW btn \in Seats, NEW in \in SUBSET Seats,
         Cardinality(in) >= 2, NEW start \in [in -> StackChoices],
         Deal(g, btn, in, start), TypeOK'
  PROVE  Running' \/ Ended'
<1> DEFINE anted == [s \in Seats |-> IF s \in in THEN Lesser(start[s], Ante) ELSE 0]
           left  == [s \in Seats |-> IF s \in in THEN start[s] - anted[s] ELSE 0]
           seat  == BlindSeats(btn, in)
           blind == [s \in Seats |-> IF ~g.holdem THEN 0
                                     ELSE IF s = seat.sb THEN Lesser(left[s], SmallBlind)
                                     ELSE IF s = seat.bb THEN Lesser(left[s], BigBlind) ELSE 0]
           f     == Seats \ in
           k     == [s \in Seats |-> left[s] - blind[s]]
           b     == IF g.holdem THEN BigBlind ELSE 0
           st    == IF g.holdem THEN 0 ELSE 1
           able  == {s \in CanAct(f, k) : Contest(s, f, k, blind)}
           p     == IF g.holdem THEN seat.bb ELSE btn
<1>1. /\ button' = btn /\ folded' = f /\ stack' = k
      /\ \/ actor' = FirstFrom(p, able) /\ street' = st /\ ending' = "" /\ awaiting' = Nobody
            /\ able # {}
         \/ CloseRound(st, f, k, blind, b, BigBlind, Zero, {})
  BY DEF Deal
<1>2. k \in Amounts /\ f \in SUBSET Seats /\ button' \in Seats
  BY <1>1 DEF TypeOK, Amounts
<1>3. CASE CloseRound(st, f, k, blind, b, BigBlind, Zero, {})
  <2>1. st \in 0 .. River
    BY DEF River
  <2> HIDE DEF k, f, st, blind, b
  <2>2. QED
    BY <1>2, <1>3, <2>1, CloseRunsDown
<1>4. CASE actor' = FirstFrom(p, able) /\ able # {}
  <2>1. able \subseteq Seats
    BY <1>2, CanActIs
  <2>2. p \in Seats
    <3>1. seat.bb \in in
      BY BlindsApart
    <3> HIDE DEF seat
    <3>2. QED
      BY <3>1
  <2>3. actor' \in able
    <3> HIDE DEF able, p
    <3> QED BY <1>4, <2>1, <2>2, FirstFromIs
  <2>4. actor' # Nobody
    BY <2>1, <2>3, SeatsFinite DEF Nobody
  <2>5. QED
    BY <2>4 DEF Running, Playing
<1>5. QED
  BY <1>1, <1>3, <1>4

\* Whatever the seats, the stacks and the kind of game, a hand that has been dealt always has
\* somebody to act or cards to wait for until it ends, and every move leaves less of it: no
\* order of short all-ins, checks and lock-outs keeps a round going.
THEOREM RunDownTheorem == Spec => HandsRunDown
<1>1. IInv /\ [Next]_vars =>
        [(Running' \/ Ended') /\ (Running => MovesLeft' < MovesLeft)]_vars
  <2> SUFFICES ASSUME IInv, Next
               PROVE  (Running' \/ Ended') /\ (Running => MovesLeft' < MovesLeft)
    OBVIOUS
  <2>1. CASE Fold
    BY <2>1, FoldRunsDown
  <2>2. CASE NextStreet
    BY <2>2, StreetRunsDown
  <2>3. CASE \E chips : Puts(chips)
    BY <2>3, PutsRunsDown
  <2>4. ASSUME NEW g \in Games, NEW btn \in Seats, NEW in \in SUBSET Seats, Cardinality(in) >= 2,
               NEW start \in [in -> StackChoices], Deal(g, btn, in, start)
        PROVE  (Running' \/ Ended') /\ ~Running
    <3>1. TypeOK'
      BY <2>4, DealKeeps DEF IInv
    <3>2. street = Over
      BY <2>4 DEF Deal
    <3>3. actor = Nobody
      BY <3>2 DEF IInv, PhaseOK
    <3>4. awaiting # Nobody => awaiting = Over + 1 /\ awaiting \in {Nobody} \cup 1 .. River
      BY <3>2 DEF IInv, PhaseOK, TypeOK
    <3>5. awaiting = Nobody
      BY <3>4 DEF Nobody, River, Over
    <3>6. ~Running
      BY <3>3, <3>5 DEF Running, Playing
    <3>7. QED
      BY <2>4, <3>1, <3>6, DealRuns
  <2>5. QED
    BY <2>1, <2>2, <2>3, <2>4, Steps4
<1>2. QED
  BY <1>1, BettingInvariant, PTL DEF Spec, HandsRunDown

-----------------------------------------------------------------------------
(* What is offered is taken                                                  *)

LEMMA BetInPot ==
  ASSUME IInv, Playing, game.holdem = FALSE
  PROVE  bet <= Pot
<1>1. /\ RoundOK(game, commit, bet, raise, total) /\ bet \in Nat /\ Pot \in Nat
      /\ \A s \in Seats : total[s] <= Pot
      /\ \A s \in Seats : total[s] \in Nat /\ commit[s] \in Nat
  <2>1. bet \in Nat /\ RoundOK(game, commit, bet, raise, total)
    BY InPlay DEF Fits
  <2>2. \A s \in Seats : total[s] \in Nat /\ commit[s] \in Nat
    BY InPlay
  <2>3. Pot \in Nat /\ \A s \in Seats : total[s] <= Pot
    BY Bounds
  <2>4. QED
    BY <2>1, <2>2, <2>3
<1>2. CASE bet = 0
  BY <1>1, <1>2
<1>3. CASE bet # 0
  <2>1. PICK s \in Seats : commit[s] = bet
    BY <1>1, <1>3 DEF RoundOK
  <2>2. commit[s] <= total[s] /\ total[s] <= Pot
    BY <1>1, <2>1 DEF RoundOK
  <2>3. QED
    BY <1>1, <2>1, <2>2
<1>4. QED
  BY <1>2, <1>3

\* The least raise fits under the greatest, but in a pot smaller than a big blind after an
\* all-in that was
LEMMA RaiseFits ==
  ASSUME IInv, Playing, ActorReach > bet
  PROVE  \/ MaxTotal >= Lesser(MinTotal, commit[actor] + stack[actor])
         \/ game.reach = TRUE /\ MaxTotal = ActorReach
         \/ game.holdem = FALSE /\ bet = 0 /\ MaxTotal < MinTotal /\ MinTotal = BigBlind
         \/ game.holdem = FALSE /\ bet \in 1 .. BigBlind - 1 /\ Pot + ToCall < BigBlind
<1>1. /\ commit[actor] \in Nat /\ stack[actor] \in Nat /\ bet \in Nat
      /\ ActorReach \in Nat /\ MinTotal \in Nat /\ Pot \in Nat /\ ToCall \in Nat /\ MaxTotal \in Nat
      /\ MinTotal = bet + BigBlind \/ (MinTotal = bet + raise /\ raise <= bet)
      /\ MostOK(MaxTotal) /\ BigBlind \in Nat /\ raise \in Nat
  <2>1. bet \in Nat /\ raise \in Nat
    BY InPlay DEF Fits
  <2>2. commit[actor] \in Nat /\ stack[actor] \in Nat
    BY InPlay
  <2>3. QED
    BY <2>1, <2>2, Bounds, StakesAssumption
<1>2. CASE game.holdem = TRUE
  BY <1>1, <1>2 DEF MostOK, Lesser
<1>3. CASE game.holdem = FALSE
  <2>1. bet <= Pot
    BY <1>3, BetInPot
  <2>2. \/ MaxTotal = bet + Pot + ToCall
        \/ game.reach = TRUE /\ MaxTotal = ActorReach
    BY <1>1, <1>3 DEF MostOK, Lesser
  <2>3. CASE MaxTotal = bet + Pot + ToCall
    <3>1. CASE MaxTotal >= MinTotal
      BY <1>1, <3>1 DEF Lesser
    <3>2. CASE ~(MaxTotal >= MinTotal)
      <4>1. MinTotal = bet + BigBlind /\ Pot + ToCall < BigBlind
        BY <1>1, <2>1, <2>3, <3>2
      <4>2. bet < BigBlind
        BY <1>1, <2>1, <4>1
      <4>3. QED
        BY <1>1, <1>3, <2>3, <3>2, <4>1, <4>2
    <3>3. QED
      BY <3>1, <3>2
  <2>4. QED
    BY <2>2, <2>3
<1>4. QED
  BY <1>2, <1>3 DEF IInv, TypeOK, GameKinds

LEMMA OfferTaken ==
  ASSUME IInv, Playing, game.cover = FALSE, RaiseOffered
  PROVE  \/ RaiseAccepted
         \/ game.holdem = FALSE /\ bet \in 1 .. BigBlind - 1 /\ Pot + ToCall < BigBlind
<1> DEFINE shove == commit[actor] + stack[actor]
           cap == Lesser(MaxTotal, shove)
           delta == MinTotal - commit[actor]
           cover == Over0(ActorReach, commit[actor])
           least == IF game.reach THEN Lesser(delta, cover) ELSE delta
<1>1. /\ commit[actor] \in Nat /\ stack[actor] \in Nat /\ stack[actor] > 0 /\ bet \in Nat
      /\ commit[actor] <= bet /\ shove \in Nat
      /\ ActorReach \in Nat /\ MinTotal \in Nat /\ MaxTotal \in Nat /\ Pot \in Nat /\ ToCall \in Nat
      /\ MinTotal >= bet + BigBlind /\ MostOK(MaxTotal) /\ BigBlind \in Nat /\ BigBlind > 0
  <2>1. bet \in Nat
    BY InPlay DEF Fits
  <2>2. commit[actor] \in Nat /\ stack[actor] \in Nat /\ stack[actor] > 0
    BY InPlay
  <2>3. commit[actor] <= bet
    BY InPlay DEF RoundOK
  <2>4. BigBlind \in Nat /\ BigBlind > 0
    BY StakesAssumption
  <2>5. QED
    BY <2>1, <2>2, <2>3, <2>4, Bounds
<1> HIDE DEF shove
<1>2. MaxRaise > 0 /\ (MaxRaise >= BigBlind \/ AllInLegal)
  BY DEF RaiseOffered, Screen
<1>3. MaxRaise = IF Lockout \/ cap <= Greater(commit[actor], bet) THEN 0 ELSE cap - commit[actor]
  BY DEF MaxRaise, shove
<1>4. ~Lockout /\ ~(cap <= Greater(commit[actor], bet)) /\ MaxRaise = cap - commit[actor]
  <2> HIDE DEF cap
  <2> QED BY <1>2, <1>3
<1>5. cap > bet /\ MaxTotal > bet /\ shove > bet
  BY <1>1, <1>4 DEF Lesser, Greater
<1>6. ActorReach > bet
  BY <1>1, <1>5 DEF MostOK, Lesser
<1>7. MinRaise = IF least > stack[actor] THEN 0 ELSE least
  <2>1. MinRaise = IF Lockout \/ delta <= 0 \/ ActorReach <= bet \/ least > stack[actor]
                   THEN 0 ELSE least
    BY DEF MinRaise
  <2>2. ~(delta <= 0) /\ ~(ActorReach <= bet)
    BY <1>1, <1>6
  <2> HIDE DEF least, delta
  <2>3. QED
    BY <1>4, <2>1, <2>2
<1>8. /\ least \in Nat /\ least > 0 /\ least <= delta
      /\ game.reach = TRUE => least <= cover
  <2>1. delta \in Nat /\ delta > 0 /\ cover \in Nat /\ cover > 0
    BY <1>1, <1>6 DEF Over0
  <2>2. game.reach = TRUE \/ game.reach = FALSE
    BY DEF IInv, TypeOK, GameKinds
  <2> HIDE DEF delta, cover
  <2>3. CASE game.reach = TRUE
    BY <2>1, <2>3 DEF Lesser
  <2>4. CASE game.reach = FALSE
    BY <2>1, <2>4
  <2>5. QED
    BY <2>2, <2>3, <2>4
<1>9. ASSUME least <= MaxRaise, MaxRaise <= stack[actor] PROVE RaiseAccepted
  <2>1. MinRaise = least
    BY <1>1, <1>4, <1>5, <1>7, <1>8, <1>9
  <2>2. QED
    BY <1>8, <1>9, <2>1 DEF RaiseAccepted
<1>10. CASE AllInLegal
  <2>1. shove <= MaxTotal
    BY <1>10 DEF AllInLegal, shove
  <2>2. MaxRaise = stack[actor]
    BY <1>1, <1>4, <2>1 DEF Lesser, shove
  <2>3. CASE least > stack[actor]
    BY <1>7, <1>10, <2>3 DEF RaiseAccepted
  <2>4. CASE ~(least > stack[actor])
    BY <1>1, <1>8, <1>9, <2>2, <2>4
  <2>5. QED
    BY <2>3, <2>4
<1>11. CASE ~AllInLegal
  <2>1. MaxRaise >= BigBlind
    BY <1>2, <1>11
  <2>2. ~(shove <= MaxTotal)
    <3>1. stack[actor] > 0 /\ ~Lockout /\ shove > 0
      BY <1>1, <1>4, <1>5
    <3>2. (Facing /\ shove > bet) \/ (~Facing /\ shove > 0)
      BY <1>5, <3>1
    <3>3. QED
      BY <1>11, <3>1, <3>2 DEF AllInLegal, shove
  <2>3. cap = MaxTotal /\ MaxRaise = MaxTotal - commit[actor] /\ MaxRaise <= stack[actor]
    BY <1>1, <1>4, <2>2 DEF Lesser, shove
  <2>4. ASSUME MaxTotal >= Lesser(MinTotal, shove) PROVE RaiseAccepted
    <3>1. MaxTotal >= MinTotal
      BY <1>1, <2>2, <2>4 DEF Lesser
    <3>2. least <= MaxRaise
      BY <1>1, <1>8, <2>3, <3>1
    <3>3. QED
      BY <1>9, <2>3, <3>2
  <2>5. ASSUME game.reach = TRUE, MaxTotal = ActorReach PROVE RaiseAccepted
    <3>1. least <= MaxRaise
      <4>1. cover = MaxRaise
        BY <1>1, <1>6, <2>3, <2>5 DEF Over0
      <4>2. QED
        BY <1>8, <2>5, <4>1
    <3>2. QED
      BY <1>9, <2>3, <3>1
  <2>6. ASSUME bet = 0, MaxTotal < MinTotal, MinTotal = BigBlind PROVE FALSE
    BY <1>1, <2>1, <2>3, <2>6
  <2>7. QED
    BY <1>6, <2>4, <2>5, <2>6, RaiseFits DEF shove
<1>12. QED
  BY <1>10, <1>11

\* Where bets under a big blind are hidden, the engine takes every raise that is offered,
\* whatever the stacks, but in a pot smaller than a big blind after an all-in that was.
THEOREM OfferedTheorem == Spec => []OfferedRaiseTaken
<1>1. IInv => OfferedRaiseTaken
  <2> SUFFICES ASSUME IInv, Playing, ~game.cover, RaiseOffered
               PROVE  \/ RaiseAccepted
                      \/ ~game.holdem /\ bet \in 1 .. BigBlind - 1 /\ Pot + ToCall < BigBlind
    BY DEF OfferedRaiseTaken
  <2>1. game.cover = FALSE
    BY DEF IInv, TypeOK, GameKinds
  <2>2. QED
    BY <2>1, OfferTaken
<1>2. QED
  BY <1>1, BettingInvariant, PTL

-----------------------------------------------------------------------------
(* The layers of a pot                                                       *)

LEMMA LevelsAre ==
  ASSUME NEW t \in Amounts
  PROVE  /\ IsFiniteSet(Levels(t)) /\ Levels(t) \subseteq Nat /\ \A l \in Levels(t) : l > 0
         /\ \A s \in Seats : t[s] \in Nat /\ (t[s] > 0 => t[s] \in Levels(t))
         /\ \A l \in Levels(t) : \E s \in Seats : t[s] = l
<1>1. IsFiniteSet({t[s] : s \in Seats})
  BY SeatsFinite, ImageFinite
<1>2. IsFiniteSet(Levels(t))
  BY <1>1, FS_Subset DEF Levels
<1>3. \A s \in Seats : t[s] \in Nat
  BY DEF Amounts
<1>4. QED
  BY <1>2, <1>3 DEF Levels

\* The level a layer starts from
Floor(t, l) == LET below == {m \in Levels(t) \cup {0} : m < l}
               IN CHOOSE m \in below : \A k \in below : k <= m
LEMMA FloorIs ==
  ASSUME NEW t \in Amounts, NEW l \in Levels(t)
  PROVE  /\ Floor(t, l) \in Levels(t) \cup {0} /\ Floor(t, l) \in Nat /\ Floor(t, l) < l
         /\ \A m \in Levels(t) \cup {0} : m < l => m <= Floor(t, l)
         /\ LayerEach(t, l) = l - Floor(t, l) /\ LayerEach(t, l) \in Nat /\ l \in Nat
<1> DEFINE below == {m \in Levels(t) \cup {0} : m < l}
<1>1. IsFiniteSet(Levels(t)) /\ Levels(t) \subseteq Nat /\ l \in Nat /\ l > 0
  BY LevelsAre
<1>2. IsFiniteSet(Levels(t) \cup {0})
  BY <1>1, FS_AddElement
<1>3. IsFiniteSet(below) /\ below \subseteq Nat /\ 0 \in below
  BY <1>1, <1>2, FS_Subset
<1>4. \E m \in below : \A k \in below : k <= m
  <2>1. below \subseteq Int /\ below # {}
    BY <1>3
  <2> HIDE DEF below
  <2>2. QED
    BY <1>3, <2>1, MaxExists
<1>5. Floor(t, l) \in below /\ \A k \in below : k <= Floor(t, l)
  BY <1>4 DEF Floor
<1>6. LayerEach(t, l) = l - Floor(t, l)
  BY DEF LayerEach, Floor
<1>7. QED
  BY <1>1, <1>3, <1>5, <1>6

\* The layers up to a level add up to it
EachTo(t, x) == [l \in Levels(t) |-> IF l <= x THEN LayerEach(t, l) ELSE 0]
LEMMA LayersReach ==
  ASSUME NEW t \in Amounts, NEW x \in Levels(t) \cup {0}
  PROVE  EachTo(t, x) \in [Levels(t) -> Nat] /\ Total(EachTo(t, x)) = x
<1> DEFINE D == Levels(t)
           each == [l \in D |-> LayerEach(t, l)]
           upto(y) == {m \in D : m <= y}
           P == {T \in SUBSET D : \A y \in D \cup {0} : T = upto(y) => SumOn(each, T) = y}
<1>1. IsFiniteSet(D) /\ D \subseteq Nat /\ (\A l \in D : l > 0) /\ x \in Nat
  BY LevelsAre
<1>2. each \in [D -> Nat] /\ each \in [D -> Int] /\ EachTo(t, x) \in [D -> Nat]
  BY FloorIs DEF EachTo
<1>3. ASSUME NEW T \in SUBSET D, \A y \in T : T \ {y} \in P PROVE T \in P
  <2> SUFFICES ASSUME NEW y \in D \cup {0}, T = upto(y) PROVE SumOn(each, T) = y
    OBVIOUS
  <2>1. CASE y = 0
    <3>1. T = {}
      BY <1>1, <2>1
    <3> HIDE DEF each
    <3>2. QED
      BY <1>1, <1>2, <2>1, <3>1, SumEmpty
  <2>2. CASE y # 0
    <3>1. y \in D /\ y \in T
      BY <1>1, <2>2
    <3> DEFINE low == Floor(t, y)
    <3>2. /\ low \in D \cup {0} /\ low \in Nat /\ low < y
          /\ \A m \in D \cup {0} : m < y => m <= low
          /\ LayerEach(t, y) = y - low /\ y \in Nat
      BY <3>1, FloorIs
    <3> HIDE DEF low
    <3>3. T \ {y} = upto(low)
      BY <1>1, <3>1, <3>2
    <3>4. SumOn(each, T \ {y}) = low
      BY <1>3, <3>1, <3>2, <3>3
    <3>5. each[y] = LayerEach(t, y)
      BY <3>1
    <3>6. SumOn(each, T) = each[y] + SumOn(each, T \ {y})
      <4> HIDE DEF each
      <4> QED BY <1>1, <1>2, <3>1, SumTakeOut
    <3>7. QED
      BY <3>2, <3>4, <3>5, <3>6
  <2>3. QED
    BY <2>1, <2>2
<1>4. upto(x) \in P
  <2>1. SUBSET D \subseteq P
    <3> HIDE DEF P, D
    <3> QED BY <1>1, <1>3, SubsetInduction
  <2>2. QED
    BY <2>1
<1>5. SumOn(each, upto(x)) = x
  BY <1>4
<1> DEFINE h == [l \in upto(x) |-> EachTo(t, x)[l]]
<1>6. upto(x) \in SUBSET D /\ EachTo(t, x) \in [D -> Int] /\ \A l \in D \ upto(x) : EachTo(t, x)[l] = 0
  BY <1>2 DEF EachTo
<1>7. IsFiniteSet(upto(x)) /\ Total(EachTo(t, x)) = Total(h)
  <2> HIDE DEF upto, D
  <2> QED BY <1>1, <1>6, TotalWithin
<1>8. h \in [upto(x) -> Int] /\ \A l \in upto(x) : h[l] = each[l]
  BY <1>1, <1>2 DEF EachTo
<1>9. SumOn(h, upto(x)) = SumOn(each, upto(x)) /\ Total(h) = SumOn(h, upto(x))
  <2>1. upto(x) \in SUBSET upto(x) /\ upto(x) \subseteq D
    OBVIOUS
  <2>2. DOMAIN h = upto(x) /\ each \in [D -> Int]
    BY <1>2
  <2> HIDE DEF upto, D, each, h
  <2>3. Total(h) = SumOn(h, upto(x))
    BY <2>2, TotalIsSum
  <2>4. SumOn(h, upto(x)) = SumOn(each, upto(x))
    <3> DEFINE U == upto(x)
    <3>1. IsFiniteSet(U) /\ IsFiniteSet(D) /\ h \in [U -> Int] /\ each \in [D -> Int] /\ U \in SUBSET U /\ U \subseteq D
      BY <1>1, <1>7, <1>8, <2>1, <2>2
    <3>2. \A l \in U : h[l] = each[l]
      BY <1>8
    <3> HIDE DEF U
    <3>3. SumOn(h, U) = SumOn(each, U)
      BY <3>1, <3>2, SumSame
    <3>4. QED
      BY <3>3 DEF U
  <2>5. QED
    BY <2>3, <2>4
<1>10. QED
  BY <1>2, <1>5, <1>7, <1>9

\* A layer's chips, seat by seat
From(t, l, s) == IF s \in Contributors(t, l) THEN LayerEach(t, l) ELSE 0
LEMMA LayerChipsAre ==
  ASSUME NEW t \in Amounts, NEW l \in Levels(t)
  PROVE  /\ LayerChips(t, l) \in Nat /\ LayerEach(t, l) \in Nat
         /\ Contributors(t, l) \subseteq Seats /\ IsFiniteSet(Contributors(t, l))
         /\ Cardinality(Contributors(t, l)) \in 1 .. NumSeats
         /\ [s \in Seats |-> From(t, l, s)] \in [Seats -> Nat]
         /\ Total([s \in Seats |-> From(t, l, s)]) = LayerChips(t, l)
<1> DEFINE C == Contributors(t, l)
           e == LayerEach(t, l)
           one == [s \in Seats |-> IF s \in C THEN 1 ELSE 0]
           from == [s \in Seats |-> From(t, l, s)]
<1>1. e \in Nat
  BY FloorIs
<1>2. C \in SUBSET Seats /\ IsFiniteSet(C) /\ Cardinality(C) \in Nat
  BY SeatsFinite, FS_Subset, FS_CardinalityType DEF Contributors
<1>3. Cardinality(C) \in 1 .. NumSeats
  <2>1. PICK s \in Seats : t[s] = l
    BY LevelsAre
  <2>2. C # {}
    BY <2>1, LevelsAre DEF Contributors
  <2>3. Cardinality(C) # 0
    BY <1>2, <2>2, FS_EmptySet
  <2>4. IsFiniteSet(0 .. NumSeats - 1) /\ Cardinality(0 .. NumSeats - 1) = NumSeats
    BY NumSeatsAssumption, RangeSize
  <2>5. Cardinality(C) <= Cardinality(Seats) /\ Cardinality(Seats) = NumSeats
    BY <1>2, <2>4, FS_Subset DEF Seats
  <2>6. QED
    BY <1>2, <2>3, <2>5, NumSeatsAssumption
<1>4. Marks(one, C, Seats)
  BY <1>2 DEF Marks
<1>5. Times(from, e, one, Seats) /\ from \in [Seats -> Nat]
  <2>1. from \in [Seats -> Nat] /\ one \in [Seats -> Int]
    BY <1>1 DEF From
  <2>2. \A s \in Seats : from[s] = e * one[s]
    BY <1>1 DEF From
  <2> HIDE DEF from, one, e
  <2>3. QED
    BY <1>1, <2>1, <2>2 DEF Times
<1>6. Total(one) = Cardinality(C)
  <2> HIDE DEF one, C
  <2> QED BY <1>4, SeatsFinite, TotalMarks
<1>7. Total(from) = e * Total(one)
  <2> HIDE DEF one, from, e
  <2> QED BY <1>5, SeatsFinite, TotalTimes
<1>8. LayerChips(t, l) = e * Cardinality(C) /\ LayerChips(t, l) \in Nat
  BY <1>1, <1>2 DEF LayerChips
<1>9. QED
  BY <1>1, <1>2, <1>3, <1>5, <1>6, <1>7, <1>8

\* ... and layer by layer
LEMMA SeatChipsAre ==
  ASSUME NEW t \in Amounts, NEW s \in Seats
  PROVE  Total([l \in Levels(t) |-> From(t, l, s)]) = t[s]
<1>1. t[s] \in Levels(t) \cup {0} /\ t[s] \in Nat
  BY LevelsAre
<1>2. [l \in Levels(t) |-> From(t, l, s)] = EachTo(t, t[s])
  <2>1. \A l \in Levels(t) : From(t, l, s) = IF l <= t[s] THEN LayerEach(t, l) ELSE 0
    BY <1>1, LevelsAre DEF From, Contributors
  <2>2. QED
    BY <2>1 DEF EachTo
<1>3. QED
  BY <1>1, <1>2, LayersReach

\* All the layers together are the pot
LEMMA LayersHoldPot ==
  ASSUME NEW t \in Amounts
  PROVE  /\ [l \in Levels(t) |-> LayerChips(t, l)] \in [Levels(t) -> Nat]
         /\ Total([l \in Levels(t) |-> LayerChips(t, l)]) = Total(t)
<1> DEFINE L == Levels(t)
           g == [l \in L |-> [s \in Seats |-> From(t, l, s)]]
<1>1. IsFiniteSet(L) /\ IsFiniteSet(Seats)
  BY LevelsAre, SeatsFinite
<1>2. IsTable(g, L, Seats)
  <2>1. \A l \in L, s \in Seats : g[l][s] = From(t, l, s) /\ From(t, l, s) \in Nat
    BY LayerChipsAre DEF From
  <2>2. QED
    BY <2>1 DEF IsTable
<1>3. ASSUME NEW l \in L PROVE Total(Row(g, l, Seats)) = LayerChips(t, l)
  <2>1. Row(g, l, Seats) = [s \in Seats |-> From(t, l, s)]
    BY DEF Row
  <2>2. QED
    BY <2>1, LayerChipsAre
<1>4. ASSUME NEW s \in Seats PROVE Total(Column(g, s, L)) = t[s]
  <2>1. Column(g, s, L) = [l \in L |-> From(t, l, s)]
    BY DEF Column
  <2>2. QED
    BY <2>1, SeatChipsAre
<1>5. [l \in L |-> Total(Row(g, l, Seats))] = [l \in L |-> LayerChips(t, l)]
  BY <1>3
<1>6. [s \in Seats |-> Total(Column(g, s, L))] = t
  <2>1. t = [s \in Seats |-> t[s]]
    BY DEF Amounts
  <2>2. [s \in Seats |-> Total(Column(g, s, L))] = [s \in Seats |-> t[s]]
    BY <1>4
  <2>3. QED
    BY <2>1, <2>2
<1>7. [l \in L |-> LayerChips(t, l)] \in [L -> Nat]
  BY LayerChipsAre
<1> HIDE DEF g, L
<1>8. Total([l \in L |-> Total(Row(g, l, Seats))]) = Total([s \in Seats |-> Total(Column(g, s, L))])
  BY <1>1, <1>2, TotalSwap
<1>9. Total([l \in L |-> LayerChips(t, l)]) = Total(t)
  BY <1>5, <1>6, <1>8
<1>10. QED
  BY <1>7, <1>9 DEF L

-----------------------------------------------------------------------------
(* Dividing a layer                                                          *)

\* distribute_evenly_mask hands out exactly the amount
LEMMA ShareIs ==
  ASSUME NEW W \in SUBSET Seats, W # {}, NEW amount \in Nat, NEW btn \in Seats
  PROVE  /\ [s \in Seats |-> Share(W, amount, btn, s)] \in [Seats -> Nat]
         /\ \A s \in Seats \ W : Share(W, amount, btn, s) = 0
         /\ Total([s \in Seats |-> Share(W, amount, btn, s)]) = amount
<1> DEFINE n == Cardinality(W)
           q == amount \div n
           rest == amount % n
           rem == [s \in Seats |-> -Steps(btn, s)]
           before(s) == {r \in W : Steps(btn, r) < Steps(btn, s)}
           odd == {s \in W : Cardinality(before(s)) < rest}
           one == [s \in Seats |-> IF s \in W THEN 1 ELSE 0]
           mark == [s \in Seats |-> IF s \in odd THEN 1 ELSE 0]
           even == [s \in Seats |-> q * one[s]]
           share == [s \in Seats |-> Share(W, amount, btn, s)]
<1>1. IsFiniteSet(Seats) /\ IsFiniteSet(W) /\ Seats \subseteq Int /\ W \subseteq Int
  <2>1. IsFiniteSet(Seats) /\ Seats \subseteq Nat
    BY SeatsFinite
  <2>2. IsFiniteSet(W)
    BY <2>1, FS_Subset
  <2>3. QED
    BY <2>1, <2>2
<1>2. n \in Nat \ {0}
  BY <1>1, FS_CardinalityType, FS_EmptySet
<1>3. q \in Nat /\ rest \in 0 .. n - 1 /\ amount = n * q + rest
  <2> HIDE DEF n
  <2>1. q \in Int /\ rest \in 0 .. n - 1 /\ rest = amount - n * q
    BY <1>2, DivMod
  <2>2. q \in Nat
    BY <1>2
  <2>3. n * q \in Int
    BY <1>2, <2>1
  <2> HIDE DEF q, rest
  <2>4. QED
    BY <2>1, <2>2, <2>3
<1>4. \A s \in Seats : Steps(btn, s) \in Int
  BY StepsType
<1>5. ASSUME NEW s \in W PROVE before(s) = {r \in W : rem[r] > rem[s] \/ (rem[r] = rem[s] /\ r < s)}
  <2>1. \A r \in W : Steps(btn, r) < Steps(btn, s) <=> (rem[r] > rem[s] \/ (rem[r] = rem[s] /\ r < s))
    <3> SUFFICES ASSUME NEW r \in W
                 PROVE  Steps(btn, r) < Steps(btn, s) <=> (rem[r] > rem[s] \/ (rem[r] = rem[s] /\ r < s))
      OBVIOUS
    <3>1. r \in Seats /\ s \in Seats
      OBVIOUS
    <3>2. rem[r] = -Steps(btn, r) /\ rem[s] = -Steps(btn, s)
      BY <3>1
    <3>3. CASE r = s
      <4>1. s \in Int
        BY <1>1
      <4>2. QED
        BY <1>4, <3>1, <3>2, <3>3, <4>1
    <3>4. CASE r # s
      <4>1. Steps(btn, r) # Steps(btn, s)
        BY <3>1, <3>4, StepsApart
      <4> HIDE DEF rem
      <4>2. QED
        BY <1>4, <3>1, <3>2, <4>1
    <3>5. QED
      BY <3>3, <3>4
  <2> HIDE DEF rem
  <2>2. QED
    BY <2>1
<1>6. odd = Served(rest, rem, W)
  <2> HIDE DEF rem, rest, before
  <2>1. \A s \in W : Cardinality(before(s)) = Rank(s, rem, W)
    BY <1>5 DEF Rank
  <2>2. QED
    BY <2>1 DEF Served
<1>7. Cardinality(odd) = rest /\ odd \in SUBSET Seats
  <2>1. rem \in [Seats -> Int]
    BY <1>4
  <2>2. rest \in 0 .. Cardinality(W)
    BY <1>2, <1>3
  <2> HIDE DEF rem, rest, odd
  <2>3. Cardinality(Served(rest, rem, W)) = rest
    BY <1>1, <2>1, <2>2, RankCount
  <2>4. QED
    BY <1>6, <2>3 DEF odd
<1>8. Marks(mark, odd, Seats) /\ Marks(one, W, Seats)
  <2> HIDE DEF odd
  <2> QED BY <1>7 DEF Marks
<1> HIDE DEF odd, n, rest, q
<1>9. \A s \in Seats : Share(W, amount, btn, s) = even[s] + mark[s]
  <2> SUFFICES ASSUME NEW s \in Seats PROVE Share(W, amount, btn, s) = even[s] + mark[s]
    OBVIOUS
  <2>1. CASE s \notin W
    <3>1. Share(W, amount, btn, s) = 0
      BY <2>1 DEF Share
    <3>2. s \notin odd
      BY <2>1 DEF odd
    <3>3. one[s] = 0 /\ mark[s] = 0 /\ even[s] = q * one[s]
      BY <2>1, <3>2
    <3>4. q * 0 = 0
      BY <1>3
    <3>5. QED
      BY <3>1, <3>3, <3>4
  <2>2. CASE s \in W
    <3>1. s \in odd <=> Cardinality(before(s)) < rest
      BY <2>2 DEF odd
    <3>2. Share(W, amount, btn, s) = q + (IF Cardinality(before(s)) < rest THEN 1 ELSE 0)
      BY <2>2 DEF Share, q, rest, n
    <3>3. one[s] = 1 /\ even[s] = q * one[s] /\ mark[s] = IF s \in odd THEN 1 ELSE 0
      BY <2>2
    <3>4. q * 1 = q
      BY <1>3
    <3> HIDE DEF even, one, mark
    <3>5. QED
      BY <3>1, <3>2, <3>3, <3>4
  <2>3. QED
    BY <2>1, <2>2
<1>10. share \in [Seats -> Nat] /\ Adds(share, even, mark, Seats) /\ Times(even, q, one, Seats)
  <2>1. one \in [Seats -> Nat] /\ mark \in [Seats -> Nat] /\ even \in [Seats -> Nat]
    BY <1>3
  <2>2. \A s \in Seats : share[s] = even[s] + mark[s]
    BY <1>9
  <2>3. \A s \in Seats : even[s] = q * one[s]
    OBVIOUS
  <2>4. DOMAIN share = Seats /\ share = [s \in Seats |-> share[s]]
    OBVIOUS
  <2> HIDE DEF share, even, mark, one
  <2>5. share \in [Seats -> Nat]
    BY <2>1, <2>2, <2>4
  <2>6. QED
    BY <1>3, <2>1, <2>2, <2>3, <2>5 DEF Adds, Times
<1>11. Total(share) = amount
  <2> HIDE DEF share, even, mark, one
  <2>1. Total(share) = Total(even) + Total(mark)
    BY <1>1, <1>10, TotalAdds
  <2>2. Total(even) = q * Total(one)
    BY <1>1, <1>10, TotalTimes
  <2>3. Total(mark) = rest /\ Total(one) = n
    BY <1>1, <1>7, <1>8, TotalMarks DEF n
  <2>4. q * n = n * q
    BY <1>2, <1>3
  <2>5. QED
    BY <1>3, <2>1, <2>2, <2>3, <2>4
<1>12. QED
  <2>1. \A s \in Seats \ W : Share(W, amount, btn, s) = 0
    BY DEF Share
  <2>2. QED
    BY <1>10, <1>11, <2>1

\* Somebody has the best hand
LEMMA BestIs ==
  ASSUME NEW E \in SUBSET Seats, E # {}, NEW rank \in [Seats -> Int]
  PROVE  Best(E, rank) # {} /\ Best(E, rank) \subseteq E /\ Best(E, rank) \in SUBSET Seats
<1> DEFINE g == [s \in E |-> rank[s]]
           V == {g[s] : s \in E}
<1>1. IsFiniteSet(V) /\ V \subseteq Int /\ V # {}
  <2>1. IsFiniteSet(E)
    BY SeatsFinite, FS_Subset
  <2>2. IsFiniteSet(V)
    <3> HIDE DEF g
    <3> QED BY <2>1, ImageFinite
  <2>3. QED
    BY <2>2
<1>2. PICK m \in V : \A v \in V : v <= m
  <2> HIDE DEF V
  <2> QED BY <1>1, MaxExists
<1>3. PICK s \in E : rank[s] = m
  BY <1>2
<1>4. \A r \in E : rank[r] <= rank[s]
  BY <1>2, <1>3
<1>5. QED
  BY <1>3, <1>4 DEF Best

\* The strengths of the hands, on one board or two
Layouts == {<<r>> : r \in [Seats -> Int]} \cup {<<r, q>> : r \in [Seats -> Int], q \in [Seats -> Int]}

LEMMA BoardsAre ==
  ASSUME NEW ranks \in Layouts, NEW chips \in Nat
  PROVE  /\ IsFiniteSet(DOMAIN ranks)
         /\ \A b \in DOMAIN ranks : ranks[b] \in [Seats -> Int] /\ OnBoard(chips, b, ranks) \in Nat
         /\ Total([b \in DOMAIN ranks |-> OnBoard(chips, b, ranks)]) = chips
<1> DEFINE on == [b \in DOMAIN ranks |-> OnBoard(chips, b, ranks)]
           half == chips \div 2
<1>1. half \in Nat /\ chips - half \in Nat
  OBVIOUS
<1>2. CASE ranks \in {<<r>> : r \in [Seats -> Int]}
  <2>1. PICK r \in [Seats -> Int] : ranks = <<r>>
    BY <1>2
  <2>2. DOMAIN ranks = {1} /\ Len(ranks) = 1 /\ ranks[1] = r
    BY <2>1
  <2>3. IsFiniteSet({1}) /\ OnBoard(chips, 1, ranks) = chips
    BY <2>2, FS_Singleton DEF OnBoard
  <2>4. on \in [{1} -> Int] /\ on[1] = chips
    BY <2>2, <2>3
  <2>5. Total(on) = chips
    <3>1. 1 \in {1} /\ \A y \in {1} \ {1} : on[y] = 0
      OBVIOUS
    <3> HIDE DEF on
    <3>2. QED
      BY <2>3, <2>4, <3>1, TotalOnly
  <2>6. QED
    BY <2>2, <2>3, <2>5
<1>3. CASE ranks \in {<<r, q>> : r \in [Seats -> Int], q \in [Seats -> Int]}
  <2>1. PICK r \in [Seats -> Int], q \in [Seats -> Int] : ranks = <<r, q>>
    BY <1>3
  <2>2. DOMAIN ranks = {1, 2} /\ Len(ranks) = 2 /\ ranks[1] = r /\ ranks[2] = q
    BY <2>1
  <2>3. /\ OnBoard(chips, 1, ranks) = half /\ OnBoard(chips, 2, ranks) = chips - half
    BY <2>2 DEF OnBoard
  <2>4. IsFiniteSet({1, 2})
    <3>1. IsFiniteSet({1})
      BY FS_Singleton
    <3>2. IsFiniteSet({1} \cup {2}) /\ {1} \cup {2} = {1, 2}
      BY <3>1, FS_AddElement
    <3>3. QED
      BY <3>2
  <2> HIDE DEF half
  <2> DEFINE first == [b \in {1, 2} |-> IF b = 1 THEN half ELSE 0]
             second == [b \in {1, 2} |-> IF b = 2 THEN chips - half ELSE 0]
  <2>5. Adds(on, first, second, {1, 2})
    <3>1. on \in [{1, 2} -> Int] /\ first \in [{1, 2} -> Int] /\ second \in [{1, 2} -> Int]
      BY <1>1, <2>2, <2>3
    <3>2. on[1] = half /\ on[2] = chips - half
      BY <2>2, <2>3
    <3>3. first[1] = half /\ first[2] = 0 /\ second[1] = 0 /\ second[2] = chips - half
      OBVIOUS
    <3> HIDE DEF on, first, second
    <3>4. \A b \in {1, 2} : on[b] = first[b] + second[b]
      BY <1>1, <3>2, <3>3
    <3>5. QED
      BY <3>1, <3>4 DEF Adds
  <2>6. Total(first) = half /\ Total(second) = chips - half
    <3>1. /\ first \in [{1, 2} -> Int] /\ second \in [{1, 2} -> Int]
          /\ first[1] = half /\ second[2] = chips - half
          /\ \A y \in {1, 2} \ {1} : first[y] = 0
          /\ \A y \in {1, 2} \ {2} : second[y] = 0
      BY <1>1
    <3> HIDE DEF first, second
    <3>2. QED
      BY <2>4, <3>1, TotalOnly
  <2>7. Total(on) = chips
    <3> HIDE DEF on, first, second
    <3>1. Total(on) = Total(first) + Total(second)
      BY <2>4, <2>5, TotalAdds
    <3>2. QED
      BY <1>1, <2>6, <3>1
  <2>8. QED
    BY <1>1, <2>2, <2>3, <2>4, <2>7
<1>4. QED
  BY <1>2, <1>3 DEF Layouts

\* What the boards pay of a layer somebody can win: LayerWon's sum, seat by seat
Paid(E, chips, ranks, btn, s) ==
  Total([b \in DOMAIN ranks |-> Share(Best(E, ranks[b]), OnBoard(chips, b, ranks), btn, s)])
LEMMA PaidIs ==
  ASSUME NEW E \in SUBSET Seats, E # {}, NEW chips \in Nat, NEW ranks \in Layouts, NEW btn \in Seats
  PROVE  /\ [s \in Seats |-> Paid(E, chips, ranks, btn, s)] \in [Seats -> Nat]
         /\ \A s \in Seats \ E : Paid(E, chips, ranks, btn, s) = 0
         /\ Total([s \in Seats |-> Paid(E, chips, ranks, btn, s)]) = chips
<1> DEFINE B == DOMAIN ranks
           on == [b \in B |-> OnBoard(chips, b, ranks)]
           g == [b \in B |-> [s \in Seats |-> Share(Best(E, ranks[b]), on[b], btn, s)]]
           paid == [s \in Seats |-> Paid(E, chips, ranks, btn, s)]
<1>1. IsFiniteSet(B) /\ Total(on) = chips /\ \A b \in B : ranks[b] \in [Seats -> Int] /\ on[b] \in Nat
  BY BoardsAre
<1>2. ASSUME NEW b \in B
      PROVE  /\ g[b] \in [Seats -> Nat] /\ Total(g[b]) = on[b]
             /\ \A s \in Seats \ E : g[b][s] = 0
  <2> DEFINE W == Best(E, ranks[b])
             a == on[b]
  <2>1. W # {} /\ W \subseteq E /\ W \in SUBSET Seats /\ a \in Nat
    BY <1>1, BestIs
  <2>2. g[b] = [s \in Seats |-> Share(W, a, btn, s)]
    OBVIOUS
  <2> HIDE DEF W, a, g
  <2>3. /\ [s \in Seats |-> Share(W, a, btn, s)] \in [Seats -> Nat]
        /\ \A s \in Seats \ W : Share(W, a, btn, s) = 0
        /\ Total([s \in Seats |-> Share(W, a, btn, s)]) = a
    BY <2>1, ShareIs
  <2>4. \A s \in Seats \ E : g[b][s] = 0
    BY <2>1, <2>2, <2>3
  <2>5. QED
    BY <2>2, <2>3, <2>4 DEF a
<1>3. \A s \in Seats : Paid(E, chips, ranks, btn, s) = Total(Column(g, s, B))
  <2> SUFFICES ASSUME NEW s \in Seats PROVE Paid(E, chips, ranks, btn, s) = Total(Column(g, s, B))
    OBVIOUS
  <2>1. Column(g, s, B) = [b \in B |-> Share(Best(E, ranks[b]), OnBoard(chips, b, ranks), btn, s)]
    BY DEF Column
  <2>2. QED
    BY <2>1 DEF Paid
<1>4. IsTable(g, B, Seats)
  <2> SUFFICES ASSUME NEW b \in B, NEW s \in Seats PROVE g[b][s] \in Int
    BY DEF IsTable
  <2> HIDE DEF g
  <2>1. QED
    BY <1>2
<1>5. \A b \in B : Row(g, b, Seats) = g[b]
  BY DEF Row
<1> HIDE DEF g
<1>6. ASSUME NEW s \in Seats PROVE Column(g, s, B) \in [B -> Nat] /\ Total(Column(g, s, B)) \in Nat
  <2>1. Column(g, s, B) \in [B -> Nat]
    BY <1>2 DEF Column
  <2>2. QED
    BY <1>1, <2>1, TotalNat
<1>7. paid \in [Seats -> Nat]
  BY <1>3, <1>6
<1>8. \A s \in Seats \ E : Paid(E, chips, ranks, btn, s) = 0
  <2> SUFFICES ASSUME NEW s \in Seats \ E PROVE Paid(E, chips, ranks, btn, s) = 0
    OBVIOUS
  <2>1. Column(g, s, B) \in [B -> Int] /\ \A b \in B : Column(g, s, B)[b] = 0
    BY <1>2 DEF Column
  <2>2. Total(Column(g, s, B)) = 0
    BY <1>1, <2>1, TotalZero
  <2>3. QED
    BY <1>3, <2>2
<1>9. Total(paid) = chips
  <2>1. [b \in B |-> Total(Row(g, b, Seats))] = on
    BY <1>2, <1>5
  <2>2. [s \in Seats |-> Total(Column(g, s, B))] = paid
    BY <1>3
  <2> HIDE DEF paid, on, B
  <2>3. Total([b \in B |-> Total(Row(g, b, Seats))]) = Total([s \in Seats |-> Total(Column(g, s, B))])
    <3>1. IsFiniteSet(B) /\ IsFiniteSet(Seats)
      BY <1>1, SeatsFinite
    <3>2. QED
      BY <3>1, <1>4, TotalSwap
  <2>4. QED
    BY <1>1, <2>1, <2>2, <2>3
<1>10. QED
  BY <1>7, <1>8, <1>9

\* A layer is paid out to the chip, and to seats that are in for it
LayerWins(f, t, ranks, btn, l) == [s \in Seats |-> LayerWon(f, t, ranks, btn, l, s)]
LEMMA LayerPaid ==
  ASSUME NEW t \in Amounts, NEW f \in SUBSET Seats, NEW ranks \in Layouts, NEW btn \in Seats,
         NEW l \in Levels(t)
  PROVE  /\ LayerWins(f, t, ranks, btn, l) \in [Seats -> Nat]
         /\ Total(LayerWins(f, t, ranks, btn, l)) = LayerChips(t, l)
         /\ \A s \in Seats \ Contributors(t, l) : LayerWon(f, t, ranks, btn, l, s) = 0
         /\ Eligible(f, t, l) # {} => \A s \in f : LayerWon(f, t, ranks, btn, l, s) = 0
         /\ \A s \in Seats : LayerWon(f, t, ranks, btn, l, s) <= LayerChips(t, l)
<1> DEFINE E == Eligible(f, t, l)
           won == [s \in Seats |-> LayerWon(f, t, ranks, btn, l, s)]
           chips == LayerChips(t, l)
<1>1. /\ chips \in Nat /\ Contributors(t, l) \subseteq Seats
      /\ [s \in Seats |-> From(t, l, s)] \in [Seats -> Nat]
      /\ Total([s \in Seats |-> From(t, l, s)]) = chips
  BY LayerChipsAre
<1>2. E \in SUBSET Seats /\ E \subseteq Contributors(t, l) /\ E \cap f = {}
  BY <1>1 DEF Eligible
<1>3. /\ won \in [Seats -> Nat] /\ Total(won) = chips
      /\ \A s \in Seats \ Contributors(t, l) : won[s] = 0
      /\ E # {} => \A s \in f : won[s] = 0
  <2>1. CASE E = {}
    <3>1. won = [s \in Seats |-> From(t, l, s)]
      BY <2>1 DEF LayerWon, From
    <3>2. \A s \in Seats \ Contributors(t, l) : won[s] = 0
      BY <2>1 DEF LayerWon
    <3> HIDE DEF won, E, chips
    <3>3. QED
      BY <1>1, <2>1, <3>1, <3>2
  <2>2. CASE E # {}
    <3>1. \A s \in Seats : LayerWon(f, t, ranks, btn, l, s) = Paid(E, chips, ranks, btn, s)
      BY <2>2 DEF LayerWon, Paid
    <3>2. won = [s \in Seats |-> Paid(E, chips, ranks, btn, s)]
      BY <3>1
    <3> HIDE DEF won, E, chips
    <3>3. /\ [s \in Seats |-> Paid(E, chips, ranks, btn, s)] \in [Seats -> Nat]
          /\ \A s \in Seats \ E : Paid(E, chips, ranks, btn, s) = 0
          /\ Total([s \in Seats |-> Paid(E, chips, ranks, btn, s)]) = chips
      BY <1>1, <1>2, <2>2, PaidIs
    <3>4. \A s \in Seats \ E : won[s] = 0
      BY <3>2, <3>3
    <3>5. QED
      BY <1>2, <3>2, <3>3, <3>4
  <2>3. QED
    BY <2>1, <2>2
<1>4. \A s \in Seats : won[s] <= chips
  <2> HIDE DEF won, chips
  <2>1. \A s \in Seats : won[s] <= Total(won)
    BY <1>3, SeatsFinite, TotalNat
  <2>2. QED
    BY <1>3, <2>1
<1>5. \A s \in Seats : won[s] = LayerWon(f, t, ranks, btn, l, s)
  OBVIOUS
<1>6. QED
  <2>1. /\ \A s \in Seats \ Contributors(t, l) : LayerWon(f, t, ranks, btn, l, s) = 0
        /\ E # {} => \A s \in f : LayerWon(f, t, ranks, btn, l, s) = 0
        /\ \A s \in Seats : LayerWon(f, t, ranks, btn, l, s) <= chips
    <3> HIDE DEF won, E
    <3> QED BY <1>3, <1>4, <1>5
  <2>2. QED
    BY <1>3, <2>1 DEF LayerWins

\* One seat is left
LEMMA OneLeft ==
  ASSUME NEW f \in SUBSET Seats, Cardinality(Live(f)) = 1
  PROVE  Survivor(f) \in Seats /\ Live(f) = {Survivor(f)} /\ Survivor(f) \notin f
<1>1. IsFiniteSet(Live(f))
  BY SeatsFinite, FS_Subset DEF Live
<1>2. PICK x : Live(f) = {x}
  BY <1>1, FS_Singleton
<1>3. Survivor(f) = x
  BY <1>2 DEF Survivor
<1>4. QED
  BY <1>2, <1>3 DEF Live

\* What each seat put in as far as x covers it, and what goes back
Matched(t, x) == [r \in Seats |-> Lesser(t[r], x)]
LEMMA MatchedIs ==
  ASSUME NEW t \in Amounts, NEW x \in Nat
  PROVE  /\ Matched(t, x) \in [Seats -> Nat] /\ Total(Matched(t, x)) \in Nat
         /\ \A s \in Seats : Matched(t, x)[s] <= t[s] /\ (t[s] <= x => Matched(t, x)[s] = t[s])
<1>1. \A s \in Seats : t[s] \in Nat
  BY DEF Amounts
<1>2. Matched(t, x) \in [Seats -> Nat]
  BY <1>1 DEF Matched, Lesser
<1>3. \A s \in Seats : Matched(t, x)[s] <= t[s] /\ (t[s] <= x => Matched(t, x)[s] = t[s])
  BY <1>1 DEF Matched, Lesser
<1>4. QED
  BY <1>2, <1>3, SeatsFinite, TotalNat

\* award_single_survivor
LEMMA SurvivorPaid ==
  ASSUME NEW t \in Amounts, NEW f \in SUBSET Seats, NEW ranks, NEW btn, Cardinality(Live(f)) = 1
  PROVE  LET x == Survivor(f)
             won == Won(f, t, ranks, btn)
         IN  /\ won \in [Seats -> Nat] /\ Total(won) = Total(t)
             /\ won[x] = Total(Matched(t, t[x]))
             /\ \A s \in f : won[s] = t[s] - Matched(t, t[x])[s]
<1> DEFINE x == Survivor(f)
           won == Won(f, t, ranks, btn)
           less == Matched(t, t[x])
           rest == [s \in Seats |-> t[s] - less[s]]
<1>1. x \in Seats /\ Live(f) = {x} /\ x \notin f
  BY OneLeft
<1>2. t \in [Seats -> Nat] /\ t[x] \in Nat
  BY <1>1 DEF Amounts
<1>3. /\ less \in [Seats -> Nat] /\ Total(less) \in Nat
      /\ \A s \in Seats : less[s] <= t[s] /\ (t[s] <= t[x] => less[s] = t[s])
  BY <1>2, MatchedIs
<1>4. won = [s \in Seats |-> IF s = x THEN Total(less) ELSE t[s] - less[s]]
  <2>1. \A s \in Seats : SurvivorWon(f, t, s) = IF s = x THEN Total(less) ELSE t[s] - less[s]
    BY <1>1 DEF SurvivorWon, Matched
  <2>2. won = [s \in Seats |-> SurvivorWon(f, t, s)]
    BY DEF Won
  <2> HIDE DEF won, less
  <2>3. QED
    BY <2>1, <2>2
<1> HIDE DEF less, won
<1>5. rest \in [Seats -> Nat] /\ rest[x] = 0
  <2>1. less[x] = t[x]
    BY <1>1, <1>2, <1>3
  <2>2. QED
    BY <1>1, <1>2, <1>3, <2>1
<1>6. won \in [Seats -> Nat]
  BY <1>3, <1>4, <1>5
<1>7. Becomes(won, rest, x, Total(less), Seats) /\ Adds(t, less, rest, Seats)
  <2>1. \A s \in Seats : t[s] = less[s] + rest[s]
    BY <1>2, <1>3
  <2>2. won[x] = Total(less) /\ \A s \in Seats \ {x} : won[s] = rest[s]
    BY <1>1, <1>4
  <2> HIDE DEF rest
  <2>3. QED
    BY <1>1, <1>2, <1>3, <1>5, <1>6, <2>1, <2>2 DEF Becomes, Adds
<1>8. Total(won) = Total(rest) + (Total(less) - rest[x]) /\ Total(t) = Total(less) + Total(rest)
  <2> HIDE DEF rest
  <2>1. Total(won) = Total(rest) + (Total(less) - rest[x])
    BY <1>7, SeatsFinite, TotalBecomes
  <2>2. Total(t) = Total(less) + Total(rest)
    BY <1>7, SeatsFinite, TotalAdds
  <2>3. QED
    BY <2>1, <2>2
<1>9. Total(rest) \in Int
  <2>1. rest \in [Seats -> Int]
    BY <1>5
  <2> HIDE DEF rest
  <2> QED BY <2>1, SeatsFinite, TotalType
<1>10. Total(won) = Total(t)
  <2> HIDE DEF rest
  <2> QED BY <1>3, <1>5, <1>8, <1>9
<1>11. won[x] = Total(less) /\ \A s \in f : won[s] = t[s] - less[s]
  BY <1>1, <1>4
<1>12. QED
  BY <1>6, <1>10, <1>11 DEF won, less

\* What the seats win, layer by layer
Wins(f, t, ranks, btn) == [l \in Levels(t) |-> LayerWins(f, t, ranks, btn, l)]
LEMMA WinsAre ==
  ASSUME NEW t \in Amounts, NEW f \in SUBSET Seats, NEW ranks \in Layouts, NEW btn \in Seats
  PROVE  LET g == Wins(f, t, ranks, btn)
             L == Levels(t)
         IN  /\ IsTable(g, L, Seats)
             /\ \A s \in Seats : /\ Column(g, s, L) \in [L -> Nat]
                                 /\ Column(g, s, L) = [l \in L |-> LayerWon(f, t, ranks, btn, l, s)]
             /\ [l \in L |-> Total(Row(g, l, Seats))] = [l \in L |-> LayerChips(t, l)]
<1> DEFINE g == Wins(f, t, ranks, btn)
           L == Levels(t)
<1>0. ASSUME NEW l \in L
      PROVE  /\ LayerWins(f, t, ranks, btn, l) \in [Seats -> Nat]
             /\ Total(LayerWins(f, t, ranks, btn, l)) = LayerChips(t, l)
  BY LayerPaid
<1>1. \A l \in L, s \in Seats : g[l][s] = LayerWon(f, t, ranks, btn, l, s) /\ g[l][s] \in Nat
  <2>1. \A l \in L : g[l] = LayerWins(f, t, ranks, btn, l)
    BY DEF Wins
  <2>2. \A l \in L, s \in Seats : LayerWins(f, t, ranks, btn, l)[s] = LayerWon(f, t, ranks, btn, l, s)
    BY DEF LayerWins
  <2> HIDE DEF g, L
  <2>3. QED
    BY <1>0, <2>1, <2>2
<1>2. \A l \in L : Row(g, l, Seats) = LayerWins(f, t, ranks, btn, l)
  BY DEF Row, Wins, LayerWins
<1>3. \A l \in L : Total(Row(g, l, Seats)) = LayerChips(t, l)
  BY <1>0, <1>2
<1> HIDE DEF g, L
<1>4. IsTable(g, L, Seats)
  BY <1>1 DEF IsTable
<1>5. \A s \in Seats : /\ Column(g, s, L) \in [L -> Nat]
                       /\ Column(g, s, L) = [l \in L |-> LayerWon(f, t, ranks, btn, l, s)]
  BY <1>1 DEF Column
<1>6. [l \in L |-> Total(Row(g, l, Seats))] = [l \in L |-> LayerChips(t, l)]
  BY <1>3
<1>7. QED
  BY <1>4, <1>5, <1>6 DEF g, L

\* The engine pays out exactly the chips that went in
LEMMA WonIsPot ==
  ASSUME NEW t \in Amounts, NEW f \in SUBSET Seats, NEW ranks \in Layouts, NEW btn \in Seats
  PROVE  Won(f, t, ranks, btn) \in [Seats -> Nat] /\ Total(Won(f, t, ranks, btn)) = Total(t)
<1> DEFINE won == Won(f, t, ranks, btn)
           g == Wins(f, t, ranks, btn)
           L == Levels(t)
<1>1. CASE Cardinality(Live(f)) = 1
  BY <1>1, SurvivorPaid
<1>2. CASE Cardinality(Live(f)) # 1
  <2>1. /\ IsTable(g, L, Seats)
        /\ \A s \in Seats : /\ Column(g, s, L) \in [L -> Nat]
                            /\ Column(g, s, L) = [l \in L |-> LayerWon(f, t, ranks, btn, l, s)]
        /\ [l \in L |-> Total(Row(g, l, Seats))] = [l \in L |-> LayerChips(t, l)]
    BY WinsAre
  <2>2. IsFiniteSet(L) /\ Total([l \in L |-> LayerChips(t, l)]) = Total(t)
    BY LevelsAre, LayersHoldPot
  <2>3. won = [s \in Seats |-> Total([l \in L |-> LayerWon(f, t, ranks, btn, l, s)])]
    BY <1>2 DEF Won
  <2>4. won = [s \in Seats |-> Total(Column(g, s, L))]
    <3> HIDE DEF won, g, L
    <3> QED BY <2>1, <2>3
  <2> HIDE DEF won, g, L
  <2>5. won \in [Seats -> Nat]
    <3>1. \A s \in Seats : Total(Column(g, s, L)) \in Nat
      BY <2>1, <2>2, TotalNat
    <3>2. QED
      BY <2>4, <3>1
  <2>6. IsFiniteSet(Seats)
    BY SeatsFinite
  <2>7. Total([l \in L |-> Total(Row(g, l, Seats))]) = Total([s \in Seats |-> Total(Column(g, s, L))])
    BY <2>1, <2>2, <2>6, TotalSwap
  <2>8. Total(won) = Total(t)
    BY <2>1, <2>2, <2>4, <2>7
  <2>9. QED
    BY <2>5, <2>8 DEF won
<1>3. QED
  BY <1>1, <1>2

\* Some seat that stayed has put in as much as any that gave up
StayedHoldsTop(f, t) == \A s \in f : \E r \in Live(f) : t[s] <= t[r]

\* Every layer can be won by somebody
LEMMA LayersContested ==
  ASSUME NEW t \in Amounts, NEW f \in SUBSET Seats, StayedHoldsTop(f, t), NEW l \in Levels(t)
  PROVE  Eligible(f, t, l) # {}
<1>1. l \in Nat /\ \A s \in Seats : t[s] \in Nat
  BY LevelsAre
<1>2. PICK s \in Seats : t[s] = l
  BY LevelsAre
<1>3. CASE s \in f
  <2>1. PICK r \in Live(f) : t[s] <= t[r]
    BY <1>3 DEF StayedHoldsTop
  <2>2. r \in Seats /\ r \notin f
    BY DEF Live
  <2>3. r \in Eligible(f, t, l)
    BY <1>1, <1>2, <2>1, <2>2 DEF Eligible, Contributors
  <2>4. QED
    BY <2>3
<1>4. CASE s \notin f
  <2>1. s \in Eligible(f, t, l)
    BY <1>1, <1>2, <1>4 DEF Eligible, Contributors
  <2>2. QED
    BY <2>1
<1>5. QED
  BY <1>3, <1>4

\* What the layers up to x hold is what each seat put in up to x
LEMMA LayersUpTo ==
  ASSUME NEW t \in Amounts, NEW x \in Levels(t) \cup {0}
  PROVE  /\ [l \in Levels(t) |-> IF l <= x THEN LayerChips(t, l) ELSE 0] \in [Levels(t) -> Nat]
         /\ Total([l \in Levels(t) |-> IF l <= x THEN LayerChips(t, l) ELSE 0]) = Total(Matched(t, x))
<1> DEFINE L == Levels(t)
           g == [l \in L |-> [s \in Seats |-> IF l <= x THEN From(t, l, s) ELSE 0]]
           upto == [l \in L |-> IF l <= x THEN LayerChips(t, l) ELSE 0]
<1>1. IsFiniteSet(L) /\ L \subseteq Nat /\ x \in Nat /\ \A s \in Seats : t[s] \in L \cup {0} /\ t[s] \in Nat
  BY LevelsAre
<1>2. ASSUME NEW l \in L
      PROVE  /\ LayerChips(t, l) \in Nat /\ [s \in Seats |-> From(t, l, s)] \in [Seats -> Nat]
             /\ Total([s \in Seats |-> From(t, l, s)]) = LayerChips(t, l)
  BY LayerChipsAre
<1>3. IsTable(g, L, Seats)
  <2> SUFFICES ASSUME NEW l \in L, NEW s \in Seats PROVE g[l][s] \in Int
    BY DEF IsTable
  <2>1. From(t, l, s) \in Nat
    BY <1>2
  <2>2. QED
    BY <2>1
<1>4. \A l \in L : Total(Row(g, l, Seats)) = upto[l]
  <2> SUFFICES ASSUME NEW l \in L PROVE Total(Row(g, l, Seats)) = upto[l]
    OBVIOUS
  <2>1. Row(g, l, Seats) = [s \in Seats |-> IF l <= x THEN From(t, l, s) ELSE 0]
    BY DEF Row
  <2>2. upto[l] = IF l <= x THEN LayerChips(t, l) ELSE 0
    OBVIOUS
  <2>3. CASE l <= x
    <3>1. Row(g, l, Seats) = [s \in Seats |-> From(t, l, s)]
      BY <2>1, <2>3
    <3>2. QED
      BY <1>2, <2>2, <2>3, <3>1
  <2>4. CASE ~(l <= x)
    <3> DEFINE row == Row(g, l, Seats)
    <3>1. row \in [Seats -> Int] /\ \A s \in Seats : row[s] = 0
      BY <2>1, <2>4
    <3> HIDE DEF row
    <3>2. Total(row) = 0
      BY <3>1, SeatsFinite, TotalZero
    <3>3. QED
      BY <2>2, <2>4, <3>2 DEF row
  <2>5. QED
    BY <2>3, <2>4
<1>5. \A s \in Seats : Total(Column(g, s, L)) = Matched(t, x)[s]
  <2> SUFFICES ASSUME NEW s \in Seats PROVE Total(Column(g, s, L)) = Matched(t, x)[s]
    OBVIOUS
  <2> DEFINE y == Lesser(t[s], x)
  <2>1. y \in L \cup {0} /\ y \in Nat /\ \A l \in L : l <= y <=> l <= t[s] /\ l <= x
    BY <1>1 DEF Lesser
  <2> HIDE DEF y
  <2>2. \A l \in L : (IF l <= x THEN From(t, l, s) ELSE 0) = IF l <= y THEN LayerEach(t, l) ELSE 0
    <3>1. \A l \in L : From(t, l, s) = IF l <= t[s] THEN LayerEach(t, l) ELSE 0
      BY <1>1 DEF From, Contributors
    <3>2. QED
      BY <2>1, <3>1
  <2>3. Column(g, s, L) = EachTo(t, y)
    BY <2>2 DEF Column, EachTo
  <2>4. Total(EachTo(t, y)) = y
    BY <2>1, LayersReach
  <2>5. QED
    BY <2>3, <2>4 DEF Matched, y
<1>6. upto \in [L -> Nat]
  BY <1>2
<1>7. upto = [l \in L |-> Total(Row(g, l, Seats))]
  <2> HIDE DEF g
  <2> QED BY <1>4
<1>8. Matched(t, x) = [s \in Seats |-> Total(Column(g, s, L))]
  <2> HIDE DEF g
  <2> QED BY <1>5 DEF Matched
<1>9. IsFiniteSet(Seats) /\ IsFiniteSet(L)
  BY <1>1, SeatsFinite
<1> HIDE DEF g, upto, L
<1>10. Total([l \in L |-> Total(Row(g, l, Seats))]) = Total([s \in Seats |-> Total(Column(g, s, L))])
  BY <1>3, <1>9, TotalSwap
<1>11. QED
  BY <1>6, <1>7, <1>8, <1>10 DEF upto, L

\* A winner takes from each seat no more than they put in themselves
LEMMA WinnersMatch ==
  ASSUME NEW t \in Amounts, NEW f \in SUBSET Seats, NEW ranks \in Layouts, NEW btn \in Seats,
         StayedHoldsTop(f, t), NEW s \in Seats
  PROVE  /\ s \in f => Won(f, t, ranks, btn)[s] = 0
         /\ s \notin f => Won(f, t, ranks, btn)[s] <= Total(Matched(t, t[s]))
<1> DEFINE won == Won(f, t, ranks, btn)
           L == Levels(t)
<1>1. t[s] \in Nat /\ t[s] \in L \cup {0}
  BY LevelsAre
<1>2. Total(Matched(t, t[s])) \in Nat
  BY <1>1, MatchedIs
<1>3. CASE Cardinality(Live(f)) = 1
  <2> DEFINE x == Survivor(f)
  <2>1. x \in Seats /\ Live(f) = {x}
    BY <1>3, OneLeft
  <2>2. won[x] = Total(Matched(t, t[x])) /\ \A r \in f : won[r] = t[r] - Matched(t, t[x])[r]
    BY <1>3, SurvivorPaid
  <2>3. ASSUME s \in f PROVE won[s] = 0
    <3>1. t[s] <= t[x] /\ t[x] \in Nat
      BY <2>1, <2>3, LevelsAre DEF StayedHoldsTop
    <3>2. Matched(t, t[x])[s] = t[s]
      BY <3>1, MatchedIs
    <3> HIDE DEF won, x
    <3>3. QED
      BY <1>1, <2>2, <2>3, <3>2
  <2>4. ASSUME s \notin f PROVE won[s] <= Total(Matched(t, t[s]))
    <3>1. s = x
      BY <2>1, <2>4 DEF Live
    <3> HIDE DEF won, x
    <3>2. QED
      BY <1>2, <2>2, <3>1
  <2>5. QED
    BY <2>3, <2>4
<1>4. CASE Cardinality(Live(f)) # 1
  <2> DEFINE c == [l \in L |-> LayerWon(f, t, ranks, btn, l, s)]
             upto == [l \in L |-> IF l <= t[s] THEN LayerChips(t, l) ELSE 0]
  <2>1. won[s] = Total(c)
    BY <1>4 DEF Won
  <2>2. IsFiniteSet(L) /\ L \subseteq Nat
    BY LevelsAre
  <2>3. c \in [L -> Nat]
    <3> DEFINE g == Wins(f, t, ranks, btn)
    <3>1. /\ Column(g, s, L) \in [L -> Nat]
          /\ Column(g, s, L) = [l \in L |-> LayerWon(f, t, ranks, btn, l, s)]
      BY WinsAre
    <3>2. QED
      BY <3>1
  <2>4. upto \in [L -> Nat] /\ Total(upto) = Total(Matched(t, t[s]))
    BY <1>1, LayersUpTo
  <2>5. ASSUME s \in f PROVE won[s] = 0
    <3>1. \A l \in L : c[l] = 0
      BY <2>5, LayersContested, LayerPaid
    <3> HIDE DEF c, L
    <3>2. c \in [L -> Int]
      BY <2>3
    <3>3. QED
      BY <2>1, <2>2, <3>1, <3>2, TotalZero
  <2>6. c \in [L -> Int] /\ upto \in [L -> Int] /\ \A l \in L : c[l] <= upto[l]
    <3>1. ASSUME NEW l \in L PROVE c[l] <= upto[l]
      <4>1. /\ LayerWon(f, t, ranks, btn, l, s) <= LayerChips(t, l)
            /\ s \notin Contributors(t, l) => LayerWon(f, t, ranks, btn, l, s) = 0
        BY LayerPaid
      <4>2. s \in Contributors(t, l) <=> l <= t[s]
        BY <1>1, <2>2 DEF Contributors
      <4>3. QED
        BY <4>1, <4>2
    <3> HIDE DEF c, upto, L
    <3>2. QED
      BY <2>3, <2>4, <3>1
  <2> HIDE DEF c, upto, L
  <2>7. NoMore(c, upto, L)
    BY <2>6 DEF NoMore
  <2>8. Total(c) <= Total(upto)
    BY <2>2, <2>7, TotalNoMore
  <2>9. QED
    BY <2>1, <2>4, <2>5, <2>8 DEF won
<1>5. QED
  BY <1>3, <1>4

\* The hands a finished game can show are hands
LEMMA BoardsLayout == Boards \subseteq Layouts
<1>1. Ranks \subseteq [Seats -> Int]
  <2>1. \A i \in 0 .. NumSeats - 1 : i \in Int
    OBVIOUS
  <2>2. [Seats -> 0 .. NumSeats - 1] \subseteq [Seats -> Int]
    BY <2>1
  <2>3. QED
    BY <2>2 DEF Ranks
<1>2. QED
  BY <1>1 DEF Boards, Layouts

\* The pot is divided among those who stayed and covered it, to the last chip: the
\* engine pays out exactly what went in, nobody who folded gets anything, and a
\* winner takes from each seat at most what they put in themselves, at every
\* table size, at any stakes and whatever the hands.
THEOREM PotsTheorem == Spec => []PotsAreRight
<1>1. TypeOK /\ LiveSeatHoldsTop => PotsAreRight
  <2> SUFFICES ASSUME TypeOK, LiveSeatHoldsTop PROVE PotPaidInFull /\ WinnersMatchedIt
    BY DEF PotsAreRight
  <2>1. total \in Amounts /\ folded \in SUBSET Seats /\ button \in Seats
    BY DEF TypeOK, Amounts
  <2>2. PotPaidInFull
    BY <2>1, WonIsPot, BoardsLayout DEF PotPaidInFull, Pot
  <2>3. WinnersMatchedIt
    <3> SUFFICES ASSUME Settled, NEW ranks \in Boards, NEW s \in Seats
                 PROVE  IF s \in folded THEN Won(folded, total, ranks, button)[s] = 0
                        ELSE Won(folded, total, ranks, button)[s]
                               <= Total([r \in Seats |-> Lesser(total[r], total[s])])
      BY DEF WinnersMatchedIt
    <3>1. StayedHoldsTop(folded, total)
      BY DEF LiveSeatHoldsTop, StayedHoldsTop, Settled, Ended
    <3>2. ranks \in Layouts
      BY BoardsLayout
    <3>3. /\ s \in folded => Won(folded, total, ranks, button)[s] = 0
          /\ s \notin folded => Won(folded, total, ranks, button)[s] <= Total(Matched(total, total[s]))
      BY <2>1, <3>1, <3>2, WinnersMatch
    <3>4. QED
      BY <3>3 DEF Matched
  <2>4. QED
    BY <2>2, <2>3
<1>2. QED
  BY <1>1, TypeTheorem, TopTheorem, PTL

-----------------------------------------------------------------------------
(* What the home game shows of the hand                                      *)

\* One pot's awards, board by board, are what its layers pay
LEMMA PotAwards ==
  ASSUME NEW t \in Amounts, NEW f \in SUBSET Seats, NEW ranks \in Layouts, NEW btn \in Seats,
         NEW pot \in Pots(f, t), NEW s \in Seats
  PROVE  Total([l \in LayersOf(f, t, pot) |-> LayerWon(f, t, ranks, btn, l, s)])
           = Total([b \in DOMAIN ranks |-> PotAward(f, t, ranks, btn, pot, b, s)])
<1> DEFINE A == LayersOf(f, t, pot)
           B == DOMAIN ranks
           g == [l \in A |-> [b \in B |->
                   Share(Best(pot, ranks[b]), OnBoard(LayerChips(t, l), b, ranks), btn, s)]]
<1>1. IsFiniteSet(A) /\ A \subseteq Levels(t)
  BY LevelsAre, FS_Subset DEF LayersOf
<1>2. pot # {} /\ pot \in SUBSET Seats
  BY DEF Pots, Eligible, Contributors
<1>3. IsFiniteSet(B) /\ \A l \in A, b \in B : ranks[b] \in [Seats -> Int] /\ OnBoard(LayerChips(t, l), b, ranks) \in Nat
  <2>1. 0 \in Nat
    OBVIOUS
  <2>2. IsFiniteSet(B)
    BY <2>1, BoardsAre
  <2>3. \A l \in A : LayerChips(t, l) \in Nat
    BY <1>1, LayerChipsAre
  <2>4. \A l \in A, b \in B : ranks[b] \in [Seats -> Int] /\ OnBoard(LayerChips(t, l), b, ranks) \in Nat
    BY <2>3, BoardsAre
  <2>5. QED
    BY <2>2, <2>4
<1>4. ASSUME NEW l \in A, NEW b \in B PROVE g[l][b] \in Int
  <2> DEFINE W == Best(pot, ranks[b])
             a == OnBoard(LayerChips(t, l), b, ranks)
  <2>1. W # {} /\ W \in SUBSET Seats /\ a \in Nat
    BY <1>2, <1>3, BestIs
  <2> HIDE DEF W, a
  <2>2. [r \in Seats |-> Share(W, a, btn, r)] \in [Seats -> Nat]
    BY <2>1, ShareIs
  <2>3. Share(W, a, btn, s) \in Nat
    BY <2>2
  <2>4. QED
    BY <2>3 DEF W, a
<1>5. IsTable(g, A, B)
  BY <1>4 DEF IsTable
<1>6. ASSUME NEW l \in A PROVE LayerWon(f, t, ranks, btn, l, s) = Total(Row(g, l, B))
  <2>1. Eligible(f, t, l) = pot
    BY DEF LayersOf
  <2>2. Row(g, l, B) = [b \in B |-> Share(Best(pot, ranks[b]), OnBoard(LayerChips(t, l), b, ranks), btn, s)]
    BY DEF Row
  <2>3. QED
    BY <1>2, <2>1, <2>2 DEF LayerWon
<1>7. ASSUME NEW b \in B PROVE PotAward(f, t, ranks, btn, pot, b, s) = Total(Column(g, b, A))
  <2>1. Column(g, b, A)
          = [l \in A |-> Share(Best(pot, ranks[b]), OnBoard(LayerChips(t, l), b, ranks), btn, s)]
    BY DEF Column
  <2>2. QED
    BY <2>1 DEF PotAward
<1> HIDE DEF g, A, B
<1>8. Total([l \in A |-> Total(Row(g, l, B))]) = Total([b \in B |-> Total(Column(g, b, A))])
  <2>1. IsFiniteSet(A) /\ IsFiniteSet(B)
    BY <1>1, <1>3
  <2>2. QED
    BY <1>5, <2>1, TotalSwap
<1>9. [l \in A |-> LayerWon(f, t, ranks, btn, l, s)] = [l \in A |-> Total(Row(g, l, B))]
  BY <1>6
<1>10. [b \in B |-> PotAward(f, t, ranks, btn, pot, b, s)] = [b \in B |-> Total(Column(g, b, A))]
  BY <1>7
<1>11. QED
  BY <1>8, <1>9, <1>10 DEF A, B

\* The awards shown give each seat exactly what the engine pays it
LEMMA AwardsMatch ==
  ASSUME NEW t \in Amounts, NEW f \in SUBSET Seats, NEW ranks \in Layouts, NEW btn \in Seats,
         StayedHoldsTop(f, t)
  PROVE  Awarded(f, t, ranks, btn) = Won(f, t, ranks, btn)
<1> DEFINE won == Won(f, t, ranks, btn)
           awarded == Awarded(f, t, ranks, btn)
<1>1. DOMAIN won = Seats /\ DOMAIN awarded = Seats /\ won = [s \in Seats |-> won[s]]
      /\ awarded = [s \in Seats |-> awarded[s]]
  BY DEF Won, Awarded
<1>2. CASE Cardinality(Live(f)) = 1
  <2> DEFINE x == Survivor(f)
  <2>1. x \in Seats /\ Live(f) = {x} /\ x \notin f
    BY <1>2, OneLeft
  <2>2. \A s \in Seats : awarded[s] = IF s = x THEN Total(t) ELSE 0
    BY <1>2, <2>1 DEF Awarded
  <2>3. won[x] = Total(Matched(t, t[x]))
    BY <1>2, SurvivorPaid
  <2>4. Matched(t, t[x]) = t
    <3>1. \A s \in Seats : t[s] <= t[x]
      <4>1. \A s \in f : t[s] <= t[x]
        BY <2>1 DEF StayedHoldsTop
      <4>2. t[x] \in Nat
        BY <2>1, LevelsAre
      <4>3. \A s \in Seats : s \in f \/ s = x
        BY <2>1 DEF Live
      <4> HIDE DEF x
      <4>4. QED
        BY <4>1, <4>2, <4>3
    <3>2. t[x] \in Nat
      BY <2>1, LevelsAre
    <3>3. Matched(t, t[x]) \in [Seats -> Nat] /\ \A s \in Seats : Matched(t, t[x])[s] = t[s]
      BY <3>1, <3>2, MatchedIs
    <3>4. t \in [Seats -> Nat]
      BY DEF Amounts
    <3> HIDE DEF x
    <3>5. QED
      BY <3>3, <3>4
  <2>5. \A s \in Seats : s # x => won[s] = 0
    <3>1. \A s \in Seats : s # x => s \in f
      BY <2>1 DEF Live
    <3>2. QED
      BY <3>1, WinnersMatch
  <2>6. \A s \in Seats : awarded[s] = won[s]
    <3> HIDE DEF x, won, awarded
    <3> QED BY <2>2, <2>3, <2>4, <2>5
  <2> HIDE DEF won, awarded
  <2>7. QED
    BY <1>1, <2>6 DEF won, awarded
<1>3. CASE Cardinality(Live(f)) # 1
  <2> DEFINE L == Levels(t)
             K == Pots(f, t)
             m == [l \in L |-> Eligible(f, t, l)]
  <2>1. IsFiniteSet(L)
    BY LevelsAre
  <2>2. m \in [L -> K]
    BY LayersContested DEF Pots
  <2>3. IsFiniteSet(K)
    <3>1. IsFiniteSet({m[l] : l \in L})
      <4> HIDE DEF m, L
      <4> QED BY <2>1, ImageFinite
    <3>2. K \subseteq {m[l] : l \in L}
      BY DEF Pots
    <3> HIDE DEF K, m, L
    <3>3. QED
      BY <3>1, <3>2, FS_Subset
  <2>4. ASSUME NEW s \in Seats PROVE awarded[s] = won[s]
    <3> DEFINE c == [l \in L |-> LayerWon(f, t, ranks, btn, l, s)]
               pays(pot) == Total([b \in DOMAIN ranks |-> PotAward(f, t, ranks, btn, pot, b, s)])
    <3>1. won[s] = Total(c)
      BY <1>3 DEF Won
    <3>2. awarded[s] = Total([pot \in K |-> pays(pot)])
      BY <1>3 DEF Awarded
    <3>3. c \in [L -> Int]
      <4> DEFINE g == Wins(f, t, ranks, btn)
      <4>1. /\ Column(g, s, L) \in [L -> Nat]
            /\ Column(g, s, L) = [l \in L |-> LayerWon(f, t, ranks, btn, l, s)]
        BY WinsAre
      <4>2. QED
        BY <4>1
    <3>4. ASSUME NEW pot \in K PROVE Total(OfKind(c, m, pot, L)) = pays(pot)
      <4>1. {l \in L : m[l] = pot} = LayersOf(f, t, pot)
        BY DEF LayersOf
      <4>2. OfKind(c, m, pot, L) = [l \in LayersOf(f, t, pot) |-> LayerWon(f, t, ranks, btn, l, s)]
        BY <4>1 DEF OfKind, LayersOf
      <4>3. QED
        BY <4>2, PotAwards
    <3> HIDE DEF c, m, K, L, pays
    <3>5. Total(c) = Total([pot \in K |-> Total(OfKind(c, m, pot, L))])
      BY <2>1, <2>2, <2>3, <3>3, TotalByKind
    <3>6. [pot \in K |-> Total(OfKind(c, m, pot, L))] = [pot \in K |-> pays(pot)]
      BY <3>4
    <3>7. QED
      BY <3>1, <3>2, <3>5, <3>6
  <2> HIDE DEF won, awarded
  <2>5. QED
    BY <1>1, <2>4 DEF won, awarded
<1>4. QED
  BY <1>2, <1>3

-----------------------------------------------------------------------------
(* The parts of a chip                                                       *)

LEMMA PositiveProduct ==
  ASSUME NEW a \in Nat \ {0}, NEW b \in Nat \ {0}
  PROVE  a * b \in Nat \ {0}
OBVIOUS

\* Factorial's equation up to n
IsFactorial(g, n) ==
  g[0] = 1 /\ \A k \in 1 .. n : g[k] = k * g[k - 1]
Counting == [Nat -> Nat \ {0}]
LEMMA FactorialUpto ==
  ASSUME NEW n \in Nat
  PROVE  /\ \E g \in Counting : IsFactorial(g, n)
         /\ \A g \in Counting, h \in Counting : IsFactorial(g, n) /\ IsFactorial(h, n) => g[n] = h[n]
<1> DEFINE P == {m \in Nat : \E g \in Counting : IsFactorial(g, m)}
           Q == {m \in Nat : \A g \in Counting, h \in Counting :
                               IsFactorial(g, m) /\ IsFactorial(h, m) => g[m] = h[m]}
<1>1. 0 \in P
  <2> DEFINE g == [k \in Nat |-> 1]
  <2>1. g \in Counting /\ IsFactorial(g, 0)
    BY DEF Counting, IsFactorial
  <2>2. QED
    BY <2>1
<1>2. ASSUME NEW m \in Nat, m \in P PROVE m + 1 \in P
  <2>1. PICK g \in Counting : IsFactorial(g, m)
    BY <1>2
  <2> DEFINE v == (m + 1) * g[m]
             h == [k \in Nat |-> IF k = m + 1 THEN v ELSE g[k]]
  <2>2. g[m] \in Nat \ {0} /\ m + 1 \in Nat \ {0} /\ \A k \in Nat : g[k] \in Nat \ {0}
    BY DEF Counting
  <2>3. v \in Nat \ {0}
    BY <2>2, PositiveProduct
  <2> HIDE DEF v
  <2>4. h \in Counting /\ h[m + 1] = v /\ \A k \in 0 .. m : h[k] = g[k]
    BY <2>2, <2>3 DEF Counting
  <2> HIDE DEF h
  <2>5. h[0] = 1
    BY <2>1, <2>4 DEF IsFactorial
  <2>6. ASSUME NEW k \in 1 .. m + 1 PROVE h[k] = k * h[k - 1]
    <3>1. CASE k = m + 1
      <4>1. h[k] = (m + 1) * g[m] /\ h[k - 1] = g[m]
        BY <2>4, <3>1 DEF v
      <4>2. QED
        BY <3>1, <4>1
    <3>2. CASE k # m + 1
      <4>1. k \in 1 .. m /\ k - 1 \in 0 .. m /\ k \in 0 .. m
        BY <3>2
      <4>2. g[k] = k * g[k - 1]
        BY <2>1, <4>1 DEF IsFactorial
      <4>3. QED
        BY <2>4, <4>1, <4>2
    <3>3. QED
      BY <3>1, <3>2
  <2>7. IsFactorial(h, m + 1)
    BY <2>5, <2>6 DEF IsFactorial
  <2>8. QED
    BY <2>4, <2>7
<1>3. 0 \in Q
  BY DEF IsFactorial
<1>4. ASSUME NEW m \in Nat, m \in Q PROVE m + 1 \in Q
  <2> SUFFICES ASSUME NEW g \in Counting, NEW h \in Counting,
                      IsFactorial(g, m + 1), IsFactorial(h, m + 1)
               PROVE  g[m + 1] = h[m + 1]
    OBVIOUS
  <2>1. \A k \in 1 .. m : k \in 1 .. m + 1
    OBVIOUS
  <2>2. IsFactorial(g, m) /\ IsFactorial(h, m)
    BY <2>1 DEF IsFactorial
  <2>3. g[m] = h[m]
    BY <1>4, <2>2
  <2>4. m + 1 \in 1 .. m + 1 /\ (m + 1) - 1 = m
    OBVIOUS
  <2>5. g[m + 1] = (m + 1) * g[m] /\ h[m + 1] = (m + 1) * h[m]
    BY <2>4 DEF IsFactorial
  <2>6. QED
    BY <2>3, <2>5
<1> HIDE DEF P, Q
<1>5. Nat \subseteq P
  BY <1>1, <1>2, NumbersInduction
<1>6. Nat \subseteq Q
  BY <1>3, <1>4, NumbersInduction
<1>7. QED
  BY <1>5, <1>6 DEF P, Q

LEMMA FactorialIs ==
  /\ Factorial \in Counting
  /\ Factorial[0] = 1 /\ \A n \in Nat : Factorial[n + 1] = (n + 1) * Factorial[n]
<1> DEFINE g(n) == CHOOSE h \in Counting : IsFactorial(h, n)
           F == [n \in Nat |-> g(n)[n]]
<1>1. \A n \in Nat : g(n) \in Counting /\ IsFactorial(g(n), n)
  BY FactorialUpto
<1>2. F \in Counting
  <2> HIDE DEF g
  <2> QED BY <1>1 DEF Counting
<1>3. F[0] = 1
  <2> HIDE DEF g
  <2> QED BY <1>1 DEF IsFactorial
<1>4. ASSUME NEW n \in Nat, n # 0 PROVE F[n] = n * F[n - 1]
  <2> HIDE DEF g
  <2>1. n - 1 \in Nat /\ n \in 1 .. n /\ 0 \in Nat
    BY <1>4
  <2>2. \A k \in 1 .. n - 1 : k \in 1 .. n
    OBVIOUS
  <2>3. IsFactorial(g(n), n - 1)
    BY <1>1, <2>2 DEF IsFactorial
  <2>4. g(n)[n - 1] = g(n - 1)[n - 1]
    BY <1>1, <2>1, <2>3, FactorialUpto
  <2>5. g(n)[n] = n * g(n)[n - 1]
    BY <1>1, <2>1 DEF IsFactorial
  <2>6. QED
    BY <2>1, <2>4, <2>5
<1>5. F = [n \in Nat |-> IF n = 0 THEN 1 ELSE n * F[n - 1]]
  <2>1. F = [n \in Nat |-> F[n]]
    OBVIOUS
  <2> HIDE DEF F
  <2>2. \A n \in Nat : F[n] = IF n = 0 THEN 1 ELSE n * F[n - 1]
    BY <1>3, <1>4
  <2>3. QED
    BY <2>1, <2>2
<1> HIDE DEF F
<1>6. Factorial = [n \in Nat |-> IF n = 0 THEN 1 ELSE n * Factorial[n - 1]]
  BY <1>5 DEF Factorial
<1>7. Factorial[0] = 1 /\ \A n \in Nat : Factorial[n + 1] = (n + 1) * Factorial[n]
  <2> DEFINE H == Factorial
  <2>1. H = [n \in Nat |-> IF n = 0 THEN 1 ELSE n * H[n - 1]]
    BY <1>6
  <2> HIDE DEF H
  <2>2. H[0] = 1
    BY <2>1
  <2>3. ASSUME NEW n \in Nat PROVE H[n + 1] = (n + 1) * H[n]
    <3>1. n + 1 \in Nat /\ n + 1 # 0 /\ (n + 1) - 1 = n
      OBVIOUS
    <3>2. H[n + 1] = (n + 1) * H[(n + 1) - 1]
      BY <2>1, <3>1
    <3>3. QED
      BY <3>1, <3>2
  <2>4. QED
    BY <2>2, <2>3 DEF H
<1>8. Factorial \in Counting
  <2> DEFINE P == {n \in Nat : Factorial[n] \in Nat \ {0}}
  <2>1. 0 \in P
    BY <1>7
  <2>2. ASSUME NEW n \in Nat, n \in P PROVE n + 1 \in P
    <3>1. n + 1 \in Nat \ {0} /\ Factorial[n] \in Nat \ {0}
      BY <2>2
    <3>2. (n + 1) * Factorial[n] \in Nat \ {0}
      BY <3>1, PositiveProduct
    <3>3. QED
      BY <1>7, <3>1, <3>2
  <2> HIDE DEF P
  <2>3. Nat \subseteq P
    BY <2>1, <2>2, NumbersInduction
  <2>4. \A n \in Nat : Factorial[n] \in Nat \ {0}
    BY <2>3 DEF P
  <2>5. Factorial = [n \in Nat |-> Factorial[n]]
    <3> DEFINE H == Factorial
    <3>1. H = [n \in Nat |-> IF n = 0 THEN 1 ELSE n * H[n - 1]]
      BY <1>6
    <3> HIDE DEF H
    <3>2. H = [n \in Nat |-> H[n]]
      BY <3>1
    <3>3. QED
      BY <3>2 DEF H
  <2>6. QED
    BY <2>4, <2>5 DEF Counting
<1>9. QED
  BY <1>7, <1>8

LEMMA ProductsMeet ==
  ASSUME NEW a \in Nat, NEW k \in Nat, NEW q \in Nat
  PROVE  a * (k * q) = k * (a * q) /\ a * q \in Nat
OBVIOUS

\* A chip divides among any number of seats
LEMMA PartsDivide ==
  /\ Parts \in Nat \ {0}
  /\ \A k \in 1 .. NumSeats : Parts \div k \in Nat /\ k * (Parts \div k) = Parts
<1> DEFINE Divides(k, n) == \E q \in Nat : Factorial[n] = k * q
           P == {n \in Nat : \A k \in 1 .. n : Divides(k, n)}
<1>1. \A n \in Nat : Factorial[n] \in Nat \ {0}
  BY FactorialIs DEF Counting
<1>2. 0 \in P
  OBVIOUS
<1>3. ASSUME NEW n \in Nat, n \in P PROVE n + 1 \in P
  <2> SUFFICES ASSUME NEW k \in 1 .. n + 1 PROVE Divides(k, n + 1)
    OBVIOUS
  <2>1. Factorial[n + 1] = (n + 1) * Factorial[n] /\ Factorial[n] \in Nat
    BY <1>1, FactorialIs
  <2>2. CASE k = n + 1
    BY <2>1, <2>2
  <2>3. CASE k # n + 1
    <3>0. k \in 1 .. n
      BY <2>3
    <3>1. PICK q \in Nat : Factorial[n] = k * q
      <4>1. Divides(k, n)
        BY <1>3, <3>0
      <4>2. QED
        BY <4>1
    <3>2. (n + 1) * (k * q) = k * ((n + 1) * q) /\ (n + 1) * q \in Nat
      <4>1. n + 1 \in Nat /\ k \in Nat
        OBVIOUS
      <4>2. QED
        BY <4>1, ProductsMeet
    <3> DEFINE w == (n + 1) * q
    <3>3. Factorial[n + 1] = k * w /\ w \in Nat
      BY <2>1, <3>1, <3>2
    <3> HIDE DEF w
    <3>4. QED
      BY <3>3
  <2>4. QED
    BY <2>2, <2>3
<1> HIDE DEF P
<1>4. Nat \subseteq P
  BY <1>2, <1>3, NumbersInduction
<1>5. NumSeats \in Nat
  BY NumSeatsAssumption
<1>6. Parts = Factorial[NumSeats]
  BY DEF Parts
<1>7. ASSUME NEW k \in 1 .. NumSeats PROVE Parts \div k \in Nat /\ k * (Parts \div k) = Parts
  <2>1. PICK q \in Nat : Factorial[NumSeats] = k * q
    BY <1>4, <1>5 DEF P
  <2>2. k \in Nat \ {0} /\ q \in Int
    BY <1>5
  <2>3. (k * q) \div k = q
    BY <2>2, DivExact
  <2>4. QED
    BY <1>6, <2>1, <2>3
<1>8. QED
  BY <1>1, <1>5, <1>6, <1>7

-----------------------------------------------------------------------------
(* The flows the home game records                                           *)

LEMMA ScaledOrder ==
  ASSUME NEW a \in Nat \ {0}, NEW x \in Int, NEW y \in Int, a * x <= a * y
  PROVE  x <= y
OBVIOUS

LEMMA ScaledDifference ==
  ASSUME NEW a \in Int, NEW x \in Int, NEW y \in Int
  PROVE  a * (x - y) = a * x - a * y /\ a * x \in Int /\ a * y \in Int
OBVIOUS

\* round(n / Parts) is off by half a chip at most
LEMMA RoundIs ==
  ASSUME NEW n \in Int
  PROVE  /\ RoundParts(n) \in Int /\ Parts * RoundParts(n) \in Int
         /\ 2 * (Parts * RoundParts(n) - n) <= Parts
         /\ -Parts <= 2 * (Parts * RoundParts(n) - n)
<1> DEFINE q == n \div Parts
           r == n % Parts
<1>1. Parts \in Nat \ {0}
  BY PartsDivide
<1>2. q \in Int /\ r \in 0 .. Parts - 1 /\ r = n - Parts * q
  BY <1>1, DivMod
<1>3. Parts * q \in Int /\ Parts * (q + 1) = Parts * q + Parts
  BY <1>1, <1>2
<1>4. \/ RoundParts(n) = q /\ 2 * r <= Parts
      \/ RoundParts(n) = q + 1 /\ 2 * r >= Parts
  <2>1. RoundParts(n) = IF 2 * r > Parts \/ (2 * r = Parts /\ q % 2 = 1) THEN q + 1 ELSE q
    BY DEF RoundParts
  <2> HIDE DEF q, r
  <2>2. QED
    BY <1>1, <1>2, <2>1
<1> HIDE DEF q, r
<1>5. CASE RoundParts(n) = q /\ 2 * r <= Parts
  <2>1. Parts * RoundParts(n) - n = -r
    BY <1>1, <1>2, <1>3, <1>5
  <2>2. QED
    BY <1>1, <1>2, <1>3, <1>5, <2>1
<1>6. CASE RoundParts(n) = q + 1 /\ 2 * r >= Parts
  <2>1. Parts * RoundParts(n) - n = Parts - r
    BY <1>1, <1>2, <1>3, <1>6
  <2>2. QED
    BY <1>1, <1>2, <1>3, <1>6, <2>1
<1>7. QED
  BY <1>4, <1>5, <1>6

\* money_flows takes of each layer what the engine pays of it
LEMMA TakenIsWon ==
  ASSUME NEW t \in Amounts, NEW f \in SUBSET Seats, NEW ranks \in Layouts, NEW btn \in Seats,
         StayedHoldsTop(f, t), NEW l \in Levels(t), NEW w \in Seats
  PROVE  LayerTaken(f, t, ranks, btn, l, w) = LayerWon(f, t, ranks, btn, l, w)
<1> DEFINE alive == {s \in Live(f) : t[s] > 0}
           wins == LayerWins(f, t, ranks, btn, l)
<1>1. Eligible(f, t, l) # {}
  BY LayersContested
<1>2. CASE Cardinality(alive) <= 1
  <2>1. l \in Nat /\ l > 0 /\ \A s \in Seats : t[s] \in Nat
    BY LevelsAre
  <2>2. PICK a \in Eligible(f, t, l) : TRUE
    BY <1>1
  <2>3. a \in Seats /\ a \notin f /\ t[a] >= l
    BY DEF Eligible, Contributors
  <2>4. a \in alive
    BY <2>1, <2>3 DEF Live
  <2>5. alive = {a}
    <3>1. alive \subseteq Seats
      BY DEF Live
    <3> HIDE DEF alive
    <3>2. IsFiniteSet(alive)
      BY <3>1, SeatsFinite, FS_Subset
    <3>3. Cardinality(alive) \in Nat /\ Cardinality(alive) # 0
      BY <2>4, <3>2, FS_CardinalityType, FS_EmptySet
    <3>4. Cardinality(alive) = 1
      BY <1>2, <3>3
    <3>5. PICK x : alive = {x}
      BY <3>2, <3>4, FS_Singleton
    <3>6. QED
      BY <2>4, <3>5
  <2>6. LayerTaken(f, t, ranks, btn, l, w) = IF w = a THEN LayerChips(t, l) ELSE 0
    BY <1>2, <2>5 DEF LayerTaken
  <2>7. /\ wins \in [Seats -> Nat] /\ Total(wins) = LayerChips(t, l)
        /\ \A s \in Seats \ Contributors(t, l) : LayerWon(f, t, ranks, btn, l, s) = 0
        /\ \A s \in f : LayerWon(f, t, ranks, btn, l, s) = 0
    <3>1. wins \in [Seats -> Nat] /\ Total(wins) = LayerChips(t, l)
      BY LayerPaid
    <3>2. \A s \in Seats \ Contributors(t, l) : LayerWon(f, t, ranks, btn, l, s) = 0
      BY LayerPaid
    <3>3. \A s \in f : LayerWon(f, t, ranks, btn, l, s) = 0
      BY <1>1, LayerPaid
    <3>4. QED
      BY <3>1, <3>2, <3>3
  <2>8. \A s \in Seats : wins[s] = LayerWon(f, t, ranks, btn, l, s)
    BY DEF LayerWins
  <2>9. \A s \in Seats \ {a} : wins[s] = 0
    <3> SUFFICES ASSUME NEW s \in Seats \ {a} PROVE wins[s] = 0
      OBVIOUS
    <3>1. CASE s \in f
      BY <2>7, <2>8, <3>1
    <3>2. CASE s \notin f
      <4>1. s \notin alive /\ s \in Live(f)
        BY <2>5, <3>2 DEF Live
      <4>2. ~(t[s] > 0)
        BY <4>1
      <4>3. s \notin Contributors(t, l)
        BY <2>1, <4>2 DEF Contributors
      <4>4. QED
        BY <2>7, <2>8, <4>3
    <3>3. QED
      BY <3>1, <3>2
  <2>10. wins[a] = LayerChips(t, l)
    <3>1. wins \in [Seats -> Int]
      BY <2>7
    <3> HIDE DEF wins
    <3>2. Total(wins) = wins[a]
      BY <2>3, <2>9, <3>1, SeatsFinite, TotalOnly
    <3>3. QED
      BY <2>7, <3>2
  <2> HIDE DEF wins
  <2>11. QED
    BY <2>6, <2>8, <2>9, <2>10
<1>3. CASE ~(Cardinality(alive) <= 1)
  BY <1>1, <1>3 DEF LayerTaken
<1>4. QED
  BY <1>2, <1>3

\* A seat wins the sum of what its layers pay, with one seat left too
LEMMA WonByLayers ==
  ASSUME NEW t \in Amounts, NEW f \in SUBSET Seats, NEW ranks \in Layouts, NEW btn \in Seats,
         StayedHoldsTop(f, t), NEW s \in Seats
  PROVE  Won(f, t, ranks, btn)[s] = Total([l \in Levels(t) |-> LayerWon(f, t, ranks, btn, l, s)])
<1> DEFINE won == Won(f, t, ranks, btn)
           L == Levels(t)
           g == Wins(f, t, ranks, btn)
           sums == [r \in Seats |-> Total(Column(g, r, L))]
<1>1. CASE Cardinality(Live(f)) # 1
  BY <1>1 DEF Won
<1>2. CASE Cardinality(Live(f)) = 1
  <2> DEFINE x == Survivor(f)
  <2>1. x \in Seats /\ Live(f) = {x} /\ x \notin f
    BY <1>2, OneLeft
  <2>2. /\ IsTable(g, L, Seats)
        /\ \A r \in Seats : /\ Column(g, r, L) \in [L -> Nat]
                            /\ Column(g, r, L) = [l \in L |-> LayerWon(f, t, ranks, btn, l, r)]
        /\ [l \in L |-> Total(Row(g, l, Seats))] = [l \in L |-> LayerChips(t, l)]
    BY WinsAre
  <2>3. IsFiniteSet(L) /\ Total([l \in L |-> LayerChips(t, l)]) = Total(t)
    BY LevelsAre, LayersHoldPot
  <2>4. IsFiniteSet(Seats)
    BY SeatsFinite
  <2>5. won \in [Seats -> Int] /\ Total(won) = Total(t) /\ \A r \in Seats \ {x} : won[r] = 0
    <3>1. won \in [Seats -> Nat] /\ Total(won) = Total(t)
      BY WonIsPot
    <3>2. \A r \in Seats \ {x} : r \in f
      BY <2>1 DEF Live
    <3>3. \A r \in Seats \ {x} : won[r] = 0
      BY <3>2, WinnersMatch
    <3> HIDE DEF won, x
    <3>4. QED
      BY <3>1, <3>3
  <2>6. ASSUME NEW r \in Seats \ {x} PROVE Total(Column(g, r, L)) = 0
    <3> DEFINE c == Column(g, r, L)
    <3>1. r \in f
      BY <2>1 DEF Live
    <3>2. \A l \in L : LayerWon(f, t, ranks, btn, l, r) = 0
      BY <3>1, LayersContested, LayerPaid
    <3>3. c \in [L -> Int] /\ \A l \in L : c[l] = 0
      <4>1. c \in [L -> Nat] /\ c = [l \in L |-> LayerWon(f, t, ranks, btn, l, r)]
        BY <2>2
      <4> HIDE DEF c, L
      <4>2. QED
        BY <3>2, <4>1
    <3> HIDE DEF c, L
    <3>4. Total(c) = 0
      BY <2>3, <3>3, TotalZero
    <3>5. QED
      BY <3>4 DEF c
  <2> HIDE DEF won, g, L, x
  <2>7. /\ Total([l \in L |-> Total(Row(g, l, Seats))]) = Total(sums) /\ sums \in [Seats -> Int]
    BY <2>2, <2>3, <2>4, TotalSwap
  <2>8. Total(sums) = Total(t)
    BY <2>2, <2>3, <2>7
  <2>9. \A r \in Seats \ {x} : sums[r] = 0
    BY <2>6
  <2>10. sums[s] = Total(Column(g, s, L))
    OBVIOUS
  <2> HIDE DEF sums
  <2>11. Total(sums) = sums[x] /\ Total(won) = won[x]
    BY <2>1, <2>4, <2>5, <2>7, <2>9, TotalOnly
  <2>12. won[s] = sums[s]
    BY <2>5, <2>8, <2>9, <2>11
  <2>13. QED
    BY <2>2, <2>10, <2>12 DEF won, L
<1>3. QED
  BY <1>1, <1>2

\* What payer loses to w of a layer, in parts of a chip
Lot(f, t, ranks, btn, l, payer, w) ==
  IF payer \in Contributors(t, l)
  THEN LayerWon(f, t, ranks, btn, l, w) * (Parts \div Cardinality(Contributors(t, l))) ELSE 0
LEMMA LotIs ==
  ASSUME NEW t \in Amounts, NEW f \in SUBSET Seats, NEW ranks \in Layouts, NEW btn \in Seats,
         NEW l \in Levels(t), NEW p \in Seats, NEW w \in Seats
  PROVE  LET n == Cardinality(Contributors(t, l))
         IN  /\ n \in Nat \ {0} /\ Parts \div n \in Nat /\ n * (Parts \div n) = Parts
             /\ LayerWon(f, t, ranks, btn, l, w) \in Nat
             /\ Lot(f, t, ranks, btn, l, p, w) \in Nat
<1> DEFINE n == Cardinality(Contributors(t, l))
           q == Parts \div n
<1>1. n \in 1 .. NumSeats
  BY LayerChipsAre
<1>2. q \in Nat /\ n * q = Parts
  BY <1>1, PartsDivide
<1>3. LayerWon(f, t, ranks, btn, l, w) \in Nat
  <2>1. LayerWins(f, t, ranks, btn, l) \in [Seats -> Nat]
    BY LayerPaid
  <2>2. QED
    BY <2>1 DEF LayerWins
<1>4. LayerWon(f, t, ranks, btn, l, w) * q \in Nat
  BY <1>2, <1>3
<1>5. Lot(f, t, ranks, btn, l, p, w) \in Nat
  BY <1>4 DEF Lot
<1>6. n \in Nat \ {0}
  BY <1>1, NumSeatsAssumption
<1>7. QED
  BY <1>2, <1>3, <1>5, <1>6

LEMMA GrossIs ==
  ASSUME NEW t \in Amounts, NEW f \in SUBSET Seats, NEW ranks \in Layouts, NEW btn \in Seats,
         StayedHoldsTop(f, t), NEW p \in Seats, NEW w \in Seats
  PROVE  /\ [l \in Levels(t) |-> Lot(f, t, ranks, btn, l, p, w)] \in [Levels(t) -> Int]
         /\ Gross(f, t, ranks, btn, p, w) = Total([l \in Levels(t) |-> Lot(f, t, ranks, btn, l, p, w)])
         /\ Gross(f, t, ranks, btn, p, w) \in Int
<1> DEFINE L == Levels(t)
           E == {m \in L : p \in Contributors(t, m)}
           lots == [l \in L |-> Lot(f, t, ranks, btn, l, p, w)]
<1>1. IsFiniteSet(L)
  BY LevelsAre
<1>2. lots \in [L -> Int] /\ E \in SUBSET L /\ \A l \in L \ E : lots[l] = 0
  <2>1. \A l \in L : Lot(f, t, ranks, btn, l, p, w) \in Nat
    BY LotIs
  <2>2. \A l \in L \ E : Lot(f, t, ranks, btn, l, p, w) = 0
    BY DEF Lot
  <2> HIDE DEF L
  <2>3. QED
    BY <2>1, <2>2
<1>3. \A l \in E : lots[l] = LayerTaken(f, t, ranks, btn, l, w) * (Parts \div Cardinality(Contributors(t, l)))
  <2>1. \A l \in L : LayerTaken(f, t, ranks, btn, l, w) = LayerWon(f, t, ranks, btn, l, w)
    BY TakenIsWon
  <2> HIDE DEF L
  <2>2. QED
    BY <2>1 DEF Lot
<1>4. Gross(f, t, ranks, btn, p, w) = Total([l \in E |-> lots[l]])
  <2>1. Gross(f, t, ranks, btn, p, w)
          = Total([l \in E |-> LayerTaken(f, t, ranks, btn, l, w) * (Parts \div Cardinality(Contributors(t, l)))])
    BY DEF Gross
  <2> HIDE DEF E, lots
  <2>2. QED
    BY <1>3, <2>1
<1> HIDE DEF E, lots, L
<1>5. Total(lots) = Total([l \in E |-> lots[l]]) /\ Total(lots) \in Int
  BY <1>1, <1>2, TotalWithin, TotalType
<1>6. QED
  BY <1>2, <1>4, <1>5 DEF lots, L

\* What a seat wins of the others, itself among them, is what the engine pays it
LEMMA GrossWon ==
  ASSUME NEW t \in Amounts, NEW f \in SUBSET Seats, NEW ranks \in Layouts, NEW btn \in Seats,
         StayedHoldsTop(f, t), NEW w \in Seats
  PROVE  Total([p \in Seats |-> Gross(f, t, ranks, btn, p, w)]) = Parts * Won(f, t, ranks, btn)[w]
<1> DEFINE L == Levels(t)
           g == [l \in L |-> [p \in Seats |-> Lot(f, t, ranks, btn, l, p, w)]]
           c == [l \in L |-> LayerWon(f, t, ranks, btn, l, w)]
           pays == [l \in L |-> Parts * c[l]]
<1>1. IsFiniteSet(L) /\ IsFiniteSet(Seats) /\ Parts \in Nat
  BY LevelsAre, SeatsFinite, PartsDivide
<1>2. \A l \in L, p \in Seats : Lot(f, t, ranks, btn, l, p, w) \in Nat /\ LayerWon(f, t, ranks, btn, l, w) \in Nat
  BY LotIs
<1>3. IsTable(g, L, Seats)
  BY <1>2 DEF IsTable
<1>4. c \in [L -> Int] /\ pays \in [L -> Int]
  <2>1. 0 \in Seats
    BY SeatsFinite
  <2>2. \A l \in L : c[l] \in Nat
    BY <1>2, <2>1
  <2> HIDE DEF L
  <2>3. QED
    BY <1>1, <2>2
<1>5. ASSUME NEW l \in L PROVE Total(Row(g, l, Seats)) = pays[l]
  <2> DEFINE C == Contributors(t, l)
             n == Cardinality(C)
             q == Parts \div n
             one == [p \in Seats |-> IF p \in C THEN 1 ELSE 0]
             row == Row(g, l, Seats)
             a == c[l] * q
  <2>1. n \in Nat \ {0} /\ q \in Nat /\ n * q = Parts /\ c[l] \in Nat
    BY LotIs
  <2>2. C \in SUBSET Seats
    BY LayerChipsAre
  <2>3. \A p \in Seats : row[p] = IF p \in C THEN a ELSE 0
    BY DEF Row, Lot
  <2>4. row \in [Seats -> Int] /\ DOMAIN row = Seats
    BY <1>2 DEF Row
  <2>5. Marks(one, C, Seats)
    BY <2>2 DEF Marks
  <2> HIDE DEF C, n, q, row
  <2>6. a \in Nat
    BY <2>1
  <2> HIDE DEF a
  <2>7. Times(row, a, one, Seats)
    <3>1. one \in [Seats -> Int] /\ \A p \in Seats : one[p] = IF p \in C THEN 1 ELSE 0
      OBVIOUS
    <3> HIDE DEF one
    <3>2. \A p \in Seats : row[p] = a * one[p]
      BY <2>3, <2>6, <3>1
    <3>3. QED
      BY <2>4, <2>6, <3>1, <3>2 DEF Times
  <2> HIDE DEF one
  <2>8. Total(row) = a * Total(one) /\ Total(one) = n
    BY <1>1, <2>5, <2>7, TotalTimes, TotalMarks DEF n
  <2>9. (c[l] * q) * n = (n * q) * c[l]
    BY <2>1
  <2>10. Total(row) = Parts * c[l]
    BY <2>1, <2>8, <2>9 DEF a
  <2>11. QED
    BY <2>10 DEF row
<1>6. [l \in L |-> Total(Row(g, l, Seats))] = pays
  BY <1>5
<1>7. ASSUME NEW p \in Seats PROVE Total(Column(g, p, L)) = Gross(f, t, ranks, btn, p, w)
  <2>1. Column(g, p, L) = [l \in L |-> Lot(f, t, ranks, btn, l, p, w)]
    BY DEF Column
  <2>2. QED
    BY <2>1, GrossIs
<1>8. [p \in Seats |-> Total(Column(g, p, L))] = [p \in Seats |-> Gross(f, t, ranks, btn, p, w)]
  BY <1>7
<1>9. Won(f, t, ranks, btn)[w] = Total(c)
  BY WonByLayers
<1>10. Times(pays, Parts, c, L)
  <2>1. \A l \in L : pays[l] = Parts * c[l]
    OBVIOUS
  <2> HIDE DEF pays, c, L
  <2>2. QED
    BY <1>1, <1>4, <2>1 DEF Times
<1> HIDE DEF g, c, pays, L
<1>11. Total([l \in L |-> Total(Row(g, l, Seats))]) = Total([p \in Seats |-> Total(Column(g, p, L))])
  <2>1. IsFiniteSet(L) /\ IsFiniteSet(Seats)
    BY <1>1
  <2>2. QED
    BY <2>1, <1>3, TotalSwap
<1>12. Total(pays) = Parts * Total(c)
  BY <1>1, <1>10, TotalTimes
<1>13. QED
  BY <1>6, <1>8, <1>9, <1>11, <1>12

\* What a seat loses to the others, itself among them, is what it put in
LEMMA GrossLost ==
  ASSUME NEW t \in Amounts, NEW f \in SUBSET Seats, NEW ranks \in Layouts, NEW btn \in Seats,
         StayedHoldsTop(f, t), NEW p \in Seats
  PROVE  Total([w \in Seats |-> Gross(f, t, ranks, btn, p, w)]) = Parts * t[p]
<1> DEFINE L == Levels(t)
           g == [l \in L |-> [w \in Seats |-> Lot(f, t, ranks, btn, l, p, w)]]
           c == [l \in L |-> From(t, l, p)]
           pays == [l \in L |-> Parts * c[l]]
<1>1. IsFiniteSet(L) /\ IsFiniteSet(Seats) /\ Parts \in Nat
  BY LevelsAre, SeatsFinite, PartsDivide
<1>2. \A l \in L, w \in Seats : Lot(f, t, ranks, btn, l, p, w) \in Nat
  BY LotIs
<1>3. IsTable(g, L, Seats)
  BY <1>2 DEF IsTable
<1>4. c \in [L -> Int] /\ pays \in [L -> Int]
  <2>1. \A l \in L : LayerEach(t, l) \in Nat
    BY LayerChipsAre
  <2>2. \A l \in L : c[l] \in Nat
    BY <2>1 DEF From
  <2> HIDE DEF L
  <2>3. QED
    BY <1>1, <2>2
<1>5. ASSUME NEW l \in L PROVE Total(Row(g, l, Seats)) = pays[l]
  <2> DEFINE C == Contributors(t, l)
             n == Cardinality(C)
             q == Parts \div n
             wins == LayerWins(f, t, ranks, btn, l)
             row == Row(g, l, Seats)
             each == LayerEach(t, l)
  <2>1. n \in Nat \ {0} /\ q \in Nat /\ n * q = Parts
    BY LotIs
  <2>2. each \in Nat /\ LayerChips(t, l) = each * n
    BY LayerChipsAre DEF LayerChips
  <2>3. wins \in [Seats -> Nat] /\ Total(wins) = LayerChips(t, l)
    BY LayerPaid
  <2>4. row \in [Seats -> Int] /\ DOMAIN row = Seats
    BY <1>2 DEF Row
  <2>5. \A w \in Seats : row[w] = IF p \in C THEN wins[w] * q ELSE 0
    BY DEF Row, Lot, LayerWins
  <2>6. pays[l] = Parts * (IF p \in C THEN each ELSE 0)
    BY DEF From
  <2> HIDE DEF C, n, q, row, wins, each, pays
  <2>7. CASE p \in C
    <3>1. Times(row, q, wins, Seats)
      <4>1. \A w \in Seats : row[w] = q * wins[w]
        BY <2>1, <2>3, <2>5, <2>7
      <4>2. wins \in [Seats -> Int]
        BY <2>3
      <4>3. QED
        BY <2>1, <2>4, <4>1, <4>2 DEF Times
    <3>2. Total(row) = q * Total(wins)
      BY <1>1, <3>1, TotalTimes
    <3>3. q * (each * n) = (n * q) * each
      BY <2>1, <2>2
    <3>4. Total(row) = Parts * each
      BY <2>1, <2>2, <2>3, <3>2, <3>3
    <3>5. QED
      BY <2>6, <2>7, <3>4 DEF row
  <2>8. CASE p \notin C
    <3>1. \A w \in Seats : row[w] = 0
      BY <2>5, <2>8
    <3>2. Total(row) = 0
      BY <1>1, <2>4, <3>1, TotalZero
    <3>3. Parts * 0 = 0
      BY <1>1
    <3>4. QED
      BY <2>6, <2>8, <3>2, <3>3 DEF row
  <2>9. QED
    BY <2>7, <2>8
<1>6. [l \in L |-> Total(Row(g, l, Seats))] = pays
  BY <1>5
<1>7. ASSUME NEW w \in Seats PROVE Total(Column(g, w, L)) = Gross(f, t, ranks, btn, p, w)
  <2>1. Column(g, w, L) = [l \in L |-> Lot(f, t, ranks, btn, l, p, w)]
    BY DEF Column
  <2>2. QED
    BY <2>1, GrossIs
<1>8. [w \in Seats |-> Total(Column(g, w, L))] = [w \in Seats |-> Gross(f, t, ranks, btn, p, w)]
  BY <1>7
<1>9. t[p] = Total(c)
  BY SeatChipsAre
<1>10. Times(pays, Parts, c, L)
  <2>1. \A l \in L : pays[l] = Parts * c[l]
    OBVIOUS
  <2> HIDE DEF pays, c, L
  <2>2. QED
    BY <1>1, <1>4, <2>1 DEF Times
<1> HIDE DEF g, c, pays, L
<1>11. Total([l \in L |-> Total(Row(g, l, Seats))]) = Total([w \in Seats |-> Total(Column(g, w, L))])
  <2>1. IsFiniteSet(L) /\ IsFiniteSet(Seats)
    BY <1>1
  <2>2. QED
    BY <2>1, <1>3, TotalSwap
<1>12. Total(pays) = Parts * Total(c)
  BY <1>1, <1>10, TotalTimes
<1>13. QED
  BY <1>6, <1>8, <1>9, <1>11, <1>12

\* A seat's recorded flows add up to its result within half a chip for each opponent
LEMMA FlowsMatch ==
  ASSUME NEW t \in Amounts, NEW f \in SUBSET Seats, NEW ranks \in Layouts, NEW btn \in Seats,
         StayedHoldsTop(f, t), NEW s \in Seats
  PROVE  LET off == FlowsTo(f, t, ranks, btn, s) - (Won(f, t, ranks, btn)[s] - t[s])
         IN  2 * off <= NumSeats - 1 /\ -2 * off <= NumSeats - 1
<1> DEFINE S == Seats \ {s}
           won == [r \in Seats |-> Gross(f, t, ranks, btn, r, s)]
           lost == [r \in Seats |-> Gross(f, t, ranks, btn, s, r)]
           net == [r \in Seats |-> won[r] - lost[r]]
           owed == [r \in S |-> net[r]]
           flow == [r \in S |-> RoundParts(owed[r])]
           scaled == [r \in S |-> Parts * flow[r]]
           err == [r \in S |-> scaled[r] - owed[r]]
           result == Won(f, t, ranks, btn)[s] - t[s]
           one == [r \in S |-> 1]
           full == [r \in S |-> Parts]
           empty == [r \in S |-> -Parts]
           twice == [r \in S |-> 2 * err[r]]
<1>1. IsFiniteSet(Seats) /\ Parts \in Nat \ {0} /\ NumSeats \in Nat
  BY SeatsFinite, PartsDivide, NumSeatsAssumption
<1>2. IsFiniteSet(S) /\ Cardinality(S) = NumSeats - 1 /\ S \in SUBSET Seats
  <2>1. IsFiniteSet(0 .. NumSeats - 1) /\ Cardinality(0 .. NumSeats - 1) = NumSeats
    BY NumSeatsAssumption, RangeSize
  <2>2. Cardinality(Seats) = NumSeats
    BY <2>1 DEF Seats
  <2>3. QED
    BY <1>1, <2>2, FS_RemoveElement
<1>3. won \in [Seats -> Int] /\ lost \in [Seats -> Int] /\ net \in [Seats -> Int] /\ net[s] = 0
  <2>1. \A r \in Seats : Gross(f, t, ranks, btn, r, s) \in Int /\ Gross(f, t, ranks, btn, s, r) \in Int
    BY GrossIs
  <2>2. won[s] = lost[s] /\ won[s] \in Int
    BY <2>1
  <2>3. QED
    BY <2>1, <2>2
<1>4. Won(f, t, ranks, btn)[s] \in Int /\ t[s] \in Int /\ result \in Int
  <2>1. Won(f, t, ranks, btn) \in [Seats -> Nat]
    BY WonIsPot
  <2>2. t[s] \in Nat
    BY LevelsAre
  <2>3. QED
    BY <2>1, <2>2
<1>5. Total(won) = Parts * Won(f, t, ranks, btn)[s] /\ Total(lost) = Parts * t[s]
  BY GrossWon, GrossLost
<1>6. Adds(won, lost, net, Seats)
  <2>1. \A r \in Seats : net[r] = won[r] - lost[r]
    OBVIOUS
  <2> HIDE DEF won, lost, net
  <2>2. \A r \in Seats : won[r] = lost[r] + net[r]
    BY <1>3, <2>1
  <2>3. QED
    BY <1>3, <2>2 DEF Adds
<1>7. owed \in [S -> Int] /\ \A r \in Seats \ S : net[r] = 0
  BY <1>3
<1>8. \A r \in S : owed[r] = net[r] /\ flow[r] = RoundParts(owed[r])
  OBVIOUS
<1>9. FlowsTo(f, t, ranks, btn, s) = Total(flow)
  <2>1. \A r \in S : flow[r] = Flow(f, t, ranks, btn, r, s)
    BY DEF Flow
  <2>2. flow = [r \in S |-> Flow(f, t, ranks, btn, r, s)]
    BY <2>1
  <2>3. QED
    BY <2>2 DEF FlowsTo
<1> HIDE DEF won, lost, net
<1>10. Total(net) = Parts * result
  <2>1. Total(won) = Total(lost) + Total(net)
    BY <1>1, <1>6, TotalAdds
  <2>2. Total(net) \in Int
    BY <1>1, <1>3, TotalType
  <2>3. /\ Parts * result = Parts * Won(f, t, ranks, btn)[s] - Parts * t[s]
        /\ Parts * Won(f, t, ranks, btn)[s] \in Int /\ Parts * t[s] \in Int
    BY <1>1, <1>4, ScaledDifference
  <2> HIDE DEF result
  <2>4. QED
    BY <1>5, <2>1, <2>2, <2>3
<1>11. Total(owed) = Total(net)
  <2>1. owed = [r \in S |-> net[r]]
    OBVIOUS
  <2> HIDE DEF owed, S
  <2>2. QED
    BY <1>1, <1>2, <1>3, <1>7, <2>1, TotalWithin
<1> HIDE DEF owed, S, result
<1>12. \A r \in S : flow[r] \in Int /\ scaled[r] \in Int /\ err[r] \in Int
                    /\ scaled[r] = Parts * flow[r] /\ scaled[r] = owed[r] + err[r]
                    /\ twice[r] = 2 * err[r]
                    /\ twice[r] <= Parts /\ -Parts <= twice[r]
  <2> SUFFICES ASSUME NEW r \in S
               PROVE  flow[r] \in Int /\ scaled[r] \in Int /\ err[r] \in Int
                      /\ scaled[r] = Parts * flow[r] /\ scaled[r] = owed[r] + err[r]
                      /\ twice[r] = 2 * err[r]
                      /\ twice[r] <= Parts /\ -Parts <= twice[r]
    OBVIOUS
  <2>1. owed[r] \in Int
    BY <1>7
  <2>2. flow[r] = RoundParts(owed[r]) /\ scaled[r] = Parts * flow[r] /\ err[r] = scaled[r] - owed[r]
        /\ twice[r] = 2 * err[r]
    OBVIOUS
  <2> HIDE DEF flow, scaled, err, twice
  <2>3. /\ RoundParts(owed[r]) \in Int /\ Parts * RoundParts(owed[r]) \in Int
        /\ 2 * (Parts * RoundParts(owed[r]) - owed[r]) <= Parts
        /\ -Parts <= 2 * (Parts * RoundParts(owed[r]) - owed[r])
    BY <2>1, RoundIs
  <2>4. scaled[r] \in Int /\ flow[r] \in Int /\ scaled[r] = Parts * RoundParts(owed[r])
    BY <2>2, <2>3
  <2>5. err[r] \in Int /\ scaled[r] = owed[r] + err[r]
    BY <2>1, <2>2, <2>4
  <2>6. twice[r] <= Parts /\ -Parts <= twice[r]
    BY <2>2, <2>3, <2>4
  <2>7. QED
    BY <2>2, <2>4, <2>5, <2>6
<1>13. /\ flow \in [S -> Int] /\ scaled \in [S -> Int] /\ err \in [S -> Int] /\ twice \in [S -> Int]
       /\ one \in [S -> Int] /\ full \in [S -> Int] /\ empty \in [S -> Int]
  <2>1. DOMAIN flow = S /\ DOMAIN scaled = S /\ DOMAIN err = S /\ DOMAIN twice = S
    OBVIOUS
  <2>2. \A r \in S : twice[r] \in Int
    BY <1>12
  <2>3. one \in [S -> Int] /\ full \in [S -> Int] /\ empty \in [S -> Int]
    BY <1>1
  <2>4. flow = [r \in S |-> flow[r]] /\ scaled = [r \in S |-> scaled[r]] /\ err = [r \in S |-> err[r]]
        /\ twice = [r \in S |-> twice[r]]
    OBVIOUS
  <2> HIDE DEF flow, scaled, err, twice
  <2>5. QED
    BY <1>12, <2>2, <2>3, <2>4
<1>14. /\ \A r \in S : full[r] = Parts /\ empty[r] = -Parts /\ one[r] = 1
       /\ \A r \in S : full[r] = Parts * one[r] /\ empty[r] = (-Parts) * one[r]
  BY <1>1
<1> HIDE DEF flow, scaled, err, twice, one, full, empty
<1>15. /\ Times(scaled, Parts, flow, S) /\ Adds(scaled, owed, err, S) /\ Times(twice, 2, err, S)
       /\ Times(full, Parts, one, S) /\ Times(empty, -Parts, one, S) /\ Marks(one, S, S)
       /\ NoMore(twice, full, S) /\ NoMore(empty, twice, S)
  <2>1. Times(scaled, Parts, flow, S) /\ Times(twice, 2, err, S)
    BY <1>1, <1>12, <1>13 DEF Times
  <2>2. Adds(scaled, owed, err, S)
    BY <1>7, <1>12, <1>13 DEF Adds
  <2>3. Times(full, Parts, one, S) /\ Times(empty, -Parts, one, S)
    BY <1>1, <1>13, <1>14 DEF Times
  <2>4. Marks(one, S, S)
    BY <1>13, <1>14 DEF Marks
  <2>5. NoMore(twice, full, S) /\ NoMore(empty, twice, S)
    BY <1>12, <1>13, <1>14 DEF NoMore
  <2>6. QED
    BY <2>1, <2>2, <2>3, <2>4, <2>5
<1>16. Total(scaled) = Parts * Total(flow) /\ Total(scaled) = Total(owed) + Total(err)
  BY <1>2, <1>15, TotalTimes, TotalAdds
<1>17. Total(twice) = 2 * Total(err) /\ Total(twice) <= Total(full) /\ Total(empty) <= Total(twice)
  BY <1>2, <1>15, TotalTimes, TotalNoMore
<1>18. Total(full) = Parts * (NumSeats - 1) /\ Total(empty) = (-Parts) * (NumSeats - 1)
  <2>1. Total(one) = NumSeats - 1
    BY <1>2, <1>15, TotalMarks
  <2>2. Total(full) = Parts * Total(one) /\ Total(empty) = (-Parts) * Total(one)
    BY <1>2, <1>15, TotalTimes
  <2>3. QED
    BY <2>1, <2>2
<1>19. Total(flow) \in Int /\ Total(err) \in Int
  BY <1>2, <1>13, TotalType
<1> DEFINE x == Total(flow)
           off == x - result
<1>20. Total(err) = Parts * off
  <2>1. Parts * x = Parts * result + Total(err)
    BY <1>10, <1>11, <1>16
  <2>2. Parts * off = Parts * x - Parts * result /\ Parts * x \in Int /\ Parts * result \in Int
    <3>1. Parts \in Int /\ x \in Int
      BY <1>1, <1>19
    <3> HIDE DEF x
    <3>2. QED
      BY <1>4, <3>1, ScaledDifference
  <2> HIDE DEF x, off
  <2>3. QED
    BY <1>19, <2>1, <2>2
<1>21. off \in Int
  BY <1>4, <1>19
<1> HIDE DEF x, off
<1>22. 2 * (Parts * off) = Parts * (2 * off) /\ -(2 * (Parts * off)) = Parts * (-2 * off)
       /\ (-Parts) * (NumSeats - 1) = -(Parts * (NumSeats - 1))
       /\ Parts * (2 * off) \in Int /\ Parts * (NumSeats - 1) \in Int /\ Parts * (-2 * off) \in Int
  <2>1. Parts \in Int
    BY <1>1
  <2>2. 2 * (Parts * off) = Parts * (2 * off) /\ -(2 * (Parts * off)) = Parts * (-2 * off)
    BY <1>21, <2>1
  <2>3. (-Parts) * (NumSeats - 1) = -(Parts * (NumSeats - 1))
    BY <1>1, <2>1
  <2>4. Parts * (2 * off) \in Int /\ Parts * (NumSeats - 1) \in Int /\ Parts * (-2 * off) \in Int
    BY <1>1, <1>21, <2>1
  <2>5. QED
    BY <2>2, <2>3, <2>4
<1>23. Parts * (2 * off) <= Parts * (NumSeats - 1)
  BY <1>17, <1>18, <1>20, <1>22
<1>24. Parts * (-2 * off) <= Parts * (NumSeats - 1)
  <2>1. -(Parts * (NumSeats - 1)) <= 2 * (Parts * off)
    BY <1>17, <1>18, <1>20, <1>22
  <2>2. QED
    BY <1>22, <2>1
<1>25. 2 * off <= NumSeats - 1
  <2>1. 2 * off \in Int /\ NumSeats - 1 \in Int
    BY <1>1, <1>21
  <2>2. QED
    BY <1>1, <1>23, <2>1, ScaledOrder
<1>26. -2 * off <= NumSeats - 1
  <2>1. -2 * off \in Int /\ NumSeats - 1 \in Int
    BY <1>1, <1>21
  <2>2. QED
    BY <1>1, <1>24, <2>1, ScaledOrder
<1>27. QED
  BY <1>9, <1>25, <1>26 DEF off, x, result

\* What a home game shows and records of a hand is what the engine paid: the awards
\* to the chip, the flows within half a chip for each opponent, at every table.
THEOREM PayoutTheorem == Spec => []TableShowsThePayout
<1>1. TypeOK /\ LiveSeatHoldsTop => TableShowsThePayout
  <2> SUFFICES ASSUME TypeOK, LiveSeatHoldsTop PROVE AwardsMatchEngine /\ FlowsNearlyAddUp
    BY DEF TableShowsThePayout
  <2>1. total \in Amounts /\ folded \in SUBSET Seats /\ button \in Seats
    BY DEF TypeOK, Amounts
  <2>2. Settled => StayedHoldsTop(folded, total)
    BY DEF LiveSeatHoldsTop, StayedHoldsTop, Settled, Ended
  <2>3. AwardsMatchEngine
    BY <2>1, <2>2, AwardsMatch, BoardsLayout DEF AwardsMatchEngine
  <2>4. FlowsNearlyAddUp
    BY <2>1, <2>2, FlowsMatch, BoardsLayout DEF FlowsNearlyAddUp
  <2>5. QED
    BY <2>3, <2>4
<1>2. QED
  BY <1>1, TypeTheorem, TopTheorem, PTL

=============================================================================
