------------------------------- MODULE Money -------------------------------
(* The exact money arithmetic of the home games (ui/homegame.py): the        *)
(* conversion between engine chips and whole cents, and the two              *)
(* largest-remainder divisions the ledger rests on.  All amounts are         *)
(* integers; a table's stakes enter as the chips (bbChips) and the cents     *)
(* (bbCents) of one big blind.                                               *)
EXTENDS Integers, FiniteSets, Functions

Least(S) == CHOOSE x \in S : \A y \in S : x <= y

\* round(num / den), half away from zero
DivHalfUp(num, den) ==
  IF num < 0 THEN - ((2 * (-num) + den) \div (2 * den))
             ELSE (2 * num + den) \div (2 * den)

CentsToChips(cents, bbChips, bbCents) == DivHalfUp(cents * bbChips, bbCents)
ChipsToCents(chips, bbChips, bbCents) == DivHalfUp(chips * bbCents, bbChips)

\* The sum of a function over its (finite) domain
Total(f) == SumFunction(f)

\* The number of indices served before i when odd cents go to the largest
\* remainder first, ties to the lower index
Rank(i, rem, S) ==
  Cardinality({j \in S : rem[j] > rem[i] \/ (rem[j] = rem[i] /\ j < i)})

\* Split total cents over the stacks chips[i] in proportion to the chips
Apportion(total, chips) ==
  LET S    == DOMAIN chips
      t    == IF total < 0 THEN 0 ELSE total
      w    == [i \in S |-> IF chips[i] < 0 THEN 0 ELSE chips[i]]
      pool == Total(w)
  IN IF pool = 0
     THEN [i \in S |-> IF i = Least(S) THEN t ELSE 0]
     ELSE LET held == {i \in S : w[i] > 0}
              base == [i \in S |-> (t * w[i]) \div pool]
              rem  == [i \in S |-> (t * w[i]) % pool]
              left == t - Total(base)
          IN [i \in S |-> base[i] +
                IF i \in held /\ Rank(i, rem, held) < left THEN 1 ELSE 0]

\* One hand's chip results in whole cents that still add up to zero
ZeroSumCents(deltas, bbChips, bbCents) ==
  LET S     == DOMAIN deltas
      base  == [i \in S |-> (deltas[i] * bbCents) \div bbChips]
      rem   == [i \in S |-> (deltas[i] * bbCents) % bbChips]
      extra == Total(rem) \div bbChips
  IN [i \in S |-> base[i] + IF Rank(i, rem, S) < extra THEN 1 ELSE 0]

=============================================================================
