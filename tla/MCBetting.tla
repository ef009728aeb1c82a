----------------------------- MODULE MCBetting -----------------------------
EXTENDS Betting
HomeGame  == [holdem |-> FALSE, reach |-> FALSE, cover |-> FALSE, study |-> FALSE]
BombPots  == [HomeGame EXCEPT !.reach = TRUE]
Holdem    == [BombPots EXCEPT !.holdem = TRUE]
StudyPots == [BombPots EXCEPT !.cover = TRUE, !.study = TRUE]
AllGames  == {HomeGame, BombPots, Holdem, StudyPots}
HomeOnly  == {HomeGame}
PotSized  == {<<1, 2>>, <<1, 1>>}
=============================================================================
