--------------------------- MODULE MatchPromises ---------------------------
(***************************************************************************)
(* What a match of the battle service promises its players.                *)
(***************************************************************************)
EXTENDS BattleMatch

\* An answer that is recorded for a question stays, although two engines
\* record answers of one match (store.go, RecordAnswer).
FirstAnswerStands ==
  [][\A m \in Match, u \in User, i \in Idx :
       answers[m][u][i] # NoRow => answers'[m][u][i] = answers[m][u][i]]_vars

\* A match the history shows (status DONE) lacks a player's rank only when the
\* statement that was to insert the player's row or to write the rank failed,
\* an error finalize and startMatch discard; also while the match's other
\* engine is at work (store.go, ListUserHistory; engine.go, finalize).
Excused(m, u) == <<"player", u>> \in failed[m] \/ <<"rank", u>> \in failed[m]
DoneIsRanked ==
  \A m \in Match : status[m] = "DONE" =>
    \A u \in party[m] : ranks[m][u] > 0 \/ Excused(m, u)

\* A match that was formed ends, whatever its players and their connections do:
\* both its engines return, and what the last of them leaves is an end
\* (engine.go, Run).
EventuallyEnds ==
  \A m \in Match :
    party[m] # {} ~> /\ status[m] \in Ended
                     /\ \A u \in party[m] : At(m, u, "over")
=============================================================================
