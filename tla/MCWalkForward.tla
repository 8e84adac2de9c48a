---------------------------- MODULE MCWalkForward ----------------------------
(***************************************************************************)
(* The outcomes and the grid that the walk-forward choice is checked with. *)
(***************************************************************************)
EXTENDS WalkForward

Outcome(gap, lag, win, score, rr, session) ==
  [gap |-> gap, lag |-> lag, win |-> win, score |-> score, rr |-> rr, grade |-> 3,
   session |-> session]

\* A win after the embargo of the signal before, a win within it that is known only
\* after the next signal has come and that only some profiles take, and a loss.
MCOutcomes ==
  {Outcome(3, 1, TRUE, 85, 200, "closing"), Outcome(1, 2, TRUE, 45, 120, "opening"),
   Outcome(2, 2, FALSE, 60, 120, "closing")}

Filter(score, rr, session) ==
  [score |-> score, rr |-> rr, grade |-> 0, session |-> session]

MCProfiles ==
  <<Filter(50, 0, "regular"), Filter(50, 150, "regular"), Filter(80, 0, "regular"),
    Filter(50, 0, "closing")>>

\* One of them is what the last profile asks for.
MCLiveSettings == {[score |-> 80, rr |-> 120], [score |-> 52, rr |-> 0]}
=============================================================================
