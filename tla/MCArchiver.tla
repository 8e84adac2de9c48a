------------------------------ MODULE MCArchiver ------------------------------
(***************************************************************************)
(* What becomes of a signal, for one run of TLC: the archiver writes it to *)
(* Postgres ("writes") and resolves it against the bars ("outcomes"), and  *)
(* the api's monitor resolves the trade taken on it ("trade"); and what    *)
(* becomes of a backtest run ("runs").  They share no state in the model;  *)
(* `focus', chosen at the start, says which of them this behaviour is      *)
(* about, and the others stay in one initial state.                        *)
(***************************************************************************)
EXTENDS ArchiverWrites, OutcomeTracker, TradeLifecycle, StructureRuns

VARIABLE focus

mcVars == <<vars, dayVars, tradeVars, runVars, focus>>

\* The variables of the part in focus.
own ==
  CASE focus = "writes" -> vars
    [] focus = "outcomes" -> dayVars
    [] focus = "trade" -> tradeVars
    [] focus = "runs" -> runVars

\* A long and a short trade, with two targets.
LongPlan == [entry |-> 1, stop |-> 0, targets |-> <<2, 3>>, bearish |-> FALSE]
ShortPlan == [entry |-> 2, stop |-> 3, targets |-> <<1, 0>>, bearish |-> TRUE]
MCPlans == {LongPlan, ShortPlan}

\* What a search can find: two survivors in the wrong order, a survivor among what
\* is kept and one that is not.
Profile(s, r) == [score |-> s, rejected |-> r]

MCTables ==
  {<<Profile(2, FALSE), Profile(3, TRUE), Profile(4, FALSE)>>,
   <<Profile(6, TRUE), Profile(2, FALSE)>>,
   <<Profile(5, TRUE), Profile(1, FALSE), Profile(3, TRUE)>>}

MCInit ==
  /\ focus \in {"writes", "outcomes", "trade", "runs"}
  /\ Init
  /\ OutcomeInit
  /\ TradeInit
  /\ RunInit
  /\ focus # "trade" => plan = LongPlan

MCNext ==
  /\ UNCHANGED focus
  /\ \/ focus = "writes" /\ Next /\ UNCHANGED <<dayVars, tradeVars, runVars>>
     \/ focus = "outcomes" /\ OutcomeNext /\ UNCHANGED <<vars, tradeVars, runVars>>
     \/ focus = "trade" /\ TradeNext /\ UNCHANGED <<vars, dayVars, runVars>>
     \/ focus = "runs" /\ RunNext /\ UNCHANGED <<vars, dayVars, tradeVars>>

Of(part, A) == focus = part /\ A /\ UNCHANGED focus

\* The fairness conditions of the modules' own specifications.  A condition of
\* one and a condition of another are one disjunction here: only one of the two
\* has steps in a behaviour.
MCFairness ==
  /\ WF_own(\/ Of("writes", MainTask)
            \/ Of("outcomes", MinutePasses \/ BarWritten \/ TrackerStep)
            \/ Of("trade", EndMinute \/ WriteBar)
            \/ Of("runs", TaskStep))
  /\ WF_own(\/ Of("writes", TimerTask)
            \/ Of("outcomes", PublishRecap)
            \/ Of("trade", SweepRow))
  /\ WF_own(Of("writes", Restart))

MCSpec == MCInit /\ [][MCNext]_mcVars /\ MCFairness

-----------------------------------------------------------------------------

\* TradeCloses, of the behaviours that are about the trade.
TradeIsClosed == focus = "trade" => TradeCloses

\* Nothing stays undecided: the day gets its recap, the trade is closed, and the
\* backtest run ends.
AllIsDecided == RecapIsSent /\ TradeIsClosed /\ RunEnds
=============================================================================
