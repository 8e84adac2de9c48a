------------------------------ MODULE MCScanner ------------------------------
(***************************************************************************)
(* Three machines of the scanner for one run of TLC: the signal path when  *)
(* nothing fails, the watch episodes of a symbol, and the pre-breakout     *)
(* state of a symbol.  They share no state; `focus', chosen at the start,  *)
(* says which of them this behaviour is about, and the others stay as      *)
(* Init leaves them.  Each behaviour is therefore one of the behaviours of *)
(* FaultFreeSpec, EpisodeSpec or SetupSpec, and the other way round.       *)
(***************************************************************************)
EXTENDS ScannerSignals, WatchEpisodes, PreBreakout

VARIABLE focus

mcVars == <<vars, episodeVars, setupVars, focus>>

\* The variables of the machine in focus.
own ==
  CASE focus = "signals" -> vars
    [] focus = "episode" -> episodeVars
    [] focus = "setup" -> setupVars

MCInit ==
  /\ focus \in {"signals", "episode", "setup"}
  /\ Init
  /\ EpisodeInit
  /\ SetupInit

MCNext ==
  /\ UNCHANGED focus
  /\ \/ focus = "signals" /\ FaultFreeNext /\ UNCHANGED <<episodeVars, setupVars>>
     \/ focus = "episode" /\ EpisodeNext /\ UNCHANGED <<vars, setupVars>>
     \/ focus = "setup" /\ SetupNext /\ UNCHANGED <<vars, episodeVars>>

Of(part, A) == focus = part /\ A /\ UNCHANGED focus

\* The fairness of FaultFreeSpec and of SetupSpec; only one of them has steps.
MCFairness ==
  /\ WF_own(Of("signals", HandlerStep))
  /\ WF_own(Of("signals", SweepStep))
  /\ WF_own(Of("signals", Tick) \/ Of("setup", SetupTick))
  /\ []<>(~quiet)

MCSpec == MCInit /\ [][MCNext]_mcVars /\ MCFairness
=============================================================================
