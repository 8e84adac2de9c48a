------------------------------- MODULE MCSafety -------------------------------
(***************************************************************************)
(* Five parts of which only safety is asked, for one run of TLC: the       *)
(* scanner's signal path with its faults, the alerter, the structure of a  *)
(* symbol with its backtest, and the walk-forward choice.  They share no   *)
(* state in the model; `focus', chosen at the start, says which of them    *)
(* this behaviour is about, and the others stay in one initial state of    *)
(* theirs.  No definition tells two symbols of the alerter apart, so they  *)
(* are taken as interchangeable.                                           *)
(***************************************************************************)
EXTENDS MCStructure, MCWalkForward, ScannerSignals, AlertGate, TLC

VARIABLE focus

mcVars == <<vars, alertVars, swingVars, replayVars, walkVars, focus>>

MCInit ==
  /\ focus \in {"signals", "alerts", "swings", "replay", "walk"}
  /\ Init
  /\ AlertInit
  /\ SwingInit
  /\ ReplayInit
  /\ WalkInit
  /\ focus # "replay" => config = CHOOSE x \in Configs : TRUE
  /\ focus # "walk" => settings = CHOOSE x \in LiveSettings : TRUE

MCNext ==
  /\ UNCHANGED focus
  /\ \/ /\ focus = "signals" /\ Next
        /\ UNCHANGED <<alertVars, swingVars, replayVars, walkVars>>
     \/ /\ focus = "alerts" /\ AlertNext
        /\ UNCHANGED <<vars, swingVars, replayVars, walkVars>>
     \/ /\ focus = "swings" /\ SwingNext
        /\ UNCHANGED <<vars, alertVars, replayVars, walkVars>>
     \/ /\ focus = "replay" /\ ReplayNext
        /\ UNCHANGED <<vars, alertVars, swingVars, walkVars>>
     \/ /\ focus = "walk" /\ WalkNext
        /\ UNCHANGED <<vars, alertVars, swingVars, replayVars>>

MCSpec == MCInit /\ [][MCNext]_mcVars

Symmetry == Permutations(AlertSymbols)
=============================================================================
