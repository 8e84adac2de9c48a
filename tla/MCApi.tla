--------------------------------- MODULE MCApi ---------------------------------
(***************************************************************************)
(* Three of the api's jobs for one run of TLC: the radar's alerts, the     *)
(* trade journal and the warnings about open positions.  They share no     *)
(* state; `focus', chosen at the start, says which of them this behaviour  *)
(* is about, and the others stay in one initial state of theirs.           *)
(***************************************************************************)
EXTENDS RadarAlerts, TradeJournal, PositionWarnings

VARIABLE focus

mcVars == <<radarVars, journalVars, warningVars, focus>>

\* The variables of the part in focus.
own ==
  CASE focus = "radar" -> radarVars
    [] focus = "journal" -> journalVars
    [] focus = "warnings" -> warningVars

MCInit ==
  /\ focus \in {"radar", "journal", "warnings"}
  /\ RadarInit
  /\ JournalInit
  /\ WarningInit
  /\ focus # "warnings" => account = [p \in Positions |-> "closed"]

MCNext ==
  /\ UNCHANGED focus
  /\ \/ /\ focus = "radar" /\ RadarNext
        /\ UNCHANGED <<journalVars, warningVars>>
     \/ /\ focus = "journal" /\ JournalNext
        /\ UNCHANGED <<radarVars, warningVars>>
     \/ /\ focus = "warnings" /\ WarningNext
        /\ UNCHANGED <<radarVars, journalVars>>

Of(part, A) == focus = part /\ A /\ UNCHANGED focus

\* The fairness conditions of the modules' own specifications.  A condition of
\* one and a condition of another are one disjunction here: only one of the two
\* has steps in a behaviour.
MCFairness ==
  /\ \A w \in Windows :
       WF_own(\/ Of("warnings", Poll(w))
              \/ Of("radar", SweepStep)
              \/ Of("journal", LoggerStep))
  /\ WF_own(Of("journal", SaveRows("user")))
  /\ WF_own(Of("journal", MonitorStep))
  /\ \A p \in Positions :
       SF_own(Of("warnings", CooldownExpires(p)) \/ Of("journal", TradeAges))

MCSpec == MCInit /\ [][MCNext]_mcVars /\ MCFairness
=============================================================================
