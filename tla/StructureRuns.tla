----------------------------- MODULE StructureRuns -----------------------------
(***************************************************************************)
(* A backtest run of the structure suite and the searches over it          *)
(* (services/api, routes/structure.py, structure_backtest.py and           *)
(* structure_optimize.py).  A POST inserts the run's row and leaves a      *)
(* background task that replays the bars, stores the trades and closes the *)
(* row.  A GET of the optimizer reads back what an earlier search stored,  *)
(* or searches, stores the profiles and then the summary of the search,    *)
(* and nothing keeps two GETs from doing so at once.  One run is modelled: *)
(* runs share nothing.                                                     *)
(*                                                                         *)
(* A profile is its robustness and whether a rule rejected it; a search    *)
(* finds any of a few tables of them, for the bars it loads have moved on  *)
(* since the last.  Stored rows that agree in these are one row of the     *)
(* model.  Statements fail and the api crashes.  Trades, metrics and       *)
(* progress are left out.                                                  *)
(* RankUnsorted and TaskRaisesUnread are faulty variants, kept to see the  *)
(* properties fail.                                                        *)
(***************************************************************************)
EXTENDS Integers, Sequences, FiniteSets

CONSTANTS
  Visitors,      \* the GETs of the optimizer
  Tables,        \* what a search can find, in the order of the sampled grid
  KeptProfiles,  \* how many candidates of a search are kept, 20
  MaxSearches,   \* bound: searches that are begun
  MaxRunFaults,  \* bound: failing statements
  MaxApiCrashes  \* bound

ASSUME StructureRunsAssumption ==
  /\ \A t \in Tables : t \in Seq([score: Int, rejected: BOOLEAN])
  /\ KeptProfiles \in Nat \ {0} /\ MaxSearches \in Nat
  /\ MaxRunFaults \in Nat /\ MaxApiCrashes \in Nat

VARIABLES
  run,        \* structure_backtest_runs: the row's status, or "none"
  simulated,  \* structure_backtest_trades has the run's trades
  task,       \* where run_structure_backtest is
  visit,      \* where each GET is
  profiles,   \* structure_optimized_profiles: the rows of all searches
  meta,       \* structure_optimize_runs_meta has a row
  searches,
  runFaults,
  apiCrashes

runCounts == <<searches, runFaults, apiCrashes>>
runVars == <<run, simulated, task, visit, profiles, meta, runCounts>>

Nowhere == [at |-> "idle"]
NoProfile == [none |-> TRUE]

\* No survivor has no rank, which is NULL.
Unranked == 0

-----------------------------------------------------------------------------
(* What a search makes of the profiles it has evaluated. *)

\* sorted() by score, the best first, is stable: whether profile i comes before j.
Before(table, i, j) ==
  \/ table[i].score > table[j].score
  \/ table[i].score = table[j].score /\ i < j

Survivors(table) == {i \in DOMAIN table : ~table[i].rejected}

\* The place of profile i among some of them.
Place(table, among, i) == Cardinality({j \in among : Before(table, j, i)}) + 1

RankUnsorted(table, i) == i

\* The rank of a survivor is its place among the survivors.
Rank(table, i) == Place(table, Survivors(table), i)

KeptPlaces(table) == {i \in DOMAIN table : Place(table, DOMAIN table, i) <= KeptProfiles}

\* optimize_structure_backtest: the best candidates, the rejected ones too, and
\* only survivors have a rank.
Candidates(table) ==
  {[score |-> table[i].score, rejected |-> table[i].rejected,
    rank |-> IF table[i].rejected THEN Unranked ELSE Rank(table, i)] : i \in KeptPlaces(table)}

\* get_cached_optimize_result: the rows by robustness, the first of rank 1.
CachedRecommendation(rows) ==
  LET first == {p \in rows : p.rank = 1}
  IN  IF first = {} THEN NoProfile
      ELSE CHOOSE p \in first : \A q \in first : q.score <= p.score

-----------------------------------------------------------------------------

Places ==
  {"idle", "visiting", "searching", "storing", "summing"}

\* Survivors have a rank, and only they.
RunTypeOK ==
  /\ run \in {"none", "RUNNING", "DONE", "FAILED"}
  /\ simulated \in BOOLEAN
  /\ task \in {"none", "replaying", "closing", "failing", "ended"}
  /\ \A v \in Visitors : visit[v].at \in Places
  /\ \A p \in profiles : p.rank \in Nat /\ (p.rank = Unranked <=> p.rejected)
  /\ meta \in BOOLEAN
  /\ searches \in 0..MaxSearches
  /\ runFaults \in 0..MaxRunFaults
  /\ apiCrashes \in 0..MaxApiCrashes

RunInit ==
  /\ run = "none"
  /\ simulated = FALSE
  /\ task = "none"
  /\ visit = [v \in Visitors |-> Nowhere]
  /\ profiles = {}
  /\ meta = FALSE
  /\ searches = 0
  /\ runFaults = 0
  /\ apiCrashes = 0

Fault ==
  /\ runFaults < MaxRunFaults
  /\ runFaults' = runFaults + 1
  /\ UNCHANGED <<searches, apiCrashes>>

-----------------------------------------------------------------------------
(* The run. *)

\* POST: create_backtest_run, and the task.
CreateRun ==
  /\ run = "none"
  /\ run' = "RUNNING"
  /\ task' = "replaying"
  /\ UNCHANGED <<simulated, visit, profiles, meta, runCounts>>

\* The replay ends and _persist_trades stores what it found, all or nothing.
PersistTrades ==
  /\ task = "replaying"
  /\ simulated' = TRUE
  /\ task' = "closing"
  /\ UNCHANGED <<run, visit, profiles, meta, runCounts>>

CloseRun ==
  /\ task = "closing"
  /\ run' = "DONE"
  /\ task' = "ended"
  /\ UNCHANGED <<simulated, visit, profiles, meta, runCounts>>

TaskRaisesUnread ==
  /\ task \in {"replaying", "closing"}
  /\ Fault
  /\ task' = "ended"
  /\ UNCHANGED <<run, simulated, visit, profiles, meta>>

\* Reading the bars, the replay, the trades or the last UPDATE fails.
TaskRaises ==
  /\ task \in {"replaying", "closing"}
  /\ Fault
  /\ task' = "failing"
  /\ UNCHANGED <<run, simulated, visit, profiles, meta>>

MarkFailed ==
  /\ task = "failing"
  /\ run' = "FAILED"
  /\ task' = "ended"
  /\ UNCHANGED <<simulated, visit, profiles, meta, runCounts>>

\* The UPDATE of the handler fails as well: the task ends with its error.
MarkFailedRaises ==
  /\ task = "failing"
  /\ Fault
  /\ task' = "ended"
  /\ UNCHANGED <<run, simulated, visit, profiles, meta>>

TaskStep == PersistTrades \/ CloseRun \/ MarkFailed

-----------------------------------------------------------------------------
(* GET of the optimizer. *)

\* structure_optimize_get: the run has to be DONE.
Visit(v) ==
  /\ visit[v] = Nowhere
  /\ run = "DONE"
  /\ visit' = [visit EXCEPT ![v] = [at |-> "visiting"]]
  /\ UNCHANGED <<run, simulated, task, profiles, meta, runCounts>>

\* What is stored is the answer ...
AnswerCached(v) ==
  /\ visit[v].at = "visiting"
  /\ profiles # {}
  /\ visit' = [visit EXCEPT ![v] = Nowhere]
  /\ UNCHANGED <<run, simulated, task, profiles, meta, runCounts>>

\* ... unless there is nothing or refresh=1 asks for a search.
BeginSearch(v) ==
  /\ visit[v].at = "visiting"
  /\ searches < MaxSearches
  /\ searches' = searches + 1
  /\ visit' = [visit EXCEPT ![v] = [at |-> "searching"]]
  /\ UNCHANGED <<run, simulated, task, profiles, meta, runFaults, apiCrashes>>

EndSearch(v) ==
  /\ visit[v].at = "searching"
  /\ \E t \in Tables :
       visit' = [visit EXCEPT ![v] = [at |-> "storing", found |-> Candidates(t)]]
  /\ UNCHANGED <<run, simulated, task, profiles, meta, runCounts>>

\* persist_optimized_profiles: the rows, all or none of them, ...
StoreProfiles(v) ==
  /\ visit[v].at = "storing"
  /\ profiles' = profiles \cup visit[v].found
  /\ visit' = [visit EXCEPT ![v] = [at |-> "summing"]]
  /\ UNCHANGED <<run, simulated, task, meta, runCounts>>

\* ... and in a transaction of its own the summary.
StoreMeta(v) ==
  /\ visit[v].at = "summing"
  /\ meta' = TRUE
  /\ visit' = [visit EXCEPT ![v] = Nowhere]
  /\ UNCHANGED <<run, simulated, task, profiles, runCounts>>

\* A statement or the search fails: the visitor gets an error.
VisitFails(v) ==
  /\ visit[v] # Nowhere
  /\ Fault
  /\ visit' = [visit EXCEPT ![v] = Nowhere]
  /\ UNCHANGED <<run, simulated, task, profiles, meta>>

\* The api dies and is started again; nothing takes up the run.
ApiCrash ==
  /\ apiCrashes < MaxApiCrashes
  /\ apiCrashes' = apiCrashes + 1
  /\ task' = IF run = "none" THEN "none" ELSE "ended"
  /\ visit' = [v \in Visitors |-> Nowhere]
  /\ UNCHANGED <<run, simulated, profiles, meta, searches, runFaults>>

VisitStep(v) == EndSearch(v) \/ StoreProfiles(v) \/ StoreMeta(v)

RunNext ==
  \/ CreateRun \/ TaskStep \/ TaskRaises \/ MarkFailedRaises
  \/ \E v \in Visitors :
       Visit(v) \/ AnswerCached(v) \/ BeginSearch(v) \/ VisitStep(v) \/ VisitFails(v)
  \/ ApiCrash

RunSpec == RunInit /\ [][RunNext]_runVars /\ WF_runVars(TaskStep)

-----------------------------------------------------------------------------
(* Properties. *)

\* A search is over a run that has ended well, and its trades are stored.
SearchedIsDone ==
  (profiles # {} \/ \E v \in Visitors : visit[v] # Nowhere)
    => run = "DONE" /\ simulated

\* However many searches have stored their profiles under the run, a cached answer
\* recommends the best survivor of all that are stored, and none only if no
\* survivor is.
CachedIsBest ==
  LET alive == {p \in profiles : ~p.rejected}
      cached == CachedRecommendation(profiles)
  IN  IF alive = {} THEN cached = NoProfile
      ELSE cached \in alive /\ \A p \in alive : p.score <= cached.score

\* "a page revisit after the first run would silently lose them; fixed here": the
\* stored profiles have the summary of a search, unless a failure or a crash came
\* between the two, or the summary is still being stored.
SummaryUnlessTorn ==
  (profiles # {} /\ ~meta)
    => runFaults + apiCrashes > 0 \/ \E v \in Visitors : visit[v].at = "summing"

\* What is stored of a run, and of the searches over it, belongs together.
RunSafe == RunTypeOK /\ SearchedIsDone /\ CachedIsBest /\ SummaryUnlessTorn

\* "a failure marks the run FAILED ... rather than leaving it stuck at RUNNING":
\* true of one failure of the replay or of a statement.  What leaves the run as it
\* is, is a crash, or a failure in the handler of the first.
RunEnds ==
  run = "RUNNING" ~> (run # "RUNNING" \/ apiCrashes > 0 \/ runFaults >= 2)
=============================================================================
