---------------------------- MODULE WatchEpisodes ----------------------------
(***************************************************************************)
(* The watch episodes of one symbol and one strategy of the scanner        *)
(* (episode_manager.py as options_first_hybrid uses it).  An episode       *)
(* freezes the entry and the stop of a setup, per direction, so that the   *)
(* same setup is not announced again at every bar with another ladder.  It *)
(* lives in the memory of the scanner; engine.process_feature writes it    *)
(* back as soon as the strategy has returned a candidate, before the gate  *)
(* has said whether the candidate is published.  The gate's cooldown is    *)
(* kept per symbol and strategy: the two directions share it.              *)
(*                                                                         *)
(* One bar is two steps, EvaluateBar and the gate's verdict, because the   *)
(* handler waits for Redis in between.  Targets, scores and the rest of    *)
(* the candidate follow from entry and stop and are left out;              *)
(* alerted_watch is set in every snapshot and read as TRUE.                *)
(* UpgradeForgotten is a faulty variant, kept to see the properties fail.  *)
(***************************************************************************)
EXTENDS Integers

CONSTANTS
  Directions,   \* a subset of {"bullish", "bearish"}
  MaxPrice,     \* bound: closing prices are 1..MaxPrice
  StopBuffer,   \* distance from the entry to the stop
  WatchTtl,     \* options_hybrid_watch_ttl_min, in ticks
  EpisodeCooldown  \* cooldown_sec, in ticks

ASSUME WatchAssumption ==
  /\ Directions \subseteq {"bullish", "bearish"}
  /\ MaxPrice \in Nat \ {0}
  /\ StopBuffer \in Nat \ {0}
  /\ WatchTtl \in Nat
  /\ EpisodeCooldown \in Nat \ {0}

Prices == 1..MaxPrice
Stops == (1 - StopBuffer)..(MaxPrice + StopBuffer)

VARIABLES
  episode,       \* state.watch_episodes, per direction
  watchCooldown, \* ticks left of infusion:cooldown:{symbol}:{strategy_id}
  candidate,     \* the candidate at the gate, or NothingPending
  alerts,        \* history: tiers published for the episode, per direction
  shown          \* history: the ladder last published, per direction

announced == <<alerts, shown>>
episodeVars == <<episode, watchCooldown, candidate, announced>>

None == [none |-> TRUE]
NothingPending == [none |-> TRUE]

Ages == 0..(WatchTtl + 1)

Episodes == [entry: Prices, stop: Stops, age: Ages, chaseable: BOOLEAN]

Candidates == [dir: Directions, price: Prices, entry: Prices, stop: Stops,
               age: Ages, chaseable: BOOLEAN]

Ladders == [entry: Prices, stop: Stops, age: Ages, broken: BOOLEAN]

Tiers == {"watch", "chase"}

EpisodeTypeOK ==
  /\ episode \in [Directions -> Episodes \cup {None}]
  /\ watchCooldown \in 0..EpisodeCooldown
  /\ candidate \in Candidates \cup {NothingPending}
  /\ alerts \in [Directions -> SUBSET Tiers]
  /\ shown \in [Directions -> Ladders \cup {None}]

EpisodeInit ==
  /\ episode = [d \in Directions |-> None]
  /\ watchCooldown = 0
  /\ candidate = NothingPending
  /\ alerts = [d \in Directions |-> {}]
  /\ shown = [d \in Directions |-> None]

-----------------------------------------------------------------------------
(* One closed bar. *)

\* The close is beyond the stop of a ladder in direction d.
Invalidated(d, price, stop) ==
  \/ d = "bullish" /\ price < stop
  \/ d = "bearish" /\ price > stop

FreshStop(d, price) ==
  IF d = "bullish" THEN price - StopBuffer ELSE price + StopBuffer

\* resolve_ladder_basis: the episode is open and its ladder still stands.
Reusable(d, price) ==
  /\ episode[d] # None
  /\ episode[d].age <= WatchTtl
  /\ ~Invalidated(d, price, episode[d].stop)

\* The close is checked against every ladder shown, for the history only.
Watched(price) ==
  shown' = [d \in Directions |->
    IF shown[d] = None THEN None
    ELSE [shown[d] EXCEPT !.broken = @ \/ Invalidated(d, price, shown[d].stop)]]

\* The strategy's own conditions do not hold: it looks at no episode.
NoCandidate(price) ==
  /\ candidate = NothingPending
  /\ Watched(price)
  /\ UNCHANGED <<episode, watchCooldown, candidate, alerts>>

\* finalize_episode says suppress: the episode is open and this bar does not
\* make it chaseable for the first time.
StaySilent(d, price, chaseable) ==
  /\ candidate = NothingPending
  /\ Reusable(d, price)
  /\ chaseable => episode[d].chaseable
  /\ Watched(price)
  /\ UNCHANGED <<episode, watchCooldown, candidate, alerts>>

UpgradeForgotten(d, price) ==
  /\ candidate = NothingPending
  /\ Reusable(d, price)
  /\ ~episode[d].chaseable
  /\ candidate' = [dir |-> d, price |-> price, entry |-> episode[d].entry,
             stop |-> episode[d].stop, age |-> episode[d].age,
             chaseable |-> TRUE]
  /\ Watched(price)
  /\ UNCHANGED <<episode, watchCooldown, alerts>>

\* The open episode has become chaseable: announce it again, same ladder.
Upgrade(d, price) ==
  /\ candidate = NothingPending
  /\ Reusable(d, price)
  /\ ~episode[d].chaseable
  /\ episode' = [episode EXCEPT ![d].chaseable = TRUE]
  /\ candidate' = [dir |-> d, price |-> price, entry |-> episode[d].entry,
             stop |-> episode[d].stop, age |-> episode[d].age,
             chaseable |-> TRUE]
  /\ Watched(price)
  /\ UNCHANGED <<watchCooldown, alerts>>

Candidate(d, price, chaseable) ==
  [dir |-> d, price |-> price, entry |-> price, stop |-> FreshStop(d, price),
   age |-> 0, chaseable |-> chaseable]

\* No episode, or one that is too old or invalidated by this close: a fresh
\* ladder off the close, and a fresh episode.
Open(d, price, chaseable) ==
  /\ candidate = NothingPending
  /\ ~Reusable(d, price)
  /\ episode' = [episode EXCEPT ![d] =
       [entry |-> price, stop |-> FreshStop(d, price), age |-> 0,
        chaseable |-> chaseable]]
  /\ candidate' = Candidate(d, price, chaseable)
  /\ alerts' = [alerts EXCEPT ![d] = {}]
  /\ Watched(price)
  /\ UNCHANGED watchCooldown

\* One evaluation.  options_first_hybrid looks for both directions, one at a
\* bar; vol_vwap_breakout is the instance with Directions = {"bullish"}.
EvaluateBar ==
  \E price \in Prices :
    \/ NoCandidate(price)
    \/ \E d \in Directions :
         \/ Upgrade(d, price)
         \/ \E chaseable \in BOOLEAN :
              StaySilent(d, price, chaseable) \/ Open(d, price, chaseable)

-----------------------------------------------------------------------------
(* The gate and the publication. *)

Tier == IF candidate.chaseable THEN "chase" ELSE "watch"

Published ==
  /\ alerts' = [alerts EXCEPT ![candidate.dir] = @ \cup {Tier}]
  /\ shown' = [shown EXCEPT ![candidate.dir] =
       [entry |-> candidate.entry, stop |-> candidate.stop,
        age |-> candidate.age, broken |-> FALSE]]

Publish ==
  /\ candidate # NothingPending
  /\ watchCooldown = 0
  /\ Published
  /\ watchCooldown' = EpisodeCooldown
  /\ candidate' = NothingPending
  /\ UNCHANGED <<episode>>

\* The publication is cut short between the XADD and the cooldown.
PublishTorn ==
  /\ candidate # NothingPending
  /\ watchCooldown = 0
  /\ Published
  /\ candidate' = NothingPending
  /\ UNCHANGED <<episode, watchCooldown>>

\* The cooldown, another gate or a failing command stops the candidate.
Suppress ==
  /\ candidate # NothingPending
  /\ candidate' = NothingPending
  /\ UNCHANGED <<episode, watchCooldown, announced>>

\* The scanner restarts with empty memory.
EpisodeRestart ==
  /\ episode' = [d \in Directions |-> None]
  /\ candidate' = NothingPending
  /\ alerts' = [d \in Directions |-> {}]
  /\ shown' = [d \in Directions |-> None]
  /\ UNCHANGED watchCooldown

\* Past the watch's life an age says nothing more.
Older(age) == IF age <= WatchTtl THEN age + 1 ELSE age

\* A bar's time passes between two bars.
EpisodeTick ==
  /\ candidate = NothingPending
  /\ episode' = [d \in Directions |->
       IF episode[d] = None THEN None
       ELSE [episode[d] EXCEPT !.age = Older(@)]]
  /\ shown' = [d \in Directions |->
       IF shown[d] = None THEN None ELSE [shown[d] EXCEPT !.age = Older(@)]]
  /\ watchCooldown' = IF watchCooldown > 0 THEN watchCooldown - 1 ELSE 0
  /\ UNCHANGED <<candidate, alerts>>

EpisodeNext ==
  \/ EvaluateBar
  \/ Publish
  \/ PublishTorn
  \/ Suppress
  \/ EpisodeRestart
  \/ EpisodeTick

EpisodeSpec == EpisodeInit /\ [][EpisodeNext]_episodeVars

-----------------------------------------------------------------------------
(* Properties. *)

Publishes == Publish \/ PublishTorn

\* A ladder that has been shown stays the one that is shown, until it is too
\* old, its stop has been broken, or the scanner has restarted: whatever
\* candidates the gate has stopped in between.
LadderFrozen ==
  [][Publishes =>
       LET was == shown[candidate.dir]
       IN  \/ was = None
           \/ was.entry = candidate.entry /\ was.stop = candidate.stop
           \/ was.age > WatchTtl
           \/ was.broken]_episodeVars

\* An episode is announced at most once in each tier, and never as a watch
\* after it has been announced as chaseable.
OneAlertPerTier ==
  [][Publishes => Tier \notin alerts[candidate.dir]
                  /\ (Tier = "watch" => alerts[candidate.dir] = {})]_episodeVars

\* What is published is still a setup: the bar it comes from has not closed
\* beyond its stop, and its ladder is not older than the watch allows.
PublishedLadderStands ==
  candidate # NothingPending =>
    /\ candidate.dir = "bullish" => candidate.price >= candidate.stop
    /\ candidate.dir = "bearish" => candidate.price <= candidate.stop
    /\ candidate.age <= WatchTtl

\* What the channel is told of a setup: a ladder that stands, the same one as
\* long as it does, and once per tier.
EpisodeSafe ==
  /\ []EpisodeTypeOK
  /\ []PublishedLadderStands
  /\ LadderFrozen
  /\ OneAlertPerTier

\* "same still-open episode, nothing changed since the last alert"
\* (finalize_episode): an episode that keeps silent has been announced, in the
\* tier it is marked with.
MarkedMeansAnnounced ==
  \A d \in Directions :
    episode[d] # None /\ candidate = NothingPending =>
      (IF episode[d].chaseable THEN "chase" ELSE "watch") \in alerts[d]

-----------------------------------------------------------------------------
(* What makes EpisodeSafe inductive. *)

\* Ladder l is the one of episode e, at the same age.
SameLadder(l, e) == l.entry = e.entry /\ l.stop = e.stop /\ l.age = e.age

\* The candidate at the gate is the episode that was written back before.
CandidateOfEpisode ==
  candidate # NothingPending =>
    /\ episode[candidate.dir] # None
    /\ SameLadder(candidate, episode[candidate.dir])
    /\ candidate.chaseable = episode[candidate.dir].chaseable

\* A ladder that still counts is the ladder of the open episode.
ShownIsOpen ==
  \A d \in Directions :
    shown[d] # None =>
      \/ shown[d].age > WatchTtl
      \/ shown[d].broken
      \/ episode[d] # None /\ SameLadder(shown[d], episode[d])

\* What has been announced as chaseable is marked so.
ChaseIsMarked ==
  \A d \in Directions :
    "chase" \in alerts[d] => episode[d] # None /\ episode[d].chaseable

CandidateIsNews ==
  candidate # NothingPending =>
    IF candidate.chaseable THEN "chase" \notin alerts[candidate.dir]
                           ELSE alerts[candidate.dir] = {}

EpisodeIInv ==
  /\ EpisodeTypeOK
  /\ PublishedLadderStands
  /\ CandidateOfEpisode
  /\ ShownIsOpen
  /\ ChaseIsMarked
  /\ CandidateIsNews
=============================================================================
